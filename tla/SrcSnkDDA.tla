------------------------------ MODULE SrcSnkDDA ------------------------------
(****************************************************************************)
(* SrcSnkDDA::analyze with ProgSlice, for the sources and sinks of the leak *)
(* checker and of the double-free checker derived from it.  One slice after *)
(* another: forward from the source with calling contexts, backward from    *)
(* the sinks found, then the conditions under which the source reaches each *)
(* node of the slice.                                                       *)
(****************************************************************************)
EXTENDS PathCondAllocator

CONSTANTS Programs, \* the programs to analyse
          CxtLimit  \* longest context, option -cxtlimit

\* Programs are what LLVM takes: SSA, with a value for every predecessor in a phi, branches
\* that stay in their function, and calls that agree with what they call.
ASSUME ProgramsAssumption ==
  /\ CxtLimit \in Nat
  /\ \A P \in Programs :
       /\ IsFiniteSet(blocks(P)) /\ Main \in DOMAIN P.entry
       /\ \A f \in DOMAIN P.entry : P.entry[f] \in blocks(P) /\ P.fun[P.entry[f]] = f
       /\ \A b \in blocks(P) :
            /\ P.fun[b] \in DOMAIN P.entry
            /\ Len(P.code[b]) \in Nat /\ DOMAIN P.code[b] = 1..Len(P.code[b])
            /\ Len(P.succ[b]) \in Nat /\ DOMAIN P.succ[b] = 1..Len(P.succ[b])
            /\ \A s \in succs(P, b) : s \in blocks(P) /\ P.fun[s] = P.fun[b] /\ s # P.entry[P.fun[b]]
            /\ b \in DOMAIN P.test => {1, 2} \subseteq DOMAIN P.succ[b]
       /\ \A i \in insts(P) :
            /\ at(P, i).op = "phi" =>
                 /\ IsFiniteSet(DOMAIN at(P, i).from) /\ i[1] # P.entry[P.fun[i[1]]]
                 /\ \A b \in blocks(P) : i[1] \in succs(P, b) => b \in DOMAIN at(P, i).from
            /\ at(P, i).op = "call" =>
                 /\ at(P, i).fun \in DOMAIN P.entry
                 /\ at(P, i).arg # Nil => P.param[at(P, i).fun] # Nil
                 /\ P.ret[at(P, i).fun] # Nil => at(P, i).def # Nil
            /\ at(P, i).op \notin {"call", "exit"} => at(P, i).def # Nil
            /\ at(P, i).op # "exit" /\ at(P, i).def # Nil =>
                 /\ ~isParam(P, at(P, i).def)
                 /\ \A j \in insts(P) : at(P, j).op # "exit" /\ at(P, j).def = at(P, i).def => j = i

VARIABLES
  prog,       \* the program
  pass,       \* what is being done
  svfg,       \* its value-flow graph
  info,       \* what the path-condition allocator knows of it
  sources,    \* sources without a slice yet
  slice,      \* the current slice
  worklist,   \* items or nodes, first in first out
  visited,    \* items forward, nodes backward
  sinksLeft,  \* sinks still to be traversed from
  reports     \* sources done to the outcome of their slices

saberVars == <<svfg, info, sources, slice, worklist, visited, sinksLeft, reports>>

NoSlice == [root |-> Nil, forward |-> {}, backward |-> {}, sinks |-> {}, vfCond |-> <<>>,
            partial |-> FALSE, glob |-> FALSE]

isSink(n)  == nodeOp(prog, n) = "free"
isGlobal(n) == nodeOp(prog, n) = "global"
outEdges(n) == SetToSeq({e \in svfg : e.src = n})
inEdges(n)  == SetToSeq({e \in svfg : e.dst = n})

-----------------------------------------------------------------------------
(* LeakChecker::initSrcs: the allocations, or where their wrappers return.  *)

\* the edges along which isInAWrapper follows a value in its function, the nodes it
\* reaches so and the other edges at them
copying(P, E)  == {e \in E : e.kind = "intra" /\ nodeOp(P, e.dst) \in {"copy", "phi"}}

copies(P, E, n) ==
  LET grow[k \in 0..Cardinality(E)] ==
        IF k = 0 THEN {n}
        ELSE LET A == grow[k - 1] IN A \cup {e.dst : e \in {x \in copying(P, E) : x.src \in A}}
  IN grow[Cardinality(E)]

leaving(P, E, n) == {e \in E \ copying(P, E) : e.src \in copies(P, E, n)}

isInAWrapper(P, E, n) ==
  /\ \A e \in leaving(P, E, n) : e.kind = "ret"
  /\ \E e \in leaving(P, E, n) : e.kind = "ret"

\* the nodes an allocation is followed to, wrapper by wrapper
followed(P, E, n) ==
  LET grow[k \in 0..Cardinality(E)] ==
        IF k = 0 THEN {n}
        ELSE LET A == grow[k - 1]
             IN A \cup UNION {{e.dst : e \in leaving(P, E, m)} : m \in {x \in A : isInAWrapper(P, E, x)}}
  IN grow[Cardinality(E)]

inDeadFunction(P, n) == isDeadFunction(P, P.fun[getBB(P, n)])
allocations(P)       == {at(P, i).def : i \in named(P, "malloc")}

sourcesOf(P, E, n) ==
  IF inDeadFunction(P, n) THEN {}
  ELSE {m \in followed(P, E, n) : ~isInAWrapper(P, E, m) /\ ~inDeadFunction(P, m)}

initSrcs(P, E) == UNION {sourcesOf(P, E, n) : n \in allocations(P)}

-----------------------------------------------------------------------------

initialize ==
  /\ pass = "init"
  /\ svfg' = buildSVFG(prog)
  /\ info' = allocate(prog)
  /\ sources' = initSrcs(prog, svfg')
  /\ pass' = "source"
  /\ UNCHANGED <<prog, slice, worklist, visited, sinksLeft, reports>>

setCurSlice ==
  /\ pass = "source"
  /\ \E s \in sources :
       /\ slice' = [NoSlice EXCEPT !.root = s]
       /\ sources' = sources \ {s}
       /\ worklist' = << <<s, <<>> >> >>
  /\ visited' = {}
  /\ pass' = "forward"
  /\ UNCHANGED <<prog, svfg, info, sinksLeft, reports>>

(* Forward, an item being a node and a context: the calls still open.       *)

\* mutated: an empty context matches no return
matchesOpen(c, cs) == c # <<>> /\ Last(c) = cs

\* mutated: a context at its limit forgets the new call and not the oldest
pushContextFull(c, cs) == IF Len(c) < CxtLimit THEN Append(c, cs) ELSE c

pushContext(c, cs) ==
  IF Len(c) < CxtLimit THEN Append(c, cs) ELSE IF c = <<>> THEN c ELSE Append(Tail(c), cs)
matches(c, cs)     == c = <<>> \/ Last(c) = cs
popContext(c)      == IF c = <<>> THEN c ELSE Front(c)

\* mutated: returns lead to every call
enterableAlways(c, e) == TRUE

enterable(c, e)  == e.kind = "ret" => matches(c, e.cs)
contextOver(c, e) ==
  CASE e.kind = "call" -> pushContext(c, e.cs) [] e.kind = "ret" -> popContext(c) [] OTHER -> c

\* st: the worklist, what was visited, and whether the slice reached a global
forwardpropagate(st, c, e) ==
  LET item == <<e.dst, contextOver(c, e)>>
  IN IF isGlobal(e.dst) \/ st.glob THEN [st EXCEPT !.glob = TRUE]
     ELSE IF ~enterable(c, e) \/ item \in st.visited THEN st
     ELSE [st EXCEPT !.visited = @ \cup {item}, !.q = pushed(@, item)]

\* along the edges of es, one after the other
propagateAlong(st, c, es) ==
  LET done[k \in 0..Len(es)] == IF k = 0 THEN st ELSE forwardpropagate(done[k - 1], c, es[k])
  IN done[Len(es)]

forwardTraverse ==
  /\ pass = "forward" /\ worklist # <<>>
  /\ LET n == Head(worklist)[1]
         c == Head(worklist)[2]
         st == propagateAlong([q |-> Tail(worklist), visited |-> visited, glob |-> slice.glob], c, outEdges(n))
     IN /\ worklist' = st.q /\ visited' = st.visited
        /\ slice' = [slice EXCEPT !.forward = @ \cup {n}, !.glob = st.glob,
                                  !.sinks = IF isSink(n) THEN @ \cup {n} ELSE @,
                                  !.partial = @ \/ isSink(n)]
  /\ UNCHANGED <<prog, pass, svfg, info, sources, sinksLeft, reports>>

\* a slice that reaches a global is not looked at any further
forwardDone ==
  /\ pass = "forward" /\ worklist = <<>>
  /\ pass' = IF slice.glob THEN "report" ELSE "backward"
  /\ sinksLeft' = IF slice.glob THEN {} ELSE slice.sinks
  /\ visited' = {}
  /\ UNCHANGED <<prog, svfg, info, sources, slice, worklist, reports>>

(* Backward from one sink after another, contexts left aside.               *)

backwardStart ==
  /\ pass = "backward" /\ worklist = <<>>
  /\ \E n \in sinksLeft : worklist' = <<n>> /\ sinksLeft' = sinksLeft \ {n}
  /\ UNCHANGED <<prog, pass, svfg, info, sources, slice, visited, reports>>

\* mutated: nodes outside the forward slice are taken too
backwardTraverseAll ==
  /\ pass = "backward" /\ worklist # <<>>
  /\ LET n == Head(worklist)
         new == {e.src : e \in {x \in svfg : x.dst = n}} \ visited
     IN /\ worklist' = Tail(worklist) \o SetToSeq(new) /\ visited' = visited \cup new
        /\ slice' = [slice EXCEPT !.backward = @ \cup {n}]
  /\ UNCHANGED <<prog, pass, svfg, info, sources, sinksLeft, reports>>

backwardTraverse ==
  /\ pass = "backward" /\ worklist # <<>>
  /\ LET n == Head(worklist)
         st == FoldLeft(LAMBDA a, e : IF e.src \in a.visited THEN a
                                      ELSE [q |-> pushed(a.q, e.src), visited |-> a.visited \cup {e.src}],
                        [q |-> Tail(worklist), visited |-> visited], inEdges(n))
     IN /\ worklist' = st.q /\ visited' = st.visited
        /\ slice' = IF n \in slice.forward THEN [slice EXCEPT !.backward = @ \cup {n}] ELSE slice
  /\ UNCHANGED <<prog, pass, svfg, info, sources, sinksLeft, reports>>

backwardDone ==
  /\ pass = "backward" /\ worklist = <<>> /\ sinksLeft = {}
  /\ pass' = "guard"
  /\ worklist' = <<slice.root>>
  /\ slice' = [slice EXCEPT !.vfCond = withCond(<<>>, slice.root, info.all)]
  /\ UNCHANGED <<prog, svfg, info, sources, visited, sinksLeft, reports>>

(* ProgSlice::AllPathReachableSolve: the condition of every node.           *)

getVFCond(m, n) == getCFCond(m, n)

edgeGuard(e) ==
  LET src == getBB(prog, e.src)
      dst == getBB(prog, e.dst)
      val == getLLVMValue(prog, e.src)
  IN CASE e.kind = "call" -> ComputeInterCallVFGGuard(prog, info, src, dst, e.cs[1], val)
       [] e.kind = "ret"  -> ComputeInterRetVFGGuard(prog, info, src, dst, e.cs[1], val)
       [] OTHER           -> ComputeIntraVFGGuard(prog, info, <<>>, src, dst, val).cond

\* mutated: a node is solved again although its condition is what it was
propagateCondAlways(st, cond, e) ==
  IF e.dst \notin slice.backward THEN st
  ELSE [map |-> withCond(st.map, e.dst, getVFCond(st.map, e.dst) \cup (cond \cap edgeGuard(e))),
        q |-> pushed(st.q, e.dst)]

propagateCond(st, cond, e) ==
  LET new == getVFCond(st.map, e.dst) \cup (cond \cap edgeGuard(e))
  IN IF e.dst \notin slice.backward \/ (e.dst \in DOMAIN st.map /\ st.map[e.dst] = new) THEN st
     ELSE [map |-> withCond(st.map, e.dst, new), q |-> pushed(st.q, e.dst)]

propagateCondAlong(st, cond, es) ==
  LET done[k \in 0..Len(es)] == IF k = 0 THEN st ELSE propagateCond(done[k - 1], cond, es[k])
  IN done[Len(es)]

AllPathReachableSolve ==
  /\ pass = "guard" /\ worklist # <<>>
  /\ LET n == Head(worklist)
         cond == getVFCond(slice.vfCond, n)
         st == propagateCondAlong([map |-> slice.vfCond, q |-> Tail(worklist)], cond, outEdges(n))
     IN slice' = [slice EXCEPT !.vfCond = st.map] /\ worklist' = st.q
  /\ UNCHANGED <<prog, pass, svfg, info, sources, visited, sinksLeft, reports>>

solved ==
  /\ pass = "guard" /\ worklist = <<>>
  /\ pass' = "report"
  /\ UNCHANGED <<prog, svfg, info, sources, slice, worklist, visited, sinksLeft, reports>>

-----------------------------------------------------------------------------
(* LeakChecker::reportBug and DoubleFreeChecker::reportBug.                 *)

\* mutated: it is enough that a sink is reached on some path
isSatisfiableForSome == UNION {getVFCond(slice.vfCond, n) : n \in slice.sinks} # {}

isSatisfiableForAll == UNION {getVFCond(slice.vfCond, n) : n \in slice.sinks} = info.all

\* a sink is paired with itself too
isSatisfiableForPairs ==
  \A n, m \in slice.sinks : getVFCond(slice.vfCond, n) \cap getVFCond(slice.vfCond, m) = {}

isAllPathReachable  == slice.glob \/ isSatisfiableForAll
isSomePathReachable == slice.glob \/ slice.partial

reportBug ==
  /\ pass = "report"
  /\ reports' = [s \in DOMAIN reports \cup {slice.root} |->
                   IF s # slice.root THEN reports[s]
                   ELSE [leak |-> IF isAllPathReachable THEN "None"
                                  ELSE IF isSomePathReachable THEN "PartialLeak" ELSE "NeverFree",
                         doubleFree |-> ~isSatisfiableForPairs,
                         glob   |-> slice.glob,
                         guards |-> [n \in slice.sinks |-> getVFCond(slice.vfCond, n)]]]
  /\ slice' = NoSlice
  /\ visited' = {}
  /\ pass' = "source"
  /\ UNCHANGED <<prog, svfg, info, sources, worklist, sinksLeft>>

finalize ==
  /\ pass = "source" /\ sources = {}
  /\ pass' = "run"
  /\ UNCHANGED <<prog, saberVars>>

SaberInit ==
  /\ svfg = {} /\ info = Nil /\ sources = {} /\ slice = NoSlice
  /\ worklist = <<>> /\ visited = {} /\ sinksLeft = {} /\ reports = <<>>

SaberNext ==
  \/ initialize \/ setCurSlice \/ forwardTraverse \/ forwardDone
  \/ backwardStart \/ backwardTraverse \/ backwardDone
  \/ AllPathReachableSolve \/ solved \/ reportBug \/ finalize
=============================================================================
