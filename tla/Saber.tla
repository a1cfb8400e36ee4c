--------------------------------- MODULE Saber ---------------------------------
(****************************************************************************)
(* saber -leak and -dfree: the program is analysed, slice by slice, then it *)
(* runs, and what the reports say of an allocated object is compared with   *)
(* what happens to it.  A run follows one object: which values hold it, in  *)
(* which order branches are taken and at which calls of free it arrives.    *)
(****************************************************************************)
EXTENDS SrcSnkDDA

CONSTANT MaxVisits \* bound: how often a run enters a block
ASSUME VisitsAssumption == MaxVisits \in Nat \ {0}

VARIABLES
  stack,   \* frames [at, prev, holds]: next position, block it came from, the
           \* values of the frame that hold the object
  obj,     \* the allocation of the object followed, or Nil
  reached, \* sources that have held it
  origin,  \* the first of them, or Nil
  freed,   \* calls of free it was passed to
  lost,    \* a value that held it was overwritten, or passed over by a phi
  out,     \* blocks to the place of the successor taken, counted from 0
  varied,  \* a block was left in two ways
  visits,  \* blocks to the times entered
  status   \* "running", "end" or "exit"

runVars == <<stack, obj, reached, origin, freed, lost, out, varied, visits, status>>
vars    == <<prog, pass, saberVars, runVars>>

top      == Last(stack)
here     == top.at[1]
inst     == at(prog, top.at)
is(ops)  == pass = "run" /\ status = "running" /\ top.at \in insts(prog) /\ inst.op \in ops
atEnd    == pass = "run" /\ status = "running" /\ top.at \notin insts(prog)
holds(n) == n \in top.holds
\* the frame at the top with other holders, moved on
moved(h) == Append(Front(stack), [top EXCEPT !.holds = h, !.at[2] = @ + 1])
enters(b) == visits[b] < MaxVisits /\ visits' = [visits EXCEPT ![b] = @ + 1]

\* the nodes of h hold the object
meets(h) ==
  LET met == h \cap DOMAIN reports
  IN /\ reached' = reached \cup met
     /\ origin'  = IF origin = Nil /\ met # {} THEN CHOOSE s \in met : TRUE ELSE origin

\* node n now holds the object or not
define(n, carries) ==
  LET h == IF carries THEN top.holds \cup {n} ELSE top.holds \ {n}
  IN stack' = moved(h) /\ meets(h)

malloc ==
  /\ is({"malloc"})
  /\ \E new \in IF obj = Nil THEN BOOLEAN ELSE {FALSE} :
       /\ define(inst.def, new)
       /\ obj' = IF new THEN inst.def ELSE obj
  /\ lost' = (lost \/ holds(inst.def))
  /\ UNCHANGED <<freed, out, varied, visits, status>>

assign ==
  /\ is({"copy", "store", "load", "global"})
  /\ define(inst.def, holds(inst.arg))
  /\ lost' = (lost \/ (holds(inst.def) /\ ~holds(inst.arg)))
  /\ UNCHANGED <<obj, freed, out, varied, visits, status>>

phi ==
  /\ is({"phi"})
  /\ LET carries == holds(inst.from[top.prev])
     IN /\ define(inst.def, carries)
        /\ lost' = (lost \/ (~carries /\ (Range(inst.from) \cup {inst.def}) \cap top.holds # {}))
  /\ UNCHANGED <<obj, freed, out, varied, visits, status>>

free ==
  /\ is({"free"})
  /\ freed' = IF holds(inst.arg) THEN freed \cup {inst.def} ELSE freed
  /\ stack' = moved(top.holds)
  /\ UNCHANGED <<obj, reached, origin, lost, out, varied, visits, status>>

exit ==
  /\ is({"exit"})
  /\ status' = "exit"
  /\ UNCHANGED <<stack, obj, reached, origin, freed, lost, out, varied, visits>>

call ==
  /\ is({"call"})
  /\ LET h == IF holds(inst.arg) THEN {prog.param[inst.fun]} ELSE {}
     IN /\ stack' = Append(stack, [at |-> <<prog.entry[inst.fun], 1>>, prev |-> Nil, holds |-> h])
        /\ meets(h)
  /\ enters(prog.entry[inst.fun])
  /\ UNCHANGED <<obj, freed, lost, out, varied, status>>

\* the outcomes of the branch at the end of a block; the object is not null
outcomes(b) ==
  IF b \in DOMAIN prog.test /\ holds(prog.test[b].val)
  THEN {IF prog.test[b].op = "eq" THEN 2 ELSE 1}
  ELSE DOMAIN prog.succ[b]

branch ==
  /\ atEnd /\ prog.succ[here] # <<>>
  /\ \E j \in outcomes(here) :
       /\ enters(prog.succ[here][j])
       /\ stack' = Append(Front(stack), [top EXCEPT !.at = <<prog.succ[here][j], 1>>, !.prev = here])
       /\ out' = IF here \in branching(prog) THEN withCond(out, here, j - 1) ELSE out
       /\ varied' = (varied \/ (here \in DOMAIN out /\ out[here] # j - 1))
  /\ UNCHANGED <<obj, reached, origin, freed, lost, status>>

return ==
  /\ atEnd /\ prog.succ[here] = <<>>
  /\ IF Len(stack) = 1 THEN status' = "end" /\ UNCHANGED <<stack, reached, origin, lost>>
     ELSE LET caller  == stack[Len(stack) - 1]
              def     == at(prog, caller.at).def
              carries == holds(prog.ret[prog.fun[here]])
              h       == IF carries THEN caller.holds \cup {def} ELSE caller.holds \ {def}
          IN /\ stack' = Append(Front(Front(stack)), [caller EXCEPT !.holds = h, !.at[2] = @ + 1])
             /\ meets(h)
             /\ lost' = (lost \/ (~carries /\ def \in caller.holds))
             /\ UNCHANGED status
  /\ UNCHANGED <<obj, freed, out, varied, visits>>

RunNext == malloc \/ assign \/ phi \/ free \/ exit \/ call \/ branch \/ return

-----------------------------------------------------------------------------

Init ==
  /\ prog \in Programs
  /\ pass = "init"
  /\ SaberInit
  /\ stack = << [at |-> <<prog.entry[Main], 1>>, prev |-> Nil, holds |-> {}] >>
  /\ obj = Nil /\ reached = {} /\ origin = Nil /\ freed = {} /\ lost = FALSE
  /\ out = <<>> /\ varied = FALSE /\ status = "running"
  /\ visits = [b \in blocks(prog) |-> IF b = prog.entry[Main] THEN 1 ELSE 0]

\* a running program may stop anywhere; the analysis may not
Stopped == pass = "run" /\ UNCHANGED vars

Next ==
  \/ SaberNext /\ UNCHANGED runVars
  \/ RunNext /\ UNCHANGED <<prog, pass, saberVars>>
  \/ Stopped

\* The analysis is one thread, which keeps taking steps until it is done.
Spec == Init /\ [][Next]_vars /\ ([]<>(pass = "run") \/ []<><<TRUE>>_vars)

-----------------------------------------------------------------------------

TypeOK ==
  /\ pass \in {"init", "source", "forward", "backward", "guard", "report", "run"}
  /\ svfg \in {{}, buildSVFG(prog)}
  /\ sources \cup DOMAIN reports \subseteq {at(prog, i).def : i \in named(prog, "malloc") \cup named(prog, "call")}
  /\ slice.backward \subseteq slice.forward /\ slice.sinks \subseteq slice.forward
  /\ \A n \in DOMAIN slice.vfCond : slice.vfCond[n] \subseteq info.all
  /\ Len(stack) \in 1..MaxVisits * Cardinality(DOMAIN prog.entry)
  /\ reached \subseteq DOMAIN reports
  /\ DOMAIN out \subseteq branching(prog) /\ \A b \in DOMAIN out : out[b] + 1 \in DOMAIN prog.succ[b]

(* What a slice is to be: the nodes the value of its root flows to on ways  *)
(* on which every return goes back to the call that was made, read off the  *)
(* calls and returns a function summarises.                                 *)

closure(E, A) ==
  LET grow[k \in 0..Cardinality(E)] ==
        IF k = 0 THEN A
        ELSE LET B == grow[k - 1] IN B \cup {e.dst : e \in {x \in E : x.src \in B}}
  IN grow[Cardinality(E)]

ofKind(K) == {e \in svfg : e.kind \in K}

\* from an argument of a call to its result, once the callee passes it on by the
\* edges found so far
summaries(E) ==
  {vfEdge("intra", q[1].src, q[2].dst, <<>>) : q \in
     {p \in ofKind({"call"}) \X ofKind({"ret"}) : p[1].cs = p[2].cs /\ p[2].src \in closure(E, {p[1].dst})}}

sameLevel ==
  LET grow[k \in 0..Cardinality(svfg)] ==
        IF k = 0 THEN ofKind({"intra"})
        ELSE LET E == grow[k - 1] IN E \cup summaries(E)
  IN grow[Cardinality(svfg)]

flow(n) == closure(sameLevel \cup ofKind({"call"}), closure(sameLevel \cup ofKind({"ret"}), {n}))

\* the longest chain of calls from the main function; as many as there are functions
\* when it comes to a recursion
callDepth(P) ==
  LET depth[k \in 0..Cardinality(DOMAIN P.entry)] ==
        [f \in DOMAIN P.entry |->
           IF k = 0 THEN 0
           ELSE LET d == depth[k - 1]
                IN Max({0} \cup {1 + d[at(P, i).fun] : i \in {j \in named(P, "call") : P.fun[j[1]] = f}})]
  IN depth[Cardinality(DOMAIN P.entry)][Main]

\* Forward, a slice has every node its source flows to with calls and returns matched, also
\* where calls nest deeper than contexts are long; it is given up where one of these nodes
\* is a store to a global (SrcSnkDDA::forwardpropagate, DPItem pushContext, matchContext).
SliceComplete ==
  pass = "report" /\ ~slice.glob =>
    flow(slice.root) \subseteq slice.forward /\ \A n \in flow(slice.root) : ~isGlobal(n)

\* It has no others as long as calls nest no deeper than contexts are long, and is not given
\* up for a global it does not flow to (SrcSnkDDA::forwardpropagate, DPItem matchContext).
SliceExact ==
  pass = "report" /\ callDepth(prog) <= CxtLimit /\ callDepth(prog) < Cardinality(DOMAIN prog.entry) =>
    /\ slice.forward \subseteq flow(slice.root)
    /\ slice.glob => \E n \in flow(slice.root) : isGlobal(n)

(* The run.                                                                 *)

ended == status = "end" /\ obj # Nil

\* the valuations that agree with the branches taken
taken == {v \in info.all : \A b \in DOMAIN out : v[b] = out[b]}

\* functions whose results flow to several calls: guards mix their contexts
resultsShared(P) ==
  \E i, j \in named(P, "call") : i # j /\ at(P, i).fun = at(P, j).fun /\ P.ret[at(P, i).fun] # Nil

\* An object that a source held and that is never freed although the program ends has
\* its source reported, or given up for a global (ProgSlice::AllPathReachableSolve,
\* isSatisfiableForAll, LeakChecker::reportBug).
NoLeakMissed ==
  ended /\ freed = {} /\ ~lost /\ ~resultsShared(prog) =>
    \A s \in reached : reports[s].leak # "None" \/ reports[s].glob

\* An object that is freed has come from a source, and that is not reported as never freed:
\* no way of the object out of its wrappers, down into calls and back is lost, however short
\* contexts are (SrcSnkDDA::forwardpropagate, LeakChecker::initSrcs).
NeverFreeReal == freed # {} => origin # Nil /\ reports[origin].leak # "NeverFree"

\* a loop that ways of several lengths may lead to
joinsBeforeLoop(P) ==
  \E j \in blocks(P) :
    /\ Cardinality({b \in blocks(P) : j \in succs(P, b)} \ latches(P, j)) > 1
    /\ ways(P, Nil, {j}) \cap loopHeaders(P) # {}

\* one function, no loops, and no branch with more than two successors
plain(P) == loopHeaders(P) = {} /\ DOMAIN P.entry = {Main} /\ \A b \in blocks(P) : Len(P.succ[b]) <= 2

\* The guard of a call of free is true of the branches of every run that frees the
\* object there and, in plain programs, false of those of the runs that do not
\* (PathCondAllocator::ComputeIntraVFGGuard, evaluateBranchCond).
GuardsMatchRuns ==
  ended /\ ~varied /\ ~lost /\ ~joinsBeforeLoop(prog) =>
    \A s \in reached : ~reports[s].glob =>
      \A f \in DOMAIN reports[s].guards :
        /\ f \in freed => taken \subseteq reports[s].guards[f]
        /\ f \notin freed /\ plain(prog) => taken \cap reports[s].guards[f] = {}

\* Every analysis ends (CFLSolver::forwardTraverse, ProgSlice::AllPathReachableSolve).
AnalysisEnds == <>(pass = "run")
=============================================================================
