---------------------------- MODULE ThreadProgram ----------------------------
(****************************************************************************)
(* The program the thread analyses read: functions as sequences of          *)
(* instructions, and what LLVM and the thread call graph know about them    *)
(* (successors, loops, post-dominance, call and fork edges).                *)
(*                                                                          *)
(* An instruction <<f, i>> has an operation op and, as the operation needs: *)
(*   fun   the function it calls or forks                                   *)
(*   h,idx the thread handle it forks into or joins, h alone (Plain), the   *)
(*         element of array h the loop counter selects (Counter) or a fixed *)
(*         element of it                                                    *)
(*   l     the lock it acquires or releases                                 *)
(*   pts   the handles its pointer may point to, where it forks through one *)
(*   var,loc  the variable it accesses, and where in the source             *)
(*   by    the distance it jumps; a loop header enters the loop or jumps to *)
(*         the instruction just after the loop                              *)
(*   trip  the trip count of a loop when it is a known constant, else 0     *)
(* A function has one return, its last instruction.                         *)
(****************************************************************************)
EXTENDS Integers, SequencesExt

CONSTANTS Programs, \* the inputs: [body |-> functions to instructions, ...]
          Main      \* the function the operating system starts

\* A module as LLVM has it: what a function calls or forks is in it, and control stays
\* within a function up to its return.
ASSUME ProgramsAssumption ==
  \A p \in Programs :
    /\ IsFiniteSet(DOMAIN p.body) /\ Main \in DOMAIN p.body
    /\ \A f \in DOMAIN p.body :
         LET code == p.body[f]
         IN /\ Len(code) \in Nat \ {0} /\ DOMAIN code = 1 .. Len(code)
            /\ \A i \in DOMAIN code :
                 /\ code[i].op = "ret" <=> i = Len(code)
                 /\ code[i].op \in {"goto", "br", "head"} => i + code[i].by \in 1 .. Len(code)
                 /\ code[i].op \in {"call", "fork"} => code[i].fun \in DOMAIN p.body

\* Every loop is known by its header, as LoopInfo has them where control flow is reducible:
\* a jump back goes to the header of a loop around it.
ASSUME LoopsAssumption ==
  \A p \in Programs : \A f \in DOMAIN p.body : \A i \in DOMAIN p.body[f] :
    LET code  == p.body[f]
        to(k) == k + code[k].by
    IN /\ code[i].op = "head" => to(i) > i
       /\ code[i].op \in {"goto", "br"} /\ to(i) <= i => code[to(i)].op = "head" /\ i < to(to(i))

VARIABLES
  prog, \* the program being analysed
  pass  \* the pass at work; once it is "run" the program runs

Plain   == -1
Counter == -2

-----------------------------------------------------------------------------

Funs       == DOMAIN prog.body
ins(n)     == prog.body[n[1]][n[2]]
instsOf(f) == {<<f, i>> : i \in DOMAIN prog.body[f]}
Insts      == UNION {instsOf(f) : f \in Funs}
entryOf(f) == <<f, 1>>
exitOf(f)  == <<f, Len(prog.body[f])>>

withOp(O)  == {n \in Insts : ins(n).op \in O}
forksites  == withOp({"fork"})
joinsites  == withOp({"join"})

\* successors in control-flow order
succs(n) ==
  LET next == <<n[1], n[2] + 1>>
      to   == <<n[1], n[2] + ins(n).by>>
  IN CASE ins(n).op = "ret"             -> <<>>
       [] ins(n).op = "goto"            -> <<to>>
       [] ins(n).op \in {"br", "head"}  -> <<next, to>>
       [] OTHER                         -> <<next>>

-----------------------------------------------------------------------------
(* Loops are named by their header. *)

contains(h, n) == n[1] = h[1] /\ h[2] <= n[2] /\ n[2] < h[2] + ins(h).by
loopsAt(n)     == {h \in withOp({"head"}) : contains(h, n)}

\* LoopInfo::getLoopFor, where there is one: the innermost loop
getLoop(n) == CHOOSE h \in loopsAt(n) : \A g \in loopsAt(n) : g[2] <= h[2]

getExitBlocks(h) == {s \in instsOf(h[1]) : /\ ~contains(h, s)
                                           /\ \E n \in instsOf(h[1]) : contains(h, n) /\ s \in ToSet(succs(n))}

\* j post-dominates s: the return cannot be reached from s around j
postDominates(j, s) ==
  LET around[k \in Nat] ==
        IF k = 0 THEN {s} \ {j}
        ELSE LET A == around[k - 1]
             IN (A \cup UNION {ToSet(succs(n)) : n \in A}) \ {j}
  IN exitOf(s[1]) \notin around[Len(prog.body[s[1]])]

-----------------------------------------------------------------------------
(* The thread call graph: an edge per call and per fork, labelled by its site *)

sitesOf(f)     == {n \in withOp({"call", "fork"}) : ins(n).fun = f}
callEdgesTo(f) == {n \in withOp({"call"}) : ins(n).fun = f}

sitesFrom(f) == {n \in instsOf(f) : ins(n).op \in {"call", "fork"}}
callees(f)   == {ins(n).fun : n \in sitesFrom(f)}

\* the functions that f reaches by one call or fork or more
reachable(f) ==
  LET closed(F) == callees(f) \subseteq F /\ \A g \in F : callees(g) \subseteq F
  IN {h \in Funs : \A F \in SUBSET Funs : closed(F) => h \in F}

isInCycle(f) == f \in reachable(f)
sameSCC(f, g) == f = g \/ (f \in reachable(g) /\ g \in reachable(f))
=============================================================================
