------------------------- MODULE InsensitiveLockSet -------------------------
(****************************************************************************)
(* The lock sets of the race detector: for every instruction the locks that *)
(* may be held behind it, whatever the context (InsensitiveLockSet.cpp).    *)
(* prog.order has the functions in the order of the module.                 *)
(****************************************************************************)
EXTENDS ThreadProgram

VARIABLES
  worklist,     \* the instructions to visit, the next one last
  outLockSetMap \* instructions to the locks held behind them

lockSetVars == <<worklist, outLockSetMap>>

\* The order of a module names its functions, and control never goes back to the first
\* instruction of one: in LLVM the entry block has no predecessors.
ASSUME LayoutAssumption ==
  \A p \in Programs :
    /\ p.order \in Seq(DOMAIN p.body) /\ DOMAIN p.body \subseteq ToSet(p.order)
    /\ \A f \in DOMAIN p.body : \A i \in DOMAIN p.body[f] :
         p.body[f][i].op \in {"goto", "br", "head"} => i + p.body[f][i].by # 1

\* the instructions of a function in layout order
layout(f) == [i \in DOMAIN prog.body[f] |-> <<f, i>>]

fillWorklist ==
  /\ pass = "fill"
  /\ worklist' = FlattenSeq([k \in DOMAIN prog.order |-> layout(prog.order[k])])
  /\ outLockSetMap' = [n \in Insts |-> {}]
  /\ pass' = "locks"
  /\ UNCHANGED prog

-----------------------------------------------------------------------------

\* what control comes from: the call sites of a function whose first instruction n is,
\* the return of a function called just before n, or the instructions before it
comesFrom(n) ==
  IF n = entryOf(n[1]) THEN callEdgesTo(n[1])
  ELSE {IF ins(m).op = "call" THEN exitOf(ins(m).fun) ELSE m : m \in {k \in instsOf(n[1]) : n \in ToSet(succs(k))}}

inLS(n) == UNION {outLockSetMap[m] : m \in comesFrom(n)}

outLS(n) ==
  CASE ins(n).op = "lock"   -> inLS(n) \cup {ins(n).l}
    [] ins(n).op = "unlock" -> inLS(n) \ {ins(n).l}
    [] OTHER                -> inLS(n)

\* mutated: the callers of a function that returns are not visited again
pushedInside(n) ==
  CASE ins(n).op = "ret"  -> {<<>>}
    [] ins(n).op = "call" -> {<<entryOf(ins(n).fun)>>}
    [] OTHER              -> {succs(n)}

\* what is visited again, in the order it is pushed: behind the call sites of a function
\* that returns, which come in the order of their addresses
pushed(n) ==
  CASE ins(n).op = "ret"  -> SetToSeqs({<<m[1], m[2] + 1>> : m \in callEdgesTo(n[1])})
    [] ins(n).op = "call" -> {<<entryOf(ins(n).fun)>>}
    [] OTHER              -> {succs(n)}

\* mutated: every visit pushes
neverUnchanged(n) == FALSE

unchanged(n) == outLS(n) = outLockSetMap[n]

visit ==
  /\ pass = "locks" /\ worklist # <<>>
  /\ LET n == Last(worklist)
     IN IF unchanged(n)
        THEN worklist' = Front(worklist) /\ UNCHANGED outLockSetMap
        ELSE /\ outLockSetMap' = [outLockSetMap EXCEPT ![n] = outLS(n)]
             /\ \E s \in pushed(n) : worklist' = Front(worklist) \o s
  /\ UNCHANGED <<prog, pass>>

\* Without instructions left the lock sets are final.
lockSetsDone ==
  /\ pass = "locks" /\ worklist = <<>>
  /\ pass' = "nodes"
  /\ UNCHANGED <<prog, lockSetVars>>

LockSetInit == worklist = <<>> /\ outLockSetMap = <<>>
LockSetNext == fillWorklist \/ visit \/ lockSetsDone
=============================================================================
