------------------------- MODULE RaceDetector_proofs -------------------------
(****************************************************************************)
(* Theorems of RaceDetector: the lock sets of InsensitiveLockSet cover the  *)
(* locks that are held, in every run of every program; what the sessions do *)
(* to the logs; and the types of what they build.                           *)
(*                                                                          *)
(* The argument for the lock sets is that of a data-flow analysis.  While   *)
(* the worklist is gone through, an instruction that is not on it has the   *)
(* set its predecessors give it, so that when the list is empty all have;   *)
(* and a set of locks that is held before an instruction is among what its  *)
(* predecessors leave, step by step, into calls and back from them.         *)
(****************************************************************************)
EXTENDS RaceDetector, Threads_proofs

-----------------------------------------------------------------------------
(* Instructions *)

LEMMA LayoutIs ==
  ASSUME prog \in Programs
  PROVE  prog.order \in Seq(Funs) /\ Funs \subseteq ToSet(prog.order)
BY LayoutAssumption DEF Funs

LEMMA Successors ==
  ASSUME prog \in Programs, NEW n \in Insts, NEW s \in ToSet(succs(n))
  PROVE  s \in Insts /\ s[1] = n[1] /\ s # entryOf(n[1]) /\ ins(n).op # "ret"
<1>1. s \in Insts /\ s[1] = n[1] /\ ins(n).op # "ret" BY SuccessorsIn
<1>2. behind(n) # entryOf(n[1]) BY <1>1, NextIs
<1>3. ASSUME ins(n).op \in {"goto", "br", "head"} PROVE target(n) # entryOf(n[1])
  <2>1. n[1] \in Funs /\ n[2] \in DOMAIN prog.body[n[1]] BY InstIs, ProgramIs
  <2>2. n[2] + ins(n).by # 1 BY <1>3, <2>1, LayoutAssumption DEF ins, Funs
  <2> QED BY <2>2 DEF target, entryOf
<1> QED BY <1>1, <1>2, <1>3, SuccessorsAre

-----------------------------------------------------------------------------
(* Where lock sets come from *)

LEMMA ComesFrom ==
  ASSUME prog \in Programs, NEW n \in Insts
  PROVE  /\ ins(n).op # "call" => \A s \in ToSet(succs(n)) : n \in comesFrom(s)
         /\ ins(n).op = "call" => /\ n \in comesFrom(entryOf(ins(n).fun))
                                  /\ exitOf(ins(n).fun) \in comesFrom(behind(n))
<1>1. ASSUME ins(n).op # "call", NEW s \in ToSet(succs(n)) PROVE n \in comesFrom(s)
  <2>1. s[1] = n[1] /\ s # entryOf(s[1]) BY Successors
  <2>2. n \in {k \in instsOf(s[1]) : s \in ToSet(succs(k))} BY <2>1, InstIs
  <2>3. (IF ins(n).op = "call" THEN exitOf(ins(n).fun) ELSE n) = n BY <1>1
  <2> QED BY <2>1, <2>2, <2>3 DEF comesFrom
<1>2. ASSUME ins(n).op = "call" PROVE n \in comesFrom(entryOf(ins(n).fun))
  <2>1. n \in callEdgesTo(ins(n).fun) BY <1>2 DEF callEdgesTo, withOp
  <2>2. entryOf(ins(n).fun)[1] = ins(n).fun BY DEF entryOf
  <2> QED BY <2>1, <2>2 DEF comesFrom
<1>3. ASSUME ins(n).op = "call" PROVE exitOf(ins(n).fun) \in comesFrom(behind(n))
  <2>1. behind(n)[1] = n[1] /\ behind(n) # entryOf(behind(n)[1]) BY <1>3, NextIs
  <2>2. behind(n) \in ToSet(succs(n)) BY <1>3, SuccessorsAre
  <2>3. n \in {k \in instsOf(behind(n)[1]) : behind(n) \in ToSet(succs(k))} BY <2>1, <2>2, InstIs
  <2> QED BY <1>3, <2>1, <2>3 DEF comesFrom
<1> QED BY <1>1, <1>2, <1>3

\* A change at n puts all on the list whose sets come from n.
LEMMA PushedCovers ==
  ASSUME prog \in Programs, NEW n \in Insts, NEW s \in pushed(n)
  PROVE  /\ s \in Seq(Insts)
         /\ \A m \in Insts : n \in comesFrom(m) => m \in ToSet(s)
<1>1. CASE ins(n).op = "ret"
  <2> DEFINE S == {<<m[1], m[2] + 1>> : m \in callEdgesTo(n[1])}
  <2>1. s \in SetToSeqs(S) BY <1>1 DEF pushed
  <2>2. S \subseteq Insts
    <3>1. \A m \in callEdgesTo(n[1]) : m \in Insts /\ ins(m).op # "ret" BY DEF callEdgesTo, withOp
    <3>2. \A m \in callEdgesTo(n[1]) : behind(m) \in Insts BY <3>1, NextIs
    <3> QED BY <3>2 DEF behind
  <2>3. IsFiniteSet(S) BY <2>2, CallsFinite, FS_Subset
  <2> HIDE DEF S
  <2>4. s \in Seq(S) /\ ToSet(s) = S BY <2>1, <2>3, Enumerates
  <2>5. s \in Seq(Insts) BY <2>2, <2>4
  <2>6. ASSUME NEW m \in Insts, n \in comesFrom(m) PROVE m \in S
    <3>1. m # entryOf(m[1])
      <4>1. ASSUME m = entryOf(m[1]) PROVE FALSE
        <5>1. n \in callEdgesTo(m[1]) BY <2>6, <4>1 DEF comesFrom
        <5> QED BY <1>1, <5>1 DEF callEdgesTo, withOp
      <4> QED BY <4>1
    <3>2. PICK k \in instsOf(m[1]) : /\ m \in ToSet(succs(k))
                                     /\ n = IF ins(k).op = "call" THEN exitOf(ins(k).fun) ELSE k
      BY <2>6, <3>1 DEF comesFrom
    <3>3. k \in Insts BY <3>2, InstIs DEF Insts
    <3>4. ins(k).op # "ret" BY <3>2, <3>3, Successors
    <3>5. ins(k).op = "call" /\ n = exitOf(ins(k).fun) BY <1>1, <3>2, <3>4
    <3>6. n[1] = ins(k).fun BY <3>5 DEF exitOf
    <3>7. k \in callEdgesTo(n[1]) BY <3>3, <3>5, <3>6 DEF callEdgesTo, withOp
    <3>8. m = behind(k) BY <3>2, <3>5, SuccessorsAre
    <3> QED BY <3>7, <3>8 DEF S, behind
  <2> QED BY <2>4, <2>5, <2>6
<1>2. CASE ins(n).op = "call"
  <2>1. s = <<entryOf(ins(n).fun)>> BY <1>2 DEF pushed
  <2>2. entryOf(ins(n).fun) \in Insts BY <1>2, InstHas, Ends
  <2>3. s \in Seq(Insts) /\ ToSet(s) = {entryOf(ins(n).fun)} BY <2>1, <2>2 DEF ToSet
  <2>4. ASSUME NEW m \in Insts, n \in comesFrom(m) PROVE m = entryOf(ins(n).fun)
    <3>1. CASE m = entryOf(m[1])
      <4>1. n \in callEdgesTo(m[1]) BY <2>4, <3>1 DEF comesFrom
      <4>2. ins(n).fun = m[1] BY <4>1 DEF callEdgesTo
      <4> QED BY <3>1, <4>2
    <3>2. CASE m # entryOf(m[1])
      <4>1. PICK k \in instsOf(m[1]) : /\ m \in ToSet(succs(k))
                                       /\ n = IF ins(k).op = "call" THEN exitOf(ins(k).fun) ELSE k
        BY <2>4, <3>2 DEF comesFrom
      <4>2. k \in Insts BY <4>1, InstIs DEF Insts
      <4>3. ins(k).op = "call" /\ n = exitOf(ins(k).fun) BY <1>2, <4>1
      <4>4. ins(n).op = "ret" BY <4>2, <4>3, InstHas, Ends
      <4> QED BY <1>2, <4>4
    <3> QED BY <3>1, <3>2
  <2> QED BY <2>3, <2>4
<1>3. CASE ins(n).op \notin {"ret", "call"}
  <2>1. s = succs(n) BY <1>3 DEF pushed
  <2>2. s \in Seq(ToSet(s)) /\ ToSet(s) \subseteq Insts BY <2>1, SuccessorsAre, Successors
  <2>3. s \in Seq(Insts) BY <2>2
  <2>4. ASSUME NEW m \in Insts, n \in comesFrom(m) PROVE m \in ToSet(s)
    <3>1. m # entryOf(m[1])
      <4>1. ASSUME m = entryOf(m[1]) PROVE FALSE
        <5>1. n \in callEdgesTo(m[1]) BY <2>4, <4>1 DEF comesFrom
        <5> QED BY <1>3, <5>1 DEF callEdgesTo, withOp
      <4> QED BY <4>1
    <3>2. PICK k \in instsOf(m[1]) : /\ m \in ToSet(succs(k))
                                     /\ n = IF ins(k).op = "call" THEN exitOf(ins(k).fun) ELSE k
      BY <2>4, <3>1 DEF comesFrom
    <3>3. k \in Insts BY <3>2, InstIs DEF Insts
    <3>4. ins(k).op # "call"
      <4>1. ASSUME ins(k).op = "call" PROVE FALSE
        <5>1. n = exitOf(ins(k).fun) /\ ins(k).fun \in Funs BY <3>2, <3>3, <4>1, InstHas
        <5> QED BY <1>3, <5>1, Ends
      <4> QED BY <4>1
    <3> QED BY <2>1, <3>2, <3>4
  <2> QED BY <2>3, <2>4
<1> QED BY <1>1, <1>2, <1>3

-----------------------------------------------------------------------------
(* The inductive invariant *)

\* the passes after the lock sets
collected == {"nodes", "calls", "forks", "joins", "access", "detect", "files", "methods", "vars",
              "write", "writing", "run"}

\* What is not on the worklist has the set that its predecessors give it.
Settled ==
  /\ pass = "locks" => worklist \in Seq(Insts)
  /\ pass = "locks" \/ pass \in collected => DOMAIN outLockSetMap = Insts
  /\ pass = "locks" => \A n \in Insts \ ToSet(worklist) : unchanged(n)
  /\ pass \in collected => \A n \in Insts : unchanged(n)

\* What an instance holds before its next instruction its predecessors leave.
Covered ==
  \A i \in DOMAIN running : \A n \in Insts :
    running[i].stack # <<>> /\ at(i) = n => held(i) \subseteq inLS(n)

CollectInv == prog \in Programs /\ Settled /\ Runs /\ Covered

-----------------------------------------------------------------------------
(* The analysis *)

LEMMA SameProgram ==
  ASSUME prog' = prog
  PROVE  /\ Funs' = Funs /\ Insts' = Insts
         /\ \A n : ins(n)' = ins(n) /\ comesFrom(n)' = comesFrom(n) /\ behind(n)' = behind(n)
<1>1. Funs' = Funs /\ \A n : ins(n)' = ins(n) BY DEF Funs, ins
<1>2. \A f : instsOf(f)' = instsOf(f) /\ entryOf(f)' = entryOf(f) /\ exitOf(f)' = exitOf(f)
  BY DEF instsOf, entryOf, exitOf
<1>3. Insts' = Insts BY <1>1, <1>2 DEF Insts
<1>4. \A f : callEdgesTo(f)' = callEdgesTo(f) BY <1>1, <1>3 DEF callEdgesTo, withOp
<1>5. \A n : succs(n)' = succs(n) BY <1>1 DEF succs
<1>6. \A n : comesFrom(n)' = comesFrom(n) BY <1>1, <1>2, <1>4, <1>5 DEF comesFrom
<1> QED BY <1>1, <1>3, <1>6 DEF behind

LEMMA ComesFromInsts == ASSUME prog \in Programs, NEW n \in Insts PROVE comesFrom(n) \subseteq Insts
<1>1. CASE n = entryOf(n[1]) BY <1>1 DEF comesFrom, callEdgesTo, withOp
<1>2. CASE n # entryOf(n[1])
  <2> SUFFICES ASSUME NEW m \in instsOf(n[1])
               PROVE  (IF ins(m).op = "call" THEN exitOf(ins(m).fun) ELSE m) \in Insts
    BY <1>2 DEF comesFrom
  <2>1. m \in Insts BY InstIs DEF Insts
  <2> QED BY <2>1, InstHas, Ends
<1> QED BY <1>1, <1>2

\* A set depends only on those it comes from.
LEMMA Depends ==
  ASSUME prog \in Programs, prog' = prog, NEW m \in Insts,
         \A k \in comesFrom(m) : outLockSetMap'[k] = outLockSetMap[k]
  PROVE  inLS(m)' = inLS(m) /\ outLS(m)' = outLS(m)
<1>1. inLS(m)' = inLS(m) BY SameProgram DEF inLS
<1> QED BY <1>1, SameProgram DEF outLS

LEMMA FillSettles ==
  ASSUME prog \in Programs, fillWorklist
  PROVE  Settled'
<1>1. /\ worklist' = FlattenSeq([k \in DOMAIN prog.order |-> layout(prog.order[k])])
      /\ outLockSetMap' = [n \in Insts |-> {}]
      /\ pass' = "locks" /\ prog' = prog
  BY DEF fillWorklist
<1> DEFINE ss == [k \in DOMAIN prog.order |-> layout(prog.order[k])]
<1>2. prog.order \in Seq(Funs) /\ Funs \subseteq ToSet(prog.order) BY LayoutIs
<1>3. ASSUME NEW f \in Funs PROVE layout(f) \in Seq(Insts) /\ ToSet(layout(f)) = instsOf(f)
  <2>1. Len(prog.body[f]) \in Nat /\ DOMAIN prog.body[f] = 1 .. Len(prog.body[f]) BY ProgramIs
  <2>2. \A i \in 1 .. Len(prog.body[f]) : <<f, i>> \in Insts BY InstAt
  <2>3. layout(f) = [i \in 1 .. Len(prog.body[f]) |-> <<f, i>>] BY <2>1 DEF layout
  <2>4. layout(f) \in Seq(Insts) BY <2>1, <2>2, <2>3
  <2>5. ToSet(layout(f)) = instsOf(f) BY <2>1, <2>3 DEF ToSet, instsOf
  <2> QED BY <2>4, <2>5
<1>4. DOMAIN prog.order = 1 .. Len(prog.order) /\ Len(prog.order) \in Nat
      /\ \A k \in 1 .. Len(prog.order) : prog.order[k] \in Funs
  BY <1>2
<1>5. ss \in Seq(Seq(Insts)) /\ Len(ss) = Len(prog.order)
  <2>1. ss = [k \in 1 .. Len(prog.order) |-> layout(prog.order[k])] BY <1>4
  <2>2. \A k \in 1 .. Len(prog.order) : layout(prog.order[k]) \in Seq(Insts) BY <1>3, <1>4
  <2> HIDE DEF ss
  <2> QED BY <1>4, <2>1, <2>2
<1>6. \A k \in 1 .. Len(prog.order) : ss[k] = layout(prog.order[k]) BY <1>4
<1> HIDE DEF ss
<1>7. worklist' \in Seq(Insts) /\ \A j \in 1 .. Len(ss) : ToSet(ss[j]) \subseteq ToSet(worklist')
  BY <1>1, <1>5, FlattenCovers DEF ss
<1>8. ASSUME NEW n \in Insts PROVE n \in ToSet(worklist')
  <2>1. n[1] \in Funs /\ n \in instsOf(n[1]) BY InstIs
  <2>2. PICK k \in 1 .. Len(prog.order) : prog.order[k] = n[1] BY <1>2, <1>4, <2>1 DEF ToSet
  <2>3. n \in ToSet(ss[k]) BY <1>3, <1>6, <2>1, <2>2
  <2> QED BY <1>5, <1>7, <2>2, <2>3
<1>9. Insts' = Insts BY <1>1, SameProgram
<1>10. pass' \notin collected BY <1>1 DEF collected
<1> QED BY <1>1, <1>7, <1>8, <1>9, <1>10 DEF Settled

LEMMA VisitSettles ==
  ASSUME prog \in Programs, Settled, visit
  PROVE  Settled'
<1>1. pass = "locks" /\ worklist # <<>> /\ prog' = prog /\ pass' = pass BY DEF visit
<1>2. /\ worklist \in Seq(Insts) /\ DOMAIN outLockSetMap = Insts
      /\ \A m \in Insts \ ToSet(worklist) : unchanged(m)
  BY <1>1 DEF Settled
<1> DEFINE n == Last(worklist)
<1>3. n \in Insts /\ Front(worklist) \in Seq(Insts) /\ ToSet(worklist) = ToSet(Front(worklist)) \cup {n}
  BY <1>1, <1>2, PoppedSet
<1>4. Insts' = Insts BY <1>1, SameProgram
<1>5. pass' \notin collected /\ pass' = "locks" BY <1>1 DEF collected
<1> HIDE DEF n
<1>6. CASE unchanged(n)
  <2>1. worklist' = Front(worklist) /\ outLockSetMap' = outLockSetMap BY <1>6 DEF visit, n
  <2>2. ASSUME NEW m \in Insts, m \notin ToSet(worklist') PROVE unchanged(m)'
    <3>1. unchanged(m) BY <1>2, <1>3, <1>6, <2>1, <2>2
    <3>2. outLS(m)' = outLS(m) BY <1>1, <2>1, Depends
    <3> QED BY <2>1, <3>1, <3>2 DEF unchanged
  <2> QED BY <1>2, <1>3, <1>4, <1>5, <2>1, <2>2 DEF Settled
<1>7. CASE ~ unchanged(n)
  <2>1. outLockSetMap' = [outLockSetMap EXCEPT ![n] = outLS(n)] BY <1>7 DEF visit, n
  <2>2. PICK s \in pushed(n) : worklist' = Front(worklist) \o s BY <1>7 DEF visit, n
  <2>3. s \in Seq(Insts) /\ \A m \in Insts : n \in comesFrom(m) => m \in ToSet(s)
    BY <1>3, PushedCovers
  <2>4. worklist' \in Seq(Insts) /\ ToSet(worklist') = ToSet(Front(worklist)) \cup ToSet(s)
    BY <1>3, <2>2, <2>3, JoinedSet
  <2>5. ASSUME NEW m \in Insts, m \notin ToSet(worklist') PROVE unchanged(m)'
    <3>1. n \notin comesFrom(m) BY <2>3, <2>4, <2>5
    <3>2. comesFrom(m) \subseteq Insts BY ComesFromInsts
    <3>3. \A k \in comesFrom(m) : outLockSetMap'[k] = outLockSetMap[k] BY <1>2, <2>1, <3>1, <3>2
    <3>4. outLS(m)' = outLS(m) BY <1>1, <3>3, Depends
    <3>5. outLockSetMap'[m] = outLS(m)
      <4>1. CASE m = n BY <1>2, <2>1, <4>1
      <4>2. CASE m # n
        <5>1. unchanged(m) BY <1>2, <1>3, <2>4, <2>5, <4>2
        <5>2. outLockSetMap'[m] = outLockSetMap[m] BY <1>2, <2>1, <4>2
        <5> QED BY <5>1, <5>2 DEF unchanged
      <4> QED BY <4>1, <4>2
    <3> QED BY <3>4, <3>5 DEF unchanged
  <2>6. DOMAIN outLockSetMap' = Insts BY <1>2, <2>1
  <2> QED BY <1>4, <1>5, <2>4, <2>5, <2>6 DEF Settled
<1> QED BY <1>6, <1>7

\* Other steps leave the lock sets alone, and come after them or before.
LEMMA OtherSettles ==
  ASSUME prog \in Programs, Settled, UNCHANGED <<prog, outLockSetMap>>,
         \/ pass' \in collected /\ (pass \in collected \/ (pass = "locks" /\ worklist = <<>>))
         \/ pass' \notin collected /\ pass' # "locks"
  PROVE  Settled'
<1>1. \A n \in Insts : unchanged(n)' <=> unchanged(n) BY Depends DEF unchanged
<1>2. Insts' = Insts BY SameProgram
<1>3. "locks" \notin collected BY DEF collected
<1>4. CASE pass' \in collected
  <2>1. DOMAIN outLockSetMap = Insts BY <1>3, <1>4 DEF Settled
  <2>2. \A n \in Insts : unchanged(n)
    <3>1. ToSet(<<>>) = {} BY DEF ToSet
    <3> QED BY <1>3, <1>4, <3>1 DEF Settled
  <2> QED BY <1>1, <1>2, <1>3, <1>4, <2>1, <2>2 DEF Settled
<1>5. CASE pass' \notin collected /\ pass' # "locks" BY <1>5 DEF Settled
<1> QED BY <1>4, <1>5

-----------------------------------------------------------------------------
(* The program *)

LEMMA Flow ==
  ASSUME \A n \in Insts : unchanged(n), NEW n \in Insts, NEW m, n \in comesFrom(m)
  PROVE  outLS(n) \subseteq inLS(m)
BY DEF unchanged, inLS

LEMMA HeldBefore ==
  ASSUME CollectInv, NEW i \in DOMAIN running, running[i].stack # <<>>
  PROVE  held(i) \subseteq inLS(at(i))
<1>1. at(i) \in Insts BY TopIs DEF CollectInv
<1> QED BY <1>1 DEF CollectInv, Covered

\* what an instance holds behind an instruction is among what the instruction leaves
LEMMA HeldBehind ==
  ASSUME CollectInv, NEW i \in DOMAIN running,
         access(i) \/ goto(i) \/ branch(i) \/ enterLoop(i) \/ leaveLoop(i) \/ join(i) \/ lock(i) \/ unlock(i)
  PROVE  held(i)' \subseteq outLS(at(i))
<1>1. prog \in Programs /\ Runs BY DEF CollectInv
<1>2. running[i].stack # <<>> BY <1>1, StepIs
<1>3. held(i) \subseteq inLS(at(i)) BY <1>2, HeldBefore
<1> DEFINE m == ins(at(i)).l
<1>4. CASE lock(i)
  <2>1. ins(at(i)).op = "lock" BY <1>4, AtIs DEF lock
  <2>2. owners' = [l \in DOMAIN owners \cup {m} |-> IF l = m THEN i ELSE owners[l]] BY <1>4 DEF lock
  <2>3. outLS(at(i)) = inLS(at(i)) \cup {m} BY <2>1 DEF outLS
  <2> HIDE DEF m
  <2>4. held(i)' \subseteq held(i) \cup {m} BY <2>2 DEF held
  <2> QED BY <1>3, <2>3, <2>4
<1>5. CASE unlock(i)
  <2>1. ins(at(i)).op = "unlock" BY <1>5, AtIs DEF unlock
  <2>2. owners' = IF m \in DOMAIN owners /\ owners[m] = i
                  THEN [k \in DOMAIN owners \ {m} |-> owners[k]] ELSE owners
    BY <1>5 DEF unlock
  <2>3. outLS(at(i)) = inLS(at(i)) \ {m} BY <2>1 DEF outLS
  <2> HIDE DEF m
  <2>4. held(i)' \subseteq held(i) \ {m} BY <2>2 DEF held
  <2> QED BY <1>3, <2>3, <2>4
<1>6. CASE ~ (lock(i) \/ unlock(i))
  <2>1. ins(at(i)).op \notin {"lock", "unlock"} /\ owners' = owners BY <1>1, <1>6, StepIs
  <2>2. outLS(at(i)) = inLS(at(i)) BY <2>1 DEF outLS
  <2>3. held(i)' = held(i) BY <2>1 DEF held
  <2> QED BY <1>3, <2>2, <2>3
<1> QED BY <1>4, <1>5, <1>6

\* the stack of i becomes t
LEMMA StackKeeps ==
  ASSUME CollectInv, pass = "run", UNCHANGED <<prog, pass, outLockSetMap>>,
         NEW i \in DOMAIN running, NEW t \in Seq(Frame), chained(t), toStack(i, t), ownLocks(i),
         t # <<>> => held(i)' \subseteq inLS(t[Len(t)].at)
  PROVE  CollectInv'
<1>1. prog \in Programs /\ Settled /\ Runs /\ Covered BY DEF CollectInv
<1>2. /\ Runs' /\ DOMAIN running' = DOMAIN running /\ running'[i].stack = t
      /\ \A j \in DOMAIN running : j # i => running'[j] = running[j]
  BY <1>1, StackedIs
<1>3. Settled'
  <2>1. pass' \in collected /\ pass \in collected BY DEF collected
  <2> QED BY <1>1, <2>1, OtherSettles
<1>4. Insts' = Insts /\ \A n \in Insts : inLS(n)' = inLS(n) BY <1>1, SameProgram, Depends
<1>5. \A j \in DOMAIN running : j # i => held(j)' \subseteq held(j) BY DEF held, ownLocks
<1>6. Covered'
  <2> SUFFICES ASSUME NEW j \in DOMAIN running', running'[j].stack # <<>>, NEW n \in Insts, at(j)' = n
               PROVE  held(j)' \subseteq inLS(n)
    BY <1>4 DEF Covered
  <2>1. CASE j = i
    <3>1. at(i)' = t[Len(t)].at /\ t # <<>> BY <1>2, <2>1 DEF at, top, Last
    <3> QED BY <2>1, <3>1
  <2>2. CASE j # i
    <3>1. running'[j] = running[j] /\ j \in DOMAIN running BY <1>2, <2>2
    <3>2. at(j) = n BY <3>1 DEF at, top
    <3>3. held(j) \subseteq inLS(n) BY <1>1, <3>1, <3>2 DEF Covered
    <3> QED BY <1>5, <2>2, <3>1, <3>3
  <2> QED BY <2>1, <2>2
<1> QED BY <1>1, <1>2, <1>3, <1>6 DEF CollectInv

LEMMA StepKeeps ==
  ASSUME CollectInv, pass = "run", UNCHANGED <<prog, pass, outLockSetMap>>, NEW i \in DOMAIN running,
         access(i) \/ goto(i) \/ branch(i) \/ enterLoop(i) \/ leaveLoop(i) \/ join(i) \/ lock(i) \/ unlock(i)
  PROVE  CollectInv'
<1>1. prog \in Programs /\ Runs /\ Settled BY DEF CollectInv
<1>2. running[i].stack # <<>> /\ ins(at(i)).op # "call" /\ ownLocks(i) BY <1>1, StepIs
<1>3. PICK fr \in Frame : fr.at \in ToSet(succs(at(i))) /\ fr.at[1] = at(i)[1] /\ toStack(i, moved(i, fr))
  BY <1>1, StepIs
<1>4. at(i) \in Insts BY <1>1, <1>2, TopIs
<1>5. at(i) \in comesFrom(fr.at) BY <1>1, <1>2, <1>3, <1>4, ComesFrom
<1>6. \A n \in Insts : unchanged(n) BY <1>1 DEF Settled, collected
<1>7. outLS(at(i)) \subseteq inLS(fr.at) BY <1>4, <1>5, <1>6, Flow
<1> DEFINE t == moved(i, fr)
<1>8. /\ t \in Seq(Frame) /\ t[Len(t)] = fr
      /\ \A k \in 1 .. Len(t) - 1 : behindCall(t[k + 1].at[1], t[k].at)
  BY <1>1, <1>2, <1>3, MovedIs
<1>9. toStack(i, t) BY <1>3
<1> HIDE DEF t
<1>10. held(i)' \subseteq inLS(t[Len(t)].at) BY <1>7, <1>8, HeldBehind
<1>11. chained(t) BY <1>8 DEF chained
<1> QED BY <1>2, <1>8, <1>9, <1>10, <1>11, StackKeeps

LEMMA CallKeeps ==
  ASSUME CollectInv, pass = "run", UNCHANGED <<prog, pass, outLockSetMap>>, NEW i \in DOMAIN running, call(i)
  PROVE  CollectInv'
<1>1. prog \in Programs /\ Runs /\ Settled BY DEF CollectInv
<1>2. isAt(i, "call") /\ toStack(i, entered(i)) /\ owners' = owners BY DEF call, entered
<1>3. running[i].stack # <<>> /\ ins(at(i)).op = "call" BY <1>2, AtIs
<1> DEFINE g == ins(at(i)).fun
           t == entered(i)
<1>4. /\ at(i) \in Insts /\ g \in Funs /\ t \in Seq(Frame) /\ chained(t) /\ t[Len(t)] = frame(g)
  BY <1>1, <1>2, CalledIs
<1>5. frame(g).at = entryOf(g) BY <1>1, <1>4, FrameIs
<1>6. held(i)' \subseteq inLS(at(i))
  <2>1. held(i)' = held(i) BY <1>2 DEF held
  <2> QED BY <1>3, <2>1, HeldBefore
<1>7. inLS(at(i)) \subseteq inLS(entryOf(g))
  <2>1. at(i) \in comesFrom(entryOf(g)) BY <1>1, <1>3, <1>4, ComesFrom
  <2>2. \A n \in Insts : unchanged(n) BY <1>1 DEF Settled, collected
  <2>3. outLS(at(i)) = inLS(at(i)) BY <1>3 DEF outLS
  <2> QED BY <1>4, <2>1, <2>2, <2>3, Flow
<1>8. ownLocks(i) BY <1>2 DEF ownLocks
<1> HIDE DEF g, t
<1>9. held(i)' \subseteq inLS(t[Len(t)].at) BY <1>4, <1>5, <1>6, <1>7
<1> QED BY <1>2, <1>4, <1>8, <1>9, StackKeeps DEF t

LEMMA RetKeeps ==
  ASSUME CollectInv, pass = "run", UNCHANGED <<prog, pass, outLockSetMap>>, NEW i \in DOMAIN running, ret(i)
  PROVE  CollectInv'
<1>1. prog \in Programs /\ Runs /\ Settled BY DEF CollectInv
<1>2. running[i].stack # <<>> /\ ins(at(i)).op = "ret" BY AtIs DEF ret
<1> DEFINE s == running[i].stack
           t == Front(s)
<1>3. toStack(i, t) /\ owners' = owners BY DEF ret
<1>4. /\ t \in Seq(Frame) /\ chained(t) /\ chained(s) /\ Len(s) \in Nat \ {0} /\ Len(t) = Len(s) - 1
      /\ \A k \in 1 .. Len(s) - 1 : t[k] = s[k]
  BY <1>1, <1>2, ReturnedIs
<1>5. at(i) = s[Len(s)].at /\ at(i) \in Insts BY <1>1, <1>2, TopIs
<1>6. held(i)' \subseteq inLS(at(i))
  <2>1. held(i)' = held(i) BY <1>3 DEF held
  <2> QED BY <1>2, <2>1, HeldBefore
<1>7. ownLocks(i) BY <1>3 DEF ownLocks
<1> HIDE DEF s, t
<1>8. ASSUME t # <<>> PROVE held(i)' \subseteq inLS(t[Len(t)].at)
  <2>1. Len(t) >= 1 /\ Len(t) \in Nat BY <1>4, <1>8
  <2>2. Len(t) \in 1 .. Len(s) - 1 /\ Len(t) + 1 = Len(s) BY <1>4, <2>1
  <2>3. behindCall(at(i)[1], t[Len(t)].at) BY <1>4, <1>5, <2>2 DEF chained
  <2>4. PICK c \in Insts : ins(c).op = "call" /\ ins(c).fun = at(i)[1] /\ t[Len(t)].at = behind(c)
    BY <2>3 DEF behindCall
  <2>5. exitOf(at(i)[1]) = at(i) BY <1>1, <1>2, <1>5, InstIs, InstHas DEF exitOf
  <2>6. at(i) \in comesFrom(behind(c)) BY <1>1, <2>4, <2>5, ComesFrom
  <2>7. \A n \in Insts : unchanged(n) BY <1>1 DEF Settled, collected
  <2>8. outLS(at(i)) = inLS(at(i)) BY <1>2 DEF outLS
  <2>9. outLS(at(i)) \subseteq inLS(behind(c)) BY <1>5, <2>6, <2>7, Flow
  <2> QED BY <1>6, <2>4, <2>8, <2>9
<1> QED BY <1>3, <1>4, <1>7, <1>8, StackKeeps

LEMMA ForkKeeps ==
  ASSUME CollectInv, pass = "run", UNCHANGED <<prog, pass, outLockSetMap>>, NEW i \in DOMAIN running, fork(i)
  PROVE  CollectInv'
<1>1. prog \in Programs /\ Settled /\ Runs /\ Covered BY DEF CollectInv
<1> DEFINE N == Len(running)
           t == moved(i, goOn(i))
<1>2. /\ Runs' /\ owners' = owners /\ N \in Nat /\ DOMAIN running = 1 .. N
      /\ DOMAIN running' = DOMAIN running \cup {N + 1}
      /\ running[i].stack # <<>> /\ ins(at(i)).op = "fork" /\ at(i) \in Insts
      /\ goOn(i) \in Frame /\ goOn(i).at = behind(at(i)) /\ goOn(i).at[1] = at(i)[1]
      /\ running'[i].stack = t /\ \A j \in DOMAIN running : j # i => running'[j] = running[j]
  BY <1>1, ForkedIs
<1>3. t[Len(t)].at = behind(at(i)) BY <1>1, <1>2, MovedIs
<1>4. held(i) \subseteq inLS(behind(at(i)))
  <2>1. \A n \in Insts : unchanged(n) BY <1>1 DEF Settled, collected
  <2>2. behind(at(i)) \in ToSet(succs(at(i))) BY <1>2, SuccessorsAre
  <2>3. at(i) \in comesFrom(behind(at(i))) BY <1>1, <1>2, <2>2, ComesFrom
  <2>4. outLS(at(i)) = inLS(at(i)) BY <1>2 DEF outLS
  <2>5. outLS(at(i)) \subseteq inLS(behind(at(i))) BY <1>2, <2>1, <2>3, Flow
  <2> QED BY <1>2, <2>4, <2>5, HeldBefore
<1> HIDE DEF N, t
<1>5. Settled'
  <2>1. pass' \in collected /\ pass \in collected BY DEF collected
  <2> QED BY <1>1, <2>1, OtherSettles
<1>6. Insts' = Insts /\ \A n \in Insts : inLS(n)' = inLS(n) BY <1>1, SameProgram, Depends
<1>7. Covered'
  <2> SUFFICES ASSUME NEW j \in DOMAIN running', running'[j].stack # <<>>, NEW n \in Insts, at(j)' = n
               PROVE  held(j)' \subseteq inLS(n)
    BY <1>6 DEF Covered
  <2>1. held(j)' = held(j) BY <1>2 DEF held
  <2>2. CASE j = i
    <3>1. at(i)' = t[Len(t)].at BY <1>2 DEF at, top, Last
    <3> QED BY <1>3, <1>4, <2>1, <2>2, <3>1
  <2>3. CASE j = N + 1
    <3>1. N + 1 \notin DOMAIN running BY <1>2
    <3>2. held(j) = {} BY <1>1, <2>3, <3>1 DEF held, Runs
    <3> QED BY <2>1, <3>2
  <2>4. CASE j # i /\ j \in DOMAIN running
    <3>1. running'[j] = running[j] BY <1>2, <2>4
    <3>2. at(j) = n BY <3>1 DEF at, top
    <3>3. held(j) \subseteq inLS(n) BY <1>1, <2>4, <3>1, <3>2 DEF Covered
    <3> QED BY <2>1, <3>3
  <2> QED BY <1>2, <2>2, <2>3, <2>4
<1> QED BY <1>1, <1>2, <1>5, <1>7 DEF CollectInv

LEMMA StartKeeps ==
  ASSUME CollectInv, UNCHANGED <<prog, pass, outLockSetMap>>, start
  PROVE  CollectInv'
<1>1. prog \in Programs /\ Settled /\ Runs /\ Covered BY DEF CollectInv
<1>2. Runs' /\ pass = "run" /\ owners' = owners /\ DOMAIN owners = {} BY <1>1, StartedIs
<1>3. Settled'
  <2>1. pass' \in collected /\ pass \in collected BY <1>2 DEF collected
  <2> QED BY <1>1, <2>1, OtherSettles
<1>4. Covered'
  <2>1. \A j : held(j)' = {} BY <1>2 DEF held
  <2> QED BY <2>1 DEF Covered
<1> QED BY <1>1, <1>2, <1>3, <1>4 DEF CollectInv

LEMMA ThreadsKeep ==
  ASSUME CollectInv, ThreadsNext, UNCHANGED <<prog, pass, outLockSetMap>>
  PROVE  CollectInv'
<1>1. CASE start BY <1>1, StartKeeps
<1>2. ASSUME NEW i \in DOMAIN running,
             \/ access(i) \/ goto(i) \/ branch(i) \/ enterLoop(i) \/ leaveLoop(i) \/ call(i) \/ ret(i)
             \/ fork(i) \/ join(i) \/ lock(i) \/ unlock(i)
      PROVE  CollectInv'
  <2>1. pass = "run" BY DEF CollectInv, Runs
  <2> QED BY <1>2, <2>1, StepKeeps, CallKeeps, RetKeeps, ForkKeeps
<1> QED BY <1>1, <1>2 DEF ThreadsNext

-----------------------------------------------------------------------------
(* The sessions *)

\* while no program runs only the lock sets matter
LEMMA IdleKeeps ==
  ASSUME CollectInv, running = <<>>, UNCHANGED <<prog, running, owners>>, Settled'
  PROVE  CollectInv'
<1>1. prog' \in Programs BY DEF CollectInv
<1>2. DOMAIN running = {} /\ DOMAIN running' = {} OBVIOUS
<1>3. Runs'
  <2>1. running' \in Seq(Instance') OBVIOUS
  <2>2. \A l \in DOMAIN owners' : owners'[l] \in DOMAIN running' BY DEF CollectInv, Runs
  <2> QED BY <1>2, <2>1, <2>2 DEF Runs
<1>4. Covered' BY <1>2 DEF Covered
<1> QED BY <1>1, <1>3, <1>4 DEF CollectInv

LEMMA SessionKeeps ==
  ASSUME CollectInv, Session \/ crash \/ newSession
  PROVE  CollectInv'
<1>1. prog \in Programs /\ Settled /\ Runs BY DEF CollectInv
<1>2. UNCHANGED <<prog, running, owners>>
  <2>1. CASE Session
    BY <2>1 DEF Session, thrVars, inputExistingLogs, collectAccess, detectShared, check, openLog, output,
                UnchangedByOutput, LockSetNext, fillWorklist, visit, lockSetsDone,
                SHBNext, buildIntraProcNode, connectCallEdges, connectForkEdges, connectJoinEdges
  <2>2. CASE crash BY <2>2 DEF crash, UnchangedByOutput, thrVars
  <2>3. CASE newSession BY <2>3 DEF newSession, thrVars
  <2> QED BY <2>1, <2>2, <2>3
<1>3. running = <<>>
  <2>1. CASE Session
    <3>1. pass # "run"
      BY <2>1 DEF Session, inputExistingLogs, collectAccess, detectShared, check, checkFiles, checkMethods,
                  checkVariables, openLog, output, LockSetNext, fillWorklist, visit, lockSetsDone,
                  SHBNext, buildIntraProcNode, connectCallEdges, connectForkEdges, connectJoinEdges
    <3> QED BY <1>1, <3>1 DEF Runs
  <2>2. CASE crash
    <3>1. pass # "run" BY <2>2 DEF crash, working
    <3> QED BY <1>1, <3>1 DEF Runs
  <2>3. CASE newSession
    <3>1. pass = "stopped" \/ running = <<>> BY <2>3 DEF newSession
    <3> QED BY <1>1, <3>1 DEF Runs
  <2> QED BY <2>1, <2>2, <2>3
<1>4. Settled'
  <2>1. CASE LockSetNext
    <3>1. CASE fillWorklist BY <1>1, <3>1, FillSettles
    <3>2. CASE visit BY <1>1, <3>2, VisitSettles
    <3>3. CASE lockSetsDone
      <4>1. pass = "locks" /\ worklist = <<>> /\ pass' = "nodes" /\ UNCHANGED <<prog, outLockSetMap>>
        BY <3>3 DEF lockSetsDone, lockSetVars
      <4>2. pass' \in collected BY <4>1 DEF collected
      <4> QED BY <1>1, <4>1, <4>2, OtherSettles
    <3> QED BY <2>1, <3>1, <3>2, <3>3 DEF LockSetNext
  <2>2. CASE SHBNext /\ UNCHANGED lockSetVars
    <3>1. pass \in {"nodes", "calls", "forks", "joins"} /\ pass' \in {"calls", "forks", "joins", "access"}
      BY <2>2 DEF SHBNext, buildIntraProcNode, connectCallEdges, connectForkEdges, connectJoinEdges
    <3>2. pass \in collected /\ pass' \in collected BY <3>1 DEF collected
    <3>3. UNCHANGED <<prog, outLockSetMap>> BY <1>2, <2>2 DEF lockSetVars
    <3> QED BY <1>1, <3>2, <3>3, OtherSettles
  <2>3. CASE inputExistingLogs /\ UNCHANGED lockSetVars
    <3>1. pass' = "fill" /\ UNCHANGED <<prog, outLockSetMap>> BY <2>3 DEF inputExistingLogs, lockSetVars
    <3>2. pass' \notin collected /\ pass' # "locks" BY <3>1 DEF collected
    <3> QED BY <1>1, <3>1, <3>2, OtherSettles
  <2>4. CASE (collectAccess \/ detectShared \/ check \/ openLog \/ output) /\ UNCHANGED lockSetVars
    <3>1. /\ pass \in {"access", "detect", "files", "methods", "vars", "write", "writing"}
          /\ pass' \in {"detect", "files", "methods", "vars", "write", "writing", "run", "stopped"}
      BY <2>4 DEF collectAccess, detectShared, check, checkFiles, checkMethods, checkVariables, openLog, output
    <3>2. pass \in collected /\ (pass' \in collected \/ (pass' \notin collected /\ pass' # "locks"))
      BY <3>1 DEF collected
    <3>3. UNCHANGED <<prog, outLockSetMap>> BY <1>2, <2>4 DEF lockSetVars
    <3> QED BY <1>1, <3>2, <3>3, OtherSettles
  <2>5. CASE crash
    <3>1. pass' = "stopped" /\ UNCHANGED <<prog, outLockSetMap>> BY <1>2, <2>5 DEF crash, lockSetVars
    <3>2. pass' \notin collected /\ pass' # "locks" BY <3>1 DEF collected
    <3> QED BY <1>1, <3>1, <3>2, OtherSettles
  <2>6. CASE newSession
    <3>1. pass' = "read" BY <2>6 DEF newSession
    <3> QED BY <3>1 DEF Settled, collected
  <2>7. CASE Session BY <2>1, <2>2, <2>3, <2>4, <2>7 DEF Session
  <2> QED BY <2>5, <2>6, <2>7
<1> QED BY <1>2, <1>3, <1>4, IdleKeeps

LEMMA CollectStart == Init => CollectInv
<1> SUFFICES ASSUME Init PROVE CollectInv OBVIOUS
<1>1. prog \in Programs /\ pass = "read" /\ running = <<>> /\ owners = <<>> BY DEF Init, ThreadsInit
<1>2. Settled BY <1>1 DEF Settled, collected
<1>3. DOMAIN running = {} /\ DOMAIN owners = {} BY <1>1
<1>4. running \in Seq(Instance) BY <1>1
<1>5. Runs BY <1>1, <1>3, <1>4 DEF Runs
<1>6. Covered BY <1>3 DEF Covered
<1> QED BY <1>1, <1>2, <1>5, <1>6 DEF CollectInv

LEMMA CollectStep == CollectInv /\ [Next]_vars => CollectInv'
<1> SUFFICES ASSUME CollectInv, [Next]_vars PROVE CollectInv' OBVIOUS
<1>1. CASE Session \/ crash \/ newSession BY <1>1, SessionKeeps
<1>2. CASE ThreadsNext /\ UNCHANGED <<prog, pass, shbVars, lockSetVars, rdbVars>>
  BY <1>2, ThreadsKeep DEF lockSetVars
<1>3. CASE UNCHANGED vars
  <2>1. UNCHANGED <<prog, pass, worklist, outLockSetMap, running, owners>>
    BY <1>3 DEF vars, lockSetVars, thrVars
  <2>2. prog \in Programs /\ Settled /\ Runs /\ Covered BY DEF CollectInv
  <2>3. /\ Insts' = Insts /\ Funs' = Funs /\ \A n : ins(n)' = ins(n) /\ behind(n)' = behind(n)
        /\ \A n \in Insts : inLS(n)' = inLS(n) /\ (unchanged(n)' <=> unchanged(n))
    BY <2>1, <2>2, SameProgram, Depends DEF unchanged
  <2>4. Settled' BY <2>1, <2>2, <2>3 DEF Settled
  <2>5. Runs'
    <3>1. Instance' = Instance BY <2>3 DEF Instance, Frame
    <3> QED BY <2>1, <2>2, <2>3, <3>1 DEF Runs, behindCall
  <2>6. Covered'
    <3>1. \A i : at(i)' = at(i) /\ held(i)' = held(i) BY <2>1 DEF at, top, held
    <3> QED BY <2>1, <2>2, <2>3, <3>1 DEF Covered
  <2> QED BY <2>1, <2>2, <2>4, <2>5, <2>6 DEF CollectInv
<1> QED BY <1>1, <1>2, <1>3 DEF Next, Stopped

LEMMA CollectAlways == Spec => []CollectInv
BY CollectStart, CollectStep, PTL DEF Spec

\* The lock set of an access has every lock that a thread can hold when it makes the access, in every
\* run of every program: whatever the branches, the loops, the calls and the order in which the
\* worklist is gone through (InsensitiveLockSet::analyze, InsensitiveLockSet::visit).
THEOREM HeldCollected == Spec => []HeldIsCollected
<1>1. CollectInv => HeldIsCollected
  <2> SUFFICES ASSUME CollectInv, NEW i \in DOMAIN running, isAt(i, "stmt")
               PROVE  held(i) \subseteq outLockSetMap[at(i)]
    BY DEF HeldIsCollected
  <2>1. running[i].stack # <<>> /\ ins(at(i)).op = "stmt" BY AtIs
  <2>2. pass \in collected BY DEF CollectInv, Runs, collected
  <2>3. at(i) \in Insts BY <2>1, TopIs DEF CollectInv
  <2>4. outLockSetMap[at(i)] = inLS(at(i)) BY <2>1, <2>2, <2>3 DEF CollectInv, Settled, unchanged, outLS
  <2> QED BY <2>1, <2>4, HeldBefore
<1> QED BY <1>1, CollectAlways, PTL

-----------------------------------------------------------------------------
(* The logs *)

\* the passes between reading the logs and writing one
betweenLogs == {"fill", "locks", "nodes", "calls", "forks", "joins", "access", "detect", "files",
                "methods", "vars", "write"}
hasRead     == betweenLogs \cup {"writing", "run"}
filesDone   == {"methods", "vars", "write", "writing", "run"}

other == IF options.shared THEN 1 ELSE 2

\* The disk has what was read until the chosen log is opened; the other log keeps it, and the
\* chosen one has in the end what the session knows.
Disk ==
  /\ logs = <<logs[1], logs[2]>> /\ known = <<known[1], known[2]>>
  /\ pass \in betweenLogs => logs = known
  /\ pass \in {"writing", "run"} => logs[other] = known[other]
  /\ pass = "run" => logs[chosen] = contents

\* A line is never forgotten, and a file is added to the unshared ones only if no log that was
\* read names it, and none of its locations is shared.
Lines ==
  /\ pass \in hasRead => known[1] \subseteq unsharedStrings /\ known[2] \subseteq sharedStrings
  /\ pass \in hasRead \ filesDone => unsharedStrings = known[1]
  /\ pass \in filesDone =>
       \A l \in unsharedStrings \ known[1] : l[1] = "src" =>
         l \notin known[2] /\ \E f \in files(unsharedVarLocs) \ files(sharedVarLocs) : l = src(f)
  /\ pass \in filesDone /\ options.shared /\ options.files =>
       \A f \in files(sharedVarLocs) : src(f) \in sharedStrings

LogInv == Disk /\ Lines

LEMMA LogStart == Init => LogInv
<1> SUFFICES ASSUME Init PROVE LogInv OBVIOUS
<1>1. prog \in Programs /\ pass = "read" /\ logs \in prog.logs /\ known = <<{}, {}>> BY DEF Init
<1>2. logs = <<logs[1], logs[2]>> BY <1>1, InputsAssumption
<1>3. Disk BY <1>1, <1>2 DEF Disk, betweenLogs
<1>4. Lines BY <1>1 DEF Lines, hasRead, betweenLogs, filesDone
<1> QED BY <1>3, <1>4 DEF LogInv

\* what a pass that does not touch the lines leaves
Untouched == UNCHANGED <<prog, options, unsharedVarLocs, sharedVarLocs, unsharedStrings, sharedStrings, known, logs>>

LEMMA UntouchedKeeps ==
  ASSUME LogInv, Untouched,
         \/ pass' = pass
         \/ pass \in betweenLogs \ filesDone /\ pass' \in betweenLogs \ filesDone
         \/ pass' = "stopped"
  PROVE  LogInv'
<1>1. files(unsharedVarLocs)' = files(unsharedVarLocs) /\ files(sharedVarLocs)' = files(sharedVarLocs)
  BY DEF files, Untouched
<1>2. other' = other /\ chosen' = chosen /\ contents' = contents BY DEF other, chosen, contents, Untouched
<1>3. CASE pass' = pass BY <1>1, <1>2, <1>3 DEF LogInv, Disk, Lines, Untouched
<1>4. CASE pass \in betweenLogs \ filesDone /\ pass' \in betweenLogs \ filesDone
  <2>1. pass' \notin {"writing", "run"} BY <1>4 DEF betweenLogs
  <2>2. pass \in hasRead \ filesDone /\ pass' \in hasRead \ filesDone BY <1>4 DEF hasRead
  <2> QED BY <1>4, <2>1, <2>2 DEF LogInv, Disk, Lines, Untouched
<1>5. CASE pass' = "stopped"
  BY <1>5 DEF LogInv, Disk, Lines, Untouched, betweenLogs, hasRead, filesDone
<1> QED BY <1>3, <1>4, <1>5

LEMMA ReadKeeps == ASSUME LogInv, inputExistingLogs PROVE LogInv'
<1>1. /\ unsharedStrings' = logs[1] /\ sharedStrings' = logs[2] /\ known' = logs /\ logs' = logs
      /\ pass' = "fill"
  BY DEF inputExistingLogs
<1>2. Disk'
  <2>1. logs = <<logs[1], logs[2]>> BY DEF LogInv, Disk
  <2> QED BY <1>1, <2>1 DEF Disk
<1>3. pass' \in hasRead \ filesDone BY <1>1 DEF hasRead, betweenLogs, filesDone
<1>4. Lines' BY <1>1, <1>3 DEF Lines
<1> QED BY <1>2, <1>4 DEF LogInv

\* detection finds locations before any file is named
LEMMA DetectKeeps == ASSUME LogInv, detectShared PROVE LogInv'
<1>1. /\ pass = "detect" /\ pass' = "files"
      /\ UNCHANGED <<prog, options, unsharedStrings, sharedStrings, known, logs>>
  BY DEF detectShared, logVars
<1>2. /\ pass \in betweenLogs /\ pass' \in betweenLogs
      /\ pass \in hasRead \ filesDone /\ pass' \in hasRead \ filesDone
  BY <1>1 DEF hasRead, betweenLogs, filesDone
<1>3. Disk' BY <1>1, <1>2 DEF LogInv, Disk
<1>4. Lines' BY <1>1, <1>2 DEF LogInv, Lines
<1> QED BY <1>3, <1>4 DEF LogInv

LEMMA FilesKeep ==
  ASSUME LogInv, checkFiles, UNCHANGED <<prog, options, unsharedVarLocs, sharedVarLocs, known, logs>>
  PROVE  LogInv'
<1>1. pass = "files" /\ pass' = "methods" BY DEF checkFiles
<1>2. /\ pass \in betweenLogs /\ pass' \in betweenLogs /\ pass' \notin {"writing", "run"}
      /\ pass \in hasRead \ filesDone /\ pass' \in hasRead /\ pass' \in filesDone
  BY <1>1 DEF hasRead, betweenLogs, filesDone
<1>3. Disk' BY <1>1, <1>2 DEF LogInv, Disk
<1>4. unsharedStrings = known[1] /\ known[2] \subseteq sharedStrings BY <1>2 DEF LogInv, Lines
<1>5. files(unsharedVarLocs)' = files(unsharedVarLocs) /\ files(sharedVarLocs)' = files(sharedVarLocs)
  BY DEF files
<1> DEFINE New(l) == l \notin known[2] /\ \E f \in files(unsharedVarLocs) \ files(sharedVarLocs) : l = src(f)
<1>6. /\ known[1] \subseteq unsharedStrings' /\ known[2] \subseteq sharedStrings'
      /\ \A l \in unsharedStrings' \ known[1] : New(l)
      /\ options.shared /\ options.files => \A f \in files(sharedVarLocs) : src(f) \in sharedStrings'
  <2>1. CASE ~ options.files BY <1>4, <2>1 DEF checkFiles, logVars
  <2>2. CASE options.files /\ options.shared
    BY <1>4, <2>2 DEF checkFiles, checkSharedFiles
  <2>3. CASE options.files /\ ~ options.shared
    <3> DEFINE new == {f \in files(unsharedVarLocs) : ~ alreadyNamed(f)}
    <3>1. /\ sharedStrings'   = sharedStrings \cup {src(f) : f \in {h \in new : containsShared(h)}}
          /\ unsharedStrings' = unsharedStrings \cup {src(f) : f \in {h \in new : ~ containsShared(h)}}
      BY <2>3 DEF checkFiles, checkUnsharedFiles
    <3>2. ASSUME NEW f \in new, ~ containsShared(f) PROVE New(src(f))
      <4>1. f \in files(unsharedVarLocs) \ files(sharedVarLocs) BY <3>2 DEF containsShared
      <4>2. src(f) \notin known[2] BY <1>4, <3>2 DEF alreadyNamed
      <4> QED BY <4>1, <4>2
    <3> HIDE DEF new, New
    <3>3. \A l \in unsharedStrings' \ known[1] : New(l) BY <1>4, <3>1, <3>2
    <3> QED BY <1>4, <2>3, <3>1, <3>3
  <2> QED BY <2>1, <2>2, <2>3
<1>7. Lines' BY <1>2, <1>5, <1>6 DEF Lines
<1> QED BY <1>3, <1>7 DEF LogInv

\* lines that name methods and variables
LEMMA MoreLinesKeep ==
  ASSUME LogInv, pass \in filesDone, pass' \in filesDone, pass \in betweenLogs, pass' \in betweenLogs,
         UNCHANGED <<prog, options, unsharedVarLocs, sharedVarLocs, known, logs>>,
         sharedStrings \subseteq sharedStrings', unsharedStrings \subseteq unsharedStrings',
         \A l \in unsharedStrings' \ unsharedStrings : l[1] # "src"
  PROVE  LogInv'
<1>1. Disk' BY DEF LogInv, Disk, betweenLogs
<1>2. pass \in hasRead /\ pass' \in hasRead BY DEF hasRead
<1>3. files(unsharedVarLocs)' = files(unsharedVarLocs) /\ files(sharedVarLocs)' = files(sharedVarLocs)
  BY DEF files
<1>4. Lines' BY <1>2, <1>3 DEF LogInv, Lines
<1> QED BY <1>1, <1>4 DEF LogInv

LEMMA MethodsKeep ==
  ASSUME LogInv, checkMethods, UNCHANGED <<prog, options, unsharedVarLocs, sharedVarLocs, known, logs>>
  PROVE  LogInv'
<1>1. pass = "methods" /\ pass' = "vars" BY DEF checkMethods
<1>2. pass \in filesDone /\ pass' \in filesDone /\ pass \in betweenLogs /\ pass' \in betweenLogs
  BY <1>1 DEF filesDone, betweenLogs
<1>3. method[1] # "src" BY DEF method
<1>4. /\ sharedStrings \subseteq sharedStrings' /\ unsharedStrings \subseteq unsharedStrings'
      /\ unsharedStrings' \ unsharedStrings \subseteq {method}
  BY DEF checkMethods, checkUnsharedMethods, checkSharedMethods, logVars
<1> QED BY <1>2, <1>3, <1>4, MoreLinesKeep

LEMMA VariablesKeep ==
  ASSUME LogInv, checkVariables, UNCHANGED <<prog, options, unsharedVarLocs, sharedVarLocs, known, logs>>
  PROVE  LogInv'
<1>1. pass = "vars" /\ pass' = "write" BY DEF checkVariables
<1>2. pass \in filesDone /\ pass' \in filesDone /\ pass \in betweenLogs /\ pass' \in betweenLogs
  BY <1>1 DEF filesDone, betweenLogs
<1>3. ASSUME NEW l \in newVars(unsharedVarLocs, unsharedStrings) PROVE l[1] # "src"
  <2>1. \E k : l = varOf(k) BY DEF newVars
  <2>2. \A k : varOf(k)[1] = "var" BY DEF varOf
  <2> QED BY <2>1, <2>2
<1>4. /\ sharedStrings \subseteq sharedStrings' /\ unsharedStrings \subseteq unsharedStrings'
      /\ unsharedStrings' \ unsharedStrings \subseteq newVars(unsharedVarLocs, unsharedStrings)
  BY DEF checkVariables, logVars
<1> QED BY <1>2, <1>3, <1>4, MoreLinesKeep

\* the logs but the chosen one stay
LEMMA ChosenIs ==
  ASSUME Disk, NEW lines
  PROVE  LET new == [logs EXCEPT ![chosen] = lines]
         IN new = <<new[1], new[2]>> /\ new[other] = logs[other] /\ new[chosen] = lines
<1>1. logs = <<logs[1], logs[2]>> BY DEF Disk
<1>2. (chosen = 1 /\ other = 2) \/ (chosen = 2 /\ other = 1) BY DEF chosen, other
<1> DEFINE a == logs[1]
           b == logs[2]
<1> HIDE DEF a, b
<1>3. logs = <<a, b>> BY <1>1 DEF a, b
<1>4. CASE chosen = 1 /\ other = 2
  <2>1. [logs EXCEPT ![chosen] = lines] = <<lines, b>> BY <1>3, <1>4
  <2> QED BY <1>3, <1>4, <2>1
<1>5. CASE chosen = 2 /\ other = 1
  <2>1. [logs EXCEPT ![chosen] = lines] = <<a, lines>> BY <1>3, <1>5
  <2> QED BY <1>3, <1>5, <2>1
<1> QED BY <1>2, <1>4, <1>5

LEMMA OutputKeeps ==
  ASSUME LogInv, openLog \/ output
  PROVE  LogInv'
<1>1. UNCHANGED <<prog, options, unsharedVarLocs, sharedVarLocs, unsharedStrings, sharedStrings, known>>
  BY DEF openLog, output, UnchangedByOutput, logVars
<1>2. other' = other /\ chosen' = chosen /\ contents' = contents BY <1>1 DEF other, chosen, contents
<1>3. files(unsharedVarLocs)' = files(unsharedVarLocs) /\ files(sharedVarLocs)' = files(sharedVarLocs)
  BY <1>1 DEF files
<1>4. Disk BY DEF LogInv
<1>5. CASE pass' = "stopped"
  <2>1. UNCHANGED logs BY <1>5 DEF openLog, output
  <2> QED BY <1>1, <1>5, <2>1, UntouchedKeeps DEF Untouched
<1>6. CASE pass' # "stopped"
  <2> DEFINE lines == IF pass = "write" THEN {} ELSE contents
  <2>1. /\ logs' = [logs EXCEPT ![chosen] = lines]
        /\ (pass = "write" /\ pass' = "writing") \/ (pass = "writing" /\ pass' = "run")
    BY <1>6 DEF openLog, output
  <2>2. pass \in {"write", "writing"} /\ pass' \in {"writing", "run"} BY <2>1
  <2>3. logs' = <<logs'[1], logs'[2]>> /\ logs'[other] = logs[other] /\ logs'[chosen] = lines
    BY <1>4, <2>1, ChosenIs
  <2>4. logs[other] = known[other] BY <2>2 DEF LogInv, Disk, betweenLogs
  <2>5. pass' = "run" => lines = contents BY <2>1
  <2>6. Disk'
    <3>1. pass' \notin betweenLogs BY <2>2 DEF betweenLogs
    <3>2. logs'[other'] = known'[other'] BY <1>1, <1>2, <2>3, <2>4
    <3>3. pass' = "run" => logs'[chosen'] = contents' BY <1>2, <2>3, <2>5
    <3>4. known' = <<known'[1], known'[2]>> BY <1>1, <1>4 DEF Disk
    <3> QED BY <2>3, <3>1, <3>2, <3>3, <3>4 DEF Disk
  <2>7. pass \in filesDone /\ pass' \in filesDone /\ pass \in hasRead /\ pass' \in hasRead
    BY <2>2 DEF filesDone, hasRead, betweenLogs
  <2>8. Lines' BY <1>1, <1>3, <2>7 DEF LogInv, Lines
  <2> QED BY <2>6, <2>8 DEF LogInv
<1> QED BY <1>5, <1>6

LEMMA CrashKeeps == ASSUME LogInv, crash PROVE LogInv'
<1>1. pass' = "stopped" /\ UNCHANGED known BY DEF crash, UnchangedByOutput
<1>2. Disk BY DEF LogInv
<1>3. logs' = <<logs'[1], logs'[2]>>
  <2>1. CASE pass = "writing"
    <3>1. PICK lines \in SUBSET contents : logs' = [logs EXCEPT ![chosen] = lines] BY <2>1 DEF crash
    <3> QED BY <1>2, <3>1, ChosenIs
  <2>2. CASE pass # "writing" BY <1>2, <2>2 DEF crash, Disk
  <2> QED BY <2>1, <2>2
<1> QED BY <1>1, <1>2, <1>3 DEF LogInv, Disk, Lines, betweenLogs, hasRead, filesDone

LEMMA NewSessionKeeps == ASSUME LogInv, newSession PROVE LogInv'
<1>1. pass' = "read" /\ UNCHANGED logs /\ known' = <<{}, {}>> BY DEF newSession
<1>2. logs' = <<logs'[1], logs'[2]>> BY <1>1 DEF LogInv, Disk
<1> QED BY <1>1, <1>2 DEF LogInv, Disk, Lines, betweenLogs, hasRead, filesDone

LEMMA LogStep == LogInv /\ [Next]_vars => LogInv'
<1> SUFFICES ASSUME LogInv, [Next]_vars PROVE LogInv' OBVIOUS
<1>1. CASE inputExistingLogs BY <1>1, ReadKeeps
<1>2. CASE detectShared BY <1>2, DetectKeeps
<1>3. CASE check
  <2>1. UNCHANGED <<prog, options, unsharedVarLocs, sharedVarLocs, known, logs>> BY <1>3 DEF check
  <2> QED BY <1>3, <2>1, FilesKeep, MethodsKeep, VariablesKeep DEF check
<1>4. CASE openLog \/ output BY <1>4, OutputKeeps
<1>5. CASE crash BY <1>5, CrashKeeps
<1>6. CASE newSession BY <1>6, NewSessionKeeps
<1>7. CASE collectAccess \/ (LockSetNext /\ UNCHANGED rdbVars) \/ (SHBNext /\ UNCHANGED rdbVars)
  <2>1. Untouched
    BY <1>7 DEF Untouched, collectAccess, rdbVars, logVars, LockSetNext, fillWorklist, visit, lockSetsDone,
                SHBNext, buildIntraProcNode, connectCallEdges, connectForkEdges, connectJoinEdges
  <2>2. /\ pass \in {"fill", "locks", "nodes", "calls", "forks", "joins", "access"}
        /\ pass' \in {"locks", "nodes", "calls", "forks", "joins", "access", "detect"}
    BY <1>7 DEF collectAccess, LockSetNext, fillWorklist, visit, lockSetsDone,
                SHBNext, buildIntraProcNode, connectCallEdges, connectForkEdges, connectJoinEdges
  <2>3. pass \in betweenLogs \ filesDone /\ pass' \in betweenLogs \ filesDone
    BY <2>2 DEF betweenLogs, filesDone
  <2> QED BY <2>1, <2>3, UntouchedKeeps
<1>8. CASE UNCHANGED <<prog, pass, rdbVars>>
  <2>1. Untouched BY <1>8 DEF Untouched, rdbVars, logVars
  <2> QED BY <1>8, <2>1, UntouchedKeeps
<1> QED BY <1>1, <1>2, <1>3, <1>4, <1>5, <1>6, <1>7, <1>8 DEF Next, Session, Stopped, vars

LEMMA LogAlways == Spec => []LogInv
BY LogStart, LogStep, PTL DEF Spec

\* A session that ends keeps every line it read in the log it writes, and names no file as unshared
\* that it read to be shared: in whatever order the logs are written, whichever session was killed and
\* whatever that left on the disk (inputExistingLogs, the check functions, the output).
THEOREM LogsKeepWhatIsKnown == Spec => []KnownIsKept
<1>1. LogInv => KnownIsKept
  <2> SUFFICES ASSUME LogInv, pass = "run"
               PROVE  /\ known[chosen] \subseteq logs[chosen]
                      /\ \A l \in logs[1] \ known[1] : l[1] = "src" => l \notin known[2]
    BY DEF KnownIsKept
  <2>1. logs[chosen] = contents /\ logs[other] = known[other] BY DEF LogInv, Disk
  <2>2. /\ known[1] \subseteq unsharedStrings /\ known[2] \subseteq sharedStrings
        /\ \A l \in unsharedStrings \ known[1] : l[1] = "src" => l \notin known[2]
    BY DEF LogInv, Lines, hasRead, filesDone
  <2>3. CASE options.shared BY <2>1, <2>2, <2>3 DEF chosen, other, contents
  <2>4. CASE ~ options.shared BY <2>1, <2>2, <2>4 DEF chosen, other, contents
  <2> QED BY <2>3, <2>4
<1> QED BY <1>1, LogAlways, PTL

-----------------------------------------------------------------------------
(* What the detection finds and what the logs say of it *)

named(l) == prog.file[l] # ""

\* Every session that ends leaves logs that agree with what it found, whatever was in them before and
\* whatever the other options are (checkUnsharedFiles, checkSharedFiles, output).
THEOREM FilesFollowDetection == Spec => []LogsFollowDetection
<1>1. LogInv => LogsFollowDetection
  <2> SUFFICES ASSUME LogInv, pass = "run", NEW l \in sharedVarLocs
               PROVE  /\ src(prog.file[l]) \notin logs[1] \ known[1]
                      /\ options.shared /\ options.files /\ named(l) => src(prog.file[l]) \in logs[2]
    BY DEF LogsFollowDetection, named
  <2> DEFINE f == prog.file[l]
  <2>1. named(l) => f \in files(sharedVarLocs) BY DEF files, named
  <2>2. ~ named(l) => f \notin files(unsharedVarLocs) BY DEF files, named
  <2>3. logs[chosen] = contents /\ logs[other] = known[other] BY DEF LogInv, Disk
  <2>4. /\ \A k \in unsharedStrings \ known[1] : k[1] = "src" =>
             \E g \in files(unsharedVarLocs) \ files(sharedVarLocs) : k = src(g)
        /\ options.shared /\ options.files => \A g \in files(sharedVarLocs) : src(g) \in sharedStrings
    BY DEF LogInv, Lines, filesDone
  <2> HIDE DEF f
  <2>5. src(f) \notin unsharedStrings \ known[1]
    <3>1. \A g : src(f) = src(g) => f = g BY DEF src
    <3>2. src(f)[1] = "src" BY DEF src
    <3> QED BY <2>1, <2>2, <2>4, <3>1, <3>2
  <2>6. CASE options.shared BY <2>1, <2>3, <2>4, <2>5, <2>6 DEF chosen, other, contents, f
  <2>7. CASE ~ options.shared BY <2>3, <2>5, <2>7 DEF chosen, other, contents, f
  <2> QED BY <2>6, <2>7
<1> QED BY <1>1, LogAlways, PTL

\* For two racing accesses no session adds the file of each to the log of what need not be watched,
\* whatever the logs held and whichever sessions were killed (checkFiles).
FilesQuiet ==
  \A i, j \in DOMAIN running : racing(i, j) /\ tid(i) # tid(j) /\ at(i) # at(j) =>
    \E n \in {at(i), at(j)} : src(prog.file[loc(n)]) \notin logs[1] \ known[1]

\* A session that logs shared files leaves the file of one of them in the log (output).
SharedFilesListed ==
  options.shared /\ options.files =>
    \A i, j \in DOMAIN running : racing(i, j) /\ tid(i) # tid(j) /\ at(i) # at(j) =>
      \E n \in {at(i), at(j)} : src(prog.file[loc(n)]) \in logs[2]

\* Where the detection finds one of two racing accesses shared, the file of one of them is kept out of
\* the log of what need not be watched: nothing between detectShared and the logs on the disk, no older
\* log and no session that was killed, can lose it (checkFiles, output).
THEOREM RacesStayWatched == Spec => [](RacesShared => FilesQuiet)
<1>1. CollectInv /\ LogsFollowDetection => (RacesShared => FilesQuiet)
  <2> SUFFICES ASSUME CollectInv, LogsFollowDetection, RacesShared,
                      NEW i \in DOMAIN running, NEW j \in DOMAIN running,
                      racing(i, j), tid(i) # tid(j), at(i) # at(j)
               PROVE  \E n \in {at(i), at(j)} : src(prog.file[loc(n)]) \notin logs[1] \ known[1]
    BY DEF FilesQuiet
  <2>1. pass = "run" BY DEF CollectInv, Runs
  <2>2. PICK n \in {at(i), at(j)} : loc(n) \in sharedVarLocs BY DEF RacesShared
  <2> QED BY <2>1, <2>2 DEF LogsFollowDetection
<1> QED BY <1>1, CollectAlways, FilesFollowDetection, PTL

\* With the shared files chosen the file of one of them is listed, where the shared locations name files.
THEOREM RacesAreListed ==
  Spec => [](RacesShared /\ (\A l \in sharedVarLocs : named(l)) => SharedFilesListed)
<1> DEFINE Named == \A l \in sharedVarLocs : named(l)
<1>1. CollectInv /\ LogsFollowDetection => (RacesShared /\ Named => SharedFilesListed)
  <2> SUFFICES ASSUME CollectInv, LogsFollowDetection, RacesShared, Named, options.shared, options.files,
                      NEW i \in DOMAIN running, NEW j \in DOMAIN running,
                      racing(i, j), tid(i) # tid(j), at(i) # at(j)
               PROVE  \E n \in {at(i), at(j)} : src(prog.file[loc(n)]) \in logs[2]
    BY DEF SharedFilesListed
  <2>1. pass = "run" BY DEF CollectInv, Runs
  <2>2. PICK n \in {at(i), at(j)} : loc(n) \in sharedVarLocs BY DEF RacesShared
  <2> QED BY <2>1, <2>2 DEF LogsFollowDetection, named
<1> QED BY <1>1, CollectAlways, FilesFollowDetection, PTL

-----------------------------------------------------------------------------
(* Types *)

LEMMA NodesAre ==
  ASSUME prog \in Programs, NEW f \in Funs, NEW n \in nodesIn(f)
  PROVE  /\ n = <<n[1], n[2]>> /\ n[1] = f /\ n[2] \in Nat
         /\ n \in getSHBNodes
         /\ n[2] <= retNode(f)[2] /\ (n[2] = retNode(f)[2] => n = retNode(f))
<1>1. Len(prog.body[f]) \in Nat BY ProgramIs
<1>2. retNode(f)[2] = Len(prog.body[f]) + 1 BY DEF retNode
<1>3. n \in getSHBNodes BY DEF getSHBNodes
<1>4. CASE n = enterNode(f)
  <2>1. n = <<f, 0>> BY <1>4 DEF enterNode
  <2> QED BY <1>1, <1>2, <1>3, <2>1
<1>5. CASE n = retNode(f)
  <2>1. n = <<f, Len(prog.body[f]) + 1>> BY <1>5 DEF retNode
  <2> QED BY <1>1, <1>2, <1>3, <1>5, <2>1
<1>6. CASE n \in accesses \cap instsOf(f)
  <2>1. n \in Insts BY <1>6 DEF accesses, withOp
  <2>2. n[2] \in 1 .. Len(prog.body[n[1]]) /\ n = <<n[1], n[2]>> BY <2>1, InstIs
  <2>3. n[1] = f BY <1>6 DEF instsOf
  <2> QED BY <1>1, <1>2, <1>3, <2>2, <2>3
<1> QED BY <1>4, <1>5, <1>6 DEF nodesIn

LEMMA EndNodes ==
  ASSUME prog \in Programs, NEW f \in Funs
  PROVE  /\ enterNode(f) \in nodesIn(f) /\ retNode(f) \in nodesIn(f)
         /\ enterNode(f) \in getSHBNodes /\ retNode(f) \in getSHBNodes
         /\ enterNode(f)[2] = 0 /\ retNode(f)[2] = Len(prog.body[f]) + 1
<1>1. enterNode(f) \in nodesIn(f) /\ retNode(f) \in nodesIn(f) BY DEF nodesIn
<1> QED BY <1>1, NodesAre DEF enterNode, retNode

\* a node behind m in its function
LEMMA NextNode ==
  ASSUME prog \in Programs, NEW f \in Funs, NEW m \in nodesIn(f), m # retNode(f)
  PROVE  nextTo(m) \in nodesIn(f) /\ m[2] < nextTo(m)[2]
<1> DEFINE B == {k \in nodesIn(m[1]) : m[2] < k[2]}
           S == {k[2] : k \in B}
<1>1. m[1] = f /\ m[2] \in Nat /\ m[2] <= retNode(f)[2] /\ m[2] # retNode(f)[2] BY NodesAre
<1>2. retNode(f) \in nodesIn(f) /\ retNode(f)[2] \in Nat BY EndNodes, NodesAre
<1>3. retNode(f) \in B BY <1>1, <1>2
<1>4. S \in SUBSET Nat /\ S # {} BY <1>1, <1>3, NodesAre
<1>5. PICK t \in S : \A u \in S : t <= u BY <1>4, LeastNat
<1>6. PICK n \in B : t = n[2] BY <1>5
<1>7. \A k \in B : n[2] <= k[2] BY <1>5, <1>6
<1>8. nextTo(m) = CHOOSE k \in B : \A l \in B : k[2] <= l[2] BY DEF nextTo
<1> HIDE DEF B, S
<1>9. nextTo(m) \in B BY <1>6, <1>7, <1>8
<1> QED BY <1>1, <1>9 DEF B

\* the node an instruction hangs on
LEMMA PreNode ==
  ASSUME prog \in Programs, NEW n \in Insts
  PROVE  preNode(n) \in nodesIn(n[1]) /\ preNode(n)[2] < n[2]
<1> DEFINE B == {k \in nodesIn(n[1]) : k[2] < n[2]}
           S == {n[2] - k[2] : k \in B}
<1>1. n[1] \in Funs /\ n[2] \in 1 .. Len(prog.body[n[1]]) /\ n[2] \in Nat /\ n[2] >= 1
  <2>1. n[1] \in Funs /\ n[2] \in 1 .. Len(prog.body[n[1]]) BY InstIs
  <2> QED BY <2>1
<1>2. enterNode(n[1]) \in B BY <1>1, EndNodes
<1>3. \A k \in B : k[2] \in Nat /\ k[2] < n[2] BY <1>1, NodesAre
<1>4. S \in SUBSET Nat /\ S # {} BY <1>1, <1>2, <1>3
<1>5. PICK t \in S : \A u \in S : t <= u BY <1>4, LeastNat
<1>6. PICK m \in B : t = n[2] - m[2] BY <1>5
<1>7. ASSUME NEW k \in B PROVE k[2] <= m[2]
  <2>1. n[2] - m[2] <= n[2] - k[2] BY <1>5, <1>6
  <2> QED BY <1>1, <1>3, <2>1
<1>8. preNode(n) = CHOOSE k \in B : \A l \in B : l[2] <= k[2] BY DEF preNode
<1> HIDE DEF B, S
<1>9. preNode(n) \in B BY <1>6, <1>7, <1>8
<1> QED BY <1>9 DEF B

\* and the one behind that
LEMMA BehindNode ==
  ASSUME prog \in Programs, NEW n \in Insts
  PROVE  preNode(n) \in getSHBNodes /\ nextTo(preNode(n)) \in getSHBNodes
<1>1. n[1] \in Funs /\ n[2] \in 1 .. Len(prog.body[n[1]]) BY InstIs
<1>2. preNode(n) \in nodesIn(n[1]) /\ preNode(n)[2] < n[2] BY PreNode
<1>3. preNode(n) # retNode(n[1])
  <2>1. retNode(n[1])[2] = Len(prog.body[n[1]]) + 1 BY <1>1, EndNodes
  <2>2. Len(prog.body[n[1]]) \in Nat BY <1>1, ProgramIs
  <2>3. preNode(n)[2] \in Nat BY <1>1, <1>2, NodesAre
  <2> QED BY <1>1, <1>2, <2>1, <2>2, <2>3
<1>4. nextTo(preNode(n)) \in nodesIn(n[1]) BY <1>1, <1>2, <1>3, NextNode
<1> QED BY <1>1, <1>2, <1>4, NodesAre

EdgesTyped(g) == \A e \in DOMAIN g : e \in getSHBNodes \X getSHBNodes /\ g[e] \in EdgeTypes

LEMMA AddedTyped ==
  ASSUME NEW g, EdgesTyped(g), NEW type \in EdgeTypes, NEW E \in SUBSET (getSHBNodes \X getSHBNodes)
  PROVE  EdgesTyped(addEdges(g, type, E))
BY DEF EdgesTyped, addEdges

LEMMA CallNodes ==
  ASSUME prog \in Programs, NEW n \in withOp({"call", "fork"})
  PROVE  /\ <<preNode(n), enterNode(ins(n).fun)>> \in getSHBNodes \X getSHBNodes
         /\ <<retNode(ins(n).fun), nextTo(preNode(n))>> \in getSHBNodes \X getSHBNodes
         /\ ins(n).fun \in Funs
<1>1. n \in Insts /\ ins(n).op \in {"call", "fork"} BY DEF withOp
<1>2. ins(n).fun \in Funs BY <1>1, InstHas
<1>3. preNode(n) \in getSHBNodes /\ nextTo(preNode(n)) \in getSHBNodes BY <1>1, BehindNode
<1> QED BY <1>2, <1>3, EndNodes

\* every thread that is joined has a routine
Routines == pass = "joins" => \A n \in forksites : threadOf(n) \in threadSet

TypeInv == TypeOK /\ Routines

LEMMA SameNodes ==
  ASSUME prog' = prog
  PROVE  /\ getSHBNodes' = getSHBNodes /\ Funs' = Funs /\ Insts' = Insts
         /\ forksites' = forksites /\ \A n : threadOf(n)' = threadOf(n)
<1>1. Funs' = Funs /\ Insts' = Insts /\ \A n : ins(n)' = ins(n) BY SameProgram
<1>2. accesses' = accesses /\ forksites' = forksites BY <1>1 DEF accesses, forksites, withOp
<1>3. \A f : nodesIn(f)' = nodesIn(f) BY <1>2 DEF nodesIn, enterNode, retNode, instsOf
<1>4. getSHBNodes' = getSHBNodes BY <1>1, <1>3 DEF getSHBNodes
<1>5. \A n : threadOf(n)' = threadOf(n) BY <1>1 DEF threadOf, isPointer
<1> QED BY <1>1, <1>2, <1>4, <1>5

passes == {"read", "fill", "locks", "nodes", "calls", "forks", "joins", "access", "detect", "files",
           "methods", "vars", "write", "writing", "run", "stopped"}

LEMMA TypeParts ==
  TypeOK <=> /\ pass \in passes
             /\ EdgesTyped(edges)
             /\ \A t \in threadSet : thread2RountineMap[t] \in Funs
             /\ ToSet(worklist) \subseteq Insts /\ DOMAIN outLockSetMap \subseteq Insts
             /\ unsharedVarLocs \cup sharedVarLocs \subseteq DOMAIN prog.file
BY DEF TypeOK, passes, EdgesTyped

LEMMA TypePartsPrimed ==
  ASSUME prog' = prog
  PROVE  /\ TypeOK' <=> /\ pass' \in passes
                        /\ EdgesTyped(edges')
                        /\ \A t \in threadSet' : thread2RountineMap'[t] \in Funs
                        /\ ToSet(worklist') \subseteq Insts /\ DOMAIN outLockSetMap' \subseteq Insts
                        /\ unsharedVarLocs' \cup sharedVarLocs' \subseteq DOMAIN prog.file
         /\ Routines' <=> (pass' = "joins" => \A n \in forksites : threadOf(n) \in threadSet')
BY SameNodes DEF TypeOK, passes, EdgesTyped, Routines

\* the edges of the graph, pass by pass
LEMMA GraphTypes ==
  ASSUME prog \in Programs, prog' = prog, TypeInv, SHBNext
  PROVE  /\ pass' \in passes /\ EdgesTyped(edges')
         /\ \A t \in threadSet' : thread2RountineMap'[t] \in Funs
         /\ pass' = "joins" => \A n \in forksites : threadOf(n) \in threadSet'
<1> DEFINE NN == getSHBNodes \X getSHBNodes
<1>1. /\ EdgesTyped(edges) /\ \A t \in threadSet : thread2RountineMap[t] \in Funs
      /\ pass = "joins" => \A n \in forksites : threadOf(n) \in threadSet
  BY TypeParts DEF TypeInv, Routines
<1>2. "PO" \in EdgeTypes /\ "Call" \in EdgeTypes /\ "Ret" \in EdgeTypes /\ "Fork" \in EdgeTypes /\ "Join" \in EdgeTypes
  BY DEF EdgeTypes
<1>3. CASE buildIntraProcNode
  <2> DEFINE E == UNION {{<<m, nextTo(m)>> : m \in nodesIn(f) \ {retNode(f)}} : f \in Funs}
  <2>1. edges' = addEdges(edges, "PO", E) /\ pass' = "calls" /\ UNCHANGED thread2RountineMap
    BY <1>3 DEF buildIntraProcNode
  <2>2. E \in SUBSET NN
    <3>1. ASSUME NEW f \in Funs, NEW m \in nodesIn(f) \ {retNode(f)} PROVE <<m, nextTo(m)>> \in NN
      <4>1. nextTo(m) \in nodesIn(f) BY NextNode
      <4> QED BY <4>1, NodesAre
    <3> QED BY <3>1
  <2> HIDE DEF E
  <2>3. EdgesTyped(edges') BY <1>1, <1>2, <2>1, <2>2, AddedTyped
  <2> QED BY <1>1, <2>1, <2>3 DEF passes, threadSet
<1>4. CASE connectCallEdges
  <2> DEFINE E == {<<preNode(n), enterNode(ins(n).fun)>> : n \in callsites}
             D == {<<retNode(ins(n).fun), nextTo(preNode(n))>> : n \in callsites}
             called == addEdges(edges, "Call", E)
  <2>1. edges' = addEdges(called, "Ret", D) /\ pass' = "forks" /\ UNCHANGED thread2RountineMap
    BY <1>4 DEF connectCallEdges
  <2>2. \A n \in callsites : n \in withOp({"call", "fork"}) BY DEF callsites, withOp
  <2>3. E \in SUBSET NN /\ D \in SUBSET NN BY <2>2, CallNodes
  <2> HIDE DEF E, D
  <2>4. EdgesTyped(called) BY <1>1, <1>2, <2>3, AddedTyped
  <2> HIDE DEF called
  <2>5. EdgesTyped(edges') BY <1>2, <2>1, <2>3, <2>4, AddedTyped
  <2> QED BY <1>1, <2>1, <2>5 DEF passes, threadSet
<1>5. CASE connectForkEdges
  <2> DEFINE E == {<<preNode(n), enterNode(ins(n).fun)>> : n \in forksites}
  <2>1. edges' = addEdges(edges, "Fork", E) /\ pass' = "joins" /\ addThreads BY <1>5 DEF connectForkEdges
  <2>2. \A n \in forksites : n \in withOp({"call", "fork"}) BY DEF forksites, withOp
  <2>3. E \in SUBSET NN BY <2>2, CallNodes
  <2> HIDE DEF E
  <2>4. EdgesTyped(edges') BY <1>1, <1>2, <2>1, <2>3, AddedTyped
  <2>5. PICK last \in [{threadOf(n) : n \in forksites} -> forksites] :
          thread2RountineMap' = [t \in DOMAIN last |-> ins(last[t]).fun]
    BY <2>1 DEF addThreads
  <2>6. threadSet' = {threadOf(n) : n \in forksites} BY <2>5 DEF threadSet
  <2>7. \A t \in threadSet' : thread2RountineMap'[t] \in Funs BY <2>2, <2>5, <2>6, CallNodes
  <2> QED BY <2>1, <2>4, <2>6, <2>7 DEF passes
<1>6. CASE connectJoinEdges
  <2> DEFINE D(j) == {<<retNode(thread2RountineMap[t]), nextTo(preNode(j))>> : t \in mayWaitFor(j)}
             E    == UNION {D(j) : j \in joinsites}
  <2>1. edges' = addEdges(edges, "Join", E) /\ pass = "joins" /\ pass' = "access" /\ UNCHANGED thread2RountineMap
    BY <1>6 DEF connectJoinEdges
  <2>2. E \in SUBSET NN
    <3>1. ASSUME NEW j \in joinsites, NEW t \in mayWaitFor(j)
          PROVE  <<retNode(thread2RountineMap[t]), nextTo(preNode(j))>> \in NN
      <4>1. j \in Insts BY DEF joinsites, withOp
      <4>2. t \in threadSet BY <1>1, <2>1 DEF mayWaitFor
      <4>3. retNode(thread2RountineMap[t]) \in getSHBNodes BY <1>1, <4>2, EndNodes
      <4> QED BY <4>1, <4>3, BehindNode
    <3> QED BY <3>1
  <2> HIDE DEF E
  <2>3. EdgesTyped(edges') BY <1>1, <1>2, <2>1, <2>2, AddedTyped
  <2> QED BY <1>1, <2>1, <2>3 DEF passes, threadSet
<1> QED BY <1>3, <1>4, <1>5, <1>6 DEF SHBNext

LEMMA LocationsNamed ==
  ASSUME prog \in Programs, NEW n \in accesses, loc(n) # ""
  PROVE  loc(n) \in DOMAIN prog.file
<1>1. n \in Insts /\ ins(n).op = "stmt" BY DEF accesses, withOp
<1>2. PICK f \in Funs : n \in instsOf(f) BY <1>1 DEF Insts
<1>3. PICK i \in DOMAIN prog.body[f] : n = <<f, i>> BY <1>2 DEF instsOf
<1>4. ins(n) = prog.body[f][i] BY <1>3 DEF ins
<1>5. f \in DOMAIN prog.body BY DEF Funs
<1>6. loc(n) \in {""} \cup DOMAIN prog.file BY <1>1, <1>4, <1>5, InputsAssumption, Zenon DEF loc
<1> QED BY <1>6, Zenon

LEMMA DetectTypes ==
  ASSUME prog \in Programs, detectShared
  PROVE  unsharedVarLocs' \cup sharedVarLocs' \subseteq DOMAIN prog.file
<1> DEFINE located == {d \in (DOMAIN threadAccessSetMap) \X accesses :
                         d[2] \in threadAccessSetMap[d[1]] /\ loc(d[2]) # ""}
           decided == {d \in located : \E b \in others(d[1]) : checkNodes(d[2], b)}
<1>1. PICK luck \in SUBSET {d \in located \ decided : others(d[1]) # {}} :
        /\ sharedVarLocs'   = {loc(d[2]) : d \in decided \cup luck}
        /\ unsharedVarLocs' = {loc(d[2]) : d \in located \ (decided \cup luck)}
  BY DEF detectShared
<1>2. \A d \in located : loc(d[2]) \in DOMAIN prog.file
  <2> SUFFICES ASSUME NEW d \in located PROVE loc(d[2]) \in DOMAIN prog.file OBVIOUS
  <2>1. d \in (DOMAIN threadAccessSetMap) \X accesses BY Zenon
  <2>2. loc(d[2]) # "" BY Zenon
  <2>3. d[2] \in accesses
    <3> HIDE DEF located
    <3> QED BY <2>1
  <2> HIDE DEF located
  <2> QED BY <2>2, <2>3, LocationsNamed, Zenon
<1>3. decided \subseteq located OBVIOUS
<1>4. luck \subseteq located BY Zenon
<1> HIDE DEF located, decided
<1>5. \A x \in sharedVarLocs' \cup unsharedVarLocs' : \E d \in located : x = loc(d[2])
  BY <1>1, <1>3, <1>4
<1> QED BY <1>2, <1>5

LEMMA TypeStart == Init => TypeInv
<1> SUFFICES ASSUME Init PROVE TypeInv OBVIOUS
<1>1. /\ pass = "read" /\ edges = <<>> /\ thread2RountineMap = <<>> /\ worklist = <<>> /\ outLockSetMap = <<>>
      /\ unsharedVarLocs = {} /\ sharedVarLocs = {}
  BY DEF Init, SHBInit, LockSetInit
<1>2. EdgesTyped(edges) BY <1>1 DEF EdgesTyped
<1>3. ToSet(worklist) = {} BY <1>1 DEF ToSet
<1>4. pass \in passes BY <1>1 DEF passes
<1>5. threadSet = {} /\ DOMAIN outLockSetMap = {} BY <1>1 DEF threadSet
<1> QED BY <1>1, <1>2, <1>3, <1>4, <1>5, TypeParts DEF TypeInv, Routines

LEMMA TypeStep == CollectInv /\ CollectInv' /\ TypeInv /\ [Next]_vars => TypeInv'
<1> SUFFICES ASSUME CollectInv, CollectInv', TypeInv, [Next]_vars PROVE TypeInv' OBVIOUS
<1>1. /\ prog \in Programs /\ pass \in passes
      /\ EdgesTyped(edges) /\ \A t \in threadSet : thread2RountineMap[t] \in Funs
      /\ ToSet(worklist) \subseteq Insts /\ DOMAIN outLockSetMap \subseteq Insts
      /\ unsharedVarLocs \cup sharedVarLocs \subseteq DOMAIN prog.file
  BY TypeParts DEF TypeInv, CollectInv
<1>2. SUFFICES /\ prog' = prog /\ pass' \in passes
               /\ EdgesTyped(edges') /\ \A t \in threadSet' : thread2RountineMap'[t] \in Funs
               /\ ToSet(worklist') \subseteq Insts /\ DOMAIN outLockSetMap' \subseteq Insts
               /\ unsharedVarLocs' \cup sharedVarLocs' \subseteq DOMAIN prog.file
               /\ pass' = "joins" => \A n \in forksites : threadOf(n) \in threadSet'
  BY TypePartsPrimed DEF TypeInv
<1>3. CASE LockSetNext /\ UNCHANGED <<shbVars, rdbVars>>
  <2>1. UNCHANGED <<prog, edges, thread2RountineMap, unsharedVarLocs, sharedVarLocs>>
    BY <1>3 DEF LockSetNext, fillWorklist, visit, lockSetsDone, shbVars, rdbVars
  <2>2. pass' \in {"locks", "nodes"} BY <1>3 DEF LockSetNext, fillWorklist, visit, lockSetsDone
  <2>3. Insts' = Insts BY <2>1, SameProgram
  <2>4. ToSet(worklist') \subseteq Insts /\ DOMAIN outLockSetMap' \subseteq Insts
    <3>1. CASE pass' = "locks"
      <4>1. ToSet(worklist') \subseteq Insts' /\ DOMAIN outLockSetMap' \subseteq Insts'
        <5>1. worklist' \in Seq(Insts') /\ DOMAIN outLockSetMap' = Insts' BY <3>1 DEF CollectInv, Settled
        <5>2. DOMAIN worklist' = 1 .. Len(worklist') /\ \A i \in 1 .. Len(worklist') : worklist'[i] \in Insts'
          BY <5>1
        <5> QED BY <5>1, <5>2 DEF ToSet
      <4> QED BY <2>3, <4>1
    <3>2. CASE pass' # "locks"
      <4>1. UNCHANGED lockSetVars BY <1>3, <3>2 DEF LockSetNext, fillWorklist, visit, lockSetsDone
      <4> QED BY <1>1, <4>1 DEF lockSetVars
    <3> QED BY <3>1, <3>2
  <2>5. threadSet' = threadSet BY <2>1 DEF threadSet
  <2> QED BY <1>1, <2>1, <2>2, <2>4, <2>5 DEF passes
<1>4. CASE SHBNext /\ UNCHANGED <<lockSetVars, rdbVars>>
  <2>1. UNCHANGED <<prog, worklist, outLockSetMap, unsharedVarLocs, sharedVarLocs>>
    BY <1>4 DEF SHBNext, buildIntraProcNode, connectCallEdges, connectForkEdges, connectJoinEdges,
                lockSetVars, rdbVars
  <2> QED BY <1>1, <1>4, <2>1, GraphTypes
<1>5. CASE (inputExistingLogs \/ collectAccess \/ detectShared \/ check \/ openLog \/ output)
           /\ UNCHANGED <<shbVars, lockSetVars>>
  <2>1. UNCHANGED <<prog, edges, thread2RountineMap, worklist, outLockSetMap>>
    BY <1>5 DEF inputExistingLogs, collectAccess, detectShared, check, openLog, output, UnchangedByOutput,
                shbVars, lockSetVars
  <2>2. pass' \in {"fill", "detect", "files", "methods", "vars", "write", "writing", "run", "stopped"}
    BY <1>5 DEF inputExistingLogs, collectAccess, detectShared, check, checkFiles, checkMethods, checkVariables,
                openLog, output
  <2>3. unsharedVarLocs' \cup sharedVarLocs' \subseteq DOMAIN prog.file
    <3>1. CASE detectShared BY <1>1, <3>1, DetectTypes
    <3>2. CASE ~ detectShared
      <4>1. UNCHANGED <<unsharedVarLocs, sharedVarLocs>>
        BY <1>5, <3>2 DEF inputExistingLogs, collectAccess, check, openLog, output, UnchangedByOutput
      <4> QED BY <1>1, <4>1
    <3> QED BY <3>1, <3>2
  <2>4. threadSet' = threadSet BY <2>1 DEF threadSet
  <2> QED BY <1>1, <2>1, <2>2, <2>3, <2>4 DEF passes
<1>6. CASE crash
  <2>1. UNCHANGED <<prog, edges, thread2RountineMap, worklist, outLockSetMap, unsharedVarLocs, sharedVarLocs>>
        /\ pass' = "stopped"
    BY <1>6 DEF crash, UnchangedByOutput, shbVars, lockSetVars
  <2>2. threadSet' = threadSet BY <2>1 DEF threadSet
  <2> QED BY <1>1, <2>1, <2>2 DEF passes
<1>7. CASE newSession
  <2>1. /\ prog' = prog /\ pass' = "read"
        /\ edges' = <<>> /\ thread2RountineMap' = <<>> /\ worklist' = <<>> /\ outLockSetMap' = <<>>
        /\ unsharedVarLocs' = {} /\ sharedVarLocs' = {}
    BY <1>7 DEF newSession
  <2>2. EdgesTyped(edges') BY <2>1 DEF EdgesTyped
  <2>3. ToSet(worklist') = {} BY <2>1 DEF ToSet
  <2>4. threadSet' = {} /\ DOMAIN outLockSetMap' = {} BY <2>1 DEF threadSet
  <2> QED BY <2>1, <2>2, <2>3, <2>4 DEF passes
<1>8. CASE UNCHANGED <<prog, pass, shbVars, lockSetVars, rdbVars>>
  <2>1. UNCHANGED <<prog, pass, edges, thread2RountineMap, worklist, outLockSetMap, unsharedVarLocs, sharedVarLocs>>
    BY <1>8 DEF shbVars, lockSetVars, rdbVars
  <2>2. threadSet' = threadSet BY <2>1 DEF threadSet
  <2> QED BY <1>1, <2>1, <2>2 DEF TypeInv, Routines
<1> QED BY <1>3, <1>4, <1>5, <1>6, <1>7, <1>8 DEF Next, Session, Stopped, vars

LEMMA TypeAlways == Spec => []TypeInv
<1>1. Spec => [][Next]_vars BY PTL DEF Spec
<1>2. Spec => Init BY PTL DEF Spec
<1> QED BY <1>1, <1>2, TypeStart, TypeStep, CollectAlways, PTL

\* What a session builds has its type: the edges join nodes of the graph, the node a call, fork or join
\* hangs on and the one behind it among them, a thread has the routine it was forked with before a join
\* asks for it, and the locations found shared or unshared are locations of the program.
THEOREM DetectorTypes == Spec => []TypeOK
BY TypeAlways, PTL DEF TypeInv
=============================================================================
