----------------------------- MODULE Saber_proofs -----------------------------
(****************************************************************************)
(* Three theorems of Saber, for all programs and all bounds on contexts: a  *)
(* slice loses nothing its source flows to; an object that is freed in a    *)
(* run has come from a source that the leak checker does not report as      *)
(* never freed; and TypeOK, with the bound on the frames of a run.          *)
(*                                                                          *)
(* The items of a slice that reached no global are closed under the edges   *)
(* they may pass (AnalysisInv, whole).  What flows along summaries of calls *)
(* stays within them, with an end of the context it would keep; so the      *)
(* first theorem.                                                           *)
(*                                                                          *)
(* The items of a source that is reported as never freed have no call of    *)
(* free either (neverSunk); that every value which holds the object in a    *)
(* run has an item of it, with a context that agrees with the calls on the  *)
(* stack, is Covered.  Before it comes to a source, the object is in a      *)
(* wrapper and nowhere else (Wrapped).                                      *)
(*                                                                          *)
(* Every frame is an entry of its function that was counted, and no two     *)
(* frames are the same entry (counts), so the stack is bounded.             *)
(****************************************************************************)
EXTENDS Saber, SequenceTheorems, FiniteSetTheorems, WellFoundedInduction, TLAPS

-----------------------------------------------------------------------------
(* Numbers, finite sets, sequences                                          *)

LEMMA LeastNat ==
  ASSUME NEW S \in SUBSET Nat, S # {}
  PROVE  \E t \in S : \A u \in S : t <= u
<1>1. PICK z \in S : TRUE OBVIOUS
<1>2. PICK t \in S : \A u \in S : ~ (<<u, t>> \in OpToRel(<, Nat))
  BY <1>1, WFMin, NatLessThanWellFounded
<1>3. \A u \in S : ~ (u < t) BY <1>2 DEF OpToRel
<1> QED BY <1>3

\* g is the first n results of step, from a on
iterates(g, step, a, n) == g = [k \in 0..n |-> IF k = 0 THEN a ELSE step[<<k, g[k - 1]>>]]

LEMMA IterExists ==
  ASSUME NEW S, NEW a \in S, NEW N \in Nat, NEW step \in [(1..N) \X S -> S], NEW n \in 0..N
  PROVE  \E g \in [0..n -> S] : iterates(g, step, a, n)
<1> DEFINE G(k) == \E g \in [0..k -> S] : iterates(g, step, a, k)
           Bad  == {k \in 0..N : ~G(k)}
<1>1. G(0)
  <2> DEFINE g0 == [k \in 0..0 |-> a]
  <2>1. g0 \in [0..0 -> S] OBVIOUS
  <2>2. g0 = [k \in 0..0 |-> IF k = 0 THEN a ELSE step[<<k, g0[k - 1]>>]] OBVIOUS
  <2> HIDE DEF g0
  <2> QED BY <2>1, <2>2 DEF iterates
<1>2. ASSUME NEW k \in 1..N, G(k - 1) PROVE G(k)
  <2>1. PICK f \in [0..k - 1 -> S] : iterates(f, step, a, k - 1) BY <1>2
  <2> DEFINE g == [i \in 0..k |-> IF i < k THEN f[i] ELSE step[<<k, f[k - 1]>>]]
  <2>2. \A i \in 0..k - 1 : f[i] = IF i = 0 THEN a ELSE step[<<i, f[i - 1]>>]
    BY <2>1 DEF iterates
  <2>3. k - 1 \in 0..k - 1 OBVIOUS
  <2>4. f[k - 1] \in S BY <2>1, <2>3
  <2>5. <<k, f[k - 1]>> \in (1..N) \X S BY <2>4
  <2>6. step[<<k, f[k - 1]>>] \in S BY <2>5
  <2>7. g \in [0..k -> S]
    <3>1. \A i \in 0..k : i < k => f[i] \in S BY <2>1
    <3> QED BY <2>6, <3>1
  <2>8. \A i \in 0..k : g[i] = IF i = 0 THEN a ELSE step[<<i, g[i - 1]>>]
    <3> SUFFICES ASSUME NEW i \in 0..k
                 PROVE  g[i] = IF i = 0 THEN a ELSE step[<<i, g[i - 1]>>]
      OBVIOUS
    <3>1. i # 0 => g[i - 1] = f[i - 1] OBVIOUS
    <3>2. CASE i < k
      <4>1. i \in 0..k - 1 /\ g[i] = f[i] BY <3>2
      <4> QED BY <2>2, <3>1, <4>1
    <3>3. CASE i = k
      <4>1. g[i] = step[<<k, f[k - 1]>>] /\ i # 0 BY <3>3
      <4> QED BY <3>1, <3>3, <4>1
    <3> QED BY <3>2, <3>3
  <2>9. g = [i \in 0..k |-> g[i]] OBVIOUS
  <2> HIDE DEF g
  <2>10. g = [i \in 0..k |-> IF i = 0 THEN a ELSE step[<<i, g[i - 1]>>]] BY <2>8, <2>9
  <2> QED BY <2>7, <2>10 DEF iterates
<1> HIDE DEF G
<1>3. Bad = {}
  <2>1. SUFFICES ASSUME Bad # {} PROVE FALSE OBVIOUS
  <2>2. Bad \in SUBSET Nat OBVIOUS
  <2>3. PICK t \in Bad : \A u \in Bad : t <= u BY <2>1, <2>2, LeastNat
  <2>4. t \in 1..N /\ t - 1 \in 0..N /\ t - 1 < t BY <1>1, <2>3
  <2>5. t - 1 \in Bad BY <1>2, <2>3, <2>4
  <2>6. t <= t - 1 BY <2>3, <2>5
  <2> QED BY <2>4, <2>6
<1>4. G(n) BY <1>3
<1> QED BY <1>4 DEF G

\* g grows from a on within U, for as many rounds as U has other elements
grows(g, f, a, U, N) ==
  /\ IsFiniteSet(U) /\ a \in U /\ N \in Nat /\ Cardinality(U) <= N + 1
  /\ f \in [SUBSET U -> SUBSET U] /\ \A A \in SUBSET U : A \subseteq f[A]
  /\ g \in [0..N -> SUBSET U]
  /\ g[0] = {a} /\ \A k \in 1..N : g[k] = f[g[k - 1]]

\* it has stopped to then
LEMMA Saturates ==
  ASSUME NEW g, NEW f, NEW a, NEW U, NEW N, grows(g, f, a, U, N)
  PROVE  g[N] \in SUBSET U /\ a \in g[N] /\ f[g[N]] = g[N]
<1> USE DEF grows
<1> DEFINE Big(k)  == a \in g[k] /\ Cardinality(g[k]) >= k + 1
           Done(k) == a \in g[k] /\ f[g[k]] = g[k]
           Bad     == {k \in 0..N : ~Big(k) /\ ~Done(k)}
<1>1. \A k \in 0..N : g[k] \in SUBSET U /\ IsFiniteSet(g[k]) /\ Cardinality(g[k]) \in Nat
  <2> TAKE k \in 0..N
  <2>1. g[k] \in SUBSET U OBVIOUS
  <2> QED BY <2>1, FS_Subset, FS_CardinalityType
<1>2. Big(0)
  <2>1. Cardinality({a}) = 1 BY FS_Singleton
  <2> QED BY <2>1
<1>3. ASSUME NEW k \in 1..N, Big(k - 1) \/ Done(k - 1) PROVE Big(k) \/ Done(k)
  <2>1. k - 1 \in 0..N /\ k \in 0..N OBVIOUS
  <2>2. g[k] = f[g[k - 1]] /\ g[k - 1] \subseteq g[k] BY <1>1, <2>1
  <2>3. CASE f[g[k - 1]] = g[k - 1] BY <1>3, <2>2, <2>3
  <2>4. CASE f[g[k - 1]] # g[k - 1]
    <3>1. g[k - 1] \in SUBSET g[k] BY <2>2
    <3>2. g[k - 1] # g[k] BY <2>2, <2>4
    <3>3. Cardinality(g[k - 1]) <= Cardinality(g[k]) /\ Cardinality(g[k]) # Cardinality(g[k - 1])
      BY <1>1, <2>1, <3>1, <3>2, FS_Subset
    <3>4. Cardinality(g[k - 1]) >= k BY <1>3, <2>4
    <3>5. Cardinality(g[k]) >= k + 1 BY <1>1, <2>1, <3>3, <3>4
    <3> QED BY <1>3, <2>2, <3>5
  <2> QED BY <2>3, <2>4
<1> HIDE DEF Big, Done
<1>4. Bad = {}
  <2>1. SUFFICES ASSUME Bad # {} PROVE FALSE OBVIOUS
  <2>2. Bad \in SUBSET Nat OBVIOUS
  <2>3. PICK t \in Bad : \A u \in Bad : t <= u BY <2>1, <2>2, LeastNat
  <2>4. t \in 1..N /\ t - 1 \in 0..N /\ t - 1 < t BY <1>2, <2>3
  <2>5. t - 1 \in Bad BY <1>3, <2>3, <2>4
  <2>6. t <= t - 1 BY <2>3, <2>5
  <2> QED BY <2>4, <2>6
<1>5. N \in 0..N OBVIOUS
<1>6. Big(N) \/ Done(N) BY <1>4, <1>5
<1>7. CASE Done(N) BY <1>1, <1>5, <1>7 DEF Done
<1>8. CASE Big(N)
  <2>1. a \in g[N] /\ Cardinality(g[N]) >= N + 1 BY <1>8 DEF Big
  <2>2. g[N] \in SUBSET U /\ Cardinality(g[N]) \in Nat BY <1>1, <1>5
  <2>3. Cardinality(U) \in Nat /\ Cardinality(g[N]) <= Cardinality(U) BY <2>2, FS_CardinalityType, FS_Subset
  <2>4. Cardinality(g[N]) = Cardinality(U) BY <2>1, <2>2, <2>3
  <2>5. g[N] = U BY <2>2, <2>4, FS_Subset
  <2>6. f[g[N]] \in SUBSET U /\ g[N] \subseteq f[g[N]] BY <2>2
  <2> QED BY <2>1, <2>2, <2>5, <2>6
<1> QED BY <1>6, <1>7, <1>8

LEMMA QueueSet ==
  ASSUME NEW S, NEW s \in Seq(S), s # <<>>
  PROVE  /\ Head(s) \in S /\ Tail(s) \in Seq(S)
         /\ ToSet(s) \subseteq {Head(s)} \cup ToSet(Tail(s)) /\ ToSet(Tail(s)) \subseteq ToSet(s)
<1>1. Len(s) \in Nat /\ Len(s) >= 1 /\ Head(s) = s[1] /\ Head(s) \in S /\ Tail(s) \in Seq(S) OBVIOUS
<1>2. Len(Tail(s)) = Len(s) - 1 /\ \A i \in 1..Len(s) - 1 : Tail(s)[i] = s[i + 1] OBVIOUS
<1>3. DOMAIN s = 1..Len(s) /\ DOMAIN Tail(s) = 1..Len(s) - 1 BY <1>1, <1>2
<1>4. ASSUME NEW i \in 1..Len(s) PROVE s[i] \in {Head(s)} \cup ToSet(Tail(s))
  <2>1. CASE i = 1 BY <1>1, <2>1
  <2>2. CASE i # 1
    <3>1. i - 1 \in 1..Len(s) - 1 /\ i - 1 + 1 = i BY <1>1, <2>2
    <3>2. Tail(s)[i - 1] = s[i] BY <1>2, <3>1
    <3> QED BY <1>3, <3>1, <3>2 DEF ToSet
  <2> QED BY <2>1, <2>2
<1>5. ASSUME NEW i \in 1..Len(s) - 1 PROVE Tail(s)[i] \in ToSet(s)
  <2>1. i + 1 \in 1..Len(s) BY <1>1
  <2> QED BY <1>2, <1>3, <2>1 DEF ToSet
<1>6. ToSet(s) \subseteq {Head(s)} \cup ToSet(Tail(s)) BY <1>3, <1>4 DEF ToSet
<1>7. ToSet(Tail(s)) \subseteq ToSet(s) BY <1>3, <1>5 DEF ToSet
<1> QED BY <1>1, <1>6, <1>7

LEMMA PushedSet ==
  ASSUME NEW S, NEW q \in Seq(S), NEW b \in S
  PROVE  pushed(q, b) \in Seq(S) /\ ToSet(pushed(q, b)) = ToSet(q) \cup {b}
<1>1. CASE b \in ToSet(q) BY <1>1 DEF pushed
<1>2. CASE b \notin ToSet(q)
  <2> DEFINE s == Append(q, b)
  <2>1. pushed(q, b) = s BY <1>2 DEF pushed
  <2>2. s \in Seq(S) /\ Len(s) = Len(q) + 1 /\ Len(q) \in Nat /\ s[Len(q) + 1] = b
        /\ \A i \in 1..Len(q) : s[i] = q[i]
    OBVIOUS
  <2>3. DOMAIN s = 1..Len(q) + 1 /\ DOMAIN q = 1..Len(q) BY <2>2
  <2> HIDE DEF s
  <2>4. \A i \in 1..Len(q) + 1 : i \in 1..Len(q) \/ i = Len(q) + 1 BY <2>2
  <2>5. Len(q) + 1 \in 1..Len(q) + 1 /\ \A i \in 1..Len(q) : i \in 1..Len(q) + 1 BY <2>2
  <2>6. ToSet(s) = ToSet(q) \cup {b} BY <2>2, <2>3, <2>4, <2>5 DEF ToSet
  <2> QED BY <2>1, <2>2, <2>6
<1> QED BY <1>1, <1>2

\* an enumeration of a finite set names all of it
LEMMA Enumerates ==
  ASSUME NEW S, IsFiniteSet(S)
  PROVE  SetToSeq(S) \in Seq(S) /\ ToSet(SetToSeq(S)) = S
<1> DEFINE D == 1..Cardinality(S)
           s == SetToSeq(S)
<1>1. Cardinality(S) \in Nat BY FS_CardinalityType
<1>2. PICK b \in Bijection(D, S) : TRUE BY FS_CardinalityType DEF ExistsBijection
<1>3. b \in [D -> S] /\ IsInjective(b) BY <1>2 DEF Bijection, Injection, IsInjective
<1>4. s \in [D -> S] /\ IsInjective(s) BY <1>3 DEF SetToSeq
<1>5. s \in Injection(D, S) BY <1>4 DEF Injection, IsInjective
<1>6. IsFiniteSet(D) /\ Cardinality(D) = Cardinality(S) BY <1>1, FS_Interval
<1>7. s \in Surjection(D, S) BY <1>5, <1>6, FS_Injection
<1>8. \A x \in S : \E i \in D : s[i] = x BY <1>7 DEF Surjection
<1>9. s \in Seq(S) BY <1>1, <1>4
<1>10. ToSet(s) = S BY <1>4, <1>8 DEF ToSet
<1> QED BY <1>9, <1>10

-----------------------------------------------------------------------------
(* Programs and their value-flow graphs                                     *)

LEMMA ImageFinite ==
  ASSUME NEW S, IsFiniteSet(S), NEW f
  PROVE  IsFiniteSet({f[x] : x \in S}) /\ Cardinality({f[x] : x \in S}) <= Cardinality(S)
<1> DEFINE T == {f[x] : x \in S}
           g == [x \in S |-> f[x]]
<1>1. g \in Surjection(S, T)
  <2>1. g \in [S -> T] OBVIOUS
  <2>2. \A t \in T : \E x \in S : g[x] = t OBVIOUS
  <2> QED BY <2>1, <2>2 DEF Surjection
<1> QED BY <1>1, FS_Surjection

LEMMA InstsFinite == ASSUME NEW P \in Programs PROVE IsFiniteSet(insts(P))
<1>1. IsFiniteSet(blocks(P)) /\ \A b \in blocks(P) : Len(P.code[b]) \in Nat /\ DOMAIN P.code[b] = 1..Len(P.code[b])
  BY ProgramsAssumption
<1> DEFINE f == [b \in blocks(P) |-> {<<b, k>> : k \in DOMAIN P.code[b]}]
<1>2. \A b \in blocks(P) : IsFiniteSet(f[b])
  <2> TAKE b \in blocks(P)
  <2> DEFINE h == [k \in DOMAIN P.code[b] |-> <<b, k>>]
  <2>1. IsFiniteSet(DOMAIN P.code[b]) BY <1>1, FS_Interval
  <2>2. IsFiniteSet({h[k] : k \in DOMAIN P.code[b]}) BY <2>1, ImageFinite
  <2>3. {h[k] : k \in DOMAIN P.code[b]} = {<<b, k>> : k \in DOMAIN P.code[b]} OBVIOUS
  <2> QED BY <2>2, <2>3
<1>3. IsFiniteSet({f[b] : b \in blocks(P)}) BY <1>1, ImageFinite
<1>4. insts(P) = UNION {f[b] : b \in blocks(P)} BY DEF insts
<1> HIDE DEF f
<1>5. \A T \in {f[b] : b \in blocks(P)} : IsFiniteSet(T) BY <1>2
<1> QED BY <1>3, <1>4, <1>5, FS_UNION

LEMMA InstIs ==
  ASSUME NEW P \in Programs, NEW i \in insts(P)
  PROVE  /\ i = <<i[1], i[2]>> /\ i[1] \in blocks(P) /\ i[2] \in Nat /\ i[2] \in DOMAIN P.code[i[1]]
<1>1. PICK b \in blocks(P) : \E k \in DOMAIN P.code[b] : i = <<b, k>> BY DEF insts
<1>2. PICK k \in DOMAIN P.code[b] : i = <<b, k>> BY <1>1
<1>3. k \in Nat BY ProgramsAssumption
<1> QED BY <1>2, <1>3

LEMMA EdgesFinite == ASSUME NEW P \in Programs PROVE IsFiniteSet(buildSVFG(P))
<1> DEFINE I == insts(P)
           direct == UNION {named(P, op) : op \in {"copy", "store", "load", "global", "free"}}
           phis == named(P, "phi")
           calls == {j \in named(P, "call") : at(P, j).arg # Nil}
           rets == {j \in named(P, "call") : P.ret[at(P, j).fun] # Nil}
           fd == [i \in I |-> vfEdge("intra", at(P, i).arg, at(P, i).def, <<>>)]
           fc == [i \in I |-> vfEdge("call", at(P, i).arg, P.param[at(P, i).fun], i)]
           fr == [i \in I |-> vfEdge("ret", P.ret[at(P, i).fun], at(P, i).def, i)]
           fp == [i \in I |-> {vfEdge("intra", n, at(P, i).def, <<>>) : n \in Range(at(P, i).from) \ {Nil}}]
<1>1. IsFiniteSet(I) BY InstsFinite
<1>2. direct \in SUBSET I /\ phis \in SUBSET I /\ calls \in SUBSET I /\ rets \in SUBSET I BY DEF named
<1>3. IsFiniteSet(direct) /\ IsFiniteSet(phis) /\ IsFiniteSet(calls) /\ IsFiniteSet(rets) BY <1>1, <1>2, FS_Subset
<1>4. IsFiniteSet({fd[i] : i \in direct}) /\ IsFiniteSet({fc[i] : i \in calls}) /\ IsFiniteSet({fr[i] : i \in rets})
  BY <1>3, ImageFinite
<1>5. IsFiniteSet({fp[i] : i \in phis}) BY <1>3, ImageFinite
<1>6. \A i \in phis : IsFiniteSet(fp[i])
  <2> TAKE i \in phis
  <2> DEFINE F == at(P, i).from
             e == [b \in DOMAIN F |-> vfEdge("intra", F[b], at(P, i).def, <<>>)]
             S == {b \in DOMAIN F : F[b] # Nil}
  <2>1. at(P, i).op = "phi" /\ i \in I BY DEF named
  <2>2. IsFiniteSet(DOMAIN F) BY <2>1, ProgramsAssumption
  <2>3. S \in SUBSET DOMAIN F OBVIOUS
  <2>4. IsFiniteSet(S) BY <2>2, <2>3, FS_Subset
  <2>5. IsFiniteSet({e[b] : b \in S}) BY <2>4, ImageFinite
  <2>6. {e[b] : b \in S} = {vfEdge("intra", n, at(P, i).def, <<>>) : n \in Range(at(P, i).from) \ {Nil}}
    BY DEF Range
  <2>7. fp[i] = {vfEdge("intra", n, at(P, i).def, <<>>) : n \in Range(at(P, i).from) \ {Nil}} BY <2>1
  <2> QED BY <2>5, <2>6, <2>7
<1>7. intraEdges(P) = {fd[i] : i \in direct} \cup UNION {fp[i] : i \in phis}
  <2>1. {fd[i] : i \in direct} = {vfEdge("intra", at(P, i).arg, at(P, i).def, <<>>) : i \in direct} BY <1>2
  <2>2. {fp[i] : i \in phis}
          = {{vfEdge("intra", n, at(P, i).def, <<>>) : n \in Range(at(P, i).from) \ {Nil}} : i \in phis}
    BY <1>2
  <2> QED BY <2>1, <2>2 DEF intraEdges
<1>8. callEdges(P) = {fc[i] : i \in calls}
  <2>1. {fc[i] : i \in calls} = {vfEdge("call", at(P, i).arg, P.param[at(P, i).fun], i) : i \in calls} BY <1>2
  <2> QED BY <2>1 DEF callEdges
<1>9. retEdges(P) = {fr[i] : i \in rets}
  <2>1. {fr[i] : i \in rets} = {vfEdge("ret", P.ret[at(P, i).fun], at(P, i).def, i) : i \in rets} BY <1>2
  <2> QED BY <2>1 DEF retEdges
<1> HIDE DEF fd, fc, fr, fp, direct, phis, calls, rets
<1>10. \A T \in {fp[i] : i \in phis} : IsFiniteSet(T) BY <1>6
<1> DEFINE ds == {fd[i] : i \in direct}
           ps == UNION {fp[i] : i \in phis}
<1>11. IsFiniteSet(ps) BY <1>5, <1>10, FS_UNION
<1>12. IsFiniteSet(intraEdges(P))
  <2>1. IsFiniteSet(ds) /\ intraEdges(P) = ds \cup ps BY <1>4, <1>7
  <2> HIDE DEF ds, ps
  <2> QED BY <1>11, <2>1, FS_Union
<1>13. IsFiniteSet(intraEdges(P) \cup callEdges(P)) BY <1>4, <1>8, <1>12, FS_Union
<1> QED BY <1>4, <1>9, <1>13, FS_Union DEF buildSVFG

\* an instruction's value is the node of that instruction
LEMMA NodeIs ==
  ASSUME NEW P \in Programs, NEW i \in insts(P), at(P, i).op # "exit", at(P, i).def # Nil
  PROVE  nodeOp(P, at(P, i).def) = at(P, i).op /\ getBB(P, at(P, i).def) = i[1]
<1> DEFINE n == at(P, i).def
<1>1. ~isParam(P, n) /\ \A j \in insts(P) : at(P, j).op # "exit" /\ at(P, j).def = n => j = i
  BY ProgramsAssumption
<1>2. defAt(P, n) = i BY <1>1 DEF defAt
<1> QED BY <1>1, <1>2 DEF nodeOp, getBB

LEMMA EdgesAre ==
  ASSUME NEW P \in Programs, NEW i \in insts(P)
  PROVE  /\ at(P, i).op \in {"copy", "store", "load", "global", "free"} =>
              vfEdge("intra", at(P, i).arg, at(P, i).def, <<>>) \in buildSVFG(P)
         /\ at(P, i).op = "phi" =>
              \A b \in DOMAIN at(P, i).from : at(P, i).from[b] # Nil =>
                vfEdge("intra", at(P, i).from[b], at(P, i).def, <<>>) \in buildSVFG(P)
         /\ at(P, i).op = "call" /\ at(P, i).arg # Nil =>
              vfEdge("call", at(P, i).arg, P.param[at(P, i).fun], i) \in buildSVFG(P)
         /\ at(P, i).op = "call" /\ P.ret[at(P, i).fun] # Nil =>
              vfEdge("ret", P.ret[at(P, i).fun], at(P, i).def, i) \in buildSVFG(P)
<1>1. ASSUME at(P, i).op \in {"copy", "store", "load", "global", "free"}
      PROVE  vfEdge("intra", at(P, i).arg, at(P, i).def, <<>>) \in buildSVFG(P)
  <2>1. i \in UNION {named(P, op) : op \in {"copy", "store", "load", "global", "free"}} BY <1>1 DEF named
  <2> QED BY <2>1 DEF buildSVFG, intraEdges
<1>2. ASSUME at(P, i).op = "phi", NEW b \in DOMAIN at(P, i).from, at(P, i).from[b] # Nil
      PROVE  vfEdge("intra", at(P, i).from[b], at(P, i).def, <<>>) \in buildSVFG(P)
  <2>1. i \in named(P, "phi") BY <1>2 DEF named
  <2>2. at(P, i).from[b] \in Range(at(P, i).from) \ {Nil} BY <1>2 DEF Range
  <2>3. vfEdge("intra", at(P, i).from[b], at(P, i).def, <<>>)
          \in {vfEdge("intra", n, at(P, i).def, <<>>) : n \in Range(at(P, i).from) \ {Nil}} BY <2>2
  <2> QED BY <2>1, <2>3 DEF buildSVFG, intraEdges
<1>3. ASSUME at(P, i).op = "call", at(P, i).arg # Nil
      PROVE  vfEdge("call", at(P, i).arg, P.param[at(P, i).fun], i) \in buildSVFG(P)
  BY <1>3 DEF buildSVFG, callEdges, named
<1>4. ASSUME at(P, i).op = "call", P.ret[at(P, i).fun] # Nil
      PROVE  vfEdge("ret", P.ret[at(P, i).fun], at(P, i).def, i) \in buildSVFG(P)
  BY <1>4 DEF buildSVFG, retEdges, named
<1> QED BY <1>1, <1>2, <1>3, <1>4

LEMMA RetEdgeIs ==
  ASSUME NEW P \in Programs, NEW e \in buildSVFG(P), e.kind = "ret"
  PROVE  \E i \in insts(P) : at(P, i).op = "call" /\ P.ret[at(P, i).fun] # Nil /\ e.dst = at(P, i).def /\ e.dst # Nil
<1>1. e \notin intraEdges(P) /\ e \notin callEdges(P) BY DEF intraEdges, callEdges, vfEdge
<1>2. PICK i \in {j \in named(P, "call") : P.ret[at(P, j).fun] # Nil} :
        e = vfEdge("ret", P.ret[at(P, i).fun], at(P, i).def, i)
  BY <1>1 DEF buildSVFG, retEdges
<1>3. i \in insts(P) /\ at(P, i).op = "call" /\ P.ret[at(P, i).fun] # Nil /\ e.dst = at(P, i).def
  BY <1>2 DEF vfEdge, named
<1> QED BY <1>3, ProgramsAssumption

-----------------------------------------------------------------------------
(* Copies and wrappers                                                      *)

\* g has the rounds of copies, or of followed
copiesBy(g, P, E, n) ==
  g = [k \in 0..Cardinality(E) |->
         IF k = 0 THEN {n}
         ELSE LET A == g[k - 1] IN A \cup {e.dst : e \in {x \in copying(P, E) : x.src \in A}}]

followedBy(g, P, E, n) ==
  g = [k \in 0..Cardinality(E) |->
         IF k = 0 THEN {n}
         ELSE LET A == g[k - 1]
              IN A \cup UNION {{e.dst : e \in leaving(P, E, m)} : m \in {x \in A : isInAWrapper(P, E, x)}}]

\* what a round adds
copiesOf(P, E, A)   == {e.dst : e \in {x \in copying(P, E) : x.src \in A}}
followersOf(P, E, A) == UNION {{e.dst : e \in leaving(P, E, m)} : m \in {x \in A : isInAWrapper(P, E, x)}}

\* as long as it stays among what may be added, g grows by add
roundsOf(g, n, D, add, N) ==
  /\ DOMAIN g = 0..N /\ g = [k \in 0..N |-> g[k]] /\ g[0] = {n}
  /\ \A k \in 1..N : g[k - 1] \in SUBSET ({n} \cup D) => g[k] = g[k - 1] \cup add[g[k - 1]]

roundsBy(g, n, add, N) == g = [k \in 0..N |-> IF k = 0 THEN {n} ELSE g[k - 1] \cup add[g[k - 1]]]

LEMMA Rounds ==
  ASSUME NEW E, IsFiniteSet(E), NEW n, NEW D, D \subseteq {e.dst : e \in E},
         NEW add \in [SUBSET ({n} \cup D) -> SUBSET D]
  PROVE  /\ \E g \in [0..Cardinality(E) -> SUBSET ({n} \cup D)] : roundsBy(g, n, add, Cardinality(E))
         /\ \A g : roundsOf(g, n, D, add, Cardinality(E)) =>
                     /\ g[Cardinality(E)] \in SUBSET ({n} \cup D) /\ n \in g[Cardinality(E)]
                     /\ add[g[Cardinality(E)]] \subseteq g[Cardinality(E)]
<1> DEFINE U == {n} \cup D
           N == Cardinality(E)
           step == [p \in (1..N) \X SUBSET U |-> p[2] \cup add[p[2]]]
           f == [A \in SUBSET U |-> A \cup add[A]]
<1>1. N \in Nat BY FS_CardinalityType
<1>2. IsFiniteSet(U) /\ Cardinality(U) <= N + 1
  <2> DEFINE dst == [e \in E |-> e.dst]
             T == {dst[e] : e \in E}
  <2>1. IsFiniteSet(T) /\ Cardinality(T) <= N BY ImageFinite
  <2>2. D \in SUBSET T OBVIOUS
  <2>3. IsFiniteSet(D) /\ Cardinality(D) <= Cardinality(T) BY <2>1, <2>2, FS_Subset
  <2>4. Cardinality(D) \in Nat /\ Cardinality(T) \in Nat BY <2>1, <2>3, FS_CardinalityType
  <2>5. IsFiniteSet(D \cup {n}) /\ Cardinality(D \cup {n}) <= Cardinality(D) + 1
    <3>1. Cardinality(D \cup {n}) = IF n \in D THEN Cardinality(D) ELSE Cardinality(D) + 1 BY <2>3, FS_AddElement
    <3>2. IsFiniteSet(D \cup {n}) BY <2>3, FS_AddElement
    <3> QED BY <2>4, <3>1, <3>2
  <2>6. U = D \cup {n} OBVIOUS
  <2>7. Cardinality(U) \in Nat BY <2>5, <2>6, FS_CardinalityType
  <2> HIDE DEF U, N, T
  <2> QED BY <1>1, <2>1, <2>3, <2>4, <2>5, <2>6, <2>7
<1>3. \A A \in SUBSET U : add[A] \in SUBSET D /\ A \cup add[A] \in SUBSET U OBVIOUS
<1>4. step \in [(1..N) \X SUBSET U -> SUBSET U]
  <2>1. \A p \in (1..N) \X SUBSET U : p[2] \cup add[p[2]] \in SUBSET U BY <1>3
  <2> QED BY <2>1
<1>5. {n} \in SUBSET U OBVIOUS
<1>6. f \in [SUBSET U -> SUBSET U] /\ \A A \in SUBSET U : A \subseteq f[A] /\ f[A] = A \cup add[A] BY <1>3
<1>7. \E g \in [0..N -> SUBSET U] : iterates(g, step, {n}, N)
  <2>1. N \in 0..N BY <1>1
  <2> HIDE DEF step, N, U
  <2> QED BY <1>1, <1>4, <1>5, <2>1, IterExists
<1>8. ASSUME NEW g, iterates(g, step, {n}, N), g \in [0..N -> SUBSET U] PROVE roundsBy(g, n, add, N)
  <2>1. g = [k \in 0..N |-> IF k = 0 THEN {n} ELSE step[<<k, g[k - 1]>>]] BY <1>8 DEF iterates
  <2>2. \A k \in 0..N : k # 0 => step[<<k, g[k - 1]>>] = g[k - 1] \cup add[g[k - 1]]
    <3> TAKE k \in 0..N
    <3> HAVE k # 0
    <3>1. k \in 1..N /\ k - 1 \in 0..N BY <1>1
    <3>2. g[k - 1] \in SUBSET U BY <1>8, <3>1
    <3>3. <<k, g[k - 1]>> \in (1..N) \X SUBSET U BY <3>1, <3>2
    <3> QED BY <3>3
  <2> QED BY <2>1, <2>2 DEF roundsBy
<1>9. \E g \in [0..N -> SUBSET U] : roundsBy(g, n, add, N)
  <2> HIDE DEF step, U, N
  <2> QED BY <1>7, <1>8
<1>10. ASSUME NEW g, roundsOf(g, n, D, add, N) PROVE g[N] \in SUBSET U /\ n \in g[N] /\ add[g[N]] \subseteq g[N]
  <2> DEFINE Bad == {k \in 0..N : g[k] \notin SUBSET U}
  <2>1. g[0] = {n} /\ \A k \in 1..N : g[k - 1] \in SUBSET U => g[k] = g[k - 1] \cup add[g[k - 1]]
    BY <1>10 DEF roundsOf
  <2>2. Bad = {}
    <3>1. SUFFICES ASSUME Bad # {} PROVE FALSE OBVIOUS
    <3>2. Bad \in SUBSET Nat BY <1>1
    <3>3. PICK t \in Bad : \A u \in Bad : t <= u BY <3>1, <3>2, LeastNat
    <3>4. t \in 0..N /\ g[t] \notin SUBSET U BY <3>3
    <3>5. t # 0 BY <2>1, <3>4
    <3>6. t \in 1..N /\ t - 1 \in 0..N /\ t - 1 < t BY <1>1, <3>4, <3>5
    <3>7. g[t - 1] \in SUBSET U => g[t] = g[t - 1] \cup add[g[t - 1]] BY <2>1, <3>6
    <3>8. g[t - 1] \notin SUBSET U BY <1>3, <3>4, <3>7
    <3>9. t <= t - 1 BY <3>3, <3>6, <3>8
    <3> QED BY <3>6, <3>9
  <2>3. g \in [0..N -> SUBSET U]
    <3>3. g = [k \in 0..N |-> g[k]] BY <1>10 DEF roundsOf
    <3> HIDE DEF U, N
    <3> QED BY <2>2, <3>3
  <2>4. g[0] = {n} BY <2>1
  <2>5. \A k \in 1..N : g[k] = f[g[k - 1]]
    <3> TAKE k \in 1..N
    <3>1. k \in 0..N /\ k - 1 \in 0..N /\ k # 0 BY <1>1
    <3>2. g[k - 1] \in SUBSET U BY <2>3, <3>1
    <3> QED BY <1>6, <2>1, <3>1, <3>2
  <2>6. n \in U OBVIOUS
  <2> HIDE DEF U, N, f
  <2>7. f \in [SUBSET U -> SUBSET U] BY <1>6
  <2>8. \A A \in SUBSET U : A \subseteq f[A] BY <1>6
  <2>9. g[N] \in SUBSET U /\ n \in g[N] /\ f[g[N]] = g[N]
    <3>1. grows(g, f, n, U, N) BY <1>1, <1>2, <2>3, <2>4, <2>5, <2>6, <2>7, <2>8 DEF grows
    <3> QED BY <3>1, Saturates
  <2> QED BY <1>6, <2>9
<1> QED BY <1>9, <1>10


\* The copies of a value are closed under copying; the others are values of copies and phis.
LEMMA CopiesAre ==
  ASSUME NEW P, NEW E, IsFiniteSet(E), NEW n
  PROVE  /\ n \in copies(P, E, n)
         /\ \A e \in copying(P, E) : e.src \in copies(P, E, n) => e.dst \in copies(P, E, n)
         /\ \A m \in copies(P, E, n) : m = n \/ nodeOp(P, m) \in {"copy", "phi"}
<1> DEFINE D == {e.dst : e \in copying(P, E)}
           U == {n} \cup D
           N == Cardinality(E)
           add == [A \in SUBSET U |-> copiesOf(P, E, A)]
           f == CHOOSE g : copiesBy(g, P, E, n)
<1>1. copying(P, E) \subseteq E BY DEF copying
<1>2. D \subseteq {e.dst : e \in E} BY <1>1
<1>3. add \in [SUBSET U -> SUBSET D]
  <2>1. \A A \in SUBSET U : copiesOf(P, E, A) \in SUBSET D BY DEF copiesOf
  <2> QED BY <2>1
<1>4. N \in Nat BY FS_CardinalityType
<1>5. copies(P, E, n) = f[N] BY DEF copies, copiesBy
<1>6. PICK g \in [0..N -> SUBSET U] : roundsBy(g, n, add, N)
  <2> HIDE DEF add, D
  <2> QED BY <1>2, <1>3, Rounds
<1>7. copiesBy(g, P, E, n)
  <2>1. \A k \in 0..N : k # 0 => add[g[k - 1]] = {e.dst : e \in {x \in copying(P, E) : x.src \in g[k - 1]}}
    <3> TAKE k \in 0..N
    <3> HAVE k # 0
    <3>1. k - 1 \in 0..N BY <1>4
    <3>2. g[k - 1] \in SUBSET U BY <1>6, <3>1
    <3> QED BY <3>2 DEF copiesOf
  <2> HIDE DEF add
  <2> QED BY <1>6, <2>1 DEF copiesBy, roundsBy
<1>8. copiesBy(f, P, E, n) BY <1>7
<1> HIDE DEF f
<1>9. roundsOf(f, n, D, add, N)
  <2>1. f = [k \in 0..N |->
               IF k = 0 THEN {n}
               ELSE LET A == f[k - 1] IN A \cup {e.dst : e \in {x \in copying(P, E) : x.src \in A}}]
    BY <1>8 DEF copiesBy
  <2>2. DOMAIN f = 0..N /\ f = [k \in 0..N |-> f[k]] BY <2>1
  <2>3. \A k \in 0..N : f[k] = IF k = 0 THEN {n}
                               ELSE f[k - 1] \cup {e.dst : e \in {x \in copying(P, E) : x.src \in f[k - 1]}}
    BY <2>1
  <2>4. f[0] = {n}
    <3>1. 0 \in 0..N BY <1>4
    <3> QED BY <2>3, <3>1
  <2>5. ASSUME NEW k \in 1..N, f[k - 1] \in SUBSET U PROVE f[k] = f[k - 1] \cup add[f[k - 1]]
    <3>1. k \in 0..N /\ k # 0 BY <1>4
    <3>2. add[f[k - 1]] = {e.dst : e \in {x \in copying(P, E) : x.src \in f[k - 1]}} BY <2>5 DEF copiesOf
    <3> QED BY <2>3, <3>1, <3>2
  <2> HIDE DEF add, D
  <2> QED BY <2>2, <2>4, <2>5 DEF roundsOf
<1>10. f[N] \in SUBSET U /\ n \in f[N] /\ add[f[N]] \subseteq f[N]
  <2> HIDE DEF add, D
  <2> QED BY <1>2, <1>3, <1>9, Rounds
<1>11. add[f[N]] = copiesOf(P, E, f[N]) BY <1>10
<1>12. \A e \in copying(P, E) : e.src \in f[N] => e.dst \in f[N] BY <1>10, <1>11 DEF copiesOf
<1>13. \A m \in D : nodeOp(P, m) \in {"copy", "phi"} BY DEF copying
<1> HIDE DEF add, D
<1> QED BY <1>5, <1>10, <1>12, <1>13

\* An allocation is followed from wrapper to wrapper; what it comes to are results of calls.
LEMMA FollowedAre ==
  ASSUME NEW P, NEW E, IsFiniteSet(E), NEW n
  PROVE  /\ n \in followed(P, E, n)
         /\ \A m \in followed(P, E, n) : isInAWrapper(P, E, m) =>
              \A e \in leaving(P, E, m) : e.dst \in followed(P, E, n)
         /\ \A m \in followed(P, E, n) : m = n \/ \E e \in E : e.kind = "ret" /\ e.dst = m
<1> DEFINE D == {e.dst : e \in {x \in E : x.kind = "ret"}}
           U == {n} \cup D
           N == Cardinality(E)
           add == [A \in SUBSET U |-> followersOf(P, E, A)]
           f == CHOOSE g : followedBy(g, P, E, n)
<1>2. D \subseteq {e.dst : e \in E} OBVIOUS
<1>3. add \in [SUBSET U -> SUBSET D]
  <2>1. \A A \in SUBSET U : followersOf(P, E, A) \in SUBSET D
    <3>1. ASSUME NEW m, isInAWrapper(P, E, m) PROVE {e.dst : e \in leaving(P, E, m)} \in SUBSET D
      <4>1. \A e \in leaving(P, E, m) : e.kind = "ret" /\ e \in E BY <3>1 DEF isInAWrapper, leaving
      <4> QED BY <4>1
    <3> HIDE DEF D
    <3> QED BY <3>1 DEF followersOf
  <2> HIDE DEF D
  <2> QED BY <2>1
<1>4. N \in Nat BY FS_CardinalityType
<1>5. followed(P, E, n) = f[N] BY DEF followed, followedBy
<1>6. PICK g \in [0..N -> SUBSET U] : roundsBy(g, n, add, N)
  <2> HIDE DEF add, D
  <2> QED BY <1>2, <1>3, Rounds
<1>7. followedBy(g, P, E, n)
  <2>1. \A k \in 0..N : k # 0 =>
          add[g[k - 1]] = UNION {{e.dst : e \in leaving(P, E, m)} : m \in {x \in g[k - 1] : isInAWrapper(P, E, x)}}
    <3> TAKE k \in 0..N
    <3> HAVE k # 0
    <3>1. k - 1 \in 0..N BY <1>4
    <3>2. g[k - 1] \in SUBSET U BY <1>6, <3>1
    <3> QED BY <3>2 DEF followersOf
  <2> HIDE DEF add
  <2> QED BY <1>6, <2>1 DEF followedBy, roundsBy
<1>8. followedBy(f, P, E, n) BY <1>7
<1> HIDE DEF f
<1>9. roundsOf(f, n, D, add, N)
  <2>1. f = [k \in 0..N |->
               IF k = 0 THEN {n}
               ELSE LET A == f[k - 1]
                    IN A \cup UNION {{e.dst : e \in leaving(P, E, m)} : m \in {x \in A : isInAWrapper(P, E, x)}}]
    BY <1>8 DEF followedBy
  <2>2. DOMAIN f = 0..N /\ f = [k \in 0..N |-> f[k]] BY <2>1
  <2>3. \A k \in 0..N : f[k] = IF k = 0 THEN {n} ELSE f[k - 1] \cup followersOf(P, E, f[k - 1])
    BY <2>1 DEF followersOf
  <2>4. f[0] = {n}
    <3>1. 0 \in 0..N BY <1>4
    <3> QED BY <2>3, <3>1
  <2>5. ASSUME NEW k \in 1..N, f[k - 1] \in SUBSET U PROVE f[k] = f[k - 1] \cup add[f[k - 1]]
    <3>1. k \in 0..N /\ k # 0 BY <1>4
    <3>2. add[f[k - 1]] = followersOf(P, E, f[k - 1]) BY <2>5
    <3> QED BY <2>3, <3>1, <3>2
  <2> HIDE DEF add, D
  <2> QED BY <2>2, <2>4, <2>5 DEF roundsOf
<1>10. f[N] \in SUBSET U /\ n \in f[N] /\ add[f[N]] \subseteq f[N]
  <2> HIDE DEF add, D
  <2> QED BY <1>2, <1>3, <1>9, Rounds
<1>11. add[f[N]] = followersOf(P, E, f[N]) BY <1>10
<1>12. ASSUME NEW m \in f[N], isInAWrapper(P, E, m), NEW e \in leaving(P, E, m) PROVE e.dst \in f[N]
  <2>1. e.dst \in followersOf(P, E, f[N]) BY <1>12 DEF followersOf
  <2> HIDE DEF add
  <2> QED BY <1>10, <1>11, <2>1
<1> HIDE DEF add
<1> QED BY <1>5, <1>10, <1>12


sourceSet(P) == initSrcs(P, buildSVFG(P))

\* m is in a wrapper, and an allocation is followed to it
wrapped(P, m) ==
  /\ isInAWrapper(P, buildSVFG(P), m)
  /\ \E n \in allocations(P) : ~inDeadFunction(P, n) /\ m \in followed(P, buildSVFG(P), n)

LEMMA SourceIs ==
  ASSUME NEW P \in Programs, NEW s \in sourceSet(P)
  PROVE  s # Nil /\ nodeOp(P, s) \in {"malloc", "call"} /\ ~isInAWrapper(P, buildSVFG(P), s)
<1> DEFINE E == buildSVFG(P)
<1>1. IsFiniteSet(E) BY EdgesFinite
<1>2. PICK n \in allocations(P) : s \in sourcesOf(P, E, n) BY DEF sourceSet, initSrcs
<1>3. s \in followed(P, E, n) /\ ~isInAWrapper(P, E, s) BY <1>2 DEF sourcesOf
<1> HIDE DEF E
<1>4. s = n \/ \E e \in E : e.kind = "ret" /\ e.dst = s BY <1>1, <1>3, FollowedAre
<1>5. CASE s = n
  <2>1. PICK i \in insts(P) : at(P, i).op = "malloc" /\ s = at(P, i).def BY <1>2, <1>5 DEF allocations, named
  <2>2. s # Nil BY <2>1, ProgramsAssumption
  <2>3. at(P, i).op # "exit" /\ at(P, i).def # Nil BY <2>1, <2>2
  <2>4. nodeOp(P, at(P, i).def) = at(P, i).op BY <2>3, NodeIs
  <2> QED BY <1>3, <2>1, <2>2, <2>4 DEF E
<1>6. CASE \E e \in E : e.kind = "ret" /\ e.dst = s
  <2>1. PICK e \in buildSVFG(P) : e.kind = "ret" /\ e.dst = s BY <1>6 DEF E
  <2>2. PICK i \in insts(P) : at(P, i).op = "call" /\ e.dst = at(P, i).def /\ e.dst # Nil BY <2>1, RetEdgeIs
  <2>3. at(P, i).op # "exit" /\ at(P, i).def # Nil BY <2>2
  <2>4. nodeOp(P, at(P, i).def) = at(P, i).op BY <2>3, NodeIs
  <2> QED BY <1>3, <2>1, <2>2, <2>4 DEF E
<1> QED BY <1>4, <1>5, <1>6

\* what an allocation is followed to is a source, in a function nobody calls, or wrapped
LEMMA SourceOrWrapped ==
  ASSUME NEW P \in Programs, NEW n \in allocations(P), ~inDeadFunction(P, n),
         NEW m \in followed(P, buildSVFG(P), n)
  PROVE  m \in sourceSet(P) \/ inDeadFunction(P, m) \/ wrapped(P, m)
<1>1. SUFFICES ASSUME ~inDeadFunction(P, m), ~isInAWrapper(P, buildSVFG(P), m) PROVE m \in sourceSet(P)
  BY DEF wrapped
<1>2. m \in sourcesOf(P, buildSVFG(P), n) BY <1>1 DEF sourcesOf
<1> QED BY <1>2 DEF sourceSet, initSrcs

\* A copy of a value in a wrapper is no source; it is copied, or returned to a value that is a
\* source, in a wrapper too, or in a function nobody calls.
LEMMA WrappedGoes ==
  ASSUME NEW P \in Programs, NEW m, wrapped(P, m), NEW x \in copies(P, buildSVFG(P), m)
  PROVE  /\ x \notin sourceSet(P)
         /\ \A e \in buildSVFG(P) : e.src = x =>
              \/ /\ e.kind = "intra" /\ e.dst \in copies(P, buildSVFG(P), m)
                 /\ nodeOp(P, e.dst) \in {"copy", "phi"}
              \/ e.kind = "ret" /\ (e.dst \in sourceSet(P) \/ inDeadFunction(P, e.dst) \/ wrapped(P, e.dst))
<1> DEFINE E == buildSVFG(P)
<1>1. IsFiniteSet(E) BY EdgesFinite
<1>2. isInAWrapper(P, E, m) BY DEF wrapped
<1>3. PICK n \in allocations(P) : ~inDeadFunction(P, n) /\ m \in followed(P, E, n) BY DEF wrapped
<1>4. x \notin sourceSet(P)
  <2>1. SUFFICES ASSUME x \in sourceSet(P) PROVE FALSE OBVIOUS
  <2>2. nodeOp(P, x) \in {"malloc", "call"} /\ ~isInAWrapper(P, E, x) BY <2>1, SourceIs
  <2> HIDE DEF E
  <2>3. x = m \/ nodeOp(P, x) \in {"copy", "phi"} BY <1>1, CopiesAre DEF E
  <2> QED BY <1>2, <2>2, <2>3
<1>5. ASSUME NEW e \in E, e.src = x
      PROVE  \/ /\ e.kind = "intra" /\ e.dst \in copies(P, E, m)
                /\ nodeOp(P, e.dst) \in {"copy", "phi"}
             \/ e.kind = "ret" /\ (e.dst \in sourceSet(P) \/ inDeadFunction(P, e.dst) \/ wrapped(P, e.dst))
  <2>1. CASE e \in copying(P, E)
    <3>1. e.kind = "intra" /\ nodeOp(P, e.dst) \in {"copy", "phi"} BY <2>1 DEF copying
    <3> HIDE DEF E
    <3>2. e.src \in copies(P, E, m) BY <1>5 DEF E
    <3>3. e.dst \in copies(P, E, m) BY <1>1, <2>1, <3>2, CopiesAre
    <3> QED BY <3>1, <3>3
  <2>2. CASE e \notin copying(P, E)
    <3>1. e \in leaving(P, E, m) BY <1>5, <2>2 DEF leaving
    <3>2. e.kind = "ret" BY <1>2, <3>1 DEF isInAWrapper
    <3> HIDE DEF E
    <3>3. e.dst \in followed(P, E, n) BY <1>1, <1>2, <1>3, <3>1, FollowedAre
    <3>4. e.dst \in followed(P, buildSVFG(P), n) BY <3>3 DEF E
    <3> QED BY <1>3, <3>2, <3>4, SourceOrWrapped
  <2> QED BY <2>1, <2>2
<1> QED BY <1>4, <1>5

-----------------------------------------------------------------------------
(* The analysis                                                             *)

\* V has the items of n and what they lead to, and no call of free
flows(V, s) ==
  /\ <<s, <<>>>> \in V
  /\ \A it \in V :
       /\ ~isSink(it[1])
       /\ \A e \in svfg : e.src = it[1] /\ enterable(it[2], e) => <<e.dst, contextOver(it[2], e)>> \in V

neverSunk(s) == \E V : flows(V, s)

\* V has the items of s and what they lead to, in nodes of the slice that are no globals
fills(V, F, s) ==
  /\ <<s, <<>>>> \in V
  /\ \A it \in V :
       /\ it[1] \in F /\ ~isGlobal(it[1])
       /\ \A e \in svfg : e.src = it[1] /\ enterable(it[2], e) => <<e.dst, contextOver(it[2], e)>> \in V

whole(F, s) == \E V : fills(V, F, s)

rootItem == <<slice.root, <<>>>>

\* a slice is being made
slicing == pass \in {"forward", "backward", "guard", "report"}

SliceLike ==
  /\ slice = [root |-> slice.root, forward |-> slice.forward, backward |-> slice.backward,
              sinks |-> slice.sinks, vfCond |-> slice.vfCond, partial |-> slice.partial, glob |-> slice.glob]
  /\ slice.partial \in BOOLEAN /\ slice.glob \in BOOLEAN

\* the item has been taken: the slice has its node and knows it as a sink, and what it leads
\* to was visited
passed(it) ==
  /\ it[1] \in slice.forward /\ (isSink(it[1]) => slice.partial)
  /\ \A e \in svfg : e.src = it[1] /\ enterable(it[2], e) => <<e.dst, contextOver(it[2], e)>> \in visited

Forward ==
  pass = "forward" =>
    /\ worklist \in Seq(visited \cup {rootItem})
    /\ ~slice.glob => \A it \in visited \cup {rootItem} : it \in ToSet(worklist) \/ passed(it)
    /\ ~slice.glob => \A it \in visited : ~isGlobal(it[1])

SourcesKept ==
  /\ DOMAIN reports \cup sources \cup (IF slicing THEN {slice.root} ELSE {}) = sourceSet(prog)
  /\ pass = "run" => sources = {}

AnalysisInv ==
  /\ prog \in Programs
  /\ pass \in {"init", "source", "forward", "backward", "guard", "report", "run"}
  /\ pass = "init" => reports = <<>>
  /\ pass # "init" => svfg = buildSVFG(prog) /\ SourcesKept
  /\ SliceLike /\ Forward
  /\ pass \in {"backward", "guard", "report"} /\ ~slice.glob =>
       whole(slice.forward, slice.root) /\ (~slice.partial => neverSunk(slice.root))
  /\ \A s \in DOMAIN reports : reports[s].leak = "NeverFree" => neverSunk(s)


\* what forwardpropagate works on
Propagations(T) == [q : Seq(T), visited : SUBSET T, glob : BOOLEAN]

\* t is later than st: nothing is forgotten, and what was added to one was added to the other
laterThan(t, st) ==
  /\ st.visited \subseteq t.visited /\ ToSet(st.q) \subseteq ToSet(t.q)
  /\ t.visited \subseteq st.visited \cup ToSet(t.q) /\ ToSet(t.q) \subseteq ToSet(st.q) \cup t.visited
  /\ ~t.glob => ~st.glob /\ \A it \in t.visited : it \in st.visited \/ ~isGlobal(it[1])

itemOver(c, e) == <<e.dst, contextOver(c, e)>>

LEMMA PropagateOne ==
  ASSUME NEW T, NEW st \in Propagations(T), NEW c, NEW e, itemOver(c, e) \in T
  PROVE  /\ forwardpropagate(st, c, e) \in Propagations(T)
         /\ laterThan(forwardpropagate(st, c, e), st)
         /\ ~forwardpropagate(st, c, e).glob /\ enterable(c, e) =>
              itemOver(c, e) \in forwardpropagate(st, c, e).visited
<1> DEFINE item == itemOver(c, e)
<1>1. st.q \in Seq(T) /\ st.visited \in SUBSET T /\ st.glob \in BOOLEAN BY DEF Propagations
<1>2. st = [q |-> st.q, visited |-> st.visited, glob |-> st.glob] BY DEF Propagations
<1>3. CASE isGlobal(e.dst) \/ st.glob
  <2>1. forwardpropagate(st, c, e) = [st EXCEPT !.glob = TRUE] BY <1>3 DEF forwardpropagate
  <2> DEFINE t == [st EXCEPT !.glob = TRUE]
  <2>2. t \in Propagations(T) BY DEF Propagations
  <2>3. t.q = st.q /\ t.visited = st.visited BY <1>2
  <2>4. t.glob BY <1>2
  <2> HIDE DEF t
  <2>5. laterThan(t, st) BY <1>1, <2>3, <2>4 DEF laterThan
  <2> QED BY <2>1, <2>2, <2>4, <2>5 DEF t
<1>4. CASE ~(isGlobal(e.dst) \/ st.glob) /\ (~enterable(c, e) \/ item \in st.visited)
  <2>1. forwardpropagate(st, c, e) = st BY <1>4 DEF forwardpropagate, itemOver
  <2> QED BY <1>4, <2>1 DEF laterThan
<1>5. CASE ~(isGlobal(e.dst) \/ st.glob) /\ enterable(c, e) /\ item \notin st.visited
  <2>1. forwardpropagate(st, c, e) = [st EXCEPT !.visited = @ \cup {item}, !.q = pushed(@, item)]
    BY <1>5 DEF forwardpropagate, itemOver
  <2>2. forwardpropagate(st, c, e) = [q |-> pushed(st.q, item), visited |-> st.visited \cup {item}, glob |-> st.glob]
    BY <1>2, <2>1
  <2>3. pushed(st.q, item) \in Seq(T) /\ ToSet(pushed(st.q, item)) = ToSet(st.q) \cup {item} BY <1>1, PushedSet
  <2>7. item[1] = e.dst BY DEF itemOver
  <2> HIDE DEF item
  <2>4. item \in T BY DEF item
  <2>5. forwardpropagate(st, c, e) \in Propagations(T) BY <1>1, <2>2, <2>3, <2>4 DEF Propagations
  <2>6. laterThan(forwardpropagate(st, c, e), st) BY <1>5, <2>2, <2>3, <2>7 DEF laterThan
  <2> QED BY <2>2, <2>5, <2>6 DEF item
<1> QED BY <1>3, <1>4, <1>5

along(done, st, c, es) ==
  done = [k \in 0..Len(es) |-> IF k = 0 THEN st ELSE forwardpropagate(done[k - 1], c, es[k])]

LEMMA PropagateAll ==
  ASSUME NEW T, NEW st \in Propagations(T), NEW c, NEW X, NEW es \in Seq(X), \A e \in X : itemOver(c, e) \in T
  PROVE  /\ propagateAlong(st, c, es) \in Propagations(T)
         /\ laterThan(propagateAlong(st, c, es), st)
         /\ ~propagateAlong(st, c, es).glob =>
              \A e \in ToSet(es) : enterable(c, e) => itemOver(c, e) \in propagateAlong(st, c, es).visited
<1> DEFINE N == Len(es)
           S == Propagations(T)
           step == [p \in (1..N) \X S |-> forwardpropagate(p[2], c, es[p[1]])]
           f == CHOOSE done : along(done, st, c, es)
           Done(k) == /\ f[k] \in S /\ laterThan(f[k], st)
                      /\ ~f[k].glob => \A i \in 1..k : enterable(c, es[i]) => itemOver(c, es[i]) \in f[k].visited
           Bad == {k \in 0..N : ~Done(k)}
<1>1. N \in Nat /\ (\A i \in 1..N : es[i] \in X) /\ DOMAIN es = 1..N OBVIOUS
<1>2. propagateAlong(st, c, es) = f[N] BY DEF propagateAlong, along
<1>3. \A t \in S : \A k \in 1..N : /\ forwardpropagate(t, c, es[k]) \in S /\ laterThan(forwardpropagate(t, c, es[k]), t)
                                   /\ ~forwardpropagate(t, c, es[k]).glob /\ enterable(c, es[k]) =>
                                        itemOver(c, es[k]) \in forwardpropagate(t, c, es[k]).visited
  <2> TAKE t \in S
  <2> TAKE k \in 1..N
  <2>1. itemOver(c, es[k]) \in T BY <1>1
  <2> QED BY <2>1, PropagateOne
<1>4. step \in [(1..N) \X S -> S]
  <2>1. \A p \in (1..N) \X S : forwardpropagate(p[2], c, es[p[1]]) \in S
    <3> TAKE p \in (1..N) \X S
    <3>1. p[1] \in 1..N /\ p[2] \in S OBVIOUS
    <3> HIDE DEF S, N
    <3> QED BY <1>3, <3>1
  <2> QED BY <2>1
<1> HIDE DEF N, S
<1>5. PICK g \in [0..N -> S] : iterates(g, step, st, N)
  <2>1. st \in S /\ N \in 0..N BY <1>1 DEF S
  <2> HIDE DEF step
  <2> QED BY <1>1, <1>4, <2>1, IterExists
<1>6. along(g, st, c, es)
  <2>1. \A k \in 0..N : k # 0 => step[<<k, g[k - 1]>>] = forwardpropagate(g[k - 1], c, es[k])
    <3> TAKE k \in 0..N
    <3> HAVE k # 0
    <3>1. k \in 1..N /\ k - 1 \in 0..N BY <1>1
    <3>2. g[k - 1] \in S BY <3>1
    <3>3. <<k, g[k - 1]>> \in (1..N) \X S BY <3>1, <3>2
    <3> QED BY <3>3
  <2> HIDE DEF step
  <2>2. g = [k \in 0..N |-> IF k = 0 THEN st ELSE step[<<k, g[k - 1]>>]] BY <1>5 DEF iterates
  <2>3. g = [k \in 0..N |-> IF k = 0 THEN st ELSE forwardpropagate(g[k - 1], c, es[k])] BY <2>1, <2>2
  <2> QED BY <2>3 DEF along, N
<1>7. along(f, st, c, es) BY <1>6
<1> HIDE DEF f
<1>8. \A k \in 0..N : f[k] = IF k = 0 THEN st ELSE forwardpropagate(f[k - 1], c, es[k])
  <2>1. f = [k \in 0..N |-> IF k = 0 THEN st ELSE forwardpropagate(f[k - 1], c, es[k])] BY <1>7 DEF along, N
  <2> QED BY <2>1
<1>9. Done(0)
  <2>1. f[0] = st BY <1>1, <1>8
  <2> QED BY <2>1 DEF laterThan, S
<1>10. ASSUME NEW k \in 1..N, Done(k - 1) PROVE Done(k)
  <2>1. k \in 0..N /\ k # 0 /\ f[k] = forwardpropagate(f[k - 1], c, es[k]) BY <1>1, <1>8
  <2>2. f[k - 1] \in S /\ laterThan(f[k - 1], st) BY <1>10
  <2>3. f[k] \in S /\ laterThan(f[k], f[k - 1]) BY <1>3, <2>1, <2>2
  <2>4. ~f[k].glob /\ enterable(c, es[k]) => itemOver(c, es[k]) \in f[k].visited BY <1>3, <2>1, <2>2
  <2>5. laterThan(f[k], st) BY <2>2, <2>3 DEF laterThan
  <2>6. ASSUME ~f[k].glob, NEW i \in 1..k, enterable(c, es[i]) PROVE itemOver(c, es[i]) \in f[k].visited
    <3>1. CASE i = k BY <2>4, <2>6, <3>1
    <3>2. CASE i # k
      <4>1. i \in 1..k - 1 BY <1>1, <3>2
      <4>2. ~f[k - 1].glob /\ f[k - 1].visited \subseteq f[k].visited BY <2>3, <2>6 DEF laterThan
      <4> QED BY <1>10, <2>6, <4>1, <4>2
    <3> QED BY <3>1, <3>2
  <2> QED BY <2>3, <2>5, <2>6
<1> HIDE DEF Done
<1>11. Bad = {}
  <2>1. SUFFICES ASSUME Bad # {} PROVE FALSE OBVIOUS
  <2>2. Bad \in SUBSET Nat BY <1>1
  <2>3. PICK t \in Bad : \A u \in Bad : t <= u BY <2>1, <2>2, LeastNat
  <2>4. t \in 1..N /\ t - 1 \in 0..N /\ t - 1 < t BY <1>1, <1>9, <2>3
  <2>5. t - 1 \in Bad BY <1>10, <2>3, <2>4
  <2>6. t <= t - 1 BY <2>3, <2>5
  <2> QED BY <2>4, <2>6
<1>12. Done(N)
  <2>1. N \in 0..N BY <1>1
  <2> QED BY <1>11, <2>1
<1>13. ToSet(es) = {es[i] : i \in 1..N} BY <1>1 DEF ToSet
<1> QED BY <1>2, <1>12, <1>13 DEF Done, S

\* flows only looks at the graph and the program
LEMMA SameFlows ==
  ASSUME prog' = prog, svfg' = svfg
  PROVE  /\ \A V, s : flows(V, s) => flows(V, s)'
         /\ \A s : neverSunk(s) => neverSunk(s)'
         /\ \A F, s : whole(F, s) => whole(F, s)'
BY DEF flows, neverSunk, fills, whole, isSink, isGlobal, enterable, contextOver, pushContext, popContext, matches

LEMMA StartAnalysis == Init => AnalysisInv
<1> SUFFICES ASSUME Init PROVE AnalysisInv OBVIOUS
<1>1. prog \in Programs /\ pass = "init" /\ slice = NoSlice /\ reports = <<>> BY DEF Init, SaberInit
<1>2. SliceLike BY <1>1 DEF SliceLike, NoSlice
<1>3. DOMAIN reports = {} BY <1>1
<1> QED BY <1>1, <1>2, <1>3 DEF AnalysisInv, Forward


LEMMA AnalysisStays ==
  ASSUME AnalysisInv, UNCHANGED <<prog, pass, saberVars>>
  PROVE  AnalysisInv'
<1>1. /\ prog' = prog /\ pass' = pass /\ svfg' = svfg /\ sources' = sources /\ slice' = slice
      /\ worklist' = worklist /\ visited' = visited /\ reports' = reports
  BY DEF saberVars
<1>2. SliceLike' BY <1>1 DEF AnalysisInv, SliceLike
<1>3. Forward'
  <2>1. \A it : passed(it) => passed(it)'
    BY <1>1 DEF passed, isSink, enterable, contextOver, pushContext, popContext, matches
  <2> QED BY <1>1, <2>1 DEF AnalysisInv, Forward, rootItem, isGlobal
<1>4. pass # "init" => SourcesKept' BY <1>1 DEF AnalysisInv, SourcesKept, slicing
<1> QED BY <1>1, <1>2, <1>3, <1>4, SameFlows DEF AnalysisInv

\* the passes after the forward traversal keep what is known of the slice
LEMMA SliceKept ==
  ASSUME AnalysisInv, pass \in {"backward", "guard", "report"}, pass' \in {"backward", "guard", "report"},
         UNCHANGED <<prog, svfg, sources, reports>>, SliceLike',
         slice'.root = slice.root, slice'.partial = slice.partial, slice'.glob = slice.glob,
         slice'.forward = slice.forward
  PROVE  AnalysisInv'
<1>1. prog' = prog /\ svfg' = svfg /\ sources' = sources /\ reports' = reports OBVIOUS
<1>2. SourcesKept' BY <1>1 DEF AnalysisInv, SourcesKept, slicing
<1>3. Forward' BY DEF Forward
<1> QED BY <1>1, <1>2, <1>3, SameFlows DEF AnalysisInv

LEMMA InitializeKeeps == ASSUME AnalysisInv, initialize PROVE AnalysisInv'
<1>1. /\ pass = "init" /\ pass' = "source" /\ prog' = prog /\ svfg' = buildSVFG(prog) /\ reports' = reports
      /\ sources' = initSrcs(prog, svfg') /\ slice' = slice
  BY DEF initialize
<1>2. reports = <<>> /\ DOMAIN reports = {}
  <2>1. reports = <<>> BY <1>1 DEF AnalysisInv
  <2> QED BY <2>1
<1>3. SliceLike' BY <1>1 DEF AnalysisInv, SliceLike
<1>4. SourcesKept'
  <2>1. sources' = sourceSet(prog)' BY <1>1 DEF sourceSet
  <2> QED BY <1>1, <1>2, <2>1 DEF SourcesKept, slicing
<1> QED BY <1>1, <1>2, <1>3, <1>4 DEF AnalysisInv, Forward

LEMMA SetCurSliceKeeps == ASSUME AnalysisInv, setCurSlice PROVE AnalysisInv'
<1>1. PICK s \in sources : /\ slice' = [NoSlice EXCEPT !.root = s] /\ sources' = sources \ {s}
                           /\ worklist' = << <<s, <<>>>> >>
  BY DEF setCurSlice
<1>2. pass = "source" /\ pass' = "forward" /\ visited' = {} /\ prog' = prog /\ svfg' = svfg /\ reports' = reports
  BY DEF setCurSlice
<1>3. slice' = [root |-> s, forward |-> {}, backward |-> {}, sinks |-> {}, vfCond |-> <<>>,
                partial |-> FALSE, glob |-> FALSE]
  BY <1>1 DEF NoSlice
<1>4. SliceLike' BY <1>3 DEF SliceLike
<1>5. Forward'
  <2>1. rootItem' = <<s, <<>>>> BY <1>3 DEF rootItem
  <2>2. worklist' \in Seq({rootItem'}) /\ ToSet(worklist') = {rootItem'} BY <1>1, <2>1 DEF ToSet
  <2> QED BY <1>2, <2>2 DEF Forward
<1>6. SourcesKept' BY <1>1, <1>2, <1>3 DEF AnalysisInv, SourcesKept, slicing
<1> QED BY <1>2, <1>4, <1>5, <1>6, SameFlows DEF AnalysisInv

LEMMA ForwardKeeps == ASSUME AnalysisInv, forwardTraverse PROVE AnalysisInv'
<1> DEFINE n == Head(worklist)[1]
           c == Head(worklist)[2]
           st == [q |-> Tail(worklist), visited |-> visited, glob |-> slice.glob]
           es == outEdges(n)
           E == {e \in svfg : e.src = n}
           t == propagateAlong(st, c, es)
<1>1. /\ pass = "forward" /\ pass' = "forward" /\ worklist # <<>>
      /\ prog' = prog /\ svfg' = svfg /\ sources' = sources /\ reports' = reports
      /\ worklist' = t.q /\ visited' = t.visited
      /\ slice' = [slice EXCEPT !.forward = @ \cup {n}, !.glob = t.glob,
                                !.sinks = IF isSink(n) THEN @ \cup {n} ELSE @,
                                !.partial = @ \/ isSink(n)]
  BY DEF forwardTraverse
<1>2. svfg = buildSVFG(prog) /\ prog \in Programs /\ SliceLike BY <1>1 DEF AnalysisInv
<1>3. IsFiniteSet(E)
  <2>1. IsFiniteSet(svfg) BY <1>2, EdgesFinite
  <2> QED BY <2>1, FS_Subset
<1>4. es \in Seq(E) /\ ToSet(es) = E BY <1>3, Enumerates DEF outEdges
<1>5. slice' = [root |-> slice.root, forward |-> slice.forward \cup {n}, backward |-> slice.backward,
                sinks |-> IF isSink(n) THEN slice.sinks \cup {n} ELSE slice.sinks, vfCond |-> slice.vfCond,
                partial |-> (slice.partial \/ isSink(n)), glob |-> t.glob]
  <2> HIDE DEF t, n
  <2> QED BY <1>1, <1>2 DEF SliceLike
<1>6. slice.glob \in BOOLEAN /\ slice.partial \in BOOLEAN BY <1>2 DEF SliceLike
<1>7. /\ slice'.root = slice.root /\ slice'.glob = t.glob /\ slice'.partial = (slice.partial \/ isSink(n))
      /\ slice'.forward = slice.forward \cup {n}
  BY <1>5
<1> DEFINE S == visited \cup {rootItem}
           T == S \cup {itemOver(c, e) : e \in E}
<1>8. worklist \in Seq(S) BY <1>1 DEF AnalysisInv, Forward
<1>9. /\ Head(worklist) \in S /\ Tail(worklist) \in Seq(S)
      /\ ToSet(worklist) \subseteq {Head(worklist)} \cup ToSet(Tail(worklist)) /\ ToSet(Tail(worklist)) \subseteq S
  <2>1. ToSet(worklist) \subseteq S BY <1>8 DEF ToSet
  <2> QED BY <1>1, <1>8, <2>1, QueueSet
<1>10. st \in Propagations(T)
  <2>1. Tail(worklist) \in Seq(T) BY <1>9
  <2> QED BY <1>6, <2>1 DEF Propagations
<1>11. /\ t \in Propagations(T) /\ laterThan(t, st)
       /\ ~t.glob => \A e \in ToSet(es) : enterable(c, e) => itemOver(c, e) \in t.visited
  <2>1. \A e \in E : itemOver(c, e) \in T OBVIOUS
  <2> HIDE DEF T, es, st, c, E
  <2> QED BY <1>4, <1>10, <2>1, PropagateAll
<1>12. t.q \in Seq(T) /\ t.glob \in BOOLEAN BY <1>11 DEF Propagations
<1>13. /\ visited \subseteq t.visited /\ ToSet(Tail(worklist)) \subseteq ToSet(t.q)
       /\ t.visited \subseteq visited \cup ToSet(t.q) /\ ToSet(t.q) \subseteq ToSet(Tail(worklist)) \cup t.visited
       /\ ~t.glob => ~slice.glob /\ \A it \in t.visited : it \in visited \/ ~isGlobal(it[1])
  BY <1>11 DEF laterThan
<1> HIDE DEF t
<1>14. SliceLike'
  <2> HIDE DEF n
  <2>1. (slice.partial \/ isSink(n)) \in BOOLEAN BY <1>6 DEF isSink
  <2>2. slice'.partial \in BOOLEAN /\ slice'.glob \in BOOLEAN BY <1>7, <1>12, <2>1
  <2>3. slice' = [root |-> slice'.root, forward |-> slice'.forward, backward |-> slice'.backward,
                  sinks |-> slice'.sinks, vfCond |-> slice'.vfCond, partial |-> slice'.partial, glob |-> slice'.glob]
    BY <1>5
  <2> QED BY <2>2, <2>3 DEF SliceLike
<1>15. rootItem' = rootItem BY <1>7 DEF rootItem
<1>16. worklist' \in Seq(visited' \cup {rootItem'})
  <2>1. ToSet(t.q) \subseteq t.visited \cup {rootItem} BY <1>9, <1>13
  <2>2. \A i \in 1..Len(t.q) : t.q[i] \in t.visited \cup {rootItem}
    <3>1. DOMAIN t.q = 1..Len(t.q) BY <1>12
    <3> QED BY <2>1, <3>1 DEF ToSet
  <2>3. t.q \in Seq(t.visited \cup {rootItem}) BY <1>12, <2>2
  <2> QED BY <1>1, <1>15, <2>3
<1>17. ASSUME ~slice'.glob, NEW it \in visited' \cup {rootItem'} PROVE it \in ToSet(worklist') \/ passed(it)'
  <2>1. ~t.glob /\ ~slice.glob BY <1>7, <1>13, <1>17
  <2>2. it \in t.visited \cup {rootItem} BY <1>1, <1>15, <1>17
  <2>3. CASE it \notin S BY <1>1, <1>13, <2>2, <2>3
  <2>4. CASE it = Head(worklist)
    <3>1. it[1] = n /\ it[2] = c BY <2>4
    <3>2. it[1] \in slice'.forward /\ (isSink(it[1])' => slice'.partial) BY <1>1, <1>7, <3>1 DEF isSink
    <3>3. ASSUME NEW e \in svfg, e.src = n, enterable(c, e) PROVE <<e.dst, contextOver(c, e)>> \in visited'
      <4>1. e \in ToSet(es) BY <1>4, <3>3
      <4> QED BY <1>1, <1>11, <2>1, <3>3, <4>1 DEF itemOver
    <3> HIDE DEF n, c
    <3>4. \A e \in svfg : e.src = it[1] /\ enterable(it[2], e) => <<e.dst, contextOver(it[2], e)>> \in visited'
      BY <3>1, <3>3
    <3>5. \A e \in svfg' : e.src = it[1] /\ enterable(it[2], e)' => <<e.dst, contextOver(it[2], e)'>> \in visited'
      BY <1>1, <3>4 DEF enterable, contextOver, pushContext, popContext, matches
    <3> QED BY <3>2, <3>5 DEF passed
  <2>5. CASE it \in S /\ it # Head(worklist)
    <3>1. it \in ToSet(worklist) \/ passed(it) BY <1>1, <2>1, <2>5 DEF AnalysisInv, Forward
    <3>2. CASE it \in ToSet(worklist) BY <1>1, <1>9, <1>13, <2>5, <3>2
    <3>3. CASE passed(it)
      <4>1. it[1] \in slice'.forward /\ (isSink(it[1])' => slice'.partial) BY <1>1, <1>7, <3>3 DEF passed, isSink
      <4>2. \A e \in svfg : e.src = it[1] /\ enterable(it[2], e) => <<e.dst, contextOver(it[2], e)>> \in visited'
        BY <1>1, <1>13, <3>3 DEF passed
      <4>3. \A e \in svfg' : e.src = it[1] /\ enterable(it[2], e)' => <<e.dst, contextOver(it[2], e)'>> \in visited'
        BY <1>1, <4>2 DEF enterable, contextOver, pushContext, popContext, matches
      <4> QED BY <4>1, <4>3 DEF passed
    <3> QED BY <3>1, <3>2, <3>3
  <2> QED BY <2>3, <2>4, <2>5
<1>21. ASSUME ~slice'.glob, NEW it \in visited' PROVE ~isGlobal(it[1])'
  <2>1. ~t.glob /\ it \in t.visited BY <1>1, <1>7, <1>21
  <2>2. it \in visited => ~isGlobal(it[1]) BY <1>1, <1>13, <2>1 DEF AnalysisInv, Forward
  <2>3. ~isGlobal(it[1]) BY <1>13, <2>1, <2>2
  <2> QED BY <1>1, <2>3 DEF isGlobal
<1>18. Forward' BY <1>16, <1>17, <1>21 DEF Forward
<1>19. SourcesKept' BY <1>1, <1>7 DEF AnalysisInv, SourcesKept, slicing
<1>20. \A s \in DOMAIN reports' : reports'[s].leak = "NeverFree" => neverSunk(s)'
  BY <1>1, SameFlows DEF AnalysisInv
<1> HIDE DEF n, c, es
<1> QED BY <1>1, <1>2, <1>14, <1>18, <1>19, <1>20 DEF AnalysisInv

LEMMA ForwardDoneKeeps == ASSUME AnalysisInv, forwardDone PROVE AnalysisInv'
<1>1. /\ pass = "forward" /\ worklist = <<>> /\ pass' = (IF slice.glob THEN "report" ELSE "backward")
      /\ prog' = prog /\ svfg' = svfg /\ sources' = sources /\ reports' = reports /\ slice' = slice
  BY DEF forwardDone
<1>2. ~slice.glob /\ ~slice.partial => neverSunk(slice.root)
  <2>1. SUFFICES ASSUME ~slice.glob, ~slice.partial PROVE neverSunk(slice.root) OBVIOUS
  <2> DEFINE S == visited \cup {rootItem}
  <2>2. \A it \in S : it \in ToSet(worklist) \/ passed(it) BY <1>1, <2>1 DEF AnalysisInv, Forward
  <2>3. ToSet(worklist) = {} BY <1>1 DEF ToSet
  <2>4. flows(S, slice.root) BY <2>1, <2>2, <2>3 DEF flows, passed, rootItem
  <2> QED BY <2>4 DEF neverSunk
<1>6. ~slice.glob => whole(slice.forward, slice.root)
  <2>1. SUFFICES ASSUME ~slice.glob PROVE whole(slice.forward, slice.root) OBVIOUS
  <2> DEFINE S == visited \cup {rootItem}
  <2>2. \A it \in S : it \in ToSet(worklist) \/ passed(it) BY <1>1, <2>1 DEF AnalysisInv, Forward
  <2>3. ToSet(worklist) = {} BY <1>1 DEF ToSet
  <2>4. ~isGlobal(slice.root)
    <3>1. prog \in Programs /\ slice.root \in sourceSet(prog) BY <1>1 DEF AnalysisInv, SourcesKept, slicing
    <3>2. nodeOp(prog, slice.root) \in {"malloc", "call"} BY <3>1, SourceIs
    <3> QED BY <3>2 DEF isGlobal
  <2>5. \A it \in S : ~isGlobal(it[1]) BY <1>1, <2>1, <2>4 DEF AnalysisInv, Forward, rootItem
  <2>6. fills(S, slice.forward, slice.root) BY <2>2, <2>3, <2>5 DEF fills, passed, rootItem
  <2> QED BY <2>6 DEF whole
<1>3. ~slice.glob => whole(slice.forward, slice.root)' /\ (~slice.partial => neverSunk(slice.root)')
  BY <1>1, <1>2, <1>6, SameFlows
<1>4. SliceLike' /\ Forward' BY <1>1 DEF AnalysisInv, SliceLike, Forward
<1>5. SourcesKept' BY <1>1 DEF AnalysisInv, SourcesKept, slicing
<1> QED BY <1>1, <1>2, <1>3, <1>4, <1>5, SameFlows DEF AnalysisInv

LEMMA BackwardKeeps ==
  ASSUME AnalysisInv, backwardStart \/ backwardTraverse \/ backwardDone \/ AllPathReachableSolve \/ solved
  PROVE  AnalysisInv'
<1>1. /\ pass \in {"backward", "guard"} /\ pass' \in {"backward", "guard", "report"}
      /\ UNCHANGED <<prog, svfg, sources, reports>>
  BY DEF backwardStart, backwardTraverse, backwardDone, AllPathReachableSolve, solved
<1>2. SliceLike BY DEF AnalysisInv
<1>3. \/ slice' = slice
      \/ \E x : slice' = [slice EXCEPT !.backward = x]
      \/ \E x : slice' = [slice EXCEPT !.vfCond = x]
  BY DEF backwardStart, backwardTraverse, backwardDone, AllPathReachableSolve, solved
<1>4. /\ SliceLike' /\ slice'.root = slice.root /\ slice'.partial = slice.partial /\ slice'.glob = slice.glob
      /\ slice'.forward = slice.forward
  BY <1>2, <1>3 DEF SliceLike
<1> QED BY <1>1, <1>4, SliceKept

LEMMA ReportKeeps == ASSUME AnalysisInv, reportBug PROVE AnalysisInv'
<1> DEFINE R == DOMAIN reports \cup {slice.root}
<1>1. /\ pass = "report" /\ pass' = "source" /\ slice' = NoSlice
      /\ prog' = prog /\ svfg' = svfg /\ sources' = sources
      /\ DOMAIN reports' = R
      /\ \A s \in R : s # slice.root => reports'[s] = reports[s]
      /\ reports'[slice.root].leak = (IF isAllPathReachable THEN "None"
                                      ELSE IF isSomePathReachable THEN "PartialLeak" ELSE "NeverFree")
  BY DEF reportBug
<1>2. SliceLike' BY <1>1 DEF SliceLike, NoSlice
<1>3. SourcesKept' BY <1>1 DEF AnalysisInv, SourcesKept, slicing
<1>4. ASSUME NEW s \in R, reports'[s].leak = "NeverFree" PROVE neverSunk(s)
  <2>1. CASE s # slice.root BY <1>1, <1>4, <2>1 DEF AnalysisInv
  <2>2. CASE s = slice.root
    <3>1. ~isAllPathReachable /\ ~isSomePathReachable BY <1>1, <1>4, <2>2
    <3>2. ~slice.glob /\ ~slice.partial BY <3>1 DEF isAllPathReachable, isSomePathReachable
    <3> QED BY <1>1, <2>2, <3>2 DEF AnalysisInv
  <2> QED BY <2>1, <2>2
<1> QED BY <1>1, <1>2, <1>3, <1>4, SameFlows DEF AnalysisInv, Forward

LEMMA FinalizeKeeps == ASSUME AnalysisInv, finalize PROVE AnalysisInv'
<1>1. /\ pass = "source" /\ pass' = "run" /\ prog' = prog /\ svfg' = svfg /\ sources' = sources /\ sources = {}
      /\ slice' = slice /\ reports' = reports
  BY DEF finalize, saberVars
<1>2. SliceLike' /\ Forward' BY <1>1 DEF AnalysisInv, SliceLike, Forward
<1>3. SourcesKept' BY <1>1 DEF AnalysisInv, SourcesKept, slicing
<1> QED BY <1>1, <1>2, <1>3, SameFlows DEF AnalysisInv

LEMMA AnalysisStep == AnalysisInv /\ [Next]_vars => AnalysisInv'
<1> SUFFICES ASSUME AnalysisInv, [Next]_vars PROVE AnalysisInv' OBVIOUS
<1>1. CASE SaberNext
  BY <1>1, InitializeKeeps, SetCurSliceKeeps, ForwardKeeps, ForwardDoneKeeps, BackwardKeeps, ReportKeeps, FinalizeKeeps
  DEF SaberNext
<1>2. CASE UNCHANGED <<prog, pass, saberVars>> BY <1>2, AnalysisStays
<1>3. CASE UNCHANGED vars BY <1>3, AnalysisStays DEF vars
<1> QED BY <1>1, <1>2, <1>3 DEF Next, Stopped

-----------------------------------------------------------------------------
(* Slices lose nothing: the items of a slice follow matched calls and       *)
(* returns, with suffixes of the contexts that would have been kept.        *)

closureBy(g, E, A) ==
  g = [k \in 0..Cardinality(E) |->
         IF k = 0 THEN A
         ELSE LET B == g[k - 1] IN B \cup {e.dst : e \in {x \in E : x.src \in B}}]

\* what is closed under the edges has the closure
LEMMA ClosureIn ==
  ASSUME NEW E, IsFiniteSet(E), NEW A, NEW B, A \subseteq B, \A e \in E : e.src \in B => e.dst \in B
  PROVE  closure(E, A) \subseteq B
<1> DEFINE N == Cardinality(E)
           S == SUBSET (A \cup {e.dst : e \in E})
           next(C) == C \cup {e.dst : e \in {x \in E : x.src \in C}}
           step == [p \in (1..N) \X S |-> next(p[2])]
           f == CHOOSE g : closureBy(g, E, A)
           Bad == {k \in 0..N : ~(f[k] \subseteq B)}
<1>1. N \in Nat BY FS_CardinalityType
<1>2. closure(E, A) = f[N] BY DEF closure, closureBy
<1>3. step \in [(1..N) \X S -> S]
  <2>1. \A C \in S : next(C) \in S OBVIOUS
  <2> HIDE DEF next, S
  <2> QED BY <2>1
<1>4. PICK g \in [0..N -> S] : iterates(g, step, A, N)
  <2>1. A \in S /\ N \in 0..N BY <1>1
  <2> HIDE DEF step, S
  <2> QED BY <1>1, <1>3, <2>1, IterExists
<1>5. closureBy(g, E, A)
  <2>1. \A k \in 0..N : k # 0 => step[<<k, g[k - 1]>>] = next(g[k - 1])
    <3> TAKE k \in 0..N
    <3> HAVE k # 0
    <3>1. k \in 1..N /\ k - 1 \in 0..N BY <1>1
    <3>2. g[k - 1] \in S BY <3>1
    <3>3. <<k, g[k - 1]>> \in (1..N) \X S BY <3>1, <3>2
    <3> HIDE DEF next, S, N
    <3> QED BY <3>3
  <2>2. g = [k \in 0..N |-> IF k = 0 THEN A ELSE step[<<k, g[k - 1]>>]] BY <1>4 DEF iterates
  <2> HIDE DEF step
  <2>3. g = [k \in 0..N |-> IF k = 0 THEN A ELSE next(g[k - 1])] BY <2>1, <2>2
  <2> QED BY <2>3 DEF closureBy
<1>6. closureBy(f, E, A) BY <1>5
<1> HIDE DEF f
<1>7. \A k \in 0..N : f[k] = IF k = 0 THEN A ELSE next(f[k - 1])
  <2>1. f = [k \in 0..N |-> IF k = 0 THEN A ELSE next(f[k - 1])] BY <1>6 DEF closureBy
  <2> HIDE DEF next
  <2> QED BY <2>1
<1>8. Bad = {}
  <2>1. SUFFICES ASSUME Bad # {} PROVE FALSE OBVIOUS
  <2>2. Bad \in SUBSET Nat BY <1>1
  <2>3. PICK t \in Bad : \A u \in Bad : t <= u BY <2>1, <2>2, LeastNat
  <2>4. t # 0
    <3>1. 0 \in 0..N BY <1>1
    <3>2. f[0] = A BY <1>7, <3>1
    <3> QED BY <2>3, <3>2
  <2>5. t \in 1..N /\ t - 1 \in 0..N /\ t - 1 < t BY <1>1, <2>3, <2>4
  <2>6. f[t - 1] \subseteq B
    <3>1. t - 1 \in Bad => t <= t - 1 BY <2>3
    <3> QED BY <2>5, <3>1
  <2>7. f[t] = next(f[t - 1]) BY <1>7, <2>3, <2>4
  <2>8. next(f[t - 1]) \subseteq B BY <2>6
  <2> QED BY <2>3, <2>7, <2>8
<1>9. N \in 0..N BY <1>1
<1> QED BY <1>2, <1>8, <1>9

\* d is the end of c
suffix(d, c) ==
  Len(d) <= Len(c) /\ \A i \in 1..Len(d) : d[i] = c[(Len(c) - Len(d)) + i]

LEMMA SuffixOfSuffix ==
  ASSUME NEW S, NEW b \in Seq(S), NEW c \in Seq(S), NEW d \in Seq(S), suffix(c, b), suffix(d, c)
  PROVE  suffix(d, b)
<1>1. Len(b) \in Nat /\ Len(c) \in Nat /\ Len(d) \in Nat OBVIOUS
<1>2. Len(d) <= Len(c) /\ Len(c) <= Len(b) BY DEF suffix
<1>3. ASSUME NEW i \in 1..Len(d) PROVE d[i] = b[(Len(b) - Len(d)) + i]
  <2> DEFINE j == (Len(c) - Len(d)) + i
  <2>1. j \in 1..Len(c) /\ (Len(b) - Len(c)) + j = (Len(b) - Len(d)) + i BY <1>1, <1>2
  <2>2. d[i] = c[j] BY DEF suffix
  <2> HIDE DEF j
  <2>3. c[j] = b[(Len(b) - Len(c)) + j] BY <2>1 DEF suffix
  <2> QED BY <2>1, <2>2, <2>3
<1> QED BY <1>1, <1>2, <1>3 DEF suffix

LEMMA PopIs ==
  ASSUME NEW S, NEW d \in Seq(S)
  PROVE  /\ popContext(d) \in Seq(S) /\ suffix(<<>>, d)
         /\ d # <<>> => /\ Len(d) \in Nat \ {0} /\ Len(popContext(d)) = Len(d) - 1
                        /\ \A i \in 1..Len(d) - 1 : popContext(d)[i] = d[i]
<1>1. CASE d = <<>> BY <1>1 DEF popContext, suffix
<1>2. CASE d # <<>>
  <2>1. Len(d) \in Nat \ {0} BY <1>2
  <2>2. popContext(d) = Front(d) BY <1>2 DEF popContext
  <2>3. Front(d) = [i \in 1..(Len(d) - 1) |-> d[i]] BY DEF Front
  <2>4. Len(d) - 1 \in Nat BY <2>1
  <2>5. Front(d) \in Seq(S) /\ Len(Front(d)) = Len(d) - 1
    <3> DEFINE m == Len(d) - 1
    <3>1. \A i \in 1..m : d[i] \in S BY <2>1
    <3>2. Front(d) = [i \in 1..m |-> d[i]] BY <2>3
    <3>3. m \in Nat BY <2>4
    <3> HIDE DEF m
    <3>4. Front(d) \in Seq(S) /\ Len(Front(d)) = m BY <3>1, <3>2, <3>3
    <3> QED BY <3>4 DEF m
  <2>6. \A i \in 1..Len(d) - 1 : Front(d)[i] = d[i] BY <2>3
  <2>7. suffix(<<>>, d) BY <2>1 DEF suffix
  <2> QED BY <2>1, <2>2, <2>5, <2>6, <2>7
<1> QED BY <1>1, <1>2

\* A return matches the call it answers in every context the call may have got, and then
\* leads back to an end of the caller's context.
LEMMA PushedPops ==
  ASSUME NEW S, NEW c \in Seq(S), NEW cs \in S
  PROVE  /\ pushContext(c, cs) \in Seq(S)
         /\ \A d \in Seq(S) : suffix(d, pushContext(c, cs)) => matches(d, cs) /\ suffix(popContext(d), c)
<1> DEFINE p == pushContext(c, cs)
<1>1. CxtLimit \in Nat /\ Len(c) \in Nat BY ProgramsAssumption
<1>2. ASSUME NEW d \in Seq(S), suffix(d, p),
             NEW b \in Seq(S), suffix(b, c), p = Append(b, cs)
      PROVE  matches(d, cs) /\ suffix(popContext(d), c)
  <2>1. Len(p) = Len(b) + 1 /\ p[Len(b) + 1] = cs /\ (\A i \in 1..Len(b) : p[i] = b[i]) /\ Len(b) \in Nat
    BY <1>2
  <2>2. CASE d = <<>> BY <2>2, PopIs DEF matches, popContext
  <2>3. CASE d # <<>>
    <3> DEFINE e == popContext(d)
    <3>1. /\ e \in Seq(S) /\ Len(d) \in Nat \ {0} /\ Len(e) = Len(d) - 1
          /\ \A i \in 1..Len(d) - 1 : e[i] = d[i]
      BY <2>3, PopIs
    <3>2. Len(d) <= Len(p) /\ \A i \in 1..Len(d) : d[i] = p[(Len(p) - Len(d)) + i] BY <1>2 DEF suffix
    <3> HIDE DEF e, p
    <3>3. d[Len(d)] = cs
      <4>1. Len(d) \in 1..Len(d) /\ (Len(p) - Len(d)) + Len(d) = Len(b) + 1 BY <2>1, <3>1
      <4> QED BY <2>1, <3>2, <4>1
    <3>4. matches(d, cs) BY <3>3 DEF matches, Last
    <3>5. suffix(e, b)
      <4>1. Len(e) <= Len(b) BY <2>1, <3>1, <3>2
      <4>2. ASSUME NEW i \in 1..Len(e) PROVE e[i] = b[(Len(b) - Len(e)) + i]
        <5>1. i \in 1..Len(d) - 1 /\ i \in 1..Len(d) BY <3>1
        <5>2. (Len(p) - Len(d)) + i = (Len(b) - Len(e)) + i /\ (Len(b) - Len(e)) + i \in 1..Len(b)
          BY <2>1, <3>1, <4>1, <5>1
        <5> QED BY <2>1, <3>1, <3>2, <5>1, <5>2
      <4> QED BY <4>1, <4>2 DEF suffix
    <3>6. suffix(e, c) BY <1>2, <3>1, <3>5, SuffixOfSuffix
    <3> QED BY <3>4, <3>6 DEF e
  <2> QED BY <2>2, <2>3
<1>3. CASE Len(c) < CxtLimit
  <2>1. p = Append(c, cs) BY <1>3 DEF pushContext
  <2>2. suffix(c, c) BY <1>1 DEF suffix
  <2>3. p \in Seq(S) BY <2>1
  <2> HIDE DEF p
  <2> QED BY <1>2, <2>1, <2>2, <2>3 DEF p
<1>4. CASE ~(Len(c) < CxtLimit) /\ c = <<>>
  <2>1. p = <<>> BY <1>4 DEF pushContext
  <2>2. ASSUME NEW d \in Seq(S), suffix(d, <<>>) PROVE matches(d, cs) /\ suffix(popContext(d), c)
    <3>1. d = <<>> BY <2>2 DEF suffix
    <3> QED BY <1>4, <3>1, PopIs DEF matches, popContext
  <2> QED BY <1>4, <2>1, <2>2
<1>5. CASE ~(Len(c) < CxtLimit) /\ c # <<>>
  <2> DEFINE b == Tail(c)
  <2>1. p = Append(b, cs) BY <1>5 DEF pushContext
  <2>2. b \in Seq(S) /\ Len(b) = Len(c) - 1 /\ Len(c) >= 1 /\ \A i \in 1..Len(c) - 1 : b[i] = c[i + 1] BY <1>5
  <2>3. suffix(b, c)
    <3>1. \A i \in 1..Len(b) : (Len(c) - Len(b)) + i = i + 1 /\ i \in 1..Len(c) - 1 BY <1>1, <2>2
    <3> HIDE DEF b
    <3> QED BY <1>1, <2>2, <3>1 DEF suffix
  <2>4. p \in Seq(S) BY <2>1, <2>2
  <2> HIDE DEF p, b
  <2> QED BY <1>2, <2>1, <2>2, <2>3, <2>4 DEF p
<1> QED BY <1>3, <1>4, <1>5

Contexts == Seq(insts(prog))

\* V goes along e with no more of the context than it had, and for no other call
good(V, e) ==
  \A c \in Contexts : <<e.src, c>> \in V =>
    \E d \in Contexts : suffix(d, c) /\ <<e.dst, d>> \in V

\* V is what a slice of the program went through
filled(V, F, s) ==
  prog \in Programs /\ svfg = buildSVFG(prog) /\ fills(V, F, s)

LEMMA CallEdgeIs == ASSUME NEW P \in Programs, NEW e \in buildSVFG(P), e.kind = "call" PROVE e.cs \in insts(P)
<1>1. e \notin intraEdges(P) /\ e \notin retEdges(P) BY DEF intraEdges, retEdges, vfEdge
<1>2. PICK i \in {j \in named(P, "call") : at(P, j).arg # Nil} :
        e = vfEdge("call", at(P, i).arg, P.param[at(P, i).fun], i)
  BY <1>1 DEF buildSVFG, callEdges
<1> QED BY <1>2 DEF vfEdge, named

\* from where V has n in context c, closed and good edges only lead to where V has the node in
\* an end of c
LEMMA GoodClosure ==
  ASSUME NEW V, NEW E, IsFiniteSet(E), \A e \in E : good(V, e),
         NEW n, NEW c \in Contexts, <<n, c>> \in V, NEW m \in closure(E, {n})
  PROVE  \E d \in Contexts : suffix(d, c) /\ <<m, d>> \in V
<1> DEFINE B == {x \in {n} \cup {e.dst : e \in E} : \E d \in Contexts : suffix(d, c) /\ <<x, d>> \in V}
<1>1. {n} \subseteq B
  <2>1. suffix(c, c)
    <3>1. Len(c) \in Nat BY DEF Contexts
    <3> QED BY <3>1 DEF suffix
  <2> QED BY <2>1
<1>2. ASSUME NEW e \in E, e.src \in B PROVE e.dst \in B
  <2>1. PICK d \in Contexts : suffix(d, c) /\ <<e.src, d>> \in V BY <1>2
  <2>2. PICK b \in Contexts : suffix(b, d) /\ <<e.dst, b>> \in V BY <2>1 DEF good
  <2>3. suffix(b, c) BY <2>1, <2>2, SuffixOfSuffix DEF Contexts
  <2> QED BY <2>2, <2>3
<1> HIDE DEF B
<1>3. closure(E, {n}) \subseteq B BY <1>1, <1>2, ClosureIn
<1> QED BY <1>3 DEF B

\* V goes along the edges of a call and of a return
LEMMA CallGoes ==
  ASSUME NEW V, NEW F, NEW s, filled(V, F, s), NEW e \in svfg, e.kind = "call",
         NEW c \in Contexts, <<e.src, c>> \in V
  PROVE  e.cs \in insts(prog) /\ pushContext(c, e.cs) \in Contexts /\ <<e.dst, pushContext(c, e.cs)>> \in V
<1> DEFINE it == <<e.src, c>>
<1>1. e.cs \in insts(prog) BY CallEdgeIs DEF filled
<1>2. pushContext(c, e.cs) \in Contexts BY <1>1, PushedPops DEF Contexts
<1>3. it \in V /\ it[1] = e.src /\ it[2] = c OBVIOUS
<1>4. enterable(c, e) /\ contextOver(c, e) = pushContext(c, e.cs) BY DEF enterable, contextOver
<1> QED BY <1>1, <1>2, <1>3, <1>4 DEF filled, fills

LEMMA RetGoes ==
  ASSUME NEW V, NEW F, NEW s, filled(V, F, s), NEW e \in svfg, e.kind = "ret",
         NEW c \in Contexts, <<e.src, c>> \in V, matches(c, e.cs)
  PROVE  popContext(c) \in Contexts /\ <<e.dst, popContext(c)>> \in V
<1> DEFINE it == <<e.src, c>>
<1>1. popContext(c) \in Contexts BY PopIs DEF Contexts
<1>2. it \in V /\ it[1] = e.src /\ it[2] = c OBVIOUS
<1>3. enterable(c, e) /\ contextOver(c, e) = popContext(c) BY DEF enterable, contextOver
<1> QED BY <1>1, <1>2, <1>3 DEF filled, fills

LEMMA IntraGood ==
  ASSUME NEW V, NEW F, NEW s, filled(V, F, s), NEW e \in ofKind({"intra"})
  PROVE  good(V, e)
<1> SUFFICES ASSUME NEW c \in Contexts, <<e.src, c>> \in V
             PROVE  \E d \in Contexts : suffix(d, c) /\ <<e.dst, d>> \in V
  BY DEF good
<1> DEFINE it == <<e.src, c>>
<1>1. e \in svfg /\ e.kind = "intra" BY DEF ofKind
<1>2. it \in V /\ it[1] = e.src /\ it[2] = c OBVIOUS
<1>3. enterable(c, e) /\ contextOver(c, e) = c BY <1>1 DEF enterable, contextOver
<1>4. <<e.dst, c>> \in V BY <1>1, <1>2, <1>3 DEF filled, fills
<1>5. suffix(c, c)
  <2>1. Len(c) \in Nat BY DEF Contexts
  <2> QED BY <2>1 DEF suffix
<1> QED BY <1>4, <1>5

\* a summary of good edges is good: the callee is left by the return of the call
LEMMA SummaryGood ==
  ASSUME NEW V, NEW F, NEW s, filled(V, F, s), NEW E, IsFiniteSet(E), \A e \in E : good(V, e),
         NEW e \in summaries(E)
  PROVE  good(V, e)
<1>1. PICK p \in ofKind({"call"}) \X ofKind({"ret"}) :
        /\ p[1].cs = p[2].cs /\ p[2].src \in closure(E, {p[1].dst})
        /\ e = vfEdge("intra", p[1].src, p[2].dst, <<>>)
  BY DEF summaries
<1> DEFINE in == p[1]
           back == p[2]
<1>2. in \in svfg /\ in.kind = "call" /\ back \in svfg /\ back.kind = "ret" BY DEF ofKind
<1>3. in.cs = back.cs /\ back.src \in closure(E, {in.dst}) /\ e.src = in.src /\ e.dst = back.dst
  BY <1>1 DEF vfEdge
<1> HIDE DEF in, back
<1> SUFFICES ASSUME NEW c \in Contexts, <<in.src, c>> \in V
             PROVE  \E d \in Contexts : suffix(d, c) /\ <<back.dst, d>> \in V
  BY <1>3 DEF good
<1> DEFINE b == pushContext(c, in.cs)
<1>4. in.cs \in insts(prog) /\ b \in Contexts /\ <<in.dst, b>> \in V BY <1>2, CallGoes
<1>5. PICK d \in Contexts : suffix(d, b) /\ <<back.src, d>> \in V
  <2> HIDE DEF b
  <2> QED BY <1>3, <1>4, GoodClosure
<1>6. matches(d, back.cs) /\ suffix(popContext(d), c) BY <1>3, <1>4, <1>5, PushedPops DEF Contexts
<1>7. popContext(d) \in Contexts /\ <<back.dst, popContext(d)>> \in V BY <1>2, <1>5, <1>6, RetGoes
<1> QED BY <1>6, <1>7

sameBy(g) ==
  g = [k \in 0..Cardinality(svfg) |->
         IF k = 0 THEN ofKind({"intra"}) ELSE LET E == g[k - 1] IN E \cup summaries(E)]

LEMMA SameLevelGood ==
  ASSUME NEW V, NEW F, NEW s, filled(V, F, s)
  PROVE  IsFiniteSet(sameLevel) /\ \A e \in sameLevel : good(V, e)
<1> DEFINE N == Cardinality(svfg)
           sum == [p \in svfg \X svfg |-> vfEdge("intra", p[1].src, p[2].dst, <<>>)]
           W == svfg \cup {sum[p] : p \in svfg \X svfg}
           S == SUBSET W
           next(E) == E \cup summaries(E)
           step == [p \in (1..N) \X S |-> next(p[2])]
           f == CHOOSE g : sameBy(g)
           Bad == {k \in 0..N : ~(f[k] \in S /\ \A e \in f[k] : good(V, e))}
<1>1. IsFiniteSet(svfg) BY EdgesFinite DEF filled
<1>2. N \in Nat BY <1>1, FS_CardinalityType
<1>3. IsFiniteSet(W)
  <2>1. IsFiniteSet(svfg \X svfg) BY <1>1, FS_Product
  <2> DEFINE T == svfg \X svfg
             I == {sum[p] : p \in T}
  <2> HIDE DEF sum, T
  <2>2. IsFiniteSet(I) BY <2>1, ImageFinite DEF T
  <2>3. W = svfg \cup I BY DEF T
  <2> HIDE DEF W, I
  <2> QED BY <1>1, <2>2, <2>3, FS_Union
<1>4. \A E : summaries(E) \subseteq W
  <2> TAKE E
  <2> SUFFICES ASSUME NEW e \in summaries(E) PROVE e \in W OBVIOUS
  <2>1. PICK p \in ofKind({"call"}) \X ofKind({"ret"}) : e = vfEdge("intra", p[1].src, p[2].dst, <<>>)
    BY DEF summaries
  <2>2. p \in svfg \X svfg BY DEF ofKind
  <2>3. e = sum[p] BY <2>1, <2>2
  <2> HIDE DEF sum
  <2> QED BY <2>2, <2>3
<1>5. ofKind({"intra"}) \in S BY DEF ofKind
<1> HIDE DEF W
<1>6. sameLevel = f[N] BY DEF sameLevel, sameBy
<1>7. step \in [(1..N) \X S -> S]
  <2>1. \A E \in S : next(E) \in S BY <1>4
  <2> HIDE DEF next, S
  <2> QED BY <2>1
<1>8. PICK g \in [0..N -> S] : iterates(g, step, ofKind({"intra"}), N)
  <2>1. N \in 0..N BY <1>2
  <2> HIDE DEF step, S
  <2> QED BY <1>2, <1>5, <1>7, <2>1, IterExists
<1>9. sameBy(g)
  <2>1. \A k \in 0..N : k # 0 => step[<<k, g[k - 1]>>] = next(g[k - 1])
    <3> TAKE k \in 0..N
    <3> HAVE k # 0
    <3>1. k \in 1..N /\ k - 1 \in 0..N BY <1>2
    <3>2. g[k - 1] \in S BY <3>1
    <3>3. <<k, g[k - 1]>> \in (1..N) \X S BY <3>1, <3>2
    <3> HIDE DEF next, S, N
    <3> QED BY <3>3
  <2>2. g = [k \in 0..N |-> IF k = 0 THEN ofKind({"intra"}) ELSE step[<<k, g[k - 1]>>]] BY <1>8 DEF iterates
  <2> HIDE DEF step
  <2>3. g = [k \in 0..N |-> IF k = 0 THEN ofKind({"intra"}) ELSE next(g[k - 1])] BY <2>1, <2>2
  <2> QED BY <2>3 DEF sameBy
<1>10. sameBy(f) BY <1>9
<1> HIDE DEF f
<1>11. \A k \in 0..N : f[k] = IF k = 0 THEN ofKind({"intra"}) ELSE next(f[k - 1])
  <2>1. f = [k \in 0..N |-> IF k = 0 THEN ofKind({"intra"}) ELSE next(f[k - 1])] BY <1>10 DEF sameBy
  <2> HIDE DEF next
  <2> QED BY <2>1
<1>12. Bad = {}
  <2>1. SUFFICES ASSUME Bad # {} PROVE FALSE OBVIOUS
  <2>2. Bad \in SUBSET Nat BY <1>2
  <2>3. PICK t \in Bad : \A u \in Bad : t <= u BY <2>1, <2>2, LeastNat
  <2>4. t # 0
    <3>1. 0 \in 0..N BY <1>2
    <3>2. f[0] = ofKind({"intra"}) BY <1>11, <3>1
    <3> QED BY <1>5, <2>3, <3>2, IntraGood
  <2>5. t \in 1..N /\ t - 1 \in 0..N /\ t - 1 < t BY <1>2, <2>3, <2>4
  <2> DEFINE E == f[t - 1]
  <2>6. E \in S /\ \A e \in E : good(V, e)
    <3>1. t - 1 \in Bad => t <= t - 1 BY <2>3
    <3> QED BY <2>5, <3>1
  <2>7. f[t] = E \cup summaries(E) BY <1>11, <2>3, <2>4
  <2>8. IsFiniteSet(E) BY <1>3, <2>6, FS_Subset
  <2> HIDE DEF E
  <2>9. \A e \in summaries(E) : good(V, e) BY <2>6, <2>8, SummaryGood
  <2>10. E \cup summaries(E) \in S BY <1>4, <2>6
  <2> QED BY <2>3, <2>6, <2>7, <2>9, <2>10
<1>13. N \in 0..N BY <1>2
<1>14. sameLevel \in S /\ \A e \in sameLevel : good(V, e) BY <1>6, <1>12, <1>13
<1> QED BY <1>3, <1>14, FS_Subset

\* what the root flows to was met in some context
LEMMA FlowMet ==
  ASSUME NEW V, NEW F, NEW s, filled(V, F, s), NEW n \in flow(s)
  PROVE  \E c \in Contexts : <<n, c>> \in V
<1> DEFINE R == sameLevel \cup ofKind({"ret"})
           C == sameLevel \cup ofKind({"call"})
           A == {m \in {s} \cup {e.dst : e \in R} : <<m, <<>>>> \in V}
           B == {m \in A \cup {e.dst : e \in C} : \E c \in Contexts : <<m, c>> \in V}
<1>1. <<>> \in Contexts BY DEF Contexts
<1>2. \A e \in sameLevel : good(V, e) BY SameLevelGood
<1>3. IsFiniteSet(R) /\ IsFiniteSet(C)
  <2>1. IsFiniteSet(svfg) BY EdgesFinite DEF filled
  <2>2. IsFiniteSet(ofKind({"ret"})) /\ IsFiniteSet(ofKind({"call"})) BY <2>1, FS_Subset DEF ofKind
  <2>3. IsFiniteSet(sameLevel) BY SameLevelGood
  <2> QED BY <2>2, <2>3, FS_Union
<1>4. {s} \subseteq A BY DEF filled, fills
<1>5. ASSUME NEW e \in R, e.src \in A PROVE e.dst \in A
  <2>1. CASE e \in sameLevel
    <3>1. PICK d \in Contexts : suffix(d, <<>>) /\ <<e.dst, d>> \in V BY <1>1, <1>2, <1>5, <2>1 DEF good
    <3>2. d = <<>> BY <3>1 DEF suffix, Contexts
    <3> QED BY <3>1, <3>2
  <2>2. CASE e \in ofKind({"ret"})
    <3>1. e \in svfg /\ e.kind = "ret" BY <2>2 DEF ofKind
    <3>2. matches(<<>>, e.cs) /\ popContext(<<>>) = <<>> BY DEF matches, popContext
    <3>3. <<e.dst, <<>>>> \in V BY <1>1, <1>5, <3>1, <3>2, RetGoes
    <3> QED BY <3>3
  <2> QED BY <2>1, <2>2
<1>6. closure(R, {s}) \subseteq A
  <2> HIDE DEF A, R
  <2> QED BY <1>3, <1>4, <1>5, ClosureIn
<1>7. A \subseteq B BY <1>1
<1>8. ASSUME NEW e \in C, e.src \in B PROVE e.dst \in B
  <2>1. PICK c \in Contexts : <<e.src, c>> \in V BY <1>8
  <2>2. CASE e \in sameLevel BY <1>2, <2>1, <2>2 DEF good
  <2>3. CASE e \in ofKind({"call"})
    <3>1. e \in svfg /\ e.kind = "call" BY <2>3 DEF ofKind
    <3>2. pushContext(c, e.cs) \in Contexts /\ <<e.dst, pushContext(c, e.cs)>> \in V BY <2>1, <3>1, CallGoes
    <3> QED BY <3>2
  <2> QED BY <2>2, <2>3
<1>9. closure(C, closure(R, {s})) \subseteq B
  <2> HIDE DEF A, B, C, R
  <2>1. closure(R, {s}) \subseteq B BY <1>6, <1>7
  <2> QED BY <1>3, <1>8, <2>1, ClosureIn
<1>10. n \in B BY <1>9 DEF flow
<1> QED BY <1>10

\* All that the value of a source flows to with calls and returns matched is in its slice when
\* it is reported, and none of it is a store to a global, unless the slice is given up for a
\* global: a context that is cut to the last calls lets through every return that the
\* whole one lets through (SrcSnkDDA::forwardpropagate, DPItem pushContext, matchContext).
THEOREM SliceLosesNothing == Spec => []SliceComplete
<1>1. Init => AnalysisInv BY StartAnalysis
<1>2. AnalysisInv /\ [Next]_vars => AnalysisInv' BY AnalysisStep
<1>3. AnalysisInv => SliceComplete
  <2> SUFFICES ASSUME AnalysisInv, pass = "report", ~slice.glob, NEW n \in flow(slice.root)
               PROVE  n \in slice.forward /\ ~isGlobal(n)
    BY DEF SliceComplete
  <2>1. prog \in Programs /\ svfg = buildSVFG(prog) /\ whole(slice.forward, slice.root) BY DEF AnalysisInv
  <2>2. PICK V : fills(V, slice.forward, slice.root) BY <2>1 DEF whole
  <2>3. filled(V, slice.forward, slice.root) BY <2>1, <2>2 DEF filled
  <2>4. PICK c \in Contexts : <<n, c>> \in V BY <2>3, FlowMet
  <2> DEFINE it == <<n, c>>
  <2>5. it \in V /\ it[1] = n BY <2>4
  <2> QED BY <2>2, <2>5 DEF fills
<1> QED BY <1>1, <1>2, <1>3, PTL DEF Spec

-----------------------------------------------------------------------------
(* The run                                                                  *)

nodes(P) ==
  {at(P, i).def : i \in {j \in insts(P) : at(P, j).op # "exit"}} \cup {P.param[f] : f \in DOMAIN P.entry}

Frame == [at : blocks(prog) \X Nat, prev : blocks(prog) \cup {Nil}, holds : SUBSET (nodes(prog) \ {Nil})]

\* a frame is in a function somebody calls, at its entry or where it branched to
Placed(f) ==
  LET b == f.at[1]
  IN /\ ~isDeadFunction(prog, prog.fun[b])
     /\ b = prog.entry[prog.fun[b]] \/ (f.prev \in blocks(prog) /\ b \in succs(prog, f.prev))

\* i is a call of f
callOf(i, f) == i \in insts(prog) /\ at(prog, i).op = "call" /\ at(prog, i).fun = f

Framed ==
  /\ stack \in Seq(Frame) /\ stack # <<>>
  /\ \A j \in 1..Len(stack) : Placed(stack[j])
  /\ \A j \in 1..Len(stack) - 1 : callOf(stack[j].at, prog.fun[stack[j + 1].at[1]])

\* the calls open in c are those that frame j stands on
fits(c, j) ==
  /\ c \in Seq(insts(prog)) /\ Len(c) < j
  /\ \A i \in 1..Len(c) : c[i] = stack[j - 1 - Len(c) + i].at

Covered(V) ==
  \A j \in 1..Len(stack) : \A n \in stack[j].holds : \E c : <<n, c>> \in V /\ fits(c, j)

Wrapped ==
  \E m : wrapped(prog, m) /\
    \E l \in 1..Len(stack) : \A j \in 1..Len(stack) :
      stack[j].holds \subseteq IF j = l THEN copies(prog, buildSVFG(prog), m) ELSE {}

Origin ==
  /\ origin # Nil /\ origin \in DOMAIN reports
  /\ reports[origin].leak = "NeverFree" => freed = {} /\ \E V : flows(V, origin) /\ Covered(V)

\* no object yet, one in a wrapper, or one that came from a source
Held ==
  \/ obj = Nil /\ origin = Nil /\ freed = {} /\ \A j \in 1..Len(stack) : stack[j].holds = {}
  \/ obj # Nil /\ origin = Nil /\ freed = {} /\ Wrapped
  \/ obj # Nil /\ Origin

RunInv == Framed /\ Held /\ (pass # "run" => obj = Nil)

LEMMA PoppedSeq ==
  ASSUME NEW S, NEW s \in Seq(S), s # <<>>
  PROVE  /\ Len(s) \in Nat /\ Len(s) >= 1 /\ Last(s) = s[Len(s)] /\ Last(s) \in S
         /\ Front(s) \in Seq(S) /\ Len(Front(s)) = Len(s) - 1
         /\ \A i \in 1..Len(s) - 1 : Front(s)[i] = s[i]
<1>1. Len(s) \in Nat /\ Len(s) >= 1 OBVIOUS
<1>2. Last(s) = s[Len(s)] /\ Last(s) \in S BY <1>1, ElementOfSeq DEF Last
<1>3. Front(s) = SubSeq(s, 1, Len(s) - 1) BY DEF Front
<1>4. \A i \in 1..Len(s) - 1 : s[i] \in S BY <1>1, ElementOfSeq
<1>5. /\ Front(s) \in Seq(S)
      /\ Len(Front(s)) = IF 1 <= Len(s) - 1 THEN Len(s) - 1 - 1 + 1 ELSE 0
      /\ \A i \in 1..Len(s) - 1 - 1 + 1 : Front(s)[i] = s[1 + i - 1]
  BY <1>1, <1>3, <1>4, SubSeqProperties
<1>6. Len(Front(s)) = Len(s) - 1
  <2>1. CASE Len(s) = 1 BY <1>5, <2>1
  <2>2. CASE Len(s) > 1
    <3>1. 1 <= Len(s) - 1 /\ Len(s) - 1 - 1 + 1 = Len(s) - 1 BY <1>1, <2>2
    <3> QED BY <1>5, <3>1
  <2> QED BY <1>1, <2>1, <2>2
<1>7. \A i \in 1..Len(s) - 1 : Front(s)[i] = s[i]
  <2>1. \A i \in 1..Len(s) - 1 : i \in 1..Len(s) - 1 - 1 + 1 /\ 1 + i - 1 = i BY <1>1
  <2> QED BY <1>5, <2>1
<1> QED BY <1>1, <1>2, <1>5, <1>6, <1>7

LEMMA ReplacedIs ==
  ASSUME NEW S, NEW s \in Seq(S), s # <<>>, NEW x \in S
  PROVE  LET t == Append(Front(s), x)
         IN /\ t \in Seq(S) /\ t # <<>> /\ Len(t) = Len(s) /\ t[Len(s)] = x
            /\ \A i \in 1..Len(s) - 1 : t[i] = s[i]
<1> DEFINE r == Front(s)
           t == Append(r, x)
<1>1. Len(s) \in Nat /\ Len(s) >= 1 /\ r \in Seq(S) /\ Len(r) = Len(s) - 1 /\ \A i \in 1..Len(s) - 1 : r[i] = s[i]
  BY PoppedSeq
<1> HIDE DEF r
<1>2. t \in Seq(S) /\ Len(t) = Len(r) + 1 /\ t[Len(r) + 1] = x /\ \A i \in 1..Len(r) : t[i] = r[i] BY <1>1
<1>3. Len(r) + 1 = Len(s) BY <1>1
<1> HIDE DEF t
<1>4. t # <<>> BY <1>1, <1>2, <1>3
<1> QED BY <1>1, <1>2, <1>3, <1>4 DEF t, r

\* a frame with other holders, moved on
movedOn(f, h) == [f EXCEPT !.holds = h, !.at[2] = @ + 1]

LEMMA MovedIs ==
  ASSUME NEW f \in Frame, NEW h \in SUBSET (nodes(prog) \ {Nil})
  PROVE  /\ movedOn(f, h) \in Frame
         /\ movedOn(f, h).holds = h /\ movedOn(f, h).prev = f.prev /\ movedOn(f, h).at[1] = f.at[1]
<1>1. f.at \in blocks(prog) \X Nat /\ f.prev \in blocks(prog) \cup {Nil} BY DEF Frame
<1>2. f = [at |-> f.at, prev |-> f.prev, holds |-> f.holds] BY DEF Frame
<1>3. PICK b \in blocks(prog), k \in Nat : f.at = <<b, k>> BY <1>1
<1>4. [f.at EXCEPT ![2] = @ + 1] = <<b, k + 1>> BY <1>3
<1>5. movedOn(f, h) = [f EXCEPT !.holds = h, !.at = [f.at EXCEPT ![2] = @ + 1]] BY <1>2 DEF movedOn
<1>6. movedOn(f, h) = [at |-> <<b, k + 1>>, prev |-> f.prev, holds |-> h] BY <1>2, <1>4, <1>5
<1>7. <<b, k + 1>> \in blocks(prog) \X Nat OBVIOUS
<1>8. movedOn(f, h) \in Frame BY <1>1, <1>6, <1>7 DEF Frame
<1> QED BY <1>3, <1>6, <1>8

\* a frame in the block it branched to
turnedTo(f, s, b) == [f EXCEPT !.at = <<s, 1>>, !.prev = b]

LEMMA TurnedIs ==
  ASSUME NEW f \in Frame, NEW s \in blocks(prog), NEW b \in blocks(prog)
  PROVE  /\ turnedTo(f, s, b) \in Frame
         /\ turnedTo(f, s, b).holds = f.holds /\ turnedTo(f, s, b).prev = b /\ turnedTo(f, s, b).at[1] = s
<1>1. f.at \in blocks(prog) \X Nat /\ f.prev \in blocks(prog) \cup {Nil} /\ f.holds \in SUBSET (nodes(prog) \ {Nil})
  BY DEF Frame
<1>2. f = [at |-> f.at, prev |-> f.prev, holds |-> f.holds] BY DEF Frame
<1>3. PICK p : p = <<s, 1>> OBVIOUS
<1>4. p \in blocks(prog) \X Nat /\ p[1] = s BY <1>3
<1>5. turnedTo(f, s, b) = [f EXCEPT !.at = p, !.prev = b] BY <1>3 DEF turnedTo
<1>6. [f EXCEPT !.at = p, !.prev = b] = [at |-> p, prev |-> b, holds |-> f.holds]
  <2>1. PICK g : g = [f EXCEPT !.at = p] OBVIOUS
  <2>2. g = [at |-> p, prev |-> f.prev, holds |-> f.holds] BY <1>2, <2>1
  <2>3. [f EXCEPT !.at = p, !.prev = b] = [g EXCEPT !.prev = b] BY <2>1
  <2>4. [g EXCEPT !.prev = b] = [at |-> p, prev |-> b, holds |-> f.holds] BY <2>2
  <2> QED BY <2>3, <2>4
<1>7. turnedTo(f, s, b) = [at |-> p, prev |-> b, holds |-> f.holds] BY <1>5, <1>6
<1>8. turnedTo(f, s, b) \in Frame BY <1>1, <1>4, <1>7 DEF Frame
<1> QED BY <1>4, <1>7, <1>8

LEMMA FitsSame ==
  ASSUME NEW j \in Nat, NEW c, prog' = prog, fits(c, j), \A i \in 1..j - 1 : stack'[i].at = stack[i].at
  PROVE  fits(c, j)'
<1>1. c \in Seq(insts(prog)) /\ Len(c) \in Nat /\ Len(c) < j BY DEF fits
<1>2. \A i \in 1..Len(c) : j - 1 - Len(c) + i \in 1..j - 1 BY <1>1
<1>3. \A i \in 1..Len(c) : c[i] = stack'[j - 1 - Len(c) + i].at BY <1>2 DEF fits
<1> QED BY <1>1, <1>3 DEF fits


(* The three ways in which the stack changes.                               *)

depth == Len(stack)

\* an edge along which the object may come to n in frame j
carried(n, j, kind, cs) == \E w \in stack[j].holds : vfEdge(kind, w, n, cs) \in svfg

\* the frame on top may come to hold n
topMoves(n) ==
  /\ depth' = depth /\ \A j \in 1..depth - 1 : stack'[j] = stack[j]
  /\ stack'[depth].holds \subseteq stack[depth].holds \cup {n}
  /\ n \in stack'[depth].holds => n \in stack[depth].holds \/ carried(n, depth, "intra", <<>>)

\* a new frame, which may hold n
enters1(n) ==
  /\ depth' = depth + 1 /\ \A j \in 1..depth : stack'[j] = stack[j]
  /\ stack'[depth + 1].holds \subseteq {n}
  /\ n \in stack'[depth + 1].holds => carried(n, depth, "call", stack[depth].at)

\* the frame on top is left, and the one below it may come to hold n
leaves(n) ==
  /\ depth > 1 /\ depth' = depth - 1 /\ \A j \in 1..depth - 2 : stack'[j] = stack[j]
  /\ stack'[depth - 1].holds \subseteq stack[depth - 1].holds \cup {n}
  /\ n \in stack'[depth - 1].holds =>
       n \in stack[depth - 1].holds \/ carried(n, depth, "ret", stack[depth - 1].at)

LEMMA Depth == Framed => depth \in Nat /\ depth >= 1
BY DEF Framed, depth

LEMMA CoveredTop ==
  ASSUME Framed, prog' = prog, NEW V, NEW s, flows(V, s), Covered(V), NEW n, topMoves(n)
  PROVE  Covered(V)'
<1>1. depth \in Nat /\ depth >= 1 /\ depth' = depth BY Depth DEF topMoves
<1>2. ASSUME NEW j \in 1..depth, NEW c, fits(c, j) PROVE fits(c, j)'
  <2>1. \A i \in 1..j - 1 : i \in 1..depth - 1 BY <1>1
  <2>2. \A i \in 1..j - 1 : stack'[i].at = stack[i].at BY <2>1 DEF topMoves
  <2>3. j \in Nat OBVIOUS
  <2> QED BY <1>2, <2>2, <2>3, FitsSame
<1>3. ASSUME NEW j \in 1..depth, NEW m \in stack'[j].holds PROVE \E c : <<m, c>> \in V /\ fits(c, j)'
  <2>1. CASE m \in stack[j].holds
    <3>1. PICK c : <<m, c>> \in V /\ fits(c, j) BY <2>1 DEF Covered, depth
    <3> QED BY <1>2, <3>1
  <2>2. CASE m \notin stack[j].holds
    <3>1. j = depth /\ m = n /\ carried(n, depth, "intra", <<>>)
      <4>1. j = depth BY <1>1, <1>3, <2>2 DEF topMoves
      <4> QED BY <1>3, <2>2, <4>1 DEF topMoves
    <3>2. PICK w \in stack[depth].holds : vfEdge("intra", w, n, <<>>) \in svfg BY <3>1 DEF carried
    <3>3. PICK c : <<w, c>> \in V /\ fits(c, depth) BY <1>1, <3>1, <3>2 DEF Covered, depth
    <3> DEFINE e == vfEdge("intra", w, n, <<>>)
    <3>4. e.src = w /\ e.dst = n /\ enterable(c, e) /\ contextOver(c, e) = c
      BY DEF vfEdge, enterable, contextOver
    <3>5. <<w, c>>[1] = w /\ <<w, c>>[2] = c OBVIOUS
    <3> HIDE DEF e
    <3>6. <<n, c>> \in V BY <3>2, <3>3, <3>4, <3>5 DEF flows, e
    <3> QED BY <1>1, <1>2, <3>1, <3>3, <3>6
  <2> QED BY <2>1, <2>2
<1> QED BY <1>1, <1>3 DEF Covered, depth

LEMMA CoveredIn ==
  ASSUME Framed, prog' = prog, prog \in Programs, NEW V, NEW s, flows(V, s), Covered(V), NEW n, enters1(n),
         stack[depth].at \in insts(prog)
  PROVE  Covered(V)'
<1>1. depth \in Nat /\ depth >= 1 /\ depth' = depth + 1 /\ \A j \in 1..depth : stack'[j] = stack[j]
  BY Depth DEF enters1
<1>2. ASSUME NEW j \in 1..depth + 1, NEW c, fits(c, j) PROVE fits(c, j)'
  <2>1. \A i \in 1..j - 1 : i \in 1..depth BY <1>1
  <2>2. \A i \in 1..j - 1 : stack'[i].at = stack[i].at BY <1>1, <2>1
  <2>3. j \in Nat BY <1>1
  <2> QED BY <1>2, <2>2, <2>3, FitsSame
<1>3. ASSUME NEW j \in 1..depth + 1, NEW m \in stack'[j].holds PROVE \E c : <<m, c>> \in V /\ fits(c, j)'
  <2>1. CASE j \in 1..depth
    <3>1. m \in stack[j].holds BY <1>1, <1>3, <2>1
    <3>2. PICK c : <<m, c>> \in V /\ fits(c, j) BY <2>1, <3>1 DEF Covered, depth
    <3> QED BY <1>2, <3>2
  <2>2. CASE j = depth + 1
    <3> DEFINE cs == stack[depth].at
    <3>1. m = n BY <1>3, <2>2 DEF enters1
    <3>2. PICK w \in stack[depth].holds : vfEdge("call", w, n, cs) \in svfg BY <1>3, <2>2, <3>1 DEF enters1, carried
    <3>3. depth \in 1..depth BY <1>1
    <3>4. PICK c : <<w, c>> \in V /\ fits(c, depth) BY <3>2, <3>3 DEF Covered, depth
    <3> DEFINE e == vfEdge("call", w, n, cs)
               d == pushContext(c, cs)
    <3>5. e.src = w /\ e.dst = n /\ enterable(c, e) /\ contextOver(c, e) = d
      BY DEF vfEdge, enterable, contextOver
    <3>6. <<w, c>>[1] = w /\ <<w, c>>[2] = c OBVIOUS
    <3>7. <<n, d>> \in V
      <4> HIDE DEF e, d, cs
      <4> QED BY <3>2, <3>4, <3>5, <3>6 DEF flows, e
    <3>8. fits(d, depth + 1)
      <4>1. c \in Seq(insts(prog)) /\ Len(c) \in Nat /\ Len(c) < depth
            /\ \A i \in 1..Len(c) : c[i] = stack[depth - 1 - Len(c) + i].at
        BY <3>4 DEF fits
      <4>2. CASE Len(c) < CxtLimit
        <5>1. d = Append(c, cs) BY <4>2 DEF pushContext
        <5>2. d \in Seq(insts(prog)) /\ Len(d) = Len(c) + 1 BY <4>1, <5>1
        <5>3. ASSUME NEW i \in 1..Len(c) + 1 PROVE d[i] = stack[depth + 1 - 1 - Len(d) + i].at
          <6>1. CASE i = Len(c) + 1
            <7>1. d[i] = cs BY <4>1, <5>1, <6>1
            <7>2. depth + 1 - 1 - Len(d) + i = depth BY <1>1, <4>1, <5>2, <6>1
            <7> QED BY <7>1, <7>2
          <6>2. CASE i # Len(c) + 1
            <7>1. i \in 1..Len(c) BY <4>1, <6>2
            <7>2. d[i] = c[i] BY <4>1, <5>1, <7>1
            <7>3. depth + 1 - 1 - Len(d) + i = depth - 1 - Len(c) + i BY <1>1, <4>1, <5>2
            <7> QED BY <4>1, <7>1, <7>2, <7>3
          <6> QED BY <6>1, <6>2
        <5>4. Len(d) < depth + 1 BY <1>1, <4>1, <5>2
        <5> HIDE DEF d, cs
        <5>5. \A i \in 1..Len(d) : d[i] = stack[depth + 1 - 1 - Len(d) + i].at BY <5>2, <5>3
        <5> QED BY <1>1, <5>2, <5>4, <5>5 DEF fits
      <4>3. CASE ~(Len(c) < CxtLimit) /\ c = <<>>
        <5>1. d = <<>> BY <4>3 DEF pushContext
        <5>2. Len(d) = 0 /\ d \in Seq(insts(prog)) BY <5>1
        <5> HIDE DEF d
        <5> QED BY <1>1, <5>2 DEF fits
      <4>4. CASE ~(Len(c) < CxtLimit) /\ c # <<>>
        <5>1. d = Append(Tail(c), cs) BY <4>4 DEF pushContext
        <5>2. /\ Tail(c) \in Seq(insts(prog)) /\ Len(Tail(c)) = Len(c) - 1 /\ Len(c) >= 1
              /\ \A i \in 1..Len(c) - 1 : Tail(c)[i] = c[i + 1]
          BY <4>1, <4>4
        <5> DEFINE r == Tail(c)
        <5> HIDE DEF r
        <5>3. d = Append(r, cs) /\ r \in Seq(insts(prog)) /\ Len(r) = Len(c) - 1 BY <5>1, <5>2 DEF r
        <5>4. d \in Seq(insts(prog)) /\ Len(d) = Len(c)
          <6>1. cs \in insts(prog) OBVIOUS
          <6> HIDE DEF cs, d
          <6>2. d \in Seq(insts(prog)) /\ Len(d) = Len(r) + 1 BY <5>3, <6>1
          <6> QED BY <4>1, <5>3, <6>2
        <5>5. ASSUME NEW i \in 1..Len(c) PROVE d[i] = stack[depth + 1 - 1 - Len(d) + i].at
          <6>1. CASE i = Len(c)
            <7>1. d[i] = cs BY <4>1, <5>2, <5>3, <6>1
            <7>2. depth + 1 - 1 - Len(d) + i = depth
              <8> HIDE DEF d
              <8> QED BY <1>1, <4>1, <5>4, <6>1
            <7> QED BY <7>1, <7>2
          <6>2. CASE i # Len(c)
            <7>1. i \in 1..Len(c) - 1 /\ i + 1 \in 1..Len(c) BY <4>1, <6>2
            <7>2. d[i] = r[i] BY <4>1, <5>3, <7>1
            <7>3. r[i] = c[i + 1] BY <5>2, <7>1 DEF r
            <7>4. c[i + 1] = stack[depth - 1 - Len(c) + (i + 1)].at BY <4>1, <7>1
            <7>5. depth + 1 - 1 - Len(d) + i = depth - 1 - Len(c) + (i + 1) BY <1>1, <4>1, <5>4
            <7> QED BY <7>2, <7>3, <7>4, <7>5
          <6> QED BY <6>1, <6>2
        <5>6. Len(d) < depth + 1 BY <1>1, <4>1, <5>4
        <5> HIDE DEF d, cs
        <5>7. \A i \in 1..Len(d) : d[i] = stack[depth + 1 - 1 - Len(d) + i].at BY <5>4, <5>5
        <5> QED BY <1>1, <5>4, <5>6, <5>7 DEF fits
      <4> QED BY <4>2, <4>3, <4>4
    <3> HIDE DEF d
    <3>9. depth + 1 \in 1..depth + 1 BY <1>1
    <3> QED BY <1>2, <2>2, <3>1, <3>7, <3>8, <3>9
  <2> QED BY <1>1, <2>1, <2>2
<1>4. depth' = Len(stack') BY DEF depth
<1> QED BY <1>1, <1>3, <1>4 DEF Covered

LEMMA CoveredOut ==
  ASSUME Framed, prog' = prog, NEW V, NEW s, flows(V, s), Covered(V), NEW n, leaves(n)
  PROVE  Covered(V)'
<1>1. depth \in Nat /\ depth > 1 /\ depth' = depth - 1 /\ \A j \in 1..depth - 2 : stack'[j] = stack[j]
  BY Depth DEF leaves
<1>2. ASSUME NEW j \in 1..depth - 1, NEW c, fits(c, j) PROVE fits(c, j)'
  <2>1. \A i \in 1..j - 1 : i \in 1..depth - 2 BY <1>1
  <2>2. \A i \in 1..j - 1 : stack'[i].at = stack[i].at BY <1>1, <2>1
  <2>3. j \in Nat BY <1>1
  <2> QED BY <1>2, <2>2, <2>3, FitsSame
<1>3. ASSUME NEW j \in 1..depth - 1, NEW m \in stack'[j].holds PROVE \E c : <<m, c>> \in V /\ fits(c, j)'
  <2>1. CASE m \in stack[j].holds
    <3>1. j \in 1..depth BY <1>1
    <3>2. PICK c : <<m, c>> \in V /\ fits(c, j) BY <2>1, <3>1 DEF Covered, depth
    <3> QED BY <1>2, <3>2
  <2>2. CASE m \notin stack[j].holds
    <3> DEFINE cs == stack[depth - 1].at
    <3>1. j = depth - 1 /\ m = n /\ carried(n, depth, "ret", cs)
      <4>1. j \notin 1..depth - 2 BY <1>1, <1>3, <2>2
      <4>2. j = depth - 1 BY <1>1, <4>1
      <4> QED BY <1>3, <2>2, <4>2 DEF leaves
    <3>2. PICK w \in stack[depth].holds : vfEdge("ret", w, n, cs) \in svfg BY <3>1 DEF carried
    <3>3. depth \in 1..depth BY <1>1
    <3>4. PICK c : <<w, c>> \in V /\ fits(c, depth) BY <3>2, <3>3 DEF Covered, depth
    <3>5. c \in Seq(insts(prog)) /\ Len(c) \in Nat /\ Len(c) < depth
          /\ \A i \in 1..Len(c) : c[i] = stack[depth - 1 - Len(c) + i].at
      BY <3>4 DEF fits
    <3>6. matches(c, cs)
      <4>1. CASE c = <<>> BY <4>1 DEF matches
      <4>2. CASE c # <<>>
        <5>1. Len(c) \in 1..Len(c) BY <3>5, <4>2
        <5>2. c[Len(c)] = stack[depth - 1 - Len(c) + Len(c)].at BY <3>5, <5>1
        <5>3. depth - 1 - Len(c) + Len(c) = depth - 1 BY <1>1, <3>5
        <5> QED BY <5>2, <5>3 DEF matches, Last
      <4> QED BY <4>1, <4>2
    <3> DEFINE e == vfEdge("ret", w, n, cs)
               d == popContext(c)
    <3>7. e.src = w /\ e.dst = n /\ enterable(c, e) /\ contextOver(c, e) = d
      BY <3>6 DEF vfEdge, enterable, contextOver
    <3>8. <<w, c>>[1] = w /\ <<w, c>>[2] = c OBVIOUS
    <3>9. <<n, d>> \in V
      <4> HIDE DEF e, d, cs
      <4> QED BY <3>2, <3>4, <3>7, <3>8 DEF flows, e
    <3>10. fits(d, depth - 1)
      <4>1. CASE c = <<>>
        <5>1. d = <<>> BY <4>1 DEF popContext
        <5>2. Len(d) = 0 /\ d \in Seq(insts(prog)) BY <5>1
        <5> HIDE DEF d
        <5> QED BY <1>1, <5>2 DEF fits
      <4>2. CASE c # <<>>
        <5>1. d = Front(c) BY <4>2 DEF popContext
        <5>2. /\ Front(c) \in Seq(insts(prog)) /\ Len(Front(c)) = Len(c) - 1 /\ Len(c) >= 1
              /\ \A i \in 1..Len(c) - 1 : Front(c)[i] = c[i]
          BY <3>5, <4>2, PoppedSeq
        <5>3. ASSUME NEW i \in 1..Len(c) - 1 PROVE d[i] = stack[depth - 1 - 1 - (Len(c) - 1) + i].at
          <6>1. i \in 1..Len(c) /\ depth - 1 - 1 - (Len(c) - 1) + i = depth - 1 - Len(c) + i BY <1>1, <3>5
          <6>2. d[i] = c[i] BY <5>1, <5>2
          <6>3. c[i] = stack[depth - 1 - Len(c) + i].at BY <3>5, <6>1
          <6> QED BY <6>1, <6>2, <6>3
        <5>4. Len(d) = Len(c) - 1 /\ d \in Seq(insts(prog)) BY <5>1, <5>2
        <5>5. Len(d) < depth - 1 BY <1>1, <3>5, <5>4
        <5> HIDE DEF d
        <5> QED BY <5>3, <5>4, <5>5 DEF fits
      <4> QED BY <4>1, <4>2
    <3> HIDE DEF d
    <3> QED BY <1>2, <3>1, <3>9, <3>10
  <2> QED BY <2>1, <2>2
<1>4. depth' = Len(stack') BY DEF depth
<1> QED BY <1>1, <1>3, <1>4 DEF Covered


\* the object is in frame l only, in values of S
heldIn(S, l) == \A j \in 1..depth : stack[j].holds \subseteq IF j = l THEN S ELSE {}

LEMMA WrappedIs ==
  ASSUME Wrapped
  PROVE  \E m : wrapped(prog, m) /\ \E l \in 1..depth : heldIn(copies(prog, buildSVFG(prog), m), l)
BY DEF Wrapped, heldIn, depth

LEMMA IsWrapped ==
  ASSUME NEW m, wrapped(prog, m), NEW l \in 1..depth, heldIn(copies(prog, buildSVFG(prog), m), l)
  PROVE  Wrapped
BY DEF Wrapped, heldIn, depth

LEMMA WrappedTop ==
  ASSUME prog \in Programs, prog' = prog, svfg = buildSVFG(prog), Framed, Wrapped, NEW n, topMoves(n)
  PROVE  Wrapped' /\ stack'[depth].holds \cap sourceSet(prog) = {}
<1>1. depth \in Nat /\ depth >= 1 /\ depth' = depth /\ \A j \in 1..depth - 1 : stack'[j] = stack[j]
  BY Depth DEF topMoves
<1>2. PICK m : wrapped(prog, m) /\ \E l \in 1..depth : heldIn(copies(prog, buildSVFG(prog), m), l) BY WrappedIs
<1> DEFINE C == copies(prog, buildSVFG(prog), m)
<1>3. PICK l \in 1..depth : heldIn(C, l) BY <1>2
<1>4. \A x \in C : x \notin sourceSet(prog) BY <1>2, WrappedGoes
<1>5. stack'[depth].holds \subseteq IF depth = l THEN C ELSE {}
  <2>1. depth \in 1..depth BY <1>1
  <2>2. stack[depth].holds \subseteq IF depth = l THEN C ELSE {} BY <1>3, <2>1 DEF heldIn
  <2>3. ASSUME n \in stack'[depth].holds, n \notin stack[depth].holds PROVE depth = l /\ n \in C
    <3>1. PICK w \in stack[depth].holds : vfEdge("intra", w, n, <<>>) \in svfg BY <2>3 DEF topMoves, carried
    <3>2. depth = l /\ w \in C BY <2>2, <3>1
    <3>3. vfEdge("intra", w, n, <<>>).src = w /\ vfEdge("intra", w, n, <<>>).dst = n
          /\ vfEdge("intra", w, n, <<>>).kind = "intra"
      BY DEF vfEdge
    <3>4. n \in C BY <1>2, <3>1, <3>2, <3>3, WrappedGoes
    <3> QED BY <3>2, <3>4
  <2> HIDE DEF C
  <2>4. stack'[depth].holds \subseteq stack[depth].holds \cup {n} BY DEF topMoves
  <2> QED BY <2>2, <2>3, <2>4
<1>6. heldIn(C, l)'
  <2>1. \A j \in 1..depth : stack'[j].holds \subseteq IF j = l THEN C ELSE {}
    <3> TAKE j \in 1..depth
    <3>1. j = depth \/ j \in 1..depth - 1 BY <1>1
    <3>2. j \in 1..depth - 1 => stack'[j].holds \subseteq IF j = l THEN C ELSE {} BY <1>1, <1>3 DEF heldIn
    <3> QED BY <1>5, <3>1, <3>2
  <2> QED BY <1>1, <2>1 DEF heldIn
<1>7. Wrapped'
  <2>1. C' = C BY DEF C
  <2>2. wrapped(prog, m)' /\ l \in 1..depth' BY <1>1, <1>2
  <2>3. heldIn(copies(prog, buildSVFG(prog), m), l)' BY <1>6
  <2> QED BY <2>2, <2>3 DEF Wrapped, heldIn, depth
<1> QED BY <1>4, <1>5, <1>7

LEMMA WrappedIn ==
  ASSUME prog \in Programs, prog' = prog, svfg = buildSVFG(prog), Framed, Wrapped, NEW n, enters1(n)
  PROVE  Wrapped' /\ stack'[depth + 1].holds = {}
<1>1. depth \in Nat /\ depth >= 1 /\ depth' = depth + 1 /\ \A j \in 1..depth : stack'[j] = stack[j]
  BY Depth DEF enters1
<1>2. PICK m : wrapped(prog, m) /\ \E l \in 1..depth : heldIn(copies(prog, buildSVFG(prog), m), l) BY WrappedIs
<1> DEFINE C == copies(prog, buildSVFG(prog), m)
<1>3. PICK l \in 1..depth : heldIn(C, l) BY <1>2
<1>4. n \notin stack'[depth + 1].holds
  <2>1. SUFFICES ASSUME n \in stack'[depth + 1].holds PROVE FALSE OBVIOUS
  <2> DEFINE cs == stack[depth].at
  <2>2. PICK w \in stack[depth].holds : vfEdge("call", w, n, cs) \in svfg BY <2>1 DEF enters1, carried
  <2>3. depth \in 1..depth BY <1>1
  <2>4. w \in C BY <1>3, <2>2, <2>3 DEF heldIn
  <2> HIDE DEF cs
  <2>5. vfEdge("call", w, n, cs).src = w /\ vfEdge("call", w, n, cs).kind = "call" BY DEF vfEdge
  <2> QED BY <1>2, <2>2, <2>4, <2>5, WrappedGoes
<1>5. stack'[depth + 1].holds = {} BY <1>4 DEF enters1
<1>6. heldIn(C, l)'
  <2>1. \A j \in 1..depth + 1 : stack'[j].holds \subseteq IF j = l THEN C ELSE {}
    <3> TAKE j \in 1..depth + 1
    <3>1. j = depth + 1 \/ j \in 1..depth BY <1>1
    <3>2. j \in 1..depth => stack'[j].holds \subseteq IF j = l THEN C ELSE {} BY <1>1, <1>3 DEF heldIn
    <3> QED BY <1>5, <3>1, <3>2
  <2> QED BY <1>1, <2>1 DEF heldIn
<1>7. Wrapped'
  <2>2. wrapped(prog, m)' /\ l \in 1..depth' BY <1>1, <1>2
  <2>3. heldIn(copies(prog, buildSVFG(prog), m), l)' BY <1>6
  <2> QED BY <2>2, <2>3 DEF Wrapped, heldIn, depth
<1> QED BY <1>5, <1>7

LEMMA WrappedOut ==
  ASSUME prog \in Programs, prog' = prog, svfg = buildSVFG(prog), Framed, Wrapped, NEW n, leaves(n),
         n \in stack'[depth - 1].holds => ~inDeadFunction(prog, n)
  PROVE  \/ Wrapped' /\ stack'[depth - 1].holds \cap sourceSet(prog) = {}
         \/ /\ n \in stack'[depth - 1].holds /\ (n \in sourceSet(prog) \/ wrapped(prog, n))
            /\ \A j \in 1..depth - 1 : stack'[j].holds \subseteq IF j = depth - 1 THEN {n} ELSE {}
<1>1. depth \in Nat /\ depth > 1 /\ depth' = depth - 1 /\ \A j \in 1..depth - 2 : stack'[j] = stack[j]
  BY Depth DEF leaves
<1>2. PICK m : wrapped(prog, m) /\ \E l \in 1..depth : heldIn(copies(prog, buildSVFG(prog), m), l) BY WrappedIs
<1> DEFINE C == copies(prog, buildSVFG(prog), m)
           d == depth - 1
<1>3. PICK l \in 1..depth : heldIn(C, l) BY <1>2
<1>4. d \in 1..depth /\ depth \in 1..depth /\ d # depth BY <1>1
<1>5. CASE n \in stack'[d].holds /\ n \notin stack[d].holds
  <2> DEFINE cs == stack[depth - 1].at
  <2>1. PICK w \in stack[depth].holds : vfEdge("ret", w, n, cs) \in svfg BY <1>5 DEF leaves, carried
  <2>2. l = depth /\ w \in C BY <1>3, <1>4, <2>1 DEF heldIn
  <2>3. \A j \in 1..depth : j # depth => stack[j].holds = {} BY <1>3, <2>2 DEF heldIn
  <2>4. stack'[d].holds = {n} BY <1>4, <1>5, <2>3 DEF leaves
  <2>5. \A j \in 1..d : stack'[j].holds \subseteq IF j = d THEN {n} ELSE {}
    <3> TAKE j \in 1..d
    <3>1. j = d \/ (j \in 1..depth - 2 /\ j # depth /\ j \in 1..depth) BY <1>1
    <3> HIDE DEF d
    <3> QED BY <1>1, <2>3, <2>4, <3>1
  <2>6. n \in sourceSet(prog) \/ wrapped(prog, n)
    <3>1. vfEdge("ret", w, n, cs).src = w /\ vfEdge("ret", w, n, cs).dst = n /\ vfEdge("ret", w, n, cs).kind = "ret"
      BY DEF vfEdge
    <3> HIDE DEF cs
    <3>2. n \in sourceSet(prog) \/ inDeadFunction(prog, n) \/ wrapped(prog, n)
      BY <1>2, <2>1, <2>2, <3>1, WrappedGoes
    <3> QED BY <1>5, <3>2
  <2> QED BY <1>5, <2>5, <2>6
<1>6. CASE ~(n \in stack'[d].holds /\ n \notin stack[d].holds)
  <2>1. stack'[d].holds \subseteq stack[d].holds BY <1>6 DEF leaves
  <2>2. \A j \in 1..d : stack'[j].holds \subseteq IF j = l THEN C ELSE {}
    <3> TAKE j \in 1..d
    <3>1. (j = d \/ j \in 1..depth - 2) /\ j \in 1..depth BY <1>1
    <3>2. stack[j].holds \subseteq IF j = l THEN C ELSE {} BY <1>3, <3>1 DEF heldIn
    <3> HIDE DEF d, C
    <3> QED BY <1>1, <2>1, <3>1, <3>2
  <2>3. \E k \in 1..d : \A j \in 1..d : stack'[j].holds \subseteq IF j = k THEN C ELSE {}
    <3>1. CASE l \in 1..d BY <2>2, <3>1
    <3>2. CASE l \notin 1..d
      <4>1. 1 \in 1..d BY <1>1
      <4> HIDE DEF d, C
      <4>2. \A j \in 1..d : stack'[j].holds \subseteq IF j = 1 THEN C ELSE {} BY <2>2, <3>2
      <4> QED BY <4>1, <4>2
    <3> QED BY <3>1, <3>2
  <2>4. PICK k \in 1..d : \A j \in 1..d : stack'[j].holds \subseteq IF j = k THEN C ELSE {} BY <2>3
  <2>5. wrapped(prog, m)' /\ k \in 1..depth' BY <1>1, <1>2
  <2>6. \A j \in 1..depth' : stack'[j].holds \subseteq IF j = k THEN copies(prog, buildSVFG(prog), m)' ELSE {}
    BY <1>1, <2>4
  <2>7. Wrapped' BY <2>5, <2>6 DEF Wrapped, depth
  <2>8. stack'[d].holds \cap sourceSet(prog) = {}
    <3>1. \A x \in C : x \notin sourceSet(prog) BY <1>2, WrappedGoes
    <3>2. d \in 1..d BY <1>1
    <3>3. stack'[d].holds \subseteq C BY <2>4, <3>2
    <3> QED BY <3>1, <3>3
  <2> QED BY <2>7, <2>8
<1> QED BY <1>5, <1>6


\* a step of the run, in one of the three ways, with the sources the object came to
moves(n) ==
  \/ topMoves(n) /\ (meets(stack'[depth].holds) \/ origin' = origin)
  \/ enters1(n) /\ stack[depth].at \in insts(prog) /\ meets(stack'[depth + 1].holds)
  \/ /\ leaves(n) /\ meets(stack'[depth - 1].holds)
     /\ n \in stack'[depth - 1].holds => ~inDeadFunction(prog, n)

runs == AnalysisInv /\ pass = "run" /\ Framed /\ UNCHANGED <<prog, pass, saberVars>>

LEMMA Running ==
  ASSUME runs
  PROVE  /\ prog \in Programs /\ prog' = prog /\ pass' = "run" /\ svfg = buildSVFG(prog) /\ svfg' = svfg
         /\ reports' = reports /\ DOMAIN reports = sourceSet(prog)
         /\ \A s \in DOMAIN reports : reports[s].leak = "NeverFree" => neverSunk(s)
         /\ depth \in Nat /\ depth >= 1
BY Depth DEF runs, AnalysisInv, SourcesKept, slicing, saberVars

LEMMA OriginKept ==
  ASSUME NEW h, meets(h)
  PROVE  /\ origin # Nil => origin' = origin
         /\ h \cap DOMAIN reports = {} => origin' = origin
         /\ origin = Nil /\ h \cap DOMAIN reports # {} => origin' \in h \cap DOMAIN reports
BY DEF meets

LEMMA NothingStep ==
  ASSUME runs, NEW n, moves(n), origin = Nil, \A j \in 1..depth : stack[j].holds = {}
  PROVE  origin' = Nil /\ \A j \in 1..depth' : stack'[j].holds = {}
<1>1. depth \in Nat /\ depth >= 1 BY Running
<1>2. depth \in 1..depth /\ \A k, c : ~carried(n, depth, k, c) BY <1>1 DEF carried
<1>3. CASE topMoves(n) /\ (meets(stack'[depth].holds) \/ origin' = origin)
  <2>1. stack'[depth].holds = {} BY <1>2, <1>3 DEF topMoves
  <2>2. origin' = Nil BY <1>3, <2>1, OriginKept
  <2>3. \A j \in 1..depth : j = depth \/ j \in 1..depth - 1 BY <1>1
  <2> QED BY <1>3, <2>1, <2>2, <2>3 DEF topMoves
<1>4. CASE enters1(n) /\ meets(stack'[depth + 1].holds)
  <2>1. stack'[depth + 1].holds = {} BY <1>2, <1>4 DEF enters1
  <2>2. origin' = Nil BY <1>4, <2>1, OriginKept
  <2>3. \A j \in 1..depth + 1 : j = depth + 1 \/ j \in 1..depth BY <1>1
  <2> QED BY <1>4, <2>1, <2>2, <2>3 DEF enters1
<1>5. CASE leaves(n) /\ meets(stack'[depth - 1].holds)
  <2>1. depth > 1 /\ depth - 1 \in 1..depth BY <1>1, <1>5 DEF leaves
  <2>2. stack[depth - 1].holds = {} BY <2>1
  <2>3. stack'[depth - 1].holds = {}
    <3> DEFINE d == depth - 1
               cs == stack[d].at
    <3>1. ~carried(n, depth, "ret", cs) BY <1>2
    <3>2. stack'[d].holds \subseteq stack[d].holds \cup {n} BY <1>5 DEF leaves
    <3>3. n \in stack'[d].holds => n \in stack[d].holds \/ carried(n, depth, "ret", cs) BY <1>5 DEF leaves
    <3>4. stack[d].holds = {} BY <2>2
    <3> HIDE DEF d, cs
    <3>5. stack'[d].holds = {} BY <3>1, <3>2, <3>3, <3>4
    <3> QED BY <3>5 DEF d
  <2>4. origin' = Nil BY <1>5, <2>3, OriginKept
  <2>5. \A j \in 1..depth - 1 : j = depth - 1 \/ (j \in 1..depth - 2 /\ j \in 1..depth) BY <1>1
  <2> QED BY <1>5, <2>3, <2>4, <2>5 DEF leaves
<1> QED BY <1>3, <1>4, <1>5 DEF moves

\* an object that only n has come to, a source or in a wrapper
LEMMA NewHolder ==
  ASSUME runs, origin = Nil, freed' = {}, NEW d \in Nat, d >= 1, depth' = d,
         NEW n \in stack'[d].holds, n \in sourceSet(prog) \/ wrapped(prog, n), meets(stack'[d].holds),
         \A j \in 1..d : stack'[j].holds \subseteq IF j = d THEN {n} ELSE {}
  PROVE  (origin' = Nil /\ Wrapped') \/ Origin'
<1>1. /\ prog \in Programs /\ prog' = prog /\ svfg = buildSVFG(prog) /\ svfg' = svfg
      /\ reports' = reports /\ DOMAIN reports = sourceSet(prog)
      /\ \A s \in DOMAIN reports : reports[s].leak = "NeverFree" => neverSunk(s)
  BY Running
<1>2. d \in 1..d /\ stack'[d].holds = {n} OBVIOUS
<1>3. CASE n \in sourceSet(prog)
  <2>1. origin' = n
    <3>1. stack'[d].holds \cap DOMAIN reports # {} BY <1>1, <1>2, <1>3
    <3>2. origin' \in stack'[d].holds BY <3>1, OriginKept
    <3> QED BY <1>2, <3>2
  <2>2. n # Nil /\ n \in DOMAIN reports' BY <1>1, <1>3, SourceIs
  <2>3. ASSUME reports'[n].leak = "NeverFree" PROVE \E V : flows(V, n)' /\ Covered(V)'
    <3>1. neverSunk(n) BY <1>1, <2>2, <2>3
    <3>2. PICK V : flows(V, n) BY <3>1 DEF neverSunk
    <3>3. flows(V, n)' BY <1>1, <3>2, SameFlows
    <3>4. ASSUME NEW j \in 1..d, NEW x \in stack'[j].holds PROVE \E c : <<x, c>> \in V /\ fits(c, j)'
      <4>1. x = n BY <3>4
      <4>2. <<n, <<>>>> \in V BY <3>2 DEF flows
      <4>3. fits(<<>>, j)' BY DEF fits
      <4> QED BY <4>1, <4>2, <4>3
    <3>5. Covered(V)' BY <3>4 DEF Covered, depth
    <3> QED BY <3>3, <3>5
  <2>4. Origin' BY <2>1, <2>2, <2>3 DEF Origin
  <2> QED BY <2>4
<1>4. CASE wrapped(prog, n)
  <2>1. IsFiniteSet(buildSVFG(prog)) BY <1>1, EdgesFinite
  <2>2. n \in copies(prog, buildSVFG(prog), n) BY <2>1, CopiesAre
  <2>3. n \notin sourceSet(prog) BY <1>1, <1>4, <2>2, WrappedGoes
  <2>4. origin' = Nil BY <1>1, <1>2, <2>3, OriginKept
  <2>5. wrapped(prog, n)' BY <1>1, <1>4
  <2>6. \A j \in 1..depth' : stack'[j].holds \subseteq IF j = d THEN copies(prog, buildSVFG(prog), n)' ELSE {}
    BY <1>1, <2>2
  <2>7. Wrapped' BY <1>2, <2>5, <2>6 DEF Wrapped, depth
  <2> QED BY <2>4, <2>7
<1> QED BY <1>3, <1>4

LEMMA WrappedStep ==
  ASSUME runs, NEW n, moves(n), origin = Nil, freed = {}, freed' = {}, Wrapped
  PROVE  (origin' = Nil /\ Wrapped') \/ Origin'
<1>1. /\ prog \in Programs /\ prog' = prog /\ svfg = buildSVFG(prog) /\ svfg' = svfg /\ Framed
      /\ reports' = reports /\ DOMAIN reports = sourceSet(prog)
      /\ \A s \in DOMAIN reports : reports[s].leak = "NeverFree" => neverSunk(s)
      /\ depth \in Nat /\ depth >= 1
  BY Running DEF runs
<1>2. CASE topMoves(n) /\ (meets(stack'[depth].holds) \/ origin' = origin)
  <2>1. Wrapped' /\ stack'[depth].holds \cap sourceSet(prog) = {} BY <1>1, <1>2, WrappedTop
  <2>2. origin' = Nil BY <1>1, <1>2, <2>1, OriginKept
  <2> QED BY <2>1, <2>2
<1>3. CASE enters1(n) /\ meets(stack'[depth + 1].holds)
  <2>1. Wrapped' /\ stack'[depth + 1].holds = {} BY <1>1, <1>3, WrappedIn
  <2>2. origin' = Nil BY <1>3, <2>1, OriginKept
  <2> QED BY <2>1, <2>2
<1>4. CASE leaves(n) /\ meets(stack'[depth - 1].holds) /\ (n \in stack'[depth - 1].holds => ~inDeadFunction(prog, n))
  <2>1. \/ Wrapped' /\ stack'[depth - 1].holds \cap sourceSet(prog) = {}
        \/ /\ n \in stack'[depth - 1].holds /\ (n \in sourceSet(prog) \/ wrapped(prog, n))
           /\ \A j \in 1..depth - 1 : stack'[j].holds \subseteq IF j = depth - 1 THEN {n} ELSE {}
    BY <1>1, <1>4, WrappedOut
  <2>2. CASE Wrapped' /\ stack'[depth - 1].holds \cap sourceSet(prog) = {}
    <3>1. origin' = Nil BY <1>1, <1>4, <2>2, OriginKept
    <3> QED BY <2>2, <3>1
  <2>3. CASE /\ n \in stack'[depth - 1].holds /\ (n \in sourceSet(prog) \/ wrapped(prog, n))
             /\ \A j \in 1..depth - 1 : stack'[j].holds \subseteq IF j = depth - 1 THEN {n} ELSE {}
    <3>1. PICK d : d = depth - 1 OBVIOUS
    <3>2. d \in Nat /\ d >= 1 /\ depth' = d BY <1>1, <1>4, <3>1 DEF leaves
    <3>3. n \in stack'[d].holds /\ meets(stack'[d].holds) /\ \A j \in 1..d : stack'[j].holds \subseteq IF j = d THEN {n} ELSE {}
      BY <1>4, <2>3, <3>1
    <3> QED BY <2>3, <3>2, <3>3, NewHolder
  <2> QED BY <2>1, <2>2, <2>3
<1> QED BY <1>2, <1>3, <1>4 DEF moves

LEMMA OriginStep ==
  ASSUME runs, NEW n, moves(n), freed' = freed, Origin
  PROVE  Origin'
<1>1. /\ prog \in Programs /\ prog' = prog /\ svfg' = svfg /\ Framed /\ reports' = reports
  BY Running DEF runs
<1>2. origin' = origin BY OriginKept DEF moves, Origin
<1>3. ASSUME NEW V, flows(V, origin), Covered(V) PROVE Covered(V)'
  <2>1. PICK s : s = origin OBVIOUS
  <2>2. flows(V, s) BY <1>3, <2>1
  <2>3. CASE topMoves(n) BY <1>1, <1>3, <2>2, <2>3, CoveredTop
  <2>4. CASE enters1(n) /\ stack[depth].at \in insts(prog) BY <1>1, <1>3, <2>2, <2>4, CoveredIn
  <2>5. CASE leaves(n) BY <1>1, <1>3, <2>2, <2>5, CoveredOut
  <2> QED BY <2>3, <2>4, <2>5 DEF moves
<1>4. \A V : flows(V, origin) => flows(V, origin)' BY <1>1, <1>2, SameFlows
<1> QED BY <1>1, <1>2, <1>3, <1>4 DEF Origin

LEMMA HeldStep ==
  ASSUME runs, Held, NEW n, moves(n), obj' = obj, freed' = freed
  PROVE  Held'
<1>1. CASE obj = Nil /\ origin = Nil /\ freed = {} /\ \A j \in 1..Len(stack) : stack[j].holds = {}
  <2>1. \A j \in 1..depth : stack[j].holds = {} BY <1>1 DEF depth
  <2>2. origin' = Nil /\ \A j \in 1..depth' : stack'[j].holds = {} BY <1>1, <2>1, NothingStep
  <2> QED BY <1>1, <2>2 DEF Held, depth
<1>2. CASE obj # Nil /\ origin = Nil /\ freed = {} /\ Wrapped BY <1>2, WrappedStep DEF Held
<1>3. CASE obj # Nil /\ Origin BY <1>3, OriginStep DEF Held
<1> QED BY <1>1, <1>2, <1>3 DEF Held


(* The operations.                                                          *)

LEMMA TopIs ==
  ASSUME Framed
  PROVE  /\ depth \in Nat /\ depth >= 1 /\ depth \in 1..depth
         /\ top = stack[depth] /\ top \in Frame /\ Placed(top)
         /\ here \in blocks(prog) /\ top.holds \in SUBSET (nodes(prog) \ {Nil})
<1>1. stack \in Seq(Frame) /\ stack # <<>> BY DEF Framed
<1>2. depth \in Nat /\ depth >= 1 /\ top = stack[depth] /\ top \in Frame BY <1>1, PoppedSeq DEF top, depth
<1>3. depth \in 1..depth BY <1>2
<1>4. Placed(top) BY <1>2, <1>3 DEF Framed, depth
<1>5. here \in blocks(prog) /\ top.holds \in SUBSET (nodes(prog) \ {Nil}) BY <1>2 DEF Frame, here
<1> QED BY <1>2, <1>3, <1>4, <1>5

LEMMA PlacedStays == ASSUME NEW f, prog' = prog, Placed(f) PROVE Placed(f)'
BY DEF Placed

LEMMA NamesInstruction ==
  ASSUME runs, NEW i \in insts(prog), at(prog, i).op # "exit", at(prog, i).def # Nil
  PROVE  at(prog, i).def \in nodes(prog) \ {Nil}
BY DEF nodes

\* another frame on top, in the same function
LEMMA FramedTop ==
  ASSUME runs, NEW f \in Frame, Placed(f), prog.fun[f.at[1]] = prog.fun[here], stack' = Append(Front(stack), f)
  PROVE  Framed' /\ depth' = depth /\ stack'[depth] = f /\ \A j \in 1..depth - 1 : stack'[j] = stack[j]
<1>1. Framed /\ prog' = prog BY Running DEF runs
<1>2. stack \in Seq(Frame) /\ stack # <<>> BY <1>1 DEF Framed
<1>3. stack' \in Seq(Frame) /\ stack' # <<>> /\ depth' = depth /\ stack'[depth] = f
      /\ \A j \in 1..depth - 1 : stack'[j] = stack[j]
  BY <1>2, ReplacedIs DEF depth
<1>4. depth \in Nat /\ depth >= 1 /\ top = stack[depth] BY <1>1, TopIs
<1>5. Frame' = Frame BY <1>1 DEF Frame
<1>6. ASSUME NEW j \in 1..depth PROVE Placed(stack'[j]) /\ prog.fun[stack'[j].at[1]] = prog.fun[stack[j].at[1]]
  <2>1. CASE j = depth BY <1>3, <1>4, <2>1 DEF here
  <2>2. CASE j # depth
    <3>1. j \in 1..depth - 1 BY <1>4, <2>2
    <3> QED BY <1>1, <1>3, <3>1 DEF Framed, depth
  <2> QED BY <2>1, <2>2
<1>7. \A j \in 1..depth : \A g : g = stack'[j] => Placed(g)' BY <1>1, <1>6, PlacedStays
<1>8. ASSUME NEW j \in 1..depth - 1 PROVE callOf(stack'[j].at, prog.fun[stack'[j + 1].at[1]])
  <2>1. j + 1 \in 1..depth BY <1>4
  <2>2. callOf(stack[j].at, prog.fun[stack[j + 1].at[1]]) BY <1>1 DEF Framed, depth
  <2> QED BY <1>3, <1>6, <2>1, <2>2
<1>9. \A j \in 1..depth' : Placed(stack[j])' BY <1>3, <1>7
<1>10. \A j \in 1..depth' - 1 : callOf(stack[j].at, prog.fun[stack[j + 1].at[1]])' BY <1>1, <1>3, <1>8 DEF callOf
<1>11. Framed' BY <1>3, <1>5, <1>9, <1>10 DEF Framed, depth
<1> QED BY <1>3, <1>11

\* an instruction moves the frame on
LEMMA FramedMoved ==
  ASSUME runs, NEW h \in SUBSET (nodes(prog) \ {Nil}), stack' = moved(h)
  PROVE  Framed' /\ depth' = depth /\ stack'[depth].holds = h /\ \A j \in 1..depth - 1 : stack'[j] = stack[j]
<1>1. Framed /\ top \in Frame /\ Placed(top) BY TopIs DEF runs
<1> DEFINE f == movedOn(top, h)
<1>2. f \in Frame /\ f.holds = h /\ f.prev = top.prev /\ f.at[1] = top.at[1] BY <1>1, MovedIs
<1>3. stack' = Append(Front(stack), f) BY DEF moved, movedOn
<1> HIDE DEF f
<1>4. Placed(f) BY <1>1, <1>2 DEF Placed
<1>5. prog.fun[f.at[1]] = prog.fun[here] BY <1>2 DEF here
<1> QED BY <1>2, <1>3, <1>4, <1>5, FramedTop

LEMMA DefineMoves ==
  ASSUME runs, is({"malloc", "copy", "store", "load", "global", "phi"}), NEW carries \in BOOLEAN,
         define(inst.def, carries), carries => carried(inst.def, depth, "intra", <<>>)
  PROVE  Framed' /\ moves(inst.def)
<1> DEFINE n == inst.def
           h == IF carries THEN top.holds \cup {n} ELSE top.holds \ {n}
<1>1. top.at \in insts(prog) /\ at(prog, top.at).op \in {"malloc", "copy", "store", "load", "global", "phi"}
  BY DEF is, inst
<1>2. prog \in Programs /\ depth \in Nat /\ depth >= 1 /\ Framed BY Running DEF runs
<1>3. n # Nil BY <1>1, <1>2, ProgramsAssumption DEF inst
<1>4. n \in nodes(prog) \ {Nil} BY <1>1, <1>3, NamesInstruction DEF inst
<1>5. top = stack[depth] /\ top.holds \in SUBSET (nodes(prog) \ {Nil}) BY <1>2, TopIs
<1>6. stack' = moved(h) /\ meets(h) BY DEF define
<1>7. carries => carried(n, depth, "intra", <<>>) OBVIOUS
<1> HIDE DEF n
<1>8. h \in SUBSET (nodes(prog) \ {Nil}) BY <1>4, <1>5
<1>9. h \subseteq top.holds \cup {n} /\ (n \in h => n \in top.holds \/ carries) OBVIOUS
<1> HIDE DEF h
<1>10. Framed' /\ depth' = depth /\ stack'[depth].holds = h /\ \A j \in 1..depth - 1 : stack'[j] = stack[j]
  BY <1>6, <1>8, FramedMoved
<1>11. topMoves(n) BY <1>5, <1>7, <1>9, <1>10 DEF topMoves
<1> QED BY <1>6, <1>10, <1>11 DEF moves, n

LEMMA AssignKeeps == ASSUME runs, Held, assign PROVE Framed' /\ Held'
<1>1. is({"copy", "store", "load", "global"}) /\ define(inst.def, holds(inst.arg)) /\ obj' = obj /\ freed' = freed
  BY DEF assign
<1>2. top.at \in insts(prog) /\ at(prog, top.at).op \in {"copy", "store", "load", "global"} BY <1>1 DEF is, inst
<1>3. prog \in Programs /\ svfg = buildSVFG(prog) /\ top = stack[depth] BY Running, TopIs DEF runs
<1>4. holds(inst.arg) => carried(inst.def, depth, "intra", <<>>)
  <2>1. vfEdge("intra", inst.arg, inst.def, <<>>) \in svfg BY <1>2, <1>3, EdgesAre DEF inst
  <2> QED BY <1>3, <2>1 DEF carried, holds
<1>5. holds(inst.arg) \in BOOLEAN BY DEF holds
<1>6. is({"malloc", "copy", "store", "load", "global", "phi"}) BY <1>1 DEF is
<1>7. Framed' /\ moves(inst.def)
  <2>1. PICK b \in BOOLEAN : b = holds(inst.arg) BY <1>5
  <2>2. define(inst.def, b) BY <1>1, <2>1
  <2> QED BY <1>4, <1>6, <2>1, <2>2, DefineMoves
<1> QED BY <1>1, <1>7, HeldStep

LEMMA PhiKeeps == ASSUME runs, Held, phi PROVE Framed' /\ Held'
<1> DEFINE carries == holds(inst.from[top.prev])
<1>1. is({"phi"}) /\ define(inst.def, carries) /\ obj' = obj /\ freed' = freed BY DEF phi
<1>2. top.at \in insts(prog) /\ at(prog, top.at).op = "phi" BY <1>1 DEF is, inst
<1>3. /\ prog \in Programs /\ svfg = buildSVFG(prog) /\ top = stack[depth] /\ Placed(top)
      /\ top.holds \in SUBSET (nodes(prog) \ {Nil})
  BY Running, TopIs DEF runs
<1>4. top.prev \in DOMAIN inst.from
  <2>1. here # prog.entry[prog.fun[here]] BY <1>2, <1>3, ProgramsAssumption DEF here
  <2>2. top.prev \in blocks(prog) /\ here \in succs(prog, top.prev) BY <1>3, <2>1 DEF Placed, here
  <2> QED BY <1>2, <1>3, <2>2, ProgramsAssumption DEF here, inst
<1>5. carries => carried(inst.def, depth, "intra", <<>>)
  <2>1. SUFFICES ASSUME carries PROVE carried(inst.def, depth, "intra", <<>>) OBVIOUS
  <2>2. inst.from[top.prev] \in top.holds /\ inst.from[top.prev] # Nil BY <1>3, <2>1 DEF holds
  <2>3. vfEdge("intra", inst.from[top.prev], inst.def, <<>>) \in svfg BY <1>2, <1>3, <1>4, <2>2, EdgesAre DEF inst
  <2> QED BY <1>3, <2>2, <2>3 DEF carried
<1>6. carries \in BOOLEAN BY DEF holds
<1>7. is({"malloc", "copy", "store", "load", "global", "phi"}) BY <1>1 DEF is
<1>8. Framed' /\ moves(inst.def)
  <2>1. PICK b \in BOOLEAN : b = carries BY <1>6
  <2>2. define(inst.def, b) BY <1>1, <2>1
  <2> HIDE DEF carries
  <2> QED BY <1>5, <1>7, <2>1, <2>2, DefineMoves
<1> QED BY <1>1, <1>8, HeldStep


LEMMA MallocKeeps == ASSUME runs, Held, malloc PROVE Framed' /\ Held'
<1> DEFINE n == inst.def
<1>1. is({"malloc"}) /\ freed' = freed
      /\ \E new \in IF obj = Nil THEN BOOLEAN ELSE {FALSE} : define(n, new) /\ obj' = IF new THEN n ELSE obj
  BY DEF malloc
<1>2. PICK new \in BOOLEAN : /\ new => obj = Nil
                             /\ define(n, new) /\ obj' = (IF new THEN n ELSE obj)
  BY <1>1
<1>3. top.at \in insts(prog) /\ at(prog, top.at).op = "malloc" BY <1>1 DEF is, inst
<1>4. /\ prog \in Programs /\ prog' = prog /\ svfg = buildSVFG(prog) /\ top = stack[depth] /\ Placed(top)
      /\ top.holds \in SUBSET (nodes(prog) \ {Nil}) /\ depth \in Nat /\ depth >= 1
  BY Running, TopIs DEF runs
<1>5. CASE ~new
  <2>1. is({"malloc", "copy", "store", "load", "global", "phi"}) BY <1>1 DEF is
  <2>2. define(inst.def, new) BY <1>2
  <2>3. Framed' /\ moves(n) BY <1>5, <2>1, <2>2, DefineMoves
  <2>4. obj' = obj BY <1>2, <1>5
  <2> QED BY <1>1, <2>3, <2>4, HeldStep
<1>6. CASE new
  <2>1. obj = Nil /\ obj' = n BY <1>2, <1>6
  <2>2. origin = Nil /\ freed = {} /\ \A j \in 1..depth : stack[j].holds = {} BY <2>1 DEF Held, depth
  <2>3. stack' = moved(top.holds \cup {n}) /\ meets(top.holds \cup {n}) BY <1>2, <1>6 DEF define
  <2>4. top.holds = {} BY <1>4, <2>2
  <2>5. n # Nil BY <1>3, <1>4, ProgramsAssumption DEF inst
  <2>6. n \in nodes(prog) \ {Nil} BY <1>3, <2>5, NamesInstruction DEF inst
  <2>7. nodeOp(prog, n) = "malloc" /\ getBB(prog, n) = here BY <1>3, <1>4, <2>5, NodeIs DEF inst, here
  <2>8. n \in allocations(prog) BY <1>3 DEF allocations, named, inst
  <2> HIDE DEF n
  <2>9. ~inDeadFunction(prog, n) BY <1>4, <2>7 DEF inDeadFunction, Placed, here
  <2>10. IsFiniteSet(buildSVFG(prog)) BY <1>4, EdgesFinite
  <2>11. n \in followed(prog, buildSVFG(prog), n) BY <2>10, FollowedAre
  <2>12. n \in sourceSet(prog) \/ wrapped(prog, n) BY <1>4, <2>8, <2>9, <2>11, SourceOrWrapped
  <2>13. {n} \in SUBSET (nodes(prog) \ {Nil}) /\ stack' = moved({n}) /\ meets({n}) BY <2>3, <2>4, <2>6
  <2>14. Framed' /\ depth' = depth /\ stack'[depth].holds = {n} /\ \A j \in 1..depth - 1 : stack'[j] = stack[j]
    BY <2>13, FramedMoved
  <2>15. \A j \in 1..depth : stack'[j].holds \subseteq IF j = depth THEN {n} ELSE {}
    <3> TAKE j \in 1..depth
    <3>1. j = depth \/ j \in 1..depth - 1 BY <1>4
    <3> QED BY <2>2, <2>14, <3>1
  <2>16. PICK d : d = depth OBVIOUS
  <2>17. d \in Nat /\ d >= 1 /\ depth' = d /\ n \in stack'[d].holds /\ meets(stack'[d].holds)
         /\ \A j \in 1..d : stack'[j].holds \subseteq IF j = d THEN {n} ELSE {}
    BY <1>4, <2>13, <2>14, <2>15, <2>16
  <2>18. freed' = {} BY <1>1, <2>2
  <2>19. (origin' = Nil /\ Wrapped') \/ Origin' BY <2>2, <2>12, <2>17, <2>18, NewHolder
  <2> QED BY <2>1, <2>5, <2>14, <2>18, <2>19 DEF Held
<1> QED BY <1>5, <1>6

LEMMA FreeKeeps == ASSUME runs, Held, free PROVE Framed' /\ Held'
<1>1. /\ is({"free"}) /\ stack' = moved(top.holds) /\ obj' = obj /\ origin' = origin
      /\ freed' = IF holds(inst.arg) THEN freed \cup {inst.def} ELSE freed
  BY DEF free
<1>2. top.at \in insts(prog) /\ at(prog, top.at).op = "free" BY <1>1 DEF is, inst
<1>3. /\ AnalysisInv /\ prog \in Programs /\ prog' = prog /\ svfg = buildSVFG(prog) /\ svfg' = svfg
      /\ reports' = reports /\ top = stack[depth]
      /\ top.holds \in SUBSET (nodes(prog) \ {Nil}) /\ depth \in Nat /\ depth \in 1..depth
  BY Running, TopIs DEF runs
<1>4. Framed' /\ depth' = depth /\ stack'[depth].holds = top.holds /\ \A j \in 1..depth - 1 : stack'[j] = stack[j]
  BY <1>1, <1>3, FramedMoved
<1>5. CASE ~holds(inst.arg)
  <2>1. topMoves(Nil) BY <1>3, <1>4 DEF topMoves
  <2>2. moves(Nil) BY <1>1, <2>1 DEF moves
  <2>3. freed' = freed BY <1>1, <1>5
  <2> QED BY <1>1, <1>4, <2>2, <2>3, HeldStep
<1>6. CASE holds(inst.arg)
  <2> DEFINE w == inst.arg
             n == inst.def
             e == vfEdge("intra", w, n, <<>>)
  <2>1. w \in stack[depth].holds BY <1>3, <1>6 DEF holds
  <2>2. e \in svfg BY <1>2, <1>3, EdgesAre DEF inst
  <2>3. n # Nil BY <1>2, <1>3, ProgramsAssumption DEF inst
  <2>4. nodeOp(prog, n) = "free" BY <1>2, <1>3, <2>3, NodeIs DEF inst
  <2>5. e.src = w /\ e.dst = n /\ e.kind = "intra" BY DEF vfEdge
  <2>6. \A c : enterable(c, e) /\ contextOver(c, e) = c BY <2>5 DEF enterable, contextOver
  <2> HIDE DEF w, n, e
  <2>7. obj # Nil /\ Origin
    <3>1. ~(\A j \in 1..depth : stack[j].holds = {}) BY <1>3, <2>1
    <3>2. ~Wrapped
      <4>1. SUFFICES ASSUME Wrapped PROVE FALSE OBVIOUS
      <4>2. PICK m : wrapped(prog, m) /\ \E l \in 1..depth : heldIn(copies(prog, buildSVFG(prog), m), l)
        BY <4>1, WrappedIs
      <4>3. w \in copies(prog, buildSVFG(prog), m) BY <1>3, <2>1, <4>2 DEF heldIn
      <4>4. nodeOp(prog, n) \in {"copy", "phi"} BY <1>3, <2>2, <2>5, <4>2, <4>3, WrappedGoes
      <4> QED BY <2>4, <4>4
    <3> QED BY <3>1, <3>2 DEF Held, depth
  <2>8. reports[origin].leak # "NeverFree"
    <3>1. SUFFICES ASSUME reports[origin].leak = "NeverFree" PROVE FALSE OBVIOUS
    <3>2. PICK V : flows(V, origin) /\ Covered(V) BY <2>7, <3>1 DEF Origin
    <3>3. PICK c : <<w, c>> \in V BY <1>3, <2>1, <3>2 DEF Covered, depth
    <3>4. <<w, c>>[1] = w /\ <<w, c>>[2] = c /\ <<n, c>>[1] = n OBVIOUS
    <3>5. <<n, c>> \in V BY <2>2, <2>5, <2>6, <3>2, <3>3, <3>4 DEF flows
    <3>6. ~isSink(n) BY <3>2, <3>4, <3>5 DEF flows
    <3> QED BY <2>4, <3>6 DEF isSink
  <2>9. Origin' BY <1>1, <1>3, <2>7, <2>8 DEF Origin
  <2> QED BY <1>1, <1>4, <2>7, <2>9 DEF Held
<1> QED BY <1>5, <1>6

LEMMA BranchKeeps == ASSUME runs, Held, branch PROVE Framed' /\ Held'
<1>1. PICK j \in outcomes(here) : stack' = Append(Front(stack), [top EXCEPT !.at = <<prog.succ[here][j], 1>>, !.prev = here])
  BY DEF branch
<1>2. prog.succ[here] # <<>> /\ obj' = obj /\ origin' = origin /\ freed' = freed BY DEF branch
<1>3. /\ prog \in Programs /\ top = stack[depth] /\ top \in Frame /\ Placed(top) /\ here \in blocks(prog)
      /\ depth \in Nat /\ depth >= 1
  BY Running, TopIs DEF runs
<1>4. j \in DOMAIN prog.succ[here]
  <2>1. here \in DOMAIN prog.test => {1, 2} \subseteq DOMAIN prog.succ[here] BY <1>3, ProgramsAssumption
  <2> QED BY <2>1 DEF outcomes
<1> DEFINE s == prog.succ[here][j]
           f == turnedTo(top, s, here)
<1>5. s \in succs(prog, here) BY <1>4 DEF succs, ToSet
<1>6. s \in blocks(prog) /\ prog.fun[s] = prog.fun[here] BY <1>3, <1>5, ProgramsAssumption
<1> HIDE DEF s
<1>9. f \in Frame /\ f.at[1] = s /\ f.prev = here /\ f.holds = top.holds BY <1>3, <1>6, TurnedIs
<1> HIDE DEF f
<1>10. Placed(f)
  <2>1. ~isDeadFunction(prog, prog.fun[s]) BY <1>3, <1>6 DEF Placed, here
  <2> QED BY <1>3, <1>5, <1>9, <2>1 DEF Placed
<1>11. Framed' /\ depth' = depth /\ stack'[depth] = f /\ \A k \in 1..depth - 1 : stack'[k] = stack[k]
  <2>1. stack' = Append(Front(stack), f) BY <1>1 DEF f, s, turnedTo
  <2> QED BY <1>6, <1>9, <1>10, <2>1, FramedTop
<1>12. topMoves(Nil) BY <1>3, <1>9, <1>11 DEF topMoves
<1>13. moves(Nil) BY <1>2, <1>12 DEF moves
<1> QED BY <1>2, <1>11, <1>13, HeldStep


\* a frame more
LEMMA FramedPushed ==
  ASSUME runs, NEW f \in Frame, Placed(f), callOf(stack[depth].at, prog.fun[f.at[1]]), stack' = Append(stack, f)
  PROVE  Framed' /\ depth' = depth + 1 /\ stack'[depth + 1] = f /\ \A j \in 1..depth : stack'[j] = stack[j]
<1>1. Framed /\ prog' = prog BY Running DEF runs
<1>2. stack \in Seq(Frame) /\ depth \in Nat /\ depth >= 1 BY <1>1, TopIs DEF Framed
<1>3. stack' \in Seq(Frame) /\ depth' = depth + 1 /\ stack'[depth + 1] = f /\ \A j \in 1..depth : stack'[j] = stack[j]
  BY <1>2 DEF depth
<1>4. stack' # <<>> BY <1>2, <1>3 DEF depth
<1>5. Frame' = Frame BY <1>1 DEF Frame
<1>6. ASSUME NEW j \in 1..depth + 1 PROVE Placed(stack'[j])
  <2>1. CASE j = depth + 1 BY <1>3, <2>1
  <2>2. CASE j # depth + 1
    <3>1. j \in 1..depth BY <1>2, <2>2
    <3> QED BY <1>1, <1>3, <3>1 DEF Framed, depth
  <2> QED BY <2>1, <2>2
<1>7. \A j \in 1..depth + 1 : \A g : g = stack'[j] => Placed(g)' BY <1>1, <1>6, PlacedStays
<1>8. ASSUME NEW j \in 1..depth PROVE callOf(stack'[j].at, prog.fun[stack'[j + 1].at[1]])
  <2>1. CASE j = depth BY <1>3, <2>1
  <2>2. CASE j # depth
    <3>1. j \in 1..depth - 1 /\ j + 1 \in 1..depth BY <1>2, <2>2
    <3>2. callOf(stack[j].at, prog.fun[stack[j + 1].at[1]]) BY <1>1, <3>1 DEF Framed, depth
    <3> QED BY <1>3, <3>1, <3>2
  <2> QED BY <2>1, <2>2
<1>9. \A j \in 1..depth' : Placed(stack[j])' BY <1>3, <1>7
<1>10. \A j \in 1..depth' - 1 : callOf(stack[j].at, prog.fun[stack[j + 1].at[1]])'
  <2>1. depth' - 1 = depth BY <1>2, <1>3
  <2> QED BY <1>1, <1>8, <2>1 DEF callOf
<1>11. Framed' BY <1>3, <1>4, <1>5, <1>9, <1>10 DEF Framed, depth
<1> QED BY <1>3, <1>11

LEMMA CallKeeps == ASSUME runs, Held, call PROVE Framed' /\ Held'
<1> DEFINE g == inst.fun
           n == prog.param[g]
           h == IF holds(inst.arg) THEN {n} ELSE {}
           f == [at |-> <<prog.entry[g], 1>>, prev |-> Nil, holds |-> h]
<1>1. is({"call"}) /\ stack' = Append(stack, f) /\ meets(h) /\ obj' = obj /\ freed' = freed BY DEF call
<1>2. top.at \in insts(prog) /\ at(prog, top.at).op = "call" BY <1>1 DEF is, inst
<1>3. /\ prog \in Programs /\ svfg = buildSVFG(prog) /\ top = stack[depth]
      /\ top.holds \in SUBSET (nodes(prog) \ {Nil}) /\ depth \in Nat /\ depth >= 1
  BY Running, TopIs DEF runs
<1>4. g \in DOMAIN prog.entry /\ prog.entry[g] \in blocks(prog) /\ prog.fun[prog.entry[g]] = g
  BY <1>2, <1>3, ProgramsAssumption DEF inst
<1>5. holds(inst.arg) => n \in nodes(prog) \ {Nil} /\ carried(n, depth, "call", stack[depth].at)
  <2>1. SUFFICES ASSUME holds(inst.arg)
                 PROVE  n \in nodes(prog) \ {Nil} /\ carried(n, depth, "call", stack[depth].at)
    OBVIOUS
  <2>2. inst.arg \in top.holds /\ inst.arg # Nil BY <1>3, <2>1 DEF holds
  <2>3. n # Nil BY <1>2, <1>3, <2>2, ProgramsAssumption DEF inst
  <2>4. n \in nodes(prog) BY <1>4 DEF nodes
  <2>5. vfEdge("call", inst.arg, n, top.at) \in svfg BY <1>2, <1>3, <2>2, EdgesAre DEF inst
  <2> HIDE DEF n
  <2>6. carried(n, depth, "call", stack[depth].at) BY <1>3, <2>2, <2>5 DEF carried
  <2> QED BY <2>3, <2>4, <2>6
<1>6. h \in SUBSET (nodes(prog) \ {Nil}) BY <1>5
<1>7. f \in Frame /\ f.at[1] = prog.entry[g] /\ f.holds = h
  <2>1. <<prog.entry[g], 1>> \in blocks(prog) \X Nat BY <1>4
  <2> HIDE DEF h, g
  <2> QED BY <1>6, <2>1 DEF Frame
<1>8. callOf(stack[depth].at, prog.fun[f.at[1]]) BY <1>2, <1>3, <1>4, <1>7 DEF callOf, inst
<1>9. Placed(f)
  <2>1. ~isDeadFunction(prog, g) BY <1>2 DEF isDeadFunction, named, inst
  <2> HIDE DEF f, g
  <2> QED BY <1>4, <1>7, <2>1 DEF Placed
<1>10. n \in h => carried(n, depth, "call", stack[depth].at) BY <1>5
<1>11. h \subseteq {n} OBVIOUS
<1> HIDE DEF f, h, n
<1>12. Framed' /\ depth' = depth + 1 /\ stack'[depth + 1] = f /\ \A j \in 1..depth : stack'[j] = stack[j]
  BY <1>1, <1>7, <1>8, <1>9, FramedPushed
<1>13. enters1(n) BY <1>7, <1>10, <1>11, <1>12 DEF enters1
<1>14. moves(n) BY <1>1, <1>2, <1>3, <1>7, <1>12, <1>13 DEF moves
<1> QED BY <1>1, <1>12, <1>14, HeldStep


\* a frame less, and another one below it, in the same function
LEMMA FramedPopped ==
  ASSUME runs, depth > 1, NEW f \in Frame, Placed(f), prog.fun[f.at[1]] = prog.fun[stack[depth - 1].at[1]],
         stack' = Append(Front(Front(stack)), f)
  PROVE  Framed' /\ depth' = depth - 1 /\ stack'[depth - 1] = f /\ \A j \in 1..depth - 2 : stack'[j] = stack[j]
<1>1. Framed /\ prog' = prog /\ depth \in Nat BY Running DEF runs
<1>2. stack \in Seq(Frame) /\ stack # <<>> BY <1>1 DEF Framed
<1>3. PICK d \in Nat : d = depth - 1 /\ d >= 1 BY <1>1
<1>4. PICK r : r = Front(stack) OBVIOUS
<1>5. r \in Seq(Frame) /\ Len(r) = d /\ r # <<>> /\ \A i \in 1..d : r[i] = stack[i]
  <2>1. r \in Seq(Frame) /\ Len(r) = Len(stack) - 1 /\ \A i \in 1..Len(stack) - 1 : r[i] = stack[i]
    BY <1>2, <1>4, PoppedSeq
  <2>2. Len(stack) - 1 = d BY <1>3 DEF depth
  <2> QED BY <1>3, <2>1, <2>2
<1>6. stack' = Append(Front(r), f) BY <1>4
<1>7. stack' \in Seq(Frame) /\ stack' # <<>> /\ Len(stack') = d /\ stack'[d] = f
      /\ \A j \in 1..d - 1 : stack'[j] = r[j]
  BY <1>5, <1>6, ReplacedIs
<1>8. \A j \in 1..d - 1 : stack'[j] = stack[j] BY <1>3, <1>5, <1>7
<1>9. Frame' = Frame BY <1>1 DEF Frame
<1>10. ASSUME NEW j \in 1..d PROVE Placed(stack'[j]) /\ prog.fun[stack'[j].at[1]] = prog.fun[stack[j].at[1]]
  <2>1. CASE j = d BY <1>3, <1>7, <2>1
  <2>2. CASE j # d
    <3>1. j \in 1..d - 1 /\ j \in 1..depth BY <1>1, <1>3, <2>2
    <3>2. Placed(stack[j]) BY <1>1, <3>1 DEF Framed, depth
    <3> QED BY <1>8, <3>1, <3>2
  <2> QED BY <2>1, <2>2
<1>11. \A j \in 1..d : \A g : g = stack'[j] => Placed(g)' BY <1>1, <1>10, PlacedStays
<1>12. ASSUME NEW j \in 1..d - 1 PROVE callOf(stack'[j].at, prog.fun[stack'[j + 1].at[1]])
  <2>1. j \in 1..depth - 1 /\ j + 1 \in 1..d BY <1>1, <1>3
  <2>2. callOf(stack[j].at, prog.fun[stack[j + 1].at[1]]) BY <1>1, <2>1 DEF Framed, depth
  <2> QED BY <1>8, <1>10, <2>1, <2>2
<1>13. \A j \in 1..Len(stack') : Placed(stack[j])' BY <1>7, <1>11
<1>14. \A j \in 1..Len(stack') - 1 : callOf(stack[j].at, prog.fun[stack[j + 1].at[1]])'
  <2>1. Len(stack') - 1 = d - 1 BY <1>7
  <2> QED BY <1>1, <1>12, <2>1 DEF callOf
<1>15. Framed' BY <1>7, <1>9, <1>13, <1>14 DEF Framed
<1>16. depth' = d /\ d - 1 = depth - 2 BY <1>1, <1>3, <1>7 DEF depth
<1>17. \A j \in 1..depth - 2 : stack'[j] = stack[j] BY <1>8, <1>16
<1> QED BY <1>3, <1>7, <1>15, <1>16, <1>17

LEMMA ReturnKeeps == ASSUME runs, Held, return, Len(stack) # 1 PROVE Framed' /\ Held'
<1>1. /\ prog \in Programs /\ svfg = buildSVFG(prog) /\ top = stack[depth] /\ Framed
      /\ top.holds \in SUBSET (nodes(prog) \ {Nil}) /\ depth \in Nat /\ depth > 1
  <2>1. depth # 1 BY DEF depth
  <2> QED BY <2>1, Running, TopIs DEF runs
<1>2. PICK d \in Nat : d = depth - 1 /\ d >= 1 BY <1>1
<1>3. d \in 1..depth /\ d \in 1..depth - 1 /\ d + 1 = depth BY <1>1, <1>2
<1> DEFINE caller == stack[d]
           cs == caller.at
           n == at(prog, cs).def
           g == prog.fun[here]
           carries == holds(prog.ret[g])
           h == IF carries THEN caller.holds \cup {n} ELSE caller.holds \ {n}
           f == movedOn(caller, h)
<1>4. stack' = Append(Front(Front(stack)), f) /\ meets(h) /\ obj' = obj /\ freed' = freed
  BY <1>2 DEF return, movedOn, depth
<1>5. caller \in Frame /\ Placed(caller) /\ callOf(cs, g)
  <2>1. caller \in Frame BY <1>1, <1>3, ElementOfSeq DEF Framed, depth
  <2>2. callOf(stack[d].at, prog.fun[stack[d + 1].at[1]]) BY <1>1, <1>3 DEF Framed, depth
  <2> QED BY <1>1, <1>3, <2>1, <2>2 DEF Framed, depth, here
<1>6. caller.holds \in SUBSET (nodes(prog) \ {Nil}) BY <1>5 DEF Frame
<1>7. cs \in insts(prog) /\ at(prog, cs).op = "call" /\ at(prog, cs).fun = g BY <1>5 DEF callOf
<1>8. carries => n \in nodes(prog) \ {Nil} /\ carried(n, depth, "ret", cs)
  <2>1. SUFFICES ASSUME carries PROVE n \in nodes(prog) \ {Nil} /\ carried(n, depth, "ret", cs) OBVIOUS
  <2>2. prog.ret[g] \in top.holds /\ prog.ret[g] # Nil BY <1>1, <2>1 DEF holds
  <2>3. n # Nil BY <1>1, <1>7, <2>2, ProgramsAssumption
  <2>4. n \in nodes(prog) BY <1>7, <2>3 DEF nodes
  <2>5. vfEdge("ret", prog.ret[g], n, cs) \in svfg BY <1>1, <1>7, <2>2, EdgesAre
  <2> HIDE DEF n, cs, g
  <2>6. carried(n, depth, "ret", cs) BY <1>1, <2>2, <2>5 DEF carried
  <2> QED BY <2>3, <2>4, <2>6
<1>9. h \in SUBSET (nodes(prog) \ {Nil}) BY <1>6, <1>8
<1>10. n \in h => ~inDeadFunction(prog, n)
  <2>1. SUFFICES ASSUME n \in h PROVE ~inDeadFunction(prog, n) OBVIOUS
  <2>2. n # Nil BY <1>9, <2>1
  <2>3. getBB(prog, n) = cs[1] BY <1>1, <1>7, <2>2, NodeIs
  <2> HIDE DEF n, h
  <2> QED BY <1>5, <2>3 DEF Placed, inDeadFunction
<1>11. f \in Frame /\ f.holds = h /\ f.prev = caller.prev /\ f.at[1] = cs[1] BY <1>5, <1>9, MovedIs
<1>12. h \subseteq caller.holds \cup {n} /\ (n \in h => n \in caller.holds \/ carries) OBVIOUS
<1> HIDE DEF f, h, carries, g
<1>13. Placed(f) BY <1>5, <1>11 DEF Placed
<1>14. Framed' /\ depth' = depth - 1 /\ stack'[depth - 1] = f /\ \A j \in 1..depth - 2 : stack'[j] = stack[j]
  <2>1. prog.fun[f.at[1]] = prog.fun[stack[depth - 1].at[1]] BY <1>2, <1>11
  <2> QED BY <1>1, <1>4, <1>11, <1>13, <2>1, FramedPopped
<1>15. leaves(n)
  <2>1. stack'[depth - 1].holds = h /\ stack[depth - 1] = caller BY <1>2, <1>11, <1>14
  <2> HIDE DEF n
  <2> QED BY <1>1, <1>8, <1>12, <1>14, <2>1 DEF leaves
<1>16. moves(n)
  <2>1. stack'[depth - 1].holds = h BY <1>11, <1>14
  <2> HIDE DEF n
  <2> QED BY <1>4, <1>10, <1>15, <2>1 DEF moves
<1> QED BY <1>4, <1>14, <1>16, HeldStep


\* nothing of what the run has changes
LEMMA RunStays ==
  ASSUME Framed, Held, prog \in Programs, UNCHANGED <<prog, svfg, reports, stack, obj, origin, freed>>
  PROVE  Framed' /\ Held'
<1>1. Framed' BY DEF Framed, Frame, Placed, callOf
<1>2. CASE obj = Nil /\ origin = Nil /\ freed = {} /\ \A j \in 1..Len(stack) : stack[j].holds = {}
  BY <1>1, <1>2 DEF Held
<1>3. CASE obj # Nil /\ origin = Nil /\ freed = {} /\ Wrapped
  <2>1. Wrapped' BY <1>3 DEF Wrapped
  <2> QED BY <1>1, <1>3, <2>1 DEF Held
<1>4. CASE obj # Nil /\ Origin
  <2>1. \A V : flows(V, origin) => flows(V, origin)' BY SameFlows
  <2>2. ASSUME NEW V, Covered(V) PROVE Covered(V)'
    <3>1. \A c, j : fits(c, j) => fits(c, j)' BY DEF fits
    <3> QED BY <2>2, <3>1 DEF Covered
  <2>3. Origin' BY <1>4, <2>1, <2>2 DEF Origin
  <2> QED BY <1>1, <1>4, <2>3 DEF Held
<1> QED BY <1>2, <1>3, <1>4 DEF Held

\* a step of the analysis, before the program runs
LEMMA AnalysisFirst ==
  ASSUME Framed, Held, obj = Nil, UNCHANGED <<prog, stack, obj, origin, freed>>
  PROVE  Framed' /\ Held'
<1>1. Framed' BY DEF Framed, Frame, Placed, callOf
<1> QED BY <1>1 DEF Held

LEMMA StartRun == Init => RunInv
<1> SUFFICES ASSUME Init PROVE RunInv OBVIOUS
<1>1. prog \in Programs /\ stack = << [at |-> <<prog.entry[Main], 1>>, prev |-> Nil, holds |-> {}] >>
      /\ obj = Nil /\ origin = Nil /\ freed = {}
  BY DEF Init
<1>2. prog.entry[Main] \in blocks(prog) /\ prog.fun[prog.entry[Main]] = Main BY <1>1, ProgramsAssumption
<1>3. PICK f : f = [at |-> <<prog.entry[Main], 1>>, prev |-> Nil, holds |-> {}] OBVIOUS
<1>4. f.at[1] = prog.entry[Main] /\ f.holds = {} BY <1>3
<1>5. f \in Frame
  <2>1. <<prog.entry[Main], 1>> \in blocks(prog) \X Nat BY <1>2
  <2> QED BY <1>3, <2>1 DEF Frame
<1>6. Placed(f) BY <1>2, <1>4 DEF Placed, isDeadFunction
<1>7. stack \in Seq(Frame) /\ Len(stack) = 1 /\ stack[1] = f BY <1>1, <1>3, <1>5
<1>8. stack # <<>> BY <1>7
<1>9. Framed BY <1>6, <1>7, <1>8 DEF Framed
<1>10. Held BY <1>1, <1>4, <1>7 DEF Held
<1> QED BY <1>1, <1>9, <1>10 DEF RunInv

LEMMA RunStep == AnalysisInv /\ RunInv /\ [Next]_vars => RunInv'
<1> SUFFICES ASSUME AnalysisInv, RunInv, [Next]_vars PROVE RunInv' OBVIOUS
<1>1. Framed /\ Held /\ (pass # "run" => obj = Nil) BY DEF RunInv
<1>2. prog \in Programs BY DEF AnalysisInv
<1>3. CASE SaberNext /\ UNCHANGED runVars
  <2>1. pass # "run" /\ prog' = prog
    BY <1>3 DEF SaberNext, initialize, setCurSlice, forwardTraverse, forwardDone, backwardStart, backwardTraverse,
                backwardDone, AllPathReachableSolve, solved, reportBug, finalize
  <2>2. Framed' /\ Held' BY <1>1, <1>3, <2>1, AnalysisFirst DEF runVars
  <2>3. obj' = Nil BY <1>1, <1>3, <2>1 DEF runVars
  <2> QED BY <2>2, <2>3 DEF RunInv
<1>4. CASE RunNext /\ UNCHANGED <<prog, pass, saberVars>>
  <2>1. pass = "run" BY <1>4 DEF RunNext, malloc, assign, phi, free, exit, call, branch, return, is, atEnd
  <2>2. runs BY <1>1, <1>4, <2>1 DEF runs
  <2>3. svfg' = svfg /\ reports' = reports BY <1>4 DEF saberVars
  <2>4. Framed' /\ Held'
    <3>1. CASE exit
      <4>1. UNCHANGED <<stack, obj, origin, freed>> BY <3>1 DEF exit
      <4> QED BY <1>1, <1>2, <1>4, <2>3, <4>1, RunStays
    <3>2. CASE return /\ Len(stack) = 1
      <4>1. UNCHANGED <<stack, obj, origin, freed>> BY <3>2 DEF return
      <4> QED BY <1>1, <1>2, <1>4, <2>3, <4>1, RunStays
    <3>3. CASE return /\ Len(stack) # 1 BY <1>1, <2>2, <3>3, ReturnKeeps
    <3> QED BY <1>1, <1>4, <2>2, <3>1, <3>2, <3>3, MallocKeeps, AssignKeeps, PhiKeeps, FreeKeeps, CallKeeps,
               BranchKeeps DEF RunNext
  <2> QED BY <1>4, <2>1, <2>4 DEF RunInv
<1>5. CASE Stopped \/ UNCHANGED vars
  <2>1. UNCHANGED <<prog, svfg, reports, stack, obj, origin, freed>> /\ pass' = pass
    BY <1>5 DEF Stopped, vars, saberVars, runVars
  <2>2. Framed' /\ Held' BY <1>1, <1>2, <2>1, RunStays
  <2> QED BY <1>1, <2>1, <2>2 DEF RunInv
<1> QED BY <1>3, <1>4, <1>5 DEF Next

(****************************************************************************)
(* An object that is freed has come from a source of the leak checker, and  *)
(* the report of that source is not "NeverFree": whatever the program,      *)
(* however deep its calls and however short the contexts, no way of an      *)
(* object out of its wrappers, down into calls and back to callers is lost  *)
(* by the forward traversal of the slice (LeakChecker::initSrcs,            *)
(* SrcSnkDDA::forwardpropagate, LeakChecker::reportBug).                    *)
(****************************************************************************)
THEOREM FreedNotNeverFree == Spec => []NeverFreeReal
<1>1. Init => AnalysisInv /\ RunInv BY StartAnalysis, StartRun
<1>2. AnalysisInv /\ RunInv /\ [Next]_vars => (AnalysisInv /\ RunInv)' BY AnalysisStep, RunStep
<1>3. RunInv => NeverFreeReal BY DEF RunInv, Held, Origin, NeverFreeReal
<1> QED BY <1>1, <1>2, <1>3, PTL DEF Spec

-----------------------------------------------------------------------------
(* Types: what a slice has beside its items, and the frames of a run.       *)

\* what a condition can be found for
sliceNodes == {slice.root} \cup {e.dst : e \in svfg}

Conds(N, A) == UNION {[D -> SUBSET A] : D \in SUBSET N}

\* what propagateCond works on
Solvings(N, A) == [map : Conds(N, A), q : Seq(N)]

LEMMA CondsAre ==
  ASSUME NEW N, NEW A, NEW m \in Conds(N, A)
  PROVE  /\ DOMAIN m \subseteq N /\ \A x : getCFCond(m, x) \in SUBSET A
         /\ \A b \in N : \A c \in SUBSET A : withCond(m, b, c) \in Conds(N, A)
<1>1. PICK D \in SUBSET N : m \in [D -> SUBSET A] BY DEF Conds
<1>2. \A x : getCFCond(m, x) \in SUBSET A BY <1>1 DEF getCFCond
<1>3. ASSUME NEW b \in N, NEW c \in SUBSET A PROVE withCond(m, b, c) \in Conds(N, A)
  <2>1. withCond(m, b, c) \in [D \cup {b} -> SUBSET A] BY <1>1 DEF withCond
  <2> QED BY <2>1 DEF Conds
<1> QED BY <1>1, <1>2, <1>3

LEMMA PropagateCondOne ==
  ASSUME NEW N, NEW A, NEW st \in Solvings(N, A), NEW cond \in SUBSET A, NEW e, e.dst \in N
  PROVE  propagateCond(st, cond, e) \in Solvings(N, A)
<1> DEFINE new == getVFCond(st.map, e.dst) \cup (cond \cap edgeGuard(e))
<1>1. st.map \in Conds(N, A) /\ st.q \in Seq(N) BY DEF Solvings
<1>2. getVFCond(st.map, e.dst) \in SUBSET A BY <1>1, CondsAre DEF getVFCond
<1>3. new \in SUBSET A BY <1>2
<1> HIDE DEF new
<1>4. withCond(st.map, e.dst, new) \in Conds(N, A) BY <1>1, <1>3, CondsAre
<1>5. pushed(st.q, e.dst) \in Seq(N) BY <1>1, PushedSet
<1>6. [map |-> withCond(st.map, e.dst, new), q |-> pushed(st.q, e.dst)] \in Solvings(N, A)
  BY <1>4, <1>5 DEF Solvings
<1> QED BY <1>6 DEF propagateCond, new

condAlong(done, st, cond, es) ==
  done = [k \in 0..Len(es) |-> IF k = 0 THEN st ELSE propagateCond(done[k - 1], cond, es[k])]

LEMMA PropagateCondAll ==
  ASSUME NEW N, NEW A, NEW st \in Solvings(N, A), NEW cond \in SUBSET A, NEW X, NEW es \in Seq(X),
         \A e \in X : e.dst \in N
  PROVE  propagateCondAlong(st, cond, es) \in Solvings(N, A)
<1> DEFINE L == Len(es)
           S == Solvings(N, A)
           step == [p \in (1..L) \X S |-> propagateCond(p[2], cond, es[p[1]])]
           f == CHOOSE done : condAlong(done, st, cond, es)
           Bad == {k \in 0..L : f[k] \notin S}
<1>1. L \in Nat /\ \A i \in 1..L : es[i] \in X OBVIOUS
<1>2. propagateCondAlong(st, cond, es) = f[L] BY DEF propagateCondAlong, condAlong
<1>3. \A t \in S : \A k \in 1..L : propagateCond(t, cond, es[k]) \in S
  <2> TAKE t \in S
  <2> TAKE k \in 1..L
  <2>1. es[k].dst \in N BY <1>1
  <2> QED BY <2>1, PropagateCondOne
<1>4. step \in [(1..L) \X S -> S]
  <2>1. \A p \in (1..L) \X S : propagateCond(p[2], cond, es[p[1]]) \in S
    <3> TAKE p \in (1..L) \X S
    <3>1. p[1] \in 1..L /\ p[2] \in S OBVIOUS
    <3> HIDE DEF S, L
    <3> QED BY <1>3, <3>1
  <2> QED BY <2>1
<1> HIDE DEF L, S
<1>5. PICK g \in [0..L -> S] : iterates(g, step, st, L)
  <2>1. st \in S /\ L \in 0..L BY <1>1 DEF S
  <2> HIDE DEF step
  <2> QED BY <1>1, <1>4, <2>1, IterExists
<1>6. condAlong(g, st, cond, es)
  <2>1. \A k \in 0..L : k # 0 => step[<<k, g[k - 1]>>] = propagateCond(g[k - 1], cond, es[k])
    <3> TAKE k \in 0..L
    <3> HAVE k # 0
    <3>1. k \in 1..L /\ k - 1 \in 0..L BY <1>1
    <3>2. g[k - 1] \in S BY <3>1
    <3>3. <<k, g[k - 1]>> \in (1..L) \X S BY <3>1, <3>2
    <3> QED BY <3>3
  <2> HIDE DEF step
  <2>2. g = [k \in 0..L |-> IF k = 0 THEN st ELSE step[<<k, g[k - 1]>>]] BY <1>5 DEF iterates
  <2>3. g = [k \in 0..L |-> IF k = 0 THEN st ELSE propagateCond(g[k - 1], cond, es[k])] BY <2>1, <2>2
  <2> QED BY <2>3 DEF condAlong, L
<1>7. condAlong(f, st, cond, es) BY <1>6
<1> HIDE DEF f
<1>8. \A k \in 0..L : f[k] = IF k = 0 THEN st ELSE propagateCond(f[k - 1], cond, es[k])
  <2>1. f = [k \in 0..L |-> IF k = 0 THEN st ELSE propagateCond(f[k - 1], cond, es[k])] BY <1>7 DEF condAlong, L
  <2> QED BY <2>1
<1>9. Bad = {}
  <2>1. SUFFICES ASSUME Bad # {} PROVE FALSE OBVIOUS
  <2>2. Bad \in SUBSET Nat BY <1>1
  <2>3. PICK t \in Bad : \A u \in Bad : t <= u BY <2>1, <2>2, LeastNat
  <2>4. t \in 0..L /\ f[t] \notin S BY <2>3
  <2>5. t # 0
    <3>1. f[0] = st /\ st \in S BY <1>1, <1>8 DEF S
    <3> QED BY <2>4, <3>1
  <2>6. t \in 1..L /\ t - 1 \in 0..L /\ t - 1 < t BY <1>1, <2>4, <2>5
  <2>7. f[t] = propagateCond(f[t - 1], cond, es[t]) BY <1>8, <2>4, <2>5
  <2>8. f[t - 1] \notin S BY <1>3, <2>4, <2>6, <2>7
  <2>9. t <= t - 1 BY <2>3, <2>6, <2>8
  <2> QED BY <2>6, <2>9
<1>10. L \in 0..L BY <1>1
<1>11. f[L] \in S BY <1>9, <1>10
<1> QED BY <1>2, <1>11 DEF S

SliceTypes ==
  /\ pass = "init" => svfg = {} /\ sources = {} /\ slice = NoSlice
  /\ slice.backward \subseteq slice.forward /\ slice.sinks \subseteq slice.forward
  /\ \A n \in DOMAIN slice.vfCond : slice.vfCond[n] \subseteq info.all
  /\ pass = "guard" => slice.vfCond \in Conds(sliceNodes, info.all) /\ worklist \in Seq(sliceNodes)

LEMMA SolveTypes == ASSUME AnalysisInv, SliceTypes, AllPathReachableSolve PROVE SliceTypes'
<1> DEFINE n == Head(worklist)
           cond == getVFCond(slice.vfCond, n)
           E == {e \in svfg : e.src = n}
           es == outEdges(n)
           st == [map |-> slice.vfCond, q |-> Tail(worklist)]
           t == propagateCondAlong(st, cond, es)
           N == sliceNodes
           A == info.all
<1>1. /\ pass = "guard" /\ pass' = pass /\ svfg' = svfg /\ info' = info /\ worklist # <<>>
      /\ slice' = [slice EXCEPT !.vfCond = t.map] /\ worklist' = t.q
  BY DEF AllPathReachableSolve
<1>2. svfg = buildSVFG(prog) /\ prog \in Programs /\ SliceLike BY <1>1 DEF AnalysisInv
<1>3. es \in Seq(E)
  <2>1. IsFiniteSet(svfg) BY <1>2, EdgesFinite
  <2>2. IsFiniteSet(E) BY <2>1, FS_Subset
  <2> QED BY <2>2, Enumerates DEF outEdges
<1>4. slice.vfCond \in Conds(N, A) /\ worklist \in Seq(N) BY <1>1 DEF SliceTypes
<1>5. Tail(worklist) \in Seq(N) BY <1>1, <1>4, QueueSet
<1>6. st \in Solvings(N, A) BY <1>4, <1>5 DEF Solvings
<1>7. cond \in SUBSET A BY <1>4, CondsAre DEF getVFCond
<1>8. \A e \in E : e.dst \in N BY DEF sliceNodes
<1>9. t \in Solvings(N, A)
  <2> HIDE DEF N, A, E, es, st, cond
  <2> QED BY <1>3, <1>6, <1>7, <1>8, PropagateCondAll
<1>10. t.map \in Conds(N, A) /\ t.q \in Seq(N) BY <1>9 DEF Solvings
<1> HIDE DEF t
<1>11. slice' = [root |-> slice.root, forward |-> slice.forward, backward |-> slice.backward,
                 sinks |-> slice.sinks, vfCond |-> t.map, partial |-> slice.partial, glob |-> slice.glob]
  BY <1>1, <1>2 DEF SliceLike
<1>12. sliceNodes' = N BY <1>1, <1>11 DEF sliceNodes
<1>13. \A x \in DOMAIN t.map : t.map[x] \subseteq A
  <2>1. PICK D \in SUBSET N : t.map \in [D -> SUBSET A] BY <1>10 DEF Conds
  <2> QED BY <2>1
<1> QED BY <1>1, <1>10, <1>11, <1>12, <1>13 DEF SliceTypes

LEMMA SliceTyped == ASSUME AnalysisInv, SliceTypes, SaberNext PROVE SliceTypes'
<1>1. SliceLike /\ prog \in Programs BY DEF AnalysisInv
<1>2. DOMAIN NoSlice.vfCond = {} /\ NoSlice.backward = {} /\ NoSlice.sinks = {} BY DEF NoSlice
<1>3. CASE initialize BY <1>2, <1>3 DEF initialize, SliceTypes
<1>4. CASE setCurSlice
  <2>1. PICK s : slice' = [NoSlice EXCEPT !.root = s] BY <1>4 DEF setCurSlice
  <2>2. slice' = [root |-> s, forward |-> {}, backward |-> {}, sinks |-> {}, vfCond |-> <<>>,
                  partial |-> FALSE, glob |-> FALSE]
    BY <2>1 DEF NoSlice
  <2>3. DOMAIN slice'.vfCond = {} BY <2>2
  <2> QED BY <1>4, <2>2, <2>3 DEF setCurSlice, SliceTypes
<1>5. CASE forwardTraverse
  <2> DEFINE n == Head(worklist)[1]
             gl == propagateAlong([q |-> Tail(worklist), visited |-> visited, glob |-> slice.glob],
                                  Head(worklist)[2], outEdges(n)).glob
  <2>1. /\ pass = "forward" /\ pass' = "forward" /\ svfg' = svfg /\ info' = info
        /\ slice' = [slice EXCEPT !.forward = @ \cup {n}, !.glob = gl,
                                  !.sinks = IF isSink(n) THEN @ \cup {n} ELSE @,
                                  !.partial = @ \/ isSink(n)]
    BY <1>5 DEF forwardTraverse
  <2> HIDE DEF n, gl
  <2>2. slice' = [root |-> slice.root, forward |-> slice.forward \cup {n}, backward |-> slice.backward,
                  sinks |-> IF isSink(n) THEN slice.sinks \cup {n} ELSE slice.sinks, vfCond |-> slice.vfCond,
                  partial |-> (slice.partial \/ isSink(n)), glob |-> gl]
    BY <1>1, <2>1 DEF SliceLike
  <2>3. /\ slice'.forward = slice.forward \cup {n} /\ slice'.backward = slice.backward
        /\ slice'.sinks \subseteq slice.sinks \cup {n} /\ slice'.vfCond = slice.vfCond
    BY <2>2
  <2> QED BY <2>1, <2>3 DEF SliceTypes
<1>6. CASE forwardDone \/ backwardStart \/ solved
  <2>1. /\ pass # "init" /\ pass' # "init" /\ pass' # "guard" /\ slice' = slice /\ info' = info
    BY <1>6 DEF forwardDone, backwardStart, solved
  <2> QED BY <2>1 DEF SliceTypes
<1>7. CASE backwardTraverse
  <2> DEFINE n == Head(worklist)
  <2>1. /\ pass = "backward" /\ pass' = "backward" /\ info' = info
        /\ slice' = IF n \in slice.forward THEN [slice EXCEPT !.backward = @ \cup {n}] ELSE slice
    BY <1>7 DEF backwardTraverse
  <2> HIDE DEF n
  <2>2. CASE n \in slice.forward
    <3>1. slice' = [root |-> slice.root, forward |-> slice.forward, backward |-> slice.backward \cup {n},
                    sinks |-> slice.sinks, vfCond |-> slice.vfCond, partial |-> slice.partial, glob |-> slice.glob]
      BY <1>1, <2>1, <2>2 DEF SliceLike
    <3> QED BY <2>1, <2>2, <3>1 DEF SliceTypes
  <2>3. CASE n \notin slice.forward BY <2>1, <2>3 DEF SliceTypes
  <2> QED BY <2>2, <2>3
<1>8. CASE backwardDone
  <2> DEFINE m == withCond(<<>>, slice.root, info.all)
  <2>1. /\ pass = "backward" /\ pass' = "guard" /\ info' = info /\ svfg' = svfg
        /\ worklist' = <<slice.root>> /\ slice' = [slice EXCEPT !.vfCond = m]
    BY <1>8 DEF backwardDone
  <2>2. m \in [{slice.root} -> SUBSET info.all]
    <3>1. DOMAIN <<>> = {} OBVIOUS
    <3>2. m = [x \in {slice.root} |-> info.all] BY <3>1 DEF withCond
    <3> QED BY <3>2
  <2> HIDE DEF m
  <2>3. slice' = [root |-> slice.root, forward |-> slice.forward, backward |-> slice.backward,
                  sinks |-> slice.sinks, vfCond |-> m, partial |-> slice.partial, glob |-> slice.glob]
    BY <1>1, <2>1 DEF SliceLike
  <2>4. sliceNodes' = sliceNodes /\ slice.root \in sliceNodes BY <2>1, <2>3 DEF sliceNodes
  <2>5. m \in Conds(sliceNodes, info.all)
    <3>1. {slice.root} \in SUBSET sliceNodes BY <2>4
    <3> QED BY <2>2, <3>1 DEF Conds
  <2>6. worklist' \in Seq(sliceNodes) BY <2>1, <2>4
  <2>7. \A x \in DOMAIN m : m[x] \subseteq info.all BY <2>2
  <2> QED BY <2>1, <2>3, <2>4, <2>5, <2>6, <2>7 DEF SliceTypes
<1>9. CASE AllPathReachableSolve BY <1>9, SolveTypes
<1>10. CASE reportBug
  <2>1. pass' = "source" /\ slice' = NoSlice BY <1>10 DEF reportBug
  <2> QED BY <1>2, <2>1 DEF SliceTypes
<1>11. CASE finalize
  <2>1. pass' = "run" /\ slice' = slice /\ info' = info BY <1>11 DEF finalize, saberVars
  <2> QED BY <2>1 DEF SliceTypes
<1> QED BY <1>3, <1>4, <1>5, <1>6, <1>7, <1>8, <1>9, <1>10, <1>11 DEF SaberNext


\* the function that frame j is in
funAt(j) == prog.fun[stack[j].at[1]]

\* g tells the frames of one function apart, by entries of it
counts(g) ==
  /\ g \in [1..depth -> Nat]
  /\ \A j \in 1..depth : g[j] \in 1..visits[prog.entry[funAt(j)]]
  /\ \A i, j \in 1..depth : i # j /\ funAt(i) = funAt(j) => g[i] # g[j]

RunTypes ==
  /\ visits \in [blocks(prog) -> 0..MaxVisits]
  /\ \E g : counts(g)
  /\ reached \subseteq DOMAIN reports
  /\ DOMAIN out \subseteq branching(prog) /\ \A b \in DOMAIN out : out[b] + 1 \in DOMAIN prog.succ[b]

LEMMA FunsAre ==
  ASSUME Framed, prog \in Programs
  PROVE  \A j \in 1..depth : funAt(j) \in DOMAIN prog.entry /\ prog.entry[funAt(j)] \in blocks(prog)
<1> TAKE j \in 1..depth
<1>1. stack[j] \in Frame
  <2>1. stack \in Seq(Frame) BY DEF Framed
  <2> QED BY <2>1, ElementOfSeq DEF depth
<1>2. stack[j].at[1] \in blocks(prog) BY <1>1 DEF Frame
<1> QED BY <1>2, ProgramsAssumption DEF funAt

\* so there are no more frames than entries
LEMMA StackBounded ==
  ASSUME Framed, RunTypes, prog \in Programs
  PROVE  Len(stack) \in 1..MaxVisits * Cardinality(DOMAIN prog.entry)
<1> DEFINE F == DOMAIN prog.entry
           I == 1..depth
           V == 1..MaxVisits
<1>1. depth \in Nat /\ depth >= 1 BY TopIs
<1>2. MaxVisits \in Nat BY VisitsAssumption
<1>3. IsFiniteSet(F)
  <2> DEFINE B == {b \in blocks(prog) : \E f \in F : b = prog.entry[f]}
             h == [b \in B |-> prog.fun[b]]
  <2>1. IsFiniteSet(blocks(prog)) /\ \A f \in F : prog.entry[f] \in blocks(prog) /\ prog.fun[prog.entry[f]] = f
    BY ProgramsAssumption
  <2>2. IsFiniteSet(B) BY <2>1, FS_Subset
  <2>3. {h[b] : b \in B} = F BY <2>1
  <2> HIDE DEF h, F, B
  <2>4. IsFiniteSet({h[b] : b \in B}) BY <2>2, ImageFinite
  <2> QED BY <2>3, <2>4
<1>4. PICK g : counts(g) BY DEF RunTypes
<1> DEFINE p == [j \in I |-> <<funAt(j), g[j]>>]
<1>5. \A j \in I : funAt(j) \in F /\ g[j] \in V
  <2> TAKE j \in I
  <2>1. funAt(j) \in F /\ prog.entry[funAt(j)] \in blocks(prog) BY FunsAre
  <2>2. visits[prog.entry[funAt(j)]] \in 0..MaxVisits BY <2>1 DEF RunTypes
  <2>3. g[j] \in 1..visits[prog.entry[funAt(j)]] BY <1>4 DEF counts
  <2> QED BY <1>2, <2>1, <2>2, <2>3
<1>6. p \in Injection(I, F \X V)
  <2>1. p \in [I -> F \X V] BY <1>5
  <2>2. \A i, j \in I : i # j => p[i] # p[j] BY <1>4 DEF counts
  <2> HIDE DEF p, I, F, V
  <2> QED BY <2>1, <2>2 DEF Injection, IsInjective
<1>7. IsFiniteSet(V) /\ Cardinality(V) = MaxVisits
  <2>1. IsFiniteSet(V) /\ Cardinality(V) = IF 1 > MaxVisits THEN 0 ELSE MaxVisits - 1 + 1 BY <1>2, FS_Interval
  <2> QED BY <1>2, <2>1
<1>8. IsFiniteSet(F \X V) /\ Cardinality(F \X V) = Cardinality(F) * MaxVisits BY <1>3, <1>7, FS_Product
<1>9. Cardinality(I) <= Cardinality(F \X V) BY <1>6, <1>8, FS_Injection
<1>10. Cardinality(I) = depth
  <2>1. Cardinality(I) = IF 1 > depth THEN 0 ELSE depth - 1 + 1 BY <1>1, FS_Interval
  <2> QED BY <1>1, <2>1
<1>11. Cardinality(F) \in Nat BY <1>3, FS_CardinalityType
<1> HIDE DEF F, I, V
<1>12. PICK c \in Nat : c = Cardinality(F) BY <1>11
<1>13. c * MaxVisits = MaxVisits * c /\ MaxVisits * c \in Nat BY <1>2
<1>14. depth <= MaxVisits * c BY <1>8, <1>9, <1>10, <1>12, <1>13
<1> QED BY <1>1, <1>12, <1>13, <1>14 DEF depth, F

LEMMA CountsKept ==
  ASSUME Framed, Framed', RunTypes, prog \in Programs, prog' = prog, depth' <= depth,
         \A j \in 1..depth' : funAt(j)' = funAt(j),
         visits' \in [blocks(prog) -> 0..MaxVisits], \A b \in blocks(prog) : visits[b] <= visits'[b]
  PROVE  \E g : counts(g)'
<1>1. PICK g : counts(g) BY DEF RunTypes
<1> DEFINE h == [j \in 1..depth' |-> g[j]]
<1>2. depth \in Nat /\ depth' \in Nat
  <2>1. depth \in Nat BY TopIs
  <2>2. stack' \in Seq(Frame') BY DEF Framed
  <2> QED BY <2>1, <2>2 DEF depth
<1>3. \A j \in 1..depth' : j \in 1..depth BY <1>2
<1>4. g \in [1..depth -> Nat] /\ \A j \in 1..depth : g[j] \in 1..visits[prog.entry[funAt(j)]] BY <1>1 DEF counts
<1>5. h \in [1..depth' -> Nat] BY <1>3, <1>4
<1>6. ASSUME NEW j \in 1..depth' PROVE h[j] \in 1..visits'[prog'.entry[funAt(j)']]
  <2>1. j \in 1..depth /\ prog.entry[funAt(j)] \in blocks(prog) BY <1>3, FunsAre
  <2> DEFINE b == prog.entry[funAt(j)]
  <2>2. visits[b] \in 0..MaxVisits /\ visits'[b] \in 0..MaxVisits /\ visits[b] <= visits'[b]
    BY <2>1 DEF RunTypes
  <2>3. g[j] \in 1..visits[b] BY <1>4, <2>1
  <2>4. prog'.entry[funAt(j)'] = b /\ h[j] = g[j] BY <1>6
  <2> HIDE DEF b, h
  <2> QED BY <2>2, <2>3, <2>4, VisitsAssumption
<1>7. ASSUME NEW i \in 1..depth', NEW j \in 1..depth', i # j, funAt(i)' = funAt(j)' PROVE h[i] # h[j]
  <2>1. i \in 1..depth /\ j \in 1..depth /\ funAt(i) = funAt(j) BY <1>3, <1>7
  <2> QED BY <1>1, <1>7, <2>1 DEF counts
<1>8. PICK r : r = h OBVIOUS
<1> HIDE DEF h
<1>9. counts(r)' BY <1>5, <1>6, <1>7, <1>8 DEF counts
<1> QED BY <1>9

LEMMA CountsMore ==
  ASSUME Framed, RunTypes, prog \in Programs, prog' = prog, NEW d, d = depth, depth' = d + 1,
         \A j \in 1..d : funAt(j)' = funAt(j), funAt(d + 1)' \in DOMAIN prog.entry,
         enters(prog.entry[funAt(d + 1)'])
  PROVE  visits' \in [blocks(prog) -> 0..MaxVisits] /\ \E g : counts(g)'
<1> DEFINE f == funAt(d + 1)'
           b == prog.entry[f]
<1>1. PICK g : counts(g) BY DEF RunTypes
<1>2. d \in Nat /\ depth \in Nat BY TopIs
<1>3. b \in blocks(prog) BY ProgramsAssumption
<1>4. visits \in [blocks(prog) -> 0..MaxVisits] /\ MaxVisits \in Nat BY VisitsAssumption DEF RunTypes
<1>5. visits[b] < MaxVisits /\ visits' = [visits EXCEPT ![b] = @ + 1] BY DEF enters
<1> HIDE DEF b
<1>6. visits[b] \in Nat /\ visits[b] + 1 \in 0..MaxVisits BY <1>3, <1>4, <1>5
<1>7. /\ visits' \in [blocks(prog) -> 0..MaxVisits] /\ visits'[b] = visits[b] + 1
      /\ \A c \in blocks(prog) : c # b => visits'[c] = visits[c]
  BY <1>3, <1>4, <1>5, <1>6
<1> DEFINE h == [j \in 1..d + 1 |-> IF j = d + 1 THEN visits[b] + 1 ELSE g[j]]
<1>8. \A j \in 1..d + 1 : j # d + 1 => j \in 1..d BY <1>2
<1>9. g \in [1..d -> Nat] /\ \A j \in 1..d : g[j] \in 1..visits[prog.entry[funAt(j)]] BY <1>1 DEF counts
<1>10. h \in [1..d + 1 -> Nat] BY <1>6, <1>8, <1>9
<1>11. ASSUME NEW j \in 1..d + 1 PROVE h[j] \in 1..visits'[prog.entry[funAt(j)']]
  <2>1. CASE j = d + 1
    <3>1. h[j] = visits[b] + 1 /\ prog.entry[funAt(j)'] = b BY <2>1 DEF b
    <3> HIDE DEF h
    <3> QED BY <1>6, <1>7, <3>1
  <2>2. CASE j # d + 1
    <3>1. j \in 1..d /\ prog.entry[funAt(j)] \in blocks(prog) /\ funAt(j)' = funAt(j) BY <1>8, <2>2, FunsAre
    <3>2. PICK c \in blocks(prog) : c = prog.entry[funAt(j)] BY <3>1
    <3>3. g[j] \in 1..visits[c] /\ h[j] = g[j] BY <1>9, <2>2, <3>1, <3>2
    <3>4. visits[c] \in Nat /\ visits'[c] \in Nat /\ visits[c] <= visits'[c] BY <1>3, <1>4, <1>6, <1>7
    <3> HIDE DEF h
    <3>5. h[j] \in 1..visits'[c] BY <3>3, <3>4
    <3> QED BY <3>1, <3>2, <3>5
  <2> QED BY <2>1, <2>2
<1>12. ASSUME NEW j \in 1..d, funAt(j) = f PROVE h[j] # h[d + 1]
  <2>1. g[j] \in 1..visits[b] BY <1>9, <1>12 DEF b
  <2>2. j # d + 1 BY <1>2
  <2>3. h[j] = g[j] /\ h[d + 1] = visits[b] + 1 BY <1>2, <2>2
  <2> HIDE DEF h
  <2> QED BY <1>6, <2>1, <2>3
<1>13. ASSUME NEW i \in 1..d + 1, NEW j \in 1..d + 1, i # j, funAt(i)' = funAt(j)' PROVE h[i] # h[j]
  <2>1. CASE i = d + 1
    <3>1. j \in 1..d /\ funAt(j) = f BY <1>8, <1>13, <2>1
    <3> HIDE DEF h
    <3> QED BY <1>12, <2>1, <3>1
  <2>2. CASE j = d + 1
    <3>1. i \in 1..d /\ funAt(i) = f BY <1>8, <1>13, <2>2
    <3> HIDE DEF h
    <3> QED BY <1>12, <2>2, <3>1
  <2>3. CASE i # d + 1 /\ j # d + 1
    <3>1. i \in 1..d /\ j \in 1..d /\ funAt(i) = funAt(j) BY <1>8, <1>13, <2>3
    <3>2. g[i] # g[j] BY <1>1, <1>13, <3>1 DEF counts
    <3> QED BY <2>3, <3>2
  <2> QED BY <2>1, <2>2, <2>3
<1>15. PICK r : r = h OBVIOUS
<1> HIDE DEF h
<1>14. counts(r)' BY <1>10, <1>11, <1>13, <1>15 DEF counts
<1> QED BY <1>7, <1>14

LEMMA ReachedMore == ASSUME RunTypes, NEW h, meets(h) PROVE reached' \subseteq DOMAIN reports
BY DEF RunTypes, meets

\* another frame on top, in the same function
LEMMA SameFuns ==
  ASSUME Framed, prog' = prog, NEW x, stack' = Append(Front(stack), x), prog.fun[x.at[1]] = prog.fun[here]
  PROVE  depth' = depth /\ \A j \in 1..depth : funAt(j)' = funAt(j)
<1> DEFINE S == Frame \cup {x}
<1>1. stack \in Seq(Frame) /\ stack # <<>> BY DEF Framed
<1>2. stack \in Seq(S) /\ x \in S
  <2>1. \A i \in 1..Len(stack) : stack[i] \in Frame BY <1>1, ElementOfSeq
  <2> HIDE DEF Frame
  <2> QED BY <1>1, <2>1
<1> HIDE DEF S
<1>3. /\ stack' \in Seq(S) /\ Len(stack') = Len(stack) /\ stack'[Len(stack)] = x
      /\ \A i \in 1..Len(stack) - 1 : stack'[i] = stack[i]
  BY <1>1, <1>2, ReplacedIs
<1>4. depth \in Nat /\ depth >= 1 /\ top = stack[depth] BY TopIs
<1>5. ASSUME NEW j \in 1..depth PROVE prog.fun[stack'[j].at[1]] = prog.fun[stack[j].at[1]]
  <2>1. CASE j = depth BY <1>3, <1>4, <2>1 DEF depth, here
  <2>2. CASE j # depth
    <3>1. j \in 1..Len(stack) - 1 BY <1>4, <2>2 DEF depth
    <3> QED BY <1>3, <3>1
  <2> QED BY <2>1, <2>2
<1> QED BY <1>3, <1>5 DEF depth, funAt

LEMMA StepTypes ==
  ASSUME runs, Framed', RunTypes, RunNext
  PROVE  RunTypes'
<1>1. /\ prog \in Programs /\ prog' = prog /\ Framed /\ depth \in Nat /\ depth >= 1 /\ here \in blocks(prog)
      /\ top = stack[depth] /\ reports' = reports
  BY Running, TopIs DEF runs
<1>2. visits \in [blocks(prog) -> 0..MaxVisits] /\ MaxVisits \in Nat BY VisitsAssumption DEF RunTypes
<1>3. ASSUME depth' <= depth, \A j \in 1..depth' : funAt(j)' = funAt(j), visits' = visits PROVE \E g : counts(g)'
  <2>1. \A b \in blocks(prog) : visits[b] <= visits'[b] BY <1>2, <1>3
  <2> QED BY <1>1, <1>2, <1>3, <2>1, CountsKept
<1>4. ASSUME NEW x, stack' = Append(Front(stack), x), prog.fun[x.at[1]] = prog.fun[here], visits' = visits
      PROVE  \E g : counts(g)'
  <2>1. depth' = depth /\ \A j \in 1..depth : funAt(j)' = funAt(j) BY <1>1, <1>4, SameFuns
  <2> QED BY <1>1, <1>3, <1>4, <2>1
<1>5. ASSUME NEW h, stack' = moved(h), visits' = visits PROVE \E g : counts(g)'
  <2>1. top \in Frame BY <1>1, TopIs
  <2>2. top = [at |-> top.at, prev |-> top.prev, holds |-> top.holds] /\ top.at \in blocks(prog) \X Nat
    BY <2>1 DEF Frame
  <2> DEFINE x == [top EXCEPT !.holds = h, !.at[2] = @ + 1]
  <2>3. x.at = [top.at EXCEPT ![2] = @ + 1] BY <2>2
  <2>4. x.at[1] = here BY <2>2, <2>3 DEF here
  <2>5. stack' = Append(Front(stack), x) BY <1>5 DEF moved
  <2> HIDE DEF x
  <2> QED BY <1>4, <1>5, <2>4, <2>5
<1>6. ASSUME visits' = visits, out' = out, \E g : counts(g)', reached' \subseteq DOMAIN reports PROVE RunTypes'
  BY <1>1, <1>2, <1>6 DEF RunTypes, branching
<1>7. CASE malloc \/ assign \/ phi
  <2>1. PICK n, c : define(n, c) /\ visits' = visits /\ out' = out BY <1>7 DEF malloc, assign, phi
  <2>2. PICK h : stack' = moved(h) /\ meets(h) BY <2>1 DEF define
  <2> QED BY <1>5, <1>6, <2>1, <2>2, ReachedMore
<1>8. CASE free
  <2>1. stack' = moved(top.holds) /\ visits' = visits /\ out' = out /\ reached' = reached BY <1>8 DEF free
  <2> QED BY <1>5, <1>6, <2>1 DEF RunTypes
<1>9. CASE exit
  <2>1. stack' = stack /\ visits' = visits /\ out' = out /\ reached' = reached BY <1>9 DEF exit
  <2>2. \E g : counts(g)' BY <1>1, <1>3, <2>1 DEF depth, funAt
  <2> QED BY <1>6, <2>1, <2>2 DEF RunTypes
<1>10. CASE call
  <2> DEFINE f == inst.fun
  <2>1. PICK x, h : stack' = Append(stack, x) /\ x.at[1] = prog.entry[f] /\ meets(h) BY <1>10 DEF call
  <2>2. is({"call"}) /\ enters(prog.entry[f]) /\ out' = out BY <1>10 DEF call
  <2>3. f \in DOMAIN prog.entry /\ prog.fun[prog.entry[f]] = f
    <3>1. top.at \in insts(prog) /\ at(prog, top.at).op = "call" BY <2>2 DEF is, inst
    <3> QED BY <1>1, <3>1, ProgramsAssumption DEF inst
  <2> HIDE DEF f
  <2>4. stack \in Seq(Frame \cup {x})
    <3>1. stack \in Seq(Frame) BY <1>1 DEF Framed
    <3>2. \A i \in 1..Len(stack) : stack[i] \in Frame BY <3>1, ElementOfSeq
    <3> HIDE DEF Frame
    <3> QED BY <3>1, <3>2
  <2>5. PICK d \in Nat : d = depth BY <1>1
  <2>6. Len(stack') = d + 1 /\ stack'[d + 1] = x /\ \A j \in 1..d : stack'[j] = stack[j] BY <2>1, <2>4, <2>5 DEF depth
  <2>7. depth' = d + 1 /\ funAt(d + 1)' = f /\ \A j \in 1..depth : funAt(j)' = funAt(j)
    BY <1>1, <2>1, <2>3, <2>5, <2>6 DEF depth, funAt
  <2>8. visits' \in [blocks(prog) -> 0..MaxVisits] /\ \E g : counts(g)' BY <1>1, <2>2, <2>3, <2>5, <2>7, CountsMore
  <2>9. reached' \subseteq DOMAIN reports BY <2>1, ReachedMore
  <2> QED BY <1>1, <2>2, <2>8, <2>9 DEF RunTypes, branching
<1>11. CASE branch
  <2>1. PICK j \in outcomes(here) :
          /\ enters(prog.succ[here][j])
          /\ stack' = Append(Front(stack), [top EXCEPT !.at = <<prog.succ[here][j], 1>>, !.prev = here])
          /\ out' = IF here \in branching(prog) THEN withCond(out, here, j - 1) ELSE out
    BY <1>11 DEF branch
  <2>2. reached' = reached /\ prog.succ[here] # <<>> BY <1>11 DEF branch
  <2>3. j \in DOMAIN prog.succ[here]
    <3>1. here \in DOMAIN prog.test => {1, 2} \subseteq DOMAIN prog.succ[here] BY <1>1, ProgramsAssumption
    <3> QED BY <3>1 DEF outcomes
  <2>4. DOMAIN prog.succ[here] = 1..Len(prog.succ[here]) /\ Len(prog.succ[here]) \in Nat BY <1>1, ProgramsAssumption
  <2>5. j \in Nat /\ j - 1 + 1 = j BY <2>3, <2>4
  <2> DEFINE s == prog.succ[here][j]
             x == turnedTo(top, s, here)
  <2>6. s \in blocks(prog) /\ prog.fun[s] = prog.fun[here]
    <3>1. s \in succs(prog, here) BY <2>3 DEF succs, ToSet
    <3> HIDE DEF s
    <3> QED BY <1>1, <3>1, ProgramsAssumption
  <2>7. stack' = Append(Front(stack), x) /\ enters(s) BY <2>1 DEF turnedTo
  <2> HIDE DEF s
  <2>8. x.at[1] = s BY <1>1, <2>6, TopIs, TurnedIs
  <2> HIDE DEF x
  <2>9. depth' = depth /\ \A k \in 1..depth : funAt(k)' = funAt(k) BY <1>1, <2>6, <2>7, <2>8, SameFuns
  <2>10. visits' \in [blocks(prog) -> 0..MaxVisits] /\ \A b \in blocks(prog) : visits[b] <= visits'[b]
    <3>1. visits[s] < MaxVisits /\ visits' = [visits EXCEPT ![s] = @ + 1] BY <2>7 DEF enters
    <3>2. visits[s] \in Nat /\ visits[s] + 1 \in 0..MaxVisits BY <1>2, <2>6, <3>1
    <3> QED BY <1>2, <2>6, <3>1, <3>2
  <2>11. \E g : counts(g)' BY <1>1, <2>9, <2>10, CountsKept
  <2>12. DOMAIN out' \subseteq branching(prog) /\ \A b \in DOMAIN out' : out'[b] + 1 \in DOMAIN prog.succ[b]
    <3>1. CASE here \in branching(prog)
      <4>1. DOMAIN out' = DOMAIN out \cup {here} /\ \A b \in DOMAIN out' : out'[b] = IF b = here THEN j - 1 ELSE out[b]
        BY <2>1, <3>1 DEF withCond
      <4> QED BY <2>3, <2>5, <3>1, <4>1 DEF RunTypes
    <3>2. CASE here \notin branching(prog)
      <4>1. out' = out BY <2>1, <3>2
      <4> QED BY <4>1 DEF RunTypes
    <3> QED BY <3>1, <3>2
  <2> QED BY <1>1, <2>2, <2>10, <2>11, <2>12 DEF RunTypes, branching
<1>12. CASE return /\ Len(stack) = 1
  <2>1. stack' = stack /\ visits' = visits /\ out' = out /\ reached' = reached BY <1>12 DEF return
  <2>2. \E g : counts(g)' BY <1>1, <1>3, <2>1 DEF depth, funAt
  <2> QED BY <1>6, <2>1, <2>2 DEF RunTypes
<1>13. CASE return /\ Len(stack) # 1
  <2> DEFINE caller == stack[Len(stack) - 1]
             def == at(prog, caller.at).def
             h == IF holds(prog.ret[prog.fun[here]]) THEN caller.holds \cup {def} ELSE caller.holds \ {def}
             x == movedOn(caller, h)
  <2>1. stack' = Append(Front(Front(stack)), x) /\ meets(h) /\ visits' = visits /\ out' = out
    BY <1>13 DEF return, movedOn
  <2>2. PICK d \in Nat : d = depth - 1 /\ d >= 1
    <3>1. depth # 1 BY <1>13 DEF depth
    <3> QED BY <1>1, <3>1
  <2>3. stack \in Seq(Frame) /\ stack # <<>> BY <1>1 DEF Framed
  <2>4. PICK r : r = Front(stack) OBVIOUS
  <2>5. r \in Seq(Frame) /\ Len(r) = d /\ r # <<>> /\ \A i \in 1..d : r[i] = stack[i]
    <3>1. r \in Seq(Frame) /\ Len(r) = Len(stack) - 1 /\ \A i \in 1..Len(stack) - 1 : r[i] = stack[i]
      BY <2>3, <2>4, PoppedSeq
    <3>2. Len(stack) - 1 = d BY <2>2 DEF depth
    <3> QED BY <2>2, <3>1, <3>2
  <2>6. caller = stack[d] /\ caller \in Frame
    <3>1. Len(stack) - 1 = d BY <2>2 DEF depth
    <3>2. d \in 1..Len(stack) BY <2>2 DEF depth
    <3>3. stack[d] \in Frame BY <2>3, <3>2, ElementOfSeq
    <3> QED BY <3>1, <3>3
  <2> HIDE DEF h
  <2>7. x.at[1] = caller.at[1]
    <3> HIDE DEF caller
    <3>1. caller = [at |-> caller.at, prev |-> caller.prev, holds |-> caller.holds] /\ caller.at \in blocks(prog) \X Nat
      BY <2>6 DEF Frame
    <3>2. x.at = [caller.at EXCEPT ![2] = @ + 1] BY <3>1 DEF movedOn
    <3> QED BY <3>1, <3>2
  <2> HIDE DEF x
  <2>8. stack' = Append(Front(r), x) BY <2>1, <2>4
  <2>9. r \in Seq(Frame \cup {x}) /\ x \in Frame \cup {x}
    <3>1. \A i \in 1..Len(r) : r[i] \in Frame BY <2>5, ElementOfSeq
    <3> HIDE DEF Frame
    <3> QED BY <2>5, <3>1
  <2>10. Len(stack') = d /\ stack'[d] = x /\ \A i \in 1..d - 1 : stack'[i] = r[i]
    <3> HIDE DEF Frame
    <3> QED BY <2>5, <2>8, <2>9, ReplacedIs
  <2>11. \A j \in 1..d : funAt(j)' = funAt(j)
    <3> SUFFICES ASSUME NEW j \in 1..d PROVE prog.fun[stack'[j].at[1]] = prog.fun[stack[j].at[1]]
      BY <1>1 DEF funAt
    <3>1. CASE j = d BY <2>6, <2>7, <2>10, <3>1
    <3>2. CASE j # d
      <4>1. j \in 1..d - 1 BY <2>2, <3>2
      <4> QED BY <2>5, <2>10, <4>1
    <3> QED BY <3>1, <3>2
  <2>12. depth' = d /\ depth' <= depth BY <1>1, <2>2, <2>10 DEF depth
  <2>13. \E g : counts(g)' BY <1>3, <2>1, <2>11, <2>12
  <2>14. reached' \subseteq DOMAIN reports BY <2>1, ReachedMore
  <2> QED BY <1>6, <2>1, <2>13, <2>14
<1> QED BY <1>7, <1>8, <1>9, <1>10, <1>11, <1>12, <1>13 DEF RunNext

TypeInv == SliceTypes /\ RunTypes

LEMMA StartTypes == Init => TypeInv
<1> SUFFICES ASSUME Init PROVE TypeInv OBVIOUS
<1>1. /\ prog \in Programs /\ pass = "init" /\ svfg = {} /\ sources = {} /\ slice = NoSlice /\ reached = {} /\ out = <<>>
      /\ stack = << [at |-> <<prog.entry[Main], 1>>, prev |-> Nil, holds |-> {}] >>
      /\ visits = [b \in blocks(prog) |-> IF b = prog.entry[Main] THEN 1 ELSE 0]
  BY DEF Init, SaberInit
<1>2. DOMAIN NoSlice.vfCond = {} /\ NoSlice.backward = {} /\ NoSlice.sinks = {} BY DEF NoSlice
<1>3. SliceTypes BY <1>1, <1>2 DEF SliceTypes
<1>4. prog.entry[Main] \in blocks(prog) /\ prog.fun[prog.entry[Main]] = Main BY <1>1, ProgramsAssumption
<1>5. depth = 1 /\ stack[1].at[1] = prog.entry[Main] BY <1>1 DEF depth
<1>6. visits \in [blocks(prog) -> 0..MaxVisits] /\ visits[prog.entry[Main]] = 1 BY <1>1, <1>4, VisitsAssumption
<1> DEFINE g == [j \in 1..1 |-> 1]
<1>7. counts(g)
  <2>1. \A j \in 1..1 : j = 1 OBVIOUS
  <2>2. funAt(1) = Main BY <1>4, <1>5 DEF funAt
  <2> QED BY <1>5, <1>6, <2>1, <2>2 DEF counts
<1>8. DOMAIN out = {} BY <1>1
<1> HIDE DEF g
<1>9. RunTypes BY <1>1, <1>6, <1>7, <1>8 DEF RunTypes
<1> QED BY <1>3, <1>9 DEF TypeInv

LEMMA TypesStep == AnalysisInv /\ RunInv /\ RunInv' /\ TypeInv /\ [Next]_vars => TypeInv'
<1> SUFFICES ASSUME AnalysisInv, RunInv, RunInv', TypeInv, [Next]_vars PROVE TypeInv' OBVIOUS
<1>1. SliceTypes /\ RunTypes /\ Framed /\ Framed' BY DEF TypeInv, RunInv
<1>2. ASSUME UNCHANGED runVars, prog' = prog, DOMAIN reports \subseteq DOMAIN reports' PROVE RunTypes'
  <2>1. /\ stack' = stack /\ visits' = visits /\ reached' = reached /\ out' = out BY <1>2 DEF runVars
  <2>2. PICK g : counts(g) BY <1>1 DEF RunTypes
  <2>3. counts(g)' BY <1>2, <2>1, <2>2 DEF counts, depth, funAt
  <2> QED BY <1>1, <1>2, <2>1, <2>3 DEF RunTypes, branching
<1>3. ASSUME UNCHANGED <<prog, pass, saberVars>> PROVE SliceTypes'
  BY <1>1, <1>3 DEF SliceTypes, sliceNodes, saberVars
<1>4. CASE SaberNext /\ UNCHANGED runVars
  <2>1. SliceTypes' BY <1>1, <1>4, SliceTyped
  <2>2. prog' = prog /\ DOMAIN reports \subseteq DOMAIN reports'
    <3>1. CASE reportBug BY <3>1 DEF reportBug
    <3>2. CASE ~reportBug
      <4>1. prog' = prog /\ reports' = reports
        BY <1>4, <3>2 DEF SaberNext, initialize, setCurSlice, forwardTraverse, forwardDone, backwardStart,
           backwardTraverse, backwardDone, AllPathReachableSolve, solved, finalize, saberVars
      <4> QED BY <4>1
    <3> QED BY <3>1, <3>2
  <2> QED BY <1>2, <1>4, <2>1, <2>2 DEF TypeInv
<1>5. CASE RunNext /\ UNCHANGED <<prog, pass, saberVars>>
  <2>1. pass = "run" BY <1>5 DEF RunNext, malloc, assign, phi, free, exit, call, branch, return, is, atEnd
  <2>2. runs BY <1>1, <1>5, <2>1 DEF runs
  <2> QED BY <1>1, <1>3, <1>5, <2>2, StepTypes DEF TypeInv
<1>6. CASE Stopped \/ UNCHANGED vars
  <2>1. UNCHANGED runVars /\ UNCHANGED <<prog, pass, saberVars>> BY <1>6 DEF Stopped, vars
  <2>2. prog' = prog /\ reports' = reports BY <2>1 DEF saberVars
  <2> QED BY <1>2, <1>3, <2>1, <2>2 DEF TypeInv
<1> QED BY <1>4, <1>5, <1>6 DEF Next

\* a source is what an allocation or a call gives
LEMMA SourceNamed ==
  ASSUME NEW P \in Programs
  PROVE  sourceSet(P) \subseteq {at(P, i).def : i \in named(P, "malloc") \cup named(P, "call")}
<1> SUFFICES ASSUME NEW s \in sourceSet(P) PROVE \E i \in named(P, "malloc") \cup named(P, "call") : s = at(P, i).def
  OBVIOUS
<1> DEFINE E == buildSVFG(P)
<1>1. IsFiniteSet(E) BY EdgesFinite
<1>2. PICK n \in allocations(P) : s \in sourcesOf(P, E, n) BY DEF sourceSet, initSrcs
<1>3. s \in followed(P, E, n) BY <1>2 DEF sourcesOf
<1> HIDE DEF E
<1>4. s = n \/ \E e \in E : e.kind = "ret" /\ e.dst = s BY <1>1, <1>3, FollowedAre
<1>5. CASE s = n BY <1>2, <1>5 DEF allocations
<1>6. CASE \E e \in E : e.kind = "ret" /\ e.dst = s
  <2>1. PICK e \in buildSVFG(P) : e.kind = "ret" /\ e.dst = s BY <1>6 DEF E
  <2>2. PICK i \in insts(P) : at(P, i).op = "call" /\ e.dst = at(P, i).def BY <2>1, RetEdgeIs
  <2>3. i \in named(P, "call") BY <2>2 DEF named
  <2> QED BY <2>1, <2>2, <2>3
<1> QED BY <1>4, <1>5, <1>6

LEMMA TypesFollow == AnalysisInv /\ RunInv /\ TypeInv => TypeOK
<1> SUFFICES ASSUME AnalysisInv, RunInv, TypeInv PROVE TypeOK OBVIOUS
<1>1. prog \in Programs /\ SliceTypes /\ RunTypes /\ Framed BY DEF AnalysisInv, TypeInv, RunInv
<1>2. pass \in {"init", "source", "forward", "backward", "guard", "report", "run"} BY DEF AnalysisInv
<1>3. svfg \in {{}, buildSVFG(prog)} BY <1>1 DEF AnalysisInv, SliceTypes
<1>4. sources \cup DOMAIN reports \subseteq sourceSet(prog)
  <2>1. CASE pass = "init"
    <3>1. reports = <<>> /\ sources = {} BY <1>1, <2>1 DEF AnalysisInv, SliceTypes
    <3>2. DOMAIN reports = {} BY <3>1
    <3> QED BY <3>1, <3>2
  <2>2. CASE pass # "init" BY <2>2 DEF AnalysisInv, SourcesKept
  <2> QED BY <2>1, <2>2
<1>5. sources \cup DOMAIN reports \subseteq {at(prog, i).def : i \in named(prog, "malloc") \cup named(prog, "call")}
  BY <1>1, <1>4, SourceNamed
<1>6. Len(stack) \in 1..MaxVisits * Cardinality(DOMAIN prog.entry) BY <1>1, StackBounded
<1> QED BY <1>1, <1>2, <1>3, <1>5, <1>6 DEF TypeOK, SliceTypes, RunTypes

(****************************************************************************)
(* The types of the passes and of the run.  Sources are what allocations    *)
(* and calls give; the backward slice and the sinks stay within the forward *)
(* one (SrcSnkDDA::backwardpropagate), conditions within the valuations of  *)
(* the program (ProgSlice::setVFCond); and a run has no more frames than it *)
(* may enter functions.                                                     *)
(****************************************************************************)
THEOREM SaberTypes == Spec => []TypeOK
<1>1. Init => AnalysisInv /\ RunInv /\ TypeInv BY StartAnalysis, StartRun, StartTypes
<1>2. AnalysisInv /\ RunInv /\ TypeInv /\ [Next]_vars => (AnalysisInv /\ RunInv /\ TypeInv)'
  BY AnalysisStep, RunStep, TypesStep
<1>3. AnalysisInv /\ RunInv /\ TypeInv => TypeOK BY TypesFollow
<1> QED BY <1>1, <1>2, <1>3, PTL DEF Spec

=============================================================================
