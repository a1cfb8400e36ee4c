---------------------------- MODULE Threads_proofs ----------------------------
(****************************************************************************)
(* What the proofs about the thread analyses share: facts of the programs   *)
(* they read, of sequences, and of how the programs run.                    *)
(****************************************************************************)
EXTENDS Threads, SequenceTheorems, FiniteSetTheorems, TLAPS

-----------------------------------------------------------------------------
(* Instructions *)

LEMMA ProgramIs ==
  ASSUME prog \in Programs
  PROVE  /\ IsFiniteSet(Funs) /\ Main \in Funs
         /\ \A f \in Funs : Len(prog.body[f]) \in Nat /\ Len(prog.body[f]) >= 1
                            /\ DOMAIN prog.body[f] = 1 .. Len(prog.body[f])
BY ProgramsAssumption DEF Funs

LEMMA InstAt ==
  ASSUME prog \in Programs, NEW f \in Funs, NEW i \in 1 .. Len(prog.body[f])
  PROVE  /\ <<f, i>> \in Insts
         /\ ins(<<f, i>>).op = "ret" <=> i = Len(prog.body[f])
         /\ ins(<<f, i>>).op \in {"goto", "br", "head"} =>
              i + ins(<<f, i>>).by \in 1 .. Len(prog.body[f])
         /\ ins(<<f, i>>).op \in {"call", "fork"} => ins(<<f, i>>).fun \in Funs
<1>1. i \in DOMAIN prog.body[f] /\ ins(<<f, i>>) = prog.body[f][i] BY ProgramIs DEF ins
<1>2. <<f, i>> \in Insts BY <1>1 DEF Insts, instsOf
<1>3. /\ prog.body[f][i].op = "ret" <=> i = Len(prog.body[f])
      /\ prog.body[f][i].op \in {"goto", "br", "head"} => i + prog.body[f][i].by \in 1 .. Len(prog.body[f])
      /\ prog.body[f][i].op \in {"call", "fork"} => prog.body[f][i].fun \in DOMAIN prog.body
  BY <1>1, ProgramsAssumption DEF Funs
<1> QED BY <1>1, <1>2, <1>3 DEF Funs

LEMMA InstIs ==
  ASSUME prog \in Programs, NEW n \in Insts
  PROVE  /\ n[1] \in Funs /\ n[2] \in 1 .. Len(prog.body[n[1]]) /\ n = <<n[1], n[2]>>
         /\ n \in instsOf(n[1])
         /\ Len(prog.body[n[1]]) \in Nat
<1>1. PICK f \in Funs : n \in instsOf(f) BY DEF Insts
<1>2. PICK i \in DOMAIN prog.body[f] : n = <<f, i>> BY <1>1 DEF instsOf
<1> QED BY <1>1, <1>2, ProgramIs

LEMMA InstHas ==
  ASSUME prog \in Programs, NEW n \in Insts
  PROVE  /\ ins(n).op = "ret" <=> n[2] = Len(prog.body[n[1]])
         /\ ins(n).op \in {"goto", "br", "head"} => n[2] + ins(n).by \in 1 .. Len(prog.body[n[1]])
         /\ ins(n).op \in {"call", "fork"} => ins(n).fun \in Funs
<1>1. n[1] \in Funs /\ n[2] \in 1 .. Len(prog.body[n[1]]) /\ n = <<n[1], n[2]>> BY InstIs
<1> DEFINE m == <<n[1], n[2]>>
<1>2. /\ ins(m).op = "ret" <=> n[2] = Len(prog.body[n[1]])
      /\ ins(m).op \in {"goto", "br", "head"} => n[2] + ins(m).by \in 1 .. Len(prog.body[n[1]])
      /\ ins(m).op \in {"call", "fork"} => ins(m).fun \in Funs
  BY <1>1, InstAt
<1>3. m = n BY <1>1
<1> HIDE DEF m
<1> QED BY <1>2, <1>3

\* the instruction behind n, and the one it jumps to
behind(n) == <<n[1], n[2] + 1>>
target(n) == <<n[1], n[2] + ins(n).by>>

LEMMA NextIs ==
  ASSUME prog \in Programs, NEW n \in Insts, ins(n).op # "ret"
  PROVE  behind(n) \in Insts /\ behind(n)[1] = n[1] /\ behind(n)[2] = n[2] + 1 /\ behind(n) # entryOf(n[1])
<1>1. /\ n[1] \in Funs /\ n[2] \in 1 .. Len(prog.body[n[1]]) /\ Len(prog.body[n[1]]) \in Nat
      /\ n[2] # Len(prog.body[n[1]])
  BY InstIs, InstHas
<1>2. n[2] + 1 \in 1 .. Len(prog.body[n[1]]) /\ n[2] + 1 # 1 BY <1>1
<1> QED BY <1>1, <1>2, InstAt DEF behind, entryOf

LEMMA TargetIs ==
  ASSUME prog \in Programs, NEW n \in Insts, ins(n).op \in {"goto", "br", "head"}
  PROVE  target(n) \in Insts /\ target(n)[1] = n[1]
<1>1. n[1] \in Funs /\ n[2] + ins(n).by \in 1 .. Len(prog.body[n[1]]) BY InstIs, InstHas
<1> QED BY <1>1, InstAt DEF target

\* where control goes within the function
LEMMA SuccessorsAre ==
  ASSUME NEW n
  PROVE  /\ ins(n).op = "ret" => ToSet(succs(n)) = {}
         /\ ins(n).op = "goto" => ToSet(succs(n)) = {target(n)}
         /\ ins(n).op \in {"br", "head"} => ToSet(succs(n)) = {behind(n), target(n)}
         /\ ins(n).op \notin {"ret", "goto", "br", "head"} => ToSet(succs(n)) = {behind(n)}
         /\ succs(n) \in Seq(ToSet(succs(n)))
<1>1. ins(n).op = "ret" => succs(n) = <<>> BY DEF succs
<1>2. ins(n).op = "goto" => succs(n) = <<target(n)>> BY DEF succs, target
<1>3. ins(n).op \in {"br", "head"} => succs(n) = <<behind(n), target(n)>> BY DEF succs, target, behind
<1>4. ins(n).op \notin {"ret", "goto", "br", "head"} => succs(n) = <<behind(n)>> BY DEF succs, behind
<1>5. \A x : ToSet(<<x>>) = {x} BY DEF ToSet
<1>6. \A x, y : ToSet(<<x, y>>) = {x, y} BY DEF ToSet
<1>7. ToSet(<<>>) = {} BY DEF ToSet
<1>8. /\ ins(n).op = "ret" => ToSet(succs(n)) = {}
      /\ ins(n).op = "goto" => ToSet(succs(n)) = {target(n)}
      /\ ins(n).op \in {"br", "head"} => ToSet(succs(n)) = {behind(n), target(n)}
      /\ ins(n).op \notin {"ret", "goto", "br", "head"} => ToSet(succs(n)) = {behind(n)}
  BY <1>1, <1>2, <1>3, <1>4, <1>5, <1>6, <1>7
<1>9. succs(n) \in Seq(ToSet(succs(n)))
  <2>1. \A x : <<x>> \in Seq({x}) OBVIOUS
  <2>2. \A x, y : <<x, y>> \in Seq({x, y}) OBVIOUS
  <2>3. <<>> \in Seq({}) OBVIOUS
  <2> DEFINE s == succs(n)
             S == ToSet(succs(n))
  <2>4. \/ s = <<>> /\ S = {}
        \/ \E x : s = <<x>> /\ S = {x}
        \/ \E x, y : s = <<x, y>> /\ S = {x, y}
    BY <1>1, <1>2, <1>3, <1>4, <1>8
  <2> HIDE DEF s, S
  <2>5. ASSUME s = <<>>, S = {} PROVE s \in Seq(S) BY <2>3, <2>5, Zenon
  <2>6. ASSUME NEW x, s = <<x>>, S = {x} PROVE s \in Seq(S)
    <3>1. <<x>> \in Seq({x}) BY <2>1
    <3> QED BY <2>6, <3>1, Zenon
  <2>7. ASSUME NEW x, NEW y, s = <<x, y>>, S = {x, y} PROVE s \in Seq(S)
    <3>1. <<x, y>> \in Seq({x, y}) BY <2>2
    <3> QED BY <2>7, <3>1, Zenon
  <2>8. s \in Seq(S) BY <2>4, <2>5, <2>6, <2>7, Zenon
  <2> QED BY <2>8 DEF s, S
<1> QED BY <1>8, <1>9

LEMMA SuccessorsIn ==
  ASSUME prog \in Programs, NEW n \in Insts, NEW s \in ToSet(succs(n))
  PROVE  s \in Insts /\ s[1] = n[1] /\ ins(n).op # "ret"
BY SuccessorsAre, NextIs, TargetIs

LEMMA Ends ==
  ASSUME prog \in Programs, NEW f \in Funs
  PROVE  /\ entryOf(f) \in Insts /\ exitOf(f) \in Insts
         /\ entryOf(f)[1] = f /\ exitOf(f)[1] = f
         /\ ins(exitOf(f)).op = "ret"
<1>1. Len(prog.body[f]) \in Nat /\ Len(prog.body[f]) >= 1 BY ProgramIs
<1>2. 1 \in 1 .. Len(prog.body[f]) /\ Len(prog.body[f]) \in 1 .. Len(prog.body[f]) BY <1>1
<1> QED BY <1>2, InstAt DEF entryOf, exitOf

LEMMA CallsFinite == ASSUME prog \in Programs PROVE IsFiniteSet(Insts)
<1> DEFINE G == [f \in Funs |-> instsOf(f)]
           B == {instsOf(f) : f \in Funs}
<1>1. IsFiniteSet(Funs) BY ProgramIs
<1>2. G \in Surjection(Funs, B) BY DEF Surjection
<1>3. IsFiniteSet(B) BY <1>1, <1>2, FS_Surjection
<1>4. ASSUME NEW f \in Funs PROVE IsFiniteSet(instsOf(f))
  <2> DEFINE H == [i \in 1 .. Len(prog.body[f]) |-> <<f, i>>]
  <2>1. Len(prog.body[f]) \in Nat /\ DOMAIN prog.body[f] = 1 .. Len(prog.body[f]) BY ProgramIs
  <2>2. IsFiniteSet(1 .. Len(prog.body[f])) BY <2>1, FS_Interval
  <2>3. H \in Surjection(1 .. Len(prog.body[f]), instsOf(f)) BY <2>1 DEF Surjection, instsOf
  <2> QED BY <2>2, <2>3, FS_Surjection
<1>5. \A X \in B : IsFiniteSet(X) BY <1>4
<1> HIDE DEF B
<1>6. IsFiniteSet(UNION B) BY <1>3, <1>5, FS_UNION
<1> QED BY <1>6 DEF B, Insts

-----------------------------------------------------------------------------
(* Sequences *)

LEMMA JoinedSet ==
  ASSUME NEW S, NEW s \in Seq(S), NEW t \in Seq(S)
  PROVE  s \o t \in Seq(S) /\ ToSet(s \o t) = ToSet(s) \cup ToSet(t)
<1>1. /\ s \o t \in Seq(S) /\ Len(s \o t) = Len(s) + Len(t)
      /\ \A i \in 1 .. Len(s) + Len(t) : (s \o t)[i] = IF i <= Len(s) THEN s[i] ELSE t[i - Len(s)]
  OBVIOUS
<1>2. /\ Len(s) \in Nat /\ Len(t) \in Nat
      /\ DOMAIN s = 1 .. Len(s) /\ DOMAIN t = 1 .. Len(t) /\ DOMAIN (s \o t) = 1 .. Len(s) + Len(t)
  BY <1>1
<1>3. ToSet(s \o t) \subseteq ToSet(s) \cup ToSet(t)
  <2> SUFFICES ASSUME NEW i \in 1 .. Len(s) + Len(t) PROVE (s \o t)[i] \in ToSet(s) \cup ToSet(t)
    BY <1>2 DEF ToSet
  <2>1. CASE i <= Len(s)
    <3>1. i \in 1 .. Len(s) BY <1>2, <2>1
    <3> QED BY <1>1, <1>2, <2>1, <3>1 DEF ToSet
  <2>2. CASE ~ (i <= Len(s))
    <3>1. i - Len(s) \in 1 .. Len(t) BY <1>2, <2>2
    <3> QED BY <1>1, <1>2, <2>2, <3>1 DEF ToSet
  <2> QED BY <2>1, <2>2
<1>4. ToSet(s) \subseteq ToSet(s \o t)
  <2> SUFFICES ASSUME NEW i \in 1 .. Len(s) PROVE s[i] \in ToSet(s \o t) BY <1>2 DEF ToSet
  <2>1. i \in 1 .. Len(s) + Len(t) /\ i <= Len(s) BY <1>2
  <2> QED BY <1>1, <1>2, <2>1 DEF ToSet
<1>5. ToSet(t) \subseteq ToSet(s \o t)
  <2> SUFFICES ASSUME NEW i \in 1 .. Len(t) PROVE t[i] \in ToSet(s \o t) BY <1>2 DEF ToSet
  <2>1. i + Len(s) \in 1 .. Len(s) + Len(t) /\ ~ (i + Len(s) <= Len(s)) /\ i + Len(s) - Len(s) = i BY <1>2
  <2> QED BY <1>1, <1>2, <2>1 DEF ToSet
<1> QED BY <1>1, <1>3, <1>4, <1>5

LEMMA PoppedSet ==
  ASSUME NEW S, NEW s \in Seq(S), s # <<>>
  PROVE  /\ Len(s) \in Nat /\ Len(s) >= 1 /\ Last(s) = s[Len(s)] /\ Last(s) \in S
         /\ Front(s) \in Seq(S) /\ Len(Front(s)) = Len(s) - 1
         /\ \A i \in 1 .. Len(s) - 1 : Front(s)[i] = s[i]
         /\ ToSet(s) = ToSet(Front(s)) \cup {Last(s)}
<1>1. Len(s) \in Nat /\ Len(s) >= 1 OBVIOUS
<1>2. Last(s) = s[Len(s)] /\ Last(s) \in S BY <1>1, ElementOfSeq DEF Last
<1>3. Front(s) = SubSeq(s, 1, Len(s) - 1) BY DEF Front
<1>4. \A i \in 1 .. Len(s) - 1 : s[i] \in S BY <1>1, ElementOfSeq
<1>5. /\ Front(s) \in Seq(S)
      /\ Len(Front(s)) = IF 1 <= Len(s) - 1 THEN Len(s) - 1 - 1 + 1 ELSE 0
      /\ \A i \in 1 .. Len(s) - 1 - 1 + 1 : Front(s)[i] = s[1 + i - 1]
  BY <1>1, <1>3, <1>4, SubSeqProperties
<1>6. Len(Front(s)) = Len(s) - 1
  <2>1. CASE Len(s) = 1 BY <1>5, <2>1
  <2>2. CASE Len(s) > 1
    <3>1. 1 <= Len(s) - 1 /\ Len(s) - 1 - 1 + 1 = Len(s) - 1 BY <1>1, <2>2
    <3> QED BY <1>5, <3>1
  <2> QED BY <1>1, <2>1, <2>2
<1>7. \A i \in 1 .. Len(s) - 1 : Front(s)[i] = s[i]
  <2>1. \A i \in 1 .. Len(s) - 1 : i \in 1 .. Len(s) - 1 - 1 + 1 /\ 1 + i - 1 = i BY <1>1
  <2> QED BY <1>5, <2>1
<1>8. DOMAIN s = 1 .. Len(s) /\ DOMAIN Front(s) = 1 .. Len(s) - 1 BY <1>5, <1>6
<1>9. \A i \in 1 .. Len(s) : i \in 1 .. Len(s) - 1 \/ i = Len(s) BY <1>1
<1>10. Len(s) \in 1 .. Len(s) /\ \A i \in 1 .. Len(s) - 1 : i \in 1 .. Len(s) BY <1>1
<1>11. ToSet(s) = {s[i] : i \in 1 .. Len(s)} /\ ToSet(Front(s)) = {Front(s)[i] : i \in 1 .. Len(s) - 1}
  BY <1>8 DEF ToSet
<1>12. ToSet(s) = ToSet(Front(s)) \cup {Last(s)} BY <1>2, <1>7, <1>9, <1>10, <1>11
<1> QED BY <1>1, <1>2, <1>5, <1>6, <1>7, <1>12

LEMMA LeastNat ==
  ASSUME NEW S \in SUBSET Nat, S # {}
  PROVE  \E t \in S : \A u \in S : t <= u
<1>1. PICK z \in S : TRUE OBVIOUS
<1>2. PICK t \in S : \A u \in S : ~ (<<u, t>> \in OpToRel(<, Nat))
  BY <1>1, WFMin, NatLessThanWellFounded
<1>3. \A u \in S : ~ (u < t) BY <1>2 DEF OpToRel
<1> QED BY <1>3

\* what FlattenSeq makes of the first k of some sequences, for every k
joinsUpTo(f, ss, n) == f = [i \in 1 .. n |-> IF i = 1 THEN ss[i] ELSE f[i - 1] \o ss[i]]

LEMMA JoinExists ==
  ASSUME NEW S, NEW ss \in Seq(Seq(S))
  PROVE  \E f \in [1 .. Len(ss) -> Seq(S)] : joinsUpTo(f, ss, Len(ss))
<1> DEFINE n == Len(ss)
           G(k) == \E f \in [1 .. k -> Seq(S)] : joinsUpTo(f, ss, k)
           Bad == {k \in 0 .. n : ~ G(k)}
<1>1. n \in Nat /\ \A i \in 1 .. n : ss[i] \in Seq(S) OBVIOUS
<1>2. G(0)
  <2> DEFINE f0 == [i \in 1 .. 0 |-> ss[i]]
  <2>1. f0 \in [1 .. 0 -> Seq(S)] OBVIOUS
  <2>2. joinsUpTo(f0, ss, 0) BY DEF joinsUpTo
  <2> QED BY <2>1, <2>2
<1>3. ASSUME NEW k \in 1 .. n, G(k - 1) PROVE G(k)
  <2>1. PICK f \in [1 .. k - 1 -> Seq(S)] : joinsUpTo(f, ss, k - 1) BY <1>3
  <2> DEFINE g == [i \in 1 .. k |-> IF i < k THEN f[i] ELSE IF k = 1 THEN ss[1] ELSE f[k - 1] \o ss[k]]
  <2>2. \A i \in 1 .. k - 1 : f[i] = IF i = 1 THEN ss[i] ELSE f[i - 1] \o ss[i] BY <2>1 DEF joinsUpTo
  <2>3. k \in Nat /\ k <= n BY <1>1
  <2>4. k # 1 => k - 1 \in 1 .. k - 1 BY <2>3
  <2>5. k # 1 => f[k - 1] \in Seq(S) BY <2>1, <2>4
  <2>6. k # 1 => f[k - 1] \o ss[k] \in Seq(S) BY <1>1, <2>5
  <2>7. \A i \in 1 .. k : i < k => i \in 1 .. k - 1 BY <2>3
  <2>8. g \in [1 .. k -> Seq(S)] BY <1>1, <2>1, <2>6, <2>7
  <2>9. \A i \in 1 .. k : g[i] = IF i = 1 THEN ss[i] ELSE g[i - 1] \o ss[i]
    <3> SUFFICES ASSUME NEW i \in 1 .. k PROVE g[i] = IF i = 1 THEN ss[i] ELSE g[i - 1] \o ss[i] OBVIOUS
    <3>1. i # 1 => i - 1 \in 1 .. k /\ i - 1 < k BY <2>3
    <3>2. i # 1 => g[i - 1] = f[i - 1] BY <3>1
    <3>3. CASE i < k
      <4>1. i \in 1 .. k - 1 /\ g[i] = f[i] BY <2>7, <3>3
      <4> QED BY <2>2, <3>2, <4>1
    <3>4. CASE i = k
      <4>1. g[i] = IF k = 1 THEN ss[1] ELSE f[k - 1] \o ss[k] BY <3>4
      <4> QED BY <3>2, <3>4, <4>1
    <3> QED BY <2>3, <3>3, <3>4
  <2> HIDE DEF g
  <2>10. joinsUpTo(g, ss, k) BY <2>8, <2>9 DEF joinsUpTo
  <2> QED BY <2>8, <2>10
<1> HIDE DEF G, n
<1>4. Bad = {}
  <2>1. SUFFICES ASSUME Bad # {} PROVE FALSE OBVIOUS
  <2>2. Bad \in SUBSET Nat OBVIOUS
  <2>3. PICK t \in Bad : \A u \in Bad : t <= u BY <2>1, <2>2, LeastNat
  <2>4. t \in 0 .. n /\ ~ G(t) BY <2>3
  <2>5. t # 0 BY <1>2, <2>4
  <2>6. t \in 1 .. n /\ t - 1 \in 0 .. n /\ t - 1 < t BY <1>1, <2>4, <2>5
  <2>7. ~ G(t - 1) BY <1>3, <2>4, <2>6
  <2>8. t - 1 \in Bad BY <2>6, <2>7
  <2>9. t <= t - 1 BY <2>3, <2>8
  <2> QED BY <2>6, <2>9
<1>5. n \in 0 .. n BY <1>1
<1>6. G(n) BY <1>4, <1>5
<1> QED BY <1>6 DEF G, n

LEMMA JoinType ==
  ASSUME NEW S, NEW ss \in Seq(Seq(S)), NEW f, joinsUpTo(f, ss, Len(ss))
  PROVE  \A k \in 1 .. Len(ss) : /\ f[k] \in Seq(S)
                                 /\ \A j \in 1 .. k : ToSet(ss[j]) \subseteq ToSet(f[k])
<1> DEFINE n == Len(ss)
           G(k) == f[k] \in Seq(S) /\ \A j \in 1 .. k : ToSet(ss[j]) \subseteq ToSet(f[k])
           Bad == {k \in 1 .. n : ~ G(k)}
<1>1. n \in Nat /\ \A i \in 1 .. n : ss[i] \in Seq(S) OBVIOUS
<1>2. \A i \in 1 .. n : f[i] = IF i = 1 THEN ss[i] ELSE f[i - 1] \o ss[i] BY DEF joinsUpTo
<1>3. ASSUME NEW k \in 1 .. n, k = 1 \/ G(k - 1) PROVE G(k)
  <2>1. k \in Nat /\ k >= 1 /\ ss[k] \in Seq(S) BY <1>1
  <2>2. CASE k = 1
    <3>1. f[k] = ss[k] BY <1>2, <2>2
    <3>2. \A j \in 1 .. k : j = k BY <2>2
    <3> QED BY <2>1, <3>1, <3>2
  <2>3. CASE k # 1
    <3>1. f[k] = f[k - 1] \o ss[k] BY <1>2, <2>3
    <3>2. f[k - 1] \in Seq(S) /\ \A j \in 1 .. k - 1 : ToSet(ss[j]) \subseteq ToSet(f[k - 1]) BY <1>3, <2>3
    <3>3. ToSet(f[k]) = ToSet(f[k - 1]) \cup ToSet(ss[k]) /\ f[k] \in Seq(S)
      BY <2>1, <3>1, <3>2, JoinedSet
    <3>4. \A j \in 1 .. k : j \in 1 .. k - 1 \/ j = k BY <2>1
    <3> QED BY <3>2, <3>3, <3>4
  <2> QED BY <2>2, <2>3
<1> HIDE DEF G
<1>4. Bad = {}
  <2>1. SUFFICES ASSUME Bad # {} PROVE FALSE OBVIOUS
  <2>2. Bad \in SUBSET Nat BY <1>1
  <2>3. PICK t \in Bad : \A u \in Bad : t <= u BY <2>1, <2>2, LeastNat
  <2>4. t \in 1 .. n /\ ~ G(t) BY <2>3
  <2>5. t # 1 /\ ~ G(t - 1) BY <1>3, <2>4
  <2>6. t - 1 \in 1 .. n /\ t - 1 < t BY <1>1, <2>4, <2>5
  <2>7. t <= t - 1 BY <2>3, <2>5, <2>6
  <2> QED BY <2>6, <2>7
<1> QED BY <1>4 DEF G

LEMMA FlattenCovers ==
  ASSUME NEW S, NEW ss \in Seq(Seq(S))
  PROVE  /\ FlattenSeq(ss) \in Seq(S)
         /\ \A j \in 1 .. Len(ss) : ToSet(ss[j]) \subseteq ToSet(FlattenSeq(ss))
<1>1. CASE Len(ss) = 0
  <2>1. ss = <<>> BY <1>1
  <2>2. FlattenSeq(ss) = <<>> BY <1>1, <2>1 DEF FlattenSeq
  <2> QED BY <1>1, <2>2
<1>2. CASE Len(ss) # 0
  <2> DEFINE f == CHOOSE h : joinsUpTo(h, ss, Len(ss))
  <2>1. FlattenSeq(ss) = f[Len(ss)] BY <1>2 DEF FlattenSeq, joinsUpTo
  <2>2. joinsUpTo(f, ss, Len(ss)) BY JoinExists
  <2> HIDE DEF f
  <2>3. Len(ss) \in 1 .. Len(ss) BY <1>2
  <2> QED BY <2>1, <2>2, <2>3, JoinType
<1> QED BY <1>1, <1>2

\* an enumeration of a finite set names all of it
LEMMA Enumerates ==
  ASSUME NEW S, IsFiniteSet(S), NEW s \in SetToSeqs(S)
  PROVE  s \in Seq(S) /\ ToSet(s) = S
<1> DEFINE D0 == 1 .. Cardinality(S)
<1>1. Cardinality(S) \in Nat BY FS_CardinalityType
<1>2. s \in [D0 -> S] /\ \A i, j \in D0 : i # j => s[i] # s[j] BY DEF SetToSeqs
<1>3. s \in Injection(D0, S)
  <2>1. \A i, j \in DOMAIN s : s[i] = s[j] => i = j BY <1>2
  <2> QED BY <1>2, <2>1 DEF Injection, IsInjective
<1>4. IsFiniteSet(D0) /\ Cardinality(D0) = Cardinality(S) BY <1>1, FS_Interval
<1>5. s \in Surjection(D0, S) BY <1>3, <1>4, FS_Injection
<1>6. \A x \in S : \E i \in D0 : s[i] = x BY <1>5 DEF Surjection
<1>7. s \in Seq(S) BY <1>1, <1>2
<1>8. ToSet(s) = S BY <1>2, <1>6 DEF ToSet
<1> QED BY <1>7, <1>8

-----------------------------------------------------------------------------
(* How programs run *)

Frame    == [at : Insts, iters : UNION {[H -> Nat] : H \in SUBSET Insts}]
Instance == [path : Seq(Funs \X Int), parent : Nat, stack : Seq(Frame)]

\* n is behind a call of f
behindCall(f, n) == \E k \in Insts : ins(k).op = "call" /\ ins(k).fun = f /\ n = behind(k)

\* Programs run when the passes are done; a frame waits behind the call of the next.
Runs ==
  /\ running # <<>> => pass = "run"
  /\ running \in Seq(Instance)
  /\ \A l \in DOMAIN owners : owners[l] \in DOMAIN running
  /\ \A i \in DOMAIN running : \A k \in 1 .. Len(running[i].stack) - 1 :
       behindCall(running[i].stack[k + 1].at[1], running[i].stack[k].at)

LEMMA AtIs ==
  ASSUME NEW i, NEW op, isAt(i, op)
  PROVE  i \in DOMAIN running /\ running[i].stack # <<>> /\ ins(at(i)).op = op
BY DEF isAt, live, over

LEMMA StackAt ==
  ASSUME Runs, NEW i \in DOMAIN running
  PROVE  /\ running[i] \in Instance /\ running[i].stack \in Seq(Frame)
         /\ DOMAIN running = 1 .. Len(running) /\ Len(running) \in Nat
<1>1. running \in Seq(Instance) BY DEF Runs
<1>2. DOMAIN running = 1 .. Len(running) /\ Len(running) \in Nat BY <1>1
<1>3. running[i] \in Instance BY <1>1, <1>2, ElementOfSeq
<1> QED BY <1>2, <1>3 DEF Instance

LEMMA TopIs ==
  ASSUME Runs, NEW i \in DOMAIN running, running[i].stack # <<>>
  PROVE  /\ Len(running[i].stack) \in Nat /\ Len(running[i].stack) >= 1
         /\ top(i) = running[i].stack[Len(running[i].stack)]
         /\ top(i) \in Frame /\ at(i) = top(i).at /\ at(i) \in Insts
         /\ Front(running[i].stack) \in Seq(Frame)
         /\ Len(Front(running[i].stack)) = Len(running[i].stack) - 1
         /\ \A k \in 1 .. Len(running[i].stack) - 1 : Front(running[i].stack)[k] = running[i].stack[k]
<1>1. running[i].stack \in Seq(Frame) BY StackAt
<1>2. top(i) \in Frame BY <1>1, PoppedSet DEF top
<1>3. at(i) = top(i).at /\ at(i) \in Insts BY <1>2 DEF at, Frame
<1> QED BY <1>1, <1>2, <1>3, PoppedSet DEF top

\* a frame of a function that has just been entered
LEMMA FrameIs ==
  ASSUME prog \in Programs, NEW f \in Funs
  PROVE  frame(f) \in Frame /\ frame(f).at = entryOf(f) /\ frame(f).at[1] = f
<1>1. entryOf(f) \in Insts /\ entryOf(f)[1] = f BY Ends
<1>2. <<>> \in [{} -> Nat] /\ {} \in SUBSET Insts OBVIOUS
<1>3. <<>> \in UNION {[H -> Nat] : H \in SUBSET Insts} BY <1>2, Zenon
<1> QED BY <1>1, <1>3 DEF frame, Frame

\* the frames that i may go on at
LEMMA FramesAre ==
  ASSUME prog \in Programs, Runs, NEW i \in DOMAIN running, running[i].stack # <<>>
  PROVE  /\ at(i) \in Insts
         /\ ins(at(i)).op # "ret" =>
              goOn(i) \in Frame /\ goOn(i).at = behind(at(i)) /\ goOn(i).at[1] = at(i)[1]
         /\ ins(at(i)).op \in {"goto", "br", "head"} =>
              jump(i) \in Frame /\ jump(i).at = target(at(i)) /\ jump(i).at[1] = at(i)[1]
<1>1. top(i) \in Frame /\ at(i) = top(i).at /\ at(i) \in Insts BY TopIs
<1> DEFINE n == at(i)
<1>2. ins(n).op # "ret" => behind(n) \in Insts /\ behind(n)[1] = n[1] BY <1>1, NextIs
<1>3. ins(n).op \in {"goto", "br", "head"} => target(n) \in Insts /\ target(n)[1] = n[1] BY <1>1, TargetIs
<1>4. goOn(i) = [top(i) EXCEPT !.at = behind(n)] BY <1>1 DEF goOn, behind
<1>5. jump(i) = [top(i) EXCEPT !.at = target(n)] BY <1>1 DEF jump, target
<1> HIDE DEF n
<1>6. \A m \in Insts : [top(i) EXCEPT !.at = m] \in Frame /\ [top(i) EXCEPT !.at = m].at = m
  BY <1>1 DEF Frame
<1> QED BY <1>1, <1>2, <1>3, <1>4, <1>5, <1>6 DEF n

\* counting iterations leaves a frame where it is
LEMMA CountedIs ==
  ASSUME Runs, NEW i \in DOMAIN running, running[i].stack # <<>>,
         NEW fr \in Frame, NEW h \in Insts, NEW k \in Nat
  PROVE  [fr EXCEPT !.iters = counted(i, h, k)] \in Frame
         /\ [fr EXCEPT !.iters = counted(i, h, k)].at = fr.at
<1>1. top(i) \in Frame BY TopIs
<1>2. PICK H \in SUBSET Insts : top(i).iters \in [H -> Nat] BY <1>1 DEF Frame
<1>3. counted(i, h, k) \in [H \cup {h} -> Nat] BY <1>2 DEF counted
<1>4. H \cup {h} \in SUBSET Insts OBVIOUS
<1>5. counted(i, h, k) \in UNION {[J -> Nat] : J \in SUBSET Insts} BY <1>3, <1>4
<1> HIDE DEF counted
<1> QED BY <1>5 DEF Frame

LEMMA IterationsNat ==
  ASSUME Runs, NEW i \in DOMAIN running, running[i].stack # <<>>, NEW h
  PROVE  iterations(i, h) \in Nat
<1>1. top(i) \in Frame BY TopIs
<1>2. PICK H \in SUBSET Insts : top(i).iters \in [H -> Nat] BY <1>1 DEF Frame
<1> QED BY <1>2 DEF iterations

\* i goes on at the frame fr, in the function it is in
LEMMA MovedIs ==
  ASSUME Runs, NEW i \in DOMAIN running, running[i].stack # <<>>,
         NEW fr \in Frame, fr.at[1] = at(i)[1]
  PROVE  /\ moved(i, fr) \in Seq(Frame) /\ moved(i, fr) # <<>>
         /\ Len(moved(i, fr)) = Len(running[i].stack)
         /\ moved(i, fr)[Len(moved(i, fr))] = fr
         /\ \A k \in 1 .. Len(moved(i, fr)) - 1 : moved(i, fr)[k] = running[i].stack[k]
         /\ \A k \in 1 .. Len(moved(i, fr)) - 1 :
              behindCall(moved(i, fr)[k + 1].at[1], moved(i, fr)[k].at)
<1> DEFINE s == running[i].stack
           t == moved(i, fr)
           u == Front(s)
<1>1. /\ Len(s) \in Nat /\ Len(s) >= 1 /\ at(i) = s[Len(s)].at
      /\ u \in Seq(Frame) /\ Len(u) = Len(s) - 1 /\ \A k \in 1 .. Len(s) - 1 : u[k] = s[k]
  BY TopIs
<1>2. t = Append(u, fr) BY DEF moved
<1>3. \A k \in 1 .. Len(s) - 1 : behindCall(s[k + 1].at[1], s[k].at) BY DEF Runs
<1> HIDE DEF s, t, u
<1>4. /\ t \in Seq(Frame) /\ Len(t) = Len(u) + 1 /\ t[Len(u) + 1] = fr
      /\ \A k \in 1 .. Len(u) : t[k] = u[k]
  BY <1>1, <1>2
<1>5. Len(t) = Len(s) /\ t[Len(s)] = fr /\ \A k \in 1 .. Len(s) - 1 : t[k] = s[k] BY <1>1, <1>4
<1>6. ASSUME NEW k \in 1 .. Len(s) - 1 PROVE behindCall(t[k + 1].at[1], t[k].at)
  <2>1. behindCall(s[k + 1].at[1], s[k].at) /\ t[k] = s[k] BY <1>3, <1>5
  <2>2. CASE k + 1 = Len(s)
    <3>1. t[k + 1].at[1] = s[k + 1].at[1] BY <1>1, <1>5, <2>2
    <3> QED BY <2>1, <3>1
  <2>3. CASE k + 1 # Len(s)
    <3>1. k + 1 \in 1 .. Len(s) - 1 BY <1>1, <2>3
    <3> QED BY <1>5, <2>1, <3>1
  <2> QED BY <2>2, <2>3
<1>7. t # <<>> BY <1>1, <1>5
<1>8. /\ t \in Seq(Frame) /\ t # <<>> /\ Len(t) = Len(s) /\ t[Len(t)] = fr
      /\ \A k \in 1 .. Len(t) - 1 : t[k] = s[k]
      /\ \A k \in 1 .. Len(t) - 1 : behindCall(t[k + 1].at[1], t[k].at)
  BY <1>4, <1>5, <1>6, <1>7
<1> QED BY <1>8 DEF s, t

LEMMA PathIs ==
  ASSUME prog \in Programs, Runs, NEW i \in DOMAIN running, running[i].stack # <<>>
  PROVE  /\ at(i) \in Funs \X Int /\ running[i].path \in Seq(Funs \X Int) /\ callSites(i) \in Seq(Funs \X Int)
         /\ running[i].path \o callSites(i) \in Seq(Funs \X Int)
         /\ running[i].path \o callSites(i) \o <<at(i)>> \in Seq(Funs \X Int)
<1> DEFINE u == Front(running[i].stack)
<1>1. u \in Seq(Frame) /\ at(i) \in Insts BY TopIs
<1>2. running[i].path \in Seq(Funs \X Int) BY StackAt DEF Instance
<1>3. ASSUME NEW n \in Insts PROVE n \in Funs \X Int /\ <<n[1], n[2] - 1>> \in Funs \X Int
  <2>1. n[1] \in Funs /\ n[2] \in 1 .. Len(prog.body[n[1]]) /\ n = <<n[1], n[2]>> BY InstIs
  <2>2. n[2] \in Int /\ n[2] - 1 \in Int BY <2>1
  <2> QED BY <2>1, <2>2
<1>4. callSites(i) = [k \in DOMAIN u |-> <<u[k].at[1], u[k].at[2] - 1>>] BY DEF callSites
<1> HIDE DEF u
<1>5. callSites(i) \in Seq(Funs \X Int)
  <2>1. DOMAIN u = 1 .. Len(u) /\ Len(u) \in Nat BY <1>1
  <2>2. \A k \in 1 .. Len(u) : u[k] \in Frame BY <1>1, <2>1
  <2>3. \A fr \in Frame : fr.at \in Insts BY DEF Frame
  <2>4. \A k \in 1 .. Len(u) : u[k].at \in Insts BY <2>2, <2>3
  <2>5. \A k \in 1 .. Len(u) : <<u[k].at[1], u[k].at[2] - 1>> \in Funs \X Int BY <1>3, <2>4
  <2> QED BY <1>4, <2>1, <2>5
<1>6. at(i) \in Funs \X Int BY <1>1, <1>3
<1>7. <<at(i)>> \in Seq(Funs \X Int) BY <1>6
<1> QED BY <1>2, <1>5, <1>6, <1>7

-----------------------------------------------------------------------------
(* Their steps *)

LEMMA SameInsts ==
  ASSUME prog' = prog
  PROVE  /\ Funs' = Funs /\ Insts' = Insts /\ Frame' = Frame /\ Instance' = Instance
         /\ \A n : ins(n)' = ins(n) /\ behind(n)' = behind(n)
         /\ \A f, n : behindCall(f, n)' <=> behindCall(f, n)
<1>1. Funs' = Funs /\ \A n : ins(n)' = ins(n) BY DEF Funs, ins
<1>2. Insts' = Insts BY <1>1 DEF Insts, instsOf
<1>3. \A n : behind(n)' = behind(n) BY DEF behind
<1>4. Frame' = Frame /\ Instance' = Instance BY <1>1, <1>2 DEF Frame, Instance
<1>5. \A f, n : behindCall(f, n)' <=> behindCall(f, n) BY <1>1, <1>2, <1>3 DEF behindCall
<1> QED BY <1>1, <1>2, <1>3, <1>4, <1>5

\* the frames below each frame of t wait behind calls
chained(t) == \A k \in 1 .. Len(t) - 1 : behindCall(t[k + 1].at[1], t[k].at)

\* an instance takes or gives up locks for itself only
ownLocks(i) == \A l \in DOMAIN owners' : owners'[l] = i \/ (l \in DOMAIN owners /\ owners'[l] = owners[l])

LEMMA StackedIs ==
  ASSUME Runs, prog' = prog, pass' = pass, NEW i \in DOMAIN running, NEW t \in Seq(Frame), chained(t),
         toStack(i, t), ownLocks(i)
  PROVE  /\ Runs' /\ DOMAIN running' = DOMAIN running
         /\ running'[i] = [running[i] EXCEPT !.stack = t] /\ running'[i].stack = t
         /\ \A j \in DOMAIN running : /\ j # i => running'[j] = running[j]
                                      /\ running'[j].path = running[j].path
                                      /\ running'[j].parent = running[j].parent
<1>1. running \in Seq(Instance) /\ running[i] \in Instance BY StackAt DEF Runs
<1> DEFINE r == [running[i] EXCEPT !.stack = t]
<1>2. r \in Instance /\ r.stack = t /\ r.path = running[i].path /\ r.parent = running[i].parent
  BY <1>1 DEF Instance
<1>3. running' = [running EXCEPT ![i] = r] BY DEF toStack
<1> HIDE DEF r
<1>4. /\ running' \in Seq(Instance) /\ DOMAIN running' = DOMAIN running
      /\ running'[i] = r /\ \A j \in DOMAIN running : j # i => running'[j] = running[j]
  BY <1>1, <1>2, <1>3
<1>5. ASSUME NEW j \in DOMAIN running', NEW k \in 1 .. Len(running'[j].stack) - 1
      PROVE  behindCall(running'[j].stack[k + 1].at[1], running'[j].stack[k].at)
  <2>1. CASE j = i BY <1>2, <1>4, <1>5, <2>1 DEF chained
  <2>2. CASE j # i
    <3>1. running'[j] = running[j] /\ j \in DOMAIN running BY <1>4, <2>2
    <3>2. behindCall(running[j].stack[k + 1].at[1], running[j].stack[k].at) BY <1>5, <3>1 DEF Runs
    <3> QED BY <3>1, <3>2
  <2> QED BY <2>1, <2>2
<1>6. \A l \in DOMAIN owners' : owners'[l] \in DOMAIN running' BY <1>4 DEF Runs, ownLocks
<1>7. running' # <<>> => pass' = "run" BY <1>1, <1>4 DEF Runs
<1>8. Runs' BY <1>4, <1>5, <1>6, <1>7, SameInsts DEF Runs
<1> QED BY <1>2, <1>4, <1>8 DEF r

\* within a function
LEMMA StepIs ==
  ASSUME prog \in Programs, Runs, NEW i \in DOMAIN running,
         access(i) \/ goto(i) \/ branch(i) \/ enterLoop(i) \/ leaveLoop(i) \/ join(i) \/ lock(i) \/ unlock(i)
  PROVE  /\ running[i].stack # <<>> /\ ins(at(i)).op \notin {"call", "fork", "ret"} /\ ownLocks(i)
         /\ ~ (lock(i) \/ unlock(i)) => ins(at(i)).op \notin {"lock", "unlock"} /\ owners' = owners
         /\ \E fr \in Frame : /\ fr.at \in ToSet(succs(at(i))) /\ fr.at[1] = at(i)[1]
                              /\ toStack(i, moved(i, fr))
<1> DEFINE after(fr) == fr \in Frame /\ fr.at \in ToSet(succs(at(i))) /\ fr.at[1] = at(i)[1]
<1>1. owners' = owners => ownLocks(i) BY DEF ownLocks
<1>2. ASSUME running[i].stack # <<>>
      PROVE  /\ at(i) \in Insts
             /\ ins(at(i)).op \notin {"ret", "goto"} => after(goOn(i))
             /\ ins(at(i)).op \in {"goto", "br", "head"} => after(jump(i))
  BY <1>2, FramesAre, SuccessorsAre
<1>3. CASE access(i) \/ join(i)
  <2>1. running[i].stack # <<>> /\ ins(at(i)).op \in {"stmt", "join"} BY <1>3, AtIs DEF access, join
  <2>2. UNCHANGED owners /\ toStack(i, moved(i, goOn(i))) BY <1>3 DEF access, join
  <2>3. after(goOn(i)) BY <1>2, <2>1
  <2> QED BY <1>1, <2>1, <2>2, <2>3
<1>4. CASE goto(i)
  <2>1. running[i].stack # <<>> /\ ins(at(i)).op = "goto" BY <1>4, AtIs DEF goto
  <2>2. UNCHANGED owners /\ toStack(i, moved(i, jump(i))) BY <1>4 DEF goto
  <2>3. after(jump(i)) BY <1>2, <2>1
  <2> QED BY <1>1, <2>1, <2>2, <2>3
<1>5. CASE branch(i)
  <2>1. running[i].stack # <<>> /\ ins(at(i)).op = "br" BY <1>5, AtIs DEF branch
  <2>2. PICK fr \in {goOn(i), jump(i)} : toStack(i, moved(i, fr)) BY <1>5 DEF branch
  <2>3. UNCHANGED owners BY <1>5 DEF branch
  <2>4. after(fr) BY <1>2, <2>1, <2>2
  <2> QED BY <1>1, <2>1, <2>2, <2>3, <2>4
<1>6. CASE enterLoop(i)
  <2>1. running[i].stack # <<>> /\ ins(at(i)).op = "head" BY <1>6, AtIs DEF enterLoop
  <2> DEFINE k == iterations(i, at(i)) + 1
             fr == [goOn(i) EXCEPT !.iters = counted(i, at(i), k)]
  <2>2. UNCHANGED owners /\ toStack(i, moved(i, fr)) BY <1>6 DEF enterLoop
  <2>3. at(i) \in Insts /\ after(goOn(i)) BY <1>2, <2>1
  <2>4. k \in Nat BY <2>1, IterationsNat
  <2> HIDE DEF k
  <2>5. fr \in Frame /\ fr.at = goOn(i).at BY <2>1, <2>3, <2>4, CountedIs
  <2> HIDE DEF fr
  <2>6. after(fr) BY <2>3, <2>5
  <2> QED BY <1>1, <2>1, <2>2, <2>6
<1>7. CASE leaveLoop(i)
  <2>1. running[i].stack # <<>> /\ ins(at(i)).op = "head" BY <1>7, AtIs DEF leaveLoop
  <2> DEFINE fr == [jump(i) EXCEPT !.iters = counted(i, at(i), 0)]
  <2>2. UNCHANGED owners /\ toStack(i, moved(i, fr)) BY <1>7 DEF leaveLoop
  <2>3. at(i) \in Insts /\ after(jump(i)) BY <1>2, <2>1
  <2>4. fr \in Frame /\ fr.at = jump(i).at BY <2>1, <2>3, CountedIs
  <2> HIDE DEF fr
  <2>5. after(fr) BY <2>3, <2>4
  <2> QED BY <1>1, <2>1, <2>2, <2>5
<1>8. CASE lock(i) \/ unlock(i)
  <2>1. running[i].stack # <<>> /\ ins(at(i)).op \in {"lock", "unlock"} BY <1>8, AtIs DEF lock, unlock
  <2>2. toStack(i, moved(i, goOn(i))) BY <1>8 DEF lock, unlock
  <2>3. after(goOn(i)) BY <1>2, <2>1
  <2>4. ownLocks(i)
    <3> DEFINE m == ins(at(i)).l
    <3>1. \/ owners' = [l \in DOMAIN owners \cup {m} |-> IF l = m THEN i ELSE owners[l]]
          \/ owners' = IF m \in DOMAIN owners /\ owners[m] = i
                       THEN [k \in DOMAIN owners \ {m} |-> owners[k]] ELSE owners
      BY <1>8 DEF lock, unlock
    <3> HIDE DEF m
    <3> QED BY <3>1 DEF ownLocks
  <2> QED BY <1>8, <2>1, <2>2, <2>3, <2>4
<1> QED BY <1>3, <1>4, <1>5, <1>6, <1>7, <1>8

\* into a function
entered(i) == Append(moved(i, goOn(i)), frame(ins(at(i)).fun))

LEMMA CalledIs ==
  ASSUME prog \in Programs, Runs, NEW i \in DOMAIN running, isAt(i, "call")
  PROVE  /\ at(i) \in Insts /\ ins(at(i)).fun \in Funs
         /\ entered(i) \in Seq(Frame) /\ chained(entered(i))
         /\ Len(running[i].stack) \in Nat \ {0} /\ Len(entered(i)) = Len(running[i].stack) + 1
         /\ entered(i)[Len(running[i].stack) + 1] = frame(ins(at(i)).fun)
         /\ entered(i)[Len(running[i].stack)].at = behind(at(i))
         /\ \A k \in 1 .. Len(running[i].stack) - 1 : entered(i)[k] = running[i].stack[k]
<1> DEFINE g == ins(at(i)).fun
           s == running[i].stack
           t == entered(i)
           u == moved(i, goOn(i))
<1>1. s # <<>> /\ ins(at(i)).op = "call" BY AtIs
<1>2. at(i) \in Insts /\ g \in Funs /\ Len(s) \in Nat /\ Len(s) >= 1 BY <1>1, TopIs, InstHas
<1>3. goOn(i) \in Frame /\ goOn(i).at = behind(at(i)) /\ goOn(i).at[1] = at(i)[1] BY <1>1, FramesAre
<1>4. /\ u \in Seq(Frame) /\ Len(u) = Len(s) /\ u[Len(s)] = goOn(i)
      /\ \A k \in 1 .. Len(u) - 1 : u[k] = s[k]
      /\ \A k \in 1 .. Len(u) - 1 : behindCall(u[k + 1].at[1], u[k].at)
  BY <1>1, <1>3, MovedIs
<1>5. frame(g) \in Frame /\ frame(g).at[1] = g BY <1>2, FrameIs
<1>6. behindCall(g, behind(at(i))) BY <1>1, <1>2 DEF behindCall
<1>7. t = Append(u, frame(g)) BY DEF entered
<1> HIDE DEF s, t, u, g
<1>8. /\ t \in Seq(Frame) /\ Len(t) = Len(s) + 1 /\ t[Len(s) + 1] = frame(g)
      /\ \A k \in 1 .. Len(s) : t[k] = u[k]
  BY <1>4, <1>5, <1>7
<1>9. t[Len(s)].at = behind(at(i)) BY <1>2, <1>3, <1>4, <1>8
<1>10. ASSUME NEW k \in 1 .. Len(t) - 1 PROVE behindCall(t[k + 1].at[1], t[k].at)
  <2>1. CASE k = Len(s)
    <3>1. t[k + 1].at[1] = g /\ t[k].at = behind(at(i)) BY <1>5, <1>8, <1>9, <2>1
    <3> QED BY <1>6, <3>1
  <2>2. CASE k # Len(s)
    <3>1. k \in 1 .. Len(u) - 1 /\ k \in 1 .. Len(s) /\ k + 1 \in 1 .. Len(s) BY <1>2, <1>4, <1>8, <2>2
    <3>2. t[k] = u[k] /\ t[k + 1] = u[k + 1] BY <1>8, <3>1
    <3> QED BY <1>4, <3>1, <3>2
  <2> QED BY <2>1, <2>2
<1>11. \A k \in 1 .. Len(s) - 1 : t[k] = s[k] BY <1>2, <1>4, <1>8
<1>12. chained(t) BY <1>10 DEF chained
<1>13. Len(s) \in Nat \ {0} BY <1>2
<1> QED BY <1>2, <1>8, <1>9, <1>11, <1>12, <1>13 DEF g, s, t

\* and back
LEMMA ReturnedIs ==
  ASSUME Runs, NEW i \in DOMAIN running, running[i].stack # <<>>
  PROVE  /\ Front(running[i].stack) \in Seq(Frame) /\ chained(Front(running[i].stack)) /\ chained(running[i].stack)
         /\ Len(running[i].stack) \in Nat \ {0} /\ Len(Front(running[i].stack)) = Len(running[i].stack) - 1
         /\ \A k \in 1 .. Len(running[i].stack) - 1 : Front(running[i].stack)[k] = running[i].stack[k]
<1> DEFINE s == running[i].stack
           t == Front(s)
<1>1. /\ Len(s) \in Nat /\ Len(s) >= 1 /\ t \in Seq(Frame) /\ Len(t) = Len(s) - 1
      /\ \A k \in 1 .. Len(s) - 1 : t[k] = s[k]
  BY TopIs
<1>2. chained(s) BY DEF Runs, chained
<1> HIDE DEF s, t
<1>3. ASSUME NEW k \in 1 .. Len(t) - 1 PROVE behindCall(t[k + 1].at[1], t[k].at)
  <2>1. k \in 1 .. Len(s) - 1 /\ k + 1 \in 1 .. Len(s) - 1 BY <1>1
  <2> QED BY <1>1, <1>2, <2>1 DEF chained
<1>4. chained(t) BY <1>3 DEF chained
<1>5. Len(s) \in Nat \ {0} BY <1>1
<1> QED BY <1>1, <1>2, <1>4, <1>5 DEF s, t

child(i) == [path   |-> running[i].path \o callSites(i) \o <<at(i)>>, parent |-> i,
             stack  |-> <<frame(ins(at(i)).fun)>>]

LEMMA ForkedIs ==
  ASSUME prog \in Programs, Runs, prog' = prog, pass' = pass, NEW i \in DOMAIN running, fork(i)
  PROVE  /\ Runs' /\ owners' = owners
         /\ Len(running) \in Nat /\ DOMAIN running = 1 .. Len(running)
         /\ DOMAIN running' = DOMAIN running \cup {Len(running) + 1}
         /\ running[i].stack # <<>> /\ ins(at(i)).op = "fork" /\ at(i) \in Insts
         /\ goOn(i) \in Frame /\ goOn(i).at = behind(at(i)) /\ goOn(i).at[1] = at(i)[1]
         /\ child(i) \in Instance /\ running'[Len(running) + 1] = child(i)
         /\ chained(moved(i, goOn(i))) /\ running'[i] = [running[i] EXCEPT !.stack = moved(i, goOn(i))]
         /\ running'[i].stack = moved(i, goOn(i))
         /\ \A j \in DOMAIN running : /\ j # i => running'[j] = running[j]
                                      /\ running'[j].path = running[j].path
                                      /\ running'[j].parent = running[j].parent
<1> DEFINE s == moved(i, goOn(i))
           N == Len(running)
<1>1. running[i].stack # <<>> /\ ins(at(i)).op = "fork" BY AtIs DEF fork
<1>2. at(i) \in Insts /\ ins(at(i)).fun \in Funs BY <1>1, TopIs, InstHas
<1> DEFINE new == child(i)
           old == [running[i] EXCEPT !.stack = s]
           r   == [running EXCEPT ![i] = old]
<1>3. running' = Append(r, new) /\ UNCHANGED owners BY DEF fork, child
<1>4. goOn(i) \in Frame /\ goOn(i).at = behind(at(i)) /\ goOn(i).at[1] = at(i)[1] BY <1>1, FramesAre
<1>5. s \in Seq(Frame) /\ s # <<>> /\ s[Len(s)] = goOn(i) /\ chained(s) BY <1>1, <1>4, MovedIs DEF chained
<1> HIDE DEF s
<1>6. running \in Seq(Instance) /\ DOMAIN running = 1 .. N /\ N \in Nat /\ running[i] \in Instance
  BY StackAt DEF Runs
<1>7. new \in Instance /\ Len(new.stack) = 1
  <2>1. i \in Nat BY <1>6
  <2>2. running[i].path \o callSites(i) \o <<at(i)>> \in Seq(Funs \X Int) BY <1>1, PathIs
  <2>3. frame(ins(at(i)).fun) \in Frame BY <1>2, FrameIs
  <2>4. <<frame(ins(at(i)).fun)>> \in Seq(Frame) BY <2>3
  <2> QED BY <2>1, <2>2, <2>4 DEF Instance, child
<1>8. /\ old \in Instance /\ old.stack = s
      /\ old.path = running[i].path /\ old.parent = running[i].parent
  BY <1>5, <1>6 DEF Instance
<1> HIDE DEF new, old, N
<1>9. /\ running' \in Seq(Instance) /\ DOMAIN running' = 1 .. N + 1
      /\ running'[N + 1] = new /\ running'[i] = old
      /\ \A j \in 1 .. N : j # i => running'[j] = running[j]
  <2>1. r \in Seq(Instance) /\ Len(r) = N /\ r[i] = old /\ \A j \in 1 .. N : j # i => r[j] = running[j]
    BY <1>6, <1>8
  <2> HIDE DEF r
  <2>2. /\ Append(r, new) \in Seq(Instance) /\ Len(Append(r, new)) = N + 1
        /\ Append(r, new)[N + 1] = new /\ \A j \in 1 .. N : Append(r, new)[j] = r[j]
    BY <1>6, <1>7, <2>1
  <2>3. DOMAIN Append(r, new) = 1 .. N + 1 BY <2>2
  <2> QED BY <1>3, <1>6, <2>1, <2>2, <2>3
<1> HIDE DEF r
<1>10. DOMAIN running' = DOMAIN running \cup {N + 1} BY <1>6, <1>9
<1>11. ASSUME NEW j \in DOMAIN running', NEW k \in 1 .. Len(running'[j].stack) - 1
       PROVE  behindCall(running'[j].stack[k + 1].at[1], running'[j].stack[k].at)
  <2>1. CASE j = i BY <1>5, <1>8, <1>9, <1>11, <2>1 DEF chained
  <2>2. CASE j = N + 1
    <3>1. Len(running'[j].stack) = 1 BY <1>7, <1>9, <2>2
    <3>2. 1 .. 1 - 1 = {} OBVIOUS
    <3> QED BY <1>11, <3>1, <3>2
  <2>3. CASE j # i /\ j \in DOMAIN running
    <3>1. running'[j] = running[j] BY <1>6, <1>9, <2>3
    <3>2. behindCall(running[j].stack[k + 1].at[1], running[j].stack[k].at) BY <1>11, <2>3, <3>1 DEF Runs
    <3> QED BY <3>1, <3>2
  <2> QED BY <1>10, <1>11, <2>1, <2>2, <2>3
<1>12. \A l \in DOMAIN owners' : owners'[l] \in DOMAIN running' BY <1>3, <1>10 DEF Runs
<1>13. running' # <<>> => pass' = "run" BY <1>6 DEF Runs
<1>14. Runs' BY <1>9, <1>11, <1>12, <1>13, SameInsts DEF Runs
<1> QED BY <1>1, <1>2, <1>3, <1>4, <1>5, <1>6, <1>7, <1>8, <1>9, <1>10, <1>14 DEF old, new, s, N

first0 == [path |-> <<>>, parent |-> 0, stack |-> <<frame(Main)>>]

LEMMA StartedIs ==
  ASSUME prog \in Programs, Runs, prog' = prog, pass' = pass, start
  PROVE  /\ Runs' /\ pass = "run" /\ owners' = owners /\ DOMAIN owners = {}
         /\ DOMAIN running' = {1} /\ running'[1] = first0
<1>1. pass = "run" /\ running = <<>> /\ running' = <<first0>> /\ UNCHANGED owners BY DEF start, first0
<1>2. first0 \in Instance /\ Len(first0.stack) = 1
  <2>1. frame(Main) \in Frame BY ProgramIs, FrameIs
  <2>2. <<frame(Main)>> \in Seq(Frame) BY <2>1
  <2>3. <<>> \in Seq(Funs \X Int) OBVIOUS
  <2> QED BY <2>2, <2>3 DEF Instance, first0
<1>3. running' \in Seq(Instance) /\ DOMAIN running' = {1} /\ running'[1] = first0 BY <1>1, <1>2
<1>4. DOMAIN owners = {}
  <2>1. DOMAIN running = {} BY <1>1
  <2> QED BY <2>1 DEF Runs
<1>5. ASSUME NEW j \in DOMAIN running', NEW k \in 1 .. Len(running'[j].stack) - 1 PROVE FALSE
  <2>1. Len(running'[j].stack) = 1 BY <1>2, <1>3
  <2>2. 1 .. 1 - 1 = {} OBVIOUS
  <2> QED BY <1>5, <2>1, <2>2
<1>6. Runs' BY <1>1, <1>3, <1>4, <1>5, SameInsts DEF Runs
<1> QED BY <1>1, <1>3, <1>4, <1>6


-----------------------------------------------------------------------------
(* A site outside of loops is passed once: programs go back only to the     *)
(* header of a loop around them.                                            *)

Sites == withOp({"call", "fork"})

looped(path) == \E k \in 1 .. Len(path) : loopsAt(path[k]) # {}

\* a stack has left behind the chain of sites that a path has after the first b
Passed(path, b, stack) ==
  \/ stack = <<>>
  \/ \E k \in 1 .. Len(stack) :
       /\ b + k <= Len(path)
       /\ \A l \in 1 .. k - 1 : path[b + l] = <<stack[l].at[1], stack[l].at[2] - 1>>
       /\ path[b + k][1] = stack[k].at[1]
       /\ path[b + k][2] < IF k < Len(stack) THEN stack[k].at[2] - 1 ELSE stack[k].at[2]

LEMMA JumpsOn ==
  ASSUME prog \in Programs, NEW n \in Insts, NEW w \in ToSet(succs(n)),
         NEW m \in Insts, m[1] = n[1], m[2] < n[2], loopsAt(m) = {}
  PROVE  w[1] = n[1] /\ m[2] < w[2]
<1>1. w \in Insts /\ w[1] = n[1] BY SuccessorsIn
<1>2. n[2] \in Nat /\ m[2] \in Nat BY InstIs
<1>3. w \in {behind(n), target(n)} BY SuccessorsAre
<1>4. CASE w = behind(n) BY <1>1, <1>2, <1>4 DEF behind
<1>5. CASE w = target(n) /\ w # behind(n)
  <2> DEFINE code == prog.body[n[1]]
             to(k) == k + code[k].by
  <2>1. ins(n).op \in {"goto", "br", "head"} BY <1>5, SuccessorsAre
  <2>2. n[1] \in DOMAIN prog.body /\ n[2] \in DOMAIN code /\ ins(n) = code[n[2]]
    BY InstIs, ProgramIs DEF Funs, ins
  <2>3. to(n[2]) \in Nat /\ w[2] = to(n[2])
    <3>1. n[2] + ins(n).by \in 1 .. Len(prog.body[n[1]]) /\ Len(prog.body[n[1]]) \in Nat BY <2>1, InstHas, InstIs
    <3> QED BY <1>5, <2>2, <3>1 DEF target
  <2>4. /\ code[n[2]].op = "head" => to(n[2]) > n[2]
        /\ code[n[2]].op \in {"goto", "br"} /\ to(n[2]) <= n[2] =>
             code[to(n[2])].op = "head" /\ n[2] < to(to(n[2]))
    BY <2>2, LoopsAssumption
  <2> HIDE DEF to
  <2>5. CASE to(n[2]) > n[2] BY <1>1, <1>2, <2>3, <2>5
  <2>6. CASE to(n[2]) <= n[2]
    <3>1. code[to(n[2])].op = "head" /\ n[2] < to(to(n[2])) BY <1>2, <2>1, <2>2, <2>3, <2>4, <2>6
    <3>2. ins(w) = code[w[2]] /\ ins(w).op = "head" BY <1>1, <2>3, <3>1 DEF ins
    <3>3. w \in withOp({"head"}) BY <1>1, <3>2 DEF withOp
    <3>4. w[2] + ins(w).by \in Nat /\ n[2] < w[2] + ins(w).by
      <4>1. w[2] + ins(w).by \in 1 .. Len(prog.body[w[1]]) /\ Len(prog.body[w[1]]) \in Nat
        BY <1>1, <3>2, InstHas, InstIs
      <4>2. to(to(n[2])) = w[2] + ins(w).by BY <2>3, <3>2 DEF to
      <4> QED BY <3>1, <4>1, <4>2
    <3>5. ~ contains(w, m) BY <3>3 DEF loopsAt
    <3>6. ~ (w[2] <= m[2])
      <4> SUFFICES ASSUME w[2] <= m[2] PROVE FALSE OBVIOUS
      <4>1. m[2] < w[2] + ins(w).by BY <1>2, <3>4
      <4> QED BY <1>1, <3>5, <4>1 DEF contains
    <3>7. w[2] \in Nat BY <1>1, InstIs
    <3> QED BY <1>1, <1>2, <3>6, <3>7
  <2> QED BY <1>2, <2>3, <2>5, <2>6
<1> QED BY <1>3, <1>4, <1>5

LEMMA FramesAt ==
  ASSUME prog \in Programs, NEW s \in Seq(Frame), NEW k \in 1 .. Len(s)
  PROVE  s[k].at \in Insts /\ s[k].at[2] \in Nat /\ s[k].at = <<s[k].at[1], s[k].at[2]>> /\ Len(s) \in Nat
<1>1. s[k] \in Frame /\ Len(s) \in Nat BY ElementOfSeq
<1>2. s[k].at \in Insts BY <1>1 DEF Frame
<1> QED BY <1>1, <1>2, InstIs

LEMMA SitesAt ==
  ASSUME prog \in Programs, NEW path \in Seq(Sites), NEW k \in 1 .. Len(path)
  PROVE  /\ path[k] \in Insts /\ path[k][2] \in Nat /\ path[k] = <<path[k][1], path[k][2]>> /\ Len(path) \in Nat
         /\ ~ looped(path) => loopsAt(path[k]) = {}
<1>1. path[k] \in Sites /\ Len(path) \in Nat BY ElementOfSeq
<1>2. path[k] \in Insts BY <1>1 DEF Sites, withOp
<1>3. path[k][2] \in Nat /\ path[k] = <<path[k][1], path[k][2]>> BY <1>2, InstIs
<1>4. ~ looped(path) => loopsAt(path[k]) = {} BY DEF looped
<1> QED BY <1>1, <1>2, <1>3, <1>4

\* a stack goes on from s to t
GoesOn(s, t) ==
  /\ t # <<>> => s # <<>> /\ t[1].at[1] = s[1].at[1]
  /\ \A path \in Seq(Sites), b \in Nat : ~ looped(path) /\ Passed(path, b, s) => Passed(path, b, t)

LEMMA GoesWithin ==
  ASSUME prog \in Programs, NEW s \in Seq(Frame), NEW t \in Seq(Frame), s # <<>>, Len(t) = Len(s),
         \A k \in 1 .. Len(s) - 1 : t[k] = s[k],
         t[Len(s)].at \in ToSet(succs(s[Len(s)].at))
  PROVE  GoesOn(s, t)
<1> DEFINE d == Len(s)
<1>1. d \in Nat /\ d >= 1 /\ d \in 1 .. d /\ d \in 1 .. Len(t) OBVIOUS
<1>2. s[d].at \in Insts /\ t[d].at \in Insts /\ s[d].at[2] \in Nat BY <1>1, FramesAt
<1>3. t[d].at[1] = s[d].at[1] BY <1>2, SuccessorsIn
<1>4. t[1].at[1] = s[1].at[1]
  <2>1. CASE d = 1 BY <1>3, <2>1
  <2>2. CASE d # 1
    <3>1. 1 \in 1 .. Len(s) - 1 BY <1>1, <2>2
    <3> QED BY <3>1
  <2> QED BY <2>1, <2>2
<1>5. ASSUME NEW path \in Seq(Sites), NEW b \in Nat, ~ looped(path), Passed(path, b, s)
      PROVE  Passed(path, b, t)
  <2>1. PICK k \in 1 .. d :
          /\ b + k <= Len(path)
          /\ \A l \in 1 .. k - 1 : path[b + l] = <<s[l].at[1], s[l].at[2] - 1>>
          /\ path[b + k][1] = s[k].at[1]
          /\ path[b + k][2] < IF k < d THEN s[k].at[2] - 1 ELSE s[k].at[2]
    BY <1>5 DEF Passed
  <2>2. Len(path) \in Nat OBVIOUS
  <2>3. b + k \in 1 .. Len(path) /\ k \in 1 .. Len(t) BY <1>1, <2>1, <2>2
  <2>4. \A l \in 1 .. k - 1 : l \in 1 .. Len(s) - 1 BY <1>1
  <2>5. \A l \in 1 .. k - 1 : path[b + l] = <<t[l].at[1], t[l].at[2] - 1>> BY <2>1, <2>4
  <2>6. path[b + k][1] = t[k].at[1] /\ path[b + k][2] < IF k < d THEN t[k].at[2] - 1 ELSE t[k].at[2]
    <3>1. CASE k < d
      <4>1. k \in 1 .. Len(s) - 1 BY <1>1, <3>1
      <4> QED BY <2>1, <3>1, <4>1
    <3>2. CASE k = d
      <4>1. path[b + k] \in Insts /\ loopsAt(path[b + k]) = {} BY <1>5, <2>3, SitesAt
      <4>2. path[b + k][1] = s[d].at[1] /\ path[b + k][2] < s[d].at[2] BY <2>1, <3>2
      <4>3. path[b + k][2] < t[d].at[2] BY <1>2, <4>1, <4>2, JumpsOn
      <4> QED BY <1>3, <3>2, <4>2, <4>3
    <3> QED BY <1>1, <3>1, <3>2
  <2> QED BY <2>1, <2>3, <2>5, <2>6 DEF Passed
<1> QED BY <1>4, <1>5 DEF GoesOn

LEMMA GoesInto ==
  ASSUME prog \in Programs, NEW s \in Seq(Frame), NEW t \in Seq(Frame), s # <<>>, Len(t) = Len(s) + 1,
         \A k \in 1 .. Len(s) - 1 : t[k] = s[k],
         t[Len(s)].at = behind(s[Len(s)].at)
  PROVE  GoesOn(s, t)
<1> DEFINE d == Len(s)
<1>1. d \in Nat /\ d >= 1 /\ d \in 1 .. d /\ d \in 1 .. Len(t) OBVIOUS
<1>2. s[d].at \in Insts /\ s[d].at[2] \in Nat BY <1>1, FramesAt
<1>3. t[d].at[1] = s[d].at[1] /\ t[d].at[2] - 1 = s[d].at[2] BY <1>2 DEF behind
<1>4. t[1].at[1] = s[1].at[1]
  <2>1. CASE d = 1 BY <1>3, <2>1
  <2>2. CASE d # 1
    <3>1. \A x \in Nat : x >= 1 /\ x # 1 => 1 \in 1 .. x - 1 OBVIOUS
    <3>2. 1 \in 1 .. Len(s) - 1 BY <1>1, <2>2, <3>1
    <3> QED BY <3>2
  <2> QED BY <2>1, <2>2
<1>5. ASSUME NEW path \in Seq(Sites), NEW b \in Nat, ~ looped(path), Passed(path, b, s)
      PROVE  Passed(path, b, t)
  <2>1. PICK k \in 1 .. d :
          /\ b + k <= Len(path)
          /\ \A l \in 1 .. k - 1 : path[b + l] = <<s[l].at[1], s[l].at[2] - 1>>
          /\ path[b + k][1] = s[k].at[1]
          /\ path[b + k][2] < IF k < d THEN s[k].at[2] - 1 ELSE s[k].at[2]
    BY <1>5 DEF Passed
  <2>2. k \in 1 .. Len(t) /\ k < Len(t) BY <1>1
  <2>3. \A l \in 1 .. k - 1 : l \in 1 .. Len(s) - 1 BY <1>1
  <2>4. \A l \in 1 .. k - 1 : path[b + l] = <<t[l].at[1], t[l].at[2] - 1>> BY <2>1, <2>3
  <2>5. path[b + k][1] = t[k].at[1] /\ path[b + k][2] < t[k].at[2] - 1
    <3>1. CASE k < d
      <4>1. k \in 1 .. Len(s) - 1 BY <1>1, <3>1
      <4> QED BY <2>1, <3>1, <4>1
    <3>2. CASE k = d BY <1>3, <2>1, <3>2
    <3> QED BY <1>1, <3>1, <3>2
  <2> QED BY <2>1, <2>2, <2>4, <2>5 DEF Passed
<1> QED BY <1>4, <1>5 DEF GoesOn

LEMMA GoesBack ==
  ASSUME prog \in Programs, NEW s \in Seq(Frame), NEW t \in Seq(Frame), s # <<>>, Len(t) = Len(s) - 1,
         \A k \in 1 .. Len(s) - 1 : t[k] = s[k]
  PROVE  GoesOn(s, t)
<1> DEFINE d == Len(s)
<1>1. d \in Nat /\ d >= 1 OBVIOUS
<1>2. t # <<>> => t[1].at[1] = s[1].at[1]
  <2>1. t # <<>> => Len(t) # 0 OBVIOUS
  <2>2. t # <<>> => 1 \in 1 .. Len(s) - 1 BY <1>1, <2>1
  <2> QED BY <2>2
<1>3. ASSUME NEW path \in Seq(Sites), NEW b \in Nat, ~ looped(path), Passed(path, b, s), t # <<>>
      PROVE  Passed(path, b, t)
  <2>1. PICK k \in 1 .. d :
          /\ b + k <= Len(path)
          /\ \A l \in 1 .. k - 1 : path[b + l] = <<s[l].at[1], s[l].at[2] - 1>>
          /\ path[b + k][1] = s[k].at[1]
          /\ path[b + k][2] < IF k < d THEN s[k].at[2] - 1 ELSE s[k].at[2]
    BY <1>3 DEF Passed
  <2>2. \A l \in 1 .. k - 1 : l \in 1 .. Len(s) - 1 BY <1>1
  <2>3. \A l \in 1 .. k - 1 : path[b + l] = <<t[l].at[1], t[l].at[2] - 1>> BY <2>1, <2>2
  <2>4. Len(t) # 0 BY <1>3
  <2>5. Len(path) \in Nat OBVIOUS
  <2>6. CASE k < d
    <3>1. k \in 1 .. Len(s) - 1 /\ k \in 1 .. Len(t) /\ b + k \in 1 .. Len(path) BY <1>1, <2>1, <2>5, <2>6
    <3>2. path[b + k][2] \in Nat /\ s[k].at[2] \in Nat BY <3>1, SitesAt, FramesAt
    <3>3. path[b + k][1] = t[k].at[1] /\ path[b + k][2] < t[k].at[2] - 1 /\ t[k].at[2] \in Nat
      BY <2>1, <2>6, <3>1, <3>2
    <3>4. path[b + k][2] < t[k].at[2] BY <3>2, <3>3
    <3>5. path[b + k][2] < IF k < Len(t) THEN t[k].at[2] - 1 ELSE t[k].at[2] BY <3>3, <3>4
    <3> QED BY <2>1, <2>3, <3>1, <3>3, <3>5 DEF Passed
  <2>7. CASE k = d
    <3> DEFINE j == d - 1
    <3>1. j \in 1 .. k - 1 /\ j \in 1 .. Len(t) /\ j = Len(t) /\ j \in 1 .. Len(s) - 1 /\ b + j <= Len(path)
      BY <1>1, <2>1, <2>4, <2>5, <2>7
    <3>2. path[b + j] = <<t[j].at[1], t[j].at[2] - 1>> BY <2>3, <3>1
    <3>3. t[j].at[2] \in Nat BY <3>1, FramesAt
    <3>4. path[b + j][1] = t[j].at[1] /\ path[b + j][2] < t[j].at[2] BY <3>2, <3>3
    <3>5. \A l \in 1 .. j - 1 : l \in 1 .. k - 1 BY <1>1, <3>1
    <3> HIDE DEF j
    <3>6. path[b + j][2] < IF j < Len(t) THEN t[j].at[2] - 1 ELSE t[j].at[2] BY <3>1, <3>4
    <3> QED BY <2>3, <3>1, <3>4, <3>5, <3>6 DEF Passed
  <2> QED BY <1>1, <2>6, <2>7
<1>4. ASSUME NEW path \in Seq(Sites), NEW b \in Nat, ~ looped(path), Passed(path, b, s)
      PROVE  Passed(path, b, t)
  <2>1. CASE t = <<>> BY <2>1 DEF Passed
  <2>2. CASE t # <<>> BY <1>3, <1>4, <2>2
  <2> QED BY <2>1, <2>2
<1> QED BY <1>2, <1>4 DEF GoesOn

\* the chain of sites a stack is at is none that it has left behind
LEMMA NotPassed ==
  ASSUME prog \in Programs, NEW s \in Seq(Frame), s # <<>>, NEW path \in Seq(Sites), NEW b \in Nat,
         Len(path) = b + Len(s),
         \A l \in 1 .. Len(s) - 1 : path[b + l] = <<s[l].at[1], s[l].at[2] - 1>>,
         path[b + Len(s)] = s[Len(s)].at
  PROVE  ~ Passed(path, b, s)
<1> SUFFICES ASSUME Passed(path, b, s) PROVE FALSE OBVIOUS
<1> DEFINE d == Len(s)
<1>1. d \in Nat OBVIOUS
<1>2. PICK k \in 1 .. d : path[b + k][2] < IF k < d THEN s[k].at[2] - 1 ELSE s[k].at[2] BY DEF Passed
<1>3. s[k].at[2] \in Nat BY FramesAt
<1>4. CASE k < d
  <2>1. k \in 1 .. Len(s) - 1 BY <1>1, <1>4
  <2>2. path[b + k][2] = s[k].at[2] - 1 BY <2>1
  <2> QED BY <1>2, <1>3, <1>4, <2>2
<1>5. CASE k = d BY <1>2, <1>3, <1>5
<1> QED BY <1>1, <1>4, <1>5


\* each site of a path leads to the function of the next
Leads(path) ==
  /\ path \in Seq(Sites)
  /\ \A k \in 1 .. Len(path) - 1 : ins(path[k]).fun = path[k + 1][1]

\* a path is that of the parent, calls from there on, and a fork
ForkedOn(path, base) ==
  /\ Len(base) < Len(path)
  /\ \A k \in 1 .. Len(base) : path[k] = base[k]
  /\ \A k \in Len(base) + 1 .. Len(path) - 1 : ins(path[k]).op = "call"
  /\ ins(path[Len(path)]).op = "fork"

Child(rs, i) ==
  LET p == rs[i].parent
  IN /\ p \in DOMAIN rs
     /\ ForkedOn(rs[i].path, rs[p].path)
     /\ rs[i].stack # <<>> => ins(rs[i].path[Len(rs[i].path)]).fun = rs[i].stack[1].at[1]
     /\ ~ looped(rs[i].path) => Passed(rs[i].path, Len(rs[p].path), rs[p].stack)

\* no two instances have come the same way, where it leads over no loop
Once ==
  /\ running # <<>> => running[1].path = <<>> /\ running[1].parent = 0
  /\ \A i \in DOMAIN running : Leads(running[i].path)
  /\ \A i \in DOMAIN running \ {1} : Child(running, i)
  /\ \A i, j \in DOMAIN running : running[i].path = running[j].path /\ ~ looped(running[i].path) => i = j

LEMMA SameLoops ==
  ASSUME prog' = prog
  PROVE  /\ Sites' = Sites /\ \A n : loopsAt(n)' = loopsAt(n)
         /\ \A path : (looped(path)' <=> looped(path)) /\ (Leads(path)' <=> Leads(path))
         /\ \A path, b, s : Passed(path, b, s)' <=> Passed(path, b, s)
         /\ \A path, base : ForkedOn(path, base)' <=> ForkedOn(path, base)
         /\ \A rs, i : Child(rs, i)' <=> Child(rs, i)
<1>1. Insts' = Insts /\ \A n : ins(n)' = ins(n) BY SameInsts
<1>2. Sites' = Sites /\ withOp({"head"})' = withOp({"head"}) BY <1>1 DEF Sites, withOp
<1>3. \A h, n : contains(h, n)' <=> contains(h, n) BY <1>1 DEF contains
<1>4. \A n : loopsAt(n)' = loopsAt(n) BY <1>2, <1>3 DEF loopsAt
<1>5. \A path : looped(path)' <=> looped(path) BY <1>4 DEF looped
<1>6. \A path : Leads(path)' <=> Leads(path) BY <1>1, <1>2 DEF Leads
<1>7. \A path, b, s : Passed(path, b, s)' <=> Passed(path, b, s) BY DEF Passed
<1>8. \A path, base : ForkedOn(path, base)' <=> ForkedOn(path, base) BY <1>1 DEF ForkedOn
<1>9. \A rs, i : Child(rs, i)' <=> Child(rs, i) BY <1>1, <1>5, <1>7, <1>8 DEF Child
<1> QED BY <1>2, <1>4, <1>5, <1>6, <1>7, <1>8, <1>9

\* Where stacks go on an instance stays a child of its parent.
LEMMA ChildStays ==
  ASSUME NEW rs, NEW qs, NEW i \in DOMAIN rs, DOMAIN rs \subseteq DOMAIN qs,
         \A j \in DOMAIN rs : /\ qs[j].path = rs[j].path /\ qs[j].parent = rs[j].parent
                              /\ GoesOn(rs[j].stack, qs[j].stack),
         Child(rs, i), rs[i].path \in Seq(Sites), \A j \in DOMAIN rs : Len(rs[j].path) \in Nat
  PROVE  Child(qs, i)
<1> DEFINE p == rs[i].parent
<1>1. p \in DOMAIN rs /\ qs[i].parent = p /\ qs[i].path = rs[i].path /\ qs[p].path = rs[p].path BY DEF Child
<1>2. ForkedOn(qs[i].path, qs[p].path) BY <1>1 DEF Child
<1>3. qs[i].stack # <<>> => ins(qs[i].path[Len(qs[i].path)]).fun = qs[i].stack[1].at[1]
  BY <1>1 DEF Child, GoesOn
<1>4. ~ looped(qs[i].path) => Passed(qs[i].path, Len(qs[p].path), qs[p].stack)
  BY <1>1 DEF Child, GoesOn
<1> QED BY <1>1, <1>2, <1>3, <1>4 DEF Child

\* the way over the stack of an instance
LEMMA OnPath ==
  ASSUME prog \in Programs, Runs, Once, NEW i \in DOMAIN running, running[i].stack # <<>>,
         ins(at(i)).op \in {"call", "fork"}
  PROVE  LET p == running[i].path
             s == running[i].stack
             q == p \o callSites(i) \o <<at(i)>>
         IN /\ Len(p) \in Nat /\ Len(s) \in Nat \ {0} /\ Len(q) = Len(p) + Len(s)
            /\ \A k \in 1 .. Len(p) : q[k] = p[k]
            /\ \A l \in 1 .. Len(s) - 1 : q[Len(p) + l] = <<s[l].at[1], s[l].at[2] - 1>>
            /\ q[Len(p) + Len(s)] = at(i) /\ at(i) = s[Len(s)].at
            /\ \A l \in Len(p) + 1 .. Len(q) - 1 : ins(q[l]).op = "call"
            /\ Leads(q)
<1> DEFINE p == running[i].path
           s == running[i].stack
           c == callSites(i)
           q == p \o c \o <<at(i)>>
           d == Len(s)
           b == Len(p)
<1>1. /\ s \in Seq(Frame) /\ d \in Nat /\ d >= 1 /\ at(i) = s[d].at /\ at(i) \in Insts
      /\ Front(s) \in Seq(Frame) /\ Len(Front(s)) = d - 1 /\ \A k \in 1 .. d - 1 : Front(s)[k] = s[k]
  BY StackAt, TopIs
<1>2. p \in Seq(Funs \X Int) /\ c \in Seq(Funs \X Int) /\ at(i) \in Funs \X Int /\ b \in Nat BY PathIs
<1>3. Len(c) = d - 1 /\ \A l \in 1 .. d - 1 : c[l] = <<s[l].at[1], s[l].at[2] - 1>>
  <2>1. c = [k \in DOMAIN Front(s) |-> <<Front(s)[k].at[1], Front(s)[k].at[2] - 1>>] BY DEF callSites
  <2>2. DOMAIN Front(s) = 1 .. d - 1 BY <1>1
  <2>3. \A l \in 1 .. d - 1 : c[l] = <<s[l].at[1], s[l].at[2] - 1>> BY <1>1, <2>1, <2>2
  <2>4. DOMAIN c = 1 .. d - 1 BY <2>1, <2>2
  <2> HIDE DEF c, d
  <2>5. Len(c) = d - 1 BY <1>1, <1>2, <2>4
  <2> QED BY <2>3, <2>5
<1>4. \A k \in 1 .. d - 1 : behindCall(s[k + 1].at[1], s[k].at) BY DEF Runs
<1>5. Leads(p) /\ (i # 1 => Child(running, i)) /\ (i = 1 => p = <<>>)
  <2>1. running # <<>> BY StackAt
  <2> QED BY <2>1 DEF Once
<1> HIDE DEF p, s, c, q, d, b
<1>6. /\ Len(q) = b + d /\ \A k \in 1 .. b : q[k] = p[k]
      /\ \A l \in 1 .. d - 1 : q[b + l] = c[l]
      /\ q[b + d] = at(i)
  <2>1. /\ p \o c \in Seq(Funs \X Int) /\ Len(p \o c) = b + d - 1
        /\ \A k \in 1 .. b : (p \o c)[k] = p[k]
        /\ \A l \in 1 .. d - 1 : (p \o c)[b + l] = c[l]
    <3>1. /\ p \o c \in Seq(Funs \X Int) /\ Len(p \o c) = Len(p) + Len(c)
          /\ \A k \in 1 .. Len(p) + Len(c) : (p \o c)[k] = IF k <= Len(p) THEN p[k] ELSE c[k - Len(p)]
      BY <1>2, ConcatProperties, Zenon
    <3>2. Len(p) = b /\ Len(c) = d - 1 BY <1>3 DEF b
    <3>3. \A k \in 1 .. b : k \in 1 .. Len(p) + Len(c) /\ k <= Len(p) BY <1>1, <1>2, <3>2
    <3>4. \A l \in 1 .. d - 1 : b + l \in 1 .. Len(p) + Len(c) /\ ~ (b + l <= Len(p)) /\ b + l - Len(p) = l
      BY <1>1, <1>2, <3>2
    <3> HIDE DEF b
    <3> QED BY <1>1, <1>2, <3>1, <3>2, <3>3, <3>4
  <2> DEFINE e == p \o c
  <2>2. q = e \o <<at(i)>> BY DEF q
  <2> HIDE DEF e
  <2>3. e \in Seq(Funs \X Int) /\ Len(e) = b + d - 1 BY <2>1 DEF e
  <2>4. Len(q) = Len(e) + 1 /\ (\A k \in 1 .. Len(e) : q[k] = e[k]) /\ q[Len(e) + 1] = at(i)
    BY <1>2, <2>2, <2>3
  <2>5. Len(e) + 1 = b + d BY <1>1, <1>2, <2>3
  <2>6. \A k \in 1 .. b : q[k] = p[k]
    <3>1. \A k \in 1 .. b : k \in 1 .. Len(e) BY <1>1, <1>2, <2>3
    <3> QED BY <2>1, <2>4, <3>1 DEF e
  <2>7. \A l \in 1 .. d - 1 : q[b + l] = c[l]
    <3>1. \A l \in 1 .. d - 1 : b + l \in 1 .. Len(e) BY <1>1, <1>2, <2>3
    <3> QED BY <2>1, <2>4, <3>1 DEF e
  <2> QED BY <2>4, <2>5, <2>6, <2>7
<1>7. \A l \in 1 .. d - 1 : c[l] \in Insts /\ ins(c[l]).op = "call" /\ ins(c[l]).fun = s[l + 1].at[1]
  <2> SUFFICES ASSUME NEW l \in 1 .. d - 1
               PROVE  c[l] \in Insts /\ ins(c[l]).op = "call" /\ ins(c[l]).fun = s[l + 1].at[1]
    OBVIOUS
  <2>1. PICK n \in Insts : ins(n).op = "call" /\ ins(n).fun = s[l + 1].at[1] /\ s[l].at = behind(n)
    BY <1>4 DEF behindCall
  <2>2. n[2] \in Nat /\ n = <<n[1], n[2]>> BY InstIs
  <2>3. s[l].at[1] = n[1] /\ s[l].at[2] - 1 = n[2] BY <2>1, <2>2 DEF behind
  <2>4. c[l] = n BY <1>3, <2>2, <2>3
  <2> QED BY <2>1, <2>4
<1>8. ASSUME NEW l \in 1 .. d PROVE q[b + l] \in Sites /\ q[b + l][1] = s[l].at[1]
  <2>1. CASE l = d BY <1>1, <1>6, <2>1 DEF Sites, withOp
  <2>2. CASE l # d
    <3>1. l \in 1 .. d - 1 BY <1>1, <2>2
    <3>2. q[b + l] = c[l] /\ c[l] = <<s[l].at[1], s[l].at[2] - 1>> BY <1>3, <1>6, <3>1
    <3>3. c[l] \in Insts /\ ins(c[l]).op = "call" BY <1>7, <3>1
    <3> QED BY <3>2, <3>3 DEF Sites, withOp
  <2> QED BY <2>1, <2>2
<1>9. q \in Seq(Sites)
  <2>1. q \in Seq(Funs \X Int) BY <1>2 DEF q
  <2>2. DOMAIN q = 1 .. b + d /\ Len(q) \in Nat BY <1>6, <2>1
  <2>3. \A k \in 1 .. b + d : q[k] \in Sites
    <3> SUFFICES ASSUME NEW k \in 1 .. b + d PROVE q[k] \in Sites OBVIOUS
    <3>1. CASE k \in 1 .. b
      <4>1. p \in Seq(Sites) BY <1>5 DEF Leads
      <4>2. p[k] \in Sites BY <3>1, <4>1, ElementOfSeq DEF b
      <4> QED BY <1>6, <3>1, <4>2
    <3>2. CASE k \notin 1 .. b
      <4>1. k - b \in 1 .. d /\ b + (k - b) = k BY <1>1, <1>2, <3>2
      <4> QED BY <1>8, <4>1
    <3> QED BY <3>1, <3>2
  <2>4. q = [k \in 1 .. Len(q) |-> q[k]] BY <2>1
  <2>5. \A k \in 1 .. Len(q) : q[k] \in Sites BY <1>6, <2>3
  <2> QED BY <2>2, <2>4, <2>5
<1>10. ASSUME NEW k \in 1 .. Len(q) - 1 PROVE ins(q[k]).fun = q[k + 1][1]
  <2>0. k \in 1 .. b + d - 1 BY <1>1, <1>2, <1>6
  <2>1. CASE k < b
    <3>1. k \in 1 .. b - 1 /\ k \in 1 .. b /\ k + 1 \in 1 .. b BY <1>2, <2>0, <2>1
    <3>2. ins(p[k]).fun = p[k + 1][1] BY <1>5, <3>1 DEF Leads, b
    <3> QED BY <1>6, <3>1, <3>2
  <2>2. CASE k = b
    <3>1. b \in 1 .. b /\ 1 \in 1 .. d /\ b # 0 BY <1>1, <1>2, <2>0, <2>2
    <3>2. i # 1
      <4>1. p = <<>> => b = 0 BY DEF b
      <4> QED BY <1>5, <3>1, <4>1
    <3>3. ins(p[b]).fun = s[1].at[1] BY <1>5, <3>2 DEF Child, p, s, b
    <3>4. q[b + 1][1] = s[1].at[1] BY <1>8, <3>1
    <3> QED BY <1>6, <2>2, <3>1, <3>3, <3>4
  <2>3. CASE k > b
    <3> DEFINE l == k - b
    <3>1. l \in 1 .. d - 1 /\ l + 1 \in 1 .. d /\ b + l = k /\ b + (l + 1) = k + 1 BY <1>1, <1>2, <2>0, <2>3
    <3> HIDE DEF l
    <3>2. ins(q[b + l]).fun = s[l + 1].at[1] BY <1>6, <1>7, <3>1
    <3>3. q[b + (l + 1)][1] = s[l + 1].at[1] BY <1>8, <3>1
    <3> QED BY <3>1, <3>2, <3>3
  <2> QED BY <1>2, <2>0, <2>1, <2>2, <2>3
<1>11. ASSUME NEW k \in b + 1 .. Len(q) - 1 PROVE ins(q[k]).op = "call"
  <2>1. k - b \in 1 .. d - 1 /\ b + (k - b) = k BY <1>1, <1>2, <1>6
  <2> QED BY <1>6, <1>7, <2>1
<1>12. Leads(q) BY <1>9, <1>10 DEF Leads
<1>13. d \in Nat \ {0} BY <1>1
<1>14. \A l \in 1 .. d - 1 : q[b + l] = <<s[l].at[1], s[l].at[2] - 1>> BY <1>3, <1>6
<1> QED BY <1>1, <1>2, <1>6, <1>11, <1>12, <1>13, <1>14 DEF p, s, c, q, d, b


LEMMA GoesNowhere == ASSUME NEW s PROVE GoesOn(s, s)
BY DEF GoesOn

\* the stack of an instance after a step of its own
LEMMA StackGoes ==
  ASSUME prog \in Programs, Runs, prog' = prog, pass' = pass, NEW i \in DOMAIN running,
         \/ access(i) \/ goto(i) \/ branch(i) \/ enterLoop(i) \/ leaveLoop(i)
         \/ join(i) \/ lock(i) \/ unlock(i) \/ call(i) \/ ret(i) \/ fork(i)
  PROVE  GoesOn(running[i].stack, running'[i].stack)
<1> DEFINE s == running[i].stack
           t == running'[i].stack
<1>1. s # <<>> => s \in Seq(Frame) /\ Len(s) \in Nat /\ Len(s) >= 1 /\ at(i) = s[Len(s)].at BY StackAt, TopIs
<1>2. CASE access(i) \/ goto(i) \/ branch(i) \/ enterLoop(i) \/ leaveLoop(i) \/ join(i) \/ lock(i) \/ unlock(i)
  <2>1. s # <<>> /\ ownLocks(i) BY <1>2, StepIs
  <2>2. PICK fr \in Frame : /\ fr.at \in ToSet(succs(at(i))) /\ fr.at[1] = at(i)[1]
                            /\ toStack(i, moved(i, fr))
    BY <1>2, StepIs
  <2>3. /\ moved(i, fr) \in Seq(Frame) /\ Len(moved(i, fr)) = Len(s) /\ moved(i, fr)[Len(moved(i, fr))] = fr
        /\ \A k \in 1 .. Len(moved(i, fr)) - 1 : moved(i, fr)[k] = s[k]
        /\ \A k \in 1 .. Len(moved(i, fr)) - 1 : behindCall(moved(i, fr)[k + 1].at[1], moved(i, fr)[k].at)
    BY <2>1, <2>2, MovedIs
  <2>4. chained(moved(i, fr)) BY <2>3 DEF chained
  <2>5. t = moved(i, fr) BY <2>1, <2>2, <2>3, <2>4, StackedIs
  <2> HIDE DEF s, t
  <2>6. t \in Seq(Frame) /\ Len(t) = Len(s) /\ t[Len(s)].at \in ToSet(succs(s[Len(s)].at))
        /\ \A k \in 1 .. Len(s) - 1 : t[k] = s[k]
    BY <1>1, <2>1, <2>2, <2>3, <2>5
  <2>7. GoesOn(s, t) BY <1>1, <2>1, <2>6, GoesWithin
  <2> QED BY <2>7 DEF s, t
<1>3. CASE call(i)
  <2>1. isAt(i, "call") /\ toStack(i, entered(i)) /\ owners' = owners BY <1>3 DEF call, entered
  <2>2. /\ s # <<>> /\ entered(i) \in Seq(Frame) /\ chained(entered(i)) /\ Len(entered(i)) = Len(s) + 1
        /\ entered(i)[Len(s)].at = behind(at(i)) /\ \A k \in 1 .. Len(s) - 1 : entered(i)[k] = s[k]
    BY <2>1, AtIs, CalledIs
  <2>3. ownLocks(i) BY <2>1 DEF ownLocks
  <2>4. t = entered(i) BY <2>1, <2>2, <2>3, StackedIs
  <2> HIDE DEF s, t
  <2>5. GoesOn(s, t) BY <1>1, <2>2, <2>4, GoesInto
  <2> QED BY <2>5 DEF s, t
<1>4. CASE ret(i)
  <2>1. s # <<>> /\ toStack(i, Front(s)) /\ owners' = owners BY <1>4, AtIs DEF ret
  <2>2. /\ Front(s) \in Seq(Frame) /\ chained(Front(s)) /\ Len(Front(s)) = Len(s) - 1
        /\ \A k \in 1 .. Len(s) - 1 : Front(s)[k] = s[k]
    BY <2>1, ReturnedIs
  <2>3. ownLocks(i) BY <2>1 DEF ownLocks
  <2>4. t = Front(s) BY <2>1, <2>2, <2>3, StackedIs
  <2> HIDE DEF s, t
  <2>5. GoesOn(s, t) BY <1>1, <2>1, <2>2, <2>4, GoesBack
  <2> QED BY <2>5 DEF s, t
<1>5. CASE fork(i)
  <2>1. /\ s # <<>> /\ ins(at(i)).op = "fork" /\ goOn(i) \in Frame /\ goOn(i).at = behind(at(i))
        /\ goOn(i).at[1] = at(i)[1] /\ t = moved(i, goOn(i))
    BY <1>5, ForkedIs
  <2>2. /\ t \in Seq(Frame) /\ Len(t) = Len(s) /\ t[Len(t)] = goOn(i)
        /\ \A k \in 1 .. Len(t) - 1 : t[k] = s[k]
    BY <2>1, MovedIs
  <2>3. behind(at(i)) \in ToSet(succs(at(i))) BY <2>1, SuccessorsAre
  <2> HIDE DEF s, t
  <2>4. t[Len(s)].at \in ToSet(succs(s[Len(s)].at)) /\ \A k \in 1 .. Len(s) - 1 : t[k] = s[k]
    BY <1>1, <2>1, <2>2, <2>3
  <2>5. GoesOn(s, t) BY <1>1, <2>1, <2>2, <2>4, GoesWithin
  <2> QED BY <2>5 DEF s, t
<1> QED BY <1>2, <1>3, <1>4, <1>5

\* Two instances forked along one way over no loop are forked by one instance.
LEMMA OneParent ==
  ASSUME Once, NEW i \in DOMAIN running, NEW j \in DOMAIN running \ {1}, NEW q,
         q = running[j].path, ~ looped(q), q \in Seq(Sites), ForkedOn(q, running[i].path),
         running # <<>>
  PROVE  running[j].parent = i
<1> DEFINE p == running[i].path
           k == running[j].parent
           r == running[k].path
<1>1. k \in DOMAIN running /\ ForkedOn(q, r) BY DEF Once, Child
<1>2. p \in Seq(Sites) /\ r \in Seq(Sites) BY <1>1 DEF Once, Leads
<1>3. Len(p) \in Nat /\ Len(r) \in Nat /\ Len(q) \in Nat BY <1>2
<1>4. /\ p # <<>> => ins(p[Len(p)]).op = "fork"
      /\ r # <<>> => ins(r[Len(r)]).op = "fork"
  <2>1. p # <<>> => i # 1 BY DEF Once
  <2>2. r # <<>> => k # 1 BY DEF Once
  <2> QED BY <1>1, <2>1, <2>2 DEF Once, Child, ForkedOn
<1>5. running[k].path = r /\ running[i].path = p /\ ForkedOn(q, p) OBVIOUS
<1> HIDE DEF p, k, r
<1>6. Len(p) < Len(q) /\ Len(r) < Len(q) BY <1>1, <1>5 DEF ForkedOn
<1>7. ~ (Len(r) < Len(p))
  <2> SUFFICES ASSUME Len(r) < Len(p) PROVE FALSE OBVIOUS
  <2>1. Len(p) \in Len(r) + 1 .. Len(q) - 1 /\ Len(p) \in 1 .. Len(p) /\ Len(p) # 0 BY <1>3, <1>6
  <2>2. ins(q[Len(p)]).op = "call" /\ q[Len(p)] = p[Len(p)] BY <1>1, <1>5, <2>1 DEF ForkedOn
  <2>3. p # <<>> BY <2>1
  <2> QED BY <1>4, <2>2, <2>3
<1>8. ~ (Len(p) < Len(r))
  <2> SUFFICES ASSUME Len(p) < Len(r) PROVE FALSE OBVIOUS
  <2>1. Len(r) \in Len(p) + 1 .. Len(q) - 1 /\ Len(r) \in 1 .. Len(r) /\ Len(r) # 0 BY <1>3, <1>6
  <2>2. ins(q[Len(r)]).op = "call" /\ q[Len(r)] = r[Len(r)] BY <1>1, <1>5, <2>1 DEF ForkedOn
  <2>3. r # <<>> BY <2>1
  <2> QED BY <1>4, <2>2, <2>3
<1>9. Len(p) = Len(r) BY <1>3, <1>7, <1>8
<1>10. p = r
  <2>1. \A n \in 1 .. Len(p) : p[n] = r[n] BY <1>1, <1>5, <1>9 DEF ForkedOn
  <2>2. \A x, y \in Seq(Sites) : Len(x) = Len(y) /\ (\A n \in 1 .. Len(x) : x[n] = y[n]) => x = y
    BY SeqEqual
  <2> QED BY <1>2, <1>9, <2>1, <2>2
<1>11. ~ looped(p)
  <2> SUFFICES ASSUME NEW n \in 1 .. Len(p) PROVE loopsAt(p[n]) = {} BY DEF looped
  <2>1. n \in 1 .. Len(q) /\ q[n] = p[n] BY <1>3, <1>5, <1>6 DEF ForkedOn
  <2> QED BY <2>1 DEF looped
<1>12. k = i BY <1>1, <1>5, <1>10, <1>11 DEF Once
<1> QED BY <1>12 DEF k


LEMMA PathsStay ==
  ASSUME prog \in Programs, Runs, prog' = prog, pass' = pass, NEW i \in DOMAIN running,
         \/ access(i) \/ goto(i) \/ branch(i) \/ enterLoop(i) \/ leaveLoop(i)
         \/ join(i) \/ lock(i) \/ unlock(i) \/ call(i) \/ ret(i)
  PROVE  /\ Runs' /\ DOMAIN running' = DOMAIN running
         /\ \A j \in DOMAIN running : /\ j # i => running'[j] = running[j]
                                      /\ running'[j].path = running[j].path
                                      /\ running'[j].parent = running[j].parent
<1>1. CASE access(i) \/ goto(i) \/ branch(i) \/ enterLoop(i) \/ leaveLoop(i) \/ join(i) \/ lock(i) \/ unlock(i)
  <2>1. running[i].stack # <<>> /\ ownLocks(i) BY <1>1, StepIs
  <2>2. PICK fr \in Frame : fr.at[1] = at(i)[1] /\ toStack(i, moved(i, fr)) BY <1>1, StepIs
  <2>3. /\ moved(i, fr) \in Seq(Frame)
        /\ \A k \in 1 .. Len(moved(i, fr)) - 1 : behindCall(moved(i, fr)[k + 1].at[1], moved(i, fr)[k].at)
    BY <2>1, <2>2, MovedIs
  <2>4. chained(moved(i, fr)) BY <2>3 DEF chained
  <2> QED BY <2>1, <2>2, <2>3, <2>4, StackedIs
<1>2. CASE call(i)
  <2>1. isAt(i, "call") /\ toStack(i, entered(i)) /\ owners' = owners BY <1>2 DEF call, entered
  <2>2. entered(i) \in Seq(Frame) /\ chained(entered(i)) BY <2>1, CalledIs
  <2>3. ownLocks(i) BY <2>1 DEF ownLocks
  <2> QED BY <2>1, <2>2, <2>3, StackedIs
<1>3. CASE ret(i)
  <2>1. running[i].stack # <<>> /\ toStack(i, Front(running[i].stack)) /\ owners' = owners BY <1>3, AtIs DEF ret
  <2>2. Front(running[i].stack) \in Seq(Frame) /\ chained(Front(running[i].stack)) BY <2>1, ReturnedIs
  <2>3. ownLocks(i) BY <2>1 DEF ownLocks
  <2> QED BY <2>1, <2>2, <2>3, StackedIs
<1> QED BY <1>1, <1>2, <1>3

\* What a fork adds.
LEMMA ForkIsNew ==
  ASSUME prog \in Programs, Runs, Once, NEW i \in DOMAIN running, running[i].stack # <<>>,
         ins(at(i)).op = "fork"
  PROVE  LET q == child(i).path
             b == Len(running[i].path)
         IN /\ Leads(q) /\ ForkedOn(q, running[i].path) /\ q # <<>>
            /\ ins(q[Len(q)]).fun = child(i).stack[1].at[1]
            /\ \A t \in Seq(Frame) :
                 /\ Len(t) = Len(running[i].stack)
                 /\ \A k \in 1 .. Len(t) - 1 : t[k] = running[i].stack[k]
                 /\ t[Len(t)].at = behind(at(i))
                 => Passed(q, b, t)
            /\ ~ looped(q) => \A j \in DOMAIN running : running[j].path # q
<1> DEFINE p == running[i].path
           s == running[i].stack
           q == child(i).path
           b == Len(p)
           d == Len(s)
<1>1. q = p \o callSites(i) \o <<at(i)>> /\ child(i).stack = <<frame(ins(at(i)).fun)>> BY DEF child
<1>2. at(i) \in Insts /\ ins(at(i)).fun \in Funs /\ at(i)[2] \in Nat BY TopIs, InstHas, InstIs
<1>3. frame(ins(at(i)).fun).at[1] = ins(at(i)).fun BY <1>2, FrameIs
<1>4. /\ b \in Nat /\ d \in Nat \ {0} /\ Len(q) = b + d
      /\ \A k \in 1 .. b : q[k] = p[k]
      /\ \A l \in 1 .. d - 1 : q[b + l] = <<s[l].at[1], s[l].at[2] - 1>>
      /\ q[b + d] = at(i) /\ at(i) = s[d].at
      /\ \A l \in b + 1 .. Len(q) - 1 : ins(q[l]).op = "call"
      /\ Leads(q)
  BY <1>1, OnPath
<1>5. s \in Seq(Frame) /\ s # <<>> /\ running # <<>> BY StackAt
<1> HIDE DEF p, s, q, b, d
<1>6. ForkedOn(q, p) BY <1>4 DEF ForkedOn, b
<1>7. ins(q[Len(q)]).fun = child(i).stack[1].at[1] BY <1>1, <1>3, <1>4
<1>8. ASSUME NEW t \in Seq(Frame), Len(t) = d, \A k \in 1 .. Len(t) - 1 : t[k] = s[k], t[Len(t)].at = behind(at(i))
      PROVE  Passed(q, b, t)
  <2>1. d \in 1 .. Len(t) /\ b + d <= Len(q) BY <1>4, <1>8
  <2>2. \A l \in 1 .. d - 1 : q[b + l] = <<t[l].at[1], t[l].at[2] - 1>> BY <1>4, <1>8
  <2>3. q[b + d][1] = t[d].at[1] /\ q[b + d][2] < t[d].at[2] BY <1>2, <1>4, <1>8 DEF behind
  <2>4. q[b + d][2] < IF d < Len(t) THEN t[d].at[2] - 1 ELSE t[d].at[2] BY <1>4, <1>8, <2>3
  <2> QED BY <2>1, <2>2, <2>3, <2>4 DEF Passed
<1>9. q # <<>>
  <2>1. q = <<>> => Len(q) = 0 OBVIOUS
  <2> QED BY <1>4, <2>1
<1>10. ASSUME ~ looped(q), NEW j \in DOMAIN running, running[j].path = q PROVE FALSE
  <2>1. j # 1 BY <1>5, <1>9, <1>10 DEF Once
  <2>2. q \in Seq(Sites) BY <1>4 DEF Leads
  <2>3. running[j].parent = i BY <1>5, <1>6, <1>10, <2>1, <2>2, OneParent DEF p
  <2>4. Child(running, j) BY <2>1 DEF Once
  <2>5. Passed(q, b, s) BY <1>10, <2>3, <2>4 DEF Child, p, b, s
  <2>6. d \in Nat /\ d # 0 BY <1>4
  <2>7. ~ Passed(q, b, s)
    <3>1. /\ Len(q) = b + Len(s) /\ q[b + Len(s)] = s[Len(s)].at
          /\ \A l \in 1 .. Len(s) - 1 : q[b + l] = <<s[l].at[1], s[l].at[2] - 1>>
      BY <1>4 DEF d
    <3> QED BY <1>4, <1>5, <2>2, <3>1, NotPassed
  <2> QED BY <2>5, <2>7
<1> QED BY <1>4, <1>6, <1>7, <1>8, <1>9, <1>10 DEF p, s, q, b, d

LEMMA OnceStep ==
  ASSUME prog \in Programs, Runs, Once, prog' = prog, pass' = pass, ThreadsNext
  PROVE  Once'
<1>1. CASE start
  <2>1. DOMAIN running' = {1} /\ running'[1] = first0 BY <1>1, StartedIs
  <2>2. first0.path = <<>> /\ first0.parent = 0 BY DEF first0
  <2>3. Leads(<<>>)
    <3>1. <<>> \in Seq(Sites) /\ 1 .. Len(<<>>) - 1 = {} OBVIOUS
    <3> QED BY <3>1 DEF Leads
  <2>4. Leads(<<>>)' BY <2>3, SameLoops
  <2> QED BY <2>1, <2>2, <2>4 DEF Once
<1>2. ASSUME NEW i \in DOMAIN running,
             \/ access(i) \/ goto(i) \/ branch(i) \/ enterLoop(i) \/ leaveLoop(i)
             \/ join(i) \/ lock(i) \/ unlock(i) \/ call(i) \/ ret(i) \/ fork(i)
      PROVE  Once'
  <2> DEFINE N == Len(running)
  <2>1. DOMAIN running = 1 .. N /\ N \in Nat /\ running # <<>> /\ 1 \in DOMAIN running BY StackAt
  <2>2. GoesOn(running[i].stack, running'[i].stack) BY <1>2, StackGoes
  <2>3. /\ DOMAIN running' = (IF fork(i) THEN DOMAIN running \cup {N + 1} ELSE DOMAIN running)
        /\ \A j \in DOMAIN running : /\ j # i => running'[j] = running[j]
                                     /\ running'[j].path = running[j].path
                                     /\ running'[j].parent = running[j].parent
    <3>1. CASE fork(i) BY <3>1, ForkedIs
    <3>2. CASE ~ fork(i) BY <1>2, <3>2, PathsStay
    <3> QED BY <3>1, <3>2
  <2>4. \A j \in DOMAIN running : GoesOn(running[j].stack, running'[j].stack) BY <2>2, <2>3, GoesNowhere
  <2>5. \A j \in DOMAIN running : running[j].path \in Seq(Sites) /\ Len(running[j].path) \in Nat BY DEF Once, Leads
  <2>6. \A j \in DOMAIN running \ {1} : Child(running', j)
    <3> SUFFICES ASSUME NEW j \in DOMAIN running \ {1} PROVE Child(running', j) OBVIOUS
    <3>1. Child(running, j) /\ DOMAIN running \subseteq DOMAIN running' BY <2>3 DEF Once
    <3> QED BY <2>3, <2>4, <2>5, <3>1, ChildStays
  <2>7. running'[1].path = <<>> /\ running'[1].parent = 0 BY <2>1, <2>3 DEF Once
  <2>8. \A j \in DOMAIN running : Leads(running'[j].path) BY <2>3 DEF Once
  <2>9. \A j, k \in DOMAIN running :
          running'[j].path = running'[k].path /\ ~ looped(running'[j].path) => j = k
    BY <2>3 DEF Once
  <2>10. ASSUME \A j \in DOMAIN running' : Leads(running'[j].path),
                \A j \in DOMAIN running' \ {1} : Child(running', j),
                \A j, k \in DOMAIN running' :
                  running'[j].path = running'[k].path /\ ~ looped(running'[j].path) => j = k
         PROVE  Once'
    <3>1. \A j \in DOMAIN running' : Leads(running[j].path)' BY <2>10, SameLoops
    <3>2. \A j \in DOMAIN running' \ {1} : Child(running, j)' BY <2>10, SameLoops
    <3>3. \A j, k \in DOMAIN running' :
            running'[j].path = running'[k].path /\ ~ looped(running[j].path)' => j = k
      BY <2>10, SameLoops
    <3> QED BY <2>7, <3>1, <3>2, <3>3 DEF Once
  <2>11. CASE ~ fork(i) BY <2>3, <2>6, <2>8, <2>9, <2>10, <2>11
  <2>12. CASE fork(i)
    <3> DEFINE q == child(i).path
               t == moved(i, goOn(i))
    <3>1. /\ running[i].stack # <<>> /\ ins(at(i)).op = "fork" /\ goOn(i) \in Frame
          /\ goOn(i).at = behind(at(i)) /\ goOn(i).at[1] = at(i)[1]
          /\ running'[N + 1] = child(i) /\ running'[i].stack = t
      BY <2>12, ForkedIs
    <3>2. /\ t \in Seq(Frame) /\ Len(t) = Len(running[i].stack) /\ t[Len(t)] = goOn(i)
          /\ \A k \in 1 .. Len(t) - 1 : t[k] = running[i].stack[k]
      BY <3>1, MovedIs
    <3>3. /\ Leads(q) /\ ForkedOn(q, running[i].path) /\ q # <<>>
          /\ ins(q[Len(q)]).fun = child(i).stack[1].at[1]
          /\ Passed(q, Len(running[i].path), t)
          /\ ~ looped(q) => \A j \in DOMAIN running : running[j].path # q
      BY <3>1, <3>2, ForkIsNew
    <3> HIDE DEF t
    <3>4. child(i).parent = i BY DEF child
    <3>5. Child(running', N + 1)
      <4>1. running'[N + 1].path = q /\ running'[N + 1].parent = i /\ i \in DOMAIN running' BY <2>3, <2>12, <3>1, <3>4
      <4>2. running'[i].path = running[i].path /\ running'[N + 1].stack = child(i).stack BY <2>3, <3>1
      <4> HIDE DEF q
      <4> QED BY <3>1, <3>3, <4>1, <4>2 DEF Child
    <3>6. running'[N + 1].path = q BY <3>1
    <3> HIDE DEF q
    <3>7. DOMAIN running' = DOMAIN running \cup {N + 1} BY <2>3, <2>12
    <3>8. \A j \in DOMAIN running' : Leads(running'[j].path) BY <2>8, <3>3, <3>6, <3>7
    <3>9. \A j \in DOMAIN running' \ {1} : Child(running', j) BY <2>6, <3>5, <3>7
    <3>10. ~ looped(q) => \A j \in DOMAIN running : running'[j].path # q BY <2>3, <3>3
    <3>11. \A j, k \in DOMAIN running' :
             running'[j].path = running'[k].path /\ ~ looped(running'[j].path) => j = k
      BY <2>9, <3>6, <3>7, <3>10
    <3> QED BY <2>10, <3>8, <3>9, <3>11
  <2> QED BY <2>11, <2>12
<1> QED BY <1>1, <1>2 DEF ThreadsNext

=============================================================================
