------------------------------ MODULE MTA_proofs ------------------------------
(****************************************************************************)
(* A theorem of MTA: the walk that computes the lock sets meets an acquire  *)
(* only in contexts that the collection of context-sensitive locks has      *)
(* found, for every program.                                                *)
(*                                                                          *)
(* The two go through the program differently.  The collection goes from    *)
(* function to function and turns back where no lock is reached; the walk   *)
(* goes from instruction to instruction, into callees and back, wherever    *)
(* control leads.  What they have in common is the shape of a context: the  *)
(* sites that lead from a cycle of the call graph to another, the first out *)
(* of an entry function.  Every context of the walk has that shape, and a   *)
(* function with a lock is collected in every context of that shape, by     *)
(* induction on the context and, inside a cycle, along its calls.           *)
(****************************************************************************)
EXTENDS MTA, Threads_proofs

-----------------------------------------------------------------------------
(* The call graph *)

LEMMA SitesAre ==
  ASSUME prog \in Programs, NEW f \in Funs
  PROVE  /\ \A n \in sitesFrom(f) : /\ n \in Insts /\ n[1] = f /\ ins(n).op \in {"call", "fork"}
                                    /\ ins(n).fun \in Funs /\ ins(n).fun \in callees(f)
                                    /\ n \in sitesOf(ins(n).fun)
         /\ callees(f) \subseteq Funs
<1>1. ASSUME NEW n \in sitesFrom(f)
      PROVE  /\ n \in Insts /\ n[1] = f /\ ins(n).op \in {"call", "fork"}
             /\ ins(n).fun \in Funs /\ ins(n).fun \in callees(f) /\ n \in sitesOf(ins(n).fun)
  <2>1. n \in instsOf(f) /\ ins(n).op \in {"call", "fork"} BY DEF sitesFrom
  <2>2. n \in Insts /\ n[1] = f BY <2>1 DEF Insts, instsOf
  <2>3. ins(n).fun \in Funs BY <2>1, <2>2, InstHas
  <2> QED BY <2>1, <2>2, <2>3 DEF callees, sitesOf, withOp
<1> QED BY <1>1 DEF callees

LEMMA SiteIs ==
  ASSUME prog \in Programs, NEW n \in Insts, ins(n).op \in {"call", "fork"}
  PROVE  n[1] \in Funs /\ n \in sitesFrom(n[1])
BY InstIs DEF sitesFrom

\* what a function reaches is the least set that has its callees and theirs
LEMMA Reaches ==
  ASSUME prog \in Programs, NEW f \in Funs
  PROVE  /\ reachable(f) \subseteq Funs /\ callees(f) \subseteq reachable(f)
         /\ \A g \in reachable(f) : callees(g) \subseteq reachable(f)
         /\ \A F \in SUBSET Funs :
              callees(f) \subseteq F /\ (\A g \in F : callees(g) \subseteq F) => reachable(f) \subseteq F
BY SitesAre DEF reachable

LEMMA ReachesOn ==
  ASSUME prog \in Programs, NEW f \in Funs, NEW g \in reachable(f)
  PROVE  g \in Funs /\ reachable(g) \subseteq reachable(f)
<1>1. g \in Funs /\ reachable(f) \in SUBSET Funs BY Reaches
<1> QED BY <1>1, Reaches

LEMMA CallReaches ==
  ASSUME prog \in Programs, NEW f \in Funs, NEW g \in callees(f)
  PROVE  g \in Funs /\ g \in reachable(f) /\ reachable(g) \subseteq reachable(f)
BY Reaches, ReachesOn

\* what is reached is called or forked somewhere
LEMMA ReachedIsCalled ==
  ASSUME prog \in Programs, NEW f \in Funs, NEW g \in reachable(f)
  PROVE  sitesOf(g) # {}
<1> DEFINE F == {h \in Funs : sitesOf(h) # {}}
<1>1. \A h \in Funs : callees(h) \subseteq F
  <2> SUFFICES ASSUME NEW h \in Funs, NEW n \in sitesFrom(h) PROVE ins(n).fun \in F BY DEF callees
  <2> QED BY SitesAre
<1>2. F \in SUBSET Funs OBVIOUS
<1> HIDE DEF F
<1>3. reachable(f) \subseteq F BY <1>1, <1>2, Reaches
<1> QED BY <1>3 DEF F

LEMMA SameSCCs ==
  ASSUME prog \in Programs
  PROVE  /\ \A f \in Funs : sameSCC(f, f)
         /\ \A f, g \in Funs : sameSCC(f, g) => sameSCC(g, f)
         /\ \A f, g, h \in Funs : sameSCC(f, g) /\ sameSCC(g, h) => sameSCC(f, h)
<1>1. ASSUME NEW f \in Funs, NEW g \in Funs, NEW h \in Funs, sameSCC(f, g), sameSCC(g, h) PROVE sameSCC(f, h)
  <2>1. CASE f = g BY <1>1, <2>1
  <2>2. CASE g = h BY <1>1, <2>2
  <2>3. CASE f # g /\ g # h
    <3>1. f \in reachable(g) /\ g \in reachable(f) /\ g \in reachable(h) /\ h \in reachable(g)
      BY <1>1, <2>3 DEF sameSCC
    <3>2. reachable(g) \subseteq reachable(f) /\ reachable(g) \subseteq reachable(h) BY <3>1, ReachesOn
    <3> QED BY <3>1, <3>2 DEF sameSCC
  <2> QED BY <2>1, <2>2, <2>3
<1> QED BY <1>1 DEF sameSCC

\* a candidate is whatever calls, forks or reaches one
LEMMA Candidates ==
  ASSUME prog \in Programs, NEW f \in Funs, NEW g \in Funs, g = f \/ g \in reachable(f),
         g \in buildCandidateFuncSetforLock
  PROVE  f \in buildCandidateFuncSetforLock
<1> DEFINE here == {n[1] : n \in locksites \cup unlocksites}
<1>1. buildCandidateFuncSetforLock = here \cup {h \in Funs : reachable(h) \cap here # {}}
  BY DEF buildCandidateFuncSetforLock
<1>2. g \in reachable(f) => reachable(g) \subseteq reachable(f) BY ReachesOn
<1> HIDE DEF here
<1> QED BY <1>1, <1>2

-----------------------------------------------------------------------------
(* Contexts *)

callSitesAll == withOp({"call", "fork"})

\* c is the way from an entry function to f: each site of c leads out of the cycle of the
\* call graph that it is in, to the one the next site, or f, is in
WayTo(c, f) ==
  /\ c \in Seq(callSitesAll) /\ f \in Funs
  /\ \A k \in 1 .. Len(c) : ~ sameSCC(c[k][1], ins(c[k]).fun)
  /\ \A k \in 1 .. Len(c) - 1 : sameSCC(ins(c[k]).fun, c[k + 1][1])
  /\ Len(c) > 0 => c[1][1] \in entryProcs /\ sameSCC(ins(c[Len(c)]).fun, f)
  /\ Len(c) = 0 => f \in entryProcs

\* the cycles the tree has computed are those of the call graph
SCCsAre == tcgSCC = {p \in Funs \X Funs : sameSCC(p[1], p[2])}

LEMMA SCCIs ==
  ASSUME SCCsAre, NEW f \in Funs, NEW g \in Funs
  PROVE  inSameCallGraphSCC(f, g) <=> sameSCC(f, g)
BY DEF SCCsAre, inSameCallGraphSCC

LEMMA SiteFuns ==
  ASSUME prog \in Programs, NEW n \in callSitesAll
  PROVE  /\ n \in Insts /\ n[1] \in Funs /\ ins(n).fun \in Funs /\ n \in sitesFrom(n[1])
         /\ n \in sitesOf(ins(n).fun) /\ ins(n).fun \in callees(n[1])
<1>1. n \in Insts /\ ins(n).op \in {"call", "fork"} BY DEF callSitesAll, withOp
<1>2. n[1] \in Funs /\ n \in sitesFrom(n[1]) BY <1>1, SiteIs
<1> QED BY <1>1, <1>2, SitesAre

\* nothing leads back into an entry function
LEMMA EntryAlone ==
  ASSUME prog \in Programs, NEW f \in entryProcs, NEW g \in Funs, sameSCC(f, g)
  PROVE  f = g
<1>1. f \in Funs /\ sitesOf(f) = {} BY DEF entryProcs
<1>2. f # g => f \in reachable(g) BY DEF sameSCC
<1> QED BY <1>1, <1>2, ReachedIsCalled

\* a context's last site, and the way to it
LEMMA WayBack ==
  ASSUME prog \in Programs, NEW f, NEW c, WayTo(c, f), c # <<>>
  PROVE  /\ Len(c) \in Nat /\ Len(c) >= 1 /\ Last(c) \in callSitesAll /\ c = Append(Front(c), Last(c))
         /\ Len(Front(c)) = Len(c) - 1
         /\ WayTo(Front(c), Last(c)[1])
         /\ ~ sameSCC(Last(c)[1], ins(Last(c)).fun) /\ sameSCC(ins(Last(c)).fun, f)
<1>1. c \in Seq(callSitesAll) BY DEF WayTo
<1> DEFINE d == Front(c)
           s == Last(c)
<1>2. /\ Len(c) \in Nat /\ Len(c) >= 1 /\ s = c[Len(c)] /\ s \in callSitesAll
      /\ d \in Seq(callSitesAll) /\ Len(d) = Len(c) - 1
      /\ \A i \in 1 .. Len(c) - 1 : d[i] = c[i]
  BY <1>1, PoppedSet
<1> HIDE DEF d, s
<1>3. c = Append(d, s)
  <2>1. Append(d, s) \in Seq(callSitesAll) /\ Len(Append(d, s)) = Len(c) BY <1>2
  <2>2. \A i \in 1 .. Len(c) : Append(d, s)[i] = c[i] BY <1>2
  <2> QED BY <1>1, <2>1, <2>2, SeqEqual
<1>4. ~ sameSCC(s[1], ins(s).fun) /\ sameSCC(ins(s).fun, f)
  <2>1. Len(c) \in 1 .. Len(c) BY <1>2
  <2> QED BY <1>2, <2>1 DEF WayTo
<1>5. WayTo(d, s[1])
  <2>1. s[1] \in Funs BY <1>2, SiteFuns
  <2>2. \A k \in 1 .. Len(d) : ~ sameSCC(d[k][1], ins(d[k]).fun)
    BY <1>2 DEF WayTo
  <2>3. \A k \in 1 .. Len(d) - 1 : sameSCC(ins(d[k]).fun, d[k + 1][1])
    <3> SUFFICES ASSUME NEW k \in 1 .. Len(d) - 1 PROVE sameSCC(ins(d[k]).fun, d[k + 1][1]) OBVIOUS
    <3>1. k \in 1 .. Len(c) - 1 /\ k + 1 \in 1 .. Len(c) - 1 BY <1>2
    <3> QED BY <1>2, <3>1 DEF WayTo
  <2>4. ASSUME Len(d) > 0 PROVE d[1][1] \in entryProcs /\ sameSCC(ins(d[Len(d)]).fun, s[1])
    <3>1. Len(d) \in 1 .. Len(c) - 1 /\ 1 \in 1 .. Len(c) - 1 /\ Len(d) + 1 = Len(c) BY <1>2, <2>4
    <3> QED BY <1>2, <3>1 DEF WayTo
  <2>5. ASSUME Len(d) = 0 PROVE s[1] \in entryProcs
    <3>1. Len(c) = 1 BY <1>2, <2>5
    <3> QED BY <1>2, <3>1 DEF WayTo
  <2> QED BY <1>2, <2>1, <2>2, <2>3, <2>4, <2>5 DEF WayTo
<1> QED BY <1>2, <1>3, <1>4, <1>5 DEF d, s

\* Entering a callee or the routine of a thread keeps the shape.
LEMMA WayInto ==
  ASSUME prog \in Programs, SCCsAre, NEW c, NEW n \in callSitesAll, WayTo(c, n[1])
  PROVE  WayTo(pushLockCxt(c, n, ins(n).fun), ins(n).fun)
<1> DEFINE f == n[1]
           g == ins(n).fun
<1>1. f \in Funs /\ g \in Funs /\ n \in sitesOf(g) BY SiteFuns
<1>2. inSameCallGraphSCC(f, g) <=> sameSCC(f, g) BY <1>1, SCCIs
<1>3. c \in Seq(callSitesAll) /\ Len(c) \in Nat BY DEF WayTo
<1>4. CASE sameSCC(f, g)
  <2>1. pushLockCxt(c, n, g) = c BY <1>2, <1>4 DEF pushLockCxt
  <2>2. Len(c) # 0
    <3>1. SUFFICES ASSUME f \in entryProcs PROVE FALSE BY DEF WayTo
    <3>2. f = g BY <1>1, <1>4, <3>1, EntryAlone
    <3> QED BY <1>1, <3>1, <3>2 DEF entryProcs
  <2>3. Len(c) \in 1 .. Len(c) /\ Len(c) > 0 BY <1>3, <2>2
  <2>4. c[Len(c)] \in callSitesAll BY <1>3, <2>3, ElementOfSeq
  <2>5. ins(c[Len(c)]).fun \in Funs BY <2>4, SiteFuns
  <2>6. sameSCC(ins(c[Len(c)]).fun, f) BY <2>3 DEF WayTo
  <2>7. sameSCC(ins(c[Len(c)]).fun, g) BY <1>1, <1>4, <2>5, <2>6, SameSCCs
  <2>8. WayTo(c, g) BY <1>1, <2>2, <2>7 DEF WayTo
  <2> QED BY <2>1, <2>8
<1>5. CASE ~ sameSCC(f, g)
  <2> DEFINE b == Append(c, n)
  <2>1. pushLockCxt(c, n, g) = b BY <1>2, <1>5 DEF pushLockCxt
  <2>2. /\ b \in Seq(callSitesAll) /\ Len(b) = Len(c) + 1 /\ b[Len(b)] = n
        /\ \A i \in 1 .. Len(c) : b[i] = c[i]
    BY <1>3
  <2> HIDE DEF b
  <2>3. \A k \in 1 .. Len(b) : ~ sameSCC(b[k][1], ins(b[k]).fun)
    <3> SUFFICES ASSUME NEW k \in 1 .. Len(b) PROVE ~ sameSCC(b[k][1], ins(b[k]).fun) OBVIOUS
    <3>1. k \in 1 .. Len(c) \/ k = Len(b) BY <1>3, <2>2
    <3>2. CASE k \in 1 .. Len(c) BY <2>2, <3>2 DEF WayTo
    <3>3. CASE k = Len(b) BY <1>5, <2>2, <3>3
    <3> QED BY <3>1, <3>2, <3>3
  <2>4. \A k \in 1 .. Len(b) - 1 : sameSCC(ins(b[k]).fun, b[k + 1][1])
    <3> SUFFICES ASSUME NEW k \in 1 .. Len(b) - 1 PROVE sameSCC(ins(b[k]).fun, b[k + 1][1]) OBVIOUS
    <3>1. k \in 1 .. Len(c) /\ b[k] = c[k] BY <1>3, <2>2
    <3>2. CASE k = Len(c)
      <4>1. b[k + 1] = n /\ Len(c) > 0 BY <1>3, <2>2, <3>1, <3>2
      <4> QED BY <3>1, <3>2, <4>1 DEF WayTo
    <3>3. CASE k # Len(c)
      <4>1. k + 1 \in 1 .. Len(c) /\ k \in 1 .. Len(c) - 1 BY <1>3, <3>1, <3>3
      <4> QED BY <2>2, <3>1, <4>1 DEF WayTo
    <3> QED BY <3>2, <3>3
  <2>5. b[1][1] \in entryProcs
    <3>1. CASE Len(c) = 0 BY <2>2, <3>1 DEF WayTo
    <3>2. CASE Len(c) # 0
      <4>1. 1 \in 1 .. Len(c) /\ Len(c) > 0 BY <1>3, <3>2
      <4> QED BY <2>2, <4>1 DEF WayTo
    <3> QED BY <3>1, <3>2
  <2>6. sameSCC(ins(b[Len(b)]).fun, g) /\ Len(b) > 0 BY <1>1, <1>3, <2>2, SameSCCs
  <2>7. WayTo(b, g) BY <1>1, <2>2, <2>3, <2>4, <2>5, <2>6 DEF WayTo
  <2> QED BY <2>1, <2>7
<1> QED BY <1>4, <1>5

\* So does returning to a site that matches.
LEMMA WayOut ==
  ASSUME prog \in Programs, SCCsAre, NEW c, NEW f, WayTo(c, f), NEW n \in callEdgesTo(f), matchLockCxt(c, n, f)
  PROVE  n \in callSitesAll /\ WayTo(popLockCxt(c, n, f), n[1])
<1>1. n \in callSitesAll /\ ins(n).fun = f /\ n \in sitesOf(f)
  BY DEF callEdgesTo, callSitesAll, sitesOf, withOp
<1>2. n[1] \in Funs /\ f \in Funs BY <1>1, SiteFuns
<1>3. c # <<>>
  <2>1. SUFFICES ASSUME Len(c) = 0 PROVE FALSE OBVIOUS
  <2>2. f \in entryProcs BY <2>1 DEF WayTo
  <2> QED BY <1>1, <2>2 DEF entryProcs
<1>4. inSameCallGraphSCC(n[1], f) <=> sameSCC(n[1], f) BY <1>2, SCCIs
<1>5. CASE sameSCC(n[1], f)
  <2>1. popLockCxt(c, n, f) = c BY <1>4, <1>5 DEF popLockCxt
  <2>2. c \in Seq(callSitesAll) /\ Len(c) \in Nat /\ Len(c) > 0 BY <1>3 DEF WayTo
  <2>3. c[Len(c)] \in callSitesAll BY <2>2, ElementOfSeq
  <2>4. ins(c[Len(c)]).fun \in Funs BY <2>3, SiteFuns
  <2>5. sameSCC(ins(c[Len(c)]).fun, f) BY <2>2 DEF WayTo
  <2>6. sameSCC(ins(c[Len(c)]).fun, n[1]) BY <1>2, <1>5, <2>4, <2>5, SameSCCs
  <2>7. WayTo(c, n[1]) BY <1>2, <2>2, <2>6 DEF WayTo
  <2> QED BY <1>1, <2>1, <2>7
<1>6. CASE ~ sameSCC(n[1], f)
  <2>1. Last(c) = n BY <1>3, <1>4, <1>6 DEF matchLockCxt
  <2>2. popLockCxt(c, n, f) = Front(c) BY <1>3, <1>4, <1>6 DEF popLockCxt
  <2> QED BY <1>1, <1>3, <2>1, <2>2, WayBack
<1> QED BY <1>5, <1>6

-----------------------------------------------------------------------------
(* The inductive invariant *)

\* Once the tree has been begun its cycles are known.
CyclesKnown == (begun \/ pass # "tct") => SCCsAre

\* what the collection does with a function in a context, once the pair is popped
collectedFrom(v) ==
  /\ isLockCandidateFun(v[2]) =>
       \A s \in sitesFrom(v[2]) : <<pushLockCxt(v[1], s, ins(s).fun), ins(s).fun>> \in visitedCLPs
  /\ \A k \in locksites : k[1] = v[2] => <<v[1], k>> \in cxtLockset

\* The collection starts at the entries, and what is not on its worklist is done.
Collecting ==
  pass \in {"clp", "span"} =>
    /\ lockcandidateFuncSet = buildCandidateFuncSetforLock
    /\ \A f \in entryProcs \cap lockcandidateFuncSet : <<<<>>, f>> \in visitedCLPs
    /\ clpList \in Seq(visitedCLPs)
    /\ visitedCLPs \subseteq Seq(callSitesAll) \X Funs
    /\ \A v \in visitedCLPs \ ToSet(clpList) : collectedFrom(v)
    /\ pass = "span" => clpList = <<>>

\* The statements on the list of the walk are in contexts that lead to their function.
Stmts == {cs \in Seq(callSitesAll) \X Insts : WayTo(cs[1], cs[2][1])}
Walking == pass = "span" => spanList \in Seq(Stmts)

LockInv == prog \in Programs /\ CyclesKnown /\ Collecting /\ Walking

-----------------------------------------------------------------------------
(* The collection finds every context of a function with a lock *)

\* the least context of that shape that has not been collected, if there is one
Missed(n) ==
  \E c, f : /\ WayTo(c, f) /\ f \in lockcandidateFuncSet /\ <<c, f>> \notin visitedCLPs
            /\ Len(c) = n

LEMMA CollectedInCycle ==
  ASSUME prog \in Programs, SCCsAre, NEW c, NEW g \in Funs, NEW f \in Funs, sameSCC(g, f),
         lockcandidateFuncSet = buildCandidateFuncSetforLock,
         \A v \in visitedCLPs : collectedFrom(v),
         f \in lockcandidateFuncSet, <<c, g>> \in visitedCLPs
  PROVE  <<c, f>> \in visitedCLPs
<1>1. CASE f = g BY <1>1
<1>2. CASE f # g
  <2>1. f \in reachable(g) /\ g \in reachable(f) BY <1>2 DEF sameSCC
  <2> DEFINE F == {h \in reachable(g) : g \in reachable(h) => <<c, h>> \in visitedCLPs}
  <2>2. ASSUME NEW h \in Funs, h = g \/ h \in reachable(g), h = g \/ g \in reachable(h),
               <<c, h>> \in visitedCLPs, NEW k \in callees(h), g \in reachable(k)
        PROVE  <<c, k>> \in visitedCLPs
    <3>1. k \in Funs /\ k \in reachable(h) /\ reachable(k) \subseteq reachable(h) BY CallReaches
    <3>2. h \in reachable(k)
      <4>1. CASE h = g BY <2>2, <4>1
      <4>2. CASE h # g
        <5>1. h \in reachable(g) BY <2>2, <4>2
        <5>2. reachable(g) \subseteq reachable(k) BY <2>2, <3>1, ReachesOn
        <5> QED BY <5>1, <5>2
      <4> QED BY <4>1, <4>2
    <3>3. sameSCC(h, k) BY <3>1, <3>2 DEF sameSCC
    <3>4. f \in reachable(h)
      <4>1. reachable(g) \subseteq reachable(h) BY <2>2, ReachesOn
      <4> QED BY <2>1, <4>1
    <3>5. isLockCandidateFun(h)
      <4>1. h \in buildCandidateFuncSetforLock BY <3>4, Candidates
      <4> QED BY <4>1 DEF isLockCandidateFun
    <3>6. PICK s \in sitesFrom(h) : ins(s).fun = k BY DEF callees
    <3>7. collectedFrom(<<c, h>>) BY <2>2
    <3>8. <<pushLockCxt(c, s, k), k>> \in visitedCLPs BY <3>5, <3>6, <3>7 DEF collectedFrom
    <3>9. s[1] = h BY <3>6, SitesAre
    <3>10. pushLockCxt(c, s, k) = c BY <3>1, <3>3, <3>9, SCCIs DEF pushLockCxt
    <3> QED BY <3>8, <3>10
  <2>3. reachable(g) \subseteq Funs BY Reaches
  <2>4. callees(g) \subseteq F
    <3> SUFFICES ASSUME NEW k \in callees(g) PROVE k \in F OBVIOUS
    <3>1. k \in reachable(g) BY CallReaches
    <3> QED BY <2>2, <3>1
  <2>5. \A h \in F : callees(h) \subseteq F
    <3> SUFFICES ASSUME NEW h \in F, NEW k \in callees(h) PROVE k \in F OBVIOUS
    <3>1. h \in Funs /\ h \in reachable(g) /\ reachable(h) \subseteq reachable(g) BY <2>3, ReachesOn
    <3>2. k \in Funs /\ k \in reachable(h) /\ reachable(k) \subseteq reachable(h) BY <3>1, CallReaches
    <3>3. ASSUME g \in reachable(k) PROVE <<c, k>> \in visitedCLPs
      <4>1. g \in reachable(h) BY <3>2, <3>3
      <4>2. <<c, h>> \in visitedCLPs BY <4>1
      <4> QED BY <2>2, <3>1, <3>3, <4>1, <4>2
    <3> QED BY <3>1, <3>2, <3>3
  <2>6. F \in SUBSET Funs BY <2>3
  <2> HIDE DEF F
  <2>7. reachable(g) \subseteq F BY <2>4, <2>5, <2>6, Reaches
  <2>8. f \in F BY <2>1, <2>7
  <2> QED BY <2>1, <2>8 DEF F
<1> QED BY <1>1, <1>2

LEMMA CollectedEverywhere ==
  ASSUME prog \in Programs, SCCsAre,
         lockcandidateFuncSet = buildCandidateFuncSetforLock,
         \A f \in entryProcs \cap lockcandidateFuncSet : <<<<>>, f>> \in visitedCLPs,
         \A v \in visitedCLPs : collectedFrom(v)
  PROVE  \A c, f : WayTo(c, f) /\ f \in lockcandidateFuncSet => <<c, f>> \in visitedCLPs
<1> DEFINE Bad == {n \in Nat : Missed(n)}
<1>1. Bad = {}
  <2>1. SUFFICES ASSUME Bad # {} PROVE FALSE OBVIOUS
  <2>2. PICK n \in Bad : \A m \in Bad : n <= m BY <2>1, LeastNat
  <2>3. PICK c, f : WayTo(c, f) /\ f \in lockcandidateFuncSet /\ <<c, f>> \notin visitedCLPs /\ Len(c) = n
    BY <2>2 DEF Missed
  <2>4. f \in Funs BY <2>3 DEF WayTo
  <2>5. c # <<>>
    <3>1. SUFFICES ASSUME c = <<>> PROVE FALSE OBVIOUS
    <3>2. Len(c) = 0 BY <3>1
    <3>3. f \in entryProcs BY <2>3, <3>2 DEF WayTo
    <3> QED BY <2>3, <3>1, <3>3
  <2> DEFINE d == Front(c)
             s == Last(c)
             g == ins(s).fun
  <2>6. /\ s \in callSitesAll /\ c = Append(d, s) /\ Len(d) = n - 1 /\ n >= 1
        /\ WayTo(d, s[1]) /\ ~ sameSCC(s[1], g) /\ sameSCC(g, f)
    BY <2>3, <2>5, WayBack
  <2> HIDE DEF d, s
  <2>7. /\ s[1] \in Funs /\ g \in Funs /\ s \in sitesFrom(s[1]) /\ g \in callees(s[1]) BY <2>6, SiteFuns
  <2>8. g \in lockcandidateFuncSet
    <3>1. f = g \/ f \in reachable(g) BY <2>6 DEF sameSCC
    <3> QED BY <2>3, <2>4, <2>7, <3>1, Candidates
  <2>9. s[1] \in lockcandidateFuncSet
    <3>1. g \in reachable(s[1]) BY <2>7, CallReaches
    <3> QED BY <2>7, <2>8, <3>1, Candidates
  <2>10. <<d, s[1]>> \in visitedCLPs
    <3>1. SUFFICES ASSUME <<d, s[1]>> \notin visitedCLPs PROVE FALSE OBVIOUS
    <3>2. Missed(n - 1) BY <2>6, <2>9, <3>1 DEF Missed
    <3>3. n \in Nat /\ n - 1 \in Nat BY <2>2, <2>6
    <3>4. n - 1 \in Bad BY <3>2, <3>3
    <3> QED BY <2>2, <3>3, <3>4
  <2>11. collectedFrom(<<d, s[1]>>) BY <2>10
  <2>12. <<pushLockCxt(d, s, g), g>> \in visitedCLPs BY <2>7, <2>9, <2>11 DEF collectedFrom, isLockCandidateFun
  <2>13. pushLockCxt(d, s, g) = c BY <2>6, <2>7, SCCIs DEF pushLockCxt
  <2>14. <<c, g>> \in visitedCLPs BY <2>12, <2>13
  <2>15. <<c, f>> \in visitedCLPs BY <2>3, <2>4, <2>6, <2>7, <2>14, CollectedInCycle
  <2> QED BY <2>3, <2>15
<1>2. ASSUME NEW c, NEW f, WayTo(c, f), f \in lockcandidateFuncSet, <<c, f>> \notin visitedCLPs PROVE FALSE
  <2>1. Len(c) \in Nat BY <1>2 DEF WayTo
  <2>2. Missed(Len(c)) BY <1>2 DEF Missed
  <2> QED BY <1>1, <2>1, <2>2
<1> QED BY <1>2

\* The invariant answers the assertion of the walk.
LEMMA FoundFollows == LockInv => CxtLocksFound
<1> SUFFICES ASSUME LockInv, pass = "span", spanList # <<>>, linst \in locksites PROVE lcur \in cxtLockset
  BY DEF CxtLocksFound
<1>1. prog \in Programs /\ SCCsAre BY DEF LockInv, CyclesKnown
<1>2. /\ lockcandidateFuncSet = buildCandidateFuncSetforLock
      /\ \A f \in entryProcs \cap lockcandidateFuncSet : <<<<>>, f>> \in visitedCLPs
      /\ \A v \in visitedCLPs \ ToSet(clpList) : collectedFrom(v)
      /\ clpList = <<>>
  BY DEF LockInv, Collecting
<1>3. \A v \in visitedCLPs : collectedFrom(v)
  <2>1. ToSet(clpList) = {} BY <1>2 DEF ToSet
  <2> QED BY <1>2, <2>1
<1>4. lcur \in Stmts BY DEF LockInv, Walking, lcur
<1> DEFINE c == lcur[1]
<1>5. lcur = <<c, linst>> /\ WayTo(c, linst[1]) BY <1>4 DEF Stmts, linst
<1>6. linst[1] \in buildCandidateFuncSetforLock BY DEF buildCandidateFuncSetforLock
<1>7. <<c, linst[1]>> \in visitedCLPs BY <1>1, <1>2, <1>3, <1>5, <1>6, CollectedEverywhere
<1>8. collectedFrom(<<c, linst[1]>>) BY <1>3, <1>7
<1>9. <<c, linst>> \in cxtLockset BY <1>8 DEF collectedFrom
<1> QED BY <1>5, <1>9

-----------------------------------------------------------------------------
(* The passes before the locks *)

LEMMA SameProgram ==
  ASSUME prog' = prog
  PROVE  /\ Funs' = Funs /\ Insts' = Insts /\ callSitesAll' = callSitesAll
         /\ entryProcs' = entryProcs /\ locksites' = locksites
         /\ \A n : ins(n)' = ins(n)
         /\ \A f : sitesFrom(f)' = sitesFrom(f)
         /\ \A f : reachable(f)' = reachable(f)
         /\ \A f, g : sameSCC(f, g)' <=> sameSCC(f, g)
         /\ \A c, f : WayTo(c, f)' <=> WayTo(c, f)
         /\ Stmts' = Stmts
         /\ buildCandidateFuncSetforLock' = buildCandidateFuncSetforLock
<1>1. Funs' = Funs /\ \A n : ins(n)' = ins(n) BY DEF Funs, ins
<1>2. \A f : instsOf(f)' = instsOf(f) BY DEF instsOf
<1>3. Insts' = Insts BY <1>1, <1>2 DEF Insts
<1>4. \A f : sitesFrom(f)' = sitesFrom(f) BY <1>1, <1>2 DEF sitesFrom
<1>5. \A f : callees(f)' = callees(f) BY <1>1, <1>4 DEF callees
<1>6. \A f : reachable(f)' = reachable(f) BY <1>1, <1>5 DEF reachable
<1>7. \A f, g : sameSCC(f, g)' <=> sameSCC(f, g) BY <1>6 DEF sameSCC
<1>8. \A f : sitesOf(f)' = sitesOf(f) BY <1>1, <1>3 DEF sitesOf, withOp
<1>9. entryProcs' = entryProcs BY <1>1, <1>8 DEF entryProcs
<1>10. callSitesAll' = callSitesAll /\ locksites' = locksites /\ unlocksites' = unlocksites
  BY <1>1, <1>3 DEF callSitesAll, locksites, unlocksites, withOp
<1>11. \A c, f : WayTo(c, f)' <=> WayTo(c, f) BY <1>1, <1>7, <1>9, <1>10 DEF WayTo
<1>12. Stmts' = Stmts BY <1>3, <1>10, <1>11 DEF Stmts
<1>13. buildCandidateFuncSetforLock' = buildCandidateFuncSetforLock
  BY <1>1, <1>6, <1>10 DEF buildCandidateFuncSetforLock
<1> QED BY <1>1, <1>3, <1>4, <1>6, <1>7, <1>9, <1>10, <1>11, <1>12, <1>13

LEMMA SameCycles ==
  ASSUME prog' = prog, tcgSCC' = tcgSCC
  PROVE  /\ SCCsAre' <=> SCCsAre
         /\ \A c, n, f : pushLockCxt(c, n, f)' = pushLockCxt(c, n, f)
BY SameProgram DEF SCCsAre, pushLockCxt, inSameCallGraphSCC

LEMMA StartLock == Init => LockInv
<1> SUFFICES ASSUME Init PROVE LockInv OBVIOUS
<1>1. prog \in Programs /\ pass = "tct" /\ ~ begun BY DEF Init, TCTInit, begun
<1> QED BY <1>1 DEF LockInv, CyclesKnown, Collecting, Walking

\* Until the locks are looked at the invariant is about the cycles only.
LEMMA EarlyKeeps ==
  ASSUME LockInv, prog' = prog, pass' \notin {"clp", "span"}, CyclesKnown'
  PROVE  LockInv'
BY DEF LockInv, Collecting, Walking

LEMMA TreeKeeps ==
  ASSUME LockInv, TCTNext
  PROVE  LockInv'
<1>1. CASE build
  <2>1. prog' = prog /\ pass' = "tct" /\ tcgSCC' = {p \in Funs \X Funs : sameSCC(p[1], p[2])}
    BY <1>1 DEF build
  <2>2. SCCsAre' BY <2>1, SameProgram DEF SCCsAre
  <2> QED BY <2>1, <2>2, EarlyKeeps DEF CyclesKnown
<1>2. CASE popFromCTPWorkList
  <2>1. prog' = prog /\ pass' = "tct" /\ tcgSCC' = tcgSCC
    BY <1>2 DEF popFromCTPWorkList
  <2>2. begun' => SCCsAre' BY <2>1, SameCycles DEF LockInv, CyclesKnown, begun
  <2> QED BY <2>1, <2>2, EarlyKeeps DEF CyclesKnown
<1>3. CASE collectMultiForkedThreads
  <2>1. prog' = prog /\ pass' = "fja" /\ begun /\ tcgSCC' = tcgSCC
    BY <1>3 DEF collectMultiForkedThreads
  <2>2. SCCsAre' BY <2>1, SameCycles DEF LockInv, CyclesKnown
  <2> QED BY <2>1, <2>2, EarlyKeeps DEF CyclesKnown
<1> QED BY <1>1, <1>2, <1>3 DEF TCTNext

LEMMA ForkJoinPasses ==
  ASSUME FJANext
  PROVE  prog' = prog /\ pass = "fja" /\ pass' \in {"fja", "mhp"}
<1>1. CASE analyzeForkJoinPair BY <1>1 DEF analyzeForkJoinPair
<1>2. CASE fjaDone BY <1>2 DEF fjaDone
<1>3. CASE fjaHandleFork BY <1>3 DEF fjaHandleFork, following, finish
<1>4. CASE fjaHandleJoin BY <1>4 DEF fjaHandleJoin, following, finish
<1>5. CASE fjaHandleCall BY <1>5 DEF fjaHandleCall, following, finish
<1>6. CASE fjaHandleRet BY <1>6 DEF fjaHandleRet, following, finish
<1>7. CASE fjaHandleIntra BY <1>7 DEF fjaHandleIntra, following, finish
<1> QED BY <1>1, <1>2, <1>3, <1>4, <1>5, <1>6, <1>7 DEF FJANext

LEMMA ParallelPasses ==
  ASSUME MHPNext
  PROVE  prog' = prog /\ pass = "mhp" /\ pass' \in {"mhp", "lock"}
<1>1. CASE analyzeInterleaving BY <1>1 DEF analyzeInterleaving
<1>2. CASE updateNonCandidateFunInterleaving BY <1>2 DEF updateNonCandidateFunInterleaving
<1>3. CASE mhpHandleNonCandidateFun BY <1>3 DEF mhpHandleNonCandidateFun, visiting, become
<1>4. CASE mhpHandleFork BY <1>4 DEF mhpHandleFork, visiting, become
<1>5. CASE mhpHandleJoin BY <1>5 DEF mhpHandleJoin, visiting, become
<1>6. CASE mhpHandleCall BY <1>6 DEF mhpHandleCall, visiting, become
<1>7. CASE mhpHandleRet BY <1>7 DEF mhpHandleRet, visiting, become
<1>8. CASE mhpHandleIntra BY <1>8 DEF mhpHandleIntra, visiting, become
<1> QED BY <1>1, <1>2, <1>3, <1>4, <1>5, <1>6, <1>7, <1>8 DEF MHPNext

LEMMA MiddleKeeps ==
  ASSUME LockInv, FJANext \/ MHPNext, UNCHANGED tctVars
  PROVE  LockInv'
<1>1. prog' = prog /\ pass # "tct" /\ pass' \notin {"clp", "span"} BY ForkJoinPasses, ParallelPasses
<1>2. tcgSCC' = tcgSCC BY DEF tctVars
<1>3. SCCsAre' BY <1>1, <1>2, SameCycles DEF LockInv, CyclesKnown
<1> QED BY <1>1, <1>3, EarlyKeeps DEF CyclesKnown

-----------------------------------------------------------------------------
(* The collection *)

LEMMA LaterCycles ==
  ASSUME LockInv, prog' = prog, UNCHANGED tctVars, pass # "tct"
  PROVE  SCCsAre /\ SCCsAre' /\ CyclesKnown' /\ \A c, n, f : pushLockCxt(c, n, f)' = pushLockCxt(c, n, f)
<1>1. tcgSCC' = tcgSCC BY DEF tctVars
<1> QED BY <1>1, SameCycles DEF LockInv, CyclesKnown

LEMMA EntriesFinite ==
  ASSUME prog \in Programs, NEW F
  PROVE  IsFiniteSet(entryProcs \cap F) /\ entryProcs \cap F \subseteq Funs
<1>1. entryProcs \cap F \subseteq Funs BY DEF entryProcs
<1> QED BY <1>1, ProgramIs, FS_Subset

LEMMA IntraKeeps ==
  ASSUME LockInv, analyzeIntraProcedualLock, UNCHANGED tctVars
  PROVE  LockInv'
<1> DEFINE cand == buildCandidateFuncSetforLock
           starts == entryProcs \cap cand
<1>1. /\ prog' = prog /\ pass = "lock" /\ pass' = "clp"
      /\ lockcandidateFuncSet' = cand
      /\ visitedCLPs' = ToSet(clpList')
  BY DEF analyzeIntraProcedualLock
<1>2. PICK order \in SetToSeqs(starts) : clpList' = [i \in DOMAIN order |-> <<<<>>, order[i]>>]
  BY <1>1 DEF analyzeIntraProcedualLock
<1> HIDE DEF cand
<1>3. prog \in Programs BY DEF LockInv
<1>4. IsFiniteSet(starts) /\ starts \subseteq Funs BY <1>3, EntriesFinite
<1>5. order \in Seq(starts) /\ ToSet(order) = starts BY <1>4, Enumerates
<1>6. DOMAIN order = 1 .. Len(order) /\ Len(order) \in Nat /\ \A i \in 1 .. Len(order) : order[i] \in starts
  BY <1>5
<1> HIDE DEF starts
<1>7. clpList' = [i \in 1 .. Len(order) |-> <<<<>>, order[i]>>] BY <1>2, <1>6
<1>8. visitedCLPs' = {<<<<>>, order[i]>> : i \in 1 .. Len(order)} BY <1>1, <1>7 DEF ToSet
<1>9. clpList' \in Seq(visitedCLPs') BY <1>6, <1>7, <1>8
<1>10. visitedCLPs' \subseteq Seq(callSitesAll) \X Funs
  <2> DEFINE none == <<>>
             T == Seq(callSitesAll)
  <2>1. none \in T OBVIOUS
  <2>2. visitedCLPs' = {<<none, order[i]>> : i \in 1 .. Len(order)} BY <1>8
  <2> HIDE DEF none, T
  <2>3. \A i \in 1 .. Len(order) : <<none, order[i]>> \in T \X Funs BY <1>4, <1>6, <2>1
  <2>4. visitedCLPs' \subseteq T \X Funs BY <2>2, <2>3
  <2> QED BY <2>4 DEF T
<1>11. \A f \in starts : <<<<>>, f>> \in visitedCLPs'
  <2> SUFFICES ASSUME NEW f \in starts PROVE <<<<>>, f>> \in visitedCLPs' OBVIOUS
  <2>1. PICK i \in 1 .. Len(order) : order[i] = f BY <1>5, <1>6 DEF ToSet
  <2> QED BY <1>8, <2>1
<1>12. /\ (entryProcs \cap lockcandidateFuncSet)' = starts
       /\ callSitesAll' = callSitesAll /\ Funs' = Funs /\ buildCandidateFuncSetforLock' = cand
  BY <1>1, SameProgram DEF starts, cand
<1>13. Collecting' BY <1>1, <1>9, <1>10, <1>11, <1>12 DEF Collecting
<1>14. Walking' BY <1>1 DEF Walking
<1> QED BY <1>1, <1>3, <1>13, <1>14, LaterCycles DEF LockInv

LEMMA QueueSet ==
  ASSUME NEW S, NEW s \in Seq(S), s # <<>>
  PROVE  Head(s) \in S /\ Tail(s) \in Seq(S) /\ ToSet(s) \subseteq {Head(s)} \cup ToSet(Tail(s))
<1>1. Len(s) \in Nat /\ Len(s) >= 1 /\ Head(s) = s[1] /\ Head(s) \in S /\ Tail(s) \in Seq(S) OBVIOUS
<1>2. Len(Tail(s)) = Len(s) - 1 /\ \A i \in 1 .. Len(s) - 1 : Tail(s)[i] = s[i + 1] OBVIOUS
<1>3. DOMAIN s = 1 .. Len(s) /\ DOMAIN Tail(s) = 1 .. Len(s) - 1 BY <1>1, <1>2
<1>4. ASSUME NEW i \in 1 .. Len(s) PROVE s[i] \in {Head(s)} \cup ToSet(Tail(s))
  <2>1. CASE i = 1 BY <1>1, <2>1
  <2>2. CASE i # 1
    <3>1. i - 1 \in 1 .. Len(s) - 1 /\ i - 1 + 1 = i BY <1>1, <2>2
    <3>2. Tail(s)[i - 1] = s[i] BY <1>2, <3>1
    <3> QED BY <1>3, <3>1, <3>2 DEF ToSet
  <2> QED BY <2>1, <2>2
<1> QED BY <1>1, <1>3, <1>4 DEF ToSet

LEMMA CollectKeeps ==
  ASSUME LockInv, collectCxtLock, UNCHANGED tctVars
  PROVE  LockInv'
<1>1. /\ pass = "clp" /\ pass' = "clp" /\ prog' = prog /\ clpList # <<>>
      /\ lockcandidateFuncSet' = lockcandidateFuncSet
  BY DEF collectCxtLock
<1> DEFINE clp   == Head(clpList)
           sites == IF isLockCandidateFun(clp[2]) THEN sitesFrom(clp[2]) ELSE {}
           to(s) == <<pushLockCxt(clp[1], s, ins(s).fun), ins(s).fun>>
           new   == {to(s) : s \in sites} \ visitedCLPs
<1>2. /\ visitedCLPs' = visitedCLPs \cup new
      /\ cxtLockset' = cxtLockset \cup {<<clp[1], k>> : k \in {n \in locksites : n[1] = clp[2]}}
  BY DEF collectCxtLock
<1>3. PICK order \in SetToSeqs(new) : clpList' = Tail(clpList) \o order BY DEF collectCxtLock
<1>4. /\ prog \in Programs
      /\ lockcandidateFuncSet = buildCandidateFuncSetforLock
      /\ \A f \in entryProcs \cap lockcandidateFuncSet : <<<<>>, f>> \in visitedCLPs
      /\ clpList \in Seq(visitedCLPs)
      /\ visitedCLPs \subseteq Seq(callSitesAll) \X Funs
      /\ \A v \in visitedCLPs \ ToSet(clpList) : collectedFrom(v)
  BY <1>1 DEF LockInv, Collecting
<1>5. /\ clp \in visitedCLPs /\ Tail(clpList) \in Seq(visitedCLPs)
      /\ ToSet(clpList) \subseteq {clp} \cup ToSet(Tail(clpList))
  BY <1>1, <1>4, QueueSet
<1>6. clp[1] \in Seq(callSitesAll) /\ clp[2] \in Funs /\ clp = <<clp[1], clp[2]>> BY <1>4, <1>5
<1> HIDE DEF clp
<1>7. sites \subseteq sitesFrom(clp[2]) OBVIOUS
<1>8. ASSUME NEW s \in sites PROVE to(s) \in Seq(callSitesAll) \X Funs
  <2>1. s \in Insts /\ ins(s).op \in {"call", "fork"} /\ ins(s).fun \in Funs BY <1>4, <1>6, <1>7, SitesAre
  <2>2. s \in callSitesAll BY <2>1 DEF callSitesAll, withOp
  <2>3. pushLockCxt(clp[1], s, ins(s).fun) \in Seq(callSitesAll) BY <1>6, <2>2 DEF pushLockCxt
  <2> QED BY <2>1, <2>3
<1>9. new \subseteq Seq(callSitesAll) \X Funs BY <1>8
<1>10. IsFiniteSet(new)
  <2>1. sites \subseteq Insts BY <1>4, <1>6, <1>7, SitesAre
  <2>2. IsFiniteSet(sites) BY <1>4, <2>1, CallsFinite, FS_Subset
  <2> DEFINE M == [s \in sites |-> to(s)]
             T == {to(s) : s \in sites}
  <2>3. M \in Surjection(sites, T) BY DEF Surjection
  <2>4. IsFiniteSet(T) BY <2>2, <2>3, FS_Surjection
  <2>5. new \subseteq T OBVIOUS
  <2> HIDE DEF T, new
  <2> QED BY <2>4, <2>5, FS_Subset
<1> DEFINE V == visitedCLPs \cup new
<1>11. order \in Seq(new) /\ ToSet(order) = new BY <1>3, <1>10, Enumerates
<1>12. \A s \in sites : to(s) \in V OBVIOUS
<1>13. new \subseteq V /\ visitedCLPs \subseteq V OBVIOUS
<1>14. V = visitedCLPs' BY <1>2
<1> HIDE DEF new, V, sites
<1>15. clpList' \in Seq(V) /\ ToSet(clpList') = ToSet(Tail(clpList)) \cup new
  <2>1. order \in Seq(V) /\ Tail(clpList) \in Seq(V) BY <1>5, <1>11, <1>13
  <2>2. /\ Tail(clpList) \o order \in Seq(V)
        /\ ToSet(Tail(clpList) \o order) = ToSet(Tail(clpList)) \cup ToSet(order)
    BY <2>1, JoinedSet
  <2>3. clpList' = Tail(clpList) \o order BY <1>3
  <2> QED BY <1>11, <2>2, <2>3, Zenon
<1>16. V \subseteq Seq(callSitesAll) \X Funs BY <1>4, <1>9 DEF V
<1>17. /\ SCCsAre /\ SCCsAre' /\ CyclesKnown' /\ \A c, n, f : pushLockCxt(c, n, f)' = pushLockCxt(c, n, f)
  BY <1>1, LaterCycles
<1>18. /\ \A f : sitesFrom(f)' = sitesFrom(f)
       /\ \A n : ins(n)' = ins(n)
       /\ locksites' = locksites /\ entryProcs' = entryProcs /\ callSitesAll' = callSitesAll /\ Funs' = Funs
       /\ buildCandidateFuncSetforLock' = buildCandidateFuncSetforLock
  BY <1>1, SameProgram
<1>19. \A f : isLockCandidateFun(f)' <=> isLockCandidateFun(f) BY <1>1 DEF isLockCandidateFun
<1>20. ASSUME NEW v \in V \ ToSet(clpList') PROVE collectedFrom(v)'
  <2>1. v \in visitedCLPs /\ v \notin ToSet(Tail(clpList)) BY <1>15 DEF V
  <2>2. CASE v = clp
    <3>1. ASSUME isLockCandidateFun(v[2]), NEW s \in sitesFrom(v[2]) PROVE to(s) \in V
      <4>1. s \in sites BY <2>2, <3>1 DEF sites
      <4> QED BY <1>12, <4>1
    <3>2. \A k \in locksites : k[1] = v[2] => <<v[1], k>> \in cxtLockset' BY <1>2, <2>2
    <3>3. \A s : to(s) = <<pushLockCxt(v[1], s, ins(s).fun), ins(s).fun>> BY <2>2
    <3> HIDE DEF to
    <3> QED BY <1>14, <1>17, <1>18, <1>19, <3>1, <3>2, <3>3 DEF collectedFrom
  <2>3. CASE v # clp
    <3>1. v \notin ToSet(clpList) BY <1>5, <2>1, <2>3
    <3>2. collectedFrom(v) BY <1>4, <2>1, <3>1
    <3>3. cxtLockset \subseteq cxtLockset' BY <1>2
    <3> QED BY <1>13, <1>14, <1>17, <1>18, <1>19, <3>2, <3>3 DEF collectedFrom
  <2> QED BY <2>2, <2>3
<1>21. Collecting'
  <2>1. \A f \in (entryProcs \cap lockcandidateFuncSet)' : <<<<>>, f>> \in visitedCLPs'
    BY <1>1, <1>4, <1>13, <1>14, <1>18
  <2> QED BY <1>1, <1>4, <1>14, <1>15, <1>16, <1>18, <1>20, <2>1 DEF Collecting
<1>22. Walking' BY <1>1 DEF Walking
<1> QED BY <1>1, <1>4, <1>17, <1>21, <1>22 DEF LockInv

-----------------------------------------------------------------------------
(* The walk *)

\* what the steps of the walk hand on, and what it has on its list
isWalk(w) == \E a, b, c : w = [sets |-> a, spans |-> b, list |-> c]
walks(w, S) == isWalk(w) /\ w.list \in Seq(S)

LEMMA WalkIs ==
  ASSUME NEW S, NEW a, NEW b, NEW c \in Seq(S)
  PROVE  walks([sets |-> a, spans |-> b, list |-> c], S)
<1> DEFINE w == [sets |-> a, spans |-> b, list |-> c]
<1>1. isWalk(w) BY DEF isWalk
<1>2. w.list = c OBVIOUS
<1> QED BY <1>1, <1>2 DEF walks

LEMMA MarkKeeps ==
  ASSUME NEW S, NEW w, walks(w, S), NEW cs \in S, NEW src
  PROVE  walks(markCxtStmtFlag(w, cs, src), S)
<1>1. PICK a, b, c : w = [sets |-> a, spans |-> b, list |-> c] BY DEF walks, isWalk
<1>2. w.sets = a /\ w.spans = b /\ w.list = c BY <1>1
<1>3. c \in Seq(S) BY <1>2 DEF walks
<1>4. push(c, cs) \in Seq(S) BY <1>3 DEF push
<1> DEFINE v == markCxtStmtFlag(w, cs, src)
<1>5. \/ \E d, e : v = [sets |-> d, spans |-> e, list |-> push(c, cs)]
      \/ v = w
  <2>1. CASE cs \notin DOMAIN w.sets
    <3>1. v = [sets |-> (cs :> w.sets[src]) @@ w.sets, spans |-> w.spans \cup {<<cl, cs>> : cl \in w.sets[src]},
               list |-> push(w.list, cs)]
      BY <2>1 DEF markCxtStmtFlag
    <3> QED BY <1>2, <3>1
  <2>2. CASE cs \in DOMAIN w.sets /\ w.sets[cs] \subseteq w.sets[src] BY <2>2 DEF markCxtStmtFlag
  <2>3. CASE cs \in DOMAIN w.sets /\ ~ (w.sets[cs] \subseteq w.sets[src])
    <3>1. v = [w EXCEPT !.sets[cs] = @ \cap w.sets[src], !.list = push(@, cs)] BY <2>3 DEF markCxtStmtFlag
    <3>2. v = [sets |-> [a EXCEPT ![cs] = @ \cap w.sets[src]], spans |-> b, list |-> push(c, cs)] BY <1>1, <3>1
    <3> QED BY <3>2
  <2> QED BY <2>1, <2>2, <2>3
<1> HIDE DEF v
<1>6. CASE v = w BY <1>6 DEF v
<1>7. CASE \E d, e : v = [sets |-> d, spans |-> e, list |-> push(c, cs)]
  <2>1. PICK d, e : v = [sets |-> d, spans |-> e, list |-> push(c, cs)] BY <1>7
  <2>2. v.list = push(c, cs) BY <2>1
  <2> QED BY <1>4, <2>1, <2>2 DEF v, walks, isWalk
<1> QED BY <1>5, <1>6, <1>7

\* the statements of a list marked one after the other
marks(f, w, css, src, n) ==
  f = [k \in 0 .. n |-> IF k = 0 THEN w ELSE markCxtStmtFlag(f[k - 1], css[k], src)]

LEMMA MarksExist ==
  ASSUME NEW w, NEW css, NEW src, NEW n \in Nat
  PROVE  \E f : marks(f, w, css, src, n)
<1> DEFINE G(k) == \E f : marks(f, w, css, src, k)
           Bad == {k \in 0 .. n : ~ G(k)}
<1>1. G(0)
  <2> DEFINE f0 == [k \in 0 .. 0 |-> w]
  <2>1. f0 = [k \in 0 .. 0 |-> IF k = 0 THEN w ELSE markCxtStmtFlag(f0[k - 1], css[k], src)] OBVIOUS
  <2> HIDE DEF f0
  <2> QED BY <2>1 DEF marks
<1>2. ASSUME NEW k \in 1 .. n, G(k - 1) PROVE G(k)
  <2>1. PICK f : marks(f, w, css, src, k - 1) BY <1>2
  <2> DEFINE g == [i \in 0 .. k |-> IF i < k THEN f[i] ELSE markCxtStmtFlag(f[k - 1], css[k], src)]
  <2>2. \A i \in 0 .. k - 1 : f[i] = IF i = 0 THEN w ELSE markCxtStmtFlag(f[i - 1], css[i], src)
    BY <2>1 DEF marks
  <2>3. \A i \in 0 .. k : g[i] = IF i = 0 THEN w ELSE markCxtStmtFlag(g[i - 1], css[i], src)
    <3> SUFFICES ASSUME NEW i \in 0 .. k
                 PROVE  g[i] = IF i = 0 THEN w ELSE markCxtStmtFlag(g[i - 1], css[i], src)
      OBVIOUS
    <3>1. i # 0 => g[i - 1] = f[i - 1] OBVIOUS
    <3>2. CASE i < k
      <4>1. i \in 0 .. k - 1 /\ g[i] = f[i] BY <3>2
      <4> QED BY <2>2, <3>1, <4>1
    <3>3. CASE i = k
      <4>1. g[i] = markCxtStmtFlag(f[k - 1], css[k], src) /\ i # 0 BY <3>3
      <4> QED BY <3>1, <3>3, <4>1
    <3> QED BY <3>2, <3>3
  <2>4. g = [i \in 0 .. k |-> g[i]] OBVIOUS
  <2> HIDE DEF g
  <2>5. g = [i \in 0 .. k |-> IF i = 0 THEN w ELSE markCxtStmtFlag(g[i - 1], css[i], src)] BY <2>3, <2>4
  <2> QED BY <2>5 DEF marks
<1> HIDE DEF G
<1>3. Bad = {}
  <2>1. SUFFICES ASSUME Bad # {} PROVE FALSE OBVIOUS
  <2>2. Bad \in SUBSET Nat OBVIOUS
  <2>3. PICK t \in Bad : \A u \in Bad : t <= u BY <2>1, <2>2, LeastNat
  <2>4. t \in 1 .. n /\ t - 1 \in 0 .. n /\ t - 1 < t BY <1>1, <2>3
  <2>5. t - 1 \in Bad BY <1>2, <2>3, <2>4
  <2>6. t <= t - 1 BY <2>3, <2>5
  <2> QED BY <2>4, <2>6
<1>4. G(n) BY <1>3
<1> QED BY <1>4 DEF G

LEMMA MarkAllKeeps ==
  ASSUME NEW S, NEW w, walks(w, S), NEW css \in Seq(S), NEW src
  PROVE  walks(markAll(w, css, src), S)
<1> DEFINE n == Len(css)
           f == CHOOSE g : marks(g, w, css, src, n)
           Bad == {k \in 0 .. n : ~ walks(f[k], S)}
<1>1. n \in Nat /\ \A k \in 1 .. n : css[k] \in S OBVIOUS
<1>2. markAll(w, css, src) = f[n] BY DEF markAll, marks
<1>3. marks(f, w, css, src, n) BY <1>1, MarksExist
<1> HIDE DEF f, n
<1>4. \A k \in 0 .. n : f[k] = IF k = 0 THEN w ELSE markCxtStmtFlag(f[k - 1], css[k], src) BY <1>3 DEF marks
<1>5. Bad = {}
  <2>1. SUFFICES ASSUME Bad # {} PROVE FALSE OBVIOUS
  <2>2. Bad \in SUBSET Nat BY <1>1
  <2>3. PICK t \in Bad : \A u \in Bad : t <= u BY <2>1, <2>2, LeastNat
  <2>4. t \in 0 .. n /\ ~ walks(f[t], S) BY <2>3
  <2>5. t # 0
    <3>1. 0 \in 0 .. n BY <1>1
    <3>2. f[0] = w BY <1>4, <3>1
    <3> QED BY <2>4, <3>2
  <2>6. t \in 1 .. n /\ t - 1 \in 0 .. n /\ t - 1 < t BY <1>1, <2>4, <2>5
  <2>7. ~ walks(f[t - 1], S)
    <3>1. f[t] = markCxtStmtFlag(f[t - 1], css[t], src) BY <1>4, <2>4, <2>5
    <3>2. css[t] \in S BY <1>1, <2>6
    <3> QED BY <2>4, <3>1, <3>2, MarkKeeps
  <2>8. t <= t - 1 BY <2>3, <2>6, <2>7
  <2> QED BY <2>6, <2>8
<1>6. n \in 0 .. n BY <1>1
<1> QED BY <1>2, <1>5, <1>6

\* the statement a step of the walk is at, and what it starts from
LEMMA AtStmt ==
  ASSUME LockInv, pass = "span", spanList # <<>>
  PROVE  /\ prog \in Programs /\ SCCsAre
         /\ lcur \in Stmts /\ linst \in Insts /\ linst[1] \in Funs /\ WayTo(lcur[1], linst[1])
         /\ lcur[1] \in Seq(callSitesAll)
         /\ walks(lrest, Stmts)
<1>1. spanList \in Seq(Stmts) BY DEF LockInv, Walking
<1>2. lcur \in Stmts /\ Tail(spanList) \in Seq(Stmts) BY <1>1, QueueSet DEF lcur
<1>3. prog \in Programs /\ SCCsAre BY DEF LockInv, CyclesKnown
<1>4. linst \in Insts /\ WayTo(lcur[1], linst[1]) /\ lcur[1] \in Seq(callSitesAll) BY <1>2 DEF Stmts, linst
<1>5. linst[1] \in Funs BY <1>3, <1>4, InstIs
<1>6. walks(lrest, Stmts)
  <2>1. PICK a : lrest = [sets |-> a, spans |-> spanOf, list |-> Tail(spanList)] BY DEF lrest
  <2> QED BY <1>2, <2>1, WalkIs
<1> QED BY <1>2, <1>3, <1>4, <1>5, <1>6

LEMMA FlowsIn ==
  ASSUME prog \in Programs, NEW c \in Seq(callSitesAll), NEW n \in Insts, WayTo(c, n[1])
  PROVE  flowsTo(c, n) \in Seq(Stmts)
<1> DEFINE to == succs(n)
           T == ToSet(to)
<1>1. to \in Seq(T) BY SuccessorsAre
<1>2. \A s \in T : s \in Insts /\ s[1] = n[1] BY SuccessorsIn
<1>3. flowsTo(c, n) = [i \in DOMAIN to |-> <<c, to[i]>>] BY DEF flowsTo
<1> HIDE DEF to, T
<1>4. \A s \in T : <<c, s>> \in Stmts BY <1>2 DEF Stmts
<1>5. DOMAIN to = 1 .. Len(to) /\ Len(to) \in Nat /\ \A i \in 1 .. Len(to) : to[i] \in T BY <1>1
<1>6. \A i \in 1 .. Len(to) : <<c, to[i]>> \in Stmts BY <1>4, <1>5
<1> QED BY <1>3, <1>5, <1>6

LEMMA NextKeeps ==
  ASSUME LockInv, pass = "span", spanList # <<>>, NEW w, walks(w, Stmts)
  PROVE  walks(toNext(w), Stmts)
<1>1. flowsTo(lcur[1], linst) \in Seq(Stmts) BY AtStmt, FlowsIn
<1> QED BY <1>1, MarkAllKeeps DEF toNext

LEMMA CalleeKeeps ==
  ASSUME LockInv, pass = "span", spanList # <<>>, ins(linst).op \in {"call", "fork"}
  PROVE  walks(toCallee(lrest), Stmts)
<1> DEFINE f == ins(linst).fun
           c == pushLockCxt(lcur[1], linst, f)
<1>1. linst \in callSitesAll BY AtStmt DEF callSitesAll, withOp
<1>2. WayTo(c, f) BY <1>1, AtStmt, WayInto
<1>3. c \in Seq(callSitesAll) /\ f \in Funs BY <1>2 DEF WayTo
<1>4. entryOf(f) \in Insts /\ entryOf(f)[1] = f BY <1>3, AtStmt, Ends
<1> HIDE DEF c
<1>5. <<c, entryOf(f)>> \in Stmts BY <1>2, <1>3, <1>4 DEF Stmts
<1>6. toCallee(lrest) = markCxtStmtFlag(lrest, <<c, entryOf(f)>>, lcur) BY DEF toCallee, c
<1> QED BY <1>5, <1>6, AtStmt, MarkKeeps

LEMMA ReturnsIn ==
  ASSUME LockInv, pass = "span", spanList # <<>>, NEW f, f = linst[1],
         NEW after, after = UNION {ToSet(flowsTo(popLockCxt(lcur[1], c, f), c)) :
                                     c \in {d \in callEdgesTo(f) : matchLockCxt(lcur[1], d, f)}}
  PROVE  after \subseteq Stmts /\ IsFiniteSet(after)
<1> DEFINE sites == {d \in callEdgesTo(f) : matchLockCxt(lcur[1], d, f)}
           G == [c \in sites |-> ToSet(flowsTo(popLockCxt(lcur[1], c, f), c))]
           B == {ToSet(flowsTo(popLockCxt(lcur[1], c, f), c)) : c \in sites}
<1>1. ASSUME NEW c \in sites
      PROVE  /\ flowsTo(popLockCxt(lcur[1], c, f), c) \in Seq(Stmts)
             /\ c \in Insts
  <2>1. c \in callSitesAll /\ WayTo(popLockCxt(lcur[1], c, f), c[1]) BY AtStmt, WayOut
  <2>2. c \in Insts /\ popLockCxt(lcur[1], c, f) \in Seq(callSitesAll) BY <2>1, AtStmt, SiteFuns DEF WayTo
  <2> QED BY <2>1, <2>2, AtStmt, FlowsIn
<1>2. \A s \in Seq(Stmts) : ToSet(s) \subseteq Stmts /\ IsFiniteSet(ToSet(s))
  <2> SUFFICES ASSUME NEW s \in Seq(Stmts) PROVE ToSet(s) \subseteq Stmts /\ IsFiniteSet(ToSet(s)) OBVIOUS
  <2>1. Len(s) \in Nat /\ DOMAIN s = 1 .. Len(s) /\ \A i \in 1 .. Len(s) : s[i] \in Stmts OBVIOUS
  <2>2. IsFiniteSet(1 .. Len(s)) BY <2>1, FS_Interval
  <2>3. s \in Surjection(1 .. Len(s), ToSet(s)) BY <2>1 DEF Surjection, ToSet
  <2>4. IsFiniteSet(ToSet(s)) BY <2>2, <2>3, FS_Surjection
  <2> QED BY <2>1, <2>4 DEF ToSet
<1>3. IsFiniteSet(sites)
  <2>1. sites \subseteq Insts BY <1>1
  <2> QED BY <2>1, AtStmt, CallsFinite, FS_Subset
<1>4. G \in Surjection(sites, B) BY DEF Surjection
<1>5. IsFiniteSet(B) BY <1>3, <1>4, FS_Surjection
<1>6. \A X \in B : X \subseteq Stmts /\ IsFiniteSet(X) BY <1>1, <1>2
<1>7. after = UNION B OBVIOUS
<1> HIDE DEF B
<1>8. IsFiniteSet(UNION B) BY <1>5, <1>6, FS_UNION
<1> QED BY <1>6, <1>7, <1>8

LEMMA VisitedKeeps ==
  ASSUME LockInv, pass = "span", UNCHANGED tctVars, NEW w, walks(w, Stmts), visited(w)
  PROVE  LockInv'
<1>1. /\ spanList' = w.list /\ prog' = prog /\ pass' = pass
      /\ lockcandidateFuncSet' = lockcandidateFuncSet /\ clpList' = clpList
      /\ visitedCLPs' = visitedCLPs /\ cxtLockset' = cxtLockset
  BY DEF visited
<1>2. Walking' BY <1>1, SameProgram DEF Walking, walks
<1>3. Collecting'
  <2>1. \A f : isLockCandidateFun(f)' <=> isLockCandidateFun(f) BY <1>1 DEF isLockCandidateFun
  <2>2. \A c, n, f : pushLockCxt(c, n, f)' = pushLockCxt(c, n, f) BY <1>1, LaterCycles
  <2>3. \A v : collectedFrom(v) => collectedFrom(v)' BY <1>1, <2>1, <2>2, SameProgram DEF collectedFrom
  <2> QED BY <1>1, <2>3, SameProgram DEF LockInv, Collecting
<1>4. CyclesKnown' BY <1>1, LaterCycles
<1> QED BY <1>1, <1>2, <1>3, <1>4 DEF LockInv

LEMMA WalkKeeps ==
  ASSUME LockInv, UNCHANGED tctVars,
         \/ lsaHandleFork \/ acquireLock \/ releaseLock \/ lsaHandleCall \/ lsaHandleRet \/ lsaHandleIntra
  PROVE  LockInv'
<1>1. pass = "span" /\ spanList # <<>>
  BY DEF lsaHandleFork, acquireLock, releaseLock, lsaHandleCall, lsaHandleRet, lsaHandleIntra, spanning
<1>2. walks(lrest, Stmts) BY <1>1, AtStmt
<1>3. CASE lsaHandleFork
  <2>1. ins(linst).op = "fork" /\ visited(toNext(toCallee(lrest))) BY <1>3 DEF lsaHandleFork, spanning
  <2>2. walks(toNext(toCallee(lrest)), Stmts) BY <1>1, <2>1, CalleeKeeps, NextKeeps
  <2> QED BY <1>1, <2>1, <2>2, VisitedKeeps
<1>4. CASE acquireLock
  <2> DEFINE s == addCxtStmtToSpan(lrest, lcur, lcur)
  <2>1. visited(IF lcur \in lrest.sets[lcur] THEN lrest ELSE toNext(s)) BY <1>4 DEF acquireLock
  <2>2. walks(s, Stmts)
    <3>1. PICK a, b, c : lrest = [sets |-> a, spans |-> b, list |-> c] BY <1>2 DEF walks, isWalk
    <3>2. c \in Seq(Stmts) BY <1>2, <3>1 DEF walks
    <3> DEFINE d == (lcur :> lrest.sets[lcur] \cup {lcur}) @@ a
               e == b \cup {<<lcur, lcur>>}
    <3>3. s = [lrest EXCEPT !.sets = (lcur :> lrest.sets[lcur] \cup {lcur}) @@ @, !.spans = @ \cup {<<lcur, lcur>>}]
      BY DEF addCxtStmtToSpan
    <3>4. s = [sets |-> d, spans |-> e, list |-> c] BY <3>1, <3>3
    <3> HIDE DEF s, d, e
    <3> QED BY <3>2, <3>4, WalkIs
  <2> HIDE DEF s
  <2>3. walks(toNext(s), Stmts) BY <1>1, <2>2, NextKeeps
  <2> QED BY <1>1, <1>2, <2>1, <2>3, VisitedKeeps
<1>5. CASE releaseLock
  <2> DEFINE s == [lrest EXCEPT !.sets[lcur] = @ \ {lcur}, !.spans = @ \ {<<lcur, lcur>>}]
  <2>1. visited(IF lcur \in lrest.sets[lcur] THEN toNext(s) ELSE lrest) BY <1>5 DEF releaseLock
  <2>2. walks(s, Stmts)
    <3>1. PICK a, b, c : lrest = [sets |-> a, spans |-> b, list |-> c] BY <1>2 DEF walks, isWalk
    <3>2. c \in Seq(Stmts) BY <1>2, <3>1 DEF walks
    <3> DEFINE d == [a EXCEPT ![lcur] = @ \ {lcur}]
               e == b \ {<<lcur, lcur>>}
    <3>3. lrest.sets = a /\ lrest.spans = b BY <3>1
    <3>4. s = [lrest EXCEPT !.sets = d, !.spans = e] BY <3>3
    <3> HIDE DEF s, d, e
    <3>5. s = [sets |-> d, spans |-> e, list |-> c] BY <3>1, <3>4
    <3> QED BY <3>2, <3>5, WalkIs
  <2> HIDE DEF s
  <2>3. walks(toNext(s), Stmts) BY <1>1, <2>2, NextKeeps
  <2> QED BY <1>1, <1>2, <2>1, <2>3, VisitedKeeps
<1>6. CASE lsaHandleCall
  <2>1. ins(linst).op = "call" /\ visited(toCallee(lrest)) BY <1>6 DEF lsaHandleCall, spanning
  <2> QED BY <1>1, <2>1, CalleeKeeps, VisitedKeeps
<1>7. CASE lsaHandleRet
  <2> DEFINE f == linst[1]
             after == UNION {ToSet(flowsTo(popLockCxt(lcur[1], c, f), c)) :
                               c \in {d \in callEdgesTo(f) : matchLockCxt(lcur[1], d, f)}}
  <2>1. PICK order \in SetToSeqs(after) : visited(markAll(lrest, order, lcur)) BY <1>7 DEF lsaHandleRet
  <2>2. after \subseteq Stmts /\ IsFiniteSet(after) BY <1>1, ReturnsIn
  <2> HIDE DEF after
  <2>3. order \in Seq(after) BY <2>2, Enumerates
  <2>4. order \in Seq(Stmts) BY <2>2, <2>3
  <2>5. walks(markAll(lrest, order, lcur), Stmts) BY <1>2, <2>4, MarkAllKeeps
  <2> QED BY <1>1, <2>1, <2>5, VisitedKeeps
<1>8. CASE lsaHandleIntra
  <2>1. visited(toNext(lrest)) BY <1>8 DEF lsaHandleIntra
  <2> QED BY <1>1, <1>2, <2>1, NextKeeps, VisitedKeeps
<1> QED BY <1>3, <1>4, <1>5, <1>6, <1>7, <1>8

LEMMA StartWalkKeeps ==
  ASSUME LockInv, startSpans, UNCHANGED tctVars
  PROVE  LockInv'
<1> DEFINE starts == entryProcs \cap lockcandidateFuncSet
<1>1. /\ pass = "clp" /\ pass' = "span" /\ prog' = prog /\ clpList = <<>> /\ clpList' = clpList
      /\ lockcandidateFuncSet' = lockcandidateFuncSet
      /\ visitedCLPs' = visitedCLPs /\ cxtLockset' = cxtLockset
  BY DEF startSpans
<1>2. PICK order \in SetToSeqs(starts) : spanList' = [i \in DOMAIN order |-> <<<<>>, entryOf(order[i])>>]
  BY DEF startSpans
<1>3. prog \in Programs BY DEF LockInv
<1>4. IsFiniteSet(starts) /\ starts \subseteq Funs BY <1>3, EntriesFinite
<1>5. order \in Seq(starts) BY <1>4, Enumerates
<1>6. DOMAIN order = 1 .. Len(order) /\ Len(order) \in Nat /\ \A i \in 1 .. Len(order) : order[i] \in starts
  BY <1>5
<1>7. \A f \in starts : f \in Funs /\ f \in entryProcs BY <1>4
<1> HIDE DEF starts
<1> DEFINE none == <<>>
<1>8. none \in Seq(callSitesAll) /\ Len(none) = 0 OBVIOUS
<1>9. spanList' = [i \in 1 .. Len(order) |-> <<none, entryOf(order[i])>>] BY <1>2, <1>6
<1> HIDE DEF none
<1>10. ASSUME NEW f \in starts PROVE <<none, entryOf(f)>> \in Stmts
  <2>1. entryOf(f) \in Insts /\ entryOf(f)[1] = f BY <1>3, <1>7, Ends
  <2>2. WayTo(none, f) BY <1>7, <1>8 DEF WayTo
  <2> QED BY <1>8, <2>1, <2>2 DEF Stmts
<1>11. spanList' \in Seq(Stmts) BY <1>6, <1>9, <1>10
<1>12. Walking' BY <1>1, <1>11, SameProgram DEF Walking
<1>13. Collecting'
  <2>1. \A f : isLockCandidateFun(f)' <=> isLockCandidateFun(f) BY <1>1 DEF isLockCandidateFun
  <2>2. \A c, n, f : pushLockCxt(c, n, f)' = pushLockCxt(c, n, f) BY <1>1, LaterCycles
  <2>3. \A v : collectedFrom(v) => collectedFrom(v)' BY <1>1, <2>1, <2>2, SameProgram DEF collectedFrom
  <2> QED BY <1>1, <2>3, SameProgram DEF LockInv, Collecting
<1>14. CyclesKnown' BY <1>1, LaterCycles
<1> QED BY <1>1, <1>3, <1>12, <1>13, <1>14 DEF LockInv

LEMMA LocksDoneKeeps ==
  ASSUME LockInv, locksDone, UNCHANGED tctVars
  PROVE  LockInv'
<1>1. prog' = prog /\ pass = "span" /\ pass' = "run" BY DEF locksDone
<1>2. CyclesKnown' BY <1>1, LaterCycles
<1> QED BY <1>1, <1>2, EarlyKeeps

-----------------------------------------------------------------------------

LEMMA LockStays ==
  ASSUME LockInv, UNCHANGED <<prog, pass, tctVars, lockVars>>
  PROVE  LockInv'
<1>1. /\ prog' = prog /\ pass' = pass /\ tcgSCC' = tcgSCC
      /\ lockcandidateFuncSet' = lockcandidateFuncSet /\ clpList' = clpList
      /\ visitedCLPs' = visitedCLPs /\ cxtLockset' = cxtLockset /\ spanList' = spanList
  BY DEF tctVars, lockVars
<1>2. /\ SCCsAre' <=> SCCsAre
      /\ \A c, n, f : pushLockCxt(c, n, f)' = pushLockCxt(c, n, f)
  BY <1>1, SameCycles
<1>3. CyclesKnown' BY <1>1, <1>2 DEF LockInv, CyclesKnown, begun
<1>4. Collecting'
  <2>1. \A f : isLockCandidateFun(f)' <=> isLockCandidateFun(f) BY <1>1 DEF isLockCandidateFun
  <2>2. \A v : collectedFrom(v) => collectedFrom(v)' BY <1>1, <1>2, <2>1, SameProgram DEF collectedFrom
  <2> QED BY <1>1, <2>2, SameProgram DEF LockInv, Collecting
<1>5. Walking' BY <1>1, SameProgram DEF LockInv, Walking
<1> QED BY <1>1, <1>3, <1>4, <1>5 DEF LockInv

LEMMA LockStep == LockInv /\ [Next]_vars => LockInv'
<1> SUFFICES ASSUME LockInv, [Next]_vars PROVE LockInv' OBVIOUS
<1>1. CASE TCTNext BY <1>1, TreeKeeps
<1>2. CASE (FJANext \/ MHPNext) /\ UNCHANGED tctVars BY <1>2, MiddleKeeps
<1>3. CASE LockNext /\ UNCHANGED tctVars
  BY <1>3, IntraKeeps, CollectKeeps, StartWalkKeeps, LocksDoneKeeps, WalkKeeps DEF LockNext
<1>4. CASE UNCHANGED <<prog, pass, tctVars, lockVars>> BY <1>4, LockStays
<1>5. UNCHANGED vars => UNCHANGED <<prog, pass, tctVars, lockVars>> BY DEF vars
<1> QED BY <1>1, <1>2, <1>3, <1>4, <1>5 DEF Next, Analysis, Stopped

LEMMA LockAlways == Spec => []LockInv
<1>1. LockInv /\ [Next]_vars => LockInv' BY LockStep
<1> QED BY <1>1, StartLock, PTL DEF Spec

\* No run of the walk meets an acquire in a context that the collection has not found:
\* the assertion "context-sensitive lock not found!!" of analyzeLockSpanCxtStmt never
\* fails, whatever the program and its call graph.
THEOREM LocksFound == Spec => []CxtLocksFound
BY LockAlways, FoundFollows, PTL

=============================================================================
