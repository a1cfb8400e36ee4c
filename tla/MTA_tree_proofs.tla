--------------------------- MODULE MTA_tree_proofs ---------------------------
(****************************************************************************)
(* Theorems of MTA, for every run of every program: outside of recursions   *)
(* the thread creation tree has an edge for every fork that happens; and a  *)
(* thread the tree does not mark as forked many times has one instance.     *)
(*                                                                          *)
(* The tree is built from pairs of a function and a context in a thread.    *)
(* When the worklist is empty every pair is done: what its function calls   *)
(* or forks is a pair too.  A running instance is followed through its      *)
(* stack: each function on it that leads to a fork is a pair, in the thread *)
(* and the context that the path of the instance gives.  So the fork that   *)
(* it comes to is in the tree; and since a context outside of recursions    *)
(* tells the thread (its last fork site is the thread's), the edge to the   *)
(* forked thread starts at the thread that forks it.                        *)
(*                                                                          *)
(* A thread that is not marked has a fork site outside of loops and         *)
(* recursions, and so have all that lead to it; so its context is the whole *)
(* path of an instance, and a path of that kind is gone once only, as a     *)
(* frame comes to an instruction outside of loops once (Once).              *)
(****************************************************************************)
EXTENDS MTA_proofs

-----------------------------------------------------------------------------
(* Recursive functions on the numbers up to n *)

LEMMA UpTo ==
  ASSUME NEW n \in Nat, NEW B, 0 \in B, \A k \in 1 .. n : k - 1 \in B => k \in B
  PROVE  \A k \in 0 .. n : k \in B
<1> DEFINE Bad == {k \in 0 .. n : k \notin B}
<1>1. Bad = {}
  <2>1. SUFFICES ASSUME Bad # {} PROVE FALSE OBVIOUS
  <2>2. Bad \in SUBSET Nat OBVIOUS
  <2>3. PICK t \in Bad : \A u \in Bad : t <= u BY <2>1, <2>2, LeastNat
  <2>4. t # 0 BY <2>3
  <2>5. t \in 1 .. n /\ t - 1 \in 0 .. n /\ t - 1 < t BY <2>3, <2>4
  <2>6. t - 1 \in Bad BY <2>3, <2>5
  <2>7. t <= t - 1 BY <2>3, <2>6
  <2> QED BY <2>5, <2>7
<1> QED BY <1>1

-----------------------------------------------------------------------------
(* The context of a path *)

\* what cxtOf makes of the first sites of a path, for each number of them
cxtsOf(f, path, n) ==
  f = [k \in 0 .. n |-> IF k = 0 THEN <<>> ELSE pushCxt(f[k - 1], path[k], ins(path[k]).fun)]

LEMMA CxtsExist ==
  ASSUME NEW path, NEW n \in Nat
  PROVE  \E f : cxtsOf(f, path, n)
<1> DEFINE B == {k \in 0 .. n : \E f : cxtsOf(f, path, k)}
<1>1. 0 \in B
  <2> DEFINE f0 == [k \in 0 .. 0 |-> <<>>]
  <2>1. f0 = [k \in 0 .. 0 |-> IF k = 0 THEN <<>> ELSE pushCxt(f0[k - 1], path[k], ins(path[k]).fun)] OBVIOUS
  <2> HIDE DEF f0
  <2>2. cxtsOf(f0, path, 0) BY <2>1 DEF cxtsOf
  <2> QED BY <2>2
<1>2. ASSUME NEW k \in 1 .. n, k - 1 \in B PROVE k \in B
  <2>1. PICK f : cxtsOf(f, path, k - 1) BY <1>2
  <2> DEFINE x == pushCxt(f[k - 1], path[k], ins(path[k]).fun)
             g == [i \in 0 .. k |-> IF i < k THEN f[i] ELSE x]
  <2>2. \A i \in 0 .. k - 1 : f[i] = IF i = 0 THEN <<>> ELSE pushCxt(f[i - 1], path[i], ins(path[i]).fun)
    BY <2>1 DEF cxtsOf
  <2>3. \A i \in 0 .. k : g[i] = IF i = 0 THEN <<>> ELSE pushCxt(g[i - 1], path[i], ins(path[i]).fun)
    <3> SUFFICES ASSUME NEW i \in 0 .. k
                 PROVE  g[i] = IF i = 0 THEN <<>> ELSE pushCxt(g[i - 1], path[i], ins(path[i]).fun)
      OBVIOUS
    <3>1. i # 0 => g[i - 1] = f[i - 1] OBVIOUS
    <3>2. CASE i < k
      <4>1. i \in 0 .. k - 1 /\ g[i] = f[i] BY <3>2
      <4> QED BY <2>2, <3>1, <4>1
    <3>3. CASE i = k
      <4>1. g[i] = x /\ i # 0 BY <3>3
      <4> QED BY <3>1, <3>3, <4>1
    <3> QED BY <3>2, <3>3
  <2>4. g = [i \in 0 .. k |-> g[i]] OBVIOUS
  <2> HIDE DEF g
  <2>5. g = [i \in 0 .. k |-> IF i = 0 THEN <<>> ELSE pushCxt(g[i - 1], path[i], ins(path[i]).fun)] BY <2>3, <2>4
  <2>6. cxtsOf(g, path, k) BY <2>5 DEF cxtsOf
  <2> QED BY <2>6
<1> HIDE DEF B
<1>3. n \in B BY <1>1, <1>2, UpTo
<1> QED BY <1>3 DEF B

LEMMA CxtOfNone == cxtOf(<<>>) = <<>>
<1> DEFINE f == CHOOSE g : cxtsOf(g, <<>>, 0)
<1>1. cxtOf(<<>>) = f[0] BY DEF cxtOf, cxtsOf
<1>2. cxtsOf(f, <<>>, 0) BY CxtsExist
<1> HIDE DEF f
<1>3. f[0] = <<>> BY <1>2 DEF cxtsOf
<1> QED BY <1>1, <1>3

LEMMA CxtOfNext ==
  ASSUME NEW S, NEW p \in Seq(S), NEW s \in S
  PROVE  cxtOf(Append(p, s)) = pushCxt(cxtOf(p), s, ins(s).fun)
<1> DEFINE q == Append(p, s)
           n == Len(p)
           f == CHOOSE h : cxtsOf(h, p, n)
           g == CHOOSE h : cxtsOf(h, q, n + 1)
<1>1. n \in Nat /\ Len(q) = n + 1 /\ q[n + 1] = s /\ \A k \in 1 .. n : q[k] = p[k] OBVIOUS
<1>2. cxtOf(p) = f[n] BY DEF cxtOf, cxtsOf
<1>3. cxtOf(q) = g[n + 1]
  <2>1. cxtOf(q) = (CHOOSE h : cxtsOf(h, q, Len(q)))[Len(q)] BY DEF cxtOf, cxtsOf
  <2> QED BY <1>1, <2>1
<1>4. cxtsOf(f, p, n) BY <1>1, CxtsExist
<1>5. cxtsOf(g, q, n + 1)
  <2>1. n + 1 \in Nat BY <1>1
  <2> QED BY <2>1, CxtsExist
<1> HIDE DEF q, n, f, g
<1>6. \A k \in 0 .. n : f[k] = IF k = 0 THEN <<>> ELSE pushCxt(f[k - 1], p[k], ins(p[k]).fun)
  BY <1>4 DEF cxtsOf
<1>7. \A k \in 0 .. n + 1 : g[k] = IF k = 0 THEN <<>> ELSE pushCxt(g[k - 1], q[k], ins(q[k]).fun)
  BY <1>5 DEF cxtsOf
<1>8. f[n] = g[n]
  <2> DEFINE B == {k \in 0 .. n : f[k] = g[k]}
  <2>1. 0 \in B
    <3>1. 0 \in 0 .. n /\ 0 \in 0 .. n + 1 BY <1>1
    <3> QED BY <1>6, <1>7, <3>1
  <2>2. ASSUME NEW k \in 1 .. n, k - 1 \in B PROVE k \in B
    <3>1. k \in 0 .. n /\ k \in 0 .. n + 1 /\ k # 0 BY <1>1
    <3>2. f[k - 1] = g[k - 1] /\ q[k] = p[k] BY <1>1, <2>2
    <3> QED BY <1>6, <1>7, <3>1, <3>2
  <2> HIDE DEF B
  <2>3. n \in 0 .. n BY <1>1
  <2>4. n \in B BY <1>1, <2>1, <2>2, <2>3, UpTo
  <2> QED BY <2>4 DEF B
<1>9. n + 1 \in 0 .. n + 1 /\ n + 1 # 0 /\ n + 1 - 1 = n BY <1>1
<1>10. g[n + 1] = pushCxt(g[n], s, ins(s).fun) BY <1>1, <1>7, <1>9
<1> QED BY <1>2, <1>3, <1>8, <1>10 DEF q

-----------------------------------------------------------------------------
(* The call graph around forks *)

\* the functions that fork or join, or reach one that does
toForks == LET here == {n[1] : n \in forksites \cup joinsites}
           IN here \cup {f \in Funs : reachable(f) \cap here # {}}

\* nothing that leads to f is in a recursion
straight(f) == f \in toForks /\ \A g \in callersUpTo(f) : ~ isInCycle(g)

LEMMA ForksAre ==
  ASSUME prog \in Programs
  PROVE  /\ toForks \subseteq markRelProcs /\ markRelProcs \subseteq Funs
         /\ \A n \in forksites : n \in Insts /\ n[1] \in toForks /\ n \in sitesFrom(n[1])
<1>1. \A n \in forksites \cup joinsites : n \in Insts /\ n[1] \in Funs
  BY InstIs DEF forksites, joinsites, withOp
<1>2. \A n \in forksites : ins(n).fun \in Funs /\ n \in sitesFrom(n[1])
  BY SiteIs, InstHas DEF forksites, withOp
<1> QED BY <1>1, <1>2 DEF toForks, markRelProcs

\* a caller of a function that leads to forks does so too, and it is straight if that is
LEMMA CallerIs ==
  ASSUME prog \in Programs, NEW f \in Funs, NEW s \in sitesFrom(f), NEW g, g = ins(s).fun
  PROVE  /\ g \in Funs
         /\ g \in toForks => f \in toForks
         /\ straight(g) => straight(f) /\ ~ sameSCC(f, g)
         /\ f \in toForks /\ straight(f) => ~ sameSCC(f, g)
         /\ f \in callersUpTo(g) /\ callersUpTo(f) \subseteq callersUpTo(g)
<1>1. g \in Funs /\ g \in callees(f) BY SitesAre
<1>2. g \in reachable(f) /\ reachable(g) \subseteq reachable(f) BY <1>1, CallReaches
<1>3. g \in toForks => f \in toForks
  <2> DEFINE here == {n[1] : n \in forksites \cup joinsites}
  <2>1. toForks = here \cup {h \in Funs : reachable(h) \cap here # {}} BY DEF toForks
  <2> HIDE DEF here
  <2> QED BY <1>1, <1>2, <2>1
<1>4. f \in callersUpTo(g) /\ callersUpTo(f) \subseteq callersUpTo(g)
  <2>1. \A h \in Funs : f \in reachable(h) => g \in reachable(h)
    <3> SUFFICES ASSUME NEW h \in Funs, f \in reachable(h) PROVE g \in reachable(h) OBVIOUS
    <3> QED BY <1>2, ReachesOn
  <2> QED BY <1>2, <2>1 DEF callersUpTo
<1>5. sameSCC(f, g) => isInCycle(f)
  <2>1. CASE f = g BY <1>2, <2>1 DEF isInCycle
  <2>2. CASE f # g
    <3>1. sameSCC(f, g) => f \in reachable(g) BY <2>2 DEF sameSCC
    <3> QED BY <1>2, <3>1 DEF isInCycle
  <2> QED BY <2>1, <2>2
<1>6. straight(g) => straight(f) /\ ~ sameSCC(f, g) BY <1>3, <1>4, <1>5 DEF straight
<1>7. f \in callersUpTo(f) BY DEF callersUpTo
<1>8. straight(f) => ~ sameSCC(f, g) BY <1>5, <1>7 DEF straight
<1> QED BY <1>1, <1>3, <1>4, <1>6, <1>8

Contexts == Seq(callSitesAll)

\* what pushCxt does once the tree is begun
LEMMA PushIs ==
  ASSUME prog \in Programs, SCCsAre, candidateFuncSet = markRelProcs,
         NEW f \in markRelProcs, NEW s \in sitesFrom(f), NEW c \in Contexts
  PROVE  /\ pushCxt(c, s, ins(s).fun) = IF sameSCC(f, ins(s).fun) THEN c ELSE Append(c, s)
         /\ pushCxt(c, s, ins(s).fun) \in Contexts
<1> DEFINE g == ins(s).fun
<1>1. f \in Funs BY ForksAre
<1>2. s[1] = f /\ g \in Funs /\ s \in callSitesAll BY <1>1, SitesAre DEF callSitesAll, withOp
<1>3. inSameCallGraphSCC(s[1], g) <=> sameSCC(f, g) BY <1>1, <1>2, SCCIs
<1>4. pushCxt(c, s, g) = IF sameSCC(f, g) THEN c ELSE Append(c, s)
  BY <1>2, <1>3 DEF pushCxt, isCandidateFun
<1> QED BY <1>2, <1>4 DEF Contexts

-----------------------------------------------------------------------------
(* The invariant of the tree *)

Thread == [cxt : Contexts, fork : callSitesAll \cup {NoFork}, forkCxt : Contexts, routine : Funs,
           inloop : BOOLEAN, incycle : BOOLEAN, multiforked : BOOLEAN]

\* a thread has its context and fork site to itself
OwnKeys(nds) == \A t, u \in DOMAIN nds : nds[t].cxt = nds[u].cxt /\ nds[t].fork = nds[u].fork => t = u

\* what newThread writes of the fork site s in the thread n
Marked(n, s) == (isInRecursion(s) => n.incycle) /\ (isInLoopInstruction(s) => n.inloop)

\* t hangs below the thread of a pair whose context its fork site extends to t's
ForkedBy(nds, eds, vis, t) ==
  \E s \in forksites :
    /\ nds[t].fork = s /\ Marked(nds[t], s)
    /\ \E v \in vis : v[3] = s[1] /\ <<v[1], t>> \in eds /\ nds[t].cxt = pushCxt(v[2], s, ins(s).fun)

\* the context of a pair outside of recursions tells its thread: its part up to the last
\* fork is the thread's
InThread(nds, v) ==
  straight(v[3]) =>
    \E m \in 0 .. Len(v[2]) :
      /\ Len(nds[v[1]].cxt) = m /\ \A k \in 1 .. m : nds[v[1]].cxt[k] = v[2][k]
      /\ nds[v[1]].fork = (IF m = 0 THEN NoFork ELSE v[2][m])
      /\ m > 0 => ins(v[2][m]).op = "fork"
      /\ \A k \in m + 1 .. Len(v[2]) : ins(v[2][k]).op # "fork"

TreeOf(nds, eds, vis) ==
  /\ nds \in Seq(Thread)
  /\ vis \subseteq (DOMAIN nds) \X Contexts \X Funs
  /\ eds \subseteq (DOMAIN nds) \X (DOMAIN nds)
  /\ OwnKeys(nds)
  /\ nds # <<>> => nds[1].fork = NoFork /\ nds[1].cxt = <<>>
  /\ \A t \in DOMAIN nds \ {1} : ForkedBy(nds, eds, vis, t)
  /\ \A v \in vis : InThread(nds, v)

\* what is in the tree for a site of the function of a pair once the pair is done
HandledIn(nds, vis, v, s) ==
  LET g == ins(s).fun
      c == pushCxt(v[2], s, g)
  IN IF ins(s).op = "call" THEN <<v[1], c, g>> \in vis
     ELSE \E t \in DOMAIN nds : nds[t].cxt = c /\ nds[t].fork = s /\ <<t, c, g>> \in vis

DoneIn(nds, vis, v) ==
  v[3] \in markRelProcs => \A s \in sitesFrom(v[3]) : HandledIn(nds, vis, v, s)

isTree(w) == \E a, b, c, d : w = [nodes |-> a, edges |-> b, list |-> c, visited |-> d]
Good(w)   == isTree(w) /\ TreeOf(w.nodes, w.edges, w.visited) /\ w.list \in Seq(w.visited)

\* x is w with more in it
Grown(w, x) ==
  /\ DOMAIN w.nodes \subseteq DOMAIN x.nodes
  /\ \A t \in DOMAIN w.nodes : x.nodes[t] = w.nodes[t]
  /\ w.visited \subseteq x.visited
  /\ x.visited \ ToSet(x.list) \subseteq w.visited \ ToSet(w.list)

-----------------------------------------------------------------------------
(* One call or fork site *)

LEMMA TypedTree ==
  ASSUME NEW nds, NEW eds, NEW vis, TreeOf(nds, eds, vis)
  PROVE  /\ DOMAIN nds = 1 .. Len(nds) /\ Len(nds) \in Nat
         /\ \A t \in DOMAIN nds : nds[t] \in Thread /\ nds[t].cxt \in Contexts
         /\ \A v \in vis : /\ v = <<v[1], v[2], v[3]>> /\ v[1] \in DOMAIN nds /\ v[2] \in Contexts
                           /\ v[3] \in Funs
                           /\ Len(v[2]) \in Nat /\ DOMAIN v[2] = 1 .. Len(v[2])
<1>1. nds \in Seq(Thread) /\ vis \subseteq (DOMAIN nds) \X Contexts \X Funs BY DEF TreeOf
<1>2. DOMAIN nds = 1 .. Len(nds) /\ Len(nds) \in Nat BY <1>1
<1>3. \A t \in DOMAIN nds : nds[t] \in Thread BY <1>1, <1>2, ElementOfSeq
<1>4. \A t \in DOMAIN nds : nds[t].cxt \in Contexts BY <1>3 DEF Thread
<1>5. \A c \in Contexts : Len(c) \in Nat /\ DOMAIN c = 1 .. Len(c) BY DEF Contexts
<1> QED BY <1>1, <1>2, <1>3, <1>4, <1>5

LEMMA Pushed ==
  ASSUME NEW V, NEW l \in Seq(V), NEW p
  PROVE  push(l, p) \in Seq(V \cup {p}) /\ p \in ToSet(push(l, p)) /\ ToSet(l) \subseteq ToSet(push(l, p))
<1>1. l \in Seq(V \cup {p}) /\ Len(l) \in Nat /\ DOMAIN l = 1 .. Len(l) OBVIOUS
<1>2. CASE Contains(l, p)
  <2>1. push(l, p) = l BY <1>2 DEF push
  <2> QED BY <1>1, <1>2, <2>1 DEF Contains, ToSet
<1>3. CASE ~ Contains(l, p)
  <2> DEFINE m == Append(l, p)
  <2>1. push(l, p) = m BY <1>3 DEF push
  <2>2. /\ m \in Seq(V \cup {p}) /\ Len(m) = Len(l) + 1 /\ m[Len(l) + 1] = p
        /\ \A k \in 1 .. Len(l) : m[k] = l[k]
    BY <1>1
  <2> HIDE DEF m
  <2>3. DOMAIN m = 1 .. Len(l) + 1 BY <1>1, <2>2
  <2>4. Len(l) + 1 \in 1 .. Len(l) + 1 /\ \A k \in 1 .. Len(l) : k \in 1 .. Len(l) + 1 BY <1>1
  <2>5. p \in ToSet(m) BY <2>2, <2>3, <2>4 DEF ToSet
  <2>6. ToSet(l) \subseteq ToSet(m)
    <3> SUFFICES ASSUME NEW k \in 1 .. Len(l) PROVE l[k] \in ToSet(m) BY <1>1 DEF ToSet
    <3>1. k \in DOMAIN m /\ m[k] = l[k] BY <2>2, <2>3, <2>4
    <3> QED BY <3>1 DEF ToSet
  <2> QED BY <2>1, <2>2, <2>5, <2>6
<1> QED BY <1>2, <1>3

\* pairs in callees are in the thread of their caller
LEMMA InCallee ==
  ASSUME prog \in Programs, SCCsAre, candidateFuncSet = markRelProcs,
         NEW nds, NEW v, v[2] \in Contexts, InThread(nds, v), v[3] \in markRelProcs,
         NEW s \in sitesFrom(v[3]), ins(s).op = "call", NEW g, g = ins(s).fun
  PROVE  InThread(nds, <<v[1], pushCxt(v[2], s, g), g>>)
<1> DEFINE f == v[3]
           c == v[2]
           d == nds[v[1]].cxt
           p == <<v[1], pushCxt(c, s, g), g>>
<1>1. f \in Funs BY ForksAre
<1> SUFFICES ASSUME straight(g) PROVE InThread(nds, p) BY DEF InThread
<1>2. straight(f) /\ ~ sameSCC(f, g) BY <1>1, CallerIs
<1>3. p[2] = Append(c, s) /\ p[1] = v[1] BY <1>2, PushIs
<1>4. PICK m \in 0 .. Len(c) :
        /\ Len(d) = m /\ \A k \in 1 .. m : d[k] = c[k]
        /\ nds[v[1]].fork = (IF m = 0 THEN NoFork ELSE c[m])
        /\ m > 0 => ins(c[m]).op = "fork"
        /\ \A k \in m + 1 .. Len(c) : ins(c[k]).op # "fork"
  BY <1>2 DEF InThread
<1>5. /\ Len(c) \in Nat /\ Len(Append(c, s)) = Len(c) + 1 /\ Append(c, s)[Len(c) + 1] = s
      /\ \A k \in 1 .. Len(c) : Append(c, s)[k] = c[k]
  BY DEF Contexts
<1> HIDE DEF c, d, p, f
<1> DEFINE a == Append(c, s)
<1> HIDE DEF a
<1>6. /\ Len(c) \in Nat /\ Len(a) = Len(c) + 1 /\ a[Len(c) + 1] = s
      /\ \A k \in 1 .. Len(c) : a[k] = c[k]
  BY <1>5 DEF a
<1>7. m \in 0 .. Len(a) /\ \A k \in 1 .. m : k \in 1 .. Len(c) BY <1>6
<1>8. \A k \in 1 .. m : d[k] = a[k] BY <1>4, <1>6, <1>7
<1>9. m > 0 => m \in 1 .. m BY <1>6
<1>10. m > 0 => a[m] = c[m] BY <1>6, <1>7, <1>9
<1>11. nds[v[1]].fork = (IF m = 0 THEN NoFork ELSE a[m]) BY <1>4, <1>6, <1>10
<1>12. \A k \in m + 1 .. Len(a) : ins(a[k]).op # "fork"
  <2> SUFFICES ASSUME NEW k \in m + 1 .. Len(a) PROVE ins(a[k]).op # "fork" OBVIOUS
  <2>1. CASE k = Len(c) + 1 BY <1>6, <2>1
  <2>2. CASE k # Len(c) + 1
    <3>1. k \in m + 1 .. Len(c) /\ k \in 1 .. Len(c) BY <1>6, <2>2
    <3> QED BY <1>4, <1>6, <3>1
  <2> QED BY <2>1, <2>2
<1>13. p[2] = a /\ p[1] = v[1] BY <1>3 DEF a
<1>14. Len(nds[p[1]].cxt) = m /\ \A k \in 1 .. m : nds[p[1]].cxt[k] = p[2][k] BY <1>4, <1>8, <1>13 DEF d
<1> QED BY <1>4, <1>7, <1>10, <1>11, <1>12, <1>13, <1>14 DEF InThread

\* a thread's start routine is in it
LEMMA InForked ==
  ASSUME prog \in Programs, SCCsAre, candidateFuncSet = markRelProcs,
         NEW nds, NEW c \in Contexts, NEW f \in markRelProcs,
         NEW s \in sitesFrom(f), ins(s).op = "fork", NEW g, g = ins(s).fun,
         NEW t, nds[t].cxt = pushCxt(c, s, g), nds[t].fork = s
  PROVE  InThread(nds, <<t, pushCxt(c, s, g), g>>)
<1>1. f \in Funs BY ForksAre
<1> SUFFICES ASSUME straight(g) PROVE InThread(nds, <<t, pushCxt(c, s, g), g>>) BY DEF InThread
<1>2. ~ sameSCC(f, g) BY <1>1, CallerIs
<1>3. pushCxt(c, s, g) = Append(c, s) BY <1>2, PushIs
<1> DEFINE a == Append(c, s)
           m == Len(c) + 1
<1>4. Len(c) \in Nat /\ Len(a) = m /\ a[m] = s BY DEF Contexts
<1>5. nds[t].cxt = a BY <1>3
<1> HIDE DEF a
<1>6. m \in 0 .. Len(a) /\ m # 0 /\ m + 1 .. Len(a) = {} BY <1>4
<1> HIDE DEF m
<1> DEFINE p == <<t, a, g>>
<1>7. p[1] = t /\ p[2] = a OBVIOUS
<1> HIDE DEF p
<1>8. Len(nds[p[1]].cxt) = m /\ \A k \in 1 .. m : nds[p[1]].cxt[k] = p[2][k] BY <1>4, <1>5, <1>7
<1>9. nds[p[1]].fork = (IF m = 0 THEN NoFork ELSE p[2][m]) BY <1>4, <1>6, <1>7
<1>10. InThread(nds, p) BY <1>4, <1>6, <1>7, <1>8, <1>9 DEF InThread
<1> QED BY <1>3, <1>10 DEF p, a

-----------------------------------------------------------------------------
(* One call or fork site: what it adds *)

LEMMA MoreInTree ==
  ASSUME NEW nds, NEW eds, NEW vis, TreeOf(nds, eds, vis),
         NEW E \in SUBSET ((DOMAIN nds) \X (DOMAIN nds)), eds \subseteq E,
         NEW V \in SUBSET ((DOMAIN nds) \X Contexts \X Funs), vis \subseteq V,
         \A v \in V \ vis : InThread(nds, v)
  PROVE  TreeOf(nds, E, V)
<1>1. ASSUME NEW t \in DOMAIN nds \ {1} PROVE ForkedBy(nds, E, V, t)
  <2>1. ForkedBy(nds, eds, vis, t) BY DEF TreeOf
  <2>2. PICK s \in forksites :
          /\ nds[t].fork = s /\ Marked(nds[t], s)
          /\ \E v \in vis : v[3] = s[1] /\ <<v[1], t>> \in eds /\ nds[t].cxt = pushCxt(v[2], s, ins(s).fun)
    BY <2>1 DEF ForkedBy
  <2>3. \E v \in V : v[3] = s[1] /\ <<v[1], t>> \in E /\ nds[t].cxt = pushCxt(v[2], s, ins(s).fun)
    BY <2>2
  <2> QED BY <2>2, <2>3 DEF ForkedBy
<1>2. \A v \in V : InThread(nds, v) BY DEF TreeOf
<1>3. nds \in Seq(Thread) /\ OwnKeys(nds) /\ (nds # <<>> => nds[1].fork = NoFork /\ nds[1].cxt = <<>>)
  BY DEF TreeOf
<1> QED BY <1>1, <1>2, <1>3 DEF TreeOf

\* a worklist of pairs with one more in it
LEMMA AddedPair ==
  ASSUME NEW w, Good(w), NEW p \in (DOMAIN w.nodes) \X Contexts \X Funs, InThread(w.nodes, p),
         NEW x, x = pushToCTPWorkList(w, p)
  PROVE  /\ Good(x) /\ Grown(w, x) /\ p \in x.visited
         /\ x.nodes = w.nodes /\ x.edges = w.edges
<1>1. PICK a, b, c, d : w = [nodes |-> a, edges |-> b, list |-> c, visited |-> d] BY DEF Good, isTree
<1>2. w.nodes = a /\ w.edges = b /\ w.list = c /\ w.visited = d BY <1>1
<1>3. TreeOf(a, b, d) /\ c \in Seq(d) BY <1>2 DEF Good
<1>4. CASE p \in d
  <2>1. x = w BY <1>2, <1>4 DEF pushToCTPWorkList
  <2> QED BY <1>2, <1>4, <2>1 DEF Grown
<1>5. CASE p \notin d
  <2>1. x = [w EXCEPT !.visited = @ \cup {p}, !.list = push(@, p)] BY <1>2, <1>5 DEF pushToCTPWorkList
  <2>2. x = [nodes |-> a, edges |-> b, list |-> push(c, p), visited |-> d \cup {p}] BY <1>1, <2>1
  <2>3. x.nodes = a /\ x.edges = b /\ x.list = push(c, p) /\ x.visited = d \cup {p} BY <2>2
  <2>4. isTree(x) BY <2>2 DEF isTree
  <2>5. /\ push(c, p) \in Seq(d \cup {p}) /\ p \in ToSet(push(c, p))
        /\ ToSet(c) \subseteq ToSet(push(c, p))
    BY <1>3, Pushed
  <2>6. TreeOf(a, b, d \cup {p})
    <3>1. b \in SUBSET ((DOMAIN a) \X (DOMAIN a)) /\ d \subseteq (DOMAIN a) \X Contexts \X Funs
      BY <1>3 DEF TreeOf
    <3>2. d \cup {p} \in SUBSET ((DOMAIN a) \X Contexts \X Funs) BY <1>2, <3>1
    <3>3. \A v \in (d \cup {p}) \ d : InThread(a, v) BY <1>2
    <3> QED BY <1>3, <3>1, <3>2, <3>3, MoreInTree
  <2>7. Grown(w, x) BY <1>2, <2>3, <2>5 DEF Grown
  <2>8. Good(x) BY <2>3, <2>4, <2>5, <2>6 DEF Good
  <2> QED BY <1>2, <2>3, <2>7, <2>8
<1> QED BY <1>4, <1>5

oneMore(nds, n) == Append(nds, n)

\* the tree with n in it, below the thread of v
HasChild(nds, eds, vis, v, n) ==
  LET new  == Len(nds) + 1
      more == oneMore(nds, n)
  IN /\ TreeOf(more, eds \cup {<<v[1], new>>}, vis) /\ new \in DOMAIN more /\ more[new] = n
     /\ DOMAIN nds \subseteq DOMAIN more /\ \A t \in DOMAIN nds : more[t] = nds[t]
     /\ \A u \in vis : u[1] # new

\* a thread that is not in the tree, forked in the context of a pair that is
LEMMA NodeInTree ==
  ASSUME prog \in Programs, NEW nds, NEW eds, NEW vis, TreeOf(nds, eds, vis), nds # <<>>,
         NEW v \in vis, NEW n \in Thread, n.fork \in forksites, n.fork[1] = v[3],
         Marked(n, n.fork), n.cxt = pushCxt(v[2], n.fork, ins(n.fork).fun),
         ~ \E t \in DOMAIN nds : nds[t].cxt = n.cxt /\ nds[t].fork = n.fork
  PROVE  HasChild(nds, eds, vis, v, n)
<1> DEFINE s    == n.fork
           new  == Len(nds) + 1
           more == oneMore(nds, n)
           E    == eds \cup {<<v[1], new>>}
<1>1. /\ nds \in Seq(Thread) /\ vis \subseteq (DOMAIN nds) \X Contexts \X Funs
      /\ eds \subseteq (DOMAIN nds) \X (DOMAIN nds)
  BY DEF TreeOf
<1>2. DOMAIN nds = 1 .. Len(nds) /\ Len(nds) \in Nat /\ new \in Nat /\ new = Len(nds) + 1 BY <1>1
<1>3. /\ more \in Seq(Thread) /\ Len(more) = new /\ more[new] = n
      /\ \A t \in 1 .. Len(nds) : more[t] = nds[t]
  BY <1>1, <1>2 DEF oneMore
<1> HIDE DEF more, new
<1>4. DOMAIN more = 1 .. new BY <1>2, <1>3
<1>5. /\ new \in DOMAIN more /\ DOMAIN more = DOMAIN nds \cup {new} /\ new \notin DOMAIN nds /\ new # 1
      /\ 1 \in DOMAIN nds
  BY <1>1, <1>2, <1>4
<1>6. \A t \in DOMAIN nds : more[t] = nds[t] BY <1>2, <1>3
<1>7. \A u \in vis : u[1] \in DOMAIN nds /\ u[1] # new BY <1>1, <1>5
<1>8. vis \subseteq (DOMAIN more) \X Contexts \X Funs BY <1>1, <1>5
<1>9. E \subseteq (DOMAIN more) \X (DOMAIN more) BY <1>1, <1>5, <1>7
<1>10. OwnKeys(more)
  <2> SUFFICES ASSUME NEW t \in DOMAIN more, NEW u \in DOMAIN more,
                      more[t].cxt = more[u].cxt, more[t].fork = more[u].fork
               PROVE  t = u
    BY DEF OwnKeys
  <2>1. OwnKeys(nds) BY DEF TreeOf
  <2>2. CASE t \in DOMAIN nds /\ u \in DOMAIN nds BY <1>6, <2>1, <2>2 DEF OwnKeys
  <2>3. CASE t = new /\ u \in DOMAIN nds BY <1>3, <1>6, <2>3
  <2>4. CASE u = new /\ t \in DOMAIN nds BY <1>3, <1>6, <2>4
  <2> QED BY <1>5, <2>2, <2>3, <2>4
<1>11. ASSUME NEW t \in DOMAIN more \ {1} PROVE ForkedBy(more, E, vis, t)
  <2>1. CASE t = new
    <3>1. v[3] = s[1] /\ <<v[1], t>> \in E /\ more[t].cxt = pushCxt(v[2], s, ins(s).fun) BY <1>3, <2>1
    <3>2. more[t].fork = s /\ Marked(more[t], s) BY <1>3, <2>1
    <3> QED BY <3>1, <3>2 DEF ForkedBy
  <2>2. CASE t \in DOMAIN nds
    <3>1. ForkedBy(nds, eds, vis, t) BY <2>2 DEF TreeOf
    <3>2. PICK r \in forksites :
            /\ nds[t].fork = r /\ Marked(nds[t], r)
            /\ \E u \in vis : u[3] = r[1] /\ <<u[1], t>> \in eds /\ nds[t].cxt = pushCxt(u[2], r, ins(r).fun)
      BY <3>1 DEF ForkedBy
    <3>3. more[t] = nds[t] /\ eds \subseteq E BY <1>6, <2>2
    <3> QED BY <3>2, <3>3 DEF ForkedBy
  <2> QED BY <1>5, <2>1, <2>2
<1>12. ASSUME NEW u \in vis PROVE InThread(more, u)
  <2>1. InThread(nds, u) BY DEF TreeOf
  <2>2. more[u[1]] = nds[u[1]] BY <1>6, <1>7
  <2> QED BY <2>1, <2>2 DEF InThread
<1>13. more[1].fork = NoFork /\ more[1].cxt = <<>> BY <1>5, <1>6 DEF TreeOf
<1>14. TreeOf(more, E, vis)
  BY <1>3, <1>8, <1>9, <1>10, <1>11, <1>12, <1>13 DEF TreeOf
<1>15. more = oneMore(nds, n) BY DEF more
<1> HIDE DEF more, E
<1>16. E = eds \cup {<<v[1], Len(nds) + 1>>} /\ new = Len(nds) + 1 BY DEF E, new
<1>17. new \in DOMAIN more /\ more[new] = n BY <1>3, <1>5
<1>18. DOMAIN nds \subseteq DOMAIN more BY <1>5
<1> QED BY <1>6, <1>7, <1>14, <1>15, <1>16, <1>17, <1>18, Zenon DEF HasChild

LEMMA GrowOn ==
  ASSUME NEW w, NEW x, NEW y, Grown(w, x), Grown(x, y)
  PROVE  Grown(w, y)
<1>1. /\ DOMAIN w.nodes \subseteq DOMAIN x.nodes /\ DOMAIN x.nodes \subseteq DOMAIN y.nodes
      /\ w.visited \subseteq x.visited /\ x.visited \subseteq y.visited
      /\ x.visited \ ToSet(x.list) \subseteq w.visited \ ToSet(w.list)
      /\ y.visited \ ToSet(y.list) \subseteq x.visited \ ToSet(x.list)
  BY DEF Grown
<1>2. \A t \in DOMAIN w.nodes : x.nodes[t] = w.nodes[t] /\ y.nodes[t] = x.nodes[t] BY <1>1 DEF Grown
<1> QED BY <1>1, <1>2 DEF Grown

LEMMA StaysHandled ==
  ASSUME NEW w, NEW x, Grown(w, x), NEW v, NEW s, HandledIn(w.nodes, w.visited, v, s)
  PROVE  HandledIn(x.nodes, x.visited, v, s)
<1> DEFINE g == ins(s).fun
           c == pushCxt(v[2], s, g)
<1>1. /\ DOMAIN w.nodes \subseteq DOMAIN x.nodes /\ w.visited \subseteq x.visited
      /\ \A t \in DOMAIN w.nodes : x.nodes[t] = w.nodes[t]
  BY DEF Grown
<1>2. CASE ins(s).op = "call"
  <2>1. <<v[1], c, g>> \in x.visited BY <1>1, <1>2 DEF HandledIn
  <2> QED BY <1>2, <2>1 DEF HandledIn
<1>3. CASE ins(s).op # "call"
  <2>1. PICK t \in DOMAIN w.nodes : w.nodes[t].cxt = c /\ w.nodes[t].fork = s /\ <<t, c, g>> \in w.visited
    BY <1>3 DEF HandledIn
  <2>2. t \in DOMAIN x.nodes /\ x.nodes[t].cxt = c /\ x.nodes[t].fork = s /\ <<t, c, g>> \in x.visited
    BY <1>1, <2>1
  <2> QED BY <1>3, <2>2 DEF HandledIn
<1> QED BY <1>2, <1>3

\* a call site of the function of a pair
LEMMA HandleCall ==
  ASSUME prog \in Programs, SCCsAre, candidateFuncSet = markRelProcs,
         NEW w, Good(w), NEW v \in w.visited, v[3] \in markRelProcs,
         NEW s \in sitesFrom(v[3]), ins(s).op = "call", NEW x, x = handleCallRelation(w, v, s)
  PROVE  Good(x) /\ Grown(w, x) /\ HandledIn(x.nodes, x.visited, v, s)
<1> DEFINE g == ins(s).fun
           c == pushCxt(v[2], s, g)
           p == <<v[1], c, g>>
<1>1. x = pushToCTPWorkList(w, p) BY DEF handleCallRelation
<1>2. TreeOf(w.nodes, w.edges, w.visited) BY DEF Good
<1>3. v[1] \in DOMAIN w.nodes /\ v[2] \in Contexts /\ v[3] \in Funs BY <1>2, TypedTree
<1>4. c \in Contexts BY <1>3, PushIs
<1>5. g \in Funs BY <1>3, SitesAre
<1>6. InThread(w.nodes, v) BY <1>2 DEF TreeOf
<1>7. InThread(w.nodes, p) BY <1>3, <1>6, InCallee
<1>8. p \in (DOMAIN w.nodes) \X Contexts \X Funs BY <1>3, <1>4, <1>5
<1> HIDE DEF p
<1>9. Good(x) /\ Grown(w, x) /\ p \in x.visited BY <1>1, <1>7, <1>8, AddedPair
<1> QED BY <1>9 DEF HandledIn, p

\* a fork site
LEMMA HandleFork ==
  ASSUME prog \in Programs, SCCsAre, candidateFuncSet = markRelProcs,
         NEW w, Good(w), NEW v \in w.visited, v[3] \in markRelProcs,
         NEW s \in sitesFrom(v[3]), ins(s).op = "fork", NEW x, x = handleCallRelation(w, v, s)
  PROVE  Good(x) /\ Grown(w, x) /\ HandledIn(x.nodes, x.visited, v, s)
<1> DEFINE g == ins(s).fun
           k == pushCxt(v[2], s, g)
           new == newThread(k, s, v[2], g)
           made == getOrCreateTCTNode(w, new)
           t == CHOOSE i \in DOMAIN made.nodes : made.nodes[i].cxt = k /\ made.nodes[i].fork = s
           p == <<t, k, g>>
<1>1. x = IF p \in w.visited THEN made
          ELSE [pushToCTPWorkList(made, p) EXCEPT !.edges = @ \cup {<<v[1], t>>}]
  BY DEF handleCallRelation
<1>2. PICK a, b, c, d : w = [nodes |-> a, edges |-> b, list |-> c, visited |-> d] BY DEF Good, isTree
<1>3. w.nodes = a /\ w.edges = b /\ w.list = c /\ w.visited = d BY <1>2
<1>4. TreeOf(a, b, d) /\ c \in Seq(d) BY <1>3 DEF Good
<1>5. v[1] \in DOMAIN a /\ v[2] \in Contexts /\ v[3] \in Funs BY <1>3, <1>4, TypedTree
<1>6. k \in Contexts BY <1>5, PushIs
<1>7. g \in Funs /\ s \in Insts /\ s[1] = v[3] BY <1>5, SitesAre
<1>8. s \in forksites /\ s \in callSitesAll BY <1>7 DEF forksites, callSitesAll, withOp
<1>9. s # NoFork
  <2>1. s = <<s[1], s[2]>> BY <1>7, InstIs
  <2> QED BY <2>1 DEF NoFork
<1>10. new \in Thread /\ new.cxt = k /\ new.fork = s /\ Marked(new, s)
  <2> HIDE DEF k, g
  <2>1. isInRecursion(s) \in BOOLEAN /\ isInLoopInstruction(s) \in BOOLEAN BY DEF isInRecursion, isInLoopInstruction
  <2> QED BY <1>5, <1>6, <1>7, <1>8, <1>9, <2>1 DEF newThread, Thread, Marked
<1> HIDE DEF new
\* the tree once the thread and its edge are in it
<1> DEFINE E == b \cup {<<v[1], t>>}
           y == [nodes |-> made.nodes, edges |-> E, list |-> c, visited |-> d]
<1>11. /\ TreeOf(made.nodes, E, d) /\ DOMAIN a \subseteq DOMAIN made.nodes
       /\ \A u \in DOMAIN a : made.nodes[u] = a[u]
       /\ t \in DOMAIN made.nodes /\ made.nodes[t].cxt = k /\ made.nodes[t].fork = s
       /\ made = [nodes |-> made.nodes, edges |-> b, list |-> c, visited |-> d]
       /\ p \in d => made = w
  <2>1. CASE \E u \in DOMAIN a : a[u].cxt = k /\ a[u].fork = s
    <3>1. made = w BY <1>3, <1>10, <2>1 DEF getOrCreateTCTNode
    <3>2. t \in DOMAIN a /\ a[t].cxt = k /\ a[t].fork = s BY <1>3, <2>1, <3>1
    <3> HIDE DEF t, made, k
    <3>3. b \subseteq (DOMAIN a) \X (DOMAIN a) /\ d \subseteq (DOMAIN a) \X Contexts \X Funs
      BY <1>4 DEF TreeOf
    <3>4. E \in SUBSET ((DOMAIN a) \X (DOMAIN a)) /\ b \subseteq E BY <1>5, <3>2, <3>3
    <3>5. d \in SUBSET ((DOMAIN a) \X Contexts \X Funs) /\ d \subseteq d /\ d \ d = {} BY <3>3
    <3> HIDE DEF E
    <3>6. TreeOf(a, E, d) BY <1>4, <3>4, <3>5, MoreInTree
    <3> QED BY <1>2, <1>3, <3>1, <3>2, <3>6
  <2>2. CASE ~ \E u \in DOMAIN a : a[u].cxt = k /\ a[u].fork = s
    <3>1. made = [w EXCEPT !.nodes = Append(@, new)] BY <1>3, <1>10, <2>2 DEF getOrCreateTCTNode
    <3>2. made = [nodes |-> Append(a, new), edges |-> b, list |-> c, visited |-> d] BY <1>2, <3>1
    <3> DEFINE m == made.nodes
               l == Len(a) + 1
    <3>3. m = Append(a, new) BY <3>2
    <3>4. a # <<>> BY <1>5
    <3> HIDE DEF made
    <3>5. ~ \E u \in DOMAIN a : a[u].cxt = new.cxt /\ a[u].fork = new.fork BY <1>10, <2>2
    <3> HIDE DEF m, l
    <3>6. /\ TreeOf(m, b \cup {<<v[1], l>>}, d) /\ l \in DOMAIN m /\ m[l] = new
          /\ DOMAIN a \subseteq DOMAIN m /\ \A u \in DOMAIN a : m[u] = a[u]
          /\ \A u \in d : u[1] # l
      <4> HIDE DEF k, E, y, t, p
      <4>1. v \in d BY <1>3
      <4>2. new.cxt = pushCxt(v[2], new.fork, ins(new.fork).fun) /\ Marked(new, new.fork)
        BY <1>10 DEF k
      <4>4. new.fork \in forksites /\ new.fork[1] = v[3] /\ new \in Thread BY <1>7, <1>8, <1>10
      <4>3. TreeOf(a, b, d) /\ a # <<>> BY <1>4, <3>4
      <4>5. HasChild(a, b, d, v, new) BY <4>3, <3>5, <4>1, <4>2, <4>4, NodeInTree
      <4>6. m = oneMore(a, new) BY <3>3 DEF oneMore
      <4>7. l = Len(a) + 1 BY DEF l
      <4> HIDE DEF l
      <4> QED BY <4>5, <4>6, <4>7 DEF HasChild
    <3>7. \E i \in DOMAIN m : m[i].cxt = k /\ m[i].fork = s BY <1>10, <3>6
    <3>8. t \in DOMAIN m /\ m[t].cxt = k /\ m[t].fork = s BY <3>7 DEF m
    <3>9. t = l
      <4> HIDE DEF t, k
      <4>1. OwnKeys(m) BY <3>6 DEF TreeOf
      <4> QED BY <1>10, <3>6, <3>8, <4>1 DEF OwnKeys
    <3>10. p \notin d BY <3>6, <3>9
    <3> HIDE DEF t, k, p
    <3>11. E = b \cup {<<v[1], l>>} BY <3>9
    <3>12. made = [nodes |-> m, edges |-> b, list |-> c, visited |-> d] BY <3>2, <3>3
    <3> QED BY <3>6, <3>8, <3>10, <3>11, <3>12 DEF m
  <2> QED BY <2>1, <2>2
<1>12. InThread(made.nodes, p) BY <1>5, <1>11, InForked
<1> HIDE DEF t, made, k, p
<1>13. y.nodes = made.nodes /\ y.edges = E /\ y.list = c /\ y.visited = d OBVIOUS
<1>14. Good(y)
  <2>1. isTree(y) BY DEF isTree
  <2> HIDE DEF y
  <2> QED BY <1>4, <1>11, <1>13, <2>1 DEF Good
<1>15. Grown(w, y)
  <2> HIDE DEF y
  <2> QED BY <1>3, <1>11, <1>13 DEF Grown
<1>16. p \in (DOMAIN y.nodes) \X Contexts \X Funs BY <1>6, <1>7, <1>11 DEF p
<1>17. CASE p \in d
  <2>1. x = w BY <1>1, <1>3, <1>11, <1>17
  <2>2. Grown(w, w) BY DEF Grown
  <2>3. t \in DOMAIN x.nodes /\ x.nodes[t].cxt = k /\ x.nodes[t].fork = s /\ p \in x.visited
    BY <1>3, <1>11, <1>17, <2>1
  <2>4. HandledIn(x.nodes, x.visited, v, s) BY <2>3 DEF HandledIn, k, p
  <2> QED BY <2>1, <2>2, <2>4
<1>18. CASE p \notin d
  <2> DEFINE z == pushToCTPWorkList(y, p)
  <2>1. x = [pushToCTPWorkList(made, p) EXCEPT !.edges = @ \cup {<<v[1], t>>}] BY <1>1, <1>3, <1>18
  <2>2. made.nodes = y.nodes /\ made.edges = b /\ made.list = c /\ made.visited = d BY <1>11, <1>13
  <2>3. pushToCTPWorkList(made, p) = [made EXCEPT !.visited = @ \cup {p}, !.list = push(@, p)]
    BY <1>18, <2>2 DEF pushToCTPWorkList
  <2>4. z = [y EXCEPT !.visited = @ \cup {p}, !.list = push(@, p)]
    BY <1>13, <1>18 DEF pushToCTPWorkList
  <2>5. z = [nodes |-> made.nodes, edges |-> E, list |-> push(c, p), visited |-> d \cup {p}] BY <2>4
  <2>6. x = [nodes |-> made.nodes, edges |-> E, list |-> push(c, p), visited |-> d \cup {p}]
    <3> DEFINE m == made.nodes
    <3>1. made = [nodes |-> m, edges |-> b, list |-> c, visited |-> d] BY <1>11
    <3> HIDE DEF m
    <3>2. pushToCTPWorkList(made, p) = [nodes |-> m, edges |-> b, list |-> push(c, p), visited |-> d \cup {p}]
      BY <2>3, <3>1
    <3>3. x = [nodes |-> m, edges |-> E, list |-> push(c, p), visited |-> d \cup {p}] BY <2>1, <3>2
    <3> QED BY <3>3 DEF m
  <2>7. InThread(y.nodes, p) BY <1>12, <1>13
  <2>8. x = pushToCTPWorkList(y, p) BY <2>5, <2>6
  <2> HIDE DEF y, z
  <2>9. Good(x) /\ Grown(y, x) /\ p \in x.visited /\ x.nodes = y.nodes
    BY <1>14, <1>16, <2>7, <2>8, AddedPair
  <2>10. Grown(w, x) BY <1>15, <2>9, GrowOn
  <2>11. t \in DOMAIN x.nodes /\ x.nodes[t].cxt = k /\ x.nodes[t].fork = s BY <1>11, <1>13, <2>9
  <2>12. HandledIn(x.nodes, x.visited, v, s) BY <2>9, <2>11 DEF HandledIn, k, p
  <2> QED BY <2>9, <2>10, <2>12
<1> QED BY <1>17, <1>18

-----------------------------------------------------------------------------
(* All the sites of a function *)

\* what handleCallRelations makes of the first instructions of the function of v
handledTo(f, w, v, n) ==
  f = [k \in 0 .. n |->
         IF k = 0 THEN w
         ELSE IF <<v[3], k>> \in sitesFrom(v[3]) THEN handleCallRelation(f[k - 1], v, <<v[3], k>>)
         ELSE f[k - 1]]

LEMMA HandledExist ==
  ASSUME NEW w, NEW v, NEW n \in Nat
  PROVE  \E f : handledTo(f, w, v, n)
<1> DEFINE B == {k \in 0 .. n : \E f : handledTo(f, w, v, k)}
<1>1. 0 \in B
  <2> DEFINE f0 == [k \in 0 .. 0 |-> w]
  <2>1. f0 = [k \in 0 .. 0 |->
                IF k = 0 THEN w
                ELSE IF <<v[3], k>> \in sitesFrom(v[3]) THEN handleCallRelation(f0[k - 1], v, <<v[3], k>>)
                ELSE f0[k - 1]]
    OBVIOUS
  <2> HIDE DEF f0
  <2>2. handledTo(f0, w, v, 0) BY <2>1 DEF handledTo
  <2> QED BY <2>2
<1>2. ASSUME NEW k \in 1 .. n, k - 1 \in B PROVE k \in B
  <2>1. PICK f : handledTo(f, w, v, k - 1) BY <1>2
  <2> DEFINE H(h, i) == IF i = 0 THEN w
                        ELSE IF <<v[3], i>> \in sitesFrom(v[3]) THEN handleCallRelation(h[i - 1], v, <<v[3], i>>)
                        ELSE h[i - 1]
             x == H(f, k)
             g == [i \in 0 .. k |-> IF i < k THEN f[i] ELSE x]
  <2>2. \A i \in 0 .. k - 1 : f[i] = H(f, i) BY <2>1 DEF handledTo
  <2>3. \A i \in 0 .. k : g[i] = H(g, i)
    <3> SUFFICES ASSUME NEW i \in 0 .. k PROVE g[i] = H(g, i) OBVIOUS
    <3>1. i # 0 => g[i - 1] = f[i - 1] OBVIOUS
    <3>2. H(g, i) = H(f, i) BY <3>1
    <3>3. CASE i < k
      <4>1. i \in 0 .. k - 1 /\ g[i] = f[i] BY <3>3
      <4> QED BY <2>2, <3>2, <4>1
    <3>4. CASE i = k
      <4>1. g[i] = x BY <3>4
      <4> QED BY <3>2, <3>4, <4>1
    <3> QED BY <3>3, <3>4
  <2>4. g = [i \in 0 .. k |-> g[i]] OBVIOUS
  <2> HIDE DEF g
  <2>5. handledTo(g, w, v, k) BY <2>3, <2>4 DEF handledTo
  <2> QED BY <2>5
<1> HIDE DEF B
<1>3. n \in B BY <1>1, <1>2, UpTo
<1> QED BY <1>3 DEF B

LEMMA HandleAll ==
  ASSUME prog \in Programs, SCCsAre, candidateFuncSet = markRelProcs,
         NEW w, Good(w), NEW v \in w.visited, v[3] \in markRelProcs,
         NEW x, x = handleCallRelations(w, v)
  PROVE  Good(x) /\ Grown(w, x) /\ \A s \in sitesFrom(v[3]) : HandledIn(x.nodes, x.visited, v, s)
<1> DEFINE n == Len(prog.body[v[3]])
           f == CHOOSE h : handledTo(h, w, v, n)
           at0(k) == <<v[3], k>>
           G(k) == /\ Good(f[k]) /\ Grown(w, f[k])
                   /\ \A j \in 1 .. k : at0(j) \in sitesFrom(v[3]) => HandledIn(f[k].nodes, f[k].visited, v, at0(j))
           B == {k \in 0 .. n : G(k)}
<1>1. v[3] \in Funs BY ForksAre
<1>2. n \in Nat /\ DOMAIN prog.body[v[3]] = 1 .. n BY <1>1, ProgramIs
<1>3. x = f[n] BY DEF handleCallRelations, handledTo
<1>4. handledTo(f, w, v, n) BY <1>2, HandledExist
<1> HIDE DEF f, n
<1>5. /\ f[0] = w
      /\ \A k \in 1 .. n : f[k] = IF at0(k) \in sitesFrom(v[3]) THEN handleCallRelation(f[k - 1], v, at0(k))
                                  ELSE f[k - 1]
  <2>1. \A k \in 0 .. n : f[k] = IF k = 0 THEN w
                                 ELSE IF at0(k) \in sitesFrom(v[3]) THEN handleCallRelation(f[k - 1], v, at0(k))
                                 ELSE f[k - 1]
    BY <1>4 DEF handledTo
  <2>2. 0 \in 0 .. n /\ \A k \in 1 .. n : k \in 0 .. n /\ k # 0 BY <1>2
  <2> QED BY <2>1, <2>2
<1>6. 0 \in B
  <2>1. Grown(w, w) BY DEF Grown
  <2>2. 0 \in 0 .. n /\ 1 .. 0 = {} BY <1>2
  <2> QED BY <1>5, <2>1, <2>2
<1>7. ASSUME NEW k \in 1 .. n, k - 1 \in B PROVE k \in B
  <2> DEFINE y == f[k - 1]
             z == f[k]
             s == at0(k)
  <2>1. /\ Good(y) /\ Grown(w, y)
        /\ \A j \in 1 .. k - 1 : at0(j) \in sitesFrom(v[3]) => HandledIn(y.nodes, y.visited, v, at0(j))
    BY <1>7
  <2>2. z = IF s \in sitesFrom(v[3]) THEN handleCallRelation(y, v, s) ELSE y BY <1>5
  <2>3. Good(z) /\ Grown(y, z) /\ (s \in sitesFrom(v[3]) => HandledIn(z.nodes, z.visited, v, s))
    <3>1. CASE s \notin sitesFrom(v[3])
      <4>1. Grown(y, y) BY DEF Grown
      <4> QED BY <2>1, <2>2, <3>1, <4>1
    <3>2. CASE s \in sitesFrom(v[3])
      <4> HIDE DEF y, z, s
      <4>1. v \in y.visited BY <2>1 DEF Grown
      <4>2. ins(s).op \in {"call", "fork"} BY <1>1, <3>2, SitesAre
      <4>3. z = handleCallRelation(y, v, s) BY <2>2, <3>2
      <4>4. ASSUME ins(s).op = "call" PROVE Good(z) /\ Grown(y, z) /\ HandledIn(z.nodes, z.visited, v, s)
        BY <2>1, <3>2, <4>1, <4>3, <4>4, HandleCall
      <4>5. ASSUME ins(s).op = "fork" PROVE Good(z) /\ Grown(y, z) /\ HandledIn(z.nodes, z.visited, v, s)
        BY <2>1, <3>2, <4>1, <4>3, <4>5, HandleFork
      <4> QED BY <4>2, <4>4, <4>5
    <3> QED BY <3>1, <3>2
  <2> HIDE DEF y, z
  <2>4. Grown(w, z) BY <2>1, <2>3, GrowOn
  <2>5. ASSUME NEW j \in 1 .. k, at0(j) \in sitesFrom(v[3]) PROVE HandledIn(z.nodes, z.visited, v, at0(j))
    <3>1. CASE j = k BY <2>3, <2>5, <3>1
    <3>2. CASE j # k
      <4>1. j \in 1 .. k - 1 BY <1>2, <3>2
      <4>2. HandledIn(y.nodes, y.visited, v, at0(j)) BY <2>1, <2>5, <4>1
      <4> HIDE DEF at0
      <4> QED BY <2>3, <4>2, StaysHandled
    <3> QED BY <3>1, <3>2
  <2>6. G(k) BY <2>3, <2>4, <2>5 DEF z
  <2>7. k \in 0 .. n BY <1>2
  <2> HIDE DEF G
  <2> QED BY <2>6, <2>7
<1> HIDE DEF B
<1>8. n \in 0 .. n BY <1>2
<1>9. n \in B BY <1>2, <1>6, <1>7, <1>8, UpTo
<1>10. G(n) BY <1>9 DEF B
<1>11. ASSUME NEW s \in sitesFrom(v[3]) PROVE HandledIn(x.nodes, x.visited, v, s)
  <2>1. s \in Insts /\ s[1] = v[3] BY <1>1, SitesAre
  <2>2. s = <<s[1], s[2]>> /\ s[2] \in 1 .. n BY <2>1, InstIs DEF n
  <2>3. s = at0(s[2]) BY <2>1, <2>2
  <2> HIDE DEF at0
  <2> QED BY <1>3, <1>10, <2>2, <2>3
<1> QED BY <1>3, <1>10, <1>11

-----------------------------------------------------------------------------
(* The invariant of the pass *)

theTree == [nodes |-> nodes, edges |-> tctEdges, list |-> ctpList, visited |-> visitedCTPs]

TreeBuilt ==
  /\ SCCsAre /\ candidateFuncSet = markRelProcs
  /\ TreeOf(nodes, tctEdges, visitedCTPs) /\ ctpList \in Seq(visitedCTPs)
  /\ \A v \in visitedCTPs \ ToSet(ctpList) : DoneIn(nodes, visitedCTPs, v)
  /\ Main \in markRelProcs => <<1, <<>>, Main>> \in visitedCTPs

TreeInv ==
  /\ prog \in Programs
  /\ ~ begun => pass = "tct" /\ nodes = <<>> /\ tctEdges = {} /\ ctpList = <<>> /\ visitedCTPs = {}
  /\ begun => TreeBuilt
  /\ pass # "tct" => /\ ctpList = <<>>
                     /\ \A t \in DOMAIN nodes : nodes[t].inloop \/ nodes[t].incycle => nodes[t].multiforked

LEMMA SameForks ==
  ASSUME prog' = prog
  PROVE  /\ Contexts' = Contexts /\ Thread' = Thread /\ forksites' = forksites
         /\ markRelProcs' = markRelProcs
         /\ \A f : straight(f)' <=> straight(f)
         /\ \A n, s : Marked(n, s)' <=> Marked(n, s)
         /\ \A nds : OwnKeys(nds)' <=> OwnKeys(nds)
         /\ \A nds, v : InThread(nds, v)' <=> InThread(nds, v)
<1>1. /\ Funs' = Funs /\ Insts' = Insts /\ callSitesAll' = callSitesAll /\ \A n : ins(n)' = ins(n)
      /\ \A f : reachable(f)' = reachable(f)
  BY SameProgram
<1>2. Contexts' = Contexts BY <1>1 DEF Contexts
<1>3. forksites' = forksites /\ joinsites' = joinsites BY <1>1 DEF forksites, joinsites, withOp
<1>4. Thread' = Thread BY <1>1, <1>2 DEF Thread, NoFork
<1>5. markRelProcs' = markRelProcs BY <1>1, <1>3 DEF markRelProcs
<1>6. toForks' = toForks BY <1>1, <1>3 DEF toForks
<1>7. \A f : callersUpTo(f)' = callersUpTo(f) BY <1>1 DEF callersUpTo
<1>8. \A f : isInCycle(f)' <=> isInCycle(f) BY <1>1 DEF isInCycle
<1>9. \A f : straight(f)' <=> straight(f) BY <1>6, <1>7, <1>8 DEF straight
<1>10. \A n : isInRecursion(n)' <=> isInRecursion(n) BY <1>7, <1>8 DEF isInRecursion
<1>13. \A n : isInLoopInstruction(n)' <=> isInLoopInstruction(n)
  <2>1. \A f : sitesOf(f)' = sitesOf(f) BY <1>1 DEF sitesOf, withOp
  <2> QED BY <1>7, <2>1, SameLoops DEF isInLoopInstruction
<1>14. \A n, s : Marked(n, s)' <=> Marked(n, s) BY <1>10, <1>13 DEF Marked
<1>11. \A nds : OwnKeys(nds)' <=> OwnKeys(nds) BY DEF OwnKeys
<1>12. \A nds, v : InThread(nds, v)' <=> InThread(nds, v) BY <1>1, <1>9 DEF InThread, NoFork
<1> QED BY <1>2, <1>3, <1>4, <1>5, <1>9, <1>11, <1>12, <1>14

LEMMA SameTree ==
  ASSUME prog' = prog, tcgSCC' = tcgSCC, candidateFuncSet' = candidateFuncSet
  PROVE  /\ SCCsAre' <=> SCCsAre
         /\ \A c, n, f : pushCxt(c, n, f)' = pushCxt(c, n, f)
         /\ \A nds, eds, vis : TreeOf(nds, eds, vis)' <=> TreeOf(nds, eds, vis)
         /\ \A nds, vis, v : DoneIn(nds, vis, v)' <=> DoneIn(nds, vis, v)
<1>1. SCCsAre' <=> SCCsAre BY SameCycles
<1>2. \A n : ins(n)' = ins(n) /\ sitesFrom(n)' = sitesFrom(n) BY SameProgram
<1>3. \A c, n, f : pushCxt(c, n, f)' = pushCxt(c, n, f)
  BY DEF pushCxt, isCandidateFun, inSameCallGraphSCC
<1>4. \A nds, eds, vis, t : ForkedBy(nds, eds, vis, t)' <=> ForkedBy(nds, eds, vis, t)
  BY <1>2, <1>3, SameForks DEF ForkedBy
<1>5. \A nds, eds, vis : TreeOf(nds, eds, vis)' <=> TreeOf(nds, eds, vis)
  BY <1>4, SameForks, SameProgram DEF TreeOf, NoFork
<1>6. \A nds, vis, v, s : HandledIn(nds, vis, v, s)' <=> HandledIn(nds, vis, v, s)
  <2> SUFFICES ASSUME NEW nds, NEW vis, NEW v, NEW s
               PROVE  HandledIn(nds, vis, v, s)' <=> HandledIn(nds, vis, v, s)
    OBVIOUS
  <2> DEFINE c == pushCxt(v[2], s, ins(s).fun)
  <2>1. ins(s)' = ins(s) /\ c' = c BY <1>2, <1>3
  <2> HIDE DEF c
  <2>2. HandledIn(nds, vis, v, s) <=>
          IF ins(s).op = "call" THEN <<v[1], c, ins(s).fun>> \in vis
          ELSE \E t \in DOMAIN nds : nds[t].cxt = c /\ nds[t].fork = s /\ <<t, c, ins(s).fun>> \in vis
    BY DEF HandledIn, c
  <2>3. HandledIn(nds, vis, v, s)' <=>
          IF ins(s)'.op = "call" THEN <<v[1], c', ins(s)'.fun>> \in vis
          ELSE \E t \in DOMAIN nds : nds[t].cxt = c' /\ nds[t].fork = s /\ <<t, c', ins(s)'.fun>> \in vis
    BY DEF HandledIn, c
  <2> QED BY <2>1, <2>2, <2>3
<1>7. \A nds, vis, v : DoneIn(nds, vis, v)' <=> DoneIn(nds, vis, v)
  BY <1>2, <1>6, SameForks DEF DoneIn
<1> QED BY <1>1, <1>3, <1>5, <1>7

LEMMA TreeStays ==
  ASSUME TreeInv, prog' = prog, UNCHANGED tctVars, pass = "tct" <=> pass' = "tct"
  PROVE  TreeInv'
<1>1. /\ tcgSCC' = tcgSCC /\ candidateFuncSet' = candidateFuncSet /\ nodes' = nodes
      /\ tctEdges' = tctEdges /\ ctpList' = ctpList /\ visitedCTPs' = visitedCTPs
  BY DEF tctVars
<1>2. begun' <=> begun BY <1>1 DEF begun
<1>3. TreeBuilt => TreeBuilt'
  <2> SUFFICES ASSUME TreeBuilt PROVE TreeBuilt' OBVIOUS
  <2>1. SCCsAre' /\ candidateFuncSet' = markRelProcs' BY <1>1, SameForks, SameTree DEF TreeBuilt
  <2>2. TreeOf(nodes, tctEdges, visitedCTPs)' BY <1>1, SameTree DEF TreeBuilt
  <2>3. \A v \in visitedCTPs' \ ToSet(ctpList') : DoneIn(nodes, visitedCTPs, v)'
    BY <1>1, SameTree DEF TreeBuilt
  <2> QED BY <1>1, <2>1, <2>2, <2>3, SameForks DEF TreeBuilt
<1> QED BY <1>1, <1>2, <1>3 DEF TreeInv

LEMMA StartTree == Init => TreeInv
<1> SUFFICES ASSUME Init PROVE TreeInv OBVIOUS
<1>1. prog \in Programs /\ pass = "tct" /\ ~ begun BY DEF Init, TCTInit, begun
<1> QED BY <1>1 DEF TreeInv, Init, TCTInit

\* the entry functions are pairs of the first thread
LEMMA BuildKeeps ==
  ASSUME TreeInv, build
  PROVE  TreeInv'
<1> DEFINE entries == {f \in markRelProcs : sitesOf(f) = {}}
<1>1. /\ prog \in Programs /\ prog' = prog /\ pass' = "tct" /\ tctEdges' = {}
      /\ tcgSCC' = {p \in Funs \X Funs : sameSCC(p[1], p[2])} /\ candidateFuncSet' = markRelProcs
  BY DEF TreeInv, build
<1>2. PICK order \in SetToSeqs(entries) :
        /\ nodes' = IF order = <<>> THEN <<>> ELSE <<newThread(<<>>, NoFork, <<>>, order[1])>>
        /\ ctpList' = [i \in DOMAIN order |-> <<1, <<>>, order[i]>>]
        /\ visitedCTPs' = ToSet(ctpList')
  BY DEF build
<1>3. entries \subseteq Funs /\ IsFiniteSet(entries)
  <2>1. entries \subseteq Funs BY <1>1, ForksAre
  <2> QED BY <1>1, <2>1, ProgramIs, FS_Subset
<1>4. order \in Seq(entries) /\ ToSet(order) = entries
  <2> HIDE DEF entries
  <2> QED BY <1>2, <1>3, Enumerates
<1> HIDE DEF entries
<1>5. DOMAIN order = 1 .. Len(order) /\ Len(order) \in Nat /\ \A i \in DOMAIN order : order[i] \in entries
  <2>1. DOMAIN order = 1 .. Len(order) /\ Len(order) \in Nat BY <1>4
  <2> QED BY <1>4, <2>1, ElementOfSeq
<1>6. visitedCTPs' = {<<1, <<>>, f>> : f \in entries}
  <2> DEFINE l == [i \in DOMAIN order |-> <<1, <<>>, order[i]>>]
  <2>1. ToSet(l) = {<<1, <<>>, order[i]>> : i \in DOMAIN order} BY DEF ToSet
  <2>2. entries = {order[i] : i \in DOMAIN order} BY <1>4 DEF ToSet
  <2> HIDE DEF l
  <2>3. visitedCTPs' = ToSet(l) BY <1>2 DEF l
  <2> QED BY <2>1, <2>2, <2>3
<1>7. ctpList' \in Seq(visitedCTPs')
  <2>1. \A i \in 1 .. Len(order) : <<1, <<>>, order[i]>> \in visitedCTPs' BY <1>5, <1>6
  <2>2. ctpList' = [i \in 1 .. Len(order) |-> <<1, <<>>, order[i]>>] BY <1>2, <1>5
  <2> QED BY <1>5, <2>1, <2>2
<1>8. SCCsAre' BY <1>1, SameProgram DEF SCCsAre
<1>9. begun'
  <2>1. <<Main, Main>> \in tcgSCC' BY <1>1, ProgramIs, SameSCCs
  <2> QED BY <2>1 DEF begun
<1> DEFINE first == newThread(<<>>, NoFork, <<>>, order[1])
<1>10. order # <<>> => /\ nodes' = <<first>> /\ first \in Thread /\ first.cxt = <<>> /\ first.fork = NoFork
  <2> SUFFICES ASSUME order # <<>> PROVE /\ nodes' = <<first>> /\ first \in Thread
                                         /\ first.cxt = <<>> /\ first.fork = NoFork
    OBVIOUS
  <2>1. order[1] \in Funs BY <1>3, <1>4, <1>5
  <2>2. <<>> \in Contexts BY DEF Contexts
  <2>3. isInRecursion(NoFork) \in BOOLEAN /\ isInLoopInstruction(NoFork) \in BOOLEAN
    BY DEF isInRecursion, isInLoopInstruction
  <2> QED BY <1>2, <2>1, <2>2, <2>3 DEF newThread, Thread
<1> HIDE DEF first
<1>11. TreeOf(nodes, tctEdges, visitedCTPs)'
  <2>1. /\ nodes' \in Seq(Thread) /\ OwnKeys(nodes') /\ DOMAIN nodes' \ {1} = {}
        /\ nodes' # <<>> => nodes'[1].fork = NoFork /\ nodes'[1].cxt = <<>>
        /\ visitedCTPs' # {} => nodes' = <<first>> /\ first.cxt = <<>> /\ first.fork = NoFork
    <3>1. CASE order = <<>>
      <4>1. nodes' = <<>> BY <1>2, <3>1
      <4>2. entries = {} BY <1>4, <3>1 DEF ToSet
      <4>3. visitedCTPs' = {} BY <1>6, <4>2
      <4> QED BY <4>1, <4>3 DEF OwnKeys
    <3>2. CASE order # <<>>
      <4>1. nodes' = <<first>> /\ first \in Thread /\ first.cxt = <<>> /\ first.fork = NoFork
        BY <1>10, <3>2
      <4>2. /\ <<first>> \in Seq(Thread) /\ DOMAIN <<first>> = {1} /\ <<first>>[1] = first
            /\ <<first>> # <<>>
        BY <4>1
      <4> QED BY <4>1, <4>2 DEF OwnKeys
    <3> QED BY <3>1, <3>2
  <2>2. visitedCTPs' \subseteq (DOMAIN nodes') \X Contexts \X Funs
    <3> SUFFICES ASSUME NEW v \in visitedCTPs' PROVE v \in (DOMAIN nodes') \X Contexts \X Funs OBVIOUS
    <3>1. PICK f \in entries : v = <<1, <<>>, f>> BY <1>6
    <3>2. 1 \in DOMAIN nodes' BY <2>1
    <3>3. <<>> \in Contexts BY DEF Contexts
    <3> QED BY <1>3, <3>1, <3>2, <3>3
  <2>3. ASSUME NEW v \in visitedCTPs' PROVE InThread(nodes', v)
    <3>1. v[1] = 1 /\ v[2] = <<>> BY <1>6
    <3>2. nodes'[v[1]].cxt = <<>> /\ nodes'[v[1]].fork = NoFork BY <2>1, <3>1
    <3>3. Len(v[2]) = 0 /\ 0 \in 0 .. Len(v[2]) /\ 0 + 1 .. Len(v[2]) = {} BY <3>1
    <3> DEFINE m == 0
    <3>4. /\ m \in 0 .. Len(v[2]) /\ Len(nodes'[v[1]].cxt) = m /\ m = 0
          /\ 1 .. m = {} /\ m + 1 .. Len(v[2]) = {}
      BY <3>2, <3>3
    <3> HIDE DEF m
    <3> QED BY <3>2, <3>4 DEF InThread
  <2>4. tctEdges' \subseteq (DOMAIN nodes') \X (DOMAIN nodes') BY <1>1
  <2>5. /\ (nodes' \in Seq(Thread'))
        /\ visitedCTPs' \subseteq (DOMAIN nodes') \X Contexts' \X Funs'
        /\ (\A nds : OwnKeys(nds)' <=> OwnKeys(nds))
        /\ (\A nds, v : InThread(nds, v)' <=> InThread(nds, v))
    BY <1>1, <2>1, <2>2, SameForks, SameProgram
  <2> QED BY <2>1, <2>3, <2>4, <2>5 DEF TreeOf, NoFork
<1>12. \A v \in visitedCTPs' : v \in ToSet(ctpList') BY <1>2
<1>13. Main \in markRelProcs => <<1, <<>>, Main>> \in visitedCTPs'
  <2>1. sitesOf(Main) = {}
    <3> SUFFICES ASSUME NEW n \in Insts, ins(n).op \in {"call", "fork"}, ins(n).fun = Main PROVE FALSE
      BY DEF sitesOf, withOp
    <3>1. n[1] \in DOMAIN prog.body /\ n[2] \in DOMAIN prog.body[n[1]] BY <1>1, InstIs, ProgramIs DEF Funs
    <3> QED BY <1>1, <3>1, MainAssumption DEF ins
  <2> QED BY <1>6, <2>1 DEF entries
<1>14. markRelProcs' = markRelProcs BY <1>1, SameForks
<1>15. TreeBuilt'
  BY <1>1, <1>7, <1>8, <1>11, <1>12, <1>13, <1>14 DEF TreeBuilt
<1> QED BY <1>1, <1>9, <1>15 DEF TreeInv

\* a pair is done when its sites have been handled; the others stay done
LEMMA PopKeeps ==
  ASSUME TreeInv, popFromCTPWorkList
  PROVE  TreeInv'
<1> DEFINE v == Head(ctpList)
           w == [nodes |-> nodes, edges |-> tctEdges, list |-> Tail(ctpList), visited |-> visitedCTPs]
           x == IF isCandidateFun(v[3]) THEN handleCallRelations(w, v) ELSE w
<1>1. /\ pass = "tct" /\ pass' = "tct" /\ prog' = prog /\ tcgSCC' = tcgSCC
      /\ candidateFuncSet' = candidateFuncSet /\ ctpList # <<>>
      /\ nodes' = x.nodes /\ tctEdges' = x.edges /\ ctpList' = x.list /\ visitedCTPs' = x.visited
  BY DEF popFromCTPWorkList
<1>2. prog \in Programs /\ begun /\ TreeBuilt BY <1>1 DEF TreeInv
<1>3. /\ SCCsAre /\ candidateFuncSet = markRelProcs
      /\ TreeOf(nodes, tctEdges, visitedCTPs) /\ ctpList \in Seq(visitedCTPs)
      /\ \A u \in visitedCTPs \ ToSet(ctpList) : DoneIn(nodes, visitedCTPs, u)
  BY <1>2 DEF TreeBuilt
<1> HIDE DEF x
<1>4. w.nodes = nodes /\ w.edges = tctEdges /\ w.list = Tail(ctpList) /\ w.visited = visitedCTPs OBVIOUS
<1>5. /\ v \in visitedCTPs /\ Tail(ctpList) \in Seq(visitedCTPs)
      /\ ToSet(ctpList) \subseteq {v} \cup ToSet(Tail(ctpList))
  <2>1. Len(ctpList) \in Nat /\ Len(ctpList) >= 1 /\ DOMAIN ctpList = 1 .. Len(ctpList) BY <1>1, <1>3
  <2>2. v = ctpList[1] /\ v \in visitedCTPs BY <1>1, <1>3, <2>1, ElementOfSeq
  <2>3. /\ Tail(ctpList) \in Seq(visitedCTPs) /\ Len(Tail(ctpList)) = Len(ctpList) - 1
        /\ \A k \in 1 .. Len(ctpList) - 1 : Tail(ctpList)[k] = ctpList[k + 1]
    BY <1>1, <1>3, <2>1
  <2>4. ASSUME NEW k \in 1 .. Len(ctpList), k # 1 PROVE ctpList[k] \in ToSet(Tail(ctpList))
    <3>1. k - 1 \in 1 .. Len(ctpList) - 1 /\ k - 1 + 1 = k BY <2>1, <2>4
    <3>2. Tail(ctpList)[k - 1] = ctpList[k] BY <2>3, <3>1
    <3>3. DOMAIN Tail(ctpList) = 1 .. Len(ctpList) - 1 BY <2>1, <2>3
    <3> QED BY <3>1, <3>2, <3>3 DEF ToSet
  <2>5. ToSet(ctpList) = {ctpList[k] : k \in 1 .. Len(ctpList)} BY <2>1 DEF ToSet
  <2> QED BY <2>2, <2>3, <2>4, <2>5
<1>6. Good(w)
  <2>1. isTree(w) BY DEF isTree
  <2> HIDE DEF w
  <2> QED BY <1>3, <1>4, <1>5, <2>1 DEF Good
<1>7. Good(x) /\ Grown(w, x) /\ (v[3] \in markRelProcs => \A s \in sitesFrom(v[3]) : HandledIn(x.nodes, x.visited, v, s))
  <2>1. CASE v[3] \in markRelProcs
    <3>1. x = handleCallRelations(w, v) BY <1>3, <2>1 DEF x, isCandidateFun
    <3>2. v \in w.visited BY <1>4, <1>5
    <3> HIDE DEF w, v
    <3> QED BY <1>2, <1>3, <1>6, <2>1, <3>1, <3>2, HandleAll
  <2>2. CASE v[3] \notin markRelProcs
    <3>1. x = w BY <1>3, <2>2 DEF x, isCandidateFun
    <3> HIDE DEF w
    <3>2. Grown(w, w) BY DEF Grown
    <3> QED BY <1>6, <2>2, <3>1, <3>2
  <2> QED BY <2>1, <2>2
<1> HIDE DEF w, v
<1>8. TreeOf(x.nodes, x.edges, x.visited) /\ x.list \in Seq(x.visited) BY <1>7 DEF Good
<1>9. \A u \in x.visited \ ToSet(x.list) : DoneIn(x.nodes, x.visited, u)
  <2> SUFFICES ASSUME NEW u \in x.visited \ ToSet(x.list) PROVE DoneIn(x.nodes, x.visited, u) OBVIOUS
  <2>1. u \in visitedCTPs \ ToSet(Tail(ctpList)) BY <1>4, <1>7 DEF Grown
  <2>2. CASE u = v BY <1>7, <2>2 DEF DoneIn
  <2>3. CASE u # v
    <3>1. DoneIn(w.nodes, w.visited, u) BY <1>3, <1>4, <1>5, <2>1, <2>3
    <3> SUFFICES ASSUME u[3] \in markRelProcs, NEW s \in sitesFrom(u[3])
                 PROVE  HandledIn(x.nodes, x.visited, u, s)
      BY DEF DoneIn
    <3>2. HandledIn(w.nodes, w.visited, u, s) BY <3>1 DEF DoneIn
    <3> QED BY <1>7, <3>2, StaysHandled
  <2> QED BY <2>2, <2>3
<1>10. Main \in markRelProcs => <<1, <<>>, Main>> \in x.visited
  <2>1. w.visited \subseteq x.visited BY <1>7 DEF Grown
  <2> QED BY <1>2, <1>4, <2>1 DEF TreeBuilt
<1>11. TreeBuilt'
  <2>1. SCCsAre' /\ candidateFuncSet' = markRelProcs' /\ markRelProcs' = markRelProcs
    BY <1>1, <1>3, SameForks, SameTree
  <2>2. TreeOf(nodes, tctEdges, visitedCTPs)'
    <3>1. TreeOf(nodes', tctEdges', visitedCTPs') BY <1>1, <1>8
    <3>2. \A nds, eds, vis : TreeOf(nds, eds, vis)' <=> TreeOf(nds, eds, vis) BY <1>1, SameTree
    <3> QED BY <3>1, <3>2
  <2>3. \A u \in visitedCTPs' \ ToSet(ctpList') : DoneIn(nodes, visitedCTPs, u)'
    <3>1. \A u \in visitedCTPs' \ ToSet(ctpList') : DoneIn(nodes', visitedCTPs', u) BY <1>1, <1>9
    <3>2. \A nds, vis, u : DoneIn(nds, vis, u)' <=> DoneIn(nds, vis, u) BY <1>1, SameTree
    <3> QED BY <3>1, <3>2
  <2> QED BY <1>1, <1>8, <1>10, <2>1, <2>2, <2>3 DEF TreeBuilt
<1>12. begun' BY <1>1, <1>2 DEF begun
<1> QED BY <1>1, <1>2, <1>11, <1>12 DEF TreeInv

LEMMA CollectThreadsKeeps ==
  ASSUME TreeInv, collectMultiForkedThreads
  PROVE  TreeInv'
<1> DEFINE multi(t) == \E a \in {t} \cup getAncestorThread(t) : nodes[a].inloop \/ nodes[a].incycle
<1>1. /\ prog' = prog /\ tcgSCC' = tcgSCC /\ candidateFuncSet' = candidateFuncSet
      /\ tctEdges' = tctEdges /\ ctpList' = ctpList /\ visitedCTPs' = visitedCTPs
      /\ begun /\ ctpList = <<>>
      /\ nodes' = [t \in DOMAIN nodes |-> [nodes[t] EXCEPT !.multiforked = multi(t)]]
  BY DEF collectMultiForkedThreads, Tids
<1>2. prog \in Programs /\ TreeBuilt BY <1>1 DEF TreeInv
<1>3. TreeOf(nodes, tctEdges, visitedCTPs) BY <1>2 DEF TreeBuilt
<1>4. DOMAIN nodes = 1 .. Len(nodes) /\ Len(nodes) \in Nat /\ \A t \in DOMAIN nodes : nodes[t] \in Thread
  BY <1>3, TypedTree
<1>5. \A t \in DOMAIN nodes : /\ multi(t) \in BOOLEAN
                              /\ nodes[t].inloop \/ nodes[t].incycle => multi(t)
  OBVIOUS
<1> HIDE DEF multi
<1>6. \A t \in DOMAIN nodes :
        /\ nodes'[t] \in Thread /\ nodes'[t].cxt = nodes[t].cxt
        /\ nodes'[t].fork = nodes[t].fork /\ nodes'[t].incycle = nodes[t].incycle
        /\ nodes'[t].inloop = nodes[t].inloop /\ (multi(t) => nodes'[t].multiforked)
  BY <1>1, <1>4, <1>5 DEF Thread
<1>7. nodes' \in Seq(Thread) /\ DOMAIN nodes' = DOMAIN nodes /\ (nodes' # <<>> => nodes # <<>>)
  <2>1. DOMAIN nodes' = DOMAIN nodes BY <1>1
  <2>2. nodes' = [t \in 1 .. Len(nodes) |-> nodes'[t]] BY <1>1, <1>4
  <2>3. nodes' \in Seq(Thread) BY <1>4, <1>6, <2>2
  <2> QED BY <1>1, <2>1, <2>3
<1> DEFINE nds == nodes'
<1>8. TreeOf(nds, tctEdges, visitedCTPs)
  <2> HIDE DEF nds
  <2>1. /\ nds \in Seq(Thread) /\ DOMAIN nds = DOMAIN nodes /\ (nds # <<>> => nodes # <<>>)
        /\ \A t \in DOMAIN nodes : /\ nds[t].cxt = nodes[t].cxt /\ nds[t].fork = nodes[t].fork
                                   /\ nds[t].incycle = nodes[t].incycle /\ nds[t].inloop = nodes[t].inloop
    BY <1>6, <1>7 DEF nds
  <2>2. OwnKeys(nds) BY <1>3, <2>1 DEF TreeOf, OwnKeys
  <2>3. nds # <<>> => nds[1].fork = NoFork /\ nds[1].cxt = <<>>
    <3>1. nodes # <<>> => 1 \in DOMAIN nodes BY <1>4
    <3> QED BY <1>3, <2>1, <3>1 DEF TreeOf
  <2>4. ASSUME NEW t \in DOMAIN nds \ {1} PROVE ForkedBy(nds, tctEdges, visitedCTPs, t)
    <3>1. ForkedBy(nodes, tctEdges, visitedCTPs, t) BY <1>3, <2>1 DEF TreeOf
    <3>2. t \in DOMAIN nodes BY <2>1
    <3>3. PICK s \in forksites :
            /\ nodes[t].fork = s /\ Marked(nodes[t], s)
            /\ \E v \in visitedCTPs : v[3] = s[1] /\ <<v[1], t>> \in tctEdges
                                      /\ nodes[t].cxt = pushCxt(v[2], s, ins(s).fun)
      BY <3>1 DEF ForkedBy
    <3>4. Marked(nds[t], s) BY <2>1, <3>2, <3>3 DEF Marked
    <3> QED BY <2>1, <3>2, <3>3, <3>4 DEF ForkedBy
  <2>5. ASSUME NEW v \in visitedCTPs PROVE InThread(nds, v)
    <3>1. InThread(nodes, v) /\ v[1] \in DOMAIN nodes BY <1>3, TypedTree DEF TreeOf
    <3>2. nds[v[1]].cxt = nodes[v[1]].cxt /\ nds[v[1]].fork = nodes[v[1]].fork BY <2>1, <3>1
    <3> QED BY <3>1, <3>2 DEF InThread
  <2>6. visitedCTPs \subseteq (DOMAIN nds) \X Contexts \X Funs /\ tctEdges \subseteq (DOMAIN nds) \X (DOMAIN nds)
    BY <1>3, <2>1 DEF TreeOf
  <2> QED BY <2>1, <2>2, <2>3, <2>4, <2>5, <2>6 DEF TreeOf
<1>9. ASSUME NEW v \in visitedCTPs \ ToSet(ctpList) PROVE DoneIn(nds, visitedCTPs, v)
  <2>1. DoneIn(nodes, visitedCTPs, v) BY <1>2 DEF TreeBuilt
  <2> SUFFICES ASSUME v[3] \in markRelProcs, NEW s \in sitesFrom(v[3]) PROVE HandledIn(nds, visitedCTPs, v, s)
    BY DEF DoneIn
  <2>2. HandledIn(nodes, visitedCTPs, v, s) BY <2>1 DEF DoneIn
  <2> QED BY <1>6, <1>7, <2>2 DEF HandledIn
<1>10. TreeBuilt'
  <2>1. SCCsAre' /\ candidateFuncSet' = markRelProcs' /\ markRelProcs' = markRelProcs
    BY <1>1, <1>2, SameForks, SameTree DEF TreeBuilt
  <2>2. TreeOf(nodes, tctEdges, visitedCTPs)'
    <3>1. \A ns, es, vis : TreeOf(ns, es, vis)' <=> TreeOf(ns, es, vis) BY <1>1, SameTree
    <3>2. TreeOf(nodes', tctEdges', visitedCTPs') BY <1>1, <1>8
    <3> QED BY <3>1, <3>2
  <2>3. \A u \in visitedCTPs' \ ToSet(ctpList') : DoneIn(nodes, visitedCTPs, u)'
    <3>1. \A u \in visitedCTPs' \ ToSet(ctpList') : DoneIn(nodes', visitedCTPs', u) BY <1>1, <1>9
    <3>2. \A ns, vis, u : DoneIn(ns, vis, u)' <=> DoneIn(ns, vis, u) BY <1>1, SameTree
    <3> QED BY <3>1, <3>2
  <2> QED BY <1>1, <1>2, <2>1, <2>2, <2>3 DEF TreeBuilt
<1>11. begun' /\ ctpList' = <<>> BY <1>1 DEF begun
<1>12. \A t \in DOMAIN nodes' : nodes'[t].inloop \/ nodes'[t].incycle => nodes'[t].multiforked
  BY <1>1, <1>5, <1>6
<1> QED BY <1>1, <1>2, <1>10, <1>11, <1>12 DEF TreeInv

LEMMA LockPasses ==
  ASSUME LockNext
  PROVE  prog' = prog /\ pass \notin {"tct", "run"} /\ pass' # "tct"
<1>1. CASE analyzeIntraProcedualLock BY <1>1 DEF analyzeIntraProcedualLock
<1>2. CASE collectCxtLock BY <1>2 DEF collectCxtLock
<1>3. CASE startSpans BY <1>3 DEF startSpans
<1>4. CASE locksDone BY <1>4 DEF locksDone
<1>5. CASE lsaHandleFork BY <1>5 DEF lsaHandleFork, spanning, visited
<1>6. CASE acquireLock BY <1>6 DEF acquireLock, spanning, visited
<1>7. CASE releaseLock BY <1>7 DEF releaseLock, spanning, visited
<1>8. CASE lsaHandleCall BY <1>8 DEF lsaHandleCall, toCallee, spanning, visited
<1>9. CASE lsaHandleRet BY <1>9 DEF lsaHandleRet, spanning, visited
<1>10. CASE lsaHandleIntra BY <1>10 DEF lsaHandleIntra, spanning, visited
<1> QED BY <1>1, <1>2, <1>3, <1>4, <1>5, <1>6, <1>7, <1>8, <1>9, <1>10 DEF LockNext

LEMMA TreeStep == TreeInv /\ [Next]_vars => TreeInv'
<1> SUFFICES ASSUME TreeInv, [Next]_vars PROVE TreeInv' OBVIOUS
<1>1. CASE TCTNext BY <1>1, BuildKeeps, PopKeeps, CollectThreadsKeeps DEF TCTNext
<1>2. CASE (FJANext \/ MHPNext) /\ UNCHANGED tctVars BY <1>2, ForkJoinPasses, ParallelPasses, TreeStays
<1>3. CASE LockNext /\ UNCHANGED tctVars BY <1>3, LockPasses, TreeStays
<1>4. CASE UNCHANGED <<prog, pass, tctVars>> BY <1>4, TreeStays
<1>5. UNCHANGED vars => UNCHANGED <<prog, pass, tctVars>> BY DEF vars
<1> QED BY <1>1, <1>2, <1>3, <1>4, <1>5 DEF Next, Analysis, Stopped

LEMMA TreeAlways == Spec => []TreeInv
<1>1. TreeInv /\ [Next]_vars => TreeInv' BY TreeStep
<1> QED BY <1>1, StartTree, PTL DEF Spec

-----------------------------------------------------------------------------
(* What the tree says of a fork *)

Linked(p, t) == <<p, t>> \in tctEdges \/ nodes[t].incycle

\* Two pairs in one context that nothing in a recursion leads to are in one thread.
LEMMA OneThread ==
  ASSUME NEW nds, NEW eds, NEW vis, TreeOf(nds, eds, vis),
         NEW u \in vis, NEW v \in vis, u[2] = v[2], u[3] = v[3], straight(v[3])
  PROVE  u[1] = v[1]
<1> DEFINE c == v[2]
           x == nds[u[1]]
           y == nds[v[1]]
<1>1. /\ u[1] \in DOMAIN nds /\ v[1] \in DOMAIN nds /\ x.cxt \in Contexts /\ y.cxt \in Contexts
      /\ Len(c) \in Nat
  BY TypedTree
<1>2. InThread(nds, u) /\ InThread(nds, v) /\ OwnKeys(nds) BY DEF TreeOf
<1>3. PICK k \in 0 .. Len(c) :
        /\ Len(x.cxt) = k /\ \A j \in 1 .. k : x.cxt[j] = c[j]
        /\ x.fork = (IF k = 0 THEN NoFork ELSE c[k])
        /\ k > 0 => ins(c[k]).op = "fork"
        /\ \A j \in k + 1 .. Len(c) : ins(c[j]).op # "fork"
  <2>1. \E k \in 0 .. Len(u[2]) :
          /\ Len(x.cxt) = k /\ \A j \in 1 .. k : x.cxt[j] = u[2][j]
          /\ x.fork = (IF k = 0 THEN NoFork ELSE u[2][k])
          /\ k > 0 => ins(u[2][k]).op = "fork"
          /\ \A j \in k + 1 .. Len(u[2]) : ins(u[2][j]).op # "fork"
    <3>1. straight(u[3]) OBVIOUS
    <3> QED BY <1>2, <3>1 DEF InThread
  <2> QED BY <2>1
<1>4. PICK m \in 0 .. Len(c) :
        /\ Len(y.cxt) = m /\ \A j \in 1 .. m : y.cxt[j] = c[j]
        /\ y.fork = (IF m = 0 THEN NoFork ELSE c[m])
        /\ m > 0 => ins(c[m]).op = "fork"
        /\ \A j \in m + 1 .. Len(c) : ins(c[j]).op # "fork"
  BY <1>2 DEF InThread
<1> HIDE DEF c, x, y
<1>5. k = m
  <2>1. ~ (k < m)
    <3> SUFFICES ASSUME k < m PROVE FALSE OBVIOUS
    <3>1. m \in k + 1 .. Len(c) /\ m > 0 BY <1>1
    <3> QED BY <1>3, <1>4, <3>1
  <2>2. ~ (m < k)
    <3> SUFFICES ASSUME m < k PROVE FALSE OBVIOUS
    <3>1. k \in m + 1 .. Len(c) /\ k > 0 BY <1>1
    <3> QED BY <1>3, <1>4, <3>1
  <2> QED BY <1>1, <2>1, <2>2
<1>6. x.cxt = y.cxt
  <2>1. \A a, b \in Contexts : Len(a) = Len(b) /\ (\A j \in 1 .. Len(a) : a[j] = b[j]) => a = b BY DEF Contexts
  <2>2. \A j \in 1 .. k : x.cxt[j] = y.cxt[j] BY <1>3, <1>4, <1>5
  <2> QED BY <1>1, <1>3, <1>4, <1>5, <2>1, <2>2
<1>7. x.fork = y.fork BY <1>3, <1>4, <1>5
<1> QED BY <1>1, <1>2, <1>6, <1>7 DEF OwnKeys, x, y

LEMMA ForkLinked ==
  ASSUME prog \in Programs, TreeBuilt, ctpList = <<>>,
         NEW v \in visitedCTPs, v[3] \in toForks,
         NEW s \in sitesFrom(v[3]), ins(s).op = "fork"
  PROVE  LET g == ins(s).fun
             c == pushCxt(v[2], s, g)
             t == getTCTNode(c, s)
         IN /\ t \in Tids /\ <<t, c, g>> \in visitedCTPs /\ Linked(v[1], t)
            /\ nodes[t].cxt = c /\ nodes[t].fork = s
<1> DEFINE g == ins(s).fun
           c == pushCxt(v[2], s, g)
           t == getTCTNode(c, s)
<1>1. /\ SCCsAre /\ candidateFuncSet = markRelProcs /\ TreeOf(nodes, tctEdges, visitedCTPs)
      /\ v[3] \in markRelProcs /\ v[3] \in Funs
  BY ForksAre DEF TreeBuilt
<1>2. DoneIn(nodes, visitedCTPs, v)
  <2>1. ToSet(ctpList) = {} BY DEF ToSet
  <2> QED BY <2>1 DEF TreeBuilt
<1>3. HandledIn(nodes, visitedCTPs, v, s) BY <1>1, <1>2 DEF DoneIn
<1>4. PICK i \in DOMAIN nodes : nodes[i].cxt = c /\ nodes[i].fork = s /\ <<i, c, g>> \in visitedCTPs
  BY <1>3 DEF HandledIn
<1>5. t \in DOMAIN nodes /\ nodes[t].cxt = c /\ nodes[t].fork = s BY <1>4 DEF getTCTNode, Tids
<1>6. t = i BY <1>1, <1>4, <1>5 DEF TreeOf, OwnKeys
<1>7. s \in Insts /\ s[1] = v[3] /\ s = <<s[1], s[2]>> BY <1>1, SitesAre, InstIs
<1>8. t # 1
  <2>3. \A a, b : <<a, b>> # <<>> OBVIOUS
  <2>1. s # NoFork BY <1>7, <2>3 DEF NoFork
  <2>2. nodes # <<>> BY <1>5
  <2> QED BY <1>1, <1>5, <2>1, <2>2 DEF TreeOf
<1>9. ForkedBy(nodes, tctEdges, visitedCTPs, t) BY <1>1, <1>5, <1>8 DEF TreeOf
<1>10. PICK r \in forksites :
         /\ nodes[t].fork = r /\ Marked(nodes[t], r)
         /\ \E u \in visitedCTPs : u[3] = r[1] /\ <<u[1], t>> \in tctEdges
                                   /\ nodes[t].cxt = pushCxt(u[2], r, ins(r).fun)
  BY <1>9 DEF ForkedBy
<1>11. PICK u \in visitedCTPs : u[3] = s[1] /\ <<u[1], t>> \in tctEdges /\ c = pushCxt(u[2], s, g)
  BY <1>5, <1>10
<1>12. ASSUME ~ nodes[t].incycle PROVE <<v[1], t>> \in tctEdges
  <2>1. ~ isInRecursion(s) BY <1>5, <1>10, <1>12 DEF Marked
  <2>2. straight(v[3]) BY <1>7, <2>1 DEF isInRecursion, straight
  <2>3. ~ sameSCC(v[3], g) BY <1>1, <2>2, CallerIs
  <2>4. u[2] \in Contexts /\ v[2] \in Contexts BY <1>1, TypedTree
  <2>5. pushCxt(u[2], s, g) = Append(u[2], s) /\ pushCxt(v[2], s, g) = Append(v[2], s)
    <3>1. \A a \in Contexts : pushCxt(a, s, ins(s).fun) = IF sameSCC(v[3], ins(s).fun) THEN a ELSE Append(a, s)
      BY <1>1, PushIs
    <3> QED BY <2>3, <2>4, <3>1
  <2>6. \A a, b \in Contexts : Append(a, s) = Append(b, s) => a = b
    <3> SUFFICES ASSUME NEW a \in Contexts, NEW b \in Contexts, Append(a, s) = Append(b, s) PROVE a = b OBVIOUS
    <3>1. /\ Len(a) \in Nat /\ Len(b) \in Nat
          /\ Len(Append(a, s)) = Len(a) + 1 /\ Len(Append(b, s)) = Len(b) + 1
          /\ \A j \in 1 .. Len(a) : Append(a, s)[j] = a[j]
          /\ \A j \in 1 .. Len(b) : Append(b, s)[j] = b[j]
      BY DEF Contexts
    <3>2. Len(a) = Len(b) /\ \A j \in 1 .. Len(a) : a[j] = b[j] BY <3>1
    <3> QED BY <3>1, <3>2 DEF Contexts
  <2>7. u[2] = v[2] BY <1>11, <2>4, <2>5, <2>6
  <2>8. u[1] = v[1] BY <1>1, <1>7, <1>11, <2>2, <2>7, OneThread
  <2> QED BY <1>11, <2>8
<1> QED BY <1>4, <1>5, <1>6, <1>12 DEF Linked, Tids

-----------------------------------------------------------------------------
(* The running program in the tree *)

\* the thread of the instances with a path
idOf(path) == IF path = <<>> THEN 1 ELSE getTCTNode(cxtOf(path), Last(path))

\* the call sites below the k-th frame of a stack
sitesBelow(stack, k) == [j \in 1 .. k - 1 |-> <<stack[j].at[1], stack[j].at[2] - 1>>]

\* each function on the stack that leads to a fork is a pair of the tree
Walk(r) ==
  \A k \in 1 .. Len(r.stack) :
    r.stack[k].at[1] \in toForks =>
      <<idOf(r.path), cxtOf(r.path \o sitesBelow(r.stack, k)), r.stack[k].at[1]>> \in visitedCTPs

\* a path that leads somewhere is the context and the fork site of its thread
Named(path) ==
  path # <<>> => /\ idOf(path) \in Tids /\ nodes[idOf(path)].cxt = cxtOf(path)
                 /\ nodes[idOf(path)].fork = Last(path)

ParentIs(rs, i) ==
  rs[i].parent # 0 => rs[i].parent \in DOMAIN rs /\ Linked(idOf(rs[rs[i].parent].path), idOf(rs[i].path))

Walked ==
  /\ Runs
  /\ \A i \in DOMAIN running : Walk(running[i]) /\ Named(running[i].path) /\ ParentIs(running, i)

\* cxtOf and getTCTNode in what they depend on
cxtIn(p, scc, cand, path) ==
  LET cxt[k \in 0 .. Len(path)] ==
        IF k = 0 THEN <<>>
        ELSE IF path[k][1] \in cand /\ ~ (<<path[k][1], p.body[path[k][1]][path[k][2]].fun>> \in scc)
             THEN Append(cxt[k - 1], path[k]) ELSE cxt[k - 1]
  IN cxt[Len(path)]

nodeIn(nds, c, s) == CHOOSE t \in DOMAIN nds : nds[t].cxt = c /\ nds[t].fork = s

LEMMA SamePaths ==
  ASSUME prog' = prog, UNCHANGED tctVars
  PROVE  /\ \A p : idOf(p)' = idOf(p)
         /\ \A r : Walk(r)' <=> Walk(r)
         /\ \A p : Named(p)' <=> Named(p)
         /\ \A rs, i : ParentIs(rs, i)' <=> ParentIs(rs, i)
<1>1. /\ tcgSCC' = tcgSCC /\ candidateFuncSet' = candidateFuncSet /\ nodes' = nodes
      /\ tctEdges' = tctEdges /\ visitedCTPs' = visitedCTPs
  BY DEF tctVars
<1>2. ASSUME NEW p PROVE cxtOf(p)' = cxtOf(p)
  <2>1. cxtOf(p) = cxtIn(prog, tcgSCC, candidateFuncSet, p)
    BY DEF cxtOf, cxtIn, pushCxt, isCandidateFun, inSameCallGraphSCC, ins
  <2>2. cxtOf(p)' = cxtIn(prog', tcgSCC', candidateFuncSet', p)
    BY DEF cxtOf, cxtIn, pushCxt, isCandidateFun, inSameCallGraphSCC, ins
  <2> QED BY <1>1, <2>1, <2>2
<1>3. ASSUME NEW c, NEW s PROVE getTCTNode(c, s)' = getTCTNode(c, s)
  <2>1. getTCTNode(c, s) = nodeIn(nodes, c, s) BY DEF getTCTNode, nodeIn, Tids
  <2>2. getTCTNode(c, s)' = nodeIn(nodes', c, s) BY DEF getTCTNode, nodeIn, Tids
  <2> QED BY <1>1, <2>1, <2>2
<1>4. ASSUME NEW p PROVE idOf(p)' = idOf(p)
  BY <1>2, <1>3 DEF idOf
<1>5. toForks' = toForks
  <2>1. forksites' = forksites /\ joinsites' = joinsites BY SameProgram DEF forksites, joinsites, withOp
  <2> QED BY <2>1, SameProgram DEF toForks
<1>6. ASSUME NEW r PROVE Walk(r)' <=> Walk(r) BY <1>1, <1>2, <1>4, <1>5 DEF Walk, sitesBelow
<1>7. ASSUME NEW p, NEW t PROVE Linked(p, t)' <=> Linked(p, t) BY <1>1 DEF Linked
<1>8. ASSUME NEW rs, NEW i PROVE ParentIs(rs, i)' <=> ParentIs(rs, i) BY <1>4, <1>7 DEF ParentIs
<1>9. ASSUME NEW p PROVE Named(p)' <=> Named(p) BY <1>1, <1>2, <1>4 DEF Named, Tids
<1> QED BY <1>4, <1>6, <1>8, <1>9

\* Steps within a function and returns leave the functions below the top where they are.
LEMMA WalkOn ==
  ASSUME NEW q, NEW r, Walk(r), q.path = r.path, Len(q.stack) \in Nat, Len(r.stack) \in Nat,
         Len(q.stack) <= Len(r.stack),
         \A k \in 1 .. Len(q.stack) : q.stack[k].at[1] = r.stack[k].at[1],
         \A k \in 1 .. Len(q.stack) - 1 : q.stack[k].at = r.stack[k].at
  PROVE  Walk(q)
<1> SUFFICES ASSUME NEW k \in 1 .. Len(q.stack), q.stack[k].at[1] \in toForks
             PROVE  <<idOf(q.path), cxtOf(q.path \o sitesBelow(q.stack, k)), q.stack[k].at[1]>> \in visitedCTPs
  BY DEF Walk
<1>1. \A j \in 1 .. k - 1 : j \in 1 .. Len(q.stack) - 1 OBVIOUS
<1>2. sitesBelow(q.stack, k) = sitesBelow(r.stack, k) BY <1>1 DEF sitesBelow
<1>3. k \in 1 .. Len(r.stack) /\ q.stack[k].at[1] = r.stack[k].at[1] OBVIOUS
<1> QED BY <1>2, <1>3 DEF Walk

LEMMA BelowTop ==
  ASSUME Runs, NEW i \in DOMAIN running, running[i].stack # <<>>
  PROVE  callSites(i) = sitesBelow(running[i].stack, Len(running[i].stack))
<1> DEFINE s == running[i].stack
           u == Front(s)
<1>1. /\ Len(s) \in Nat /\ Len(s) >= 1 /\ u \in Seq(Frame)
      /\ Len(u) = Len(s) - 1 /\ \A k \in 1 .. Len(s) - 1 : u[k] = s[k]
  BY TopIs
<1>2. callSites(i) = [k \in DOMAIN u |-> <<u[k].at[1], u[k].at[2] - 1>>] BY DEF callSites
<1> HIDE DEF s, u
<1>3. DOMAIN u = 1 .. Len(s) - 1 BY <1>1
<1> QED BY <1>1, <1>2, <1>3 DEF sitesBelow, s

\* the pair of the function an instance is in
LEMMA TopPair ==
  ASSUME Runs, NEW i \in DOMAIN running, running[i].stack # <<>>, Walk(running[i]), at(i)[1] \in toForks
  PROVE  <<idOf(running[i].path), cxtOf(running[i].path \o callSites(i)), at(i)[1]>> \in visitedCTPs
<1> DEFINE s == running[i].stack
<1>1. Len(s) \in 1 .. Len(s) /\ at(i) = s[Len(s)].at BY TopIs
<1> HIDE DEF s
<1>2. Walk(running[i]) <=> \A k \in 1 .. Len(s) :
        s[k].at[1] \in toForks =>
          <<idOf(running[i].path), cxtOf(running[i].path \o sitesBelow(s, k)), s[k].at[1]>> \in visitedCTPs
  BY DEF Walk, s
<1>3. callSites(i) = sitesBelow(s, Len(s)) BY BelowTop DEF s
<1> QED BY <1>1, <1>2, <1>3

\* the context of the path that goes on over the site an instance is at
LEMMA NextCxt ==
  ASSUME prog \in Programs, Runs, NEW i \in DOMAIN running, running[i].stack # <<>>
  PROVE  LET p == running[i].path \o callSites(i)
         IN /\ cxtOf(p \o <<at(i)>>) = pushCxt(cxtOf(p), at(i), ins(at(i)).fun)
            /\ p \o <<at(i)>> # <<>> /\ Last(p \o <<at(i)>>) = at(i)
<1> DEFINE p == running[i].path \o callSites(i)
           n == at(i)
<1>1. p \in Seq(Funs \X Int) /\ n \in Funs \X Int BY PathIs
<1> HIDE DEF p, n
<1>2. p \o <<n>> = Append(p, n) BY <1>1
<1>3. cxtOf(Append(p, n)) = pushCxt(cxtOf(p), n, ins(n).fun) BY <1>1, CxtOfNext
<1>4. Len(p) \in Nat /\ Len(Append(p, n)) = Len(p) + 1 /\ Append(p, n)[Len(p) + 1] = n BY <1>1
<1>5. Append(p, n) # <<>> /\ Last(Append(p, n)) = n BY <1>4 DEF Last
<1> QED BY <1>2, <1>3, <1>5 DEF p, n

LEMMA CallWalks ==
  ASSUME prog \in Programs, TreeBuilt, ctpList = <<>>, Runs, NEW i \in DOMAIN running,
         isAt(i, "call"), Walk(running[i]),
         NEW r, r.path = running[i].path, r.stack = entered(i)
  PROVE  Walk(r)
<1> DEFINE s == running[i].stack
           t == r.stack
           n == at(i)
           g == ins(n).fun
           p == running[i].path
<1>1. /\ n \in Insts /\ g \in Funs /\ Len(s) \in Nat \ {0} /\ Len(t) = Len(s) + 1
      /\ t[Len(s) + 1] = frame(g) /\ t[Len(s)].at = behind(n)
      /\ \A k \in 1 .. Len(s) - 1 : t[k] = s[k]
  BY CalledIs
<1>2. s # <<>> /\ ins(n).op = "call" BY AtIs
<1>3. n = s[Len(s)].at /\ n[1] \in Funs /\ n[2] \in Int /\ n = <<n[1], n[2]>>
  <2>1. n = s[Len(s)].at BY <1>2, TopIs
  <2>2. n[1] \in Funs /\ n[2] \in 1 .. Len(prog.body[n[1]]) /\ n = <<n[1], n[2]>> BY <1>1, InstIs
  <2> QED BY <2>1, <2>2
<1>4. frame(g).at[1] = g BY <1>1, FrameIs
<1>5. n \in sitesFrom(n[1]) BY <1>1, <1>2, SiteIs
<1>6. \A k \in 1 .. Len(s) : s[k].at[1] \in toForks => <<idOf(p), cxtOf(p \o sitesBelow(s, k)), s[k].at[1]>> \in visitedCTPs
  BY DEF Walk
<1>7. Walk(r) <=> \A k \in 1 .. Len(t) :
        t[k].at[1] \in toForks => <<idOf(p), cxtOf(p \o sitesBelow(t, k)), t[k].at[1]>> \in visitedCTPs
  BY DEF Walk
<1>8. ASSUME g \in toForks
      PROVE  <<idOf(p), cxtOf(p \o callSites(i) \o <<n>>), g>> \in visitedCTPs
  <2>1. n[1] \in toForks BY <1>3, <1>5, <1>8, CallerIs
  <2> DEFINE v == <<idOf(p), cxtOf(p \o callSites(i)), n[1]>>
  <2>2. v \in visitedCTPs BY <1>2, <2>1, TopPair
  <2>3. DoneIn(nodes, visitedCTPs, v)
    <3>1. ToSet(ctpList) = {} BY DEF ToSet
    <3> QED BY <2>2, <3>1 DEF TreeBuilt
  <2>4. v[3] = n[1] /\ v[2] = cxtOf(p \o callSites(i)) /\ v[1] = idOf(p) OBVIOUS
  <2> HIDE DEF v
  <2>5. HandledIn(nodes, visitedCTPs, v, n) BY <1>5, <2>1, <2>3, <2>4, ForksAre DEF DoneIn
  <2>6. <<v[1], pushCxt(v[2], n, g), g>> \in visitedCTPs BY <1>2, <2>5 DEF HandledIn
  <2>7. cxtOf(p \o callSites(i) \o <<n>>) = pushCxt(cxtOf(p \o callSites(i)), n, g) BY <1>2, NextCxt
  <2> QED BY <2>4, <2>6, <2>7
<1>9. p \o sitesBelow(t, Len(s) + 1) = p \o callSites(i) \o <<n>>
  <2> DEFINE S == Funs \X Int
             c == callSites(i)
             d == sitesBelow(t, Len(s) + 1)
  <2>1. c \in Seq(S) /\ p \in Seq(S) /\ n \in S BY <1>2, PathIs
  <2>2. c = sitesBelow(s, Len(s)) BY <1>2, BelowTop
  <2>3. d = [j \in 1 .. Len(s) |-> <<t[j].at[1], t[j].at[2] - 1>>] BY <1>1 DEF sitesBelow
  <2>4. DOMAIN c = 1 .. Len(s) - 1 /\ \A j \in 1 .. Len(s) - 1 : c[j] = <<s[j].at[1], s[j].at[2] - 1>>
    BY <1>1, <2>2 DEF sitesBelow
  <2>5. <<t[Len(s)].at[1], t[Len(s)].at[2] - 1>> = n
    <3>1. behind(n)[1] = n[1] /\ behind(n)[2] = n[2] + 1 BY DEF behind
    <3> HIDE DEF s, t, n
    <3> QED BY <1>1, <1>3, <3>1
  <2> HIDE DEF s, t, n, p, S, c, d
  <2>6. Len(c) = Len(s) - 1 BY <1>1, <2>1, <2>4
  <2>7. ASSUME NEW j \in 1 .. Len(s) PROVE d[j] = (IF j = Len(s) THEN n ELSE c[j]) /\ d[j] \in S
    <3>1. d[j] = <<t[j].at[1], t[j].at[2] - 1>> BY <2>3
    <3>2. CASE j = Len(s)
      <4>1. d[j] = n BY <2>5, <3>1, <3>2
      <4> QED BY <2>1, <3>2, <4>1
    <3>3. CASE j # Len(s)
      <4>1. j \in 1 .. Len(s) - 1 BY <1>1, <3>3
      <4>2. t[j] = s[j] BY <1>1, <4>1
      <4>3. c[j] = <<s[j].at[1], s[j].at[2] - 1>> BY <2>4, <4>1
      <4>4. d[j] = c[j] BY <3>1, <4>2, <4>3
      <4>5. c[j] \in S BY <2>1, <2>4, <4>1
      <4> QED BY <3>3, <4>4, <4>5
    <3> QED BY <3>2, <3>3
  <2>8. d = Append(c, n)
    <3>1. DOMAIN d = 1 .. Len(s) BY <2>3
    <3>2. d \in Seq(S) /\ Len(d) = Len(s) BY <1>1, <2>3, <2>7, <3>1
    <3>3. /\ Append(c, n) \in Seq(S) /\ Len(Append(c, n)) = Len(c) + 1 /\ Append(c, n)[Len(c) + 1] = n
          /\ \A j \in 1 .. Len(c) : Append(c, n)[j] = c[j]
      BY <2>1
    <3>4. \A j \in 1 .. Len(s) : Append(c, n)[j] = IF j = Len(s) THEN n ELSE c[j] BY <1>1, <2>6, <3>3
    <3>5. \A j \in 1 .. Len(s) : Append(c, n)[j] = d[j] BY <2>7, <3>4
    <3>6. \A x, y \in Seq(S) : Len(x) = Len(y) /\ (\A j \in 1 .. Len(x) : x[j] = y[j]) => x = y OBVIOUS
    <3> QED BY <1>1, <2>6, <3>2, <3>3, <3>5, <3>6
  <2>9. Append(c, n) = c \o <<n>> BY <2>1, AppendIsConcat
  <2>10. <<n>> \in Seq(S) BY <2>1
  <2>11. p \o (c \o <<n>>) = p \o c \o <<n>> BY <2>1, <2>10, ConcatAssociative
  <2> QED BY <2>8, <2>9, <2>11 DEF c, d
<1> HIDE DEF s, t, n, g, p
<1>10. ASSUME NEW k \in 1 .. Len(t), t[k].at[1] \in toForks
       PROVE  <<idOf(p), cxtOf(p \o sitesBelow(t, k)), t[k].at[1]>> \in visitedCTPs
  <2>1. CASE k = Len(s) + 1 BY <1>1, <1>4, <1>8, <1>9, <1>10, <2>1
  <2>2. CASE k # Len(s) + 1
    <3>1. k \in 1 .. Len(s) /\ \A j \in 1 .. k - 1 : j \in 1 .. Len(s) - 1 BY <1>1, <2>2
    <3>2. sitesBelow(t, k) = sitesBelow(s, k) BY <1>1, <3>1 DEF sitesBelow
    <3>3. t[k].at[1] = s[k].at[1]
      <4>1. k # Len(s) => k \in 1 .. Len(s) - 1 BY <1>1, <3>1
      <4>2. behind(n)[1] = n[1] BY DEF behind
      <4> QED BY <1>1, <1>3, <4>1, <4>2
    <3> QED BY <1>6, <1>10, <3>1, <3>2, <3>3
  <2> QED BY <2>1, <2>2
<1> QED BY <1>7, <1>10

LEMMA ForkWalks ==
  ASSUME prog \in Programs, TreeBuilt, ctpList = <<>>, Runs, NEW i \in DOMAIN running,
         running[i].stack # <<>>, ins(at(i)).op = "fork", Walk(running[i])
  PROVE  /\ Walk(child(i)) /\ Linked(idOf(running[i].path), idOf(child(i).path))
         /\ Named(child(i).path)
<1> DEFINE n == at(i)
           p == running[i].path \o callSites(i)
           v == <<idOf(running[i].path), cxtOf(p), n[1]>>
           g == ins(n).fun
           c == pushCxt(v[2], n, g)
           t == getTCTNode(c, n)
           q == p \o <<n>>
<1>1. n \in Insts BY TopIs
<1>2. n \in forksites BY <1>1 DEF forksites, withOp
<1>3. n[1] \in toForks /\ n \in sitesFrom(n[1]) /\ g \in Funs BY <1>1, <1>2, ForksAre, InstHas
<1>4. v \in visitedCTPs BY <1>3, TopPair
<1>5. v[3] = n[1] /\ v[1] = idOf(running[i].path) /\ v[2] = cxtOf(p) OBVIOUS
<1>6. t \in Tids /\ <<t, c, g>> \in visitedCTPs /\ Linked(v[1], t) /\ nodes[t].cxt = c /\ nodes[t].fork = n
  BY <1>3, <1>4, <1>5, ForkLinked
<1>7. cxtOf(q) = c /\ q # <<>> /\ Last(q) = n BY NextCxt
<1>8. idOf(q) = t BY <1>7 DEF idOf
<1>9. child(i).path = q /\ child(i).stack = <<frame(g)>> BY DEF child
<1>10. frame(g).at[1] = g BY <1>3, FrameIs
<1>11. q \in Seq(Funs \X Int) BY PathIs
<1> HIDE DEF n, p, v, g, c, t, q
<1>12. q \o sitesBelow(<<frame(g)>>, 1) = q
  <2>1. sitesBelow(<<frame(g)>>, 1) = <<>> BY DEF sitesBelow
  <2> QED BY <1>11, <2>1
<1>13. <<t, cxtOf(q \o sitesBelow(<<frame(g)>>, 1)), g>> \in visitedCTPs BY <1>6, <1>7, <1>12
<1>14. Walk(child(i))
  <2>1. \A k \in 1 .. Len(<<frame(g)>>) : k = 1 OBVIOUS
  <2>2. <<frame(g)>>[1] = frame(g) OBVIOUS
  <2> QED BY <1>8, <1>9, <1>10, <1>13, <2>1, <2>2 DEF Walk
<1>15. Named(child(i).path) BY <1>6, <1>7, <1>8, <1>9 DEF Named
<1> QED BY <1>5, <1>6, <1>8, <1>9, <1>14, <1>15

LEMMA StartWalks ==
  ASSUME prog \in Programs, TreeBuilt
  PROVE  Walk(first0)
<1>1. Main \in Funs /\ frame(Main).at[1] = Main BY ProgramIs, FrameIs DEF Funs
<1>2. Main \in toForks => <<1, <<>>, Main>> \in visitedCTPs BY ForksAre DEF TreeBuilt
<1>3. idOf(<<>>) = 1 BY DEF idOf
<1>4. cxtOf(<<>> \o sitesBelow(<<frame(Main)>>, 1)) = <<>>
  <2>1. sitesBelow(<<frame(Main)>>, 1) = <<>> BY DEF sitesBelow
  <2>2. <<>> \o <<>> = <<>> OBVIOUS
  <2> QED BY <2>1, <2>2, CxtOfNone
<1>5. \A k \in 1 .. Len(<<frame(Main)>>) : k = 1 OBVIOUS
<1>6. <<frame(Main)>>[1] = frame(Main) OBVIOUS
<1>7. first0.path = <<>> /\ first0.stack = <<frame(Main)>> BY DEF first0
<1> QED BY <1>1, <1>2, <1>3, <1>4, <1>5, <1>6, <1>7 DEF Walk

\* Steps of an instance within a function, into one, and back.
LEMMA StackWalks ==
  ASSUME prog \in Programs, TreeBuilt, ctpList = <<>>, Runs, NEW i \in DOMAIN running, Walk(running[i]),
         prog' = prog, pass' = pass,
         \/ access(i) \/ goto(i) \/ branch(i) \/ enterLoop(i) \/ leaveLoop(i)
         \/ join(i) \/ lock(i) \/ unlock(i) \/ call(i) \/ ret(i)
  PROVE  /\ Runs' /\ DOMAIN running' = DOMAIN running
         /\ \A j \in DOMAIN running : /\ j # i => running'[j] = running[j]
                                      /\ running'[j].path = running[j].path
                                      /\ running'[j].parent = running[j].parent
         /\ Walk(running'[i])
<1> DEFINE q == running'[i]
           r == running[i]
           others == /\ Runs' /\ DOMAIN running' = DOMAIN running
                     /\ \A j \in DOMAIN running : /\ j # i => running'[j] = running[j]
                                                  /\ running'[j].path = running[j].path
                                                  /\ running'[j].parent = running[j].parent
<1>1. CASE access(i) \/ goto(i) \/ branch(i) \/ enterLoop(i) \/ leaveLoop(i) \/ join(i) \/ lock(i) \/ unlock(i)
  <2>1. running[i].stack # <<>> /\ ownLocks(i) BY <1>1, StepIs
  <2>2. PICK fr \in Frame : fr.at[1] = at(i)[1] /\ toStack(i, moved(i, fr)) BY <1>1, StepIs
  <2> DEFINE t == moved(i, fr)
  <2>3. /\ t \in Seq(Frame) /\ Len(t) = Len(r.stack) /\ t[Len(t)] = fr
        /\ \A k \in 1 .. Len(t) - 1 : t[k] = r.stack[k]
        /\ \A k \in 1 .. Len(t) - 1 : behindCall(t[k + 1].at[1], t[k].at)
    BY <2>1, <2>2, MovedIs
  <2>4. chained(t) BY <2>3 DEF chained
  <2>5. others /\ q.stack = t BY <2>1, <2>2, <2>3, <2>4, StackedIs
  <2>6. Len(r.stack) \in Nat /\ at(i) = r.stack[Len(r.stack)].at BY <2>1, TopIs
  <2>7. q.path = r.path BY <2>5
  <2> HIDE DEF q, r, t
  <2>8. \A k \in 1 .. Len(q.stack) : q.stack[k].at[1] = r.stack[k].at[1]
    <3>1. \A k \in 1 .. Len(t) : k # Len(t) => k \in 1 .. Len(t) - 1 BY <2>3, <2>6
    <3> QED BY <2>2, <2>3, <2>5, <2>6, <3>1
  <2>9. \A k \in 1 .. Len(q.stack) - 1 : q.stack[k].at = r.stack[k].at BY <2>3, <2>5
  <2>10. Walk(r) BY DEF r
  <2>11. Len(q.stack) \in Nat /\ Len(q.stack) <= Len(r.stack) BY <2>3, <2>5, <2>6
  <2>12. Walk(q) BY <2>6, <2>7, <2>8, <2>9, <2>10, <2>11, WalkOn
  <2> QED BY <2>5, <2>12 DEF q
<1>2. CASE call(i)
  <2>1. isAt(i, "call") /\ toStack(i, entered(i)) /\ owners' = owners BY <1>2 DEF call, entered
  <2>2. entered(i) \in Seq(Frame) /\ chained(entered(i)) BY <2>1, CalledIs
  <2>3. ownLocks(i) BY <2>1 DEF ownLocks
  <2>4. others /\ q.stack = entered(i) BY <2>1, <2>2, <2>3, StackedIs
  <2>5. Walk(q) BY <2>1, <2>4, CallWalks
  <2> QED BY <2>4, <2>5
<1>3. CASE ret(i)
  <2>1. running[i].stack # <<>> /\ toStack(i, Front(r.stack)) /\ owners' = owners BY <1>3, AtIs DEF ret
  <2>2. /\ Front(r.stack) \in Seq(Frame) /\ chained(Front(r.stack))
        /\ Len(r.stack) \in Nat \ {0} /\ Len(Front(r.stack)) = Len(r.stack) - 1
        /\ \A k \in 1 .. Len(r.stack) - 1 : Front(r.stack)[k] = r.stack[k]
    BY <2>1, ReturnedIs
  <2>3. ownLocks(i) BY <2>1 DEF ownLocks
  <2>4. others /\ q.stack = Front(r.stack) BY <2>1, <2>2, <2>3, StackedIs
  <2>5. q.path = r.path BY <2>4
  <2>6. Walk(r) OBVIOUS
  <2> HIDE DEF q, r
  <2>7. Len(q.stack) = Len(r.stack) - 1 /\ \A k \in 1 .. Len(q.stack) : q.stack[k] = r.stack[k] BY <2>2, <2>4
  <2>8. \A k \in 1 .. Len(q.stack) - 1 : k \in 1 .. Len(q.stack) BY <2>2, <2>7
  <2>9. Len(q.stack) \in Nat /\ Len(r.stack) \in Nat /\ Len(q.stack) <= Len(r.stack) BY <2>2, <2>7
  <2>10. Walk(q) BY <2>5, <2>6, <2>7, <2>8, <2>9, WalkOn
  <2> QED BY <2>4, <2>10 DEF q
<1> QED BY <1>1, <1>2, <1>3

\* The threads of the parents do not change while their paths do not.
LEMMA ParentsStay ==
  ASSUME NEW rs, NEW qs, NEW i \in DOMAIN rs, DOMAIN rs \subseteq DOMAIN qs,
         \A j \in DOMAIN rs : qs[j].path = rs[j].path /\ qs[j].parent = rs[j].parent,
         ParentIs(rs, i)
  PROVE  ParentIs(qs, i)
BY DEF ParentIs

LEMMA ThreadsWalk ==
  ASSUME TreeInv, Walked, ThreadsNext, UNCHANGED <<prog, pass, tctVars>>
  PROVE  Walked'
<1>1. prog \in Programs /\ prog' = prog /\ pass' = pass /\ Runs BY DEF TreeInv, Walked
<1>2. pass = "run" => TreeBuilt /\ ctpList = <<>> BY DEF TreeInv
<1>3. ASSUME NEW j \in DOMAIN running
      PROVE  Walk(running[j]) /\ Named(running[j].path) /\ ParentIs(running, j)
  BY DEF Walked
<1>4. ASSUME Runs', \A j \in DOMAIN running' : /\ Walk(running'[j]) /\ Named(running'[j].path)
                                               /\ ParentIs(running', j)
      PROVE  Walked'
  <2>1. \A j \in DOMAIN running' : Walk(running[j])' /\ Named(running[j].path)' /\ ParentIs(running, j)'
    BY <1>1, <1>4, SamePaths
  <2> QED BY <1>4, <2>1 DEF Walked
<1>5. CASE start
  <2>1. Runs' /\ pass = "run" /\ DOMAIN running' = {1} /\ running'[1] = first0 BY <1>1, <1>5, StartedIs
  <2>2. Walk(first0) BY <1>1, <1>2, <2>1, StartWalks
  <2>3. first0.parent = 0 BY DEF first0
  <2>4. ParentIs(running', 1) BY <2>1, <2>3 DEF ParentIs
  <2>5. Named(first0.path) BY DEF first0, Named
  <2> QED BY <1>4, <2>1, <2>2, <2>4, <2>5
<1>6. ASSUME NEW i \in DOMAIN running,
             \/ access(i) \/ goto(i) \/ branch(i) \/ enterLoop(i) \/ leaveLoop(i)
             \/ join(i) \/ lock(i) \/ unlock(i) \/ call(i) \/ ret(i) \/ fork(i)
      PROVE  Walked'
  <2>1. pass = "run" /\ TreeBuilt /\ ctpList = <<>>
    <3>1. running # <<>> BY <1>1, <1>6, StackAt
    <3> QED BY <1>1, <1>2, <3>1 DEF Runs
  <2>2. CASE fork(i)
    <3> DEFINE N == Len(running)
    <3>1. /\ Runs' /\ N \in Nat /\ DOMAIN running = 1 .. N /\ DOMAIN running' = DOMAIN running \cup {N + 1}
          /\ running[i].stack # <<>> /\ ins(at(i)).op = "fork" /\ at(i) \in Insts
          /\ goOn(i) \in Frame /\ goOn(i).at[1] = at(i)[1]
          /\ running'[N + 1] = child(i) /\ running'[i].stack = moved(i, goOn(i))
      BY <1>1, <2>2, ForkedIs
    <3>2. \A j \in DOMAIN running : /\ j # i => running'[j] = running[j]
                                    /\ running'[j].path = running[j].path
                                    /\ running'[j].parent = running[j].parent
      BY <1>1, <2>2, ForkedIs
    <3>3. /\ Walk(child(i)) /\ Linked(idOf(running[i].path), idOf(child(i).path))
          /\ Named(child(i).path)
      BY <1>1, <1>3, <2>1, <3>1, ForkWalks
    <3> DEFINE q == running'[i]
               r == running[i]
               t == moved(i, goOn(i))
    <3>4. /\ t \in Seq(Frame) /\ Len(t) = Len(r.stack) /\ t[Len(t)] = goOn(i)
          /\ \A k \in 1 .. Len(t) - 1 : t[k] = r.stack[k]
      BY <1>1, <3>1, MovedIs
    <3>5. Len(r.stack) \in Nat /\ at(i) = r.stack[Len(r.stack)].at BY <1>1, <3>1, TopIs
    <3>6. q.stack = t /\ q.path = r.path /\ Walk(r) BY <1>3, <3>1, <3>2
    <3>7. Walk(q)
      <4> HIDE DEF q, r, t
      <4>1. \A k \in 1 .. Len(t) : k # Len(t) => k \in 1 .. Len(t) - 1 BY <3>4, <3>5
      <4>2. \A k \in 1 .. Len(q.stack) : q.stack[k].at[1] = r.stack[k].at[1] BY <3>1, <3>4, <3>5, <3>6, <4>1
      <4>3. \A k \in 1 .. Len(q.stack) - 1 : q.stack[k].at = r.stack[k].at BY <3>4, <3>6
      <4>4. Len(q.stack) \in Nat /\ Len(q.stack) <= Len(r.stack) BY <3>4, <3>5, <3>6
      <4> QED BY <3>5, <3>6, <4>2, <4>3, <4>4, WalkOn
    <3>8. \A j \in DOMAIN running : Walk(running'[j]) /\ Named(running'[j].path) BY <1>3, <3>2, <3>7
    <3>9. \A j \in DOMAIN running : ParentIs(running', j) BY <1>3, <3>1, <3>2, ParentsStay
    <3>10. child(i).parent = i BY DEF child
    <3>11. ParentIs(running', N + 1)
      <4>1. running'[i].path = running[i].path /\ i \in DOMAIN running' BY <3>1, <3>2
      <4> QED BY <3>1, <3>3, <3>10, <4>1 DEF ParentIs
    <3> HIDE DEF N, q, r, t
    <3> QED BY <1>4, <3>1, <3>3, <3>8, <3>9, <3>11
  <2>3. CASE ~ fork(i)
    <3>1. /\ Runs' /\ DOMAIN running' = DOMAIN running
          /\ \A j \in DOMAIN running : /\ j # i => running'[j] = running[j]
                                       /\ running'[j].path = running[j].path
                                       /\ running'[j].parent = running[j].parent
          /\ Walk(running'[i])
      BY <1>1, <1>3, <1>6, <2>1, <2>3, StackWalks
    <3>2. \A j \in DOMAIN running : ParentIs(running', j) BY <1>3, <3>1, ParentsStay
    <3>3. \A j \in DOMAIN running : Walk(running'[j]) /\ Named(running'[j].path) BY <1>3, <3>1
    <3> QED BY <1>4, <3>1, <3>2, <3>3
  <2> QED BY <2>2, <2>3
<1> QED BY <1>5, <1>6 DEF ThreadsNext

LEMMA StartWalked == Init => Walked
<1> SUFFICES ASSUME Init PROVE Walked OBVIOUS
<1>1. running = <<>> /\ owners = <<>> BY DEF Init, ThreadsInit
<1>2. DOMAIN running = {} /\ DOMAIN owners = {} BY <1>1
<1>3. <<>> \in Seq(Instance) OBVIOUS
<1> QED BY <1>1, <1>2, <1>3 DEF Walked, Runs

LEMMA WalkedStep == TreeInv /\ Walked /\ [Next]_vars => Walked'
<1> SUFFICES ASSUME TreeInv, Walked, [Next]_vars PROVE Walked' OBVIOUS
<1>1. CASE Analysis
  <2>1. prog' = prog /\ pass # "run" /\ UNCHANGED thrVars
    <3>1. TCTNext => prog' = prog /\ pass = "tct"
      BY DEF TCTNext, build, popFromCTPWorkList, collectMultiForkedThreads
    <3> QED BY <1>1, <3>1, ForkJoinPasses, ParallelPasses, LockPasses DEF Analysis
  <2>2. running = <<>> BY <2>1 DEF Walked, Runs
  <2>3. running' = running /\ owners' = owners BY <2>1 DEF thrVars
  <2>4. DOMAIN running = {} BY <2>2
  <2>5. DOMAIN owners = {} BY <2>4 DEF Walked, Runs
  <2>6. <<>> \in Seq(Instance)' OBVIOUS
  <2>7. Runs' BY <2>2, <2>3, <2>4, <2>5, <2>6 DEF Runs
  <2> QED BY <2>3, <2>4, <2>7 DEF Walked
<1>2. CASE ThreadsNext /\ UNCHANGED <<prog, pass, tctVars>> BY <1>2, ThreadsWalk
<1>3. CASE UNCHANGED vars
  <2>1. prog' = prog /\ pass' = pass /\ UNCHANGED tctVars /\ running' = running /\ owners' = owners
    BY <1>3 DEF vars, thrVars
  <2>2. Runs' BY <2>1, SameInsts DEF Walked, Runs
  <2> QED BY <2>1, <2>2, SamePaths DEF Walked
<1> QED BY <1>1, <1>2, <1>3 DEF Next, Stopped

LEMMA WalkedAlways == Spec => [](TreeInv /\ Walked)
<1>1. TreeInv /\ Walked /\ [Next]_vars => (TreeInv /\ Walked)' BY TreeStep, WalkedStep
<1> QED BY <1>1, StartTree, StartWalked, PTL DEF Spec

\* Outside of recursions the tree has an edge for every fork that happens, from the
\* thread that forks to the thread that is forked in the context of the fork, whatever
\* the program and however it runs.
THEOREM ParentsFound == Spec => []ParentsInTree
<1>1. Walked => ParentsInTree
  <2> SUFFICES ASSUME Walked, NEW i \in DOMAIN running, running[i].parent # 0
               PROVE  <<tid(running[i].parent), tid(i)>> \in tctEdges \/ nodes[tid(i)].incycle
    BY DEF ParentsInTree
  <2>1. Linked(idOf(running[running[i].parent].path), idOf(running[i].path)) BY DEF Walked, ParentIs
  <2>2. \A j : tid(j) = idOf(running[j].path) BY DEF tid, idOf
  <2> QED BY <2>1, <2>2 DEF Linked
<1> QED BY <1>1, WalkedAlways, PTL


-----------------------------------------------------------------------------
(* One instance for a thread that is forked once *)

\* What a path leads through calls the function that its last site is in.
LEMMA CallersOnPath ==
  ASSUME prog \in Programs, NEW path, Leads(path), path # <<>>
  PROVE  /\ Len(path) \in Nat /\ Len(path) \in 1 .. Len(path)
         /\ \A k \in 1 .. Len(path) :
              /\ path[k] \in Insts /\ path[k][1] \in Funs /\ path[k] \in sitesFrom(path[k][1])
              /\ path[k][1] \in callersUpTo(path[Len(path)][1])
              /\ straight(path[Len(path)][1]) => straight(path[k][1])
              /\ k # Len(path) => path[k] \in sitesOf(path[k + 1][1])
<1> DEFINE n == Len(path)
           up(k) == /\ path[k][1] \in callersUpTo(path[n][1])
                    /\ callersUpTo(path[k][1]) \subseteq callersUpTo(path[n][1])
                    /\ straight(path[n][1]) => straight(path[k][1])
           B == {m \in 0 .. n - 1 : up(n - m)}
<1>1. path \in Seq(Sites) BY DEF Leads
<1>2. n \in Nat /\ n \in 1 .. n /\ n - 1 \in Nat BY <1>1
<1>3. ASSUME NEW k \in 1 .. n
      PROVE  /\ path[k] \in Insts /\ ins(path[k]).op \in {"call", "fork"} /\ path[k][1] \in Funs
             /\ path[k] \in sitesFrom(path[k][1])
  <2>1. path[k] \in Sites BY <1>1, ElementOfSeq
  <2>2. path[k] \in Insts /\ ins(path[k]).op \in {"call", "fork"} BY <2>1 DEF Sites, withOp
  <2> QED BY <2>2, SiteIs
<1>4. ASSUME NEW k \in 1 .. n - 1 PROVE ins(path[k]).fun = path[k + 1][1] BY DEF Leads
<1> HIDE DEF n
<1>5. 0 \in B
  <2>1. up(n) BY DEF callersUpTo
  <2>2. n - 0 = n /\ 0 \in 0 .. n - 1 BY <1>2
  <2> QED BY <2>1, <2>2
<1>6. ASSUME NEW m \in 1 .. n - 1, m - 1 \in B PROVE m \in B
  <2> DEFINE k == n - m
  <2>1. k \in 1 .. n - 1 /\ k \in 1 .. n /\ k + 1 = n - (m - 1) /\ m \in 0 .. n - 1 BY <1>2
  <2>2. up(k + 1) BY <1>6, <2>1
  <2> HIDE DEF k
  <2>3. ins(path[k]).fun = path[k + 1][1] BY <1>4, <2>1
  <2>4. /\ straight(path[k + 1][1]) => straight(path[k][1])
        /\ path[k][1] \in callersUpTo(path[k + 1][1])
        /\ callersUpTo(path[k][1]) \subseteq callersUpTo(path[k + 1][1])
    BY <1>3, <2>1, <2>3, CallerIs
  <2>5. up(k) BY <2>2, <2>4
  <2> QED BY <2>1, <2>5 DEF k
<1> HIDE DEF B
<1>7. \A m \in 0 .. n - 1 : m \in B BY <1>2, <1>5, <1>6, UpTo
<1>8. ASSUME NEW k \in 1 .. n PROVE up(k)
  <2>1. n - k \in 0 .. n - 1 /\ n - (n - k) = k BY <1>2
  <2> QED BY <1>7, <2>1 DEF B
<1>9. ASSUME NEW k \in 1 .. n, k # n PROVE path[k] \in sitesOf(path[k + 1][1])
  <2>1. k \in 1 .. n - 1 BY <1>2, <1>9
  <2> QED BY <1>3, <1>4, <2>1 DEF sitesOf, withOp
<1> QED BY <1>2, <1>3, <1>8, <1>9 DEF n

\* Outside of recursions the context of a path to a fork is the path.
LEMMA CxtIsPath ==
  ASSUME prog \in Programs, SCCsAre, candidateFuncSet = markRelProcs,
         NEW path, Leads(path), path # <<>>, straight(path[Len(path)][1])
  PROVE  cxtOf(path) = path
<1> DEFINE n == Len(path)
           part(k) == SubSeq(path, 1, k)
           B == {k \in 0 .. n : cxtOf(part(k)) = part(k)}
<1>1. path \in Seq(Sites) /\ path \in Contexts BY DEF Leads, Sites, Contexts, callSitesAll
<1>2. /\ n \in Nat
      /\ \A k \in 1 .. n : path[k][1] \in Funs /\ path[k] \in sitesFrom(path[k][1]) /\ straight(path[k][1])
  BY CallersOnPath
<1>3. 0 \in B
  <2>1. part(0) = <<>> BY <1>1
  <2> HIDE DEF part
  <2>2. cxtOf(part(0)) = part(0) BY <2>1, CxtOfNone
  <2>3. 0 \in 0 .. n BY <1>2
  <2> QED BY <2>2, <2>3
<1>4. ASSUME NEW k \in 1 .. n, k - 1 \in B PROVE k \in B
  <2> DEFINE q == part(k - 1)
             s == path[k]
  <2>1. q \in Seq(callSitesAll) /\ q \in Contexts /\ s \in callSitesAll
    <3>1. k - 1 \in Nat /\ k - 1 <= n /\ k \in Nat BY <1>2
    <3>2. q \in Seq(callSitesAll) BY <1>1, <1>2, <3>1, SubSeqProperties DEF Contexts
    <3>3. s \in callSitesAll BY <1>1, ElementOfSeq DEF Contexts
    <3> QED BY <3>2, <3>3 DEF Contexts
  <2>2. part(k) = Append(q, s)
    <3>1. part(k) = q \o <<s>> BY <1>1, <1>2, SubSeqRecursiveSecond
    <3> HIDE DEF q, s, part
    <3> QED BY <2>1, <3>1, AppendIsConcat
  <2>3. cxtOf(q) = q BY <1>4
  <2> HIDE DEF q, part
  <2>4. cxtOf(Append(q, s)) = pushCxt(q, s, ins(s).fun) BY <2>1, <2>3, CxtOfNext
  <2>5. ~ sameSCC(s[1], ins(s).fun) /\ s[1] \in markRelProcs
    <3>1. s[1] \in Funs /\ s \in sitesFrom(s[1]) /\ straight(s[1]) /\ s[1] \in toForks BY <1>2 DEF straight
    <3> QED BY <3>1, CallerIs, ForksAre
  <2>6. pushCxt(q, s, ins(s).fun) = Append(q, s) BY <1>2, <2>1, <2>5, PushIs
  <2>7. k \in 0 .. n BY <1>2
  <2> QED BY <2>2, <2>4, <2>6, <2>7
<1> HIDE DEF B
<1>5. n \in 0 .. n BY <1>2
<1>6. n \in B BY <1>2, <1>3, <1>4, <1>5, UpTo
<1>7. part(n) = path BY <1>1, SubSeqFull
<1> QED BY <1>6, <1>7 DEF B

\* What leads to an instruction that is in no loop is in no loop.
LEMMA PathUnlooped ==
  ASSUME prog \in Programs, NEW path, Leads(path), path # <<>>,
         ~ isInLoopInstruction(path[Len(path)])
  PROVE  ~ looped(path)
<1> DEFINE n == Len(path)
           s == path[n]
<1>1. /\ n \in Nat /\ n \in 1 .. n
      /\ \A k \in 1 .. n : path[k][1] \in callersUpTo(s[1])
      /\ \A k \in 1 .. n : k # n => path[k] \in sitesOf(path[k + 1][1])
  BY CallersOnPath
<1>2. \A m \in {s} \cup UNION {sitesOf(f) : f \in callersUpTo(s[1])} : loopsAt(m) = {}
  BY DEF isInLoopInstruction
<1> HIDE DEF n, s
<1>3. ASSUME NEW k \in 1 .. n PROVE loopsAt(path[k]) = {}
  <2>1. CASE k = n BY <1>2, <2>1 DEF s
  <2>2. CASE k # n
    <3>1. k + 1 \in 1 .. n BY <1>1, <2>2
    <3>2. path[k] \in sitesOf(path[k + 1][1]) BY <1>1, <2>2
    <3>3. path[k + 1][1] \in callersUpTo(s[1]) BY <1>1, <3>1
    <3> QED BY <1>2, <3>2, <3>3
  <2> QED BY <2>1, <2>2
<1> QED BY <1>3 DEF looped, n

\* The fork site of a thread that is forked once is in no loop and no recursion.
LEMMA ForkedOnce ==
  ASSUME TreeInv, TreeBuilt, pass # "tct", NEW t \in Tids, ~ nodes[t].multiforked,
         nodes[t].fork # NoFork
  PROVE  LET s == nodes[t].fork
         IN /\ s \in forksites /\ ~ isInLoopInstruction(s) /\ ~ isInRecursion(s) /\ straight(s[1])
<1>1. TreeOf(nodes, tctEdges, visitedCTPs) /\ prog \in Programs BY DEF TreeBuilt, TreeInv
<1>2. t # 1
  <2>1. nodes # <<>> BY DEF Tids
  <2> QED BY <1>1, <2>1 DEF TreeOf
<1>3. ForkedBy(nodes, tctEdges, visitedCTPs, t) BY <1>1, <1>2 DEF TreeOf, Tids
<1>4. PICK s \in forksites : nodes[t].fork = s /\ Marked(nodes[t], s) BY <1>3 DEF ForkedBy
<1>5. nodes[t].inloop \/ nodes[t].incycle => nodes[t].multiforked BY DEF TreeInv, Tids
<1>6. ~ isInLoopInstruction(s) /\ ~ isInRecursion(s) BY <1>4, <1>5 DEF Marked
<1>7. s[1] \in toForks BY <1>1, ForksAre
<1>8. straight(s[1]) BY <1>6, <1>7 DEF isInRecursion, straight
<1> QED BY <1>4, <1>6, <1>8

LEMMA OneInstance == TreeInv /\ Walked /\ Once => SingleInstance
<1> SUFFICES ASSUME TreeInv, Walked, Once, NEW i \in DOMAIN running, NEW j \in DOMAIN running,
                    i # j, tid(i) = tid(j), ~ isMultiforked(tid(i))
             PROVE  FALSE
  BY DEF SingleInstance
<1>1. \A k : tid(k) = idOf(running[k].path) BY DEF tid, idOf
<1>2. prog \in Programs /\ TreeBuilt /\ pass # "tct"
  <2>1. running # <<>> OBVIOUS
  <2>2. pass = "run" BY <2>1 DEF Walked, Runs
  <2> QED BY <2>2 DEF TreeInv
<1>3. SCCsAre /\ candidateFuncSet = markRelProcs /\ TreeOf(nodes, tctEdges, visitedCTPs) BY <1>2 DEF TreeBuilt
<1>4. running[1].path = <<>> BY DEF Once
<1> DEFINE t == tid(i)
\* a thread with a path is in the tree, and its path is its context
<1>5. ASSUME NEW k \in DOMAIN running, k # 1, tid(k) = t
      PROVE  /\ running[k].path # <<>> /\ Leads(running[k].path)
             /\ t \in Tids /\ nodes[t].cxt = cxtOf(running[k].path)
             /\ nodes[t].fork = running[k].path[Len(running[k].path)] /\ nodes[t].fork # NoFork
  <2> DEFINE p == running[k].path
  <2>1. Leads(p) /\ Child(running, k) BY <1>5 DEF Once
  <2>2. ForkedOn(p, running[running[k].parent].path) /\ running[k].parent \in DOMAIN running
    BY <2>1 DEF Child
  <2>3. Leads(running[running[k].parent].path) BY <2>2 DEF Once
  <2>4. Len(running[running[k].parent].path) \in Nat BY <2>3 DEF Leads
  <2>5. p # <<>>
    <3>1. Len(running[running[k].parent].path) < Len(p) BY <2>2 DEF ForkedOn
    <3>2. Len(<<>>) = 0 OBVIOUS
    <3> QED BY <2>4, <3>1, <3>2
  <2>6. /\ idOf(p) \in Tids /\ nodes[idOf(p)].cxt = cxtOf(p) /\ nodes[idOf(p)].fork = Last(p)
    BY <2>5 DEF Walked, Named
  <2>7. idOf(p) = t BY <1>1, <1>5
  <2>8. p[Len(p)] \in Insts BY <1>2, <2>1, <2>5, CallersOnPath
  <2>9. p[Len(p)] # NoFork
    <3>1. p[Len(p)] = <<p[Len(p)][1], p[Len(p)][2]>> BY <1>2, <2>8, InstIs
    <3>2. \A a, b : <<a, b>> # <<>> OBVIOUS
    <3> QED BY <3>1, <3>2 DEF NoFork
  <2> QED BY <2>1, <2>5, <2>6, <2>7, <2>9 DEF Last
<1>6. CASE i = 1 \/ j = 1
  <2>1. idOf(<<>>) = 1 BY DEF idOf
  <2>2. t = 1 BY <1>1, <1>4, <1>6, <2>1
  <2>3. PICK k \in {i, j} : k # 1 OBVIOUS
  <2>4. t \in Tids /\ nodes[t].fork # NoFork BY <1>5, <2>3
  <2>5. nodes # <<>> BY <2>4 DEF Tids
  <2> QED BY <1>3, <2>2, <2>4, <2>5 DEF TreeOf
<1>7. CASE i # 1 /\ j # 1
  <2> DEFINE p == running[i].path
             q == running[j].path
  <2>1. /\ p # <<>> /\ Leads(p) /\ nodes[t].cxt = cxtOf(p) /\ nodes[t].fork = p[Len(p)]
        /\ t \in Tids /\ nodes[t].fork # NoFork
    BY <1>5, <1>7
  <2>2. q # <<>> /\ Leads(q) /\ nodes[t].cxt = cxtOf(q) /\ nodes[t].fork = q[Len(q)] BY <1>5, <1>7
  <2>3. ~ nodes[t].multiforked BY DEF isMultiforked
  <2> HIDE DEF p, q, t
  <2>4. /\ ~ isInLoopInstruction(nodes[t].fork) /\ ~ isInRecursion(nodes[t].fork)
        /\ straight(nodes[t].fork[1])
    BY <1>2, <2>1, <2>3, ForkedOnce
  <2>5. cxtOf(p) = p /\ cxtOf(q) = q BY <1>2, <1>3, <2>1, <2>2, <2>4, CxtIsPath
  <2>6. ~ looped(p) BY <1>2, <2>1, <2>4, PathUnlooped
  <2>7. p = q BY <2>1, <2>2, <2>5
  <2> QED BY <2>6, <2>7 DEF Once, p, q
<1> QED BY <1>6, <1>7

LEMMA StartOnce == Init => Once
<1> SUFFICES ASSUME Init PROVE Once OBVIOUS
<1>1. running = <<>> /\ DOMAIN running = {} BY DEF Init, ThreadsInit
<1> QED BY <1>1 DEF Once

LEMMA OnceOn == TreeInv /\ Walked /\ Once /\ [Next]_vars => Once'
<1> SUFFICES ASSUME TreeInv, Walked, Once, [Next]_vars PROVE Once' OBVIOUS
<1>1. CASE Analysis
  <2>1. pass # "run" /\ UNCHANGED thrVars
    <3>1. TCTNext => pass = "tct" BY DEF TCTNext, build, popFromCTPWorkList, collectMultiForkedThreads
    <3> QED BY <1>1, <3>1, ForkJoinPasses, ParallelPasses, LockPasses DEF Analysis
  <2>2. running = <<>> BY <2>1 DEF Walked, Runs
  <2>3. running' = <<>> /\ DOMAIN running' = {} BY <2>1, <2>2 DEF thrVars
  <2> QED BY <2>3 DEF Once
<1>2. CASE ThreadsNext /\ UNCHANGED <<prog, pass>>
  <2>1. prog \in Programs /\ Runs BY DEF TreeInv, Walked
  <2> QED BY <1>2, <2>1, OnceStep
<1>3. CASE UNCHANGED vars
  <2>1. prog' = prog /\ running' = running BY <1>3 DEF vars, thrVars
  <2> QED BY <2>1, SameLoops DEF Once
<1> QED BY <1>1, <1>2, <1>3 DEF Next, Stopped

LEMMA OnceAlways == Spec => [](TreeInv /\ Walked /\ Once)
<1>1. TreeInv /\ Walked /\ Once /\ [Next]_vars => (TreeInv /\ Walked /\ Once)'
  BY TreeStep, WalkedStep, OnceOn
<1> QED BY <1>1, StartTree, StartWalked, StartOnce, PTL DEF Spec

\* Two instances of one abstract thread run only if the tree marks the thread as forked
\* many times: where neither a loop nor a recursion leads to its fork there is one way to
\* the fork, and each instance goes by it once.
THEOREM OnlyMultiforked == Spec => []SingleInstance
BY OneInstance, OnceAlways, PTL

=============================================================================
