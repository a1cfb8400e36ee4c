------------------------------ MODULE SCC_proofs ------------------------------
(****************************************************************************)
(* Theorems of SCC: Nuutila's search names exactly the strongly connected   *)
(* components of every graph, each after all that it reaches, whatever the  *)
(* order in which nodes and children are visited.                           *)
(*                                                                          *)
(* Of the nodes visited some are on the path of the calls under way, some   *)
(* wait on SS, the others are complete.  The argument is that a waiting     *)
(* node is mutually reachable with a node of the path, and that the         *)
(* representative of a node of the path is visited no later than any node   *)
(* that the part searched below it leads to, unless that one is complete.   *)
(****************************************************************************)
EXTENDS SCC, SequenceTheorems, FiniteSetTheorems, TLAPS

-----------------------------------------------------------------------------
(* The inductive invariant *)

path == {frames[i].v : i \in DOMAIN frames}
open == visited \ inSCC

reaches(x, y) == y \in Abstract!reach(graph, {x})

Call == [v : Nodes, todo : SUBSET Nodes, at : SUBSET Nodes]

Types ==
  /\ graph \subseteq Nodes \X Nodes
  /\ frames \in Seq(Call)
  /\ I \in Nat /\ visited \subseteq Nodes /\ D \in [visited -> 1 .. I]
  /\ rep \in [visited -> visited] /\ inSCC \subseteq visited
  /\ subNodes \in [Nodes -> SUBSET Nodes] /\ repNodes \subseteq visited
  /\ SS \in Seq(Nodes) /\ T \in Seq(Nodes) /\ ToSet(T) \subseteq inSCC

\* No two nodes have the same number, and a call is for a node visited before those of
\* the calls it makes.
Numbered ==
  /\ \A x, y \in visited : D[x] = D[y] => x = y
  /\ \A i, j \in DOMAIN frames : i < j => D[frames[i].v] < D[frames[j].v]

\* Every visited node is on the path, on SS, or complete.
Partition ==
  /\ path \subseteq visited /\ ToSet(SS) \subseteq visited
  /\ path \cup ToSet(SS) = open /\ path \cap ToSet(SS) = {}

\* A call is at the child whose call it made, the innermost perhaps at one it is back from.
Children ==
  \A i \in DOMAIN frames :
    LET f == frames[i]
    IN /\ f.todo \subseteq children(f.v) /\ f.at \subseteq f.todo
       /\ i < Len(frames) => f.at = {frames[i + 1].v}
       /\ i = Len(frames) /\ f.at # {} =>
            \E c \in visited \ path : f.at = {c} /\ D[f.v] < D[c]

\* What was visited after a node of the path is on top of SS.
Stacked ==
  \A p \in path : \A i, j \in DOMAIN SS : i < j /\ D[p] < D[SS[i]] => D[p] < D[SS[j]]

\* A node of the path reaches all open nodes visited later, a waiting one leads back to a
\* node of the path visited earlier, and every node to its representative.
Reached ==
  /\ \A p \in path, x \in open : D[p] <= D[x] => reaches(p, x)
  /\ \A x \in ToSet(SS) : \E p \in path : D[p] < D[x] /\ reaches(x, p)
  /\ \A x \in visited : reaches(x, rep[x]) /\ D[rep[x]] <= D[x]
  /\ \A x \in open : rep[x] \in open

\* the edge from x to y was followed
followed(x, y) == y \in visited /\ (y \in inSCC \/ D[rep[x]] <= D[y])

\* Edges were followed, all those of a waiting node and those of a call that it has left
\* behind.
Followed ==
  /\ \A x \in ToSet(SS) : \A y \in children(x) : followed(x, y)
  /\ \A i \in DOMAIN frames :
       \A y \in children(frames[i].v) \ frames[i].todo : followed(frames[i].v, y)

\* Of what was visited from a call, none has an earlier representative than its node, but
\* for what was visited from the child it is at: there the child has.
Lowest ==
  \A i \in DOMAIN frames :
    LET f == frames[i]
    IN /\ f.at = {} => \A x \in ToSet(SS) : D[f.v] < D[x] => D[rep[f.v]] <= D[rep[x]]
       /\ \A c \in f.at :
            /\ \A x \in ToSet(SS) : D[f.v] < D[x] /\ D[x] < D[c] => D[rep[f.v]] <= D[rep[x]]
            /\ c \in ToSet(SS) => \A x \in ToSet(SS) : D[c] <= D[x] => D[rep[c]] <= D[rep[x]]
            /\ c \in inSCC => \A x \in open : D[x] < D[c]

\* No edge leaves the complete nodes, and they are represented as their components are.
Complete ==
  /\ \A x \in inSCC : children(x) \subseteq inSCC
  /\ \A x \in inSCC : /\ rep[x] \in inSCC /\ rep[rep[x]] = rep[x]
                      /\ Abstract!component(graph, x) = {y \in inSCC : rep[y] = rep[x]}

\* Sub-nodes are exact at complete nodes; at open ones they were represented once, and may
\* have an earlier representative by now.
SubNodesKept ==
  /\ \A n \in Nodes \ visited : subNodes[n] = {}
  /\ \A n \in inSCC : subNodes[n] = {x \in inSCC : rep[x] = n}
  /\ \A n \in open : /\ \A x \in subNodes[n] : x \in open /\ D[rep[x]] <= D[n] /\ D[n] <= D[x]
                     /\ rep[n] = n => n \in subNodes[n]
                     /\ n \in repNodes => \E x \in subNodes[n] : x # n
  /\ \A n \in inSCC : n \in repNodes <=> \E x \in subNodes[n] : x # n

SearchInv ==
  /\ Types /\ Numbered /\ Partition /\ Children /\ Stacked
  /\ Reached /\ Followed /\ Lowest /\ Complete /\ SubNodesKept

-----------------------------------------------------------------------------
(* Reachability *)

LEMMA ReachNodes ==
  ASSUME NEW S
  PROVE  Abstract!reach(graph, S) \subseteq Nodes
BY DEF Abstract!reach

LEMMA ReachStart ==
  ASSUME NEW S \in SUBSET Nodes
  PROVE  S \subseteq Abstract!reach(graph, S)
BY DEF Abstract!reach

\* What a set without an edge out of it holds reaches only what it holds.
LEMMA ReachLeast ==
  ASSUME NEW S, NEW X \in SUBSET Nodes, S \subseteq X, \A e \in graph : e[1] \in X => e[2] \in X
  PROVE  Abstract!reach(graph, S) \subseteq X
BY DEF Abstract!reach

LEMMA ReachClosed ==
  ASSUME NEW S, graph \subseteq Nodes \X Nodes,
         NEW e \in graph, e[1] \in Abstract!reach(graph, S)
  PROVE  e[2] \in Abstract!reach(graph, S)
BY DEF Abstract!reach

LEMMA ReachTransitive ==
  ASSUME graph \subseteq Nodes \X Nodes, NEW x, NEW y, NEW z, reaches(x, y), reaches(y, z)
  PROVE  reaches(x, z)
<1>1. \A e \in graph : e[1] \in Abstract!reach(graph, {x}) => e[2] \in Abstract!reach(graph, {x})
  BY ReachClosed
<1>2. Abstract!reach(graph, {x}) \in SUBSET Nodes BY ReachNodes
<1>3. {y} \subseteq Abstract!reach(graph, {x}) BY DEF reaches
<1>4. Abstract!reach(graph, {y}) \subseteq Abstract!reach(graph, {x}) BY <1>1, <1>2, <1>3, ReachLeast
<1> QED BY <1>4 DEF reaches

LEMMA ReachEdge ==
  ASSUME graph \subseteq Nodes \X Nodes, NEW x \in Nodes, NEW y \in children(x)
  PROVE  reaches(x, y)
<1>1. PICK e \in graph : e[1] = x /\ e[2] = y BY DEF children
<1>2. e[1] \in Abstract!reach(graph, {x}) BY <1>1, ReachStart
<1> QED BY <1>1, <1>2, ReachClosed DEF reaches

LEMMA ReachSelf == ASSUME NEW x \in Nodes PROVE reaches(x, x)
BY ReachStart DEF reaches

LEMMA ChildNodes ==
  ASSUME graph \subseteq Nodes \X Nodes, NEW x
  PROVE  children(x) \subseteq Nodes
BY DEF children

-----------------------------------------------------------------------------
(* The stacks *)

LEMMA MaxExists ==
  ASSUME NEW n \in Nat, NEW S \in SUBSET (1 .. n), S # {}
  PROVE  \E x \in S : \A y \in S : x >= y
<1> DEFINE T0 == {n - x : x \in S}
<1>1. T0 \subseteq Nat OBVIOUS
<1>2. PICK z \in S : TRUE OBVIOUS
<1>3. n - z \in T0 BY <1>2
<1>4. PICK t \in T0 : \A u \in T0 : ~ (<<u, t>> \in OpToRel(<, Nat))
  BY <1>1, <1>3, WFMin, NatLessThanWellFounded
<1>5. \A u \in T0 : ~ (u < t) BY <1>1, <1>4 DEF OpToRel
<1>6. PICK x \in S : t = n - x BY <1>4
<1>7. ASSUME NEW y \in S PROVE x >= y
  <2>1. n - y \in T0 OBVIOUS
  <2>2. ~ (n - y < n - x) BY <2>1, <1>5, <1>6
  <2> QED BY <2>2
<1> QED BY <1>7

\* where completeSCC stops taking nodes from SS
LEMMA StackCut ==
  ASSUME NEW s \in Seq(Nodes), NEW small,
         \A i, j \in 1 .. Len(s) : i < j /\ s[i] \notin small => s[j] \notin small,
         NEW k, k = SelectLastInSeq(s, LAMBDA w : w \in small)
  PROVE  /\ k \in 0 .. Len(s)
         /\ \A i \in 1 .. k : s[i] \in small
         /\ \A i \in k + 1 .. Len(s) : s[i] \notin small
<1> DEFINE J == {i \in 1 .. Len(s) : s[i] \in small}
<1>1. k = IF J # {} THEN Max(J) ELSE 0 BY Zenon DEF SelectLastInSeq
<1>2. Len(s) \in Nat OBVIOUS
<1>3. CASE J = {}
  <2>1. k = 0 BY <1>1, <1>3
  <2>2. \A i \in 1 .. Len(s) : s[i] \notin small BY <1>3
  <2>3. k \in 0 .. Len(s) BY <1>2, <2>1
  <2>4. \A i \in 1 .. k : FALSE BY <2>1
  <2>5. \A i \in k + 1 .. Len(s) : i \in 1 .. Len(s) BY <1>2, <2>1
  <2> QED BY <2>2, <2>3, <2>4, <2>5
<1>4. CASE J # {}
  <2>1. J \in SUBSET (1 .. Len(s)) OBVIOUS
  <2>2. \E x \in J : \A y \in J : x >= y BY <1>2, <1>4, <2>1, MaxExists
  <2>3. k = CHOOSE x \in J : \A y \in J : x >= y BY <1>1, <1>4 DEF Max
  <2>4. k \in J /\ \A y \in J : k >= y BY <2>2, <2>3
  <2>5. k \in 1 .. Len(s) /\ s[k] \in small BY <2>4
  <2>6. ASSUME NEW i \in 1 .. k PROVE s[i] \in small
    <3>1. i \in 1 .. Len(s) BY <2>5, <1>2
    <3>2. i = k \/ i < k BY <2>5, <1>2
    <3> QED BY <2>5, <3>1, <3>2
  <2>7. ASSUME NEW i \in k + 1 .. Len(s) PROVE s[i] \notin small
    <3>1. i \in 1 .. Len(s) /\ ~ (k >= i) BY <2>5, <1>2
    <3> QED BY <2>4, <3>1
  <2>8. k \in 0 .. Len(s) BY <1>2, <2>5
  <2> QED BY <2>6, <2>7, <2>8
<1> QED BY <1>3, <1>4

LEMMA SeqRange == ASSUME NEW S, NEW s \in Seq(S) PROVE ToSet(s) = {s[i] : i \in 1 .. Len(s)}
BY DEF ToSet

LEMMA Prefix ==
  ASSUME NEW S, NEW s \in Seq(S), NEW k \in 0 .. Len(s)
  PROVE  /\ SubSeq(s, 1, k) \in Seq(S) /\ Len(SubSeq(s, 1, k)) = k
         /\ \A i \in 1 .. k : SubSeq(s, 1, k)[i] = s[i]
<1>1. Len(s) \in Nat /\ k \in Int /\ 1 \in Int /\ k - 1 + 1 = k OBVIOUS
<1>2. \A i \in 1 .. k : s[i] \in S BY <1>1, ElementOfSeq
<1>3. /\ SubSeq(s, 1, k) \in Seq(S)
      /\ Len(SubSeq(s, 1, k)) = IF 1 <= k THEN k - 1 + 1 ELSE 0
      /\ \A i \in 1 .. k - 1 + 1 : SubSeq(s, 1, k)[i] = s[1 + i - 1]
  BY <1>1, <1>2, SubSeqProperties
<1>4. Len(SubSeq(s, 1, k)) = k BY <1>1, <1>3
<1>5. \A i \in 1 .. k : SubSeq(s, 1, k)[i] = s[i]
  <2>1. \A i \in 1 .. k : i \in 1 .. k - 1 + 1 /\ 1 + i - 1 = i BY <1>1
  <2> QED BY <1>3, <2>1
<1> QED BY <1>3, <1>4, <1>5

LEMMA Suffix ==
  ASSUME NEW S, NEW s \in Seq(S), NEW k \in 0 .. Len(s)
  PROVE  ToSet(SubSeq(s, k + 1, Len(s))) = {s[i] : i \in k + 1 .. Len(s)}
<1> DEFINE u == SubSeq(s, k + 1, Len(s))
           l == Len(s) - (k + 1) + 1
<1>1. Len(s) \in Nat /\ k \in Nat /\ k <= Len(s) OBVIOUS
<1>2. \A i \in k + 1 .. Len(s) : s[i] \in S BY <1>1, ElementOfSeq
<1>3. /\ u \in Seq(S) /\ Len(u) = IF k + 1 <= Len(s) THEN l ELSE 0
      /\ \A i \in 1 .. l : u[i] = s[k + 1 + i - 1]
  BY <1>1, <1>2, SubSeqProperties
<1>4. Len(u) = l BY <1>1, <1>3
<1>5. ToSet(u) = {u[i] : i \in 1 .. l} BY <1>3, <1>4, SeqRange
<1>6. \A i \in 1 .. l : k + 1 + i - 1 \in k + 1 .. Len(s) BY <1>1
<1>7. \A j \in k + 1 .. Len(s) : j - k \in 1 .. l /\ k + 1 + (j - k) - 1 = j BY <1>1
<1> HIDE DEF u, l
<1>8. \A j \in k + 1 .. Len(s) : u[j - k] = s[j] BY <1>3, <1>7
<1>9. ToSet(u) \subseteq {s[i] : i \in k + 1 .. Len(s)} BY <1>3, <1>5, <1>6
<1>10. {s[i] : i \in k + 1 .. Len(s)} \subseteq ToSet(u) BY <1>5, <1>7, <1>8
<1> QED BY <1>9, <1>10 DEF u

LEMMA Popped ==
  ASSUME NEW S, NEW s \in Seq(S), s # <<>>
  PROVE  /\ Len(s) \in Nat /\ Len(s) >= 1 /\ Last(s) = s[Len(s)] /\ Last(s) \in S
         /\ Front(s) \in Seq(S) /\ Len(Front(s)) = Len(s) - 1
         /\ \A i \in 1 .. Len(s) - 1 : Front(s)[i] = s[i]
<1>1. Len(s) \in Nat /\ Len(s) >= 1 OBVIOUS
<1>2. Last(s) = s[Len(s)] /\ Last(s) \in S BY <1>1, ElementOfSeq DEF Last
<1>3. Front(s) = SubSeq(s, 1, Len(s) - 1) BY DEF Front
<1>4. Len(s) - 1 \in 0 .. Len(s) BY <1>1
<1> QED BY <1>1, <1>2, <1>3, <1>4, Prefix

LEMMA Pushed ==
  ASSUME NEW S, NEW s \in Seq(S), NEW f \in S
  PROVE  /\ Append(s, f) \in Seq(S) /\ Len(Append(s, f)) = Len(s) + 1
         /\ Append(s, f)[Len(s) + 1] = f
         /\ \A i \in 1 .. Len(s) : Append(s, f)[i] = s[i]
         /\ ToSet(Append(s, f)) = ToSet(s) \cup {f}
<1>1. Append(s, f) \in Seq(S) /\ Len(Append(s, f)) = Len(s) + 1 OBVIOUS
<1>2. Append(s, f)[Len(s) + 1] = f /\ \A i \in 1 .. Len(s) : Append(s, f)[i] = s[i] OBVIOUS
<1>3. 1 .. Len(s) + 1 = 1 .. Len(s) \cup {Len(s) + 1} OBVIOUS
<1>4. ToSet(s) = {s[i] : i \in 1 .. Len(s)} BY SeqRange
<1>5. ToSet(Append(s, f)) = {Append(s, f)[i] : i \in 1 .. Len(s) + 1} BY <1>1, SeqRange
<1>6. ToSet(Append(s, f)) = ToSet(s) \cup {f} BY <1>2, <1>3, <1>4, <1>5
<1> QED BY <1>1, <1>2, <1>6

-----------------------------------------------------------------------------
(* What the steps do, node by node and call by call *)

n0 == Len(frames)
v0 == frames[n0].v

\* a call for w begins
Entered(w) ==
  /\ w \in Nodes \ visited
  /\ UNCHANGED <<graph, inSCC, SS, T, repNodes>>
  /\ I' = I + 1 /\ visited' = visited \cup {w}
  /\ D' \in [visited' -> 1 .. I + 1] /\ D'[w] = I + 1 /\ \A x \in visited : D'[x] = D[x]
  /\ rep' \in [visited' -> visited'] /\ rep'[w] = w /\ \A x \in visited : rep'[x] = rep[x]
  /\ subNodes' \in [Nodes -> SUBSET Nodes] /\ subNodes'[w] = subNodes[w] \cup {w}
  /\ \A x \in Nodes \ {w} : subNodes'[x] = subNodes[x]
  /\ frames' \in Seq(Call) /\ Len(frames') = n0 + 1
  /\ frames'[n0 + 1] = [v |-> w, todo |-> children(w), at |-> {}]
  /\ \A i \in 1 .. n0 : /\ frames'[i].v = frames[i].v /\ frames'[i].todo = frames[i].todo
                        /\ i < n0 => frames'[i].at = frames[i].at
                        /\ i = n0 => frames[i].at = {} /\ frames'[i].at = {w} /\ w \in frames[i].todo

\* the innermost call is back from w
Returned(w, r) ==
  /\ n0 >= 1 /\ w \in visited /\ w \in frames[n0].todo
  /\ frames[n0].at \subseteq {w}
  /\ UNCHANGED <<graph, inSCC, I, D, SS, T>>
  /\ frames' \in Seq(Call) /\ Len(frames') = n0
  /\ \A i \in 1 .. n0 : /\ frames'[i].v = frames[i].v
                        /\ i < n0 => frames'[i].todo = frames[i].todo /\ frames'[i].at = frames[i].at
                        /\ i = n0 => frames'[i].todo = frames[i].todo \ {w} /\ frames'[i].at = {}
  /\ w \in inSCC => UNCHANGED <<rep, subNodes, repNodes>>
  /\ w \notin inSCC =>
       /\ r \in {rep[v0], rep[w]} /\ D[r] <= D[rep[v0]] /\ D[r] <= D[rep[w]]
       /\ rep' \in [visited -> visited] /\ rep'[v0] = r /\ \A x \in visited \ {v0} : rep'[x] = rep[x]
       /\ subNodes' = represents(subNodes, {v0}, r)
       /\ repNodes' = IF v0 = r THEN repNodes ELSE (repNodes \ {v0}) \cup {r}

\* the innermost call ends
Left ==
  /\ n0 >= 1 /\ frames[n0].todo = {}
  /\ UNCHANGED <<graph, I, D>>
  /\ frames' \in Seq(Call) /\ Len(frames') = n0 - 1
  /\ \A i \in 1 .. n0 - 1 : frames'[i] = frames[i]

members == {x \in ToSet(SS) : D[v0] < D[x]}

LeftComplete ==
  /\ Left /\ rep[v0] = v0
  /\ inSCC' = inSCC \cup {v0} \cup members
  /\ SS' \in Seq(Nodes) /\ Len(SS') <= Len(SS) /\ \A i \in 1 .. Len(SS') : SS'[i] = SS[i]
  /\ ToSet(SS') = ToSet(SS) \ members
  /\ rep' \in [visited -> visited]
  /\ \A x \in visited : rep'[x] = IF x \in members THEN v0 ELSE rep[x]
  /\ subNodes' = represents(subNodes, members, v0)
  /\ repNodes' = IF members = {} THEN repNodes ELSE (repNodes \ members) \cup {v0}
  /\ T' = Append(T, v0)

LeftWaiting ==
  /\ Left /\ rep[v0] # v0
  /\ SS' = Append(SS, v0)
  /\ UNCHANGED <<rep, inSCC, subNodes, T, repNodes>>

LEMMA FrameAt ==
  ASSUME Types, NEW i \in 1 .. n0
  PROVE  /\ n0 \in Nat /\ frames[i] \in Call /\ i \in DOMAIN frames
         /\ frames[i].v \in Nodes /\ frames[i].todo \subseteq Nodes /\ frames[i].at \subseteq Nodes
<1>1. n0 \in Nat /\ DOMAIN frames = 1 .. n0 BY DEF Types, n0
<1>2. frames[i] \in Call BY <1>1, ElementOfSeq DEF Types, n0
<1> QED BY <1>1, <1>2 DEF Call

LEMMA PathVisited ==
  ASSUME Types, Partition, NEW i \in 1 .. n0
  PROVE  frames[i].v \in path /\ frames[i].v \in visited /\ frames[i].v \in open
BY FrameAt DEF path, Partition

LEMMA EnterData ==
  ASSUME Types, NEW w \in Nodes \ visited, NEW fs, enter(w, fs)
  PROVE  /\ UNCHANGED <<inSCC, SS, T, repNodes>>
         /\ I' = I + 1 /\ visited' = visited \cup {w}
         /\ D' \in [visited' -> 1 .. I + 1] /\ D'[w] = I + 1 /\ \A x \in visited : D'[x] = D[x]
         /\ rep' \in [visited' -> visited'] /\ rep'[w] = w /\ \A x \in visited : rep'[x] = rep[x]
         /\ subNodes' \in [Nodes -> SUBSET Nodes] /\ subNodes'[w] = subNodes[w] \cup {w}
         /\ \A x \in Nodes \ {w} : subNodes'[x] = subNodes[x]
         /\ frames' = Append(fs, [v |-> w, todo |-> children(w), at |-> {}])
<1>1. /\ UNCHANGED <<inSCC, SS, T>> /\ I' = I + 1 /\ repNodes' = repNodes
      /\ D' = assign(D, {w}, I + 1) /\ rep' = assign(rep, {w}, w)
      /\ subNodes' = represents(subNodes, {w}, w)
      /\ frames' = Append(fs, [v |-> w, todo |-> children(w), at |-> {}])
  BY DEF enter, setRep
<1>2. D' = [x \in visited \cup {w} |-> IF x = w THEN I + 1 ELSE D[x]]
  BY <1>1 DEF visited, assign
<1>3. rep' = [x \in visited \cup {w} |-> IF x = w THEN w ELSE rep[x]]
  BY <1>1 DEF Types, assign
<1>4. visited' = visited \cup {w} BY <1>2 DEF visited
<1>5. D' \in [visited \cup {w} -> 1 .. I + 1] /\ D'[w] = I + 1 /\ \A x \in visited : D'[x] = D[x]
  <2>1. I \in Nat /\ \A x \in visited : D[x] \in 1 .. I + 1 BY DEF Types
  <2>2. I + 1 \in 1 .. I + 1 BY <2>1
  <2> QED BY <1>2, <2>1, <2>2
<1>6. rep' \in [visited \cup {w} -> visited \cup {w}] /\ rep'[w] = w /\ \A x \in visited : rep'[x] = rep[x]
  BY <1>3 DEF Types
<1>7. /\ subNodes' \in [Nodes -> SUBSET Nodes] /\ subNodes'[w] = subNodes[w] \cup {w}
      /\ \A x \in Nodes \ {w} : subNodes'[x] = subNodes[x]
  BY <1>1 DEF represents, Types
<1> QED BY <1>1, <1>4, <1>5, <1>6, <1>7

LEMMA EnterStep ==
  ASSUME Types, visitRoot \/ visitChild
  PROVE  \E w \in Nodes : Entered(w)
<1>1. CASE visitRoot
  <2>1. PICK w \in Nodes \ visited : enter(w, <<>>) BY <1>1 DEF visitRoot
  <2>2. n0 = 0 /\ graph' = graph BY <1>1 DEF visitRoot, n0
  <2>3. [v |-> w, todo |-> children(w), at |-> {}] \in Call
    BY ChildNodes DEF Call, Types
  <2>4. frames' = Append(<<>>, [v |-> w, todo |-> children(w), at |-> {}]) BY <2>1, EnterData
  <2>5. /\ frames' \in Seq(Call) /\ Len(frames') = n0 + 1
        /\ frames'[n0 + 1] = [v |-> w, todo |-> children(w), at |-> {}]
    <3> DEFINE h == [v |-> w, todo |-> children(w), at |-> {}]
    <3>1. <<>> \in Seq(Call) /\ Len(<<>>) = 0 OBVIOUS
    <3>2. h \in Call BY <2>3
    <3> HIDE DEF h
    <3>3. /\ Append(<<>>, h) \in Seq(Call) /\ Len(Append(<<>>, h)) = 0 + 1
          /\ Append(<<>>, h)[0 + 1] = h
      BY <3>1, <3>2, Pushed
    <3>4. frames' = Append(<<>>, h) BY <2>4 DEF h
    <3> QED BY <2>2, <3>3, <3>4 DEF h
  <2>6. \A i \in 1 .. n0 : FALSE BY <2>2
  <2> QED BY <2>1, <2>2, <2>5, <2>6, EnterData DEF Entered
<1>2. CASE visitChild
  <2>1. PICK w \in top.todo \ visited : enter(w, Append(Front(frames), [top EXCEPT !.at = {w}]))
    BY <1>2 DEF visitChild
  <2>2. graph' = graph /\ frames # <<>> /\ top.at = {} BY <1>2 DEF visitChild
  <2>3. /\ n0 \in Nat /\ n0 >= 1 /\ top = frames[n0] /\ top \in Call
        /\ Front(frames) \in Seq(Call) /\ Len(Front(frames)) = n0 - 1
        /\ \A i \in 1 .. n0 - 1 : Front(frames)[i] = frames[i]
    BY <2>2, Popped DEF Types, n0, top
  <2>4. w \in Nodes BY <2>1, <2>3 DEF Call
  <2> DEFINE f == [top EXCEPT !.at = {w}]
             gs == Append(Front(frames), f)
             h == [v |-> w, todo |-> children(w), at |-> {}]
  <2>5. f \in Call /\ f.v = top.v /\ f.todo = top.todo /\ f.at = {w} BY <2>3, <2>4 DEF Call
  <2>6. /\ gs \in Seq(Call) /\ Len(gs) = n0 - 1 + 1 /\ gs[n0 - 1 + 1] = f
        /\ \A i \in 1 .. n0 - 1 : gs[i] = Front(frames)[i]
    BY <2>3, <2>5, Pushed
  <2>7. n0 - 1 + 1 = n0 BY <2>3
  <2>8. h \in Call BY <2>4, ChildNodes DEF Call, Types
  <2> HIDE DEF f, gs, h
  <2>9. frames' = Append(gs, h) BY <2>1, <2>4, EnterData DEF h, gs, f
  <2>10. /\ frames' \in Seq(Call) /\ Len(frames') = n0 + 1 /\ frames'[n0 + 1] = h
         /\ \A i \in 1 .. n0 : frames'[i] = gs[i]
    BY <2>6, <2>7, <2>8, <2>9, Pushed
  <2>11. ASSUME NEW i \in 1 .. n0
         PROVE  /\ frames'[i].v = frames[i].v /\ frames'[i].todo = frames[i].todo
                /\ i < n0 => frames'[i].at = frames[i].at
                /\ i = n0 => frames[i].at = {} /\ frames'[i].at = {w} /\ w \in frames[i].todo
    <3>1. CASE i = n0 BY <2>1, <2>2, <2>3, <2>5, <2>6, <2>7, <2>10, <3>1
    <3>2. CASE i < n0
      <4>1. i \in 1 .. n0 - 1 BY <2>3, <3>2
      <4> QED BY <2>3, <2>6, <2>10, <3>2, <4>1
    <3> QED BY <2>3, <3>1, <3>2
  <2>12. /\ UNCHANGED <<inSCC, SS, T, repNodes>>
         /\ I' = I + 1 /\ visited' = visited \cup {w}
         /\ D' \in [visited' -> 1 .. I + 1] /\ D'[w] = I + 1 /\ \A x \in visited : D'[x] = D[x]
         /\ rep' \in [visited' -> visited'] /\ rep'[w] = w /\ \A x \in visited : rep'[x] = rep[x]
         /\ subNodes' \in [Nodes -> SUBSET Nodes] /\ subNodes'[w] = subNodes[w] \cup {w}
         /\ \A x \in Nodes \ {w} : subNodes'[x] = subNodes[x]
    BY <2>1, <2>4, EnterData
  <2> QED BY <2>1, <2>2, <2>4, <2>10, <2>11, <2>12 DEF Entered, h
<1> QED BY <1>1, <1>2

\* the child that a call comes back from
LEMMA ReturnChild ==
  ASSUME Types, Partition, Children, frames # <<>>,
         NEW w, w \in IF top.at = {} THEN top.todo \cap visited ELSE top.at
  PROVE  w \in visited /\ w \in top.todo /\ top.at \subseteq {w}
<1>1. n0 \in Nat /\ n0 >= 1 /\ top = frames[n0]
  BY Popped DEF Types, n0, top
<1>2. n0 \in DOMAIN frames BY <1>1, FrameAt
<1>3. /\ top.at \subseteq top.todo
      /\ top.at # {} => \E c \in visited \ path : top.at = {c}
  BY <1>1, <1>2 DEF Children, n0
<1> QED BY <1>3

LEMMA ReturnStep ==
  ASSUME Types, Partition, Children, handleChild
  PROVE  \E w, r \in visited : Returned(w, r)
<1>1. frames # <<>> /\ UNCHANGED <<graph, inSCC, I, D, SS, T>> BY DEF handleChild
<1>2. PICK w \in IF top.at = {} THEN top.todo \cap visited ELSE top.at :
        /\ IF complete(w) THEN UNCHANGED <<rep, subNodes, repNodes>>
           ELSE setRep(top.v, earlier(rep[top.v], rep[w]))
        /\ frames' = Append(Front(frames), [top EXCEPT !.todo = @ \ {w}, !.at = {}])
  BY DEF handleChild
<1>3. w \in visited /\ w \in top.todo /\ top.at \subseteq {w} BY <1>1, <1>2, ReturnChild
<1>4. /\ n0 \in Nat /\ n0 >= 1 /\ top = frames[n0] /\ top \in Call
      /\ Front(frames) \in Seq(Call) /\ Len(Front(frames)) = n0 - 1
      /\ \A i \in 1 .. n0 - 1 : Front(frames)[i] = frames[i]
  BY <1>1, Popped DEF Types, n0, top
<1>5. v0 = top.v /\ v0 \in visited BY <1>4, PathVisited DEF v0
<1> DEFINE f == [top EXCEPT !.todo = @ \ {w}, !.at = {}]
<1>6. f \in Call /\ f.v = top.v /\ f.todo = top.todo \ {w} /\ f.at = {} BY <1>4 DEF Call
<1> HIDE DEF f
<1>7. frames' = Append(Front(frames), f) BY <1>2 DEF f
<1>8. n0 - 1 + 1 = n0 BY <1>4
<1>9. /\ frames' \in Seq(Call) /\ Len(frames') = n0 /\ frames'[n0] = f
      /\ \A i \in 1 .. n0 - 1 : frames'[i] = frames[i]
  BY <1>4, <1>6, <1>7, <1>8, Pushed
<1>10. ASSUME NEW i \in 1 .. n0
       PROVE  /\ frames'[i].v = frames[i].v
              /\ i < n0 => frames'[i].todo = frames[i].todo /\ frames'[i].at = frames[i].at
              /\ i = n0 => frames'[i].todo = frames[i].todo \ {w} /\ frames'[i].at = {}
  <2>1. CASE i = n0 BY <1>4, <1>6, <1>9, <2>1
  <2>2. CASE i < n0
    <3>1. i \in 1 .. n0 - 1 BY <1>4, <2>2
    <3> QED BY <1>9, <2>2, <3>1
  <2> QED BY <1>4, <2>1, <2>2
<1> DEFINE r == IF w \in inSCC THEN w ELSE earlier(rep[v0], rep[w])
<1>11. rep[v0] \in visited /\ rep[w] \in visited BY <1>3, <1>5 DEF Types
<1>12. r \in visited BY <1>3, <1>11 DEF earlier
<1>13. ASSUME w \in inSCC PROVE UNCHANGED <<rep, subNodes, repNodes>>
  BY <1>2, <1>13 DEF complete
<1>14. ASSUME w \notin inSCC
       PROVE  /\ r \in {rep[v0], rep[w]} /\ D[r] <= D[rep[v0]] /\ D[r] <= D[rep[w]]
              /\ rep' \in [visited -> visited] /\ rep'[v0] = r
              /\ \A x \in visited \ {v0} : rep'[x] = rep[x]
              /\ subNodes' = represents(subNodes, {v0}, r)
              /\ repNodes' = IF v0 = r THEN repNodes ELSE (repNodes \ {v0}) \cup {r}
  <2>1. r = earlier(rep[v0], rep[w]) BY <1>14
  <2>2. setRep(v0, r) BY <1>2, <1>5, <1>14, <2>1 DEF complete
  <2>3. D[rep[v0]] \in 1 .. I /\ D[rep[w]] \in 1 .. I /\ I \in Nat BY <1>11 DEF Types
  <2>4. r \in {rep[v0], rep[w]} /\ D[r] <= D[rep[v0]] /\ D[r] <= D[rep[w]]
    BY <2>1, <2>3 DEF earlier
  <2> HIDE DEF r
  <2>5. rep' = [x \in visited |-> IF x = v0 THEN r ELSE rep[x]]
    BY <1>5, <2>2 DEF setRep, assign, Types
  <2>6. /\ rep' \in [visited -> visited] /\ rep'[v0] = r
        /\ \A x \in visited \ {v0} : rep'[x] = rep[x]
    BY <1>5, <1>12, <2>5 DEF Types
  <2> QED BY <2>2, <2>4, <2>6 DEF setRep
<1> HIDE DEF r
<1>15. w \in frames[n0].todo /\ frames[n0].at \subseteq {w} BY <1>3, <1>4
<1>16. Returned(w, r) BY <1>1, <1>3, <1>4, <1>9, <1>10, <1>13, <1>14, <1>15 DEF Returned
<1> QED BY <1>3, <1>12, <1>16

LEMMA LeaveStep ==
  ASSUME Types, frames # <<>>, top.todo = {}, frames' = Front(frames), UNCHANGED <<graph, I, D>>
  PROVE  Left /\ v0 = top.v
BY Popped DEF Types, n0, v0, top, Left

LEMMA WaitStep ==
  ASSUME Types, leaveMember
  PROVE  LeftWaiting
BY LeaveStep DEF leaveMember, LeftWaiting

LEMMA CompleteStep ==
  ASSUME Types, Numbered, Partition, Stacked, completeSCC
  PROVE  LeftComplete
<1>1. Left /\ v0 = top.v BY LeaveStep DEF completeSCC
<1>2. v0 \in path /\ v0 \in visited BY <1>1, PathVisited DEF Left, v0, Types, n0
<1> DEFINE small == {x \in visited : D[x] <= D[v0]}
           k == SelectLastInSeq(SS, LAMBDA w : D[w] <= D[v0])
           ms == ToSet(SubSeq(SS, k + 1, Len(SS)))
<1>3. /\ rep[v0] = v0
      /\ inSCC' = inSCC \cup {v0} \cup ms /\ SS' = SubSeq(SS, 1, k)
      /\ rep' = assign(rep, ms, v0) /\ subNodes' = represents(subNodes, ms, v0)
      /\ repNodes' = IF ms = {} THEN repNodes ELSE (repNodes \ ms) \cup {v0}
      /\ T' = Append(T, v0)
  BY <1>1 DEF completeSCC
<1>4. \A i \in 1 .. Len(SS) : SS[i] \in ToSet(SS) /\ SS[i] \in visited /\ i \in DOMAIN SS
  BY SeqRange DEF Types, Partition
<1>5. I \in Nat /\ \A x \in visited : D[x] \in 1 .. I BY DEF Types
<1>6. k = SelectLastInSeq(SS, LAMBDA w : w \in small)
  <2>1. {i \in 1 .. Len(SS) : D[SS[i]] <= D[v0]} = {i \in 1 .. Len(SS) : SS[i] \in small} BY <1>4
  <2> QED BY <2>1, Zenon DEF SelectLastInSeq
<1>7. \A x \in visited : x \notin small <=> D[v0] < D[x] BY <1>2, <1>5
<1>8. \A i, j \in 1 .. Len(SS) : i < j /\ SS[i] \notin small => SS[j] \notin small
  BY <1>2, <1>4, <1>7 DEF Stacked
<1> HIDE DEF small
<1>9. /\ k \in 0 .. Len(SS)
      /\ \A i \in 1 .. k : SS[i] \in small
      /\ \A i \in k + 1 .. Len(SS) : SS[i] \notin small
  BY <1>6, <1>8, StackCut DEF Types
<1>10. SS \in Seq(Nodes) /\ Len(SS) \in Nat BY DEF Types
<1> HIDE DEF k
<1>11. ms = {SS[i] : i \in k + 1 .. Len(SS)} BY <1>9, <1>10, Suffix
<1>12. ToSet(SS) = {SS[i] : i \in 1 .. Len(SS)} BY <1>10, SeqRange
<1>13. \A i \in k + 1 .. Len(SS) : i \in 1 .. Len(SS) BY <1>9, <1>10
<1>14. \A i \in 1 .. Len(SS) : i \in 1 .. k \/ i \in k + 1 .. Len(SS) BY <1>9, <1>10
<1> HIDE DEF ms
<1>15. ms = members
  <2>1. ms \subseteq members BY <1>4, <1>7, <1>9, <1>11, <1>13 DEF members
  <2>2. ASSUME NEW x \in members PROVE x \in ms
    <3>1. PICK i \in 1 .. Len(SS) : x = SS[i] BY <1>12 DEF members
    <3>2. SS[i] \notin small BY <1>4, <1>7, <3>1 DEF members
    <3> QED BY <1>9, <1>11, <1>14, <3>1, <3>2
  <2> QED BY <2>1, <2>2
<1>16. SS' \in Seq(Nodes) /\ Len(SS') = k /\ \A i \in 1 .. k : SS'[i] = SS[i]
  BY <1>3, <1>9, <1>10, Prefix
<1>17. ToSet(SS') = {SS[i] : i \in 1 .. k} BY <1>16, SeqRange
<1>18. ToSet(SS') = ToSet(SS) \ members
  <2>1. \A i \in 1 .. k : i \in 1 .. Len(SS) BY <1>9, <1>10
  <2>2. \A i \in 1 .. k : SS[i] \in ToSet(SS) \ members BY <1>4, <1>7, <1>9, <2>1 DEF members
  <2>3. ASSUME NEW x \in ToSet(SS), x \notin members PROVE x \in ToSet(SS')
    <3>1. PICK i \in 1 .. Len(SS) : x = SS[i] BY <1>12
    <3>2. i \notin k + 1 .. Len(SS) BY <1>11, <1>15, <2>3, <3>1
    <3> QED BY <1>14, <1>17, <3>1, <3>2
  <2> QED BY <1>17, <2>2, <2>3
<1>19. members \subseteq visited BY DEF members, Partition
<1>20. rep' = [x \in visited |-> IF x \in members THEN v0 ELSE rep[x]]
  BY <1>3, <1>15, <1>19 DEF assign, Types
<1>21. /\ rep' \in [visited -> visited]
       /\ \A x \in visited : rep'[x] = IF x \in members THEN v0 ELSE rep[x]
  BY <1>2, <1>20 DEF Types
<1>22. Len(SS') <= Len(SS) BY <1>9, <1>10, <1>16
<1> QED BY <1>1, <1>3, <1>15, <1>16, <1>18, <1>21, <1>22 DEF LeftComplete

-----------------------------------------------------------------------------
(* Beginning a call keeps the invariant *)

\* the nodes of the path, with their calls
LEMMA PathCalls == ASSUME Types PROVE path = {frames[i].v : i \in 1 .. n0} /\ DOMAIN frames = 1 .. n0
BY DEF path, Types, n0

LEMMA Numbers ==
  ASSUME Types
  PROVE  /\ I \in Nat /\ \A x \in visited : D[x] \in 1 .. I
         /\ \A x \in visited : rep[x] \in visited
BY DEF Types

LEMMA RepresentsType ==
  ASSUME NEW sub \in [Nodes -> SUBSET Nodes], NEW S \in SUBSET Nodes, NEW r
  PROVE  represents(sub, S, r) \in [Nodes -> SUBSET Nodes]
BY DEF represents

LEMMA EnteredKeeps ==
  ASSUME SearchInv, NEW w \in Nodes, Entered(w)
  PROVE  SearchInv'
<1>1. Types /\ Numbered /\ Partition /\ Children /\ Stacked BY DEF SearchInv
<1>2. Reached /\ Followed /\ Lowest /\ Complete /\ SubNodesKept BY DEF SearchInv
<1>3. /\ n0 \in Nat /\ n0' = n0 + 1 /\ DOMAIN frames' = 1 .. n0 + 1
      /\ path = {frames[i].v : i \in 1 .. n0} /\ DOMAIN frames = 1 .. n0
  BY <1>1, PathCalls DEF Types, n0, Entered
<1>4. \A i \in 1 .. n0 + 1 : i \in 1 .. n0 \/ i = n0 + 1 BY <1>3
<1>5. path' = path \cup {w}
  <2>1. path' = {frames'[i].v : i \in 1 .. n0 + 1} BY <1>3 DEF path
  <2>2. frames'[n0 + 1].v = w /\ \A i \in 1 .. n0 : frames'[i].v = frames[i].v BY DEF Entered
  <2>3. n0 + 1 \in 1 .. n0 + 1 /\ \A i \in 1 .. n0 : i \in 1 .. n0 + 1 BY <1>3
  <2> QED BY <1>3, <1>4, <2>1, <2>2, <2>3
<1>6. /\ w \in Nodes \ visited /\ visited' = visited \cup {w} /\ open' = open \cup {w}
      /\ graph' = graph /\ inSCC' = inSCC /\ SS' = SS /\ T' = T /\ repNodes' = repNodes
  BY <1>1 DEF Entered, open, Types
<1>7. /\ \A x \in visited : D'[x] = D[x] /\ rep'[x] = rep[x]
      /\ D'[w] = I + 1 /\ rep'[w] = w /\ I' = I + 1
  BY DEF Entered
<1>8. /\ I \in Nat /\ \A x \in visited : D[x] \in 1 .. I /\ rep[x] \in visited
      /\ \A x \in visited : D[x] < I + 1 /\ D[rep[x]] < I + 1
  BY <1>1, Numbers
<1>9. \A x : children(x)' = children(x) BY <1>6 DEF children
<1>10. \A x, y : reaches(x, y)' <=> reaches(x, y) BY <1>6 DEF reaches
<1>11. ToSet(SS) \subseteq visited /\ path \subseteq visited /\ open \subseteq visited /\ inSCC \subseteq visited
  BY <1>1 DEF Partition, open, Types
<1>12. w \notin ToSet(SS) /\ w \notin inSCC /\ w \notin path BY <1>6, <1>11
<1>13. \A i \in 1 .. n0 : frames[i].v \in path BY <1>3
<1>14. Types'
  <2>1. I' \in Nat /\ D' \in [visited' -> 1 .. I'] BY <1>7, <1>8 DEF Entered
  <2>2. rep' \in [visited' -> visited'] BY DEF Entered
  <2>3. subNodes' \in [Nodes -> SUBSET Nodes] /\ frames' \in Seq(Call) BY DEF Entered
  <2>4. ToSet(T') \subseteq inSCC' /\ SS' \in Seq(Nodes) /\ T' \in Seq(Nodes) BY <1>1, <1>6 DEF Types
  <2>5. graph' \subseteq Nodes \X Nodes /\ visited' \subseteq Nodes BY <1>1, <1>6 DEF Types
  <2>6. inSCC' \subseteq visited' /\ repNodes' \subseteq visited' BY <1>1, <1>6 DEF Types
  <2> QED BY <2>1, <2>2, <2>3, <2>4, <2>5, <2>6 DEF Types
<1>15. Numbered'
  <2>1. \A x, y \in visited' : D'[x] = D'[y] => x = y BY <1>1, <1>6, <1>7, <1>8 DEF Numbered
  <2>2. ASSUME NEW i \in DOMAIN frames', NEW j \in DOMAIN frames', i < j
        PROVE  D'[frames'[i].v] < D'[frames'[j].v]
    <3>1. i \in 1 .. n0 BY <1>3, <2>2
    <3>2. frames'[i].v = frames[i].v /\ frames[i].v \in visited BY <1>11, <1>13, <3>1 DEF Entered
    <3>3. CASE j \in 1 .. n0
      <4>1. frames'[j].v = frames[j].v /\ frames[j].v \in visited BY <1>11, <1>13, <3>3 DEF Entered
      <4> QED BY <1>1, <1>3, <1>7, <2>2, <3>1, <3>2, <3>3, <4>1 DEF Numbered
    <3>4. CASE j = n0 + 1
      <4>1. frames'[j].v = w BY <3>4 DEF Entered
      <4> QED BY <1>7, <1>8, <3>2, <4>1
    <3> QED BY <1>3, <1>4, <3>3, <3>4
  <2> QED BY <2>1, <2>2 DEF Numbered
<1>16. Partition' BY <1>1, <1>5, <1>6, <1>11, <1>12 DEF Partition
<1>17. Children'
  <2> SUFFICES ASSUME NEW i \in 1 .. n0 + 1
               PROVE  /\ frames'[i].todo \subseteq children(frames'[i].v)
                      /\ frames'[i].at \subseteq frames'[i].todo
                      /\ i < n0 + 1 => frames'[i].at = {frames'[i + 1].v}
                      /\ i = n0 + 1 => frames'[i].at = {}
    BY <1>3, <1>9 DEF Children, n0
  <2>1. CASE i = n0 + 1 BY <1>3, <2>1 DEF Entered
  <2>2. CASE i \in 1 .. n0
    <3>1. /\ frames'[i].todo = frames[i].todo /\ frames'[i].v = frames[i].v
          /\ frames[i].todo \subseteq children(frames[i].v) /\ frames[i].at \subseteq frames[i].todo
      BY <1>1, <1>3, <2>2 DEF Entered, Children
    <3>2. CASE i = n0 BY <1>3, <2>2, <3>1, <3>2 DEF Entered
    <3>3. CASE i < n0
      <4>1. i + 1 \in 1 .. n0 /\ i < n0 + 1 BY <1>3, <2>2, <3>3
      <4>2. frames'[i].at = frames[i].at /\ frames'[i + 1].v = frames[i + 1].v BY <2>2, <3>3, <4>1 DEF Entered
      <4>3. frames[i].at = {frames[i + 1].v} BY <1>1, <1>3, <2>2, <3>3 DEF Children, n0
      <4> QED BY <1>3, <2>2, <3>1, <4>1, <4>2, <4>3
    <3> QED BY <1>3, <2>2, <3>2, <3>3
  <2> QED BY <1>4, <2>1, <2>2
<1>18. Stacked'
  <2>1. \A i \in DOMAIN SS : SS[i] \in visited BY <1>11 DEF ToSet
  <2>2. ASSUME NEW p \in path', NEW i \in DOMAIN SS, NEW j \in DOMAIN SS, i < j, D'[p] < D'[SS[i]]
        PROVE  D'[p] < D'[SS[j]]
    <3>1. CASE p = w BY <1>7, <1>8, <2>1, <2>2, <3>1
    <3>2. CASE p \in path BY <1>1, <1>7, <1>11, <2>1, <2>2, <3>2 DEF Stacked
    <3> QED BY <1>5, <3>1, <3>2
  <2> QED BY <1>6, <2>2 DEF Stacked
<1>19. Reached'
  <2>1. reaches(w, w) BY ReachSelf
  <2>2. ASSUME NEW p \in path PROVE reaches(p, w)
    <3>1. PICK i \in 1 .. n0 : p = frames[i].v BY <1>3
    <3>2. n0 \in 1 .. n0 /\ n0 >= i BY <1>3
    <3>3. v0 \in path /\ v0 \in open BY <1>1, <3>2, PathVisited DEF v0
    <3>4. D[p] <= D[v0]
      <4>1. i = n0 \/ i < n0 BY <1>3
      <4>2. CASE i = n0 BY <1>8, <1>11, <3>1, <3>3, <4>2 DEF v0
      <4>3. CASE i < n0
        <5>1. D[p] < D[v0] BY <1>1, <1>3, <3>1, <3>2, <4>3 DEF Numbered, v0
        <5> QED BY <1>8, <1>11, <3>3, <5>1
      <4> QED BY <4>1, <4>2, <4>3
    <3>5. reaches(p, v0) BY <1>2, <3>3, <3>4 DEF Reached
    <3>6. w \in children(v0) BY <1>1, <1>3, <3>2 DEF Entered, Children, v0
    <3>7. v0 \in Nodes BY <1>1, <3>2, FrameAt DEF v0
    <3>8. reaches(v0, w) BY <1>1, <3>6, <3>7, ReachEdge DEF Types
    <3> QED BY <1>1, <3>5, <3>8, ReachTransitive DEF Types
  <2>3. \A p \in path', x \in open' : D'[p] <= D'[x] => reaches(p, x)
    BY <1>2, <1>5, <1>6, <1>7, <1>8, <1>11, <2>1, <2>2 DEF Reached
  <2>4. \A x \in ToSet(SS) : \E p \in path' : D'[p] < D'[x] /\ reaches(x, p)
    BY <1>2, <1>5, <1>7, <1>11 DEF Reached
  <2>5. \A x \in visited' : reaches(x, rep'[x]) /\ D'[rep'[x]] <= D'[x]
    BY <1>2, <1>6, <1>7, <1>8, <2>1 DEF Reached
  <2>6. \A x \in open' : rep'[x] \in open' BY <1>2, <1>6, <1>7, <1>11 DEF Reached
  <2> QED BY <1>6, <1>10, <2>3, <2>4, <2>5, <2>6 DEF Reached
<1>20. \A x \in visited : \A y : followed(x, y) => followed(x, y)' BY <1>6, <1>7, <1>8 DEF followed
<1>21. Followed'
  <2>1. \A x \in ToSet(SS') : \A y \in children(x)' : followed(x, y)'
    BY <1>2, <1>6, <1>9, <1>11, <1>20 DEF Followed
  <2>2. ASSUME NEW i \in DOMAIN frames', NEW y \in children(frames'[i].v), y \notin frames'[i].todo
        PROVE  y \in visited' /\ (y \in inSCC' \/ D'[rep'[frames'[i].v]] <= D'[y])
    <3>1. CASE i = n0 + 1 BY <2>2, <3>1 DEF Entered
    <3>2. CASE i \in 1 .. n0
      <4>1. frames'[i].todo = frames[i].todo /\ frames'[i].v = frames[i].v BY <3>2 DEF Entered
      <4>2. followed(frames[i].v, y) BY <1>2, <1>3, <2>2, <3>2, <4>1 DEF Followed
      <4> QED BY <1>11, <1>13, <1>20, <3>2, <4>1, <4>2 DEF followed
    <3> QED BY <1>3, <1>4, <3>1, <3>2
  <2> QED BY <1>9, <2>1, <2>2 DEF Followed, followed
<1>22. Lowest'
  <2>1. ASSUME NEW i \in 1 .. n0 + 1, NEW x \in ToSet(SS)
        PROVE  /\ frames'[i].at = {} /\ D'[frames'[i].v] < D'[x] => D'[rep'[frames'[i].v]] <= D'[rep'[x]]
               /\ \A c \in frames'[i].at : D'[frames'[i].v] < D'[x] /\ D'[x] < D'[c]
                                             => D'[rep'[frames'[i].v]] <= D'[rep'[x]]
               /\ \A c \in frames'[i].at : c \in ToSet(SS) /\ D'[c] <= D'[x] => D'[rep'[c]] <= D'[rep'[x]]
    <3>0. x \in visited /\ D'[x] = D[x] /\ rep'[x] = rep[x] /\ D'[rep'[x]] = D[rep[x]] BY <1>7, <1>8, <1>11
    <3>1. CASE i = n0 + 1
      <4>1. frames'[i].v = w /\ frames'[i].at = {} BY <3>1 DEF Entered
      <4> QED BY <1>7, <1>8, <3>0, <4>1
    <3>2. CASE i \in 1 .. n0 /\ i < n0
      <4>1. frames'[i].v = frames[i].v /\ frames'[i].at = frames[i].at BY <3>2 DEF Entered
      <4>2. frames[i].v \in visited BY <1>11, <1>13, <3>2
      <4>3. /\ D'[frames[i].v] = D[frames[i].v] /\ rep'[frames[i].v] = rep[frames[i].v]
            /\ D'[rep'[frames[i].v]] = D[rep[frames[i].v]]
        BY <1>7, <1>8, <4>2
      <4>4. frames[i].at = {frames[i + 1].v} /\ i + 1 \in 1 .. n0
        BY <1>1, <1>3, <3>2 DEF Children, n0
      <4>5. frames[i + 1].v \in path /\ frames[i + 1].v \in visited /\ frames[i + 1].v \notin ToSet(SS)
        BY <1>1, <1>11, <1>13, <4>4 DEF Partition
      <4>6. D'[frames[i + 1].v] = D[frames[i + 1].v] BY <1>7, <4>5
      <4> QED BY <1>2, <1>3, <3>0, <3>2, <4>1, <4>3, <4>4, <4>5, <4>6 DEF Lowest
    <3>3. CASE i \in 1 .. n0 /\ i = n0
      <4>1. frames'[i].v = frames[i].v /\ frames'[i].at = {w} /\ frames[i].at = {} BY <3>3 DEF Entered
      <4>2. frames[i].v \in visited BY <1>11, <1>13, <3>3
      <4>3. /\ D'[frames[i].v] = D[frames[i].v] /\ rep'[frames[i].v] = rep[frames[i].v]
            /\ D'[rep'[frames[i].v]] = D[rep[frames[i].v]]
        BY <1>7, <1>8, <4>2
      <4>4. D[frames[i].v] < D[x] => D[rep[frames[i].v]] <= D[rep[x]]
        BY <1>2, <1>3, <3>3, <4>1 DEF Lowest
      <4> QED BY <1>12, <3>0, <4>1, <4>3, <4>4
    <3> QED BY <1>3, <1>4, <3>1, <3>2, <3>3
  <2>2. ASSUME NEW i \in 1 .. n0 + 1, NEW c \in frames'[i].at, c \in inSCC, NEW x \in open'
        PROVE  D'[x] < D'[c]
    <3>1. CASE i = n0 + 1 BY <3>1, <2>2 DEF Entered
    <3>2. CASE i \in 1 .. n0 /\ i < n0
      <4>1. frames'[i].at = frames[i].at BY <3>2 DEF Entered
      <4>2. frames[i].at = {frames[i + 1].v} /\ i + 1 \in 1 .. n0
        BY <1>1, <1>3, <3>2 DEF Children, n0
      <4>3. c \in open BY <1>1, <2>2, <4>1, <4>2, PathVisited
      <4> QED BY <2>2, <4>3 DEF open
    <3>3. CASE i \in 1 .. n0 /\ i = n0
      <4>1. frames'[i].at = {w} BY <3>3 DEF Entered
      <4> QED BY <1>12, <2>2, <4>1
    <3> QED BY <1>3, <1>4, <3>1, <3>2, <3>3
  <2> QED BY <1>3, <1>6, <2>1, <2>2 DEF Lowest
<1>23. Complete'
  <2>1. ASSUME NEW x \in inSCC
        PROVE  /\ rep'[x] \in inSCC /\ rep'[rep'[x]] = rep'[x]
               /\ Abstract!component(graph, x) = {y \in inSCC : rep'[y] = rep'[x]}
    <3>1. /\ rep[x] \in inSCC /\ rep[rep[x]] = rep[x]
          /\ Abstract!component(graph, x) = {y \in inSCC : rep[y] = rep[x]}
      BY <1>2 DEF Complete
    <3>2. \A y \in inSCC : rep'[y] = rep[y] BY <1>7, <1>11
    <3> QED BY <3>1, <3>2
  <2>2. \A x \in inSCC : children(x) \subseteq inSCC BY <1>2 DEF Complete
  <2> QED BY <1>6, <1>9, <2>1, <2>2 DEF Complete
<1>24. SubNodesKept'
  <2>1. /\ subNodes'[w] = subNodes[w] \cup {w} /\ subNodes[w] = {}
        /\ \A x \in Nodes \ {w} : subNodes'[x] = subNodes[x]
    BY <1>2, <1>6 DEF Entered, SubNodesKept
  <2>2. visited \subseteq Nodes BY <1>1 DEF Types
  <2>3. \A n \in Nodes \ visited' : subNodes'[n] = {} BY <1>2, <1>6, <2>1 DEF SubNodesKept
  <2>4. \A x \in inSCC : rep'[x] = rep[x] /\ subNodes'[x] = subNodes[x] BY <1>7, <1>11, <1>12, <2>1, <2>2
  <2>5. /\ \A n \in inSCC : subNodes'[n] = {x \in inSCC : rep'[x] = n}
        /\ \A n \in inSCC : n \in repNodes <=> \E x \in subNodes'[n] : x # n
    BY <1>2, <2>4 DEF SubNodesKept
  <2>6. ASSUME NEW n \in open'
        PROVE  /\ \A x \in subNodes'[n] : x \in open' /\ D'[rep'[x]] <= D'[n] /\ D'[n] <= D'[x]
               /\ rep'[n] = n => n \in subNodes'[n]
               /\ n \in repNodes => \E x \in subNodes'[n] : x # n
    <3>1. CASE n = w
      <4>1. subNodes'[n] = {w} BY <2>1, <3>1
      <4>2. n \notin repNodes BY <1>1, <1>6, <3>1 DEF Types
      <4> QED BY <1>6, <1>7, <1>8, <3>1, <4>1, <4>2
    <3>2. CASE n \in open
      <4>1. subNodes'[n] = subNodes[n] /\ D'[n] = D[n] /\ rep'[n] = rep[n] BY <1>6, <1>7, <1>11, <2>1, <2>2, <3>2
      <4>2. \A x \in open : D'[rep'[x]] = D[rep[x]] /\ D'[x] = D[x] BY <1>7, <1>8, <1>11
      <4> QED BY <1>2, <1>6, <3>2, <4>1, <4>2 DEF SubNodesKept
    <3> QED BY <1>6, <3>1, <3>2
  <2> QED BY <1>6, <2>3, <2>5, <2>6 DEF SubNodesKept
<1> QED BY <1>14, <1>15, <1>16, <1>17, <1>18, <1>19, <1>21, <1>22, <1>23, <1>24 DEF SearchInv

-----------------------------------------------------------------------------
(* Coming back from a child keeps the invariant *)

\* what the other lemmas need of the innermost call
LEMMA InnermostCall ==
  ASSUME SearchInv, n0 >= 1
  PROVE  /\ n0 \in Nat /\ n0 \in 1 .. n0 /\ v0 = frames[n0].v /\ v0 \in Nodes
         /\ v0 \in path /\ v0 \in open /\ v0 \in visited /\ v0 \notin inSCC /\ v0 \notin ToSet(SS)
         /\ \A i \in 1 .. n0 : i < n0 => D[frames[i].v] < D[v0] /\ frames[i].v # v0
<1>1. Types /\ Partition /\ Numbered BY DEF SearchInv
<1>2. n0 \in Nat /\ DOMAIN frames = 1 .. n0 BY <1>1, PathCalls DEF Types, n0
<1>3. n0 \in 1 .. n0 BY <1>2
<1>4. v0 \in Nodes /\ v0 \in path /\ v0 \in open BY <1>1, <1>3, FrameAt, PathVisited DEF v0
<1>5. v0 \notin ToSet(SS) BY <1>1, <1>4 DEF Partition
<1>6. \A x \in visited : D[x] \in Nat BY <1>1, Numbers
<1>7. ASSUME NEW i \in 1 .. n0, i < n0 PROVE D[frames[i].v] < D[v0] /\ frames[i].v # v0
  <2>1. D[frames[i].v] < D[v0] BY <1>1, <1>2, <1>3, <1>7 DEF Numbered, v0
  <2>2. D[v0] \in Nat BY <1>4, <1>6 DEF open
  <2> QED BY <2>1, <2>2
<1> QED BY <1>2, <1>3, <1>4, <1>5, <1>7 DEF v0, open

LEMMA ReturnedKeeps ==
  ASSUME SearchInv, NEW w \in visited, NEW r \in visited, Returned(w, r)
  PROVE  SearchInv'
<1>1. Types /\ Numbered /\ Partition /\ Children /\ Stacked BY DEF SearchInv
<1>2. Reached /\ Followed /\ Lowest /\ Complete /\ SubNodesKept BY DEF SearchInv
<1>3. /\ n0 \in Nat /\ n0 >= 1 /\ n0 \in 1 .. n0 /\ v0 = frames[n0].v /\ v0 \in Nodes
      /\ v0 \in path /\ v0 \in open /\ v0 \in visited /\ v0 \notin inSCC /\ v0 \notin ToSet(SS)
      /\ \A i \in 1 .. n0 : i < n0 => D[frames[i].v] < D[v0] /\ frames[i].v # v0
  BY InnermostCall DEF Returned
<1>4. /\ n0' = n0 /\ DOMAIN frames' = 1 .. n0 /\ DOMAIN frames = 1 .. n0
      /\ path = {frames[i].v : i \in 1 .. n0}
  BY <1>1, PathCalls DEF Types, n0, Returned
<1>5. path' = path BY <1>4 DEF path, Returned
<1>6. /\ graph' = graph /\ inSCC' = inSCC /\ I' = I /\ D' = D /\ SS' = SS /\ T' = T
      /\ visited' = visited /\ open' = open
  BY DEF Returned, visited, open
<1>7. /\ I \in Nat /\ \A x \in visited : D[x] \in 1 .. I /\ rep[x] \in visited /\ D[rep[x]] \in 1 .. I
  BY <1>1, Numbers
<1>8. \A x : children(x)' = children(x) BY <1>6 DEF children
<1>9. \A x, y : reaches(x, y)' <=> reaches(x, y) BY <1>6 DEF reaches
<1>10. ToSet(SS) \subseteq open /\ path \subseteq open /\ open \subseteq visited /\ inSCC \subseteq visited
  BY <1>1 DEF Partition, open, Types
<1>11. \A i \in 1 .. n0 : frames[i].v \in path /\ frames'[i].v = frames[i].v BY <1>4 DEF Returned
<1>12. w \notin inSCC => w \in open BY DEF open
<1>13. w \in children(v0) /\ reaches(v0, w)
  <2>1. w \in children(v0) BY <1>1, <1>3, <1>4 DEF Returned, Children
  <2> QED BY <1>1, <1>3, <2>1, ReachEdge DEF Types
<1>14. rep' \in [visited -> visited] /\ \A x \in visited \ {v0} : rep'[x] = rep[x]
  <2>1. CASE w \in inSCC BY <1>1, <2>1 DEF Returned, Types
  <2>2. CASE w \notin inSCC BY <2>2 DEF Returned
  <2> QED BY <2>1, <2>2
<1>15. /\ D[rep'[v0]] <= D[rep[v0]] /\ reaches(v0, rep'[v0]) /\ rep'[v0] \in open
       /\ w \in inSCC \/ D[rep'[v0]] <= D[rep[w]]
  <2>1. CASE w \in inSCC
    <3>1. rep' = rep BY <2>1 DEF Returned
    <3> QED BY <1>2, <1>3, <1>7, <2>1, <3>1 DEF Reached
  <2>2. CASE w \notin inSCC
    <3>1. rep'[v0] = r /\ r \in {rep[v0], rep[w]} /\ D[r] <= D[rep[v0]] /\ D[r] <= D[rep[w]]
      BY <2>2 DEF Returned
    <3>2. rep[v0] \in open /\ rep[w] \in open BY <1>2, <1>3, <1>12, <2>2 DEF Reached
    <3>3. reaches(v0, rep[v0]) /\ reaches(w, rep[w]) BY <1>2, <1>3 DEF Reached
    <3>4. reaches(v0, rep[w]) BY <1>1, <1>13, <3>3, ReachTransitive DEF Types
    <3> QED BY <3>1, <3>2, <3>3, <3>4
  <2> QED BY <2>1, <2>2
<1>16. \A x \in visited : /\ rep'[x] \in visited /\ D[rep'[x]] \in 1 .. I
                          /\ D[rep'[x]] <= D[rep[x]]
  <2>1. \A x \in visited : rep'[x] \in visited BY <1>14
  <2>2. \A x \in visited \ {v0} : D[rep'[x]] <= D[rep[x]] BY <1>7, <1>14
  <2> QED BY <1>7, <1>15, <2>1, <2>2
<1>17. \A x \in inSCC : rep'[x] = rep[x] BY <1>3, <1>10, <1>14
<1>18. \A x \in ToSet(SS) : rep'[x] = rep[x] BY <1>3, <1>10, <1>14
<1>19. Types'
  <2>1. CASE w \in inSCC BY <1>1, <1>6, <1>14, <2>1 DEF Types, Returned
  <2>2. CASE w \notin inSCC
    <3>1. subNodes' \in [Nodes -> SUBSET Nodes]
      <4>1. subNodes' = represents(subNodes, {v0}, r) BY <2>2 DEF Returned
      <4>2. subNodes \in [Nodes -> SUBSET Nodes] /\ {v0} \subseteq Nodes BY <1>1, <1>3 DEF Types
      <4> QED BY <4>1, <4>2, RepresentsType
    <3>2. repNodes' \subseteq visited BY <1>1, <2>2 DEF Types, Returned
    <3>3. frames' \in Seq(Call) BY DEF Returned
    <3> QED BY <1>1, <1>6, <1>14, <3>1, <3>2, <3>3 DEF Types
  <2> QED BY <2>1, <2>2
<1>20. Numbered' BY <1>1, <1>4, <1>6, <1>11 DEF Numbered
<1>21. Partition' BY <1>1, <1>5, <1>6 DEF Partition
<1>22. Children'
  <2> SUFFICES ASSUME NEW i \in 1 .. n0
               PROVE  /\ frames'[i].todo \subseteq children(frames'[i].v)
                      /\ frames'[i].at \subseteq frames'[i].todo
                      /\ i < n0 => frames'[i].at = {frames'[i + 1].v}
                      /\ i = n0 => frames'[i].at = {}
    BY <1>4, <1>8 DEF Children, n0
  <2>1. frames[i].todo \subseteq children(frames[i].v) BY <1>1, <1>4 DEF Children
  <2>2. CASE i = n0 BY <1>11, <2>1, <2>2 DEF Returned
  <2>3. CASE i < n0
    <3>1. i + 1 \in 1 .. n0 BY <1>3, <2>3
    <3>2. frames'[i].at = frames[i].at /\ frames'[i].todo = frames[i].todo BY <2>3 DEF Returned
    <3>3. frames[i].at = {frames[i + 1].v} /\ frames[i].at \subseteq frames[i].todo
      BY <1>1, <1>4, <2>3 DEF Children, n0
    <3> QED BY <1>3, <1>11, <2>1, <2>3, <3>1, <3>2, <3>3
  <2> QED BY <1>3, <2>2, <2>3
<1>23. Stacked' BY <1>1, <1>5, <1>6 DEF Stacked
<1>24. Reached'
  <2>1. \A x \in visited : reaches(x, rep'[x]) /\ D[rep'[x]] <= D[x]
    <3>1. \A x \in visited : reaches(x, rep[x]) /\ D[rep[x]] <= D[x] BY <1>2 DEF Reached
    <3>2. \A x \in visited : reaches(x, rep'[x]) BY <1>14, <1>15, <3>1
    <3> QED BY <1>7, <1>16, <3>1, <3>2
  <2>2. \A x \in open : rep'[x] \in open BY <1>2, <1>10, <1>14, <1>15 DEF Reached
  <2>3. /\ \A p \in path, x \in open : D[p] <= D[x] => reaches(p, x)
        /\ \A x \in ToSet(SS) : \E p \in path : D[p] < D[x] /\ reaches(x, p)
    BY <1>2 DEF Reached
  <2> QED BY <1>5, <1>6, <1>9, <2>1, <2>2, <2>3 DEF Reached
<1>25. \A x, y \in visited : (y \in inSCC \/ D[rep[x]] <= D[y]) => (y \in inSCC \/ D[rep'[x]] <= D[y])
  BY <1>7, <1>16
<1>26. Followed'
  <2>1. \A x \in ToSet(SS) : \A y \in children(x) : y \in visited /\ (y \in inSCC \/ D[rep'[x]] <= D[y])
    BY <1>2, <1>10, <1>25 DEF Followed, followed
  <2>2. ASSUME NEW i \in 1 .. n0, NEW y \in children(frames[i].v), y \notin frames'[i].todo
        PROVE  y \in visited /\ (y \in inSCC \/ D[rep'[frames[i].v]] <= D[y])
    <3>1. frames[i].v \in visited BY <1>10, <1>11
    <3>2. CASE y \notin frames[i].todo
      <4>1. y \in visited /\ (y \in inSCC \/ D[rep[frames[i].v]] <= D[y])
        BY <1>2, <1>4, <3>2 DEF Followed, followed
      <4> QED BY <1>25, <3>1, <4>1
    <3>3. CASE y \in frames[i].todo
      <4>1. i = n0 /\ y = w BY <1>3, <2>2, <3>3 DEF Returned
      <4>2. D[rep[w]] <= D[w] BY <1>2 DEF Reached
      <4>3. w \in inSCC \/ D[rep'[v0]] <= D[w] BY <1>3, <1>7, <1>15, <1>16, <4>2
      <4> QED BY <1>3, <4>1, <4>3
    <3> QED BY <3>2, <3>3
  <2> QED BY <1>4, <1>6, <1>8, <1>11, <2>1, <2>2 DEF Followed, followed
<1>27. ASSUME NEW x \in ToSet(SS), D[v0] < D[x] PROVE D[rep'[v0]] <= D[rep[x]]
  <2>1. x \in visited /\ D[x] \in Nat /\ D[w] \in Nat BY <1>7, <1>10
  <2>2. D[rep[v0]] \in Nat /\ D[rep'[v0]] \in Nat /\ D[rep[x]] \in Nat /\ D[rep[w]] \in Nat
    BY <1>3, <1>7, <1>16, <2>1
  <2>3. ASSUME D[rep[v0]] <= D[rep[x]] PROVE D[rep'[v0]] <= D[rep[x]] BY <1>15, <2>2, <2>3
  <2>4. CASE frames[n0].at = {}
    <3>1. D[rep[v0]] <= D[rep[x]] BY <1>2, <1>3, <1>4, <1>27, <2>4 DEF Lowest
    <3> QED BY <2>3, <3>1
  <2>5. CASE frames[n0].at = {w}
    <3>1. w \notin path
      <4>1. frames[n0].at # {} BY <2>5
      <4>2. \E c \in visited \ path : frames[n0].at = {c}
        BY <1>1, <1>3, <1>4, <4>1, Zenon DEF Children, n0
      <4> QED BY <2>5, <4>2
    <3>2. /\ D[v0] < D[x] /\ D[x] < D[w] => D[rep[v0]] <= D[rep[x]]
          /\ w \in ToSet(SS) => (D[w] <= D[x] => D[rep[w]] <= D[rep[x]])
          /\ w \in inSCC => D[x] < D[w]
      BY <1>2, <1>3, <1>4, <1>10, <2>5 DEF Lowest
    <3>3. CASE D[x] < D[w] BY <1>27, <2>3, <3>2, <3>3
    <3>4. CASE D[w] <= D[x]
      <4>1. w \notin inSCC BY <2>1, <3>2, <3>4
      <4>2. w \in ToSet(SS) BY <1>1, <1>12, <3>1, <4>1 DEF Partition
      <4>3. D[rep[w]] <= D[rep[x]] /\ D[rep'[v0]] <= D[rep[w]] BY <1>15, <3>2, <3>4, <4>1, <4>2
      <4> QED BY <2>2, <4>3
    <3> QED BY <2>1, <3>3, <3>4
  <2> QED BY <2>4, <2>5 DEF Returned
<1>28. Lowest'
  <2>1. ASSUME NEW i \in 1 .. n0, NEW x \in ToSet(SS)
        PROVE  /\ frames'[i].at = {} /\ D[frames[i].v] < D[x] => D[rep'[frames[i].v]] <= D[rep[x]]
               /\ \A c \in frames'[i].at : D[frames[i].v] < D[x] /\ D[x] < D[c]
                                             => D[rep'[frames[i].v]] <= D[rep[x]]
               /\ \A c \in frames'[i].at : c \notin ToSet(SS) /\ c \notin inSCC
    <3>1. CASE i = n0 BY <1>3, <1>27, <3>1 DEF Returned
    <3>2. CASE i < n0
      <4>1. frames'[i].at = frames[i].at BY <3>2 DEF Returned
      <4>2. frames[i].v \in visited \ {v0} BY <1>3, <1>10, <1>11, <3>2
      <4>3. rep'[frames[i].v] = rep[frames[i].v] BY <1>14, <4>2
      <4>4. frames[i].at = {frames[i + 1].v} /\ i + 1 \in 1 .. n0
        BY <1>1, <1>3, <1>4, <3>2 DEF Children, n0
      <4>5. frames[i + 1].v \notin ToSet(SS) /\ frames[i + 1].v \notin inSCC
        BY <1>1, <1>10, <1>11, <4>4 DEF Partition, open
      <4>6. \A c \in frames[i].at : D[frames[i].v] < D[x] /\ D[x] < D[c]
                                       => D[rep[frames[i].v]] <= D[rep[x]]
        BY <1>2, <1>4 DEF Lowest
      <4> QED BY <4>1, <4>3, <4>4, <4>5, <4>6
    <3> QED BY <1>3, <3>1, <3>2
  <2>2. ASSUME NEW i \in 1 .. n0, NEW c \in frames'[i].at PROVE c \notin inSCC
    <3>1. CASE i = n0 BY <2>2, <3>1 DEF Returned
    <3>2. CASE i < n0
      <4>1. c \in frames[i].at BY <2>2, <3>2 DEF Returned
      <4>2. frames[i].at = {frames[i + 1].v} /\ i + 1 \in 1 .. n0
        BY <1>1, <1>3, <1>4, <3>2 DEF Children, n0
      <4> QED BY <1>10, <1>11, <4>1, <4>2 DEF open
    <3> QED BY <1>3, <3>1, <3>2
  <2> QED BY <1>4, <1>6, <1>11, <1>18, <2>1, <2>2 DEF Lowest
<1>29. Complete'
  <2>1. ASSUME NEW x \in inSCC
        PROVE  /\ rep'[x] \in inSCC /\ rep'[rep'[x]] = rep'[x]
               /\ Abstract!component(graph, x) = {y \in inSCC : rep'[y] = rep'[x]}
    BY <1>2, <1>17 DEF Complete
  <2>2. \A x \in inSCC : children(x) \subseteq inSCC BY <1>2 DEF Complete
  <2> QED BY <1>6, <1>8, <2>1, <2>2 DEF Complete
<1>30. SubNodesKept'
  <2>1. CASE w \in inSCC
    <3>1. rep' = rep /\ subNodes' = subNodes /\ repNodes' = repNodes BY <2>1 DEF Returned
    <3> QED BY <1>2, <1>6, <3>1 DEF SubNodesKept
  <2>2. CASE w \notin inSCC
    <3>1. /\ rep'[v0] = r /\ subNodes' = represents(subNodes, {v0}, r)
          /\ repNodes' = IF v0 = r THEN repNodes ELSE (repNodes \ {v0}) \cup {r}
      BY <2>2 DEF Returned
    <3>2. r \in open /\ r \in Nodes /\ visited \subseteq Nodes BY <1>1, <1>15, <3>1 DEF Types
    <3>3. /\ subNodes'[r] = subNodes[r] \cup {v0}
          /\ v0 # r => subNodes'[v0] = {}
          /\ \A n \in Nodes \ {v0, r} : subNodes'[n] = subNodes[n]
      BY <1>3, <3>1, <3>2 DEF represents
    <3>4. \A n \in Nodes \ visited : subNodes'[n] = {} BY <1>2, <1>3, <3>3 DEF SubNodesKept
    <3>5. \A n \in inSCC : n # v0 /\ n # r /\ n \in Nodes BY <1>3, <1>10, <3>2 DEF open
    <3>6. /\ \A n \in inSCC : subNodes'[n] = {x \in inSCC : rep'[x] = n}
          /\ \A n \in inSCC : n \in repNodes' <=> \E x \in subNodes'[n] : x # n
      <4>1. \A n \in inSCC : subNodes'[n] = subNodes[n] BY <3>3, <3>5
      <4>2. \A n \in inSCC : n \in repNodes' <=> n \in repNodes BY <3>1, <3>5
      <4> QED BY <1>2, <1>17, <4>1, <4>2 DEF SubNodesKept
    <3>7. ASSUME NEW n \in open
          PROVE  /\ \A x \in subNodes'[n] : x \in open /\ D[rep'[x]] <= D[n] /\ D[n] <= D[x]
                 /\ rep'[n] = n => n \in subNodes'[n]
                 /\ n \in repNodes' => \E x \in subNodes'[n] : x # n
      <4>1. /\ \A x \in subNodes[n] : x \in open /\ D[rep[x]] <= D[n] /\ D[n] <= D[x]
            /\ rep[n] = n => n \in subNodes[n]
            /\ n \in repNodes => \E x \in subNodes[n] : x # n
        BY <1>2 DEF SubNodesKept
      <4>2. n \in visited /\ D[n] \in Nat /\ n \in Nodes BY <1>7, <1>10, <3>2
      <4>3. \A x \in subNodes[n] : x \in open /\ D[rep'[x]] <= D[n] /\ D[n] <= D[x]
        BY <1>7, <1>10, <1>16, <4>1, <4>2
      <4>4. D[rep'[v0]] <= D[r] /\ D[r] <= D[v0]
        <5>1. D[rep[v0]] <= D[v0] BY <1>2, <1>3 DEF Reached
        <5> QED BY <1>3, <1>7, <1>15, <3>1, <5>1
      <4>5. \A x \in subNodes'[n] : x \in open /\ D[rep'[x]] <= D[n] /\ D[n] <= D[x]
        <5>1. CASE n = r BY <1>3, <3>3, <4>3, <4>4, <5>1
        <5>2. CASE n # r BY <3>3, <4>2, <4>3, <5>2
        <5> QED BY <5>1, <5>2
      <4>6. n # v0 \/ n = r => subNodes[n] \subseteq subNodes'[n] BY <3>3, <4>2
      <4>7. rep'[n] = n => n \in subNodes'[n]
        <5>1. CASE n = v0 BY <3>1, <3>3, <5>1
        <5>2. CASE n # v0 BY <1>14, <4>1, <4>2, <4>6, <5>2
        <5> QED BY <5>1, <5>2
      <4>8. n \in repNodes' => \E x \in subNodes'[n] : x # n
        <5>1. CASE v0 = r BY <3>1, <4>1, <4>6, <5>1
        <5>2. CASE v0 # r BY <3>1, <3>3, <4>1, <4>6, <5>2
        <5> QED BY <5>1, <5>2
      <4> QED BY <4>5, <4>7, <4>8
    <3> QED BY <1>6, <3>4, <3>6, <3>7 DEF SubNodesKept
  <2> QED BY <2>1, <2>2
<1> QED BY <1>19, <1>20, <1>21, <1>22, <1>23, <1>24, <1>26, <1>28, <1>29, <1>30 DEF SearchInv

-----------------------------------------------------------------------------
(* Leaving a call keeps the invariant *)

\* the calls that are left
LEMMA LeftCalls ==
  ASSUME SearchInv, Left
  PROVE  /\ n0' = n0 - 1 /\ DOMAIN frames' = 1 .. n0 - 1 /\ DOMAIN frames = 1 .. n0
         /\ \A i \in 1 .. n0 - 1 : i \in 1 .. n0 /\ i < n0 /\ frames'[i] = frames[i]
         /\ \A i \in 1 .. n0 : i \in 1 .. n0 - 1 \/ i = n0
         /\ path' = path \ {v0} /\ graph' = graph /\ I' = I /\ D' = D /\ visited' = visited
         /\ frames[n0].todo = {} /\ frames[n0].at = {}
         /\ \A i \in 1 .. n0 - 1 : i < n0 - 1 => i + 1 \in 1 .. n0 - 1
         /\ \A i \in 1 .. n0 - 1 : frames[i].at = {frames[i + 1].v} /\ i + 1 \in 1 .. n0
         /\ \A i \in 1 .. n0 - 1 : i = n0 - 1 => frames[i].at = {v0}
         /\ \A p \in path : p = v0 \/ D[p] < D[v0]
<1>1. Types /\ Children /\ Partition /\ Numbered BY DEF SearchInv
<1>2. /\ n0 \in Nat /\ n0 >= 1 /\ n0 \in 1 .. n0 /\ v0 = frames[n0].v
      /\ v0 \in path /\ v0 \in open /\ v0 \in visited
      /\ \A i \in 1 .. n0 : i < n0 => D[frames[i].v] < D[v0] /\ frames[i].v # v0
  BY InnermostCall DEF Left
<1>3. /\ n0' = n0 - 1 /\ DOMAIN frames' = 1 .. n0 - 1 /\ DOMAIN frames = 1 .. n0
      /\ path = {frames[i].v : i \in 1 .. n0}
  <2>1. path = {frames[i].v : i \in 1 .. n0} /\ DOMAIN frames = 1 .. n0 BY <1>1, PathCalls
  <2>2. frames' \in Seq(Call) /\ Len(frames') = n0 - 1 BY DEF Left
  <2>3. DOMAIN frames' = 1 .. n0 - 1 BY <1>2, <2>2
  <2> QED BY <2>1, <2>2, <2>3 DEF n0
<1>4. \A i \in 1 .. n0 - 1 : i \in 1 .. n0 /\ i < n0 /\ frames'[i] = frames[i] BY <1>2 DEF Left
<1>5. \A i \in 1 .. n0 : i \in 1 .. n0 - 1 \/ i = n0 BY <1>2
<1>6. path' = {frames'[i].v : i \in 1 .. n0 - 1} BY <1>3 DEF path
<1>7. path' = path \ {v0}
  <2>1. path' \subseteq path \ {v0} BY <1>2, <1>3, <1>4, <1>6
  <2>2. ASSUME NEW p \in path, p # v0 PROVE p \in path'
    <3>1. PICK i \in 1 .. n0 : p = frames[i].v BY <1>3
    <3>2. i \in 1 .. n0 - 1 BY <1>2, <1>5, <2>2, <3>1
    <3> QED BY <1>4, <1>6, <3>1, <3>2
  <2> QED BY <2>1, <2>2
<1>8. frames[n0].todo = {} /\ frames[n0].at = {} BY <1>1, <1>2, <1>3 DEF Left, Children
<1>9. \A i \in 1 .. n0 - 1 : i < n0 - 1 => i + 1 \in 1 .. n0 - 1 BY <1>2
<1>10. \A i \in 1 .. n0 - 1 : frames[i].at = {frames[i + 1].v} /\ i + 1 \in 1 .. n0
  <2>1. \A i \in 1 .. n0 - 1 : i + 1 \in 1 .. n0 BY <1>2
  <2> QED BY <1>1, <1>3, <1>4, <2>1 DEF Children, n0
<1>11. \A i \in 1 .. n0 - 1 : i = n0 - 1 => frames[i].at = {v0}
  <2>1. n0 - 1 + 1 = n0 BY <1>2
  <2> QED BY <1>2, <1>10, <2>1
<1>12. \A p \in path : p = v0 \/ D[p] < D[v0] BY <1>2, <1>3, <1>5, <1>4
<1> QED BY <1>3, <1>4, <1>5, <1>7, <1>8, <1>9, <1>10, <1>11, <1>12 DEF Left, visited

LEMMA WaitingKeeps ==
  ASSUME SearchInv, LeftWaiting
  PROVE  SearchInv'
<1>1. Types /\ Numbered /\ Partition /\ Children /\ Stacked BY DEF SearchInv
<1>2. Reached /\ Followed /\ Lowest /\ Complete /\ SubNodesKept BY DEF SearchInv
<1>3. Left /\ rep[v0] # v0 BY DEF LeftWaiting
<1>4. /\ n0 \in Nat /\ n0 \in 1 .. n0 /\ v0 = frames[n0].v /\ v0 \in Nodes
      /\ v0 \in path /\ v0 \in open /\ v0 \in visited /\ v0 \notin inSCC /\ v0 \notin ToSet(SS)
      /\ \A i \in 1 .. n0 : i < n0 => D[frames[i].v] < D[v0] /\ frames[i].v # v0
  BY <1>3, InnermostCall DEF Left
<1>5. /\ n0' = n0 - 1 /\ DOMAIN frames' = 1 .. n0 - 1 /\ DOMAIN frames = 1 .. n0
      /\ \A i \in 1 .. n0 - 1 : i \in 1 .. n0 /\ i < n0 /\ frames'[i] = frames[i]
      /\ path' = path \ {v0} /\ graph' = graph /\ I' = I /\ D' = D /\ visited' = visited
      /\ frames[n0].todo = {} /\ frames[n0].at = {}
  BY <1>3, LeftCalls
<1>6. /\ \A i \in 1 .. n0 - 1 : i < n0 - 1 => i + 1 \in 1 .. n0 - 1
      /\ \A i \in 1 .. n0 - 1 : frames[i].at = {frames[i + 1].v} /\ i + 1 \in 1 .. n0
      /\ \A i \in 1 .. n0 - 1 : i = n0 - 1 => frames[i].at = {v0}
      /\ \A p \in path : p = v0 \/ D[p] < D[v0]
  BY <1>3, LeftCalls
<1>7. rep' = rep /\ inSCC' = inSCC /\ subNodes' = subNodes /\ T' = T /\ repNodes' = repNodes /\ open' = open
  BY <1>5 DEF LeftWaiting, open
<1>8. /\ SS' \in Seq(Nodes) /\ Len(SS') = Len(SS) + 1 /\ SS'[Len(SS) + 1] = v0
      /\ \A i \in 1 .. Len(SS) : SS'[i] = SS[i]
      /\ ToSet(SS') = ToSet(SS) \cup {v0} /\ Len(SS) \in Nat
  <2>1. SS' = Append(SS, v0) BY DEF LeftWaiting
  <2>2. SS \in Seq(Nodes) BY <1>1 DEF Types
  <2> QED BY <1>4, <2>1, <2>2, Pushed
<1>9. /\ I \in Nat /\ \A x \in visited : D[x] \in 1 .. I /\ rep[x] \in visited /\ D[rep[x]] \in 1 .. I
  BY <1>1, Numbers
<1>10. \A x : children(x)' = children(x) BY <1>5 DEF children
<1>11. \A x, y : reaches(x, y)' <=> reaches(x, y) BY <1>5 DEF reaches
<1>12. ToSet(SS) \subseteq open /\ path \subseteq open /\ open \subseteq visited /\ inSCC \subseteq visited
  BY <1>1 DEF Partition, open, Types
<1>13. \A i \in 1 .. n0 : frames[i].v \in path /\ frames[i].v \in visited BY <1>1, PathVisited
<1>14. Types'
  <2>1. frames' \in Seq(Call) BY <1>3 DEF Left
  <2> QED BY <1>1, <1>5, <1>7, <1>8, <2>1 DEF Types
<1>15. Numbered' BY <1>1, <1>5 DEF Numbered
<1>16. Partition' BY <1>1, <1>4, <1>5, <1>7, <1>8 DEF Partition
<1>17. Children'
  <2> SUFFICES ASSUME NEW i \in 1 .. n0 - 1
               PROVE  /\ frames'[i].todo \subseteq children(frames'[i].v)
                      /\ frames'[i].at \subseteq frames'[i].todo
                      /\ i < n0 - 1 => frames'[i].at = {frames'[i + 1].v}
                      /\ i = n0 - 1 => \E c \in visited' \ path' :
                                         frames'[i].at = {c} /\ D'[frames'[i].v] < D'[c]
    BY <1>5, <1>10 DEF Children, n0
  <2>1. /\ frames[i].todo \subseteq children(frames[i].v) /\ frames[i].at \subseteq frames[i].todo
        /\ frames'[i] = frames[i]
    BY <1>1, <1>5 DEF Children
  <2>2. i < n0 - 1 => frames'[i].at = {frames'[i + 1].v} BY <1>5, <1>6
  <2>3. D[frames[i].v] < D[v0] BY <1>4, <1>5
  <2> QED BY <1>4, <1>5, <1>6, <2>1, <2>2, <2>3
<1>18. Stacked'
  <2>1. DOMAIN SS = 1 .. Len(SS) /\ DOMAIN SS' = 1 .. Len(SS) + 1 BY <1>1, <1>8 DEF Types
  <2>2. ASSUME NEW p \in path', NEW i \in DOMAIN SS', NEW j \in DOMAIN SS', i < j, D[p] < D[SS'[i]]
        PROVE  D[p] < D[SS'[j]]
    <3>1. i \in DOMAIN SS /\ SS'[i] = SS[i] BY <1>8, <2>1, <2>2
    <3>2. CASE j \in DOMAIN SS BY <1>1, <1>5, <1>8, <2>1, <2>2, <3>1, <3>2 DEF Stacked
    <3>3. CASE j = Len(SS) + 1 BY <1>5, <1>6, <1>8, <3>3
    <3> QED BY <1>8, <2>1, <3>2, <3>3
  <2> QED BY <1>5, <2>2 DEF Stacked
<1>19. PICK q \in path : q # v0 /\ D[q] < D[v0] /\ reaches(v0, q)
  <2>1. /\ reaches(v0, rep[v0]) /\ D[rep[v0]] <= D[v0] /\ rep[v0] \in open /\ rep[v0] \in visited
    BY <1>2, <1>4, <1>9 DEF Reached
  <2>2. D[rep[v0]] < D[v0] BY <1>1, <1>3, <1>4, <1>9, <2>1 DEF Numbered
  <2>3. CASE rep[v0] \in path BY <1>3, <2>1, <2>2, <2>3
  <2>4. CASE rep[v0] \in ToSet(SS)
    <3>1. PICK p \in path : D[p] < D[rep[v0]] /\ reaches(rep[v0], p) BY <1>2, <2>4 DEF Reached
    <3>2. reaches(v0, p) BY <1>1, <2>1, <3>1, ReachTransitive DEF Types
    <3>3. D[p] < D[v0] BY <1>4, <1>9, <1>12, <2>1, <2>2, <3>1
    <3>4. p # v0 BY <1>4, <1>9, <3>3
    <3> QED BY <3>2, <3>3, <3>4
  <2> QED BY <1>1, <2>1, <2>3, <2>4 DEF Partition
<1>20. Reached'
  <2>1. \A p \in path', x \in open : D[p] <= D[x] => reaches(p, x) BY <1>2, <1>5 DEF Reached
  <2>2. ASSUME NEW x \in ToSet(SS') PROVE \E p \in path' : D[p] < D[x] /\ reaches(x, p)
    <3>1. CASE x = v0 BY <1>5, <1>19, <3>1
    <3>2. CASE x \in ToSet(SS)
      <4>1. PICK p \in path : D[p] < D[x] /\ reaches(x, p) BY <1>2, <3>2 DEF Reached
      <4>2. CASE p = v0
        <5>1. reaches(x, q) BY <1>1, <1>19, <4>1, <4>2, ReachTransitive DEF Types
        <5>2. D[q] < D[x] BY <1>9, <1>12, <1>19, <3>2, <4>1, <4>2
        <5> QED BY <1>5, <1>19, <5>1, <5>2
      <4>3. CASE p # v0 BY <1>5, <4>1, <4>3
      <4> QED BY <4>2, <4>3
    <3> QED BY <1>8, <3>1, <3>2
  <2>3. /\ \A x \in visited : reaches(x, rep[x]) /\ D[rep[x]] <= D[x]
        /\ \A x \in open : rep[x] \in open
    BY <1>2 DEF Reached
  <2> QED BY <1>5, <1>7, <1>11, <2>1, <2>2, <2>3 DEF Reached
<1>21. \A y \in children(v0) : followed(v0, y) BY <1>2, <1>4, <1>5 DEF Followed
<1>22. Followed'
  <2>1. \A x \in ToSet(SS') : \A y \in children(x) : followed(x, y) BY <1>2, <1>8, <1>21 DEF Followed
  <2>2. \A i \in 1 .. n0 - 1 : \A y \in children(frames'[i].v) \ frames'[i].todo : followed(frames[i].v, y)
    BY <1>2, <1>5 DEF Followed
  <2> QED BY <1>5, <1>7, <1>10, <2>1, <2>2 DEF Followed, followed
<1>23. \A x \in ToSet(SS) : D[v0] < D[x] => D[rep[v0]] <= D[rep[x]] BY <1>2, <1>4, <1>5 DEF Lowest
<1>24. Lowest'
  <2>1. ASSUME NEW i \in 1 .. n0 - 1
        PROVE  /\ frames[i].at # {}
               /\ \A c \in frames[i].at :
                    /\ \A x \in ToSet(SS') : D[frames[i].v] < D[x] /\ D[x] < D[c]
                                               => D[rep[frames[i].v]] <= D[rep[x]]
                    /\ c \in ToSet(SS') => \A x \in ToSet(SS') : D[c] <= D[x] => D[rep[c]] <= D[rep[x]]
                    /\ c \in inSCC => \A x \in open : D[x] < D[c]
    <3>1. frames[i].at = {frames[i + 1].v} /\ i + 1 \in 1 .. n0 /\ i \in 1 .. n0 BY <1>5, <1>6
    <3> DEFINE c == frames[i + 1].v
    <3>2. c \in path /\ c \in visited BY <1>13, <3>1
    <3>3. D[c] <= D[v0] BY <1>4, <1>6, <1>9, <3>2
    <3>4. frames[i].at = {c} BY <3>1
    <3> HIDE DEF c
    <3>5. \A x \in ToSet(SS') : D[frames[i].v] < D[x] /\ D[x] < D[c] => D[rep[frames[i].v]] <= D[rep[x]]
      <4>1. \A x \in ToSet(SS) : D[frames[i].v] < D[x] /\ D[x] < D[c] => D[rep[frames[i].v]] <= D[rep[x]]
        BY <1>2, <1>5, <3>1, <3>4 DEF Lowest
      <4>2. ~ (D[v0] < D[c]) BY <1>4, <1>9, <3>2, <3>3
      <4> QED BY <1>8, <4>1, <4>2
    <3>6. ASSUME c \in ToSet(SS'), NEW x \in ToSet(SS'), D[c] <= D[x] PROVE D[rep[c]] <= D[rep[x]]
      <4>1. c = v0 BY <1>1, <1>8, <3>2, <3>6 DEF Partition
      <4>2. CASE x = v0 BY <1>4, <1>9, <4>1, <4>2
      <4>3. CASE x \in ToSet(SS)
        <5>1. x # v0 /\ x \in visited BY <1>4, <1>12, <4>3
        <5>2. D[x] # D[v0] BY <1>1, <1>4, <5>1 DEF Numbered
        <5>3. D[v0] < D[x] BY <1>4, <1>9, <3>6, <4>1, <5>1, <5>2
        <5> QED BY <1>23, <4>1, <4>3, <5>3
      <4> QED BY <1>8, <4>2, <4>3
    <3>7. c \notin inSCC BY <1>12, <3>2 DEF open
    <3> QED BY <3>4, <3>5, <3>6, <3>7
  <2> QED BY <1>5, <1>7, <2>1 DEF Lowest
<1>25. Complete' BY <1>2, <1>5, <1>7, <1>10 DEF Complete
<1>26. SubNodesKept' BY <1>2, <1>5, <1>7 DEF SubNodesKept
<1> QED BY <1>14, <1>15, <1>16, <1>17, <1>18, <1>20, <1>22, <1>24, <1>25, <1>26 DEF SearchInv

\* the component that is complete when the innermost call ends
named == {v0} \cup members

\* What is open and was visited no earlier than its root is the component of each of its nodes,
\* and leads to nothing but itself and complete components.
LEMMA Component ==
  ASSUME SearchInv, LeftComplete
  PROVE  /\ named = {x \in open : D[v0] <= D[x]}
         /\ \A x \in named : children(x) \subseteq inSCC \cup named
         /\ \A x \in named : Abstract!component(graph, x) = named
         /\ Abstract!reach(graph, {v0}) \subseteq named \cup inSCC
         /\ \A x \in named : D[v0] <= D[rep[x]]
<1>1. Types /\ Numbered /\ Partition /\ Children /\ Reached /\ Followed /\ Lowest /\ Complete
  BY DEF SearchInv
<1>2. Left /\ rep[v0] = v0 BY DEF LeftComplete
<1>3. /\ n0 \in Nat /\ n0 \in 1 .. n0 /\ v0 = frames[n0].v /\ v0 \in Nodes
      /\ v0 \in path /\ v0 \in open /\ v0 \in visited /\ v0 \notin inSCC /\ v0 \notin ToSet(SS)
  BY <1>2, InnermostCall DEF Left
<1>4. /\ DOMAIN frames = 1 .. n0 /\ frames[n0].todo = {} /\ frames[n0].at = {}
      /\ \A p \in path : p = v0 \/ D[p] < D[v0]
  BY <1>2, LeftCalls
<1>5. /\ I \in Nat /\ \A x \in visited : D[x] \in 1 .. I /\ rep[x] \in visited /\ D[rep[x]] \in 1 .. I
  BY <1>1, Numbers
<1>6. ToSet(SS) \subseteq open /\ path \subseteq open /\ open \subseteq visited /\ inSCC \subseteq visited
      /\ visited \subseteq Nodes /\ graph \subseteq Nodes \X Nodes /\ open \cap inSCC = {}
  BY <1>1 DEF Partition, open, Types
<1>7. named \subseteq open /\ v0 \in named BY <1>3, <1>6 DEF named, members
<1>8. named = {x \in open : D[v0] <= D[x]}
  <2>1. ASSUME NEW x \in named PROVE D[v0] <= D[x]
    <3>1. x = v0 \/ D[v0] < D[x] BY DEF named, members
    <3> QED BY <1>3, <1>5, <1>6, <1>7, <3>1
  <2>2. ASSUME NEW x \in open, D[v0] <= D[x] PROVE x \in named
    <3>1. CASE x \in path
      <4>1. x = v0 BY <1>3, <1>4, <1>5, <1>6, <2>2, <3>1
      <4> QED BY <1>7, <4>1
    <3>2. CASE x \in ToSet(SS)
      <4>1. D[x] # D[v0] BY <1>1, <1>3, <1>6, <3>2 DEF Numbered
      <4>2. D[v0] < D[x] BY <1>3, <1>5, <1>6, <2>2, <4>1
      <4> QED BY <3>2, <4>2 DEF named, members
    <3> QED BY <1>1, <3>1, <3>2 DEF Partition
  <2> QED BY <1>7, <2>1, <2>2
<1>9. ASSUME NEW x \in named PROVE D[v0] <= D[rep[x]]
  <2>1. CASE x = v0 BY <1>2, <1>3, <1>5, <2>1
  <2>2. CASE x \in ToSet(SS) /\ D[v0] < D[x]
    <3>1. D[rep[v0]] <= D[rep[x]] BY <1>1, <1>3, <1>4, <2>2 DEF Lowest
    <3> QED BY <1>2, <3>1
  <2> QED BY <2>1, <2>2 DEF named, members
<1>10. ASSUME NEW x \in named, NEW y \in children(x) PROVE y \in inSCC \cup named
  <2>1. followed(x, y)
    <3>1. CASE x = v0 BY <1>1, <1>3, <1>4, <3>1 DEF Followed
    <3>2. CASE x \in ToSet(SS) BY <1>1, <3>2 DEF Followed
    <3> QED BY <3>1, <3>2 DEF named, members
  <2>2. y \in visited /\ (y \in inSCC \/ D[rep[x]] <= D[y]) BY <2>1 DEF followed
  <2>3. CASE y \in inSCC BY <2>3
  <2>4. CASE y \notin inSCC
    <3>1. D[v0] <= D[rep[x]] /\ D[rep[x]] <= D[y] BY <1>9, <2>2, <2>4
    <3>2. D[v0] <= D[y] BY <1>3, <1>5, <1>6, <1>7, <2>2, <3>1
    <3> QED BY <1>8, <2>2, <2>4, <3>2 DEF open
  <2> QED BY <2>3, <2>4
<1>11. \A x \in named : reaches(v0, x) BY <1>1, <1>3, <1>8 DEF Reached
<1>12. ASSUME NEW x \in named PROVE reaches(x, v0)
  <2>1. CASE x = v0 BY <1>11, <2>1
  <2>2. CASE x \in ToSet(SS)
    <3>1. PICK p \in path : reaches(x, p) BY <1>1, <2>2 DEF Reached
    <3>2. D[p] <= D[v0] BY <1>3, <1>4, <1>5, <1>6
    <3>3. reaches(p, v0) BY <1>1, <1>3, <3>2 DEF Reached
    <3> QED BY <1>6, <3>1, <3>3, ReachTransitive
  <2> QED BY <2>1, <2>2 DEF named, members
<1>13. \A e \in graph : e[1] \in named \cup inSCC => e[2] \in named \cup inSCC
  <2>1. \A e \in graph : e[2] \in children(e[1]) BY DEF children
  <2> QED BY <1>1, <1>10, <2>1 DEF Complete
<1>14. \A e \in graph : e[1] \in inSCC => e[2] \in inSCC
  <2>1. \A e \in graph : e[2] \in children(e[1]) BY DEF children
  <2> QED BY <1>1, <2>1 DEF Complete
<1>15. \A x \in named : Abstract!reach(graph, {x}) \subseteq named \cup inSCC
  <2>1. named \cup inSCC \in SUBSET Nodes BY <1>6, <1>7
  <2> QED BY <1>13, <2>1, ReachLeast
<1>16. \A x \in inSCC : Abstract!reach(graph, {x}) \subseteq inSCC
  <2>1. inSCC \in SUBSET Nodes BY <1>6
  <2> QED BY <1>14, <2>1, ReachLeast
<1>17. ASSUME NEW x \in named PROVE Abstract!component(graph, x) = named
  <2>1. ASSUME NEW y \in named PROVE y \in Abstract!component(graph, x)
    <3>1. reaches(x, y) /\ reaches(y, x) BY <1>6, <1>11, <1>12, ReachTransitive
    <3> QED BY <3>1 DEF Abstract!component, reaches
  <2>2. ASSUME NEW y \in Abstract!component(graph, x) PROVE y \in named
    <3>1. y \in Abstract!reach(graph, {x}) /\ x \in Abstract!reach(graph, {y}) BY DEF Abstract!component
    <3>2. y \in named \cup inSCC BY <1>15, <3>1
    <3>3. y \notin inSCC BY <1>6, <1>7, <1>16, <3>1
    <3> QED BY <3>2, <3>3
  <2> QED BY <2>1, <2>2
<1> QED BY <1>7, <1>8, <1>9, <1>10, <1>15, <1>17

LEMMA CompleteKeeps ==
  ASSUME SearchInv, LeftComplete
  PROVE  SearchInv'
<1>1. Types /\ Numbered /\ Partition /\ Children /\ Stacked BY DEF SearchInv
<1>2. Reached /\ Followed /\ Lowest /\ Complete /\ SubNodesKept BY DEF SearchInv
<1>3. Left /\ rep[v0] = v0 BY DEF LeftComplete
<1>4. /\ n0 \in Nat /\ n0 \in 1 .. n0 /\ v0 = frames[n0].v /\ v0 \in Nodes
      /\ v0 \in path /\ v0 \in open /\ v0 \in visited /\ v0 \notin inSCC /\ v0 \notin ToSet(SS)
      /\ \A i \in 1 .. n0 : i < n0 => D[frames[i].v] < D[v0] /\ frames[i].v # v0
  BY <1>3, InnermostCall DEF Left
<1>5. /\ n0' = n0 - 1 /\ DOMAIN frames' = 1 .. n0 - 1 /\ DOMAIN frames = 1 .. n0
      /\ \A i \in 1 .. n0 - 1 : i \in 1 .. n0 /\ i < n0 /\ frames'[i] = frames[i]
      /\ path' = path \ {v0} /\ graph' = graph /\ I' = I /\ D' = D /\ visited' = visited
      /\ frames[n0].todo = {} /\ frames[n0].at = {}
  BY <1>3, LeftCalls
<1>6. /\ \A i \in 1 .. n0 - 1 : i < n0 - 1 => i + 1 \in 1 .. n0 - 1
      /\ \A i \in 1 .. n0 - 1 : frames[i].at = {frames[i + 1].v} /\ i + 1 \in 1 .. n0
      /\ \A i \in 1 .. n0 - 1 : i = n0 - 1 => frames[i].at = {v0}
      /\ \A p \in path : p = v0 \/ D[p] < D[v0]
  BY <1>3, LeftCalls
<1>7. /\ named = {x \in open : D[v0] <= D[x]}
      /\ \A x \in named : children(x) \subseteq inSCC \cup named
      /\ \A x \in named : Abstract!component(graph, x) = named
      /\ \A x \in named : D[v0] <= D[rep[x]]
  BY Component
<1>8. /\ I \in Nat /\ \A x \in visited : D[x] \in 1 .. I /\ rep[x] \in visited /\ D[rep[x]] \in 1 .. I
  BY <1>1, Numbers
<1>9. ToSet(SS) \subseteq open /\ path \subseteq open /\ open \subseteq visited /\ inSCC \subseteq visited
      /\ visited \subseteq Nodes /\ open \cap inSCC = {} /\ open \cup inSCC = visited
  BY <1>1 DEF Partition, open, Types
<1>10. named \subseteq open /\ v0 \in named /\ members = named \ {v0} /\ members \subseteq ToSet(SS)
  BY <1>4, <1>7, <1>8 DEF named, members
<1>11. /\ inSCC' = inSCC \cup named /\ open' = open \ named
       /\ \A x \in open' : D[x] < D[v0]
       /\ ToSet(SS') = ToSet(SS) \ named
  <2>1. inSCC' = inSCC \cup named BY DEF LeftComplete, named
  <2>2. open' = open \ named BY <1>5, <2>1 DEF open
  <2>3. \A x \in open' : D[x] < D[v0] BY <1>4, <1>7, <1>8, <1>9, <2>2
  <2>4. ToSet(SS') = ToSet(SS) \ named BY <1>4, <1>10 DEF LeftComplete
  <2> QED BY <2>1, <2>2, <2>3, <2>4
<1>12. /\ rep' \in [visited -> visited]
       /\ \A x \in named : rep'[x] = v0
       /\ \A x \in visited \ named : rep'[x] = rep[x]
  BY <1>3, <1>9, <1>10 DEF LeftComplete
<1>13. \A x : children(x)' = children(x) BY <1>5 DEF children
<1>14. \A x, y : reaches(x, y)' <=> reaches(x, y) BY <1>5 DEF reaches
<1>15. \A i \in 1 .. n0 : frames[i].v \in path /\ frames[i].v \in visited BY <1>1, PathVisited
<1>16. SS' \in Seq(Nodes) /\ Len(SS') <= Len(SS) /\ \A i \in 1 .. Len(SS') : SS'[i] = SS[i]
  BY DEF LeftComplete
<1>17. T' \in Seq(Nodes) /\ ToSet(T') \subseteq inSCC'
  <2>1. T' = Append(T, v0) /\ T \in Seq(Nodes) /\ ToSet(T) \subseteq inSCC BY <1>1 DEF LeftComplete, Types
  <2>2. T' \in Seq(Nodes) /\ ToSet(T') = ToSet(T) \cup {v0} BY <1>4, <2>1, Pushed
  <2> QED BY <1>10, <1>11, <2>1, <2>2
<1>18. Types'
  <2>1. subNodes' \in [Nodes -> SUBSET Nodes]
    <3>1. subNodes' = represents(subNodes, members, v0) BY DEF LeftComplete
    <3>2. subNodes \in [Nodes -> SUBSET Nodes] /\ members \subseteq Nodes BY <1>1, <1>9, <1>10 DEF Types
    <3> QED BY <3>1, <3>2, RepresentsType
  <2>2. repNodes' \subseteq visited BY <1>1, <1>4 DEF LeftComplete, Types
  <2>3. frames' \in Seq(Call) BY <1>3 DEF Left
  <2>4. inSCC' \subseteq visited BY <1>9, <1>10, <1>11
  <2> QED BY <1>1, <1>5, <1>12, <1>16, <1>17, <2>1, <2>2, <2>3, <2>4 DEF Types
<1>19. Numbered' BY <1>1, <1>5 DEF Numbered
<1>20. Partition'
  <2>1. path \cap named = {v0}
    <3>1. \A p \in path : p # v0 => ~ (D[v0] <= D[p]) BY <1>4, <1>6, <1>8, <1>9
    <3> QED BY <1>4, <1>7, <1>10, <3>1
  <2> QED BY <1>1, <1>5, <1>9, <1>11, <2>1 DEF Partition
<1>21. Children'
  <2> SUFFICES ASSUME NEW i \in 1 .. n0 - 1
               PROVE  /\ frames'[i].todo \subseteq children(frames'[i].v)
                      /\ frames'[i].at \subseteq frames'[i].todo
                      /\ i < n0 - 1 => frames'[i].at = {frames'[i + 1].v}
                      /\ i = n0 - 1 => \E c \in visited' \ path' :
                                         frames'[i].at = {c} /\ D'[frames'[i].v] < D'[c]
    BY <1>5, <1>13 DEF Children, n0
  <2>1. /\ frames[i].todo \subseteq children(frames[i].v) /\ frames[i].at \subseteq frames[i].todo
        /\ frames'[i] = frames[i]
    BY <1>1, <1>5 DEF Children
  <2>2. i < n0 - 1 => frames'[i].at = {frames'[i + 1].v} BY <1>5, <1>6
  <2>3. D[frames[i].v] < D[v0] BY <1>4, <1>5
  <2> QED BY <1>4, <1>5, <1>6, <2>1, <2>2, <2>3
<1>22. Stacked'
  <2>1. /\ DOMAIN SS = 1 .. Len(SS) /\ DOMAIN SS' = 1 .. Len(SS')
        /\ \A i \in DOMAIN SS' : i \in DOMAIN SS /\ SS'[i] = SS[i]
    <3>1. SS \in Seq(Nodes) /\ SS' \in Seq(Nodes) BY <1>1, <1>16 DEF Types
    <3>2. DOMAIN SS = 1 .. Len(SS) /\ DOMAIN SS' = 1 .. Len(SS') BY <3>1
    <3>3. Len(SS) \in Nat /\ Len(SS') \in Nat /\ Len(SS') <= Len(SS) BY <1>16, <3>1
    <3>4. \A i \in 1 .. Len(SS') : i \in 1 .. Len(SS) BY <3>3
    <3> QED BY <1>16, <3>2, <3>4
  <2> QED BY <1>1, <1>5, <2>1 DEF Stacked
<1>23. Reached'
  <2>1. \A p \in path', x \in open' : D[p] <= D[x] => reaches(p, x) BY <1>2, <1>5, <1>11 DEF Reached
  <2>2. ASSUME NEW x \in ToSet(SS') PROVE \E p \in path' : D[p] < D[x] /\ reaches(x, p)
    <3>1. PICK p \in path : D[p] < D[x] /\ reaches(x, p) BY <1>2, <1>11 DEF Reached
    <3>2. x \in open' BY <1>9, <1>11
    <3>3. D[x] < D[v0] /\ x \in visited BY <1>9, <1>11, <3>2
    <3>4. p # v0 BY <1>4, <1>8, <3>1, <3>3
    <3> QED BY <1>5, <3>1, <3>4
  <2>3. ASSUME NEW x \in visited PROVE reaches(x, rep'[x]) /\ D[rep'[x]] <= D[x]
    <3>1. CASE x \in named
      <4>1. rep'[x] = v0 /\ D[v0] <= D[x] BY <1>7, <1>12, <3>1
      <4>2. v0 \in Abstract!component(graph, x) BY <1>7, <1>10, <3>1
      <4> QED BY <4>1, <4>2 DEF reaches, Abstract!component
    <3>2. CASE x \notin named BY <1>2, <1>12, <3>2 DEF Reached
    <3> QED BY <3>1, <3>2
  <2>4. ASSUME NEW x \in open' PROVE rep'[x] \in open'
    <3>1. rep'[x] = rep[x] /\ x \in visited /\ x \in open BY <1>9, <1>11, <1>12
    <3>2. rep[x] \in open /\ D[rep[x]] <= D[x] BY <1>2, <3>1 DEF Reached
    <3>3. D[rep[x]] < D[v0] BY <1>4, <1>8, <1>11, <3>1, <3>2
    <3>4. rep[x] \notin named BY <1>4, <1>7, <1>8, <3>1, <3>3
    <3> QED BY <1>11, <3>1, <3>2, <3>4
  <2> QED BY <1>5, <1>14, <2>1, <2>2, <2>3, <2>4 DEF Reached
<1>24. ASSUME NEW x \in visited \ named, NEW y, followed(x, y)
       PROVE  y \in visited /\ (y \in inSCC' \/ D[rep'[x]] <= D[y])
  BY <1>11, <1>12, <1>24 DEF followed
<1>25. Followed'
  <2>1. \A x \in ToSet(SS') : \A y \in children(x) : y \in visited /\ (y \in inSCC' \/ D[rep'[x]] <= D[y])
    BY <1>2, <1>9, <1>11, <1>24 DEF Followed
  <2>2. ASSUME NEW i \in 1 .. n0 - 1, NEW y \in children(frames'[i].v), y \notin frames'[i].todo
        PROVE  y \in visited /\ (y \in inSCC' \/ D[rep'[frames[i].v]] <= D[y])
    <3>1. followed(frames[i].v, y) BY <1>2, <1>5, <2>2 DEF Followed
    <3>2. frames[i].v \in visited /\ D[frames[i].v] < D[v0] BY <1>4, <1>5, <1>15
    <3>3. frames[i].v \notin named BY <1>4, <1>7, <1>8, <3>2
    <3> QED BY <1>24, <3>1, <3>2, <3>3
  <2> QED BY <1>5, <1>13, <2>1, <2>2 DEF Followed, followed
<1>26. Lowest'
  <2>1. ASSUME NEW i \in 1 .. n0 - 1
        PROVE  /\ frames[i].at # {}
               /\ \A c \in frames[i].at :
                    /\ \A x \in ToSet(SS') : D[frames[i].v] < D[x] /\ D[x] < D[c]
                                               => D[rep'[frames[i].v]] <= D[rep'[x]]
                    /\ c \notin ToSet(SS')
                    /\ c \in inSCC' => \A x \in open' : D[x] < D[c]
    <3>1. frames[i].at = {frames[i + 1].v} /\ i + 1 \in 1 .. n0 /\ i \in 1 .. n0 BY <1>5, <1>6
    <3> DEFINE c == frames[i + 1].v
    <3>2. c \in path /\ c \in visited /\ frames[i].v \in visited BY <1>15, <3>1
    <3>3. frames[i].at = {c} BY <3>1
    <3> HIDE DEF c
    <3>4. frames[i].v \notin named
      <4>1. D[frames[i].v] < D[v0] BY <1>4, <1>5
      <4> QED BY <1>4, <1>7, <1>8, <3>2, <4>1
    <3>5. rep'[frames[i].v] = rep[frames[i].v] BY <1>12, <3>2, <3>4
    <3>6. \A x \in ToSet(SS') : x \in ToSet(SS) /\ rep'[x] = rep[x] BY <1>9, <1>11, <1>12
    <3>7. \A x \in ToSet(SS) : D[frames[i].v] < D[x] /\ D[x] < D[c] => D[rep[frames[i].v]] <= D[rep[x]]
      BY <1>2, <1>5, <3>1, <3>3 DEF Lowest
    <3>8. c \notin ToSet(SS') BY <1>1, <1>11, <3>2 DEF Partition
    <3>9. c \in inSCC' => \A x \in open' : D[x] < D[c]
      <4>1. ASSUME c \in inSCC' PROVE c = v0
        <5>1. c \in named BY <1>9, <1>11, <3>2, <4>1
        <5>2. D[v0] <= D[c] BY <1>7, <5>1
        <5> QED BY <1>4, <1>6, <1>8, <3>2, <5>2
      <4> QED BY <1>11, <4>1
    <3> QED BY <3>3, <3>5, <3>6, <3>7, <3>8, <3>9
  <2> QED BY <1>5, <2>1 DEF Lowest
<1>27. Complete'
  <2>1. ASSUME NEW x \in inSCC' PROVE children(x) \subseteq inSCC' BY <1>2, <1>7, <1>11 DEF Complete
  <2>2. ASSUME NEW x \in inSCC'
        PROVE  /\ rep'[x] \in inSCC' /\ rep'[rep'[x]] = rep'[x]
               /\ Abstract!component(graph, x) = {y \in inSCC' : rep'[y] = rep'[x]}
    <3>1. \A y \in inSCC : rep'[y] = rep[y] /\ rep[y] \in inSCC /\ rep'[rep[y]] = rep[y]
      BY <1>2, <1>9, <1>10, <1>12 DEF Complete
    <3>2. v0 \notin inSCC BY <1>4
    <3>3. CASE x \in named
      <4>1. {y \in inSCC' : rep'[y] = rep'[x]} = named BY <1>11, <1>12, <3>1, <3>2, <3>3
      <4> QED BY <1>7, <1>10, <1>11, <1>12, <3>3, <4>1
    <3>4. CASE x \in inSCC
      <4>1. Abstract!component(graph, x) = {y \in inSCC : rep[y] = rep[x]} BY <1>2, <3>4 DEF Complete
      <4>2. {y \in inSCC' : rep'[y] = rep'[x]} = {y \in inSCC : rep[y] = rep[x]}
        BY <1>11, <1>12, <3>1, <3>2, <3>4
      <4> QED BY <1>11, <3>1, <3>4, <4>1, <4>2
    <3> QED BY <1>11, <3>3, <3>4
  <2> QED BY <1>5, <1>13, <2>1, <2>2 DEF Complete
<1>28. SubNodesKept'
  <2>1. subNodes' = represents(subNodes, members, v0)
        /\ repNodes' = IF members = {} THEN repNodes ELSE (repNodes \ members) \cup {v0}
    BY DEF LeftComplete
  <2>2. /\ subNodes'[v0] = subNodes[v0] \cup members
        /\ \A n \in members : subNodes'[n] = {}
        /\ \A n \in Nodes \ named : subNodes'[n] = subNodes[n]
    BY <1>4, <1>9, <1>10, <2>1 DEF represents
  <2>3. \A n \in Nodes \ visited : subNodes'[n] = {} BY <1>2, <1>9, <1>10, <2>2 DEF SubNodesKept
  <2>4. \A y \in inSCC : rep'[y] = rep[y] /\ rep[y] \in inSCC BY <1>2, <1>9, <1>10, <1>12 DEF Complete
  <2>5. subNodes'[v0] = named
    <3>1. v0 \in subNodes[v0] BY <1>2, <1>3, <1>4 DEF SubNodesKept
    <3>2. subNodes[v0] \subseteq named BY <1>2, <1>4, <1>7 DEF SubNodesKept
    <3> QED BY <1>10, <2>2, <3>1, <3>2
  <2>6. ASSUME NEW n \in inSCC'
        PROVE  /\ subNodes'[n] = {x \in inSCC' : rep'[x] = n}
               /\ n \in repNodes' <=> \E x \in subNodes'[n] : x # n
    <3>1. CASE n = v0
      <4>1. {x \in inSCC' : rep'[x] = n} = named BY <1>4, <1>11, <1>12, <2>4, <3>1
      <4>2. n \in repNodes' <=> \E x \in named : x # n
        <5>1. CASE members = {}
          <6>1. v0 \notin repNodes
            <7>1. v0 \in repNodes => \E x \in subNodes[v0] : x # v0 BY <1>2, <1>4 DEF SubNodesKept
            <7>2. subNodes[v0] \subseteq named BY <2>2, <2>5
            <7> QED BY <1>10, <5>1, <7>1, <7>2
          <6> QED BY <1>10, <2>1, <3>1, <5>1, <6>1
        <5>2. CASE members # {} BY <1>10, <2>1, <3>1, <5>2
        <5> QED BY <5>1, <5>2
      <4> QED BY <2>5, <3>1, <4>1, <4>2
    <3>2. CASE n \in members
      <4>1. \A x \in inSCC' : rep'[x] # n BY <1>9, <1>10, <1>11, <1>12, <2>4, <3>2
      <4>2. n \notin repNodes' BY <1>10, <2>1, <3>2
      <4> QED BY <2>2, <3>2, <4>1, <4>2
    <3>3. CASE n \in inSCC
      <4>1. n \notin named /\ n \in Nodes BY <1>9, <1>10, <3>3
      <4>2. subNodes'[n] = subNodes[n] BY <2>2, <4>1
      <4>3. {x \in inSCC' : rep'[x] = n} = {x \in inSCC : rep[x] = n}
        BY <1>10, <1>11, <1>12, <2>4, <4>1
      <4>4. n \in repNodes' <=> n \in repNodes BY <1>10, <2>1, <4>1
      <4> QED BY <1>2, <3>3, <4>2, <4>3, <4>4 DEF SubNodesKept
    <3> QED BY <1>10, <1>11, <3>1, <3>2, <3>3
  <2>7. ASSUME NEW n \in open'
        PROVE  /\ \A x \in subNodes'[n] : x \in open' /\ D[rep'[x]] <= D[n] /\ D[n] <= D[x]
               /\ rep'[n] = n => n \in subNodes'[n]
               /\ n \in repNodes' => \E x \in subNodes'[n] : x # n
    <3>1. n \in open /\ n \notin named /\ n \in visited /\ n \in Nodes /\ D[n] < D[v0] BY <1>9, <1>11
    <3>2. subNodes'[n] = subNodes[n] /\ rep'[n] = rep[n] BY <1>12, <2>2, <3>1
    <3>3. \A x \in subNodes[n] : x \in open /\ D[rep[x]] <= D[n] /\ D[n] <= D[x]
      BY <1>2, <3>1 DEF SubNodesKept
    <3>4. ASSUME NEW x \in subNodes[n] PROVE x \notin named
      <4>1. x \in visited /\ D[rep[x]] < D[v0] BY <1>4, <1>8, <1>9, <3>1, <3>3
      <4>2. ~ (D[v0] <= D[rep[x]]) BY <1>4, <1>8, <4>1
      <4> QED BY <1>7, <4>2
    <3>5. \A x \in subNodes[n] : x \in open' /\ rep'[x] = rep[x] BY <1>9, <1>11, <1>12, <3>3, <3>4
    <3>6. n \in repNodes' => n \in repNodes BY <1>10, <2>1, <3>1
    <3> QED BY <1>2, <3>1, <3>2, <3>3, <3>5, <3>6 DEF SubNodesKept
  <2> QED BY <1>5, <2>3, <2>6, <2>7 DEF SubNodesKept
<1> QED BY <1>18, <1>19, <1>20, <1>21, <1>22, <1>23, <1>25, <1>26, <1>27, <1>28 DEF SearchInv

-----------------------------------------------------------------------------
(* The invariant holds *)

LEMMA InitSearch == Init => SearchInv
<1> SUFFICES ASSUME Init PROVE SearchInv OBVIOUS
<1>1. /\ graph \in Graphs /\ frames = <<>> /\ rep = <<>> /\ inSCC = {} /\ I = 0 /\ D = <<>>
      /\ SS = <<>> /\ T = <<>> /\ repNodes = {} /\ subNodes = [n \in Nodes |-> {}]
  BY DEF Init
<1>2. visited = {} /\ open = {} /\ DOMAIN frames = {} /\ DOMAIN SS = {} BY <1>1 DEF visited, open
<1>3. path = {} /\ ToSet(SS) = {} /\ ToSet(T) = {} BY <1>1, <1>2 DEF path, ToSet
<1>4. Types
  <2>1. graph \subseteq Nodes \X Nodes BY <1>1, GraphsAssumption
  <2>2. frames \in Seq(Call) /\ SS \in Seq(Nodes) /\ T \in Seq(Nodes) BY <1>1
  <2>3. D \in [visited -> 1 .. I] /\ rep \in [visited -> visited] BY <1>1, <1>2
  <2> QED BY <1>1, <1>2, <1>3, <2>1, <2>2, <2>3 DEF Types
<1>5. Numbered /\ Partition /\ Children /\ Stacked
  BY <1>2, <1>3, <1>1 DEF Numbered, Partition, Children, Stacked
<1>6. Reached /\ Followed /\ Lowest /\ Complete
  BY <1>2, <1>3, <1>1 DEF Reached, Followed, Lowest, Complete
<1>7. SubNodesKept BY <1>1, <1>2 DEF SubNodesKept
<1> QED BY <1>4, <1>5, <1>6, <1>7 DEF SearchInv

LEMMA FindSearch == ASSUME SearchInv, find PROVE SearchInv'
<1>1. Types /\ Numbered /\ Partition /\ Children /\ Stacked BY DEF SearchInv
<1>2. CASE visitRoot \/ visitChild BY <1>1, <1>2, EnterStep, EnteredKeeps
<1>3. CASE handleChild BY <1>1, <1>3, ReturnStep, ReturnedKeeps
<1>4. CASE completeSCC BY <1>1, <1>4, CompleteStep, CompleteKeeps
<1>5. CASE leaveMember BY <1>1, <1>5, WaitStep, WaitingKeeps
<1> QED BY <1>2, <1>3, <1>4, <1>5 DEF find

LEMMA AgainSearch == addEdgeAndFind => SearchInv'
<1>1. addEdgeAndFind => Init' BY DEF addEdgeAndFind, cleared, Init
<1> QED BY <1>1, InitSearch, PTL

LEMMA SameSearch == ASSUME SearchInv, UNCHANGED vars PROVE SearchInv'
<1>1. /\ graph' = graph /\ frames' = frames /\ rep' = rep /\ inSCC' = inSCC /\ subNodes' = subNodes
      /\ I' = I /\ D' = D /\ SS' = SS /\ T' = T /\ repNodes' = repNodes
  BY DEF vars
<1>2. visited' = visited /\ open' = open /\ path' = path BY <1>1 DEF visited, open, path
<1>3. \A x : children(x)' = children(x) BY <1>1 DEF children
<1>4. (Types /\ Numbered /\ Partition /\ Children /\ Stacked)'
  BY <1>1, <1>2, <1>3 DEF SearchInv, Types, Numbered, Partition, Children, Stacked
<1>5. (Reached /\ Followed /\ Lowest /\ Complete /\ SubNodesKept)'
  BY <1>1, <1>2, <1>3
  DEF SearchInv, Reached, Followed, Lowest, Complete, SubNodesKept, followed, reaches
<1> QED BY <1>4, <1>5 DEF SearchInv

LEMMA SearchAlways == Spec => []SearchInv
<1>1. SearchInv /\ [find \/ addEdgeAndFind \/ (done /\ UNCHANGED vars)]_vars => SearchInv'
  BY FindSearch, AgainSearch, SameSearch
<1> QED BY <1>1, InitSearch, PTL DEF Spec

\* The detection's maps and stacks are about visited nodes, a representative was visited no later
\* than what it represents, and calls of visit are at children of their nodes.
THEOREM DetectionTypes == Spec => []TypeOK
<1>1. SearchInv => TypeOK
  <2> SUFFICES ASSUME SearchInv PROVE TypeOK OBVIOUS
  <2>1. Types /\ Partition /\ Children /\ Reached BY DEF SearchInv
  <2>2. DOMAIN rep = visited /\ visited \subseteq Nodes /\ inSCC \subseteq visited
        /\ repNodes \subseteq visited /\ ToSet(T) \subseteq inSCC
    BY <2>1 DEF Types
  <2>3. \A x \in visited : rep[x] \in visited /\ D[rep[x]] <= D[x] /\ D[x] <= I
    BY <2>1, Numbers DEF Reached
  <2>4. ToSet(SS) \subseteq visited \ inSCC BY <2>1 DEF Partition, open
  <2>5. \A k \in DOMAIN frames : frames[k].todo \cup frames[k].at \subseteq children(frames[k].v)
    BY <2>1 DEF Children
  <2> QED BY <2>2, <2>3, <2>4, <2>5 DEF TypeOK
<1> QED BY <1>1, SearchAlways, PTL

-----------------------------------------------------------------------------
(* What is found *)

LEMMA VisitedFinite == ASSUME Types, Numbered PROVE IsFiniteSet(visited)
<1>1. D \in [visited -> 1 .. I] /\ I \in Nat /\ DOMAIN D = visited BY DEF Types
<1>2. \A a, b \in DOMAIN D : D[a] = D[b] => a = b BY <1>1 DEF Numbered
<1>3. D \in Injection(visited, 1 .. I) BY <1>1, <1>2 DEF Injection, IsInjective
<1>4. IsFiniteSet(1 .. I) BY <1>1, FS_Interval
<1> QED BY <1>3, <1>4, FS_Injection

LEMMA ManyElements ==
  ASSUME NEW S, NEW r \in S, IsFiniteSet(S)
  PROVE  Cardinality(S) > 1 <=> \E x \in S : x # r
<1>1. IsFiniteSet(S \ {r}) /\ Cardinality(S \ {r}) = Cardinality(S) - 1 BY FS_RemoveElement
<1>2. Cardinality(S) \in Nat BY FS_CardinalityType
<1>3. Cardinality(S \ {r}) = 0 <=> S \ {r} = {} BY <1>1, FS_EmptySet
<1>4. Cardinality(S \ {r}) \in Nat BY <1>1, FS_CardinalityType
<1>5. Cardinality(S) > 1 <=> S \ {r} # {} BY <1>1, <1>2, <1>3, <1>4
<1> QED BY <1>5

\* When the search is over every node is complete.
LEMMA AllComplete ==
  ASSUME SearchInv, done
  PROVE  visited = Nodes /\ inSCC = Nodes /\ open = {}
<1>1. frames = <<>> /\ visited = Nodes BY DEF done
<1>2. path = {} BY <1>1 DEF path
<1>3. ToSet(SS) = {} BY <1>2 DEF SearchInv, Reached
<1>4. open = {} BY <1>2, <1>3 DEF SearchInv, Partition
<1> QED BY <1>1, <1>4 DEF open, SearchInv, Types

\* Then a node has the representative of its component, with all of it as its sub-nodes.
LEMMA FoundComponents ==
  ASSUME SearchInv, done, NEW n \in Nodes
  PROVE  /\ rep[n] \in Nodes /\ rep[rep[n]] = rep[n]
         /\ Abstract!component(graph, n) = {y \in Nodes : rep[y] = rep[n]}
         /\ subNodes[n] = {x \in Nodes : rep[x] = n}
         /\ n \in repNodes <=> \E x \in subNodes[n] : x # n
BY AllComplete DEF SearchInv, Complete, SubNodesKept

LEMMA SubNodesFinite ==
  ASSUME SearchInv, done, NEW n \in Nodes
  PROVE  IsFiniteSet(subNodes[n])
<1>1. IsFiniteSet(Nodes) BY AllComplete, VisitedFinite DEF SearchInv
<1>2. subNodes[n] \in SUBSET Nodes BY FoundComponents
<1> QED BY <1>1, <1>2, FS_Subset

LEMMA SubNodesFound ==
  ASSUME SearchInv
  PROVE  SubNodesExact
<1> SUFFICES ASSUME done
             PROVE  /\ \A n \in Nodes : subNodes[n] = IF rep[n] = n THEN Abstract!component(graph, n) ELSE {}
                    /\ repNodes = {r \in Nodes : rep[r] = r /\ Cardinality(subNodes[r]) > 1}
  BY DEF SubNodesExact
<1>1. ASSUME NEW n \in Nodes, rep[n] = n PROVE subNodes[n] = Abstract!component(graph, n)
  BY <1>1, FoundComponents
<1>2. ASSUME NEW n \in Nodes, rep[n] # n PROVE subNodes[n] = {}
  <2>1. \A x \in Nodes : rep[x] # n BY <1>2, FoundComponents
  <2> QED BY <2>1, FoundComponents
<1>3. repNodes \subseteq Nodes BY DEF SearchInv, Types
<1>4. ASSUME NEW n \in Nodes PROVE n \in repNodes <=> rep[n] = n /\ Cardinality(subNodes[n]) > 1
  <2>1. n \in repNodes <=> \E x \in subNodes[n] : x # n BY FoundComponents
  <2>2. CASE rep[n] # n BY <1>2, <2>1, <2>2
  <2>3. CASE rep[n] = n
    <3>1. n \in subNodes[n] BY <2>3, FoundComponents
    <3>2. Cardinality(subNodes[n]) > 1 <=> \E x \in subNodes[n] : x # n
      BY <3>1, SubNodesFinite, ManyElements
    <3> QED BY <2>1, <2>3, <3>2
  <2> QED BY <2>2, <2>3
<1> QED BY <1>1, <1>2, <1>3, <1>4

\* In the end of every search a representative has exactly the nodes of its component as its
\* sub-nodes, and those with several are listed: mergeSccCycle merges all of a cycle and
\* nothing else.
THEOREM SubNodesAreExact == Spec => []SubNodesExact
BY SubNodesFound, SearchAlways, PTL

\* The way from a node to another begins with an edge.
LEMMA FirstStep ==
  ASSUME graph \subseteq Nodes \X Nodes, NEW n \in Nodes, NEW m, reaches(n, m), m # n
  PROVE  \E e \in graph : e[1] = n /\ reaches(e[2], m)
<1> DEFINE X == {z \in Nodes : z = n \/ \E e \in graph : e[1] = n /\ reaches(e[2], z)}
<1>1. ASSUME NEW e \in graph, e[1] \in X PROVE e[2] \in X
  <2>1. e[1] \in Nodes /\ e[2] \in Nodes BY <1>1
  <2>2. CASE e[1] = n
    <3>1. reaches(e[2], e[2]) BY <2>1, ReachSelf
    <3> QED BY <2>1, <2>2, <3>1
  <2>3. CASE e[1] # n
    <3>1. PICK d \in graph : d[1] = n /\ reaches(d[2], e[1]) BY <1>1, <2>3
    <3>2. reaches(d[2], e[2]) BY <3>1, ReachClosed DEF reaches
    <3> QED BY <2>1, <3>1, <3>2
  <2> QED BY <2>2, <2>3
<1>2. X \in SUBSET Nodes /\ {n} \subseteq X OBVIOUS
<1> HIDE DEF X
<1>3. Abstract!reach(graph, {n}) \subseteq X BY <1>1, <1>2, ReachLeast
<1>4. m \in X BY <1>3 DEF reaches
<1> QED BY <1>4 DEF X

LEMMA CyclesAre ==
  ASSUME SearchInv
  PROVE  CyclesFound
<1> SUFFICES ASSUME done, NEW n \in Nodes PROVE isInCycle(n) <=> Abstract!onCycle(graph, n)
  BY DEF CyclesFound
<1> DEFINE r == rep[n]
           C == subNodes[r]
<1>1. graph \subseteq Nodes \X Nodes BY DEF SearchInv, Types
<1>2. r \in Nodes /\ rep[r] = r /\ C = {y \in Nodes : rep[y] = r} BY FoundComponents
<1>3. Abstract!component(graph, n) = C BY <1>2, FoundComponents
<1>4. \A x \in Nodes : x \in C <=> reaches(n, x) /\ reaches(x, n)
  <2>1. \A x : x \in Abstract!component(graph, n) <=> reaches(n, x) /\ reaches(x, n)
    BY DEF Abstract!component, reaches
  <2> QED BY <1>3, <2>1
<1>5. r \in C /\ n \in C /\ IsFiniteSet(C) BY <1>2, SubNodesFinite
<1>6. Cardinality(C) > 1 <=> \E x \in C : x # r BY <1>5, ManyElements
<1>7. isInCycle(n) <=> (\E x \in C : x # r) \/ r \in children(r)
  BY <1>6 DEF isInCycle, repNode
<1>8. Abstract!onCycle(graph, n) <=> \E e \in graph : e[1] = n /\ reaches(e[2], n)
  BY DEF Abstract!onCycle, reaches
<1>9. C \subseteq Nodes BY <1>2
<1> HIDE DEF C, r
<1>10. ASSUME isInCycle(n) PROVE Abstract!onCycle(graph, n)
  <2>1. CASE \E m \in C : m # n
    <3>1. PICK m \in C : m # n BY <2>1
    <3>2. reaches(n, m) /\ reaches(m, n) BY <1>4, <1>9, <3>1
    <3>3. PICK e \in graph : e[1] = n /\ reaches(e[2], m) BY <1>1, <3>1, <3>2, FirstStep
    <3>4. reaches(e[2], n) BY <1>1, <3>2, <3>3, ReachTransitive
    <3> QED BY <1>8, <3>3, <3>4
  <2>2. CASE \A m \in C : m = n
    <3>1. r = n /\ n \in children(n) BY <1>5, <1>7, <1>10, <2>2
    <3>2. PICK e \in graph : e[1] = n /\ e[2] = n BY <3>1 DEF children
    <3>3. reaches(n, n) BY ReachSelf
    <3> QED BY <1>8, <3>2, <3>3
  <2> QED BY <2>1, <2>2
<1>11. ASSUME Abstract!onCycle(graph, n) PROVE isInCycle(n)
  <2>1. PICK e \in graph : e[1] = n /\ reaches(e[2], n) BY <1>8, <1>11
  <2>2. e[2] \in Nodes /\ e[2] \in children(n) BY <1>1, <2>1 DEF children
  <2>3. reaches(n, e[2]) BY <1>1, <2>2, ReachEdge
  <2>4. e[2] \in C BY <1>4, <2>1, <2>2, <2>3
  <2>5. CASE \E x \in C : x # r BY <1>7, <2>5
  <2>6. CASE \A x \in C : x = r
    <3>1. e[2] = r /\ n = r BY <1>5, <2>4, <2>6
    <3> QED BY <1>7, <2>2, <3>1
  <2> QED BY <2>5, <2>6
<1> QED BY <1>10, <1>11

\* In the end of every search isInCycle() holds of exactly the nodes that can reach themselves
\* again, whether through others or along an edge to themselves.
THEOREM CyclesAreFound == Spec => []CyclesFound
BY CyclesAre, SearchAlways, PTL

-----------------------------------------------------------------------------
(* The search is the naming of components *)

repOf == [n \in inSCC |-> rep[n]]

LEMMA RepOfKept ==
  ASSUME UNCHANGED <<graph, T, inSCC>>, \A n \in inSCC : rep'[n] = rep[n]
  PROVE  UNCHANGED <<graph, repOf, T>>
BY DEF repOf

LEMMA NamesOne ==
  ASSUME SearchInv, LeftComplete
  PROVE  Abstract!Name
<1> DEFINE C == Abstract!component(graph, v0)
<1>1. C = named /\ v0 \in C /\ Abstract!reach(graph, {v0}) \subseteq C \cup inSCC
  BY Component DEF named
<1>2. /\ graph' = graph /\ inSCC' = inSCC \cup named /\ T' = Append(T, v0)
      /\ \A x \in visited : rep'[x] = IF x \in members THEN v0 ELSE rep[x]
      /\ rep[v0] = v0
  BY DEF LeftComplete, Left, named
<1>3. v0 \in open /\ v0 \in Nodes /\ inSCC \subseteq visited
  BY InnermostCall DEF SearchInv, LeftComplete, Left, Types
<1>4. named \subseteq visited BY Component DEF open
<1>5. \A x \in inSCC \cup named : rep'[x] = IF x \in named THEN v0 ELSE rep[x]
  <2>1. \A x \in named : x \in members \/ x = v0 BY DEF named
  <2>2. members \subseteq named BY DEF named
  <2> QED BY <1>2, <1>3, <1>4, <2>1, <2>2
<1>6. DOMAIN repOf = inSCC /\ \A m \in inSCC : repOf[m] = rep[m] BY DEF repOf
<1>7. repOf' = [m \in inSCC \cup named |-> rep'[m]] BY <1>2 DEF repOf
<1>8. repOf' = [m \in DOMAIN repOf \cup named |-> IF m \in named THEN v0 ELSE repOf[m]]
  BY <1>5, <1>6, <1>7
<1>9. v0 \in Nodes \ DOMAIN repOf BY <1>3, <1>6 DEF open
<1> HIDE DEF C
<1>10. /\ Abstract!reach(graph, {v0}) \subseteq C \cup DOMAIN repOf
       /\ v0 \in C
       /\ repOf' = [m \in DOMAIN repOf \cup C |-> IF m \in C THEN v0 ELSE repOf[m]]
       /\ T' = Append(T, v0) /\ UNCHANGED graph
  BY <1>1, <1>2, <1>6, <1>8
<1> QED BY <1>9, <1>10, Zenon DEF Abstract!Name, repOf, C

LEMMA FindNames ==
  ASSUME SearchInv, find
  PROVE  Abstract!Name \/ UNCHANGED <<graph, repOf, T>>
<1>1. Types /\ Numbered /\ Partition /\ Children /\ Stacked BY DEF SearchInv
<1>2. inSCC \subseteq visited BY <1>1 DEF Types
<1>3. CASE visitRoot \/ visitChild
  <2>1. PICK w \in Nodes : Entered(w) BY <1>1, <1>3, EnterStep
  <2> QED BY <1>2, <2>1, RepOfKept DEF Entered
<1>4. CASE handleChild
  <2>1. PICK w, r \in visited : Returned(w, r) BY <1>1, <1>4, ReturnStep
  <2>2. v0 \notin inSCC BY <1>1, <2>1, InnermostCall DEF Returned, open
  <2> QED BY <1>2, <2>1, <2>2, RepOfKept DEF Returned
<1>5. CASE completeSCC BY <1>1, <1>5, CompleteStep, NamesOne
<1>6. CASE leaveMember
  <2>1. LeftWaiting BY <1>1, <1>6, WaitStep
  <2> QED BY <2>1, RepOfKept DEF LeftWaiting, Left
<1> QED BY <1>3, <1>4, <1>5, <1>6 DEF find

LEMMA AgainNames ==
  ASSUME SearchInv, addEdgeAndFind
  PROVE  Abstract!Again
<1>1. /\ done /\ \E e \in (Nodes \X Nodes) \ graph : graph \cup {e} \in Graphs /\ graph' = graph \cup {e}
      /\ rep' = <<>> /\ inSCC' = {} /\ T' = <<>>
  BY DEF addEdgeAndFind, cleared
<1>2. DOMAIN repOf = Nodes BY <1>1, AllComplete DEF repOf
<1>3. repOf' = <<>> BY <1>1 DEF repOf
<1> QED BY <1>1, <1>2, <1>3 DEF Abstract!Again, repOf

\* The search implements Components: from its first state on each step names the nodes of one
\* strongly connected component, with a representative among them that it stacks, after all that
\* the component reaches; or begins the next search once all are named; or names nothing.
THEOREM ComponentsNamed == Spec => Abstract!Steps
<1>1. Init => Abstract!Init BY DEF Init, Abstract!Init
<1>2. SearchInv /\ [find \/ addEdgeAndFind \/ (done /\ UNCHANGED vars)]_vars
        => [Abstract!Name \/ Abstract!Again]_<<graph, [n \in inSCC |-> rep[n]], T>>
  <2> SUFFICES ASSUME SearchInv, [find \/ addEdgeAndFind \/ (done /\ UNCHANGED vars)]_vars
               PROVE  [Abstract!Name \/ Abstract!Again]_<<graph, repOf, T>>
    BY DEF repOf
  <2>1. CASE find BY <2>1, FindNames
  <2>2. CASE addEdgeAndFind BY <2>2, AgainNames
  <2>3. CASE UNCHANGED vars BY <2>3 DEF vars, repOf
  <2> QED BY <2>1, <2>2, <2>3
<1> QED BY <1>1, <1>2, SearchAlways, PTL DEF Spec, Abstract!Steps
===============================================================================
