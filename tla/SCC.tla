--------------------------------- MODULE SCC ---------------------------------
(****************************************************************************)
(* SCCDetection: Nuutila's search for strongly connected components         *)
(* (Util/SCC.h).  The calls of visit() that are under way are a stack of    *)
(* frames [v, todo, at]: the children of v that are left, and in at the one *)
(* that is being visited.                                                   *)
(*                                                                          *)
(* Nodes and children are visited in the order of a hash map and of edge    *)
(* kinds and numbers: in any order here.                                    *)
(****************************************************************************)
EXTENDS Naturals, SequencesExt

CONSTANTS Nodes,  \* the nodes of a graph
          Graphs  \* the graphs that can arise, as sets of edges

VARIABLES
  graph,    \* the edges
  frames,   \* the calls of visit(), the innermost last
  rep,      \* _rep of the nodes visited so far
  inSCC,    \* nodes whose component is complete
  subNodes, \* nodes to the nodes they represent
  I, D,     \* _I and _D: how many nodes were visited, and each node's number
  SS,       \* nodes whose component is not complete, the top last
  T,        \* the topological stack, the top last
  repNodes  \* nodes that represent others

ASSUME GraphsAssumption == \A g \in Graphs : g \subseteq Nodes \X Nodes

vars == <<graph, frames, rep, inSCC, subNodes, I, D, SS, T, repNodes>>

children(v) == {e[2] : e \in {d \in graph : d[1] = v}}
visited     == DOMAIN D
top         == Last(frames)

cleared == /\ frames' = <<>> /\ rep' = <<>> /\ inSCC' = {} /\ subNodes' = [n \in Nodes |-> {}]
           /\ I' = 0 /\ D' = <<>> /\ SS' = <<>> /\ T' = <<>> /\ repNodes' = {}

-----------------------------------------------------------------------------
(* rep(n, r): r represents n *)

\* mutated: a node keeps the nodes it represented
clearNone(sub, S, r) == [sub EXCEPT ![r] = @ \cup S]

\* _subNodes once r represents S, itself perhaps among them
represents(sub, S, r) ==
  [n \in Nodes |-> IF n = r THEN sub[r] \cup S ELSE IF n \in S THEN {} ELSE sub[n]]

\* the map f once every x in S has the entry y
assign(f, S, y) == [x \in DOMAIN f \cup S |-> IF x \in S THEN y ELSE f[x]]

setRep(n, r) ==
  /\ rep' = assign(rep, {n}, r)
  /\ subNodes' = represents(subNodes, {n}, r)
  /\ repNodes' = IF n = r THEN repNodes ELSE (repNodes \ {n}) \cup {r}

\* a visit to v begins, in the calls fs
enter(v, fs) ==
  /\ I' = I + 1
  /\ D' = assign(D, {v}, I + 1)
  /\ setRep(v, v)
  /\ frames' = Append(fs, [v |-> v, todo |-> children(v), at |-> {}])
  /\ UNCHANGED <<inSCC, SS, T>>

\* find(): a node that no visit has reached
visitRoot ==
  /\ frames = <<>>
  /\ \E v \in Nodes \ visited : enter(v, <<>>)
  /\ UNCHANGED graph

visitChild ==
  /\ frames # <<>> /\ top.at = {}
  /\ \E w \in top.todo \ visited : enter(w, Append(Front(frames), [top EXCEPT !.at = {w}]))
  /\ UNCHANGED graph

-----------------------------------------------------------------------------
(* Back from a child, or at one that was visited before: of the two          *)
(* representatives the one visited earlier is taken.                         *)

\* mutated: the representatives are not compared
earlierAny(r, s) == s

earlier(r, s) == IF D[r] < D[s] THEN r ELSE s

\* mutated: components that are complete count
inOtherSCC(w) == FALSE

complete(w) == w \in inSCC

handleChild ==
  /\ frames # <<>>
  /\ \E w \in IF top.at = {} THEN top.todo \cap visited ELSE top.at :
       /\ IF complete(w) THEN UNCHANGED <<rep, subNodes, repNodes>>
          ELSE setRep(top.v, earlier(rep[top.v], rep[w]))
       /\ frames' = Append(Front(frames), [top EXCEPT !.todo = @ \ {w}, !.at = {}])
  /\ UNCHANGED <<graph, inSCC, I, D, SS, T>>

\* The first node of a component is left: what was visited later and is still on SS
\* completes the component.
completeSCC ==
  /\ frames # <<>> /\ top.todo = {} /\ rep[top.v] = top.v
  /\ LET v == top.v
         k == SelectLastInSeq(SS, LAMBDA w : D[w] <= D[v])
         members == ToSet(SubSeq(SS, k + 1, Len(SS)))
     IN /\ inSCC' = inSCC \cup {v} \cup members
        /\ SS' = SubSeq(SS, 1, k)
        /\ rep' = assign(rep, members, v)
        /\ subNodes' = represents(subNodes, members, v)
        /\ repNodes' = IF members = {} THEN repNodes ELSE (repNodes \ members) \cup {v}
        /\ T' = Append(T, v)
  /\ frames' = Front(frames)
  /\ UNCHANGED <<graph, I, D>>

leaveMember ==
  /\ frames # <<>> /\ top.todo = {} /\ rep[top.v] # top.v
  /\ SS' = Append(SS, top.v)
  /\ frames' = Front(frames)
  /\ UNCHANGED <<graph, rep, inSCC, subNodes, I, D, T, repNodes>>

-----------------------------------------------------------------------------
(* What the users of a finished detection ask *)

done == frames = <<>> /\ visited = Nodes

repNode(n) == rep[n]

\* mutated: a node with an edge to itself is no cycle
isInCycleMulti(n) == Cardinality(subNodes[repNode(n)]) > 1

isInCycle(n) == Cardinality(subNodes[repNode(n)]) > 1 \/ repNode(n) \in children(repNode(n))

\* the solver adds an edge and detects again; find() clears everything first
addEdgeAndFind ==
  /\ done
  /\ \E e \in (Nodes \X Nodes) \ graph : graph \cup {e} \in Graphs /\ graph' = graph \cup {e}
  /\ cleared

Init ==
  /\ graph \in Graphs
  /\ frames = <<>> /\ rep = <<>> /\ inSCC = {} /\ subNodes = [n \in Nodes |-> {}]
  /\ I = 0 /\ D = <<>> /\ SS = <<>> /\ T = <<>> /\ repNodes = {}

find == visitRoot \/ visitChild \/ handleChild \/ completeSCC \/ leaveMember

\* A detection runs to its end, the solver may stop after any.
Spec == Init /\ [][find \/ addEdgeAndFind \/ (done /\ UNCHANGED vars)]_vars /\ WF_vars(find)

-----------------------------------------------------------------------------

TypeOK ==
  /\ visited \subseteq Nodes /\ DOMAIN rep = visited /\ inSCC \subseteq visited
  /\ \A v \in visited : rep[v] \in visited /\ D[rep[v]] <= D[v] /\ D[v] <= I
  /\ \A k \in DOMAIN frames : frames[k].todo \cup frames[k].at \subseteq children(frames[k].v)
  /\ ToSet(SS) \subseteq visited \ inSCC /\ ToSet(T) \subseteq inSCC /\ repNodes \subseteq visited

Abstract == INSTANCE Components WITH repOf <- [n \in inSCC |-> rep[n]], topo <- T

\* The detection names the components one by one, each after those it reaches.
NamesComponents == Abstract!Spec

\* In the end a representative has all nodes of its component as its sub-nodes, any other
\* node none, and the representatives of several nodes are listed (mergeSccCycle and the
\* call graph's users read both).
SubNodesExact ==
  done => /\ \A n \in Nodes : subNodes[n] = IF rep[n] = n THEN Abstract!component(graph, n) ELSE {}
          /\ repNodes = {r \in Nodes : rep[r] = r /\ Cardinality(subNodes[r]) > 1}

\* A node is in a cycle exactly when it can reach itself again.
CyclesFound == done => \A n \in Nodes : isInCycle(n) <=> Abstract!onCycle(graph, n)
=============================================================================
