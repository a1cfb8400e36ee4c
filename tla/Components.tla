----------------------------- MODULE Components -----------------------------
(****************************************************************************)
(* What the users of SCCDetection rely on: a detection names the strongly   *)
(* connected components one by one, each after all that it reaches.  The    *)
(* nodes of a component get a common representative among them, and the     *)
(* representatives are stacked, so that popping them all yields every       *)
(* component before those it reaches.                                       *)
(****************************************************************************)
EXTENDS Naturals, SequencesExt

CONSTANTS Nodes,  \* the nodes of a graph
          Graphs  \* the graphs that can arise, as sets of edges

VARIABLES
  graph, \* its edges
  repOf, \* nodes of the components named so far to their representatives
  topo   \* the representatives, in the order they were stacked

\* the nodes reached from S along g, those of S among them: what is in every set
\* that holds S and that no edge leaves
reach(g, S) ==
  LET closed == {X \in SUBSET Nodes : S \subseteq X /\ \A e \in g : e[1] \in X => e[2] \in X}
  IN {n \in Nodes : \A X \in closed : n \in X}

component(g, n) == {m \in reach(g, {n}) : n \in reach(g, {m})}
onCycle(g, n)   == \E e \in g : e[1] = n /\ n \in reach(g, {e[2]})

-----------------------------------------------------------------------------

Init == graph \in Graphs /\ repOf = <<>> /\ topo = <<>>

Name ==
  \E n \in Nodes \ DOMAIN repOf :
    LET C == component(graph, n)
    IN /\ reach(graph, {n}) \subseteq C \cup DOMAIN repOf
       /\ \E r \in C : /\ repOf' = [m \in DOMAIN repOf \cup C |-> IF m \in C THEN r ELSE repOf[m]]
                       /\ topo' = Append(topo, r)
  /\ UNCHANGED graph

\* an edge is added and the components are looked for again
Again ==
  /\ DOMAIN repOf = Nodes
  /\ \E e \in (Nodes \X Nodes) \ graph : graph \cup {e} \in Graphs /\ graph' = graph \cup {e}
  /\ repOf' = <<>> /\ topo' = <<>>

Steps == Init /\ [][Name \/ Again]_<<graph, repOf, topo>>

\* a detection that has begun names them all
Spec == Steps /\ []<>(DOMAIN repOf = Nodes)
=============================================================================
