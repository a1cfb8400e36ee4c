-------------------------------- MODULE ConsG --------------------------------
(****************************************************************************)
(* The constraint graph the inclusion-based solvers work on (ConsG.cpp,     *)
(* ConsG.h) and the object model behind it (PAG.cpp): memory objects, their *)
(* field nodes, the edges, and the two operations that rewrite the graph    *)
(* when a node is merged into its representative.                           *)
(*                                                                          *)
(* The graph is a set of edges.  An edge is identified by kind, source and  *)
(* destination; off is the constant offset of a normal gep edge.            *)
(****************************************************************************)
EXTENDS Integers, FiniteSets

CONSTANTS
  Ptr,          \* top-level pointers (value nodes of the PAG)
  Obj,          \* memory objects
  BlkObj,       \* the black hole object
  ConstObj,     \* the constant object
  NonPtr,       \* memory nodes whose type holds no pointer
  FieldLimit,   \* maximum number of fields of each object
  Offset        \* the constant offsets that occur on gep edges

(****************************************************************************)
(* Memory nodes: <<o, 0>> is the base (field-insensitive) node of object o, *)
(* <<o, 1 + f>> is the node of its field f.                                 *)
(****************************************************************************)
numOfFields(o) == IF FieldLimit[o] = 0 THEN 1 ELSE FieldLimit[o]

Mem  == UNION {{o} \X (0 .. numOfFields(o)) : o \in Obj}
Node == Ptr \cup Mem

ASSUME ConsGAssumption ==
  /\ BlkObj \subseteq Obj
  /\ ConstObj \subseteq Obj
  /\ NonPtr \subseteq Obj \X Nat
  /\ FieldLimit \in [Obj -> Nat]
  /\ Offset \subseteq Int
  /\ 0 \in Offset
  /\ Ptr \cap Mem = {}

ObjOf(m) == m[1]
getBaseObjNode(m) == <<m[1], 0>>

abs(k) == IF k < 0 THEN -k ELSE k

\* mutated: one field too many
offsetBeyond(o, k) == abs(k) % (FieldLimit[o] + 1)

\* |offset| % maxFieldOffsetLimit, 0 when the object has no limit
getModulusOffset(o, k) == IF FieldLimit[o] = 0 THEN 0 ELSE abs(k) % FieldLimit[o]

\* Node of the field at offset k from memory node m; fi holds the
\* field-insensitive objects, for which it is the base node.
getGepObjNode(m, k, fi) ==
  LET o == ObjOf(m)
      f == IF m[2] = 0 THEN k ELSE m[2] - 1 + k
  IN  IF o \in fi THEN getBaseObjNode(m) ELSE <<o, 1 + getModulusOffset(o, f)>>

isSingleFieldObj(o) == FieldLimit[o] = 1
isBlkObjOrConstantObj(m) == ObjOf(m) \in BlkObj \cup ConstObj

\* loads and stores through these add no copy edge
holdsNoPointer(m) == ObjOf(m) \in ConstObj \/ m \in NonPtr

(****************************************************************************)
(* Edges.                                                                   *)
(****************************************************************************)
DirectKind   == {"copy", "gep", "vgep"}
IndirectKind == {"load", "store"}
EdgeKind     == DirectKind \cup IndirectKind \cup {"addr"}

Edge == [kind : EdgeKind, src : Node, dst : Node, off : Offset]

edge(k, s, d) == [kind |-> k, src |-> s, dst |-> d, off |-> 0]

\* hasEdge compares kind, source and destination; the offset of a gep edge is
\* not part of the comparison
hasEdge(E, k, s, d) == \E e \in E : e.kind = k /\ e.src = s /\ e.dst = d

\* add every edge of F that the graph does not have yet
addEdges(E, F) == E \cup {f \in F : ~ hasEdge(E, f.kind, f.src, f.dst)}

\* the new copy edge between the representatives of s and d, if there is one
newCopyEdge(E, rep, s, d) ==
  {e \in {edge("copy", rep[s], rep[d])} :
     e.src # e.dst /\ ~ hasEdge(E, "copy", e.src, e.dst)}

directOut(E, n)  == {e \in E : e.kind \in DirectKind /\ e.src = n}
outgoingCopies(E, n)  == {e \in E : e.kind = "copy" /\ e.src = n}
outgoingGeps(E, n)    == {e \in E : e.kind \in {"gep", "vgep"} /\ e.src = n}
outgoingLoads(E, n)   == {e \in E : e.kind = "load" /\ e.src = n}
incomingStores(E, n)  == {e \in E : e.kind = "store" /\ e.dst = n}

(****************************************************************************)
(* Merging node n into r.  Edges whose other end lies outside the cycle are *)
(* retargeted to r; inside the cycle copy and gep edges are dropped, loads  *)
(* and stores are kept on r.  Address edges are dropped in both cases.  A   *)
(* dropped gep edge that is not a constant offset 0 is critical: it makes r *)
(* a positive weight cycle node.                                            *)
(****************************************************************************)
\* mutated: copy edges that leave the cycle are dropped too
survivesUnlessCopy(e, inside) ==
  e.kind \in IndirectKind \/ (e.kind \notin {"addr", "copy"} /\ ~ inside)

survives(e, inside) == e.kind \in IndirectKind \/ (e.kind # "addr" /\ ~ inside)
critical(e) == e.kind = "vgep" \/ (e.kind = "gep" /\ e.off # 0)

moveInEdgesToRepNode(E, rep, n, r) ==
  LET in == {e \in E : e.dst = n}
      kept == {e \in in : survives(e, rep[e.src] = r)}
  IN  addEdges(E \ in, {[e EXCEPT !.dst = r] : e \in kept})

moveOutEdgesToRepNode(E, rep, n, r) ==
  LET out == {e \in E : e.src = n}
      kept == {e \in out : survives(e, rep[e.dst] = r)}
  IN  addEdges(E \ out, {[e EXCEPT !.src = r] : e \in kept})

moveEdgesToRepNode(E, rep, n, r) ==
  moveOutEdgesToRepNode(moveInEdgesToRepNode(E, rep, n, r), rep, n, r)

gepInsideScc(E, rep, n, r) ==
  \/ \E e \in E : e.dst = n /\ rep[e.src] = r /\ critical(e)
  \/ \E e \in moveInEdgesToRepNode(E, rep, n, r) :
        e.src = n /\ rep[e.dst] = r /\ critical(e)

(****************************************************************************)
(* The condensation of the direct edges: reachability, and the cycles that  *)
(* SCC detection reports.                                                   *)
(****************************************************************************)
directEnds(E) == UNION {{e.src, e.dst} : e \in {x \in E : x.kind \in DirectKind}}

closedUnderDirect(E, X) ==
  \A e \in E : e.kind \in DirectKind /\ e.src \in X => e.dst \in X

reachable(E) ==
  LET ends == directEnds(E)
      closed == {X \in SUBSET ends : closedUnderDirect(E, X)}
  IN  {w \in ends \X ends : \A X \in closed : w[1] \in X => w[2] \in X}

\* mutated: reachability in one direction only
oneWay(R, m, n) == <<n, m>> \in R

sameCycle(R, m, n) == <<n, m>> \in R /\ <<m, n>> \in R

sccOf(E) ==
  LET R == reachable(E)
  IN  {c \in {{m \in directEnds(E) : sameCycle(R, m, n)} : n \in directEnds(E)} :
         \E a, b \in c : a # b}
==============================================================================
