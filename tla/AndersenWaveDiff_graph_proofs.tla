-------------------- MODULE AndersenWaveDiff_graph_proofs --------------------
(****************************************************************************)
(* Theorems of AndersenWaveDiff about merging and moving: representatives   *)
(* stay consistent, no pointee is lost, what a cache or a propagated set    *)
(* promises stays true, and every indirect call is resolved.                *)
(****************************************************************************)
EXTENDS AndersenWaveDiff_proofs

(****************************************************************************)
(* Moving the edges of n to r.                                              *)
(****************************************************************************)
\* No edge is left at n.
LEMMA MoveLeavesNone ==
  ASSUME NEW E \in SUBSET Edge, NEW R, NEW n \in Node, NEW r \in Node, n # r
  PROVE  \A e \in moveEdgesToRepNode(E, R, n, r) : e.src # n /\ e.dst # n
<1> DEFINE F == moveInEdgesToRepNode(E, R, n, r)
<1>1. \A e \in F : e \in Edge /\ e.dst # n
  BY DEF moveInEdgesToRepNode, addEdges, Edge
<1>2. \A e \in moveOutEdgesToRepNode(F, R, n, r) : e.src # n /\ e.dst # n
  <2> HIDE DEF F
  <2> QED BY <1>1 DEF moveOutEdgesToRepNode, addEdges, Edge
<1> QED BY <1>2 DEF moveEdgesToRepNode

\* k, or r in place of n
renamed(k, n, r) == IF k = n THEN r ELSE k

\* A copy edge between representatives is there after the move, unless its ends became one.
LEMMA CopyMoved ==
  ASSUME NEW E \in SUBSET Edge, NEW R \in [Node -> Node], NEW n \in Node, NEW r \in Node,
         n # r, R[r] = r, NEW a \in Node, NEW b \in Node, R[a] = a, R[b] = b,
         hasEdge(E, "copy", a, b)
  PROVE  \/ renamed(a, n, r) = renamed(b, n, r)
         \/ hasEdge(moveEdgesToRepNode(E, R, n, r), "copy", renamed(a, n, r), renamed(b, n, r))
<1> DEFINE F == moveInEdgesToRepNode(E, R, n, r)
           bb == renamed(b, n, r)
<1> SUFFICES ASSUME renamed(a, n, r) # bb
             PROVE  hasEdge(moveEdgesToRepNode(E, R, n, r), "copy", renamed(a, n, r), bb)
  OBVIOUS
<1>1. PICK e \in E : e.kind = "copy" /\ e.src = a /\ e.dst = b BY DEF hasEdge
<1>2. a # b BY DEF renamed
<1>3. hasEdge(F, "copy", a, bb)
  <2>1. CASE b # n
    BY <1>1, <2>1 DEF hasEdge, moveInEdgesToRepNode, addEdges, renamed
  <2>2. CASE b = n
    <3>1. a # r /\ bb = r BY <2>2, <1>2 DEF renamed
    <3>2. survives(e, R[e.src] = r) BY <1>1, <3>1 DEF survives
    <3> DEFINE f == [e EXCEPT !.dst = r]
               old == {d \in E : d.dst = n}
    <3>3. f.kind = "copy" /\ f.src = a /\ f.dst = r BY <1>1 DEF Edge
    <3>4. F = addEdges(E \ old, {[d EXCEPT !.dst = r] : d \in {x \in old : survives(x, R[x.src] = r)}})
      BY DEF moveInEdgesToRepNode
    <3>5. f \in {[d EXCEPT !.dst = r] : d \in {x \in old : survives(x, R[x.src] = r)}}
      BY <1>1, <2>2, <3>2
    <3> HIDE DEF f, F
    <3>6. f \in F \/ hasEdge(E \ old, "copy", a, r) BY <3>3, <3>4, <3>5 DEF addEdges
    <3> QED BY <3>1, <3>3, <3>4, <3>6 DEF hasEdge, addEdges
  <2> QED BY <2>1, <2>2
<1>4. F \in SUBSET Edge
  BY DEF moveInEdgesToRepNode, addEdges, Edge
<1>5. bb \in Node /\ R[bb] = bb BY DEF renamed
<1> HIDE DEF F, bb
<1>6. PICK d \in F : d.kind = "copy" /\ d.src = a /\ d.dst = bb BY <1>3 DEF hasEdge
<1>7. CASE a # n
  BY <1>6, <1>7 DEF hasEdge, moveEdgesToRepNode, moveOutEdgesToRepNode, addEdges, renamed, F
<1>8. CASE a = n
  <2>1. bb # r BY <1>8 DEF renamed
  <2>2. survives(d, R[d.dst] = r) BY <1>5, <1>6, <2>1 DEF survives
  <2> DEFINE f == [d EXCEPT !.src = r]
             old == {x \in F : x.src = n}
             G == moveEdgesToRepNode(E, R, n, r)
  <2>3. f.kind = "copy" /\ f.src = r /\ f.dst = bb BY <1>4, <1>6 DEF Edge
  <2>4. G = addEdges(F \ old, {[x EXCEPT !.src = r] : x \in {y \in old : survives(y, R[y.dst] = r)}})
    BY DEF moveEdgesToRepNode, moveOutEdgesToRepNode, F
  <2>5. f \in {[x EXCEPT !.src = r] : x \in {y \in old : survives(y, R[y.dst] = r)}}
    BY <1>6, <1>8, <2>2
  <2> HIDE DEF f, G
  <2>6. f \in G \/ hasEdge(F \ old, "copy", r, bb) BY <2>3, <2>4, <2>5 DEF addEdges
  <2>7. hasEdge(G, "copy", r, bb) BY <2>3, <2>4, <2>6 DEF hasEdge, addEdges
  <2> QED BY <1>8, <2>7 DEF G, renamed
<1> QED BY <1>7, <1>8

-----------------------------------------------------------------------------
(****************************************************************************)
(* What a merge does to representatives, links and points-to sets.          *)
(****************************************************************************)
\* P are the points-to sets with, maybe, fields replaced by their objects.
arrived(F, S, m) == m \in S \/ (ObjOf(m) \in F /\ getBaseObjNode(m) \in S)
replaced(P) ==
  /\ P \in [Node -> SUBSET Mem]
  /\ \A k \in Node : \A m \in Mem : arrived(fi, pts[k], m) => arrived(fi, P[k], m)

\* What n stands for, r stands for after the merge of n into r.
LEMMA MergeRep ==
  ASSUME TypeOK, RepConsistent, NEW P, NEW n \in Node, NEW r \in Node, n # r,
         rep[n] = n, rep[r] = r, mergeNodeToRep(P, n, r)
  PROVE  /\ RepConsistent'
         /\ \A k \in Node : rep'[k] = renamed(rep[k], n, r)
         /\ n \in subs'[r]
<1>1. \A k \in Node : k \in subs[n] <=> rep[k] = n BY DEF RepConsistent
<1>2. \A k \in Node : rep'[k] = renamed(rep[k], n, r)
  BY <1>1 DEF mergeNodeToRep, nodeSubs, renamed
<1>3. \A k \in Node : rep[k] \in Node BY DEF TypeOK
<1>4. \A k \in Node : subs'[k] = IF k = r THEN subs[r] \cup subs[n] ELSE subs[k]
  BY DEF mergeNodeToRep, TypeOK
<1>5. \A k \in Node : rep'[rep'[k]] = rep'[k] /\ k \in subs'[rep'[k]]
  BY <1>1, <1>2, <1>3, <1>4 DEF RepConsistent, renamed
<1>6. \A k \in Node : rep'[k] = k => \A m \in subs'[k] : rep'[m] = k
  <2> SUFFICES ASSUME NEW k \in Node, rep'[k] = k, NEW m \in subs'[k] PROVE rep'[m] = k
    OBVIOUS
  <2>1. k # n /\ rep[k] = k BY <1>2 DEF renamed
  <2>2. m \in Node BY <1>4 DEF TypeOK
  <2>3. rep[m] = k \/ (k = r /\ rep[m] = n) BY <1>4, <2>1 DEF RepConsistent
  <2> QED BY <1>2, <2>1, <2>2, <2>3 DEF renamed
<1>7. \A e \in edges' : rep'[e.src] = e.src /\ rep'[e.dst] = e.dst
  <2> SUFFICES ASSUME NEW e \in edges' PROVE rep'[e.src] = e.src /\ rep'[e.dst] = e.dst
    OBVIOUS
  <2>1. edges \in SUBSET Edge BY DEF TypeOK
  <2>2. PICK d \in edges : moved(e, d, n, r)
    BY <2>1, MoveEdges DEF mergeNodeToRep
  <2>3. e.src # n /\ e.dst # n BY <2>1, MoveLeavesNone DEF mergeNodeToRep
  <2>4. e \in Edge BY <2>1, MoveEdges DEF mergeNodeToRep
  <2>5. e.src \in Node /\ e.dst \in Node BY <2>4 DEF Edge
  <2>6. rep[e.src] = e.src /\ rep[e.dst] = e.dst BY <2>2 DEF moved, RepConsistent
  <2> QED BY <1>2, <2>3, <2>5, <2>6 DEF renamed
<1>8. n \in subs'[r] BY <1>4 DEF RepConsistent
<1> QED BY <1>2, <1>5, <1>6, <1>7, <1>8 DEF RepConsistent

\* Nodes that are linked stay linked.
LEMMA MergeLinks ==
  ASSUME TypeOK, RepConsistent, NEW P, NEW n \in Node, NEW r \in Node, n # r,
         rep[n] = n, rep[r] = r, mergeNodeToRep(P, n, r),
         NEW u \in Node, NEW v \in Node, linked(u, v)
  PROVE  linked(u, v)'
<1>1. rep'[u] = renamed(rep[u], n, r) /\ rep'[v] = renamed(rep[v], n, r) BY MergeRep
<1>2. /\ rep[u] \in Node /\ rep[v] \in Node /\ rep \in [Node -> Node]
      /\ rep[rep[u]] = rep[u] /\ rep[rep[v]] = rep[v] /\ edges \in SUBSET Edge
  BY DEF TypeOK, RepConsistent
<1>3. edges' = moveEdgesToRepNode(edges, rep, n, r) BY DEF mergeNodeToRep
<1>4. CASE rep[u] = rep[v] BY <1>1, <1>4 DEF linked
<1>5. CASE hasEdge(edges, "copy", rep[u], rep[v])
  <2>1. rep'[u] = rep'[v] \/ hasEdge(edges', "copy", rep'[u], rep'[v])
    BY <1>1, <1>2, <1>3, <1>5, CopyMoved
  <2> QED BY <2>1 DEF linked
<1> QED BY <1>4, <1>5 DEF linked

\* Adding edges keeps nodes linked.
LEMMA GrowLinks ==
  ASSUME edges \subseteq edges', rep' = rep, NEW u, NEW v, linked(u, v)
  PROVE  linked(u, v)'
BY DEF linked, hasEdge

\* Once the new copy edge of u and v is in the graph, they are linked.
LEMMA NewCopyLinks ==
  ASSUME TypeOK, NEW u \in Node, NEW v \in Node, edges \subseteq edges', rep' = rep,
         newCopyEdge(edges, rep, u, v) \subseteq edges'
  PROVE  linked(u, v)'
<1> DEFINE d == edge("copy", rep[u], rep[v])
<1>1. d.kind = "copy" /\ d.src = rep[u] /\ d.dst = rep[v] BY DEF edge
<1> HIDE DEF d
<1>2. CASE rep[u] = rep[v] \/ hasEdge(edges, "copy", rep[u], rep[v])
  BY <1>2, GrowLinks DEF linked
<1>3. CASE ~ (rep[u] = rep[v] \/ hasEdge(edges, "copy", rep[u], rep[v]))
  <2>1. d \in newCopyEdge(edges, rep, u, v) BY <1>1, <1>3 DEF newCopyEdge, d
  <2> QED BY <1>1, <2>1 DEF linked, hasEdge
<1> QED BY <1>2, <1>3

-----------------------------------------------------------------------------
(****************************************************************************)
(* Representatives.  Merging keeps them consistent as long as it is given   *)
(* two of them: the cycles still to merge are disjoint sets of nodes that   *)
(* nothing else represents.                                                 *)
(****************************************************************************)
members(c) == {c[1]} \cup c[2]
MergeOK ==
  /\ pc # "merge" => toMerge = {}
  /\ \A c \in toMerge : c[1] \notin c[2] /\ \A n \in members(c) : rep[n] = n
  /\ \A c, d \in toMerge : c # d => members(c) \cap members(d) = {}

\* nothing of what the solver has found out changes
quiet == UNCHANGED <<edges, rep, subs, pts, revPts, propa, cache>>

\* Two different cycles of the direct edges have no node in common.
LEMMA CyclesDisjoint ==
  ASSUME NEW E \in SUBSET Edge, NEW c \in sccOf(E), NEW d \in sccOf(E), NEW k \in c, k \in d
  PROVE  c = d
<1> DEFINE R == reachable(E)
           ends == directEnds(E)
<1>1. \A u, v, w : <<u, v>> \in R /\ <<v, w>> \in R => <<u, w>> \in R
  BY DEF reachable
<1> HIDE DEF R
<1>2. PICK x \in ends : c = {m \in ends : sameCycle(R, m, x)} BY DEF sccOf, R
<1>3. PICK y \in ends : d = {m \in ends : sameCycle(R, m, y)} BY DEF sccOf, R
<1>4. sameCycle(R, k, x) /\ sameCycle(R, k, y) BY <1>2, <1>3
<1>5. \A m : sameCycle(R, m, x) <=> sameCycle(R, m, y) BY <1>1, <1>4 DEF sameCycle
<1> QED BY <1>2, <1>3, <1>5

\* The ends of direct edges are representatives.
LEMMA EndsRep ==
  ASSUME TypeOK, RepConsistent, NEW c \in sccOf(edges), NEW k \in c
  PROVE  k \in Node /\ rep[k] = k
<1>1. k \in directEnds(edges) BY DEF sccOf
<1>2. PICK e \in edges : k \in {e.src, e.dst} BY <1>1 DEF directEnds
<1> QED BY <1>2 DEF TypeOK, Edge, RepConsistent

\* The steps that change the graph or a points-to set.
LEMMA Steps ==
  ASSUME Next
  PROVE  \/ processAllAddr \/ mergeSccNodes \/ handleCopyGep \/ normalGepPts \/ processGepDone
         \/ collapseField \/ handleLoad \/ handleStore \/ updateCallGraph
         \/ connectCaller2CalleeParams
         \/ quiet /\ called' = called /\ (pc = "connect" => todo = {})
<1> DEFINE idle == \/ SCCDetect \/ mergeSccDone \/ processNode \/ waveDone \/ skipMergedNode
                   \/ processGep \/ gepBlkObjOrConstant \/ variantGepPts \/ handleGepDone
                   \/ collapseNext \/ collapseAllDone \/ collapseNodePts \/ collapseFieldDone
                   \/ collapseNodePtsDone \/ popFromWorklist \/ postDone \/ solveAgain
<1>1. idle => quiet /\ called' = called
  BY DEF quiet, graphVars, objVars, ptsVars, SCCDetect, mergeSccDone, processNode, waveDone,
         skipMergedNode, processGep, gepBlkObjOrConstant, variantGepPts, handleGepDone,
         gepUnchanged, collapseNext, collapseAllDone, collapseNodePts, collapseFieldDone,
         collapseNodePtsDone, collapseUnchanged, popFromWorklist, postDone, postUnchanged,
         solveAgain, callgraphUnchanged
<1>2. idle => (pc = "connect" => todo = {})
  BY DEF SCCDetect, mergeSccDone, processNode, waveDone, skipMergedNode, processGep,
         gepBlkObjOrConstant, variantGepPts, handleGepDone, collapseNext, collapseAllDone,
         collapseNodePts, collapseFieldDone, collapseNodePtsDone, inCall, popFromWorklist,
         postDone, solveAgain
<1>3. Next => \/ processAllAddr \/ mergeSccNodes \/ handleCopyGep \/ normalGepPts \/ processGepDone
              \/ collapseField \/ handleLoad \/ handleStore \/ updateCallGraph
              \/ connectCaller2CalleeParams \/ idle
  BY DEF Next, waveNext, gepNext, collapsingNext, postNext, callNext
<1> HIDE DEF idle
<1> QED BY <1>1, <1>2, <1>3

\* mergeSccNodes merges a node of a cycle into another representative.
LEMMA MergeSccStep ==
  ASSUME TypeOK, MergeOK, mergeSccNodes
  PROVE  \E c \in toMerge : \E n \in c[2] :
           /\ n \in Node /\ c[1] \in Node /\ n # c[1] /\ rep[n] = n /\ rep[c[1]] = c[1]
           /\ mergeNodeToRep(pts, n, c[1]) /\ replaced(pts)
           /\ toMerge' = {x \in (toMerge \ {c}) \cup {<<c[1], c[2] \ {n}>>} : x[2] # {}}
<1>1. PICK c \in toMerge : \E n \in c[2] :
        /\ mergeNodeToRep(pts, n, c[1])
        /\ toMerge' = {x \in (toMerge \ {c}) \cup {<<c[1], c[2] \ {n}>>} : x[2] # {}}
  BY DEF mergeSccNodes
<1>2. PICK n \in c[2] :
        /\ mergeNodeToRep(pts, n, c[1])
        /\ toMerge' = {x \in (toMerge \ {c}) \cup {<<c[1], c[2] \ {n}>>} : x[2] # {}}
  BY <1>1
<1>3. c[1] \in Node /\ n \in Node BY DEF TypeOK
<1>4. n # c[1] /\ rep[n] = n /\ rep[c[1]] = c[1] BY DEF MergeOK, members
<1>5. replaced(pts) BY DEF replaced, TypeOK
<1> QED BY <1>2, <1>3, <1>4, <1>5

\* A call of collapseField works on the base node of a field-insensitive object.
FramesFi ==
  \A i \in 1 .. Len(frames) : frames[i].call = "collapseField" =>
    ObjOf(frames[i].base) \in fi /\ frames[i].base = getBaseObjNode(frames[i].base)

\* collapseField replaces a field by the base node of its object, then merges the two.
LEMMA CollapseStep ==
  ASSUME TypeInv, FramesOK, FramesFi, RepConsistent, collapseField
  PROVE  \E f \in frames[1].left : \E b \in Mem : \E P :
           /\ frames # <<>> /\ frames[1].call = "collapseField" /\ frames[1].base = b
           /\ f \in Mem /\ b = getBaseObjNode(f) /\ ObjOf(f) \in fi
           /\ P = [n \in Node |-> replaceField(n, f, b)] /\ replaced(P)
           /\ IF rep[f] # rep[b]
                THEN /\ mergeNodeToRep(P, rep[f], rep[b])
                     /\ rep[f] \in Node /\ rep[b] \in Node
                     /\ rep[rep[f]] = rep[f] /\ rep[rep[b]] = rep[b]
                ELSE pts' = P /\ UNCHANGED <<graphVars, revPts, propa, cache>>
           /\ frames' = <<[frames[1] EXCEPT !.left = @ \ {f}]>> \o Tail(frames)
<1>0. TypeOK BY DEF TypeInv
<1>1. frames # <<>> /\ frames[1].call = "collapseField"
  BY DEF collapseField, inCall, TypeInv, FramesThere
<1>2. PICK f \in frames[1].left :
        LET b == frames[1].base
            P == [n \in Node |-> replaceField(n, f, b)]
        IN  /\ IF rep[f] # rep[b]
                 THEN mergeNodeToRep(P, rep[f], rep[b])
                 ELSE pts' = P /\ UNCHANGED <<graphVars, revPts, propa, cache>>
            /\ frames' = <<[frames[1] EXCEPT !.left = @ \ {f}]>> \o Tail(frames)
  BY DEF collapseField
<1> DEFINE b == frames[1].base
           P == [n \in Node |-> replaceField(n, f, b)]
<1>3. frames[1] \in Frame /\ 1 \in 1 .. Len(frames) BY <1>0, <1>1, PopFrame DEF TypeOK
<1>4. b \in Mem /\ ObjOf(b) \in fi /\ b = getBaseObjNode(b)
  BY <1>1, <1>3 DEF TypeInv, FramesThere, FramesFi
<1>5. f \in Mem /\ ObjOf(f) = ObjOf(b) BY <1>1, <1>3 DEF Frame, FramesOK, FrameOK
<1>6. b = getBaseObjNode(f) BY <1>4, <1>5 DEF getBaseObjNode, ObjOf
<1>7. P \in [Node -> SUBSET Mem] BY <1>0, <1>4 DEF replaceField, TypeOK
<1>8. \A k \in Node : \A m \in Mem : arrived(fi, pts[k], m) => arrived(fi, P[k], m)
  <2> SUFFICES ASSUME NEW k \in Node, NEW m \in Mem, arrived(fi, pts[k], m)
               PROVE  arrived(fi, replaceField(k, f, b), m)
    OBVIOUS
  <2>1. CASE replaceField(k, f, b) = pts[k] BY <2>1
  <2>2. CASE replaceField(k, f, b) = (pts[k] \ {f}) \cup {b}
    <3>1. CASE m \in pts[k] BY <1>4, <1>5, <1>6, <2>2, <3>1 DEF arrived
    <3>2. CASE ObjOf(m) \in fi /\ getBaseObjNode(m) \in pts[k]
      <4>1. getBaseObjNode(m) = f => f = b BY <1>6 DEF getBaseObjNode
      <4> QED BY <2>2, <3>2, <4>1 DEF arrived
    <3> QED BY <3>1, <3>2 DEF arrived
  <2> QED BY <2>1, <2>2 DEF replaceField
<1>9. replaced(P) BY <1>7, <1>8 DEF replaced
<1>10. /\ rep[f] \in Node /\ rep[b] \in Node
       /\ rep[rep[f]] = rep[f] /\ rep[rep[b]] = rep[b]
  BY <1>0, <1>4, <1>5 DEF TypeOK, RepConsistent, Node
<1> HIDE DEF P
<1>11. /\ IF rep[f] # rep[b]
            THEN mergeNodeToRep(P, rep[f], rep[b])
            ELSE pts' = P /\ UNCHANGED <<graphVars, revPts, propa, cache>>
       /\ frames' = <<[frames[1] EXCEPT !.left = @ \ {f}]>> \o Tail(frames)
  BY <1>2 DEF P
<1>12. P = [n \in Node |-> replaceField(n, f, b)] BY DEF P
<1> HIDE DEF b
<1>13. frames[1].base = b BY DEF b
<1> QED BY <1>1, <1>4, <1>5, <1>6, <1>9, <1>10, <1>11, <1>12, <1>13

\* Growing the graph by edges between representatives.
LEMMA GrowRep ==
  ASSUME TypeOK, RepConsistent, UNCHANGED <<rep, subs>>, NEW F, edges' = edges \cup F,
         \A e \in F : \E u, v \in Node : e.src = rep[u] /\ e.dst = rep[v]
  PROVE  RepConsistent'
<1>1. \A e \in F : rep[e.src] = e.src /\ rep[e.dst] = e.dst BY DEF RepConsistent
<1> QED BY <1>1 DEF RepConsistent

\* e is a new copy edge between the representatives of two nodes
joins(e) == /\ e \in Edge /\ e.kind = "copy"
            /\ \E u, v \in Node : e.src = rep[u] /\ e.dst = rep[v]

LEMMA JoinsNew ==
  ASSUME TypeOK, NEW u \in Node, NEW v \in Node
  PROVE  \A e \in newCopyEdge(edges, rep, u, v) : joins(e)
<1>1. rep \in [Node -> Node] BY DEF TypeOK
<1> QED BY <1>1, NewCopyEdge DEF joins

\* handleLoad and handleStore process one edge e of their node.
LEMMA PostStep ==
  ASSUME TypeInv, handleLoad \/ handleStore
  PROVE  \E e \in todo : \E F \in SUBSET Edge :
           /\ pc = "post" /\ handleEdge(e, F) /\ \A d \in F : joins(d)
           /\ e \in Edge /\ newPts(e) \subseteq Mem /\ newPts(e) \subseteq pts[node]
           /\ \A m \in newPts(e) :
                \/ holdsNoPointer(m)
                \/ /\ e.kind = "load" /\ newCopyEdge(edges, rep, m, e.dst) \subseteq F
                \/ /\ e.kind = "store" /\ newCopyEdge(edges, rep, e.src, m) \subseteq F
<1>0. TypeOK BY DEF TypeInv
<1>1. node \in Node BY DEF handleLoad, handleStore, TypeInv, NodeThere
<1>2. \A e \in todo : /\ e \in Edge /\ e.src \in Node /\ e.dst \in Node
                      /\ newPts(e) \subseteq Mem /\ newPts(e) \subseteq pts[node]
  BY <1>0, <1>1 DEF TypeOK, Edge, newPts
<1>3. CASE handleLoad
  <2> DEFINE F(e) == UNION {newCopyEdge(edges, rep, m, e.dst) :
                              m \in {x \in newPts(e) : ~ holdsNoPointer(x)}}
  <2>1. PICK e \in todo : e.kind = "load" /\ handleEdge(e, F(e)) BY <1>3 DEF handleLoad
  <2>2. \A m \in newPts(e) : m \in Node /\ \A d \in newCopyEdge(edges, rep, m, e.dst) : joins(d)
    BY <1>0, <1>2, JoinsNew DEF Node
  <2>3. \A d \in F(e) : joins(d) BY <2>2
  <2>4. F(e) \in SUBSET Edge BY <2>3 DEF joins
  <2>5. \A m \in newPts(e) : holdsNoPointer(m) \/ newCopyEdge(edges, rep, m, e.dst) \subseteq F(e)
    OBVIOUS
  <2> HIDE DEF F
  <2> QED BY <1>2, <1>3, <2>1, <2>3, <2>4, <2>5 DEF handleLoad
<1>4. CASE handleStore
  <2> DEFINE F(e) == UNION {newCopyEdge(edges, rep, e.src, m) :
                              m \in {x \in newPts(e) : ~ holdsNoPointer(x)}}
  <2>1. PICK e \in todo : e.kind = "store" /\ handleEdge(e, F(e)) BY <1>4 DEF handleStore
  <2>2. \A m \in newPts(e) : m \in Node /\ \A d \in newCopyEdge(edges, rep, e.src, m) : joins(d)
    BY <1>0, <1>2, JoinsNew DEF Node
  <2>3. \A d \in F(e) : joins(d) BY <2>2
  <2>4. F(e) \in SUBSET Edge BY <2>3 DEF joins
  <2>5. \A m \in newPts(e) : holdsNoPointer(m) \/ newCopyEdge(edges, rep, e.src, m) \subseteq F(e)
    OBVIOUS
  <2> HIDE DEF F
  <2> QED BY <1>2, <1>4, <2>1, <2>3, <2>4, <2>5 DEF handleStore
<1> QED BY <1>3, <1>4

\* normalGepPts adds the edge from an object to its field 0, if any.
LEMMA GepCopyStep ==
  ASSUME TypeInv, normalGepPts
  PROVE  \E F \in SUBSET Edge : addCopyEdges(F) /\ \A d \in F : joins(d)
<1>0. TypeOK BY DEF TypeInv
<1> DEFINE F(m) == IF gep.e.off = 0
                     THEN newCopyEdge(edges, rep, getBaseObjNode(m), getGepObjNode(m, gep.e.off, fi))
                     ELSE {}
<1>1. PICK m \in gep.left : addCopyEdges(F(m)) BY DEF normalGepPts
<1>2. m \in Mem /\ gep.e.off \in Offset
  BY <1>0 DEF normalGepPts, TypeInv, GepThere, Edge, TypeOK
<1>3. getBaseObjNode(m) \in Node /\ getGepObjNode(m, gep.e.off, fi) \in Node
  BY <1>2, BaseNode, GepNode DEF Node
<1>4. \A d \in F(m) : joins(d) BY <1>0, <1>3, JoinsNew
<1>5. F(m) \in SUBSET Edge BY <1>4 DEF joins
<1> HIDE DEF F
<1> QED BY <1>1, <1>4, <1>5

\* updateCallGraph adds the parameter edges of the calls it resolves.
LEMMA CallStep ==
  ASSUME TypeInv, updateCallGraph
  PROVE  \E D \in SUBSET (resolvable \ called) :
           /\ \/ D = resolvable \ called \/ Cardinality(called \cup D) = IndirectCallLimit
           /\ called' = called \cup D /\ reanalyze' = (reanalyze \/ D # {})
           /\ D = {} => todo' = {}
           /\ edges' = edges \cup todo' /\ \A d \in todo' : joins(d)
           /\ \A c \in D : \A a \in c.args :
                /\ a[1] \in Node /\ a[2] \in Node
                /\ newCopyEdge(edges, rep, a[1], a[2]) \subseteq todo'
<1>0. TypeOK BY DEF TypeInv
<1>1. PICK D \in SUBSET (resolvable \ called) :
        /\ \/ D = resolvable \ called /\ Cardinality(called \cup D) <= IndirectCallLimit
           \/ Cardinality(called \cup D) = IndirectCallLimit
        /\ called' = called \cup D
        /\ reanalyze' = (reanalyze \/ changed(D))
        /\ todo' = UNION {newCopyEdge(edges, rep, a[1], a[2]) : a \in UNION {c.args : c \in D}}
        /\ edges' = edges \cup todo'
  BY DEF updateCallGraph
<1>2. \A c \in D : c \in Call BY <1>0 DEF resolvable, TypeOK, PAG
<1>3. \A c \in D : \A a \in c.args : a[1] \in Node /\ a[2] \in Node
  <2> SUFFICES ASSUME NEW c \in D, NEW a \in c.args PROVE a[1] \in Node /\ a[2] \in Node
    OBVIOUS
  <2>1. c.args \subseteq Ptr \X Ptr BY <1>2 DEF Call
  <2> QED BY <2>1 DEF Node
<1>4. \A a \in UNION {c.args : c \in D} :
        \A d \in newCopyEdge(edges, rep, a[1], a[2]) : joins(d)
  BY <1>0, <1>3, JoinsNew
<1>5. \A d \in todo' : joins(d) BY <1>1, <1>4
<1>6. reanalyze' = (reanalyze \/ D # {}) BY <1>1 DEF changed
<1>7. D = {} => todo' = {} BY <1>1
<1>8. \A c \in D : \A a \in c.args : newCopyEdge(edges, rep, a[1], a[2]) \subseteq todo'
  <2> SUFFICES ASSUME NEW c \in D, NEW a \in c.args
               PROVE  newCopyEdge(edges, rep, a[1], a[2]) \subseteq todo'
    OBVIOUS
  <2>1. a \in UNION {x.args : x \in D} OBVIOUS
  <2> QED BY <1>1, <2>1
<1>9. D = resolvable \ called \/ Cardinality(called \cup D) = IndirectCallLimit BY <1>1
<1>10. called' = called \cup D /\ edges' = edges \cup todo' BY <1>1
<1> QED BY <1>3, <1>5, <1>6, <1>7, <1>8, <1>9, <1>10

LEMMA RepNext ==
  ASSUME TypeInv, FramesOK, FramesFi, RepConsistent, MergeOK, Next
  PROVE  RepConsistent' /\ MergeOK'
<1>0. TypeOK /\ rep \in [Node -> Node] BY DEF TypeInv, TypeOK
<1>1. CASE mergeSccNodes
  <2>1. PICK c \in toMerge : \E n \in c[2] :
          /\ n \in Node /\ c[1] \in Node /\ n # c[1] /\ rep[n] = n /\ rep[c[1]] = c[1]
          /\ mergeNodeToRep(pts, n, c[1])
          /\ toMerge' = {x \in (toMerge \ {c}) \cup {<<c[1], c[2] \ {n}>>} : x[2] # {}}
    BY <1>0, <1>1, MergeSccStep
  <2>2. PICK n \in c[2] :
          /\ n \in Node /\ c[1] \in Node /\ n # c[1] /\ rep[n] = n /\ rep[c[1]] = c[1]
          /\ mergeNodeToRep(pts, n, c[1])
          /\ toMerge' = {x \in (toMerge \ {c}) \cup {<<c[1], c[2] \ {n}>>} : x[2] # {}}
    BY <2>1
  <2>3. RepConsistent' /\ \A k \in Node : rep'[k] = renamed(rep[k], n, c[1])
    BY <1>0, <2>2, MergeRep
  <2>4. \A x \in toMerge : members(x) \subseteq Node BY <1>0 DEF TypeOK, members
  <2> DEFINE new == <<c[1], c[2] \ {n}>>
  <2>5. members(new) = members(c) \ {n} BY <2>2 DEF members
  <2>6. new[1] = c[1] /\ new[2] = c[2] \ {n} OBVIOUS
  <2>7. \A x \in toMerge' : x = new \/ (x \in toMerge /\ x # c) BY <2>2
  <2> HIDE DEF new
  <2>8. \A x \in toMerge' : x[1] \notin x[2] /\ n \notin members(x)
                            /\ \A k \in members(x) : k \in Node /\ rep[k] = k
    <3> SUFFICES ASSUME NEW x \in toMerge'
                 PROVE  x[1] \notin x[2] /\ n \notin members(x)
                        /\ \A k \in members(x) : k \in Node /\ rep[k] = k
      OBVIOUS
    <3>1. CASE x = new BY <2>4, <2>5, <2>6, <3>1 DEF MergeOK
    <3>2. CASE x # new
      <4>1. x \in toMerge /\ x # c BY <2>7, <3>2
      <4>2. n \in members(c) BY DEF members
      <4> QED BY <2>4, <4>1, <4>2 DEF MergeOK
    <3> QED BY <3>1, <3>2
  <2>9. \A x, y \in toMerge' : x # y => members(x) \cap members(y) = {}
    <3> SUFFICES ASSUME NEW x \in toMerge', NEW y \in toMerge', x # y
                 PROVE  members(x) \cap members(y) = {}
      OBVIOUS
    <3>1. CASE x = new /\ y # new BY <2>5, <2>7, <3>1 DEF MergeOK
    <3>2. CASE x # new /\ y = new BY <2>5, <2>7, <3>2 DEF MergeOK
    <3>3. CASE x # new /\ y # new BY <2>7, <3>3 DEF MergeOK
    <3> QED BY <3>1, <3>2, <3>3
  <2>10. pc = "merge" /\ pc' = pc BY <1>1 DEF mergeSccNodes
  <2>11. \A x \in toMerge' : \A k \in members(x) : rep'[k] = k BY <2>3, <2>8 DEF renamed
  <2> QED BY <2>3, <2>8, <2>9, <2>10, <2>11 DEF MergeOK
<1>2. CASE collapseField
  <2>1. PICK f \in frames[1].left, b \in Mem :
          \E P : IF rep[f] # rep[b]
                   THEN /\ mergeNodeToRep(P, rep[f], rep[b])
                        /\ rep[f] \in Node /\ rep[b] \in Node
                        /\ rep[rep[f]] = rep[f] /\ rep[rep[b]] = rep[b]
                   ELSE UNCHANGED graphVars
    BY <1>2, CollapseStep
  <2>2. RepConsistent'
    <3>1. CASE rep[f] # rep[b] BY <1>0, <2>1, <3>1, MergeRep
    <3>2. CASE rep[f] = rep[b] BY <2>1, <3>2 DEF graphVars, RepConsistent
    <3> QED BY <3>1, <3>2
  <2>3. pc = "collapse" /\ pc' = pc /\ toMerge' = toMerge
    BY <1>2 DEF collapseField, inCall, collapseUnchanged, schedVars
  <2>4. MergeOK' BY <2>3 DEF MergeOK
  <2> QED BY <2>2, <2>4
<1>3. CASE handleLoad \/ handleStore
  <2>1. PICK e \in todo, F \in SUBSET Edge : pc = "post" /\ handleEdge(e, F) /\ \A d \in F : joins(d)
    BY <1>3, PostStep
  <2>2. edges' = edges \cup F /\ UNCHANGED <<rep, subs, pc, toMerge>>
    BY <2>1 DEF handleEdge, addCopyEdges, postUnchanged, schedVars
  <2> QED BY <1>0, <2>1, <2>2, GrowRep DEF MergeOK, joins
<1>4. CASE normalGepPts
  <2>1. PICK F \in SUBSET Edge : addCopyEdges(F) /\ \A d \in F : joins(d) BY <1>4, GepCopyStep
  <2>2. edges' = edges \cup F /\ UNCHANGED <<rep, subs, pc, toMerge>>
    BY <1>4, <2>1 DEF normalGepPts, addCopyEdges, gepUnchanged, schedVars
  <2> QED BY <1>0, <2>1, <2>2, GrowRep DEF MergeOK, joins
<1>5. CASE updateCallGraph
  <2>1. edges' = edges \cup todo' /\ \A d \in todo' : joins(d) BY <1>5, CallStep
  <2>2. UNCHANGED <<rep, subs, toMerge>> /\ pc # "merge" /\ pc' # "merge"
    BY <1>5 DEF updateCallGraph, callgraphUnchanged, schedVars
  <2> QED BY <1>0, <2>1, <2>2, GrowRep DEF MergeOK, joins
<1>6. CASE SCCDetect
  <2>1. PICK root \in [sccOf(edges) -> Node] :
          /\ \A c \in sccOf(edges) : root[c] \in c
          /\ toMerge' = {<<root[c], c \ {root[c]}>> : c \in sccOf(edges)}
    BY <1>6 DEF SCCDetect
  <2>2. pc' = "merge" /\ UNCHANGED graphVars BY <1>6 DEF SCCDetect
  <2>3. \A c \in sccOf(edges) : members(<<root[c], c \ {root[c]}>>) = c BY <2>1 DEF members
  <2>4. \A x \in toMerge' : x[1] \notin x[2] BY <2>1
  <2>5. \A x \in toMerge' : \E c \in sccOf(edges) :
          members(x) = c /\ x = <<root[c], c \ {root[c]}>>
    BY <2>1, <2>3
  <2>6. \A x \in toMerge' : \A k \in members(x) : rep[k] = k BY <1>0, <2>5, EndsRep
  <2>7. \A x, y \in toMerge' : x # y => members(x) \cap members(y) = {}
    <3>1. edges \in SUBSET Edge BY <1>0 DEF TypeOK
    <3>2. \A c, d \in sccOf(edges) : \A k \in c : k \in d => c = d BY <3>1, CyclesDisjoint
    <3> QED BY <2>5, <3>2
  <2> QED BY <2>2, <2>4, <2>6, <2>7 DEF MergeOK, RepConsistent, graphVars
<1>7. ASSUME \/ processAllAddr \/ mergeSccDone \/ waveNext
             \/ gepNext /\ ~ normalGepPts
             \/ collapsingNext /\ ~ collapseField
             \/ popFromWorklist \/ postDone
             \/ connectCaller2CalleeParams \/ solveAgain
      PROVE  /\ UNCHANGED <<rep, subs, edges, toMerge>>
             /\ pc # "merge" \/ toMerge = {}
  BY <1>7 DEF waveNext, gepNext, collapsingNext, processAllAddr, mergeSccDone, processNode,
       waveDone, skipMergedNode, handleCopyGep, processGep, gepBlkObjOrConstant, variantGepPts,
       processGepDone, handleGepDone, gepUnchanged, collapseNext, collapseAllDone, inCall,
       collapseNodePts, collapseFieldDone, collapseNodePtsDone, collapseUnchanged, graphVars,
       popFromWorklist, postDone, postUnchanged, connectCaller2CalleeParams, solveAgain,
       callgraphUnchanged, schedVars
<1>8. CASE UNCHANGED <<rep, subs, edges, toMerge>> /\ (pc # "merge" \/ toMerge = {})
  BY <1>8 DEF RepConsistent, MergeOK
<1> QED BY <1>1, <1>2, <1>3, <1>4, <1>5, <1>6, <1>7, <1>8 DEF Next, gepNext, collapsingNext,
           postNext, callNext

-----------------------------------------------------------------------------
(****************************************************************************)
(* The call stack, as the set of its frames.                                *)
(****************************************************************************)
calls(s) == {s[i] : i \in 1 .. Len(s)}

LEMMA CallsPush ==
  ASSUME NEW f \in Frame, NEW s \in Seq(Frame)
  PROVE  <<f>> \o s \in Seq(Frame) /\ <<f>> \o s # <<>> /\ calls(<<f>> \o s) = {f} \cup calls(s)
<1>1. /\ Len(<<f>> \o s) = Len(s) + 1 /\ Len(s) \in Nat
      /\ \A i \in 1 .. Len(s) + 1 : (<<f>> \o s)[i] = IF i = 1 THEN f ELSE s[i - 1]
      /\ <<f>> \o s \in Seq(Frame) /\ <<f>> \o s # <<>>
  BY PushFrame
<1> DEFINE t == <<f>> \o s
<1> HIDE DEF t
<1>2. calls(t) \subseteq {f} \cup calls(s)
  <2> SUFFICES ASSUME NEW i \in 1 .. Len(s) + 1 PROVE t[i] \in {f} \cup calls(s)
    BY <1>1 DEF calls, t
  <2>1. i = 1 \/ i - 1 \in 1 .. Len(s) BY <1>1
  <2> QED BY <1>1, <2>1 DEF calls, t
<1>3. t[1] = f /\ \A i \in 1 .. Len(s) : i + 1 \in 1 .. Len(t) /\ t[i + 1] = s[i]
  BY <1>1 DEF t
<1>4. {f} \cup calls(s) \subseteq calls(t)
  <2>1. 1 \in 1 .. Len(t) BY <1>1 DEF t
  <2> QED BY <1>3, <2>1 DEF calls
<1> QED BY <1>1, <1>2, <1>4 DEF t

LEMMA CallsPop ==
  ASSUME NEW s \in Seq(Frame), s # <<>>
  PROVE  /\ Tail(s) \in Seq(Frame) /\ s[1] \in Frame /\ s[1] \in calls(s)
         /\ calls(s) = {s[1]} \cup calls(Tail(s))
<1>1. /\ s[1] \in Frame /\ Len(s) \in Nat \ {0} /\ Tail(s) \in Seq(Frame)
      /\ Len(Tail(s)) = Len(s) - 1
      /\ \A i \in 1 .. Len(s) - 1 : Tail(s)[i] = s[i + 1]
  BY PopFrame
<1>2. calls(Tail(s)) \subseteq calls(s)
  <2> SUFFICES ASSUME NEW i \in 1 .. Len(s) - 1 PROVE Tail(s)[i] \in calls(s)
    BY <1>1 DEF calls
  <2>1. i + 1 \in 1 .. Len(s) BY <1>1
  <2> QED BY <1>1, <2>1 DEF calls
<1>3. \A i \in 1 .. Len(s) : s[i] \in {s[1]} \cup calls(Tail(s))
  <2> SUFFICES ASSUME NEW i \in 1 .. Len(s), i # 1 PROVE s[i] \in calls(Tail(s)) OBVIOUS
  <2>1. i - 1 \in 1 .. Len(s) - 1 /\ (i - 1) + 1 = i BY <1>1
  <2>2. Tail(s)[i - 1] = s[i] BY <1>1, <2>1
  <2> QED BY <1>1, <2>1, <2>2 DEF calls
<1>4. s[1] \in calls(s) BY <1>1 DEF calls
<1> QED BY <1>1, <1>2, <1>3, <1>4 DEF calls

\* What a step does to the call stack: a call is pushed on it, possibly above the caller
\* with one element less to go, the innermost one gives way to another or returns.
LEMMA StackStep ==
  ASSUME TypeInv, Next
  PROVE  \/ frames' = frames /\ fi \subseteq fi'
         \/ /\ processNode /\ fi' = fi
            /\ \E n \in nodeStack :
                 /\ rep[n] \in pwc /\ frames' = <<ptsFrame(pts[rep[n]], "copy")>> /\ pc' = "collapse"
         \/ \E m \in toCollapse : collapseNext /\ callCollapseField(m, "drain", <<>>)
         \/ /\ frames # <<>> /\ frames[1] \in Frame
            /\ \E m \in frames[1].left : \E g :
                 /\ g = [frames[1] EXCEPT !.left = @ \ {m}] /\ g \in Frame
                 /\ \/ frames' = <<g>> \o Tail(frames) /\ fi' = fi
                    \/ /\ collapseNodePts /\ callCollapseField(m, "collapse", <<g>> \o Tail(frames))
         \/ /\ frames # <<>> /\ frames[1].call = "collapseField" /\ frames[1].left = {} /\ fi' = fi
            /\ \E g \in Frame : g.call = "collapseNodePts" /\ frames' = <<g>> \o Tail(frames)
         \/ frames # <<>> /\ frames[1].left = {} /\ fi' = fi /\ frames' = Tail(frames)
<1>0. TypeOK /\ FramesThere BY DEF TypeInv
<1>1. CASE processNode BY <1>1 DEF processNode, objVars
<1>2. CASE collapseNext BY <1>2 DEF collapseNext
<1>3. CASE collapseNodePts \/ collapseField
  <2>1. frames # <<>> /\ frames[1] \in Frame
    BY <1>0, <1>3, PopFrame DEF collapseNodePts, collapseField, inCall, FramesThere, TypeOK
  <2>2. \A m : [frames[1] EXCEPT !.left = @ \ {m}] \in Frame BY <2>1 DEF Frame
  <2>3. \E m \in frames[1].left : \E g :
          /\ g = [frames[1] EXCEPT !.left = @ \ {m}]
          /\ \/ frames' = <<g>> \o Tail(frames) /\ fi' = fi
             \/ /\ collapseNodePts /\ callCollapseField(m, "collapse", <<g>> \o Tail(frames))
    BY <1>3 DEF collapseNodePts, collapseField, objVars
  <2> QED BY <2>1, <2>2, <2>3
<1>4. CASE collapseFieldDone
  <2>1. frames # <<>> /\ frames[1] \in Frame /\ 1 \in 1 .. Len(frames)
    BY <1>0, <1>4, PopFrame DEF collapseFieldDone, inCall, FramesThere, TypeOK
  <2>2. rep[frames[1].base] \in Node
    BY <1>0, <1>4, <2>1 DEF collapseFieldDone, inCall, FramesThere, TypeOK, Node
  <2>3. pts[rep[frames[1].base]] \in SUBSET Mem BY <1>0, <2>2 DEF TypeOK
  <2> DEFINE g == ptsFrame(pts[rep[frames[1].base]], frames[1].ret)
  <2>4. g \in Frame /\ g.call = "collapseNodePts" BY <2>1, <2>3 DEF ptsFrame, Frame
  <2>5. frames' = Tail(frames) \/ frames' = <<g>> \o Tail(frames) BY <1>4 DEF collapseFieldDone
  <2> HIDE DEF g
  <2> QED BY <1>4, <2>1, <2>4, <2>5 DEF collapseFieldDone, objVars, inCall
<1>5. CASE collapseNodePtsDone
  <2>1. frames # <<>> BY <1>0, <1>5 DEF collapseNodePtsDone, inCall, FramesThere
  <2> QED BY <1>5, <2>1 DEF collapseNodePtsDone, objVars
<1>6. CASE \/ processAllAddr \/ SCCDetect \/ mergeSccNodes \/ mergeSccDone \/ waveDone
           \/ skipMergedNode \/ handleCopyGep \/ gepNext \/ collapseAllDone \/ postNext \/ callNext
  BY <1>6 DEF processAllAddr, SCCDetect, mergeSccNodes, mergeSccDone, waveDone,
       skipMergedNode, handleCopyGep, gepNext, processGep, gepBlkObjOrConstant, variantGepPts,
       normalGepPts, processGepDone, handleGepDone, gepUnchanged, collapseAllDone, postNext,
       popFromWorklist, handleLoad, handleStore, handleEdge, postDone, postUnchanged, callNext,
       updateCallGraph, connectCaller2CalleeParams, solveAgain, callgraphUnchanged, collapseVars,
       objVars
<1> QED BY <1>1, <1>2, <1>3, <1>4, <1>5, <1>6 DEF Next, waveNext, collapsingNext

\* A frame of the stack that works on a field has a field-insensitive base.
frameFi(F, f) == f.call = "collapseField" =>
                   ObjOf(f.base) \in F /\ f.base = getBaseObjNode(f.base)

LEMMA CallFi ==
  ASSUME TypeOK, NEW m \in Mem, NEW ret \in {"drain", "collapse"}, NEW s \in Seq(Frame),
         \A f \in calls(s) : frameFi(fi, f), callCollapseField(m, ret, s)
  PROVE  fi \subseteq fi' /\ \A f \in calls(frames') : frameFi(fi', f)
<1>1. CASE isBlkObjOrConstantObj(m) \/ isSingleFieldObj(ObjOf(m))
  BY <1>1 DEF callCollapseField
<1>2. CASE ~ (isBlkObjOrConstantObj(m) \/ isSingleFieldObj(ObjOf(m)))
  <2> DEFINE f == fieldFrame(getBaseObjNode(m), fieldsOf(m), ret)
  <2>1. frames' = <<f>> \o s /\ fi' = fi \cup {ObjOf(m)} BY <1>2 DEF callCollapseField
  <2>2. f \in Frame BY BaseNode DEF fieldFrame, Frame, fieldsOf, TypeOK
  <2>3. frameFi(fi', f) BY <2>1 DEF frameFi, fieldFrame, getBaseObjNode, ObjOf
  <2> HIDE DEF f
  <2>4. calls(frames') = {f} \cup calls(s) BY <2>1, <2>2, CallsPush
  <2> QED BY <2>1, <2>3, <2>4 DEF frameFi
<1> QED BY <1>1, <1>2

LEMMA FramesFiNext ==
  ASSUME TypeInv, FramesFi, Next
  PROVE  FramesFi' /\ fi \subseteq fi'
<1>0. TypeOK /\ frames \in Seq(Frame) BY DEF TypeInv, TypeOK
<1>1. \A f \in calls(frames) : frameFi(fi, f) BY DEF FramesFi, calls, frameFi
<1>2. fi \subseteq fi' /\ \A f \in calls(frames') : frameFi(fi', f)
  <2>1. CASE frames' = frames /\ fi \subseteq fi' BY <1>1, <2>1 DEF frameFi
  <2>2. ASSUME NEW n \in Node, frames' = <<ptsFrame(pts[rep[n]], "copy")>>, fi' = fi
        PROVE  \A f \in calls(frames') : frameFi(fi', f)
    BY <2>2 DEF calls, frameFi, ptsFrame
  <2>3. ASSUME NEW m \in toCollapse, callCollapseField(m, "drain", <<>>)
        PROVE  fi \subseteq fi' /\ \A f \in calls(frames') : frameFi(fi', f)
    <3>1. m \in Mem /\ <<>> \in Seq(Frame) /\ calls(<<>>) = {} BY <1>0 DEF TypeOK, calls
    <3> QED BY <1>0, <2>3, <3>1, CallFi
  <2>4. ASSUME frames # <<>>, NEW g \in Frame, frameFi(fi, g)
        PROVE  /\ <<g>> \o Tail(frames) \in Seq(Frame)
               /\ \A f \in calls(<<g>> \o Tail(frames)) : frameFi(fi, f)
    <3>1. Tail(frames) \in Seq(Frame) /\ calls(Tail(frames)) \subseteq calls(frames)
      BY <1>0, <2>4, CallsPop
    <3>2. /\ <<g>> \o Tail(frames) \in Seq(Frame)
          /\ calls(<<g>> \o Tail(frames)) = {g} \cup calls(Tail(frames))
      BY <3>1, CallsPush
    <3> QED BY <1>1, <2>4, <3>1, <3>2
  <2>5. frames # <<>> => \A m : frameFi(fi, [frames[1] EXCEPT !.left = @ \ {m}])
    <3> SUFFICES ASSUME frames # <<>>, NEW m
                 PROVE  frameFi(fi, [frames[1] EXCEPT !.left = @ \ {m}])
      OBVIOUS
    <3>1. frames[1] \in Frame /\ frameFi(fi, frames[1]) BY <1>0, <1>1, CallsPop
    <3> QED BY <3>1 DEF frameFi, Frame
  <2>6. ASSUME frames # <<>>, frames[1] \in Frame, NEW m \in frames[1].left, NEW g \in Frame,
               g = [frames[1] EXCEPT !.left = @ \ {m}],
               \/ frames' = <<g>> \o Tail(frames) /\ fi' = fi
               \/ callCollapseField(m, "collapse", <<g>> \o Tail(frames))
        PROVE  fi \subseteq fi' /\ \A f \in calls(frames') : frameFi(fi', f)
    <3>1. frameFi(fi, g) BY <2>5, <2>6
    <3>2. /\ <<g>> \o Tail(frames) \in Seq(Frame)
          /\ \A f \in calls(<<g>> \o Tail(frames)) : frameFi(fi, f)
      BY <2>4, <2>6, <3>1
    <3>3. m \in Mem BY <2>6 DEF Frame
    <3> QED BY <1>0, <2>6, <3>2, <3>3, CallFi
  <2>7. ASSUME frames # <<>>, NEW g \in Frame, g.call = "collapseNodePts",
               frames' = <<g>> \o Tail(frames), fi' = fi
        PROVE  \A f \in calls(frames') : frameFi(fi', f)
    BY <2>4, <2>7 DEF frameFi
  <2>8. CASE frames # <<>> /\ fi' = fi /\ frames' = Tail(frames) BY <1>0, <1>1, <2>8, CallsPop
  <2> DEFINE goal == fi \subseteq fi' /\ \A f \in calls(frames') : frameFi(fi', f)
  <2>9. \A n \in nodeStack : frames' = <<ptsFrame(pts[rep[n]], "copy")>> /\ fi' = fi => goal
    BY <1>0, <2>2 DEF TypeOK
  <2>10. \A m \in toCollapse : callCollapseField(m, "drain", <<>>) => goal BY <2>3
  <2> HIDE DEF goal
  <2>11. \/ goal
         \/ /\ frames # <<>> /\ frames[1] \in Frame
            /\ \E m \in frames[1].left : \E g :
                 /\ g = [frames[1] EXCEPT !.left = @ \ {m}] /\ g \in Frame
                 /\ \/ frames' = <<g>> \o Tail(frames) /\ fi' = fi
                    \/ callCollapseField(m, "collapse", <<g>> \o Tail(frames))
    <3>1. (frames' = frames /\ fi \subseteq fi') => goal BY <2>1 DEF goal
    <3>2. \A g \in Frame : frames # <<>> /\ g.call = "collapseNodePts"
            /\ frames' = <<g>> \o Tail(frames) /\ fi' = fi => goal
      BY <2>7 DEF goal
    <3>3. (frames # <<>> /\ fi' = fi /\ frames' = Tail(frames)) => goal BY <2>8 DEF goal
    <3> QED BY <2>9, <2>10, <3>1, <3>2, <3>3, StackStep
  <2> QED BY <2>6, <2>11 DEF goal
<1> QED BY <1>2 DEF FramesFi, calls, frameFi

-----------------------------------------------------------------------------
(****************************************************************************)
(* The invariant the theorems below share.                                  *)
(****************************************************************************)
GraphInv == TypeInv /\ FramesOK /\ FramesFi /\ RepConsistent /\ MergeOK

LEMMA GraphAlways == Spec => []GraphInv
<1>1. Init => GraphInv
  <2> SUFFICES ASSUME Init PROVE GraphInv OBVIOUS
  <2>1. FramesOK /\ FramesFi BY DEF Init, FramesOK, FramesFi
  <2>2. edges \subseteq Edge BY TypeInit DEF TypeInv, TypeOK
  <2>3. \A e \in edges : e.src \in Node /\ e.dst \in Node BY <2>2 DEF Edge
  <2>4. RepConsistent BY <2>3 DEF Init, RepConsistent
  <2>5. MergeOK BY DEF Init, MergeOK
  <2> QED BY <2>1, <2>4, <2>5, TypeInit DEF GraphInv
<1>2. GraphInv /\ [Next \/ done]_vars => GraphInv'
  <2> SUFFICES ASSUME GraphInv, [Next \/ done]_vars PROVE GraphInv' OBVIOUS
  <2>1. CASE Next BY <2>1, TypeNext, FramesNext, FramesFiNext, RepNext DEF GraphInv
  <2>2. CASE UNCHANGED vars
    <3>1. TypeInv'
      BY <2>2 DEF GraphInv, vars, TypeInv, TypeOK, AddrFromMem, NodeThere, GepThere, FramesThere,
                  graphVars, objVars, ptsVars, schedVars, handlerVars, collapseVars
    <3>2. FramesOK' /\ FramesFi' /\ RepConsistent' /\ MergeOK'
      BY <2>2 DEF GraphInv, vars, FramesOK, FramesFi, RepConsistent, MergeOK, graphVars, objVars,
                  schedVars, collapseVars
    <3> QED BY <3>1, <3>2 DEF GraphInv
  <2> QED BY <2>1, <2>2 DEF done
<1> QED BY <1>1, <1>2, PTL DEF Spec

\* nodeToRepMap and nodeToSubsMap stay inverse and no edge is left at a node that was merged
\* away, by whatever merges of cycles and of collapsed fields.
THEOREM RepsConsistent == Spec => []RepConsistent
<1>1. GraphInv => RepConsistent BY DEF GraphInv
<1> QED BY <1>1, GraphAlways, PTL

-----------------------------------------------------------------------------
(****************************************************************************)
(* The cache of loads and stores.                                           *)
(****************************************************************************)
LEMMA CacheInit ==
  ASSUME Init
  PROVE  CacheHonest
BY DEF Init, CacheHonest

\* A step that adds edges only keeps the promise of what is cached.
LEMMA CacheGrow ==
  ASSUME CacheHonest, edges \subseteq edges', rep' = rep, cache' \subseteq cache
  PROVE  CacheHonest'
<1> SUFFICES ASSUME NEW x \in cache' PROVE holdsNoPointer(x[2]) \/ constrains(x[1], x[2])'
  BY DEF CacheHonest
<1>1. holdsNoPointer(x[2]) \/ constrains(x[1], x[2]) BY DEF CacheHonest
<1> QED BY <1>1, GrowLinks DEF constrains

\* So does a merge.
LEMMA CacheMerge ==
  ASSUME TypeOK, RepConsistent, CacheHonest, NEW P, NEW n \in Node, NEW r \in Node, n # r,
         rep[n] = n, rep[r] = r, mergeNodeToRep(P, n, r)
  PROVE  CacheHonest'
<1> SUFFICES ASSUME NEW x \in cache' PROVE holdsNoPointer(x[2]) \/ constrains(x[1], x[2])'
  BY DEF CacheHonest
<1>1. x \in cache BY DEF mergeNodeToRep
<1>2. x[1] \in Edge /\ x[2] \in Node BY <1>1 DEF TypeOK, Node
<1>3. x[1].src \in Node /\ x[1].dst \in Node BY <1>2 DEF Edge
<1>4. holdsNoPointer(x[2]) \/ constrains(x[1], x[2]) BY <1>1 DEF CacheHonest
<1>5. linked(x[2], x[1].dst) => linked(x[2], x[1].dst)'  BY <1>2, <1>3, MergeLinks
<1>6. linked(x[1].src, x[2]) => linked(x[1].src, x[2])'  BY <1>2, <1>3, MergeLinks
<1> QED BY <1>4, <1>5, <1>6 DEF constrains

LEMMA CacheNext ==
  ASSUME GraphInv, CacheHonest, Next
  PROVE  CacheHonest'
<1>0. TypeInv /\ TypeOK /\ FramesOK /\ FramesFi /\ RepConsistent /\ MergeOK
  BY DEF GraphInv, TypeInv
<1>1. CASE mergeSccNodes
  <2>1. \E n, r \in Node : n # r /\ rep[n] = n /\ rep[r] = r /\ mergeNodeToRep(pts, n, r)
    BY <1>0, <1>1, MergeSccStep
  <2> QED BY <1>0, <2>1, CacheMerge
<1>2. CASE collapseField
  <2>1. PICK f \in frames[1].left, b \in Mem :
          \E P : IF rep[f] # rep[b]
                   THEN /\ mergeNodeToRep(P, rep[f], rep[b])
                        /\ rep[f] \in Node /\ rep[b] \in Node
                        /\ rep[rep[f]] = rep[f] /\ rep[rep[b]] = rep[b]
                   ELSE UNCHANGED <<graphVars, cache>>
    BY <1>0, <1>2, CollapseStep
  <2>2. CASE rep[f] # rep[b] BY <1>0, <2>1, <2>2, CacheMerge
  <2>3. CASE rep[f] = rep[b] BY <2>1, <2>3, CacheGrow DEF graphVars
  <2> QED BY <2>2, <2>3
<1>3. CASE handleLoad \/ handleStore
  <2>1. PICK e \in todo, F \in SUBSET Edge :
          /\ handleEdge(e, F)
          /\ e \in Edge /\ newPts(e) \subseteq Mem
          /\ \A m \in newPts(e) :
               \/ holdsNoPointer(m)
               \/ /\ e.kind = "load" /\ newCopyEdge(edges, rep, m, e.dst) \subseteq F
               \/ /\ e.kind = "store" /\ newCopyEdge(edges, rep, e.src, m) \subseteq F
    BY <1>0, <1>3, PostStep
  <2>2. edges' = edges \cup F /\ rep' = rep /\ cache' = cache \cup {<<e, m>> : m \in newPts(e)}
    BY <2>1 DEF handleEdge, addCopyEdges, postUnchanged
  <2>3. e.src \in Node /\ e.dst \in Node BY <2>1 DEF Edge
  <2>4. \A m \in newPts(e) : holdsNoPointer(m) \/ constrains(e, m)'
    <3> SUFFICES ASSUME NEW m \in newPts(e), ~ holdsNoPointer(m) PROVE constrains(e, m)'
      OBVIOUS
    <3>1. m \in Node BY <2>1 DEF Node
    <3>2. CASE e.kind = "load" /\ newCopyEdge(edges, rep, m, e.dst) \subseteq F
      <4>1. linked(m, e.dst)' BY <1>0, <2>2, <2>3, <3>1, <3>2, NewCopyLinks
      <4> QED BY <3>2, <4>1 DEF constrains
    <3>3. CASE e.kind = "store" /\ newCopyEdge(edges, rep, e.src, m) \subseteq F
      <4>1. linked(e.src, m)' BY <1>0, <2>2, <2>3, <3>1, <3>3, NewCopyLinks
      <4> QED BY <3>3, <4>1 DEF constrains
    <3> QED BY <2>1, <3>2, <3>3
  <2>5. \A x \in cache : holdsNoPointer(x[2]) \/ constrains(x[1], x[2])'
    BY <2>2, GrowLinks DEF CacheHonest, constrains
  <2>6. \A x \in cache' : x \in cache \/ \E m \in newPts(e) : x[1] = e /\ x[2] = m BY <2>2
  <2> QED BY <2>4, <2>5, <2>6 DEF CacheHonest
<1>4. ASSUME processAllAddr \/ handleCopyGep \/ processGepDone \/ connectCaller2CalleeParams \/ quiet
      PROVE  edges' = edges /\ rep' = rep /\ cache' = cache
  BY <1>4 DEF processAllAddr, handleCopyGep, processGepDone, gepUnchanged, quiet, graphVars,
              connectCaller2CalleeParams, callgraphUnchanged
<1>5. CASE normalGepPts
  <2>1. edges \subseteq edges' BY <1>0, <1>5, GepCopyStep DEF addCopyEdges
  <2> QED BY <1>5, <2>1, CacheGrow DEF normalGepPts, gepUnchanged
<1>6. CASE updateCallGraph
  <2>1. edges \subseteq edges' BY <1>0, <1>6, CallStep
  <2> QED BY <1>6, <2>1, CacheGrow DEF updateCallGraph, callgraphUnchanged
<1>7. CASE edges' = edges /\ rep' = rep /\ cache' = cache BY <1>7, CacheGrow
<1> QED BY <1>1, <1>2, <1>3, <1>4, <1>5, <1>6, <1>7, Steps

\* What a load or store has cached it has acted on: the copy edge it needed is there, however
\* the nodes at its ends were merged since.
THEOREM CacheKept == Spec => []CacheHonest
<1>1. CacheHonest /\ GraphInv /\ [Next \/ done]_vars => CacheHonest'
  <2>1. CacheHonest /\ UNCHANGED vars => CacheHonest'
    BY DEF vars, CacheHonest, constrains, linked, graphVars, ptsVars
  <2> QED BY <2>1, CacheNext DEF done
<1> QED BY <1>1, CacheInit, GraphAlways, PTL DEF Spec

-----------------------------------------------------------------------------
(****************************************************************************)
(* What has been propagated, and that nothing is lost.                      *)
(****************************************************************************)
\* n is merged into another representative r, P being the points-to sets
merges(P, n, r) ==
  /\ replaced(P) /\ n \in Node /\ r \in Node /\ n # r /\ rep[n] = n /\ rep[r] = r
  /\ mergeNodeToRep(P, n, r)

\* After the address edges a points-to set grows, is merged into another, or has a field
\* replaced by its object.
LEMMA PtsStep ==
  ASSUME GraphInv, Next
  PROVE  \/ processAllAddr
         \/ fi' = fi /\ pc # "connect" /\ \E P, n, r : merges(P, n, r)
         \/ UNCHANGED <<edges, rep, propa, fi>> /\ pc # "connect" /\ replaced(pts')
         \/ /\ rep' = rep /\ edges \subseteq edges' /\ fi \subseteq fi'
            /\ \A n \in Node : pts[n] \subseteq pts'[n]
<1>0. TypeInv /\ TypeOK /\ FramesOK /\ FramesFi /\ RepConsistent /\ MergeOK
  BY DEF GraphInv, TypeInv
<1>00. fi \subseteq fi' /\ pts \in [Node -> SUBSET Mem] BY <1>0, FramesFiNext DEF TypeOK
<1> DEFINE grown == /\ rep' = rep /\ edges \subseteq edges'
                    /\ \A n \in Node : pts[n] \subseteq pts'[n]
<1>1. CASE mergeSccNodes
  <2>1. \E n, r \in Node : n # r /\ rep[n] = n /\ rep[r] = r /\ mergeNodeToRep(pts, n, r)
                           /\ replaced(pts)
    BY <1>0, <1>1, MergeSccStep
  <2>2. fi' = fi /\ pc # "connect" BY <1>1 DEF mergeSccNodes, objVars
  <2> QED BY <2>1, <2>2 DEF merges
<1>2. CASE collapseField
  <2>1. PICK f \in frames[1].left, b \in Mem : \E P :
          /\ replaced(P)
          /\ IF rep[f] # rep[b]
               THEN /\ mergeNodeToRep(P, rep[f], rep[b])
                    /\ rep[f] \in Node /\ rep[b] \in Node
                    /\ rep[rep[f]] = rep[f] /\ rep[rep[b]] = rep[b]
               ELSE pts' = P /\ UNCHANGED <<graphVars, revPts, propa, cache>>
    BY <1>0, <1>2, CollapseStep
  <2>2. fi' = fi /\ pc # "connect" BY <1>2 DEF collapseField, objVars, inCall
  <2>3. CASE rep[f] # rep[b] BY <2>1, <2>2, <2>3 DEF merges
  <2>4. CASE rep[f] = rep[b] BY <2>1, <2>2, <2>4 DEF graphVars
  <2> QED BY <2>3, <2>4
<1>3. \A D, S : propagate(D, S) => \A n \in Node : pts[n] \subseteq pts'[n] BY DEF propagate
<1>4. \A F : addCopyEdges(F) => edges \subseteq edges' /\ \A n \in Node : pts[n] \subseteq pts'[n]
  BY DEF addCopyEdges
<1>5. handleCopyGep \/ processGepDone => grown
  BY <1>3 DEF handleCopyGep, processGepDone, gepUnchanged, graphVars
<1>6. normalGepPts => grown
  <2>1. normalGepPts => \E F : addCopyEdges(F) BY <1>0, GepCopyStep
  <2> QED BY <1>4, <2>1 DEF normalGepPts, gepUnchanged
<1>7. handleLoad \/ handleStore => grown
  <2>1. handleLoad \/ handleStore => \E e \in todo, F \in SUBSET Edge : handleEdge(e, F)
    BY <1>0, PostStep
  <2> QED BY <1>4, <2>1 DEF handleEdge, postUnchanged
<1>8. updateCallGraph => grown
  <2>1. updateCallGraph => edges \subseteq edges' BY <1>0, CallStep
  <2> QED BY <2>1 DEF updateCallGraph, callgraphUnchanged
<1>9. connectCaller2CalleeParams => grown
  BY <1>00 DEF connectCaller2CalleeParams, callgraphUnchanged
<1>10. quiet => grown BY DEF quiet
<1> HIDE DEF grown
<1>11. grown \/ processAllAddr \/ mergeSccNodes \/ collapseField
  BY <1>5, <1>6, <1>7, <1>8, <1>9, <1>10, Steps
<1> QED BY <1>00, <1>1, <1>2, <1>11 DEF grown

\* Before the address edges are processed nothing has been propagated; what a node counts as
\* propagated it has itself, as it was or collapsed to its object.
AddrFresh   == pc = "addr" => \A n \in Node : pts[n] = {} /\ propa[n] = {}
PropaInPts  == \A n \in Node : \A m \in propa[n] : arrived(fi, pts[n], m)
PropaInv    == AddrFresh /\ PropaInPts /\ PropagatedArrived

\* No step returns to the address edges.
LEMMA AddrOnce ==
  ASSUME TypeInv, Next
  PROVE  pc' # "addr"
<1>1. TypeOK /\ FramesThere BY DEF TypeInv
<1>2. ASSUME pc = "collapse" PROVE frames[1].ret # "addr"
  BY <1>1, <1>2, PopFrame DEF FramesThere, TypeOK, Frame
<1>3. collapsingNext => pc' # "addr"
  BY <1>2 DEF collapsingNext, collapseNext, collapseAllDone, collapseNodePts, collapseField,
              collapseFieldDone, collapseNodePtsDone, callCollapseField, inCall
<1> QED
  BY <1>3 DEF Next, waveNext, gepNext, postNext, callNext, processAllAddr, SCCDetect,
       mergeSccNodes, mergeSccDone, processNode, waveDone, skipMergedNode, handleCopyGep,
       processGep, gepBlkObjOrConstant, variantGepPts, normalGepPts, processGepDone,
       handleGepDone, popFromWorklist, handleLoad, handleStore, handleEdge, postDone,
       postUnchanged, updateCallGraph, connectCaller2CalleeParams, solveAgain

LEMMA ArrivedGrow ==
  ASSUME NEW F, NEW G, F \subseteq G, NEW S, NEW U, S \subseteq U, NEW m, arrived(F, S, m)
  PROVE  arrived(G, U, m)
BY DEF arrived

\* Whatever a node points to it goes on pointing to: no merge and no collapse loses a pointee.
THEOREM NothingLost == Spec => PointeesNeverLost
<1> DEFINE A == \A n \in Node : pointees(n) \subseteq pointees(n)'
           Fresh == pc = "addr" => \A n \in Node : pts[n] = {}
<1>1. Init => Fresh BY DEF Init
<1>2. GraphInv /\ Fresh /\ [Next \/ done]_vars => Fresh'
  <2>1. GraphInv /\ Next => pc' # "addr" BY AddrOnce DEF GraphInv
  <2> QED BY <2>1 DEF vars, ptsVars, done
<1>3. ASSUME GraphInv, Fresh, Next PROVE A
  <2> SUFFICES ASSUME NEW k \in Node, NEW m \in pts[rep[k]]
               PROVE  \E x \in pts'[rep'[k]] : ObjOf(x) = ObjOf(m)
    BY DEF pointees
  <2>0. TypeOK /\ RepConsistent /\ rep[k] \in Node /\ m \in Mem
    BY <1>3 DEF GraphInv, TypeInv, TypeOK
  <2>1. CASE processAllAddr BY <1>3, <2>0, <2>1 DEF processAllAddr
  <2>2. ASSUME NEW P, replaced(P) PROVE \E x \in P[rep[k]] : ObjOf(x) = ObjOf(m)
    <3>1. arrived(fi, P[rep[k]], m) BY <2>0, <2>2 DEF replaced, arrived
    <3>2. ObjOf(getBaseObjNode(m)) = ObjOf(m) BY DEF ObjOf, getBaseObjNode
    <3> QED BY <3>1, <3>2 DEF arrived
  <2>3. ASSUME NEW P, NEW n, NEW r, merges(P, n, r)
        PROVE  \E x \in pts'[rep'[k]] : ObjOf(x) = ObjOf(m)
    <3>1. rep'[k] = renamed(rep[k], n, r) BY <2>0, <2>3, MergeRep DEF merges
    <3>2. P[rep[k]] \subseteq pts'[renamed(rep[k], n, r)]
      BY <2>0, <2>3 DEF merges, replaced, mergeNodeToRep, renamed
    <3> QED BY <2>2, <2>3, <3>1, <3>2 DEF merges
  <2>4. CASE rep' = rep /\ \A n \in Node : pts[n] \subseteq pts'[n] BY <2>0, <2>4
  <2>5. CASE rep' = rep /\ replaced(pts') BY <2>2, <2>5
  <2> QED BY <1>3, <2>1, <2>3, <2>4, <2>5, PtsStep
<1>4. GraphInv /\ Fresh /\ [Next \/ done]_vars => [A]_vars BY <1>3 DEF done
<1> QED BY <1>1, <1>2, <1>4, GraphAlways, PTL DEF Spec, PointeesNeverLost

\* a copy edge e that is done waiting for the parameters of a call
ready(e) == e.kind = "copy" /\ ~ (pc = "connect" /\ e \in todo)

LEMMA PropaMerge ==
  ASSUME GraphInv, PropaInv, pc # "connect", pc' # "connect", pc' # "addr", fi' = fi,
         NEW P, NEW n, NEW r, merges(P, n, r)
  PROVE  PropaInv'
<1>0. TypeOK /\ RepConsistent /\ edges \in SUBSET Edge /\ propa \in [Node -> SUBSET Mem]
  BY DEF GraphInv, TypeInv, TypeOK
<1>1. n \in Node /\ r \in Node /\ n # r /\ P \in [Node -> SUBSET Mem]
  BY DEF merges, replaced
<1>2. \A k \in Node : pts'[k] = IF k = r THEN P[r] \cup P[n] ELSE P[k]
  BY <1>1 DEF merges, mergeNodeToRep
<1>3. \A k \in Node : propa'[k] = IF k = r THEN propa[r] \cap propa[n] ELSE propa[k]
  BY <1>0, <1>1 DEF merges, mergeNodeToRep, updatePropaPts
<1>4. ASSUME NEW k \in Node, NEW m \in Mem, arrived(fi, pts[k], m)
      PROVE  arrived(fi, P[k], m) /\ arrived(fi, pts'[renamed(k, n, r)], m)
  <2>1. arrived(fi, P[k], m) BY <1>4 DEF merges, replaced
  <2>2. P[k] \subseteq pts'[renamed(k, n, r)] BY <1>1, <1>2 DEF renamed
  <2> QED BY <2>1, <2>2 DEF arrived
<1>5. PropaInPts'
  <2> SUFFICES ASSUME NEW k \in Node, NEW m \in propa'[k] PROVE arrived(fi, pts'[k], m)
    BY DEF PropaInPts, arrived
  <2>1. m \in propa[k] BY <1>3
  <2>2. m \in Mem /\ arrived(fi, pts[k], m) BY <1>0, <2>1 DEF PropaInv, PropaInPts
  <2>3. arrived(fi, P[k], m) BY <1>4, <2>2
  <2>4. P[k] \subseteq pts'[k] BY <1>2
  <2> QED BY <2>3, <2>4 DEF arrived
<1>6. PropagatedArrived'
  <2> SUFFICES ASSUME NEW e \in edges', e.kind = "copy", NEW m \in propa'[e.src]
               PROVE  arrived(fi, pts'[e.dst], m)
    BY DEF PropagatedArrived, arrived
  <2>1. PICK d \in edges : moved(e, d, n, r)
    BY <1>0, <1>1, MoveEdges DEF merges, mergeNodeToRep
  <2>2. d.kind = "copy" /\ d.src \in Node /\ d.dst \in Node BY <1>0, <2>1 DEF moved, Edge
  <2>3. e.src \in Node /\ e.dst \in Node BY <1>1, <2>1, <2>2 DEF moved
  <2>4. m \in propa[d.src] BY <1>1, <1>3, <2>1, <2>3 DEF moved
  <2>5. m \in Mem /\ arrived(fi, pts[d.dst], m)
    BY <1>0, <2>2, <2>4 DEF PropaInv, PropagatedArrived, arrived
  <2>6. arrived(fi, P[d.dst], m) BY <1>4, <2>2, <2>5
  <2>7. P[d.dst] \subseteq pts'[e.dst] BY <1>1, <1>2, <2>1, <2>2, <2>3 DEF moved
  <2> QED BY <2>6, <2>7 DEF arrived
<1> QED BY <1>5, <1>6 DEF PropaInv, AddrFresh

\* A step that grows points-to sets, the same sets counting as propagated; new edges carry
\* what their source has or wait for it.
LEMMA PropaGrow ==
  ASSUME GraphInv, PropaInv, pc' # "addr", propa' = propa, fi \subseteq fi',
         \A k \in Node : pts[k] \subseteq pts'[k],
         \A e \in edges' : e \in Edge /\
           (ready(e)' => (e \in edges /\ ready(e)) \/ pts[e.src] \subseteq pts'[e.dst])
  PROVE  PropaInv'
<1>0. propa \in [Node -> SUBSET Mem] BY DEF GraphInv, TypeInv, TypeOK
<1>1. PropaInPts'
  BY ArrivedGrow DEF PropaInv, PropaInPts
<1>2. PropagatedArrived'
  <2> SUFFICES ASSUME NEW e \in edges', ready(e)', NEW m \in propa[e.src]
               PROVE  arrived(fi', pts'[e.dst], m)
    BY DEF PropagatedArrived, arrived, ready
  <2>1. e.src \in Node /\ e.dst \in Node BY DEF Edge
  <2>2. CASE e \in edges /\ ready(e)
    <3>1. arrived(fi, pts[e.dst], m) BY <2>2 DEF PropaInv, PropagatedArrived, ready, arrived
    <3> QED BY <2>1, <3>1, ArrivedGrow
  <2>3. CASE pts[e.src] \subseteq pts'[e.dst]
    <3>1. arrived(fi, pts[e.src], m) BY <2>1 DEF PropaInv, PropaInPts
    <3> QED BY <2>3, <3>1, ArrivedGrow
  <2> QED BY <2>2, <2>3
<1> QED BY <1>1, <1>2 DEF PropaInv, AddrFresh

LEMMA PropaNext ==
  ASSUME GraphInv, PropaInv, Next
  PROVE  PropaInv'
<1>0. TypeInv /\ TypeOK /\ TypeOK' /\ FramesOK /\ FramesFi /\ RepConsistent /\ MergeOK
  BY TypeNext DEF GraphInv, TypeInv
<1>00. /\ fi \subseteq fi' /\ pc' # "addr" /\ edges \in SUBSET Edge /\ edges' \in SUBSET Edge
       /\ pts \in [Node -> SUBSET Mem]
  BY <1>0, FramesFiNext, AddrOnce DEF TypeOK
<1>1. CASE processAllAddr
  <2>1. \A n \in Node : propa'[n] = {}
    BY <1>1 DEF processAllAddr, PropaInv, AddrFresh
  <2>2. \A e \in edges' : e.src \in Node BY <1>00 DEF Edge
  <2> QED BY <1>00, <2>1, <2>2 DEF PropaInv, AddrFresh, PropaInPts, PropagatedArrived
<1>2. CASE mergeSccNodes
  <2>1. \E n, r : merges(pts, n, r) BY <1>0, <1>2, MergeSccStep DEF merges
  <2> QED BY <1>00, <1>2, <2>1, PropaMerge DEF mergeSccNodes, objVars
<1>3. CASE collapseField
  <2>1. PICK f \in frames[1].left, b \in Mem : \E P :
          /\ replaced(P)
          /\ IF rep[f] # rep[b]
               THEN /\ mergeNodeToRep(P, rep[f], rep[b])
                    /\ rep[f] \in Node /\ rep[b] \in Node
                    /\ rep[rep[f]] = rep[f] /\ rep[rep[b]] = rep[b]
               ELSE pts' = P /\ UNCHANGED <<graphVars, revPts, propa, cache>>
    BY <1>0, <1>3, CollapseStep
  <2>2. fi' = fi /\ pc # "connect" /\ pc' # "connect" BY <1>3 DEF collapseField, objVars, inCall
  <2>3. CASE rep[f] # rep[b]
    <3>1. \E P, n, r : merges(P, n, r) BY <2>1, <2>3 DEF merges
    <3> QED BY <1>00, <2>2, <3>1, PropaMerge
  <2>4. CASE rep[f] = rep[b]
    <3>1. replaced(pts') /\ propa' = propa /\ edges' = edges BY <2>1, <2>4 DEF graphVars
    <3>2. \A k \in Node : \A m \in Mem : arrived(fi, pts[k], m) => arrived(fi', pts'[k], m)
      BY <2>2, <3>1 DEF replaced
    <3>3. propa \in [Node -> SUBSET Mem] BY <1>0 DEF TypeOK
    <3>4. PropaInPts' BY <3>1, <3>2, <3>3 DEF PropaInv, PropaInPts
    <3>5. \A e \in edges : e.src \in Node /\ e.dst \in Node BY <1>00 DEF Edge
    <3>6. \A e \in edges : e.kind = "copy" => \A m \in propa[e.src] : arrived(fi, pts[e.dst], m)
      BY <2>2 DEF PropaInv, PropagatedArrived, arrived
    <3>7. \A e \in edges : e.kind = "copy" => \A m \in propa[e.src] : arrived(fi', pts'[e.dst], m)
      BY <3>2, <3>3, <3>5, <3>6
    <3>8. PropagatedArrived' BY <3>1, <3>7 DEF PropagatedArrived, arrived
    <3> QED BY <1>00, <3>4, <3>8 DEF PropaInv, AddrFresh
  <2> QED BY <2>3, <2>4
<1>4. CASE handleCopyGep
  <2> DEFINE D == {e.dst : e \in {x \in outgoingCopies(edges, node) : diff' # {}}}
  <2>1. /\ diff' = pts[node] \ propa[node] /\ propa' = [propa EXCEPT ![node] = pts[node]]
        /\ propagate(D, diff') /\ edges' = edges /\ pc' = "gep" /\ fi' = fi /\ pc = "copy"
    BY <1>4 DEF handleCopyGep, graphVars, objVars
  <2>2. node \in Node /\ propa \in [Node -> SUBSET Mem]
    BY <1>0, <2>1 DEF TypeInv, NodeThere, TypeOK
  <2>3. \A k \in Node : propa'[k] = IF k = node THEN pts[node] ELSE propa[k] BY <2>1, <2>2
  <2>4. \A k \in Node : pts[k] \subseteq pts'[k] /\ (k \in D => diff' \subseteq pts'[k])
    BY <2>1 DEF propagate
  <2>5. PropaInPts'
    <3> SUFFICES ASSUME NEW k \in Node, NEW m \in propa'[k] PROVE arrived(fi, pts'[k], m)
      BY <2>1 DEF PropaInPts
    <3>1. arrived(fi, pts[k], m) BY <2>3 DEF PropaInv, PropaInPts, arrived
    <3> QED BY <2>4, <3>1 DEF arrived
  <2>6. PropagatedArrived'
    <3> SUFFICES ASSUME NEW e \in edges, e.kind = "copy", NEW m \in propa'[e.src]
                 PROVE  arrived(fi, pts'[e.dst], m)
      BY <2>1 DEF PropagatedArrived, arrived
    <3>1. e.src \in Node /\ e.dst \in Node BY <1>00 DEF Edge
    <3>2. CASE m \in propa[e.src]
      <4>1. arrived(fi, pts[e.dst], m) BY <2>1, <3>2 DEF PropaInv, PropagatedArrived, arrived
      <4> QED BY <2>4, <3>1, <4>1 DEF arrived
    <3>3. CASE m \notin propa[e.src]
      <4>1. e.src = node /\ m \in diff' BY <2>1, <2>3, <3>1, <3>3
      <4>2. e.dst \in D BY <4>1 DEF outgoingCopies
      <4> HIDE DEF D
      <4> QED BY <2>4, <3>1, <4>1, <4>2 DEF arrived
    <3> QED BY <3>2, <3>3
  <2> QED BY <1>00, <2>5, <2>6 DEF PropaInv, AddrFresh
<1>5. CASE normalGepPts \/ handleLoad \/ handleStore
  <2>1. /\ propa' = propa /\ pc # "connect"
        /\ \E F \in SUBSET Edge : addCopyEdges(F)
    <3>1. CASE normalGepPts BY <1>0, <3>1, GepCopyStep DEF normalGepPts, gepUnchanged
    <3>2. CASE handleLoad \/ handleStore
      <4>1. \E e \in todo, F \in SUBSET Edge : pc = "post" /\ handleEdge(e, F)
        BY <1>0, <3>2, PostStep
      <4> QED BY <4>1 DEF handleEdge, postUnchanged
    <3> QED BY <1>5, <3>1, <3>2
  <2>2. PICK F \in SUBSET Edge : addCopyEdges(F) BY <2>1
  <2>3. edges' = edges \cup F /\ \A k \in Node : pts[k] \subseteq pts'[k]
    BY <2>2 DEF addCopyEdges
  <2>4. \A e \in F : pts[e.src] \subseteq pts'[e.dst] BY <2>2 DEF addCopyEdges, Edge
  <2>5. \A e \in edges' : ready(e)' => (e \in edges /\ ready(e)) \/ pts[e.src] \subseteq pts'[e.dst]
    BY <2>1, <2>3, <2>4 DEF ready
  <2> QED BY <1>00, <2>1, <2>3, <2>5, PropaGrow
<1>6. CASE processGepDone
  <2>1. /\ propa' = propa /\ pc # "connect" /\ edges' = edges /\ \A k \in Node : pts[k] \subseteq pts'[k]
    BY <1>6 DEF processGepDone, gepUnchanged, propagate
  <2> QED BY <1>00, <2>1, PropaGrow DEF ready
<1>7. CASE updateCallGraph
  <2>1. edges' = edges \cup todo' BY <1>0, <1>7, CallStep
  <2>2. propa' = propa /\ pts' = pts /\ pc # "connect" /\ pc' = "connect"
    BY <1>7 DEF updateCallGraph, callgraphUnchanged
  <2>3. \A e \in edges' : ready(e)' => e \in edges /\ ready(e) BY <2>1, <2>2 DEF ready
  <2> QED BY <1>00, <2>2, <2>3, PropaGrow
<1>8. CASE connectCaller2CalleeParams
  <2>1. PICK d \in todo : /\ todo' = todo \ {d}
                          /\ pts' = [pts EXCEPT ![d.dst] = @ \cup pts[d.src]]
    BY <1>8 DEF connectCaller2CalleeParams
  <2>2. d.dst \in Node BY <1>0 DEF TypeOK, Edge
  <2>3. propa' = propa /\ edges' = edges /\ pc' = pc
    BY <1>8 DEF connectCaller2CalleeParams, callgraphUnchanged
  <2>4. (\A k \in Node : pts[k] \subseteq pts'[k]) /\ pts[d.src] \subseteq pts'[d.dst]
    BY <1>00, <2>1, <2>2
  <2>5. \A e \in edges' : ready(e)' => (e \in edges /\ ready(e)) \/ pts[e.src] \subseteq pts'[e.dst]
    BY <2>1, <2>3, <2>4 DEF ready
  <2> QED BY <1>00, <2>3, <2>4, <2>5, PropaGrow
<1>9. CASE quiet /\ (pc = "connect" => todo = {})
  <2>1. propa' = propa /\ edges' = edges /\ pts' = pts BY <1>9 DEF quiet
  <2> QED BY <1>9, <1>00, <2>1, PropaGrow DEF ready
<1> QED BY <1>1, <1>2, <1>3, <1>4, <1>5, <1>6, <1>7, <1>8, <1>9, Steps

\* What a node counts as propagated has arrived at the end of each of its copy edges, as it was
\* or collapsed to its object: merging nodes may reset what counts, never overstate it.
THEOREM PropagatedStays == Spec => []PropagatedArrived
<1>1. Init => PropaInv
  <2> SUFFICES ASSUME Init PROVE PropaInv OBVIOUS
  <2>1. edges \subseteq Edge BY TypeInit DEF TypeInv, TypeOK
  <2>2. \A e \in edges : e.src \in Node BY <2>1 DEF Edge
  <2> QED BY <2>2 DEF Init, PropaInv, AddrFresh, PropaInPts, PropagatedArrived
<1>2. PropaInv /\ GraphInv /\ [Next \/ done]_vars => PropaInv'
  <2>1. PropaInv /\ UNCHANGED vars => PropaInv'
    BY DEF vars, PropaInv, AddrFresh, PropaInPts, PropagatedArrived, arrived, graphVars, ptsVars,
           objVars, handlerVars
  <2> QED BY <2>1, PropaNext DEF done
<1>3. PropaInv => PropagatedArrived BY DEF PropaInv
<1> QED BY <1>1, <1>2, <1>3, GraphAlways, PTL DEF Spec

-----------------------------------------------------------------------------
(****************************************************************************)
(* Indirect calls.                                                          *)
(****************************************************************************)
\* Resolved calls are calls of the input and their parameters are linked; when no further
\* round is asked for, every call is resolved to all its pointer reaches, or the budget is spent.
Resolved ==
  \A c \in pag.calls :
    c.callee \in pointees(c.cs) => c \in called \/ Cardinality(called) = IndirectCallLimit
CallInv ==
  /\ \A c \in called : \A a \in c.args : a[1] \in Node /\ a[2] \in Node /\ linked(a[1], a[2])
  /\ pc = "connect" => reanalyze \/ (todo = {} /\ Resolved)
  /\ pc = "done" => Resolved

\* No step is taken once the solver is done, and only updateCallGraph leaves the worklist
\* phase for the connection of parameters.
LEMMA CallPhase ==
  ASSUME TypeInv, Next
  PROVE  /\ pc # "done"
         /\ pc' = "connect" => updateCallGraph \/ connectCaller2CalleeParams
         /\ pc' = "done" => solveAgain
<1>1. TypeOK /\ FramesThere BY DEF TypeInv
<1>2. ASSUME pc = "collapse" PROVE frames[1].ret \notin {"connect", "done"}
  BY <1>1, <1>2, PopFrame DEF FramesThere, TypeOK, Frame
<1>3. collapsingNext => pc # "done" /\ pc' \notin {"connect", "done"}
  BY <1>2 DEF collapsingNext, collapseNext, collapseAllDone, collapseNodePts, collapseField,
              collapseFieldDone, collapseNodePtsDone, callCollapseField, inCall
<1>4. waveNext \/ gepNext => pc # "done" /\ pc' \notin {"connect", "done"}
  BY DEF waveNext, gepNext, processNode, waveDone, skipMergedNode, handleCopyGep, processGep,
         gepBlkObjOrConstant, variantGepPts, normalGepPts, processGepDone, handleGepDone
<1>5. \/ processAllAddr \/ SCCDetect \/ mergeSccNodes \/ mergeSccDone \/ postNext
      => pc # "done" /\ pc' \notin {"connect", "done"}
  BY DEF processAllAddr, SCCDetect, mergeSccNodes, mergeSccDone, postNext, popFromWorklist,
         handleLoad, handleStore, handleEdge, postDone, postUnchanged
<1>6. updateCallGraph \/ connectCaller2CalleeParams => pc # "done" /\ pc' = "connect"
  BY DEF updateCallGraph, connectCaller2CalleeParams
<1>7. solveAgain => pc # "done" /\ pc' # "connect" BY DEF solveAgain
<1> QED BY <1>3, <1>4, <1>5, <1>6, <1>7 DEF Next, callNext

LEMMA CallNext ==
  ASSUME GraphInv, CallInv, Next
  PROVE  CallInv'
<1>0. TypeInv /\ TypeOK /\ FramesOK /\ FramesFi /\ RepConsistent /\ MergeOK
  BY DEF GraphInv, TypeInv
<1>1. ASSUME NEW u \in Node, NEW v \in Node, linked(u, v) PROVE linked(u, v)'
  <2>1. CASE \E P, n, r : merges(P, n, r) BY <1>0, <1>1, <2>1, MergeLinks DEF merges
  <2>2. CASE edges \subseteq edges' /\ rep' = rep BY <1>1, <2>2, GrowLinks
  <2>3. CASE processAllAddr BY <2>2, <2>3 DEF processAllAddr, graphVars
  <2> QED BY <2>1, <2>2, <2>3, PtsStep
<1>2. CASE updateCallGraph
  <2>1. PICK D \in SUBSET (resolvable \ called) :
          /\ \/ D = resolvable \ called \/ Cardinality(called \cup D) = IndirectCallLimit
          /\ called' = called \cup D /\ reanalyze' = (reanalyze \/ D # {})
          /\ D = {} => todo' = {}
          /\ edges' = edges \cup todo'
          /\ \A c \in D : \A a \in c.args :
               /\ a[1] \in Node /\ a[2] \in Node
               /\ newCopyEdge(edges, rep, a[1], a[2]) \subseteq todo'
    BY <1>0, <1>2, CallStep
  <2>2. UNCHANGED <<pag, rep, pts>> /\ pc' = "connect"
    BY <1>2 DEF updateCallGraph, callgraphUnchanged
  <2>3. \A c \in D : \A a \in c.args : a[1] \in Node /\ a[2] \in Node /\ linked(a[1], a[2])'
    <3> SUFFICES ASSUME NEW c \in D, NEW a \in c.args
                 PROVE  a[1] \in Node /\ a[2] \in Node /\ linked(a[1], a[2])'
      OBVIOUS
    <3>1. a[1] \in Node /\ a[2] \in Node /\ newCopyEdge(edges, rep, a[1], a[2]) \subseteq edges'
      BY <2>1
    <3> QED BY <1>0, <2>1, <2>2, <3>1, NewCopyLinks
  <2>4. \A c \in called' : \A a \in c.args : a[1] \in Node /\ a[2] \in Node /\ linked(a[1], a[2])'
    BY <1>1, <2>1, <2>3 DEF CallInv
  <2>5. D = {} => todo' = {} /\ Resolved'
    <3> SUFFICES ASSUME D = {}, NEW c \in pag.calls, c.callee \in pointees(c.cs)
                 PROVE  c \in called \/ Cardinality(called) = IndirectCallLimit
      BY <2>1, <2>2 DEF Resolved, pointees
    <3>1. c \in resolvable BY DEF resolvable, pointees
    <3> QED BY <2>1, <3>1
  <2> QED BY <2>1, <2>2, <2>4, <2>5 DEF CallInv
<1>3. CASE ~ updateCallGraph
  <2>1. called' = called /\ pag' = pag
    <3>1. pag' = pag BY InputFixed
    <3>2. called' = called
      BY <1>3, Steps DEF processAllAddr, mergeSccNodes, handleCopyGep, normalGepPts,
         processGepDone, gepUnchanged, collapseField, collapseUnchanged, handleLoad, handleStore,
         handleEdge, postUnchanged, connectCaller2CalleeParams
    <3> QED BY <3>1, <3>2
  <2>2. \A c \in called' : \A a \in c.args : a[1] \in Node /\ a[2] \in Node /\ linked(a[1], a[2])'
    BY <1>1, <2>1 DEF CallInv
  <2>3. ASSUME pc' = "connect" PROVE reanalyze' \/ (todo' = {} /\ Resolved')
    <3>1. connectCaller2CalleeParams BY <1>0, <1>3, <2>3, CallPhase
    <3>2. todo # {} /\ pc = "connect" /\ reanalyze' = reanalyze
      BY <3>1 DEF connectCaller2CalleeParams
    <3> QED BY <3>2 DEF CallInv
  <2>4. ASSUME pc' = "done" PROVE Resolved'
    <3>1. solveAgain BY <1>0, <2>4, CallPhase
    <3>2. pc = "connect" /\ ~ reanalyze /\ UNCHANGED <<pag, rep, pts, called>>
      BY <2>4, <3>1 DEF solveAgain, callgraphUnchanged
    <3> QED BY <3>2 DEF CallInv, Resolved, pointees
  <2> QED BY <2>2, <2>3, <2>4 DEF CallInv
<1> QED BY <1>2, <1>3

\* In the answer every indirect call is resolved to every function its pointer can reach, unless
\* the budget is used up, and the parameters of a resolved call are joined.
THEOREM CallsAreResolved == Spec => []CallsResolved
<1>1. Init => CallInv BY DEF Init, CallInv
<1>2. CallInv /\ GraphInv /\ [Next \/ done]_vars => CallInv'
  <2>1. CallInv /\ UNCHANGED vars => CallInv'
    BY DEF vars, CallInv, Resolved, pointees, linked, graphVars, ptsVars, handlerVars
  <2> QED BY <2>1, CallNext DEF done
<1>3. CallInv => CallsResolved BY DEF CallInv, Resolved, CallsResolved
<1> QED BY <1>1, <1>2, <1>3, GraphAlways, PTL DEF Spec

------------------------------------------------------------------------------
(****************************************************************************)
(* Theorem of AndersenWaveDiff about collapsing: once an object has turned  *)
(* field-insensitive no answer names one of its fields.                     *)
(*                                                                          *)
(* collapseField finds the points-to sets that hold a field through the     *)
(* reverse points-to sets, and it is called for an object long after the    *)
(* object turned field-insensitive; so the invariant says who owes which    *)
(* collapse, and that the reverse sets lead to every set that holds a field *)
(* even when they name nodes merged away.                                   *)
(****************************************************************************)

isField(m) == m[2] # 0

\* collapseField(m) is still to be called, or under way with m to go
pending(m) ==
  \/ getBaseObjNode(m) \in toCollapse
  \/ \E f \in calls(frames) : f.call = "collapseField" /\ m \in f.left

\* The stack holds the calls between the wave and the innermost one, and nothing else.
StackShape ==
  /\ pc # "collapse" => frames = <<>>
  /\ \A i \in 1 .. Len(frames) : i < Len(frames) => frames[i].ret = "collapse"

\* Collapses are owed only between a variant gep and the end of the drain.
Owed ==
  toCollapse # {} => /\ pc \in {"gep", "ptd", "drain", "collapse"}
                     /\ \A f \in calls(frames) : f.ret # "copy"

(****************************************************************************)
(* The call stack.                                                          *)
(****************************************************************************)
\* A call of collapseField made on stack s.
LEMMA CallStack ==
  ASSUME TypeOK, NEW m \in Mem, NEW ret \in {"drain", "collapse"}, NEW s \in Seq(Frame),
         callCollapseField(m, ret, s)
  PROVE  \/ frames' = s /\ pc' = ret /\ fi' = fi /\ (isBlkObjOrConstantObj(m) \/ isSingleFieldObj(ObjOf(m)))
         \/ \E f \in Frame : /\ f = fieldFrame(getBaseObjNode(m), fieldsOf(m), ret)
                             /\ frames' = <<f>> \o s /\ pc' = "collapse"
                             /\ calls(frames') = {f} \cup calls(s)
                             /\ fi' = fi \cup {ObjOf(m)}
<1>1. CASE isBlkObjOrConstantObj(m) \/ isSingleFieldObj(ObjOf(m))
  BY <1>1 DEF callCollapseField
<1>2. CASE ~ (isBlkObjOrConstantObj(m) \/ isSingleFieldObj(ObjOf(m)))
  <2> DEFINE f == fieldFrame(getBaseObjNode(m), fieldsOf(m), ret)
  <2>1. f \in Frame BY BaseNode DEF fieldFrame, Frame, fieldsOf, TypeOK
  <2>2. frames' = <<f>> \o s /\ pc' = "collapse" /\ fi' = fi \cup {ObjOf(m)}
    BY <1>2 DEF callCollapseField
  <2>3. f = fieldFrame(getBaseObjNode(m), fieldsOf(m), ret) OBVIOUS
  <2> HIDE DEF f
  <2>4. calls(frames') = {f} \cup calls(s) BY <2>1, <2>2, CallsPush
  <2> QED BY <2>1, <2>2, <2>3, <2>4
<1> QED BY <1>1, <1>2

\* Only these actions touch the stack.
LEMMA StackSteps ==
  ASSUME Next
  PROVE  \/ processNode \/ collapseNext \/ collapseNodePts \/ collapseField \/ collapseFieldDone
         \/ collapseNodePtsDone
         \/ /\ frames' = frames /\ (pc' = "collapse" <=> pc = "collapse")
            /\ variantGepPts \/ (fi' = fi /\ toCollapse' = toCollapse)
<1> DEFINE other == \/ processAllAddr \/ SCCDetect \/ mergeSccNodes \/ mergeSccDone \/ waveDone
                    \/ skipMergedNode \/ handleCopyGep \/ gepNext \/ collapseAllDone \/ postNext
                    \/ callNext
<1>1. other => frames' = frames /\ (pc' = "collapse" <=> pc = "collapse")
  BY DEF processAllAddr, SCCDetect, mergeSccNodes, mergeSccDone, waveDone,
       skipMergedNode, handleCopyGep, gepNext, processGep, gepBlkObjOrConstant, variantGepPts,
       normalGepPts, processGepDone, handleGepDone, gepUnchanged, collapseAllDone, postNext,
       popFromWorklist, handleLoad, handleStore, handleEdge, postDone, postUnchanged, callNext,
       updateCallGraph, connectCaller2CalleeParams, solveAgain, callgraphUnchanged, collapseVars
<1>2. other => variantGepPts \/ (fi' = fi /\ toCollapse' = toCollapse)
  BY DEF processAllAddr, SCCDetect, mergeSccNodes, mergeSccDone, waveDone,
       skipMergedNode, handleCopyGep, gepNext, processGep, gepBlkObjOrConstant,
       normalGepPts, processGepDone, handleGepDone, collapseAllDone, postNext,
       popFromWorklist, handleLoad, handleStore, handleEdge, postDone, postUnchanged, callNext,
       updateCallGraph, connectCaller2CalleeParams, solveAgain, callgraphUnchanged, collapseVars,
       objVars
<1>3. \/ processNode \/ collapseNext \/ collapseNodePts \/ collapseField \/ collapseFieldDone
      \/ collapseNodePtsDone \/ other
  BY DEF Next, waveNext, collapsingNext
<1> HIDE DEF other
<1> QED BY <1>1, <1>2, <1>3

-----------------------------------------------------------------------------
(****************************************************************************)
(* The invariant.                                                           *)
(****************************************************************************)
\* A field f may be in a points-to set: it has a node, and if its object is
\* field-insensitive its collapse is owed.
allowedField(f) ==
  /\ f \in fields /\ ~ isBlkObjOrConstantObj(f)
  /\ ObjOf(f) \in fi /\ ~ isSingleFieldObj(ObjOf(f)) => pending(f)

\* The reverse points-to set of a field leads to every representative that holds it.
FieldsHeld ==
  \A n \in {k \in Node : rep[k] = k} : \A m \in {x \in pts[n] : isField(x)} :
    allowedField(m) /\ \E k \in revPts[m] : rep[k] = n

\* What a gep handler read from its node and what it has collected.
GepFields ==
  /\ pc \in {"gep", "ptd"} => \A m \in diff : isField(m) => ~ isBlkObjOrConstantObj(m)
  /\ pc = "ptd" =>
       /\ gep.left \subseteq diff
       /\ \A m \in gep.tmp : isField(m) => /\ m \in fields /\ ObjOf(m) \notin fi
                                           /\ ~ isBlkObjOrConstantObj(m) /\ gep.e.kind # "vgep"

\* Address edges start at whole objects, parameter edges to connect are in the graph.
EdgeFacts ==
  /\ \A e \in edges : e.kind = "addr" => ~ isField(e.src)
  /\ pc = "connect" => todo \subseteq edges

CollapseInv == StackShape /\ Owed /\ FieldsHeld /\ GepFields /\ EdgeFacts

-----------------------------------------------------------------------------
LEMMA StackNext ==
  ASSUME TypeInv, StackShape, Next
  PROVE  StackShape'
<1>0. TypeOK /\ FramesThere /\ frames \in Seq(Frame) BY DEF TypeInv, TypeOK
<1> DEFINE shape(s) == \A i \in 1 .. Len(s) : i < Len(s) => s[i].ret = "collapse"
<1>1. ASSUME NEW f \in Frame PROVE shape(<<f>> \o <<>>) /\ <<f>> \o <<>> = <<f>> /\ Len(<<f>>) = 1
  BY OneFrame
<1>2. ASSUME NEW f \in Frame, NEW s \in Seq(Frame), s = <<>> \/ f.ret = "collapse", shape(s)
      PROVE  shape(<<f>> \o s)
  <2>1. /\ Len(<<f>> \o s) = Len(s) + 1 /\ Len(s) \in Nat
        /\ \A i \in 1 .. Len(s) + 1 : (<<f>> \o s)[i] = IF i = 1 THEN f ELSE s[i - 1]
    BY PushFrame
  <2> SUFFICES ASSUME NEW i \in 1 .. Len(s) + 1, i < Len(s) + 1
               PROVE  (<<f>> \o s)[i].ret = "collapse"
    BY <2>1
  <2>2. s # <<>> BY <2>1
  <2>3. CASE i = 1 BY <1>2, <2>1, <2>2, <2>3
  <2>4. CASE i # 1
    <3>1. i - 1 \in 1 .. Len(s) /\ i - 1 < Len(s) BY <2>1, <2>4
    <3> QED BY <1>2, <2>1, <2>4, <3>1
  <2> QED BY <2>3, <2>4
<1>3. ASSUME frames # <<>>
      PROVE  /\ shape(Tail(frames)) /\ Tail(frames) \in Seq(Frame)
             /\ frames[1].ret # "collapse" => Tail(frames) = <<>>
             /\ frames[1] \in Frame
  <2>1. /\ frames[1] \in Frame /\ Len(frames) \in Nat \ {0} /\ Tail(frames) \in Seq(Frame)
        /\ Len(Tail(frames)) = Len(frames) - 1
        /\ \A i \in 1 .. Len(frames) - 1 : Tail(frames)[i] = frames[i + 1]
    BY <1>0, <1>3, PopFrame
  <2>2. shape(Tail(frames))
    <3> SUFFICES ASSUME NEW i \in 1 .. Len(frames) - 1, i < Len(frames) - 1
                 PROVE  Tail(frames)[i].ret = "collapse"
      BY <2>1
    <3>1. i + 1 \in 1 .. Len(frames) /\ i + 1 < Len(frames) BY <2>1
    <3> QED BY <2>1, <3>1 DEF StackShape
  <2>3. frames[1].ret # "collapse" => Len(Tail(frames)) = 0
    BY <2>1 DEF StackShape
  <2> QED BY <2>1, <2>2, <2>3
<1>4. ASSUME frames # <<>>, NEW g \in Frame, g.ret = frames[1].ret
      PROVE  shape(<<g>> \o Tail(frames)) /\ <<g>> \o Tail(frames) \in Seq(Frame)
  <2>1. /\ shape(Tail(frames)) /\ Tail(frames) \in Seq(Frame)
        /\ Tail(frames) = <<>> \/ g.ret = "collapse"
    BY <1>3, <1>4
  <2>2. shape(<<g>> \o Tail(frames)) BY <1>2, <2>1
  <2>3. <<g>> \o Tail(frames) \in Seq(Frame) BY <2>1, PushFrame
  <2> QED BY <2>2, <2>3
<1> HIDE DEF shape
<1>5. shape(frames) /\ shape(<<>>)
  BY DEF shape, StackShape
<1>6. StackShape' <=> ((pc' # "collapse" => frames' = <<>>) /\ shape(frames'))
  BY DEF StackShape, shape
<1>7. CASE processNode
  <2>1. PICK n \in nodeStack :
          IF rep[n] \in pwc THEN frames' = <<ptsFrame(pts[rep[n]], "copy")>> /\ pc' = "collapse"
                            ELSE pc' = "copy" /\ UNCHANGED frames
    BY <1>7 DEF processNode
  <2>2. CASE rep[n] \notin pwc
    BY <1>5, <1>6, <1>7, <2>1, <2>2 DEF processNode, StackShape
  <2>3. CASE rep[n] \in pwc
    <3>1. pts[rep[n]] \in SUBSET Mem BY <1>0 DEF TypeOK
    <3>2. ptsFrame(pts[rep[n]], "copy") \in Frame BY <3>1 DEF ptsFrame, Frame
    <3> QED BY <1>1, <1>6, <2>1, <2>3, <3>2
  <2> QED BY <2>2, <2>3
<1>8. CASE collapseNext
  <2>1. PICK m \in toCollapse : callCollapseField(m, "drain", <<>>) BY <1>8 DEF collapseNext
  <2>2. m \in Mem /\ <<>> \in Seq(Frame) BY <1>0 DEF TypeOK
  <2>3. \/ frames' = <<>> /\ pc' = "drain"
        \/ \E f \in Frame : frames' = <<f>> \o <<>> /\ pc' = "collapse"
    BY <1>0, <2>1, <2>2, CallStack
  <2> QED BY <1>1, <1>5, <1>6, <2>3
<1>9. CASE collapseNodePts \/ collapseField
  <2>1. frames # <<>> /\ frames[1] \in Frame /\ pc = "collapse"
    BY <1>0, <1>9, PopFrame DEF collapseNodePts, collapseField, inCall, FramesThere
  <2> DEFINE g(m) == [frames[1] EXCEPT !.left = @ \ {m}]
  <2>2. \A m : g(m) \in Frame /\ g(m).ret = frames[1].ret BY <2>1 DEF Frame
  <2>3. PICK m \in frames[1].left : \/ frames' = <<g(m)>> \o Tail(frames) /\ pc' = "collapse"
                                    \/ callCollapseField(m, "collapse", <<g(m)>> \o Tail(frames))
    BY <1>9, <2>1 DEF collapseNodePts, collapseField
  <2> HIDE DEF g
  <2>4. shape(<<g(m)>> \o Tail(frames)) /\ <<g(m)>> \o Tail(frames) \in Seq(Frame)
    BY <1>4, <2>1, <2>2
  <2>5. CASE callCollapseField(m, "collapse", <<g(m)>> \o Tail(frames))
    <3>1. m \in Mem BY <2>1 DEF Frame
    <3> DEFINE s == <<g(m)>> \o Tail(frames)
    <3>2. s \in Seq(Frame) /\ shape(s) /\ callCollapseField(m, "collapse", s) BY <2>4, <2>5
    <3> HIDE DEF s
    <3>3. \/ frames' = s /\ pc' = "collapse"
          \/ \E f \in Frame : /\ f = fieldFrame(getBaseObjNode(m), fieldsOf(m), "collapse")
                              /\ frames' = <<f>> \o s /\ pc' = "collapse"
      BY <1>0, <3>1, <3>2, CallStack
    <3>4. \A f : f = fieldFrame(getBaseObjNode(m), fieldsOf(m), "collapse") => f.ret = "collapse"
      BY DEF fieldFrame
    <3> QED BY <1>2, <1>6, <3>2, <3>3, <3>4
  <2> QED BY <1>6, <2>3, <2>4, <2>5
<1>10. CASE collapseFieldDone \/ collapseNodePtsDone
  <2>1. frames # <<>> /\ frames[1] \in Frame /\ pc = "collapse"
    BY <1>0, <1>10, PopFrame DEF collapseFieldDone, collapseNodePtsDone, inCall, FramesThere
  <2>2. CASE frames' = Tail(frames) /\ pc' = frames[1].ret BY <1>3, <1>6, <2>1, <2>2
  <2>3. CASE collapseFieldDone /\ pc' = pc
             /\ frames' = <<ptsFrame(pts[rep[frames[1].base]], frames[1].ret)>> \o Tail(frames)
    <3>1. rep[frames[1].base] \in Node
      BY <1>0, <2>1, <2>3, CallsPop DEF collapseFieldDone, inCall, FramesThere, TypeOK, Node
    <3>2. pts[rep[frames[1].base]] \in SUBSET Mem BY <1>0, <3>1 DEF TypeOK
    <3>3. /\ ptsFrame(pts[rep[frames[1].base]], frames[1].ret) \in Frame
          /\ ptsFrame(pts[rep[frames[1].base]], frames[1].ret).ret = frames[1].ret
      BY <2>1, <3>2 DEF ptsFrame, Frame
    <3> QED BY <1>4, <1>6, <2>1, <2>3, <3>3
  <2>4. collapseNodePtsDone => frames' = Tail(frames) /\ pc' = frames[1].ret
    BY DEF collapseNodePtsDone
  <2>5. collapseFieldDone =>
          \/ frames' = Tail(frames) /\ pc' = frames[1].ret
          \/ pc' = pc /\ frames' = <<ptsFrame(pts[rep[frames[1].base]], frames[1].ret)>> \o Tail(frames)
    BY DEF collapseFieldDone
  <2> QED BY <1>10, <2>2, <2>3, <2>4, <2>5
<1>11. CASE frames' = frames /\ (pc' = "collapse" <=> pc = "collapse")
  BY <1>5, <1>6, <1>11 DEF StackShape
<1> QED BY <1>7, <1>8, <1>9, <1>10, <1>11, StackSteps

LEMMA OwedNext ==
  ASSUME TypeInv, StackShape, Owed, Next
  PROVE  Owed'
<1>0. TypeOK /\ FramesThere /\ frames \in Seq(Frame) BY DEF TypeInv, TypeOK
<1>1. CASE processNode BY <1>1 DEF processNode, Owed
<1>2. CASE collapseNext
  <2>1. PICK m \in toCollapse : callCollapseField(m, "drain", <<>>) BY <1>2 DEF collapseNext
  <2>2. m \in Mem /\ <<>> \in Seq(Frame) /\ calls(<<>>) = {} BY <1>0 DEF TypeOK, calls
  <2>3. \/ frames' = <<>> /\ pc' = "drain"
        \/ \E f \in Frame : /\ f = fieldFrame(getBaseObjNode(m), fieldsOf(m), "drain")
                            /\ calls(frames') = {f} \cup calls(<<>>) /\ pc' = "collapse"
    BY <1>0, <2>1, <2>2, CallStack
  <2> QED BY <2>2, <2>3 DEF Owed, fieldFrame
<1>3. CASE collapseNodePts \/ collapseField
  <2>1. /\ frames # <<>> /\ frames[1] \in Frame /\ pc = "collapse" /\ toCollapse' = toCollapse
        /\ Tail(frames) \in Seq(Frame) /\ calls(frames) = {frames[1]} \cup calls(Tail(frames))
    BY <1>0, <1>3, CallsPop DEF collapseNodePts, collapseField, inCall, FramesThere
  <2> DEFINE g(m) == [frames[1] EXCEPT !.left = @ \ {m}]
  <2>2. \A m : g(m) \in Frame /\ g(m).ret = frames[1].ret BY <2>1 DEF Frame
  <2>3. PICK m \in frames[1].left : \/ frames' = <<g(m)>> \o Tail(frames) /\ pc' = "collapse"
                                    \/ callCollapseField(m, "collapse", <<g(m)>> \o Tail(frames))
    BY <1>3, <2>1 DEF collapseNodePts, collapseField
  <2> HIDE DEF g
  <2> DEFINE s == <<g(m)>> \o Tail(frames)
  <2>4. s \in Seq(Frame) /\ calls(s) = {g(m)} \cup calls(Tail(frames)) BY <2>1, <2>2, CallsPush
  <2>5. \/ frames' = s /\ pc' = "collapse"
        \/ callCollapseField(m, "collapse", s)
    BY <2>3
  <2> HIDE DEF s
  <2>6. m \in Mem BY <2>1 DEF Frame
  <2>7. \/ frames' = s /\ pc' = "collapse"
        \/ \E f \in Frame : /\ f = fieldFrame(getBaseObjNode(m), fieldsOf(m), "collapse")
                            /\ calls(frames') = {f} \cup calls(s) /\ pc' = "collapse"
    BY <1>0, <2>4, <2>5, <2>6, CallStack
  <2>8. pc' = "collapse" /\ \A f \in calls(frames') : f.ret = "collapse" \/ f \in calls(s)
    BY <2>7 DEF fieldFrame
  <2>9. \A f \in calls(s) : \E h \in calls(frames) : h.ret = f.ret BY <2>1, <2>2, <2>4
  <2> QED BY <2>1, <2>8, <2>9 DEF Owed
<1>4. CASE collapseFieldDone \/ collapseNodePtsDone
  <2>1. /\ frames # <<>> /\ frames[1] \in Frame /\ pc = "collapse" /\ toCollapse' = toCollapse
        /\ Tail(frames) \in Seq(Frame) /\ calls(frames) = {frames[1]} \cup calls(Tail(frames))
    BY <1>0, <1>4, CallsPop DEF collapseFieldDone, collapseNodePtsDone, inCall, FramesThere
  <2>2. CASE frames' = Tail(frames) /\ pc' = frames[1].ret
    <3>1. pc' \in {"copy", "drain", "collapse"} BY <2>1, <2>2 DEF Frame
    <3> QED BY <2>1, <2>2, <3>1 DEF Owed
  <2>3. CASE collapseFieldDone /\ pc' = pc
             /\ frames' = <<ptsFrame(pts[rep[frames[1].base]], frames[1].ret)>> \o Tail(frames)
    <3>1. rep[frames[1].base] \in Node
      BY <1>0, <2>1, <2>3 DEF collapseFieldDone, inCall, FramesThere, TypeOK, Node
    <3>2. pts[rep[frames[1].base]] \in SUBSET Mem BY <1>0, <3>1 DEF TypeOK
    <3> DEFINE g == ptsFrame(pts[rep[frames[1].base]], frames[1].ret)
    <3>3. g \in Frame /\ g.ret = frames[1].ret BY <2>1, <3>2 DEF ptsFrame, Frame
    <3>4. frames' = <<g>> \o Tail(frames) BY <2>3
    <3> HIDE DEF g
    <3>5. calls(frames') = {g} \cup calls(Tail(frames)) BY <2>1, <3>3, <3>4, CallsPush
    <3> QED BY <2>1, <2>3, <3>3, <3>5 DEF Owed
  <2>4. collapseNodePtsDone => frames' = Tail(frames) /\ pc' = frames[1].ret
    BY DEF collapseNodePtsDone
  <2>5. collapseFieldDone =>
          \/ frames' = Tail(frames) /\ pc' = frames[1].ret
          \/ pc' = pc /\ frames' = <<ptsFrame(pts[rep[frames[1].base]], frames[1].ret)>> \o Tail(frames)
    BY DEF collapseFieldDone
  <2> QED BY <1>4, <2>2, <2>3, <2>4, <2>5
<1>5. CASE variantGepPts
  <2>1. pc = "ptd" /\ pc' = "ptd" /\ frames' = frames /\ frames = <<>>
    BY <1>5 DEF variantGepPts, gepUnchanged, StackShape
  <2> QED BY <2>1 DEF Owed, calls
<1>6. CASE gepNext /\ ~ variantGepPts
  <2>1. pc \in {"gep", "ptd"} /\ pc' \in {"gep", "ptd", "drain"} /\ frames' = frames /\ frames = <<>>
    BY <1>6 DEF gepNext, processGep, gepBlkObjOrConstant, normalGepPts, processGepDone,
                handleGepDone, gepUnchanged, StackShape
  <2> QED BY <2>1 DEF Owed, calls
<1>7. CASE \/ processAllAddr \/ SCCDetect \/ mergeSccNodes \/ mergeSccDone \/ waveDone
           \/ skipMergedNode \/ handleCopyGep \/ collapseAllDone \/ postNext \/ callNext
  <2>1. toCollapse' = toCollapse /\ (pc \notin {"gep", "ptd", "drain", "collapse"} \/ toCollapse = {})
    BY <1>7 DEF processAllAddr, SCCDetect, mergeSccNodes, mergeSccDone, waveDone,
       skipMergedNode, handleCopyGep, collapseAllDone, postNext,
       popFromWorklist, handleLoad, handleStore, handleEdge, postDone, postUnchanged, callNext,
       updateCallGraph, connectCaller2CalleeParams, solveAgain, callgraphUnchanged, collapseVars
  <2> QED BY <2>1 DEF Owed
<1> QED BY <1>1, <1>2, <1>3, <1>4, <1>5, <1>6, <1>7 DEF Next, waveNext, collapsingNext

-----------------------------------------------------------------------------
(****************************************************************************)
(* A collapse that is owed stays owed until it is done.                     *)
(****************************************************************************)
\* Replacing or dropping the innermost call leaves the collapses of all others.
LEMMA OthersOwed ==
  ASSUME TypeOK, frames # <<>>, NEW m,
         \E f \in calls(frames) : f.call = "collapseField" /\ m \in f.left,
         ~ (frames[1].call = "collapseField" /\ m \in frames[1].left)
  PROVE  \E f \in calls(Tail(frames)) : f.call = "collapseField" /\ m \in f.left
BY CallsPop DEF TypeOK

LEMMA CollapseOwed ==
  ASSUME TypeOK, frames # <<>>, toCollapse' = toCollapse, NEW f, NEW m, m # f, pending(m),
         frames' = <<[frames[1] EXCEPT !.left = @ \ {f}]>> \o Tail(frames)
  PROVE  pending(m)'
<1>1. /\ frames[1] \in Frame /\ Tail(frames) \in Seq(Frame)
      /\ calls(frames) = {frames[1]} \cup calls(Tail(frames))
  BY CallsPop DEF TypeOK
<1> DEFINE g == [frames[1] EXCEPT !.left = @ \ {f}]
<1>2. g \in Frame /\ g.call = frames[1].call /\ g.left = frames[1].left \ {f} BY <1>1 DEF Frame
<1>3. frames' = <<g>> \o Tail(frames) OBVIOUS
<1> HIDE DEF g
<1>4. calls(frames') = {g} \cup calls(Tail(frames)) BY <1>1, <1>2, <1>3, CallsPush
<1>5. pending(m)' <=> \/ getBaseObjNode(m) \in toCollapse
                      \/ \E h \in calls(frames') : h.call = "collapseField" /\ m \in h.left
  BY DEF pending
<1> QED BY <1>1, <1>2, <1>4, <1>5 DEF pending

LEMMA OwedStays ==
  ASSUME TypeInv, StackShape, Next, ~ collapseField, NEW m \in Mem, m \in fields,
         ~ isBlkObjOrConstantObj(m), ~ isSingleFieldObj(ObjOf(m)),
         ObjOf(m) \in fi', ObjOf(m) \in fi => pending(m)
  PROVE  pending(m)'
<1>0. TypeOK /\ FramesThere /\ frames \in Seq(Frame) BY DEF TypeInv, TypeOK
<1> DEFINE held(F) == \E f \in F : f.call = "collapseField" /\ m \in f.left
<1>1. (getBaseObjNode(m) \in toCollapse' \/ held(calls(frames'))) => pending(m)'
  BY DEF pending
<1>2. pending(m) => getBaseObjNode(m) \in toCollapse \/ held(calls(frames)) BY DEF pending
<1>3. \A x \in Mem : ObjOf(x) = ObjOf(m) =>
        /\ ~ isBlkObjOrConstantObj(x) /\ ~ isSingleFieldObj(ObjOf(x)) /\ m \in fieldsOf(x)
        /\ getBaseObjNode(x) = getBaseObjNode(m)
  BY DEF isBlkObjOrConstantObj, fieldsOf, getBaseObjNode, ObjOf
\* a call for an object takes over the fields of the object
<1>4. ASSUME NEW x \in Mem, NEW ret \in {"drain", "collapse"}, NEW s \in Seq(Frame),
             callCollapseField(x, ret, s)
      PROVE  /\ held(calls(s)) => held(calls(frames'))
             /\ ObjOf(m) = ObjOf(x) => held(calls(frames'))
             /\ fi' \subseteq fi \cup {ObjOf(x)}
  <2>1. CASE /\ frames' = s /\ (isBlkObjOrConstantObj(x) \/ isSingleFieldObj(ObjOf(x)))
             /\ fi' = fi
    BY <1>3, <2>1
  <2>2. CASE \E f \in Frame : /\ f = fieldFrame(getBaseObjNode(x), fieldsOf(x), ret)
                              /\ calls(frames') = {f} \cup calls(s)
                              /\ fi' = fi \cup {ObjOf(x)}
    BY <1>3, <2>2 DEF fieldFrame
  <2> HIDE DEF held
  <2>3. \/ frames' = s /\ fi' = fi /\ (isBlkObjOrConstantObj(x) \/ isSingleFieldObj(ObjOf(x)))
        \/ \E f \in Frame : /\ f = fieldFrame(getBaseObjNode(x), fieldsOf(x), ret)
                            /\ frames' = <<f>> \o s /\ pc' = "collapse"
                            /\ calls(frames') = {f} \cup calls(s)
                            /\ fi' = fi \cup {ObjOf(x)}
    <3>1. TypeOK /\ callCollapseField(x, ret, s) BY <1>0, <1>4
    <3> QED BY <3>1, CallStack
  <2> QED BY <2>1, <2>2, <2>3
<1> HIDE DEF held
<1>5. CASE processNode
  <2>1. frames = <<>> /\ toCollapse' = toCollapse /\ fi' = fi
    BY <1>5 DEF processNode, StackShape, objVars
  <2>2. ~ held(calls(<<>>)) BY DEF held, calls
  <2> QED BY <1>1, <1>2, <2>1, <2>2
<1>6. CASE collapseNext
  <2>1. PICK x \in toCollapse : toCollapse' = toCollapse \ {x} /\ callCollapseField(x, "drain", <<>>)
    BY <1>6 DEF collapseNext
  <2>2. x \in Mem /\ <<>> \in Seq(Frame) BY <1>0 DEF TypeOK
  <2>3. frames = <<>> /\ ~ held(calls(<<>>)) BY <1>6 DEF collapseNext, StackShape, held, calls
  <2>4. getBaseObjNode(m) = x => ObjOf(x) = ObjOf(m) BY DEF getBaseObjNode, ObjOf
  <2> QED BY <1>1, <1>2, <1>4, <2>1, <2>2, <2>3, <2>4
<1>7. CASE collapseNodePts
  <2>1. /\ frames # <<>> /\ frames[1] \in Frame /\ frames[1].call = "collapseNodePts"
        /\ Tail(frames) \in Seq(Frame) /\ calls(frames) = {frames[1]} \cup calls(Tail(frames))
        /\ toCollapse' = toCollapse
    BY <1>0, <1>7, CallsPop DEF collapseNodePts, inCall, FramesThere
  <2>2. held(calls(frames)) => held(calls(Tail(frames))) BY <2>1 DEF held
  <2> DEFINE g(x) == [frames[1] EXCEPT !.left = @ \ {x}]
  <2>3. \A x : g(x) \in Frame BY <2>1 DEF Frame
  <2>4. PICK x \in frames[1].left :
          \/ frames' = <<g(x)>> \o Tail(frames) /\ fi' = fi
          \/ callCollapseField(x, "collapse", <<g(x)>> \o Tail(frames))
    BY <1>7 DEF collapseNodePts
  <2> HIDE DEF g
  <2> DEFINE s == <<g(x)>> \o Tail(frames)
  <2>5. s \in Seq(Frame) /\ calls(s) = {g(x)} \cup calls(Tail(frames)) BY <2>1, <2>3, CallsPush
  <2>6. (frames' = s /\ fi' = fi) \/ callCollapseField(x, "collapse", s) BY <2>4
  <2> HIDE DEF s
  <2>7. held(calls(frames)) => held(calls(s)) BY <2>2, <2>5 DEF held
  <2>8. x \in Mem BY <2>1 DEF Frame
  <2>9. /\ held(calls(s)) => held(calls(frames'))
        /\ ObjOf(m) \in fi' => ObjOf(m) \in fi \/ held(calls(frames'))
    <3>1. CASE frames' = s /\ fi' = fi BY <3>1
    <3>2. CASE callCollapseField(x, "collapse", s) BY <1>4, <2>5, <2>8, <3>2
    <3> QED BY <2>6, <3>1, <3>2
  <2> QED BY <1>1, <1>2, <2>1, <2>7, <2>9
<1>8. CASE collapseFieldDone \/ collapseNodePtsDone
  <2>1. /\ frames # <<>> /\ frames[1] \in Frame /\ frames[1].left = {}
        /\ Tail(frames) \in Seq(Frame) /\ calls(frames) = {frames[1]} \cup calls(Tail(frames))
        /\ toCollapse' = toCollapse /\ fi' = fi
    BY <1>0, <1>8, CallsPop DEF collapseFieldDone, collapseNodePtsDone, inCall, FramesThere, objVars
  <2>2. held(calls(frames)) => held(calls(Tail(frames))) BY <2>1 DEF held
  <2>3. \/ frames' = Tail(frames)
        \/ collapseFieldDone
           /\ frames' = <<ptsFrame(pts[rep[frames[1].base]], frames[1].ret)>> \o Tail(frames)
    BY <1>8 DEF collapseFieldDone, collapseNodePtsDone
  <2>4. CASE collapseFieldDone
             /\ frames' = <<ptsFrame(pts[rep[frames[1].base]], frames[1].ret)>> \o Tail(frames)
    <3>1. rep[frames[1].base] \in Node
      BY <1>0, <2>1, <2>4 DEF collapseFieldDone, inCall, FramesThere, TypeOK, Node
    <3>2. pts[rep[frames[1].base]] \in SUBSET Mem BY <1>0, <3>1 DEF TypeOK
    <3> DEFINE g == ptsFrame(pts[rep[frames[1].base]], frames[1].ret)
    <3>3. g \in Frame BY <2>1, <3>2 DEF ptsFrame, Frame
    <3>4. frames' = <<g>> \o Tail(frames) BY <2>4
    <3> HIDE DEF g
    <3>5. calls(frames') = {g} \cup calls(Tail(frames)) BY <2>1, <3>3, <3>4, CallsPush
    <3>6. held(calls(Tail(frames))) => held(calls(frames')) BY <3>5 DEF held
    <3> QED BY <1>1, <1>2, <2>1, <2>2, <3>6
  <2> QED BY <1>1, <1>2, <2>1, <2>2, <2>3, <2>4
<1>9. CASE variantGepPts
  <2>1. PICK x \in gep.left :
          /\ fi' = fi \cup {ObjOf(x)}
          /\ toCollapse' = toCollapse \cup {getBaseObjNode(z) : z \in {y \in {x} : ObjOf(y) \notin fi}}
    BY <1>9 DEF variantGepPts
  <2>2. frames' = frames BY <1>9 DEF variantGepPts, gepUnchanged
  <2>3. x \in Mem BY <1>0 DEF TypeOK
  <2>4. ObjOf(m) \in fi => getBaseObjNode(m) \in toCollapse' \/ held(calls(frames'))
    BY <1>2, <2>1, <2>2
  <2>5. ObjOf(m) \notin fi => getBaseObjNode(m) \in toCollapse' BY <1>3, <2>1, <2>3
  <2> QED BY <1>1, <2>4, <2>5
<1>10. CASE frames' = frames /\ fi' = fi /\ toCollapse' = toCollapse BY <1>1, <1>2, <1>10
<1> QED BY <1>5, <1>6, <1>7, <1>8, <1>9, <1>10, StackSteps

\* Fields are never forgotten.
LEMMA FieldsGrow ==
  ASSUME Next
  PROVE  fields \subseteq fields'
BY DEF Next, waveNext, gepNext, collapsingNext, postNext, callNext, processAllAddr, SCCDetect,
       mergeSccNodes, mergeSccDone, processNode, waveDone, skipMergedNode, handleCopyGep,
       processGep, gepBlkObjOrConstant, variantGepPts, normalGepPts, processGepDone,
       handleGepDone, gepUnchanged, collapseNext, collapseAllDone, collapseNodePts,
       collapseField, collapseFieldDone, collapseNodePtsDone, collapseUnchanged,
       popFromWorklist, handleLoad, handleStore, handleEdge, postDone, postUnchanged,
       updateCallGraph, connectCaller2CalleeParams, solveAgain, callgraphUnchanged, objVars

LEMMA FieldStays ==
  ASSUME TypeInv, StackShape, Next, ~ collapseField, NEW m \in Mem, allowedField(m)
  PROVE  allowedField(m)'
BY OwedStays, FieldsGrow DEF allowedField

-----------------------------------------------------------------------------
(****************************************************************************)
(* Every points-to set that holds a field can be found.                     *)
(****************************************************************************)
\* the same of points-to sets P instead of pts
held(P) ==
  \A n \in {k \in Node : rep[k] = k} : \A m \in {x \in P[n] : isField(x)} :
    \E k \in revPts[m] : rep[k] = n

LEMMA MergeHeld ==
  ASSUME TypeOK, RepConsistent, NEW P, NEW n, NEW r, merges(P, n, r), held(P)
  PROVE  \A k \in {j \in Node : rep'[j] = j} : \A m \in {x \in pts'[k] : isField(x)} :
           /\ \E j \in revPts'[m] : rep'[j] = k
           /\ \E j \in Node : rep[j] = j /\ m \in P[j]
<1>1. n \in Node /\ r \in Node /\ n # r /\ rep[n] = n /\ rep[r] = r /\ P \in [Node -> SUBSET Mem]
  BY DEF merges, replaced
<1>2. \A k \in Node : pts'[k] = IF k = r THEN P[r] \cup P[n] ELSE P[k]
  BY <1>1 DEF merges, mergeNodeToRep
<1>3. \A k \in Node : rep'[k] = renamed(rep[k], n, r) BY MergeRep DEF merges
<1>4. \A m \in Mem : revPts'[m] = IF m \in P[n] THEN revPts[m] \cup {r} ELSE revPts[m]
  BY DEF merges, mergeNodeToRep, addRevPts
<1>5. revPts \in [Mem -> SUBSET Node] BY DEF TypeOK
<1> SUFFICES ASSUME NEW k \in Node, rep'[k] = k, NEW m \in pts'[k], isField(m)
             PROVE  /\ \E j \in revPts'[m] : rep'[j] = k
                    /\ \E j \in Node : rep[j] = j /\ m \in P[j]
  OBVIOUS
<1>6. k # n /\ rep[k] = k BY <1>1, <1>3 DEF renamed
<1>7. m \in P[k] \/ (k = r /\ m \in P[n]) BY <1>2, <1>6
<1>8. m \in Mem BY <1>1, <1>7
<1>9. CASE m \in P[k]
  <2>1. PICK j \in revPts[m] : rep[j] = k BY <1>6, <1>9 DEF held
  <2>2. j \in Node /\ j \in revPts'[m] BY <1>4, <1>5, <1>8, <2>1
  <2> QED BY <1>3, <1>6, <1>9, <2>1, <2>2 DEF renamed
<1>10. CASE k = r /\ m \in P[n]
  <2>1. r \in revPts'[m] BY <1>4, <1>8, <1>10
  <2> QED BY <1>1, <1>3, <1>10, <2>1 DEF renamed
<1> QED BY <1>7, <1>9, <1>10

\* Steps that add elements to points-to sets and the nodes to the reverse sets.
LEMMA HeldGrow ==
  ASSUME TypeInv, StackShape, Next, ~ collapseField, FieldsHeld, rep' = rep, TypeOK',
         \A m \in Mem : revPts[m] \subseteq revPts'[m],
         \A n \in Node : \A m \in pts'[n] :
           \/ m \in pts[n]
           \/ n \in revPts'[m] /\ (isField(m) => allowedField(m))
  PROVE  FieldsHeld'
<1> SUFFICES ASSUME NEW n \in Node, rep[n] = n, NEW m \in pts'[n], isField(m)
             PROVE  allowedField(m)' /\ \E k \in revPts'[m] : rep[k] = n
  BY DEF FieldsHeld, isField
<1>1. m \in Mem BY DEF TypeOK
<1>2. allowedField(m) BY DEF FieldsHeld
<1>3. allowedField(m)' BY <1>1, <1>2, FieldStays
<1>4. \E k \in revPts'[m] : rep[k] = n
  <2>1. CASE m \in pts[n] BY <1>1, <2>1 DEF FieldsHeld
  <2>2. CASE n \in revPts'[m] BY <2>2
  <2> QED BY <2>1, <2>2
<1> QED BY <1>3, <1>4

LEMMA HeldCopy ==
  ASSUME TypeInv, StackShape, Next, ~ collapseField, FieldsHeld, rep' = rep, TypeOK',
         NEW F \in SUBSET Edge, addCopyEdges(F), \A e \in F : rep[e.src] = e.src
  PROVE  FieldsHeld'
<1>0. TypeOK BY DEF TypeInv
<1>1. \A m \in Mem : revPts'[m] = revPts[m] \cup {e.dst : e \in {x \in F : m \in pts[x.src]}}
  BY DEF addCopyEdges
<1>2. \A n \in Node : \A m \in pts'[n] : m \in pts[n] \/ \E e \in F : e.dst = n /\ m \in pts[e.src]
  BY DEF addCopyEdges
<1>3. ASSUME NEW n \in Node, NEW m \in pts'[n], m \notin pts[n]
      PROVE  n \in revPts'[m] /\ (isField(m) => allowedField(m))
  <2>1. PICK e \in F : e.dst = n /\ m \in pts[e.src] BY <1>2, <1>3
  <2>2. e.src \in Node BY DEF Edge
  <2>3. m \in Mem BY <1>0, <2>1, <2>2 DEF TypeOK
  <2>4. n \in revPts'[m] BY <1>1, <2>1, <2>3
  <2> QED BY <2>1, <2>2, <2>4 DEF FieldsHeld
<1> QED BY <1>1, <1>3, HeldGrow

LEMMA HeldPropagate ==
  ASSUME TypeInv, StackShape, Next, ~ collapseField, FieldsHeld, rep' = rep, TypeOK',
         NEW D, NEW S, propagate(D, S), \A m \in S : isField(m) => allowedField(m)
  PROVE  FieldsHeld'
<1>0. TypeOK BY DEF TypeInv
<1>1. \A m \in Mem : revPts'[m] = IF m \in S THEN revPts[m] \cup D ELSE revPts[m]
  BY DEF propagate, addRevPts
<1>2. \A n \in Node : \A m \in pts'[n] : m \in pts[n] \/ (n \in D /\ m \in S)
  BY DEF propagate
<1>3. \A n \in Node : \A m \in pts'[n] : m \in Mem BY DEF TypeOK
<1>4. \A n \in Node : \A m \in pts'[n] :
        m \in pts[n] \/ (n \in revPts'[m] /\ (isField(m) => allowedField(m)))
  BY <1>1, <1>2, <1>3
<1> QED BY <1>1, <1>4, HeldGrow

LEMMA HeldNext ==
  ASSUME GraphInv, CollapseInv, Next
  PROVE  FieldsHeld'
<1>0. /\ TypeInv /\ TypeOK /\ FramesOK /\ FramesFi /\ RepConsistent /\ MergeOK
      /\ StackShape /\ Owed /\ FieldsHeld /\ GepFields /\ EdgeFacts
  BY DEF GraphInv, TypeInv, CollapseInv
<1>00. TypeOK' /\ \A e \in edges : e.src \in Node /\ e.dst \in Node
  BY <1>0, TypeNext DEF TypeInv, TypeOK, Edge
<1>1. CASE processAllAddr
  <2>1. \A n \in Node : \A m \in pts'[n] : ~ isField(m)
    BY <1>0, <1>1 DEF processAllAddr, addrs, EdgeFacts
  <2> QED BY <2>1 DEF FieldsHeld, isField
<1>2. CASE mergeSccNodes
  <2>1. PICK n, r : merges(pts, n, r) BY <1>0, <1>2, MergeSccStep DEF merges
  <2>2. held(pts) BY <1>0 DEF held, FieldsHeld
  <2>3. ~ collapseField BY <1>2 DEF mergeSccNodes, collapseField, inCall
  <2> SUFFICES ASSUME NEW k \in Node, rep'[k] = k, NEW m \in pts'[k], isField(m)
               PROVE  allowedField(m)' /\ \E j \in revPts'[m] : rep'[j] = k
    BY DEF FieldsHeld, isField
  <2>4. (\E j \in revPts'[m] : rep'[j] = k) /\ \E j \in Node : rep[j] = j /\ m \in pts[j]
    BY <1>0, <2>1, <2>2, MergeHeld
  <2>5. allowedField(m) /\ m \in Mem BY <1>0, <2>4 DEF FieldsHeld, TypeOK
  <2> QED BY <1>0, <2>3, <2>4, <2>5, FieldStays
<1>3. CASE collapseField
  <2>1. PICK f \in frames[1].left, b \in Mem : \E P :
           /\ frames # <<>> /\ f \in Mem /\ b = getBaseObjNode(f)
           /\ P = [n \in Node |-> replaceField(n, f, b)] /\ replaced(P)
           /\ IF rep[f] # rep[b]
                THEN /\ mergeNodeToRep(P, rep[f], rep[b])
                     /\ rep[f] \in Node /\ rep[b] \in Node
                     /\ rep[rep[f]] = rep[f] /\ rep[rep[b]] = rep[b]
                ELSE pts' = P /\ UNCHANGED <<graphVars, revPts, propa, cache>>
           /\ frames' = <<[frames[1] EXCEPT !.left = @ \ {f}]>> \o Tail(frames)
    BY <1>0, <1>3, CollapseStep
  <2>2. PICK P :
           /\ frames # <<>> /\ f \in Mem /\ b = getBaseObjNode(f)
           /\ P = [n \in Node |-> replaceField(n, f, b)] /\ replaced(P)
           /\ IF rep[f] # rep[b]
                THEN /\ mergeNodeToRep(P, rep[f], rep[b])
                     /\ rep[f] \in Node /\ rep[b] \in Node
                     /\ rep[rep[f]] = rep[f] /\ rep[rep[b]] = rep[b]
                ELSE pts' = P /\ UNCHANGED <<graphVars, revPts, propa, cache>>
           /\ frames' = <<[frames[1] EXCEPT !.left = @ \ {f}]>> \o Tail(frames)
    BY <2>1
  <2>3. toCollapse' = toCollapse /\ fi' = fi /\ fields' = fields
    BY <1>3 DEF collapseField, objVars
  \* no representative holds f any more
  <2>4. \A k \in {j \in Node : rep[j] = j} : \A m \in {x \in P[k] : isField(x)} :
          m \in pts[k] /\ m # f
    <3> SUFFICES ASSUME NEW k \in Node, rep[k] = k, NEW m \in replaceField(k, f, b), isField(m)
                 PROVE  m \in pts[k] /\ m # f
      BY <2>2
    <3>1. ~ isField(b) BY <2>2 DEF isField, getBaseObjNode
    <3>2. CASE \E j \in revPts[f] : rep[j] = k BY <3>1, <3>2 DEF replaceField
    <3>3. CASE ~ \E j \in revPts[f] : rep[j] = k
      <4>1. m \in pts[k] BY <3>3 DEF replaceField
      <4> QED BY <1>0, <3>3, <4>1 DEF FieldsHeld
    <3> QED BY <3>2, <3>3
  <2>5. held(P) BY <1>0, <2>4 DEF held, FieldsHeld
  <2>6. \A m : isField(m) /\ (\E j \in Node : rep[j] = j /\ m \in P[j]) => allowedField(m)'
    <3> SUFFICES ASSUME NEW m, isField(m), NEW j \in Node, rep[j] = j, m \in P[j]
                 PROVE  allowedField(m)'
      OBVIOUS
    <3>1. m \in pts[j] /\ m # f BY <2>4
    <3>2. allowedField(m) BY <1>0, <3>1 DEF FieldsHeld
    <3>3. pending(m) => pending(m)' BY <1>0, <2>2, <2>3, <3>1, CollapseOwed
    <3> QED BY <2>3, <3>2, <3>3 DEF allowedField
  <2>7. CASE rep[f] # rep[b]
    <3>1. merges(P, rep[f], rep[b]) BY <2>2, <2>7 DEF merges
    <3>2. \A k \in {j \in Node : rep'[j] = j} : \A m \in {x \in pts'[k] : isField(x)} :
            /\ \E j \in revPts'[m] : rep'[j] = k
            /\ \E j \in Node : rep[j] = j /\ m \in P[j]
      BY <1>0, <2>5, <3>1, MergeHeld
    <3> QED BY <2>6, <3>2 DEF FieldsHeld, isField
  <2>8. CASE rep[f] = rep[b]
    <3>1. pts' = P /\ revPts' = revPts /\ rep' = rep BY <2>2, <2>8 DEF graphVars
    <3>2. \A k \in {j \in Node : rep[j] = j} : \A m \in {x \in P[k] : isField(x)} :
            allowedField(m)' /\ \E j \in revPts[m] : rep[j] = k
      BY <2>5, <2>6 DEF held
    <3> QED BY <3>1, <3>2 DEF FieldsHeld, isField
  <2> QED BY <2>7, <2>8
<1>4. CASE handleCopyGep
  <2>1. /\ rep[node] = node /\ diff' = pts[node] \ propa[node] /\ rep' = rep /\ pc = "copy"
        /\ propagate({e.dst : e \in {x \in outgoingCopies(edges, node) : diff' # {}}}, diff')
    BY <1>4 DEF handleCopyGep, graphVars
  <2>2. node \in Node BY <1>0, <2>1 DEF TypeInv, NodeThere
  <2>3. \A m \in diff' : isField(m) => allowedField(m)
    BY <1>0, <2>1, <2>2 DEF FieldsHeld
  <2>4. ~ collapseField BY <2>1 DEF collapseField, inCall
  <2> QED BY <1>0, <1>00, <2>1, <2>3, <2>4, HeldPropagate
<1>5. CASE processGepDone
  <2>1. propagate({gep.e.dst}, gep.tmp) /\ rep' = rep /\ pc = "ptd"
    BY <1>5 DEF processGepDone, gepUnchanged
  <2>2. \A m \in gep.tmp : isField(m) => allowedField(m)
    BY <1>0, <2>1 DEF GepFields, allowedField
  <2>3. ~ collapseField BY <2>1 DEF collapseField, inCall
  <2> QED BY <1>0, <1>00, <2>1, <2>2, <2>3, HeldPropagate
<1>6. CASE normalGepPts \/ handleLoad \/ handleStore
  <2>1. /\ rep' = rep /\ pc # "collapse"
        /\ \E F \in SUBSET Edge : addCopyEdges(F) /\ \A d \in F : joins(d)
    <3>1. CASE normalGepPts BY <1>0, <3>1, GepCopyStep DEF normalGepPts, gepUnchanged
    <3>2. CASE handleLoad \/ handleStore
      <4>1. \E e \in todo, F \in SUBSET Edge :
              pc = "post" /\ handleEdge(e, F) /\ \A d \in F : joins(d)
        BY <1>0, <3>2, PostStep
      <4> QED BY <4>1 DEF handleEdge, postUnchanged
    <3> QED BY <1>6, <3>1, <3>2
  <2>2. PICK F \in SUBSET Edge : addCopyEdges(F) /\ \A d \in F : joins(d) BY <2>1
  <2>3. \A d \in F : rep[d.src] = d.src BY <1>0, <2>2 DEF joins, RepConsistent
  <2>4. ~ collapseField BY <2>1 DEF collapseField, inCall
  <2> QED BY <1>0, <1>00, <2>1, <2>2, <2>3, <2>4, HeldCopy
<1>7. CASE updateCallGraph
  <2>1. rep' = rep /\ pts' = pts /\ revPts' = revPts /\ ~ collapseField
    BY <1>7 DEF updateCallGraph, callgraphUnchanged, collapseField, inCall
  <2> QED BY <1>0, <1>00, <2>1, HeldGrow
<1>8. CASE connectCaller2CalleeParams
  <2>1. PICK d \in todo : /\ pts' = [pts EXCEPT ![d.dst] = @ \cup pts[d.src]]
                          /\ revPts' = addRevPts(revPts, {d.dst}, pts[d.src])
    BY <1>8 DEF connectCaller2CalleeParams
  <2>2. rep' = rep /\ pc = "connect" /\ ~ collapseField
    BY <1>8 DEF connectCaller2CalleeParams, callgraphUnchanged, collapseField, inCall
  <2>3. d.src \in Node /\ d.dst \in Node /\ rep[d.src] = d.src
    BY <1>0, <1>00, <2>2 DEF EdgeFacts, RepConsistent
  <2>4. \A m \in Mem : revPts'[m] = IF m \in pts[d.src] THEN revPts[m] \cup {d.dst} ELSE revPts[m]
    BY <2>1 DEF addRevPts
  <2>5. \A n \in Node : \A m \in pts'[n] :
          m \in Mem /\ (m \in pts[n] \/ (n = d.dst /\ m \in pts[d.src]))
    BY <1>0, <1>00, <2>1, <2>3 DEF TypeOK
  <2>6. \A n \in Node : \A m \in pts'[n] :
          m \in pts[n] \/ (n \in revPts'[m] /\ (isField(m) => allowedField(m)))
    BY <1>0, <2>3, <2>4, <2>5 DEF FieldsHeld
  <2> QED BY <1>0, <1>00, <2>2, <2>4, <2>6, HeldGrow
<1>9. CASE quiet /\ ~ collapseField
  <2>1. rep' = rep /\ pts' = pts /\ revPts' = revPts BY <1>9 DEF quiet
  <2> QED BY <1>0, <1>00, <1>9, <2>1, HeldGrow
<1> QED BY <1>1, <1>2, <1>3, <1>4, <1>5, <1>6, <1>7, <1>8, <1>9, Steps

-----------------------------------------------------------------------------
LEMMA GepFieldsNext ==
  ASSUME GraphInv, CollapseInv, Next
  PROVE  GepFields'
<1>0. /\ TypeInv /\ TypeOK /\ FramesThere /\ FieldsHeld /\ GepFields
  BY DEF GraphInv, TypeInv, CollapseInv
<1>1. CASE handleCopyGep
  <2>1. rep[node] = node /\ diff' = pts[node] \ propa[node] /\ pc = "copy" /\ pc' = "gep"
    BY <1>1 DEF handleCopyGep
  <2>2. node \in Node BY <1>0, <2>1 DEF TypeInv, NodeThere
  <2>3. \A m \in diff' : isField(m) => ~ isBlkObjOrConstantObj(m)
    BY <1>0, <2>1, <2>2 DEF FieldsHeld, allowedField
  <2> QED BY <2>1, <2>3 DEF GepFields
<1>2. CASE processGep
  <2>1. gep'.left = diff /\ gep'.tmp = {} /\ diff' = diff /\ pc = "gep"
    BY <1>2 DEF processGep, gepUnchanged
  <2> QED BY <1>0, <2>1 DEF GepFields
<1>3. ASSUME NEW m \in gep.left, NEW S, gepStep(m, S), pc = "ptd", pc' = pc, diff' = diff,
             \A x \in gep.tmp \cup S : isField(x) => /\ x \in fields' /\ ObjOf(x) \notin fi'
                                                     /\ ~ isBlkObjOrConstantObj(x)
                                                     /\ gep.e.kind # "vgep"
      PROVE  GepFields'
  <2>1. gep'.e = gep.e /\ gep'.left = gep.left \ {m} /\ gep'.tmp = gep.tmp \cup S
    BY <1>0, <1>3 DEF gepStep, TypeOK
  <2> QED BY <1>0, <1>3, <2>1 DEF GepFields, isField
<1>4. CASE gepBlkObjOrConstant
  <2>1. PICK m \in gep.left : isBlkObjOrConstantObj(m) /\ gepStep(m, {m})
    BY <1>4 DEF gepBlkObjOrConstant
  <2>2. pc = "ptd" /\ pc' = pc /\ diff' = diff /\ fi' = fi /\ fields' = fields
    BY <1>4 DEF gepBlkObjOrConstant, gepUnchanged, objVars
  <2>3. ~ isField(m) BY <1>0, <2>1, <2>2 DEF GepFields
  <2>4. \A x \in gep.tmp \cup {m} :
          isField(x) => /\ x \in fields' /\ ObjOf(x) \notin fi' /\ ~ isBlkObjOrConstantObj(x)
                        /\ gep.e.kind # "vgep"
    BY <1>0, <2>2, <2>3 DEF GepFields
  <2> QED BY <1>3, <2>1, <2>2, <2>4
<1>5. CASE variantGepPts
  <2>1. PICK m \in gep.left : gepStep(m, {getBaseObjNode(m)}) BY <1>5 DEF variantGepPts
  <2>2. pc = "ptd" /\ pc' = pc /\ diff' = diff /\ gep.e.kind = "vgep"
    BY <1>5 DEF variantGepPts, gepUnchanged
  <2>3. ~ isField(getBaseObjNode(m)) BY DEF isField, getBaseObjNode
  <2>4. \A x \in gep.tmp \cup {getBaseObjNode(m)} : ~ isField(x)
    BY <1>0, <2>2, <2>3 DEF GepFields
  <2> QED BY <1>3, <2>1, <2>2, <2>4
<1>6. CASE normalGepPts
  <2>1. PICK m \in gep.left :
          /\ ~ isBlkObjOrConstantObj(m)
          /\ gepStep(m, {getGepObjNode(m, gep.e.off, fi)})
          /\ fields' = fields \cup ({getGepObjNode(m, gep.e.off, fi)} \ {getBaseObjNode(m)})
    BY <1>6 DEF normalGepPts
  <2>2. pc = "ptd" /\ pc' = pc /\ diff' = diff /\ fi' = fi /\ gep.e.kind = "gep"
    BY <1>6 DEF normalGepPts, gepUnchanged
  <2> DEFINE f == getGepObjNode(m, gep.e.off, fi)
  <2>3. m \in Mem /\ gep.e.off \in Offset BY <1>0, <2>2 DEF TypeInv, GepThere, Edge, TypeOK
  <2>4. ObjOf(f) = ObjOf(m) BY <2>3, GepNode
  <2>5. ~ isBlkObjOrConstantObj(f) BY <2>1, <2>4 DEF isBlkObjOrConstantObj
  <2>6. isField(f) => ObjOf(m) \notin fi /\ f # getBaseObjNode(m)
    BY DEF isField, getGepObjNode, getBaseObjNode
  <2>7. isField(f) => f \in fields' /\ ObjOf(f) \notin fi' /\ ~ isBlkObjOrConstantObj(f)
    BY <2>1, <2>2, <2>4, <2>5, <2>6
  <2> HIDE DEF f
  <2>8. \A x \in gep.tmp \cup {f} :
          isField(x) => /\ x \in fields' /\ ObjOf(x) \notin fi' /\ ~ isBlkObjOrConstantObj(x)
                        /\ gep.e.kind # "vgep"
    <3>1. fields \subseteq fields' BY <2>1
    <3> QED BY <1>0, <2>2, <2>7, <3>1 DEF GepFields
  <2>9. gepStep(m, {f}) BY <2>1 DEF f
  <2> QED BY <1>3, <2>2, <2>8, <2>9
<1>7. CASE processGepDone
  <2>1. pc = "ptd" /\ pc' = "gep" /\ diff' = diff BY <1>7 DEF processGepDone, gepUnchanged
  <2> QED BY <1>0, <2>1 DEF GepFields
<1>8. CASE pc' \notin {"gep", "ptd"} BY <1>8 DEF GepFields
<1>9. collapsingNext => pc' \notin {"gep", "ptd"}
  <2>1. ASSUME pc = "collapse" PROVE frames[1].ret \notin {"gep", "ptd"}
    BY <1>0, <2>1, PopFrame DEF FramesThere, TypeOK, Frame
  <2> QED
    BY <2>1 DEF collapsingNext, collapseNext, collapseAllDone, collapseNodePts, collapseField,
                collapseFieldDone, collapseNodePtsDone, callCollapseField, inCall
<1>10. \/ processAllAddr \/ SCCDetect \/ mergeSccNodes \/ mergeSccDone \/ processNode \/ waveDone
       \/ skipMergedNode \/ handleGepDone \/ postNext \/ callNext
       => pc' \notin {"gep", "ptd"}
  BY DEF processAllAddr, SCCDetect, mergeSccNodes, mergeSccDone, processNode, waveDone,
         skipMergedNode, handleGepDone, postNext, popFromWorklist, handleLoad, handleStore,
         handleEdge, postDone, postUnchanged, callNext, updateCallGraph,
         connectCaller2CalleeParams, solveAgain
<1> QED BY <1>1, <1>2, <1>4, <1>5, <1>6, <1>7, <1>8, <1>9, <1>10 DEF Next, waveNext, gepNext

LEMMA EdgeFactsNext ==
  ASSUME GraphInv, EdgeFacts, Next
  PROVE  EdgeFacts'
<1>0. TypeInv /\ TypeOK /\ FramesOK /\ FramesFi /\ RepConsistent /\ MergeOK /\ edges \in SUBSET Edge
  BY DEF GraphInv, TypeInv, TypeOK
<1> DEFINE fromObj(E) == \A e \in E : e.kind = "addr" => ~ isField(e.src)
<1>1. fromObj(edges) BY DEF EdgeFacts
<1>2. ASSUME NEW P, NEW n, NEW r, merges(P, n, r) PROVE fromObj(edges')
  <2>1. \A e \in edges' : \E d \in edges : moved(e, d, n, r)
    BY <1>0, <1>2, MoveEdges DEF merges, mergeNodeToRep
  <2> QED BY <1>1, <2>1 DEF moved
<1>3. ASSUME NEW F, edges' = edges \cup F, \A d \in F : joins(d) PROVE fromObj(edges')
  BY <1>1, <1>3 DEF joins
<1>4. fromObj(edges')
  <2> HIDE DEF fromObj
  <2>1. CASE mergeSccNodes
    <3>1. \E n, r : merges(pts, n, r) BY <1>0, <2>1, MergeSccStep DEF merges
    <3> QED BY <1>2, <3>1
  <2>2. CASE collapseField
    <3>1. PICK f \in frames[1].left, b \in Mem : \E P :
            /\ replaced(P)
            /\ IF rep[f] # rep[b]
                 THEN /\ mergeNodeToRep(P, rep[f], rep[b])
                      /\ rep[f] \in Node /\ rep[b] \in Node
                      /\ rep[rep[f]] = rep[f] /\ rep[rep[b]] = rep[b]
                 ELSE UNCHANGED graphVars
      BY <1>0, <2>2, CollapseStep
    <3>2. CASE rep[f] # rep[b] BY <1>2, <3>1, <3>2 DEF merges
    <3>3. CASE rep[f] = rep[b]
      <4>1. edges' = edges BY <3>1, <3>3 DEF graphVars
      <4> QED BY <1>1, <4>1
    <3> QED BY <3>2, <3>3
  <2>3. CASE normalGepPts
    <3>1. \E F : edges' = edges \cup F /\ \A d \in F : joins(d)
      BY <1>0, <2>3, GepCopyStep DEF addCopyEdges
    <3> QED BY <1>3, <3>1
  <2>4. CASE handleLoad \/ handleStore
    <3>1. \E F : edges' = edges \cup F /\ \A d \in F : joins(d)
      BY <1>0, <2>4, PostStep DEF handleEdge, addCopyEdges
    <3> QED BY <1>3, <3>1
  <2>5. CASE updateCallGraph
    <3>1. edges' = edges \cup todo' /\ \A d \in todo' : joins(d) BY <1>0, <2>5, CallStep
    <3> QED BY <1>3, <3>1
  <2>6. ASSUME processAllAddr \/ handleCopyGep \/ processGepDone \/ connectCaller2CalleeParams \/ quiet
        PROVE  fromObj(edges')
    <3>1. edges' = edges
      BY <2>6 DEF processAllAddr, handleCopyGep, processGepDone, connectCaller2CalleeParams, quiet,
                  graphVars, callgraphUnchanged
    <3> QED BY <1>1, <3>1
  <2> QED BY <2>1, <2>2, <2>3, <2>4, <2>5, <2>6, Steps
<1>5. ASSUME pc' = "connect" PROVE todo' \subseteq edges'
  <2>1. CASE updateCallGraph BY <1>0, <2>1, CallStep
  <2>2. CASE connectCaller2CalleeParams
    BY <2>2 DEF connectCaller2CalleeParams, callgraphUnchanged, EdgeFacts
  <2> QED BY <1>0, <1>5, <2>1, <2>2, CallPhase
<1> QED BY <1>4, <1>5 DEF EdgeFacts, isField

\* Once an object turned field-insensitive, by a variant gep or a weighted cycle, the answer names
\* none of its fields: every points-to set that held one was found, though the object may be
\* collapsed much later and the nodes that held the field be merged away by then.
THEOREM ObjectsCollapsed == Spec => []CollapsedEverywhere
<1>1. Init => CollapseInv
  <2> SUFFICES ASSUME Init PROVE CollapseInv OBVIOUS
  <2>1. EdgeFacts BY WaveDiffAssumption DEF Init, EdgeFacts, isField
  <2>2. StackShape /\ Owed /\ FieldsHeld /\ GepFields
    BY DEF Init, StackShape, Owed, FieldsHeld, GepFields
  <2> QED BY <2>1, <2>2 DEF CollapseInv
<1>2. CollapseInv /\ GraphInv /\ [Next \/ done]_vars => CollapseInv'
  <2> SUFFICES ASSUME CollapseInv, GraphInv, [Next \/ done]_vars PROVE CollapseInv' OBVIOUS
  <2>1. CASE Next
    BY <2>1, StackNext, OwedNext, HeldNext, GepFieldsNext, EdgeFactsNext DEF CollapseInv, GraphInv
  <2>2. CASE UNCHANGED vars
    BY <2>2 DEF vars, CollapseInv, StackShape, Owed, FieldsHeld, GepFields, EdgeFacts, allowedField,
                pending, graphVars, ptsVars, objVars, handlerVars, collapseVars
  <2> QED BY <2>1, <2>2 DEF done
<1>3. CollapseInv /\ GraphInv => CollapsedEverywhere
  <2> SUFFICES ASSUME CollapseInv, GraphInv, pc = "done", NEW n \in Node, rep[n] = n,
                      NEW m \in pts[n], ObjOf(m) \in fi, isField(m)
               PROVE  isSingleFieldObj(ObjOf(m))
    BY DEF CollapsedEverywhere, live, isField
  <2>1. frames = <<>> /\ toCollapse = {} BY DEF CollapseInv, StackShape, Owed
  <2>2. ~ pending(m) BY <2>1 DEF pending, calls
  <2> QED BY <2>2 DEF CollapseInv, FieldsHeld, allowedField
<1> QED BY <1>1, <1>2, <1>3, GraphAlways, PTL DEF Spec
===============================================================================
