-------------------------- MODULE AndersenWaveDiff --------------------------
(****************************************************************************)
(* Wave propagation with difference sets: class AndersenWaveDiff and what   *)
(* it inherits from AndersenWave, Andersen and WPASolver.  This is the      *)
(* pointer analysis behind the race detector and the value-flow graph.      *)
(*                                                                          *)
(* One round of solve(): find the cycles of the copy and gep edges and      *)
(* merge each into a representative; visit the nodes in topological order   *)
(* and push what is new in their points-to sets along copy and gep edges,   *)
(* collapsing objects that turned field-insensitive; then take the nodes of *)
(* the worklist and let their loads and stores add copy edges.  Rounds are  *)
(* repeated while a copy edge was added, an object was collapsed or an      *)
(* indirect call was resolved.                                              *)
(*                                                                          *)
(* The program is sequential; pc says which loop it is in and one step is   *)
(* one iteration of that loop.                                              *)
(****************************************************************************)
EXTENDS ConsG, Sequences

CONSTANTS
  PAGs,               \* the program assignment graphs the solver may be given
  Nil,                \* no node, no edge
  IndirectCallLimit   \* budget of resolved indirect call edges

(****************************************************************************)
(* An input: the edges the PAG builder produced, the objects that are field *)
(* insensitive from the start, and for every indirect call site cs, pointer *)
(* fp and function object callee of matching arity the parameter and return *)
(* copies that resolving the call would add.                                *)
(****************************************************************************)
Call == [cs : Ptr, callee : Obj, args : SUBSET (Ptr \X Ptr)]
PAG  == [edges : SUBSET Edge, fi : SUBSET Obj, calls : SUBSET Call]

ASSUME WaveDiffAssumption ==
  /\ PAGs \subseteq PAG
  /\ \A g \in PAGs : \A e \in g.edges :
       /\ e.kind = "addr" => e.src \in Mem /\ e.src[2] = 0 /\ e.dst \in Ptr
       /\ e.kind # "addr" => e.src \in Ptr /\ e.dst \in Ptr
       /\ \A d \in g.edges : d.kind = e.kind /\ d.src = e.src /\ d.dst = e.dst => d = e
  /\ Nil \notin Node \cup Edge
  /\ IndirectCallLimit \in Nat

VARIABLES
  pag,            \* the input, never changed
  edges,          \* the constraint graph
  rep,            \* nodeToRepMap
  subs,           \* nodeToSubsMap
  pwc,            \* nodes flagged as positive weight cycle nodes
  fi,             \* field-insensitive objects
  fields,         \* field nodes created so far (memToFieldsMap)
  pts, revPts,    \* points-to and reverse points-to sets
  propa,          \* points-to already propagated along copy and gep edges
  cache,          \* <<e, m>>: load or store edge e has been given m
  worklist,       \* nodes whose points-to set grew
  toMerge,        \* cycles found and not merged yet: <<representative, sub nodes>>
  nodeStack,      \* nodes still to visit in this wave
  before,         \* <<m, n>>: m reaches n along direct edges in this wave
  node,           \* node being processed
  diff,           \* its new points-to elements
  todo,           \* edges the current handler has not processed yet
  gep,            \* state of the gep edge being processed
  frames,         \* call stack of collapseNodePts and collapseField
  toCollapse,     \* nodesToBeCollapsed
  called,         \* indirect calls resolved so far (indCallMap)
  reanalyze,      \* another round is needed
  pc

graphVars    == <<edges, rep, subs, pwc>>
objVars      == <<fi, fields>>
ptsVars      == <<pts, revPts, propa, cache>>
schedVars    == <<toMerge, nodeStack, before>>
handlerVars  == <<node, diff, todo, gep>>
collapseVars == <<frames, toCollapse>>
vars == <<pag, graphVars, objVars, ptsVars, worklist, schedVars, handlerVars,
          collapseVars, called, reanalyze, pc>>

NoGep == [e |-> Nil, left |-> {}, tmp |-> {}]

live == {n \in Node : rep[n] = n /\ (n \in Mem => n[2] = 0 \/ n \in fields)}

(****************************************************************************)
(* Points-to sets are kept at representatives.  unionPts(dst, S) adds S to  *)
(* pts[dst] and dst to the reverse set of every element; pushing dst is the *)
(* caller's business, and done only when the set grew.                      *)
(****************************************************************************)
addRevPts(R, D, S) == [m \in Mem |-> IF m \in S THEN R[m] \cup D ELSE R[m]]
\* mutated: only the first pointees count
growsFromEmpty(d, S) == pts[d] = {} /\ S # {}

grows(d, S) == ~ (S \subseteq pts[d])

\* every node of D receives S; those that grow go to the worklist
propagate(D, S) ==
  /\ pts' = [n \in Node |-> IF n \in D THEN pts[n] \cup S ELSE pts[n]]
  /\ revPts' = addRevPts(revPts, D, S)
  /\ worklist' = worklist \cup {d \in D : grows(d, S)}

\* addCopyEdge for each of the new edges F: the destination receives the
\* points-to set of the source at once.  No edge of F starts where another ends.
addCopyEdges(F) ==
  /\ edges' = edges \cup F
  /\ pts' = [n \in Node |-> pts[n] \cup UNION {pts[e.src] : e \in {x \in F : x.dst = n}}]
  /\ revPts' = [m \in Mem |-> revPts[m] \cup {e.dst : e \in {x \in F : m \in pts[x.src]}}]
  /\ worklist' = worklist \cup {e.dst : e \in {x \in F : grows(x.dst, pts[x.src])}}

(****************************************************************************)
(* processAllAddr                                                           *)
(****************************************************************************)
addrs(E, d) == {e.src : e \in {x \in E : x.kind = "addr" /\ x.dst = d}}

Init ==
  /\ pag \in PAGs
  /\ edges = pag.edges
  /\ rep = [n \in Node |-> n]
  /\ subs = [n \in Node |-> {n}]
  /\ pwc = {}
  /\ fi = pag.fi
  /\ fields = {}
  /\ pts = [n \in Node |-> {}]
  /\ revPts = [m \in Mem |-> {}]
  /\ propa = [n \in Node |-> {}]
  /\ cache = {}
  /\ worklist = {}
  /\ toMerge = {} /\ nodeStack = {} /\ before = {}
  /\ node = Nil /\ diff = {} /\ todo = {} /\ gep = NoGep
  /\ frames = <<>> /\ toCollapse = {}
  /\ called = {}
  /\ reanalyze = FALSE
  /\ pc = "addr"

processAllAddr ==
  /\ pc = "addr"
  /\ pts' = [n \in Node |-> addrs(edges, n)]
  /\ revPts' = [m \in Mem |-> {n \in Node : m \in addrs(edges, n)}]
  /\ worklist' = {n \in Node : addrs(edges, n) # {}}
  /\ pc' = "scc"
  /\ UNCHANGED <<pag, graphVars, objVars, propa, cache, schedVars, handlerVars,
                 collapseVars, called, reanalyze>>

(****************************************************************************)
(* SCCDetect: find the cycles of direct edges, pick a representative of     *)
(* each, and order the remaining nodes topologically.                       *)
(****************************************************************************)
SCCDetect ==
  /\ pc = "scc"
  /\ LET R == reachable(edges)
         C == sccOf(edges)
     IN  \E root \in [C -> Node] :
           /\ \A c \in C : root[c] \in c
           /\ toMerge' = {<<root[c], c \ {root[c]}>> : c \in C}
           /\ nodeStack' = live \ UNION {c \ {root[c]} : c \in C}
           /\ before' = {w \in nodeStack' \X nodeStack' : w[1] # w[2] /\ w \in R}
  /\ pc' = "merge"
  /\ UNCHANGED <<pag, graphVars, objVars, ptsVars, worklist, handlerVars,
                 collapseVars, called, reanalyze>>

(****************************************************************************)
(* mergeNodeToRep and the updateNodeRepAndSubs that follows it, where P are *)
(* the points-to sets to merge.  r takes over the points-to set and the     *)
(* edges of n; only what both have propagated counts as propagated.  A      *)
(* retargeted edge has a new id, hence nothing cached.                      *)
(****************************************************************************)
\* mutated: the union instead of the intersection
unionPropaPts(n, r) == propa[r] \cup propa[n]

updatePropaPts(n, r) == propa[r] \cap propa[n]

\* mutated: the nodes n stands for keep n as their representative
onlyNode(n) == {n}

nodeSubs(n) == subs[n]

mergeNodeToRep(P, n, r) ==
  /\ pts' = [P EXCEPT ![r] = P[r] \cup P[n]]
  /\ revPts' = addRevPts(revPts, {r}, P[n])
  /\ propa' = [propa EXCEPT ![r] = updatePropaPts(n, r)]
  /\ edges' = moveEdgesToRepNode(edges, rep, n, r)
  /\ cache' = {x \in cache : x[1] \in edges'}
  /\ pwc' = pwc \cup {m \in {r} : gepInsideScc(edges, rep, n, r) \/ n \in pwc}
  /\ rep' = [m \in Node |-> IF m \in nodeSubs(n) THEN r ELSE rep[m]]
  /\ subs' = [subs EXCEPT ![r] = @ \cup subs[n]]

mergeSccNodes ==
  /\ pc = "merge"
  /\ \E c \in toMerge : \E n \in c[2] :
       /\ mergeNodeToRep(pts, n, c[1])
       /\ toMerge' = {x \in (toMerge \ {c}) \cup {<<c[1], c[2] \ {n}>>} : x[2] # {}}
  /\ UNCHANGED <<pag, objVars, worklist, nodeStack, before, handlerVars,
                 collapseVars, called, reanalyze, pc>>

mergeSccDone ==
  /\ pc = "merge" /\ toMerge = {}
  /\ pc' = "wave"
  /\ UNCHANGED <<pag, graphVars, objVars, ptsVars, worklist, schedVars, handlerVars,
                 collapseVars, called, reanalyze>>

(****************************************************************************)
(* The wave: pop a node none of whose predecessors is waiting.  The points- *)
(* to set of a positive weight cycle node is collapsed first.               *)
(****************************************************************************)
ptsFrame(S, ret)      == [call |-> "collapseNodePts", base |-> Nil, left |-> S, ret |-> ret]
fieldFrame(b, S, ret) == [call |-> "collapseField", base |-> b, left |-> S, ret |-> ret]

processNode ==
  /\ pc = "wave"
  /\ \E n \in nodeStack :
       /\ \A m \in nodeStack : <<m, n>> \notin before
       /\ node' = n
       /\ nodeStack' = nodeStack \ {n}
       /\ IF rep[n] \in pwc
            THEN frames' = <<ptsFrame(pts[rep[n]], "copy")>> /\ pc' = "collapse"
            ELSE pc' = "copy" /\ UNCHANGED frames
  /\ UNCHANGED <<pag, graphVars, objVars, ptsVars, worklist, toMerge, before, diff,
                 todo, gep, toCollapse, called, reanalyze>>

waveDone ==
  /\ pc = "wave" /\ nodeStack = {}
  /\ pc' = "worklist"
  /\ UNCHANGED <<pag, graphVars, objVars, ptsVars, worklist, schedVars, handlerVars,
                 collapseVars, called, reanalyze>>

\* a node merged away while its points-to set was collapsed is done
skipMergedNode ==
  /\ pc = "copy" /\ rep[node] # node
  /\ pc' = "wave"
  /\ UNCHANGED <<pag, graphVars, objVars, ptsVars, worklist, schedVars, handlerVars,
                 collapseVars, called, reanalyze>>

\* computeDiffPts, then processCopy of every copy edge
handleCopyGep ==
  /\ pc = "copy" /\ rep[node] = node
  /\ diff' = pts[node] \ propa[node]
  /\ propa' = [propa EXCEPT ![node] = pts[node]]
  /\ propagate({e.dst : e \in {x \in outgoingCopies(edges, node) : diff' # {}}}, diff')
  /\ todo' = {e \in outgoingGeps(edges, node) : diff' # {}}
  /\ pc' = "gep"
  /\ UNCHANGED <<pag, graphVars, objVars, cache, schedVars, node, gep, collapseVars,
                 called, reanalyze>>

(****************************************************************************)
(* processGep: one edge at a time, normal geps before variant ones, the     *)
(* edges' order in the node.  tmp collects what the destination will get,   *)
(* left what of diff has still to be looked at.                             *)
(****************************************************************************)
gepUnchanged == <<pag, rep, subs, pwc, propa, cache, schedVars, node, diff, frames, called,
                  reanalyze>>

processGep ==
  /\ pc = "gep"
  /\ \E e \in todo :
       /\ e.kind = "vgep" => \A x \in todo : x.kind = "vgep"
       /\ gep' = [e |-> e, left |-> diff, tmp |-> {}]
       /\ todo' = todo \ {e}
  /\ pc' = "ptd"
  /\ UNCHANGED <<gepUnchanged, edges, objVars, pts, revPts, worklist, toCollapse>>

gepStep(m, S) == gep' = [gep EXCEPT !.left = @ \ {m}, !.tmp = @ \cup S]

\* the black hole and the constant object point to themselves
gepBlkObjOrConstant ==
  /\ pc = "ptd"
  /\ \E m \in gep.left : isBlkObjOrConstantObj(m) /\ gepStep(m, {m})
  /\ UNCHANGED <<gepUnchanged, edges, objVars, pts, revPts, worklist, todo, toCollapse, pc>>

\* a variant gep turns the object field-insensitive and asks for its collapse
variantGepPts ==
  /\ pc = "ptd" /\ gep.e.kind = "vgep"
  /\ \E m \in gep.left :
       /\ ~ isBlkObjOrConstantObj(m)
       /\ gepStep(m, {getBaseObjNode(m)})
       /\ fi' = fi \cup {ObjOf(m)}
       /\ toCollapse' = toCollapse \cup {getBaseObjNode(x) : x \in {y \in {m} : ObjOf(y) \notin fi}}
  /\ UNCHANGED <<gepUnchanged, edges, fields, pts, revPts, worklist, todo, pc>>

\* a normal gep yields the field's node, made here if it is new; what the base
\* node points to also flows to the field at offset 0
normalGepPts ==
  /\ pc = "ptd" /\ gep.e.kind = "gep"
  /\ \E m \in gep.left :
       LET f == getGepObjNode(m, gep.e.off, fi)
       IN  /\ ~ isBlkObjOrConstantObj(m)
           /\ gepStep(m, {f})
           /\ fields' = fields \cup ({f} \ {getBaseObjNode(m)})
           /\ addCopyEdges(IF gep.e.off = 0 THEN newCopyEdge(edges, rep, getBaseObjNode(m), f) ELSE {})
  /\ UNCHANGED <<gepUnchanged, fi, todo, toCollapse, pc>>

processGepDone ==
  /\ pc = "ptd" /\ gep.left = {}
  /\ propagate({gep.e.dst}, gep.tmp)
  /\ gep' = NoGep
  /\ pc' = "gep"
  /\ UNCHANGED <<gepUnchanged, edges, objVars, todo, toCollapse>>

handleGepDone ==
  /\ pc = "gep" /\ todo = {}
  /\ pc' = "drain"
  /\ UNCHANGED <<gepUnchanged, edges, objVars, pts, revPts, worklist, todo, gep, toCollapse>>

(****************************************************************************)
(* collapseField and collapseNodePts call each other: frames is their call  *)
(* stack, innermost call first.                                             *)
(****************************************************************************)
collapseUnchanged == <<pag, worklist, schedVars, handlerVars, called>>

\* mutated: only fields nobody points to
unusedFieldsOf(m) == {f \in fields : ObjOf(f) = ObjOf(m) /\ revPts[f] = {}}

fieldsOf(m) == {f \in fields : ObjOf(f) = ObjOf(m)}

\* call collapseField(m), to return to label ret above the calls of stack
callCollapseField(m, ret, stack) ==
  IF isBlkObjOrConstantObj(m) \/ isSingleFieldObj(ObjOf(m))
    THEN frames' = stack /\ pc' = ret /\ UNCHANGED fi
    ELSE /\ frames' = <<fieldFrame(getBaseObjNode(m), fieldsOf(m), ret)>> \o stack
         /\ pc' = "collapse"
         /\ fi' = fi \cup {ObjOf(m)}

\* the objects that variant geps turned field-insensitive
collapseNext ==
  /\ pc = "drain"
  /\ \E m \in toCollapse :
       /\ toCollapse' = toCollapse \ {m}
       /\ callCollapseField(m, "drain", <<>>)
  /\ UNCHANGED <<collapseUnchanged, graphVars, fields, ptsVars, reanalyze>>

collapseAllDone ==
  /\ pc = "drain" /\ toCollapse = {}
  /\ pc' = "wave"
  /\ UNCHANGED <<collapseUnchanged, graphVars, objVars, ptsVars, frames, toCollapse, reanalyze>>

inCall(name) == pc = "collapse" /\ frames[1].call = name

\* one element of the cloned points-to set
collapseNodePts ==
  /\ inCall("collapseNodePts")
  /\ \E m \in frames[1].left :
       LET caller == <<[frames[1] EXCEPT !.left = @ \ {m}]>> \o Tail(frames)
       IN  IF ObjOf(m) \in fi
             THEN frames' = caller /\ UNCHANGED <<fi, pc>>
             ELSE callCollapseField(m, "collapse", caller)
  /\ UNCHANGED <<collapseUnchanged, graphVars, fields, ptsVars, toCollapse, reanalyze>>

\* mutated: the object is added, the field stays
keepField(n, f, b) ==
  IF \E m \in revPts[f] : rep[m] = n THEN pts[n] \cup {b} ELSE pts[n]

\* mutated: the field goes, the object does not take its place
loseField(n, f, b) ==
  IF \E m \in revPts[f] : rep[m] = n THEN pts[n] \ {f} ELSE pts[n]

\* field f in the points-to set of n gives way to its object b; revPts may name
\* nodes that have been merged since, so it is their representatives that change
replaceField(n, f, b) ==
  IF \E m \in revPts[f] : rep[m] = n THEN (pts[n] \ {f}) \cup {b} ELSE pts[n]

\* one field: replace it in the points-to sets, merge its node into the base's
collapseField ==
  /\ inCall("collapseField")
  /\ \E f \in frames[1].left :
       LET b == frames[1].base
           P == [n \in Node |-> replaceField(n, f, b)]
       IN  /\ IF rep[f] # rep[b]
                THEN mergeNodeToRep(P, rep[f], rep[b])
                ELSE pts' = P /\ UNCHANGED <<graphVars, revPts, propa, cache>>
           /\ frames' = <<[frames[1] EXCEPT !.left = @ \ {f}]>> \o Tail(frames)
           /\ reanalyze' = (reanalyze \/ revPts[f] # {})
  /\ UNCHANGED <<collapseUnchanged, objVars, toCollapse, pc>>

\* all fields merged: go on with the pointees if the base is on a weighted cycle
collapseFieldDone ==
  /\ inCall("collapseField") /\ frames[1].left = {}
  /\ LET f == frames[1]
     IN  IF rep[f.base] \in pwc
           THEN /\ frames' = <<ptsFrame(pts[rep[f.base]], f.ret)>> \o Tail(frames)
                /\ UNCHANGED pc
           ELSE frames' = Tail(frames) /\ pc' = f.ret
  /\ UNCHANGED <<collapseUnchanged, graphVars, objVars, ptsVars, toCollapse, reanalyze>>

collapseNodePtsDone ==
  /\ inCall("collapseNodePts") /\ frames[1].left = {}
  /\ frames' = Tail(frames)
  /\ pc' = frames[1].ret
  /\ UNCHANGED <<collapseUnchanged, graphVars, objVars, ptsVars, toCollapse, reanalyze>>

(****************************************************************************)
(* The worklist phase: loads and stores of a node whose points-to set grew  *)
(* add copy edges for the pointees not cached at the edge.                  *)
(****************************************************************************)
postUnchanged == <<pag, rep, subs, pwc, objVars, propa, schedVars, diff, gep, collapseVars, called>>

popFromWorklist ==
  /\ pc = "worklist"
  /\ \E n \in worklist :
       /\ worklist' = worklist \ {n}
       /\ node' = rep[n]
       /\ todo' = outgoingLoads(edges, rep[n]) \cup incomingStores(edges, rep[n])
  /\ pc' = "post"
  /\ UNCHANGED <<postUnchanged, edges, pts, revPts, cache, reanalyze>>

newPts(e) == {m \in pts[node] : <<e, m>> \notin cache}

\* handleLoad, handleStore: pointees are read before an edge is added
\* mutated: reanalyze is not set
neverChanged(F) == FALSE

changed(F) == F # {}

handleEdge(e, F) ==
  /\ todo' = todo \ {e}
  /\ cache' = cache \cup {<<e, m>> : m \in newPts(e)}
  /\ addCopyEdges(F)
  /\ reanalyze' = (reanalyze \/ changed(F))
  /\ UNCHANGED <<postUnchanged, node, pc>>

handleLoad ==
  /\ pc = "post"
  /\ \E e \in todo :
       /\ e.kind = "load"
       /\ handleEdge(e, UNION {newCopyEdge(edges, rep, m, e.dst) :
                                  m \in {x \in newPts(e) : ~ holdsNoPointer(x)}})

handleStore ==
  /\ pc = "post"
  /\ \E e \in todo :
       /\ e.kind = "store" /\ \A x \in todo : x.kind = "store"
       /\ handleEdge(e, UNION {newCopyEdge(edges, rep, e.src, m) :
                                  m \in {x \in newPts(e) : ~ holdsNoPointer(x)}})

postDone ==
  /\ pc = "post" /\ todo = {}
  /\ pc' = "worklist"
  /\ UNCHANGED <<postUnchanged, node, todo, edges, pts, revPts, cache, worklist, reanalyze>>

(****************************************************************************)
(* The worklist is empty: resolve indirect calls with what is known now.    *)
(* The parameter edges are all added first, then each receives the source's *)
(* points-to set.                                                           *)
(****************************************************************************)
callgraphUnchanged == <<pag, rep, subs, pwc, objVars, propa, cache, schedVars, node, diff, gep,
                        collapseVars>>

\* mutated: the points-to set of a node that may have been merged away
resolvableNoRep == {c \in pag.calls : \E m \in pts[c.cs] : ObjOf(m) = c.callee}

resolvable == {c \in pag.calls : \E m \in pts[rep[c.cs]] : ObjOf(m) = c.callee}

updateCallGraph ==
  /\ pc = "worklist" /\ worklist = {}
  /\ \E C \in SUBSET (resolvable \ called) :
       /\ \/ C = resolvable \ called /\ Cardinality(called \cup C) <= IndirectCallLimit
          \/ Cardinality(called \cup C) = IndirectCallLimit
       /\ called' = called \cup C
       /\ reanalyze' = (reanalyze \/ changed(C))
       /\ todo' = UNION {newCopyEdge(edges, rep, a[1], a[2]) : a \in UNION {c.args : c \in C}}
       /\ edges' = edges \cup todo'
  /\ pc' = "connect"
  /\ UNCHANGED <<callgraphUnchanged, pts, revPts, worklist>>

\* here the destination is pushed whether or not it grew
connectCaller2CalleeParams ==
  /\ pc = "connect"
  /\ \E e \in todo :
       /\ todo' = todo \ {e}
       /\ pts' = [pts EXCEPT ![e.dst] = @ \cup pts[e.src]]
       /\ revPts' = addRevPts(revPts, {e.dst}, pts[e.src])
       /\ worklist' = worklist \cup {e.dst}
  /\ UNCHANGED <<callgraphUnchanged, edges, called, reanalyze, pc>>

\* mutated: reanalyze is not reset before the next round
solveAgainNoReset ==
  /\ pc = "connect" /\ todo = {}
  /\ pc' = IF reanalyze THEN "scc" ELSE "done"
  /\ UNCHANGED <<callgraphUnchanged, todo, edges, called, pts, revPts, worklist, reanalyze>>

solveAgain ==
  /\ pc = "connect" /\ todo = {}
  /\ reanalyze' = FALSE
  /\ pc' = IF reanalyze THEN "scc" ELSE "done"
  /\ UNCHANGED <<callgraphUnchanged, todo, edges, called, pts, revPts, worklist>>

waveNext == processNode \/ waveDone \/ skipMergedNode \/ handleCopyGep
gepNext == \/ processGep \/ gepBlkObjOrConstant \/ variantGepPts \/ normalGepPts
           \/ processGepDone \/ handleGepDone
collapsingNext == \/ collapseNext \/ collapseAllDone \/ collapseNodePts \/ collapseField
                  \/ collapseFieldDone \/ collapseNodePtsDone
postNext == popFromWorklist \/ handleLoad \/ handleStore \/ postDone
callNext == updateCallGraph \/ connectCaller2CalleeParams \/ solveAgain

Next == \/ processAllAddr \/ SCCDetect \/ mergeSccNodes \/ mergeSccDone
        \/ waveNext \/ gepNext \/ collapsingNext \/ postNext \/ callNext

done == pc = "done" /\ UNCHANGED vars

Spec == Init /\ [][Next \/ done]_vars
FairSpec == Spec /\ WF_vars(Next)

-----------------------------------------------------------------------------
Label == {"addr", "scc", "merge", "wave", "copy", "gep", "ptd", "drain", "collapse",
          "worklist", "post", "connect", "done"}
Frame == [call : {"collapseNodePts", "collapseField"}, base : Mem \cup {Nil},
          left : SUBSET Mem, ret : {"copy", "drain", "collapse"}]

\* Every variable has its type.
TypeOK ==
  /\ pag \in PAG
  /\ edges \subseteq Edge
  /\ rep \in [Node -> Node] /\ subs \in [Node -> SUBSET Node] /\ pwc \subseteq Node
  /\ fi \subseteq Obj /\ fields \subseteq Mem
  /\ pts \in [Node -> SUBSET Mem] /\ revPts \in [Mem -> SUBSET Node]
  /\ propa \in [Node -> SUBSET Mem] /\ cache \subseteq Edge \X Mem
  /\ worklist \subseteq Node
  /\ toMerge \subseteq Node \X SUBSET Node /\ nodeStack \subseteq Node
  /\ before \subseteq Node \X Node
  /\ node \in Node \cup {Nil} /\ diff \subseteq Mem /\ todo \subseteq Edge
  /\ gep \in [e : Edge \cup {Nil}, left : SUBSET Mem, tmp : SUBSET Mem]
  /\ frames \in Seq(Frame) /\ toCollapse \subseteq Mem
  /\ called \subseteq Call /\ reanalyze \in BOOLEAN /\ pc \in Label

(****************************************************************************)
(* What Andersen's analysis without fields allows: S maps every node to a   *)
(* set of objects and is closed under the constraints of input g.           *)
(****************************************************************************)
base(n) == IF n \in Ptr THEN n ELSE getBaseObjNode(n)
baseOf(o) == <<o, 0>>

closed(g, S) ==
  /\ \A e \in g.edges :
       /\ e.kind = "addr" => ObjOf(e.src) \in S[e.dst]
       /\ e.kind \in DirectKind => S[e.src] \subseteq S[e.dst]
       /\ e.kind = "load" => \A o \in S[e.src] : S[baseOf(o)] \subseteq S[e.dst]
       /\ e.kind = "store" => \A o \in S[e.dst] : S[e.src] \subseteq S[baseOf(o)]
  /\ \A c \in g.calls : c.callee \in S[c.cs] => \A a \in c.args : S[a[1]] \subseteq S[a[2]]

FISolutions(g) == {S \in [Ptr \cup {baseOf(o) : o \in Obj} -> SUBSET Obj] : closed(g, S)}

\* what every solution of g has at each node, and that of every input
Pointees(g) ==
  LET F == FISolutions(g)
  IN  {[at |-> n, objs |-> {o \in Obj : \A S \in F : o \in S[n]}] :
         n \in Ptr \cup {baseOf(o) : o \in Obj}}
Expected == {[input |-> g, at |-> Pointees(g)] : g \in PAGs}

\* Nothing spurious: an element of a points-to set is an object that every
\* field-insensitive solution of the same program has there too.  Merging
\* cycles, collapsing objects and reordering the work never invents a pointee.
Precise ==
  \A g \in Expected : g.input = pag =>
    \A w \in g.at : \A n \in {k \in Node : base(k) = w.at} : \A m \in pts[n] : ObjOf(m) \in w.objs

\* nodeToRepMap and nodeToSubsMap are inverse, representatives represent
\* themselves, and no edge is left at a node that has been merged away.
RepConsistent ==
  /\ \A n \in Node : rep[rep[n]] = rep[n] /\ n \in subs[rep[n]]
  /\ \A n \in Node : rep[n] = n => \A m \in subs[n] : rep[m] = n
  /\ \A e \in edges : rep[e.src] = e.src /\ rep[e.dst] = e.dst

\* m flows to n: they were merged, or a copy edge joins their representatives
linked(m, n) == rep[m] = rep[n] \/ hasEdge(edges, "copy", rep[m], rep[n])
constrains(e, m) == IF e.kind = "load" THEN linked(m, e.dst) ELSE linked(e.src, m)
pointerEnd(e) == IF e.kind = "load" THEN e.src ELSE e.dst

\* A pointee recorded in the cache of a load or store (handleLoad, handleStore)
\* has had its effect: it is not skipped later without its copy edge existing,
\* however nodes were merged in the meantime.
CacheHonest == \A x \in cache : holdsNoPointer(x[2]) \/ constrains(x[1], x[2])

\* The worklist forgets nothing: a pointee that a load or store has not seen
\* belongs to a node that is waiting or being processed.  Nodes that stand for
\* others are exempt, mergeNodeToRep does not push the node it enlarges.
willSee(e, n) == \/ \E w \in worklist : rep[w] = n
                 \/ pc = "post" /\ node = n /\ e \in todo
PendingConstraints ==
  \A e \in {x \in edges : x.kind \in IndirectKind} :
    \A m \in pts[pointerEnd(e)] :
      \/ holdsNoPointer(m) \/ constrains(e, m)
      \/ willSee(e, pointerEnd(e)) \/ subs[pointerEnd(e)] # {pointerEnd(e)}

\* What a node counts as propagated (computeDiffPts, updatePropaPts) has arrived
\* at the end of each of its copy edges, as it was or collapsed to its object;
\* only a call's parameter edges wait for their first transfer.
PropagatedArrived ==
  \A e \in {x \in edges : x.kind = "copy" /\ ~ (pc = "connect" /\ x \in todo)} :
    \A m \in propa[e.src] :
      m \in pts[e.dst] \/ (ObjOf(m) \in fi /\ getBaseObjNode(m) \in pts[e.dst])

\* The answer is closed under copies: once reanalyze stays unset, no copy edge
\* (processCopy) has anything left to transfer.
CopyClosed ==
  pc = "done" => \A e \in edges : e.kind = "copy" => pts[e.src] \subseteq pts[e.dst]

\* The answer is closed under field accesses (processGepPts), also for pointees
\* that were collapsed after the access had been processed.  Objects of a single
\* field are exempt: collapseField leaves them alone.
FieldsClosed ==
  pc = "done" =>
    \A e \in {x \in edges : x.kind \in {"gep", "vgep"}} : \A m \in pts[e.src] :
      \/ isBlkObjOrConstantObj(m) \/ isSingleFieldObj(ObjOf(m))
      \/ e.kind = "gep" /\ getGepObjNode(m, e.off, fi) \in pts[e.dst]
      \/ e.kind = "vgep" /\ ObjOf(m) \in fi /\ getBaseObjNode(m) \in pts[e.dst]

\* After a variant gep or a weighted cycle made an object field-insensitive, the
\* queue of objects to collapse is not left behind: no points-to set of the
\* answer still has one of its fields (collapseField), single fields aside.
CollapsedEverywhere ==
  pc = "done" => \A n \in live : \A m \in pts[n] :
    ObjOf(m) \in fi => m[2] = 0 \/ isSingleFieldObj(ObjOf(m))

\* Whatever a node points to it goes on pointing to: merging it away, moving its
\* edges or collapsing fields may replace a field by its object, never lose it.
pointees(n) == {ObjOf(m) : m \in pts[rep[n]]}
PointeesNeverLost == [][\A n \in Node : pointees(n) \subseteq pointees(n)']_vars

\* Every indirect call is resolved to every function its pointer can reach, and
\* the parameters of a resolved call are joined, unless the budget is used up.
CallsResolved ==
  pc = "done" => \A c \in pag.calls :
    /\ c.callee \in pointees(c.cs) => c \in called \/ Cardinality(called) = IndirectCallLimit
    /\ c \in called => \A x \in c.args : linked(x[1], x[2])

\* The rounds end: merging, collapsing and new edges run out.
Terminates == <>(pc = "done")

(****************************************************************************)
(* What the comments in the source promise and the code does not keep.      *)
(****************************************************************************)
\* processStore: "node \in pts(dst) ==> src--copy-->node" once the solver is done.
StoreClosed ==
  pc = "done" => \A e \in edges : e.kind = "store" =>
    \A m \in pts[e.dst] : holdsNoPointer(m) \/ linked(e.src, m)
=============================================================================
