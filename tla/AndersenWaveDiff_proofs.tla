----------------------- MODULE AndersenWaveDiff_proofs -----------------------
(****************************************************************************)
(* Theorems of AndersenWaveDiff: type correctness, and that the solver      *)
(* invents no pointee.                                                      *)
(****************************************************************************)
EXTENDS AndersenWaveDiff, TLAPS

(****************************************************************************)
(* Memory nodes and edges.                                                  *)
(****************************************************************************)
\* Elements of Mem are pairs of an object and the index of one of its nodes.
LEMMA MemPair ==
  ASSUME NEW m \in Mem
  PROVE  /\ m[1] \in Obj
         /\ m[2] \in 0 .. numOfFields(m[1])
         /\ m = <<m[1], m[2]>>
BY DEF Mem

LEMMA PairMem ==
  ASSUME NEW o \in Obj, NEW k \in 0 .. numOfFields(o)
  PROVE  <<o, k>> \in Mem
BY DEF Mem

LEMMA FieldCount ==
  ASSUME NEW o \in Obj
  PROVE  numOfFields(o) \in Nat /\ numOfFields(o) >= 1
BY ConsGAssumption DEF numOfFields

\* getBaseObjNode yields a memory node of the same object.
LEMMA BaseNode ==
  ASSUME NEW m \in Mem
  PROVE  getBaseObjNode(m) \in Mem /\ ObjOf(getBaseObjNode(m)) = ObjOf(m) /\ ObjOf(m) \in Obj
<1>1. m[1] \in Obj BY MemPair
<1>2. 0 \in 0 .. numOfFields(m[1]) BY <1>1, FieldCount
<1>3. <<m[1], 0>> \in Mem BY <1>1, <1>2, PairMem
<1> QED BY <1>1, <1>3 DEF getBaseObjNode, ObjOf

\* getModulusOffset stays below the number of fields.
LEMMA ModulusOffset ==
  ASSUME NEW o \in Obj, NEW k \in Int
  PROVE  1 + getModulusOffset(o, k) \in 0 .. numOfFields(o)
<1>1. FieldLimit[o] \in Nat /\ abs(k) \in Nat BY ConsGAssumption DEF abs
<1>2. CASE FieldLimit[o] = 0 BY <1>2 DEF getModulusOffset, numOfFields
<1>3. CASE FieldLimit[o] # 0
  <2>1. abs(k) % FieldLimit[o] \in 0 .. (FieldLimit[o] - 1) BY <1>1, <1>3
  <2> QED BY <2>1, <1>1, <1>3 DEF getModulusOffset, numOfFields
<1> QED BY <1>2, <1>3

\* getGepObjNode yields a memory node of the same object.
LEMMA GepNode ==
  ASSUME NEW m \in Mem, NEW k \in Offset, NEW F
  PROVE  getGepObjNode(m, k, F) \in Mem /\ ObjOf(getGepObjNode(m, k, F)) = ObjOf(m)
<1> DEFINE f == IF m[2] = 0 THEN k ELSE m[2] - 1 + k
<1>1. m[1] \in Obj /\ m[2] \in 0 .. numOfFields(m[1]) /\ k \in Int
  BY MemPair, ConsGAssumption
<1>2. f \in Int BY <1>1, FieldCount
<1>3. <<m[1], 1 + getModulusOffset(m[1], f)>> \in Mem
  <2> HIDE DEF f
  <2> QED BY <1>1, <1>2, ModulusOffset, PairMem
<1>4. CASE ObjOf(m) \in F
  <2>1. getGepObjNode(m, k, F) = getBaseObjNode(m) BY <1>4 DEF getGepObjNode
  <2> QED BY <2>1, BaseNode
<1>5. CASE ObjOf(m) \notin F
  <2>1. getGepObjNode(m, k, F) = <<m[1], 1 + getModulusOffset(m[1], f)>>
    BY <1>5 DEF getGepObjNode, ObjOf
  <2> QED BY <2>1, <1>3 DEF ObjOf
<1> QED BY <1>4, <1>5

\* A new copy edge joins two representatives.
LEMMA NewCopyEdge ==
  ASSUME NEW E, NEW R \in [Node -> Node], NEW u \in Node, NEW v \in Node
  PROVE  \A e \in newCopyEdge(E, R, u, v) :
           e \in Edge /\ e.kind = "copy" /\ e.src = R[u] /\ e.dst = R[v]
BY ConsGAssumption DEF newCopyEdge, edge, Edge, EdgeKind, DirectKind

\* e is edge d, an end n of which may have become r; address edges stay as they are
moved(e, d, n, r) ==
  /\ e.kind = d.kind
  /\ e.src = d.src \/ (d.src = n /\ e.src = r)
  /\ e.dst = d.dst \/ (d.dst = n /\ e.dst = r)
  /\ d.kind = "addr" => e = d

\* Moving edges to a representative leaves nothing but edges so derived.
LEMMA MoveEdges ==
  ASSUME NEW E \in SUBSET Edge, NEW R, NEW n \in Node, NEW r \in Node
  PROVE  \A e \in moveEdgesToRepNode(E, R, n, r) :
           e \in Edge /\ \E d \in E : moved(e, d, n, r)
<1> DEFINE F == moveInEdgesToRepNode(E, R, n, r)
<1>1. \A e \in F : e \in Edge /\ \E d \in E : moved(e, d, n, r) /\ e.src = d.src
  BY DEF moveInEdgesToRepNode, addEdges, survives, moved, Edge, EdgeKind, DirectKind,
         IndirectKind
<1>2. \A e \in moveOutEdgesToRepNode(F, R, n, r) :
        \E d \in F : /\ e \in Edge /\ e.kind = d.kind /\ e.dst = d.dst
                     /\ e.src = d.src \/ (d.src = n /\ e.src = r)
                     /\ d.kind = "addr" => e = d
  <2> HIDE DEF F
  <2> QED BY <1>1 DEF moveOutEdgesToRepNode, addEdges, survives, Edge, EdgeKind, DirectKind,
                      IndirectKind
<1> QED BY <1>1, <1>2 DEF moveEdgesToRepNode, moved

-----------------------------------------------------------------------------
(****************************************************************************)
(* Type correctness.                                                        *)
(****************************************************************************)
\* TypeOK alone is not inductive: it needs that address edges start at memory
\* nodes, that a handler's node, edge and frame are there while it runs, and that
\* the outermost call of collapseField returns to the wave.
AddrFromMem == \A e \in edges : e.kind = "addr" => e.src \in Mem
NodeThere   == pc \in {"copy", "gep", "ptd", "drain", "collapse", "post"} => node \in Node
GepThere    == pc = "ptd" => gep.e \in Edge
FramesThere ==
  /\ pc = "collapse" => frames # <<>>
  /\ \A i \in 1 .. Len(frames) :
       /\ frames[i].call = "collapseField" => frames[i].base \in Mem
       /\ frames[i].ret = "collapse" => i < Len(frames)
TypeInv == TypeOK /\ AddrFromMem /\ NodeThere /\ GepThere /\ FramesThere

LEMMA TypeInit ==
  ASSUME Init
  PROVE  TypeInv
<1>1. pag \in PAG BY WaveDiffAssumption DEF Init
<1>2. pag.edges \subseteq Edge /\ pag.fi \subseteq Obj BY <1>1 DEF PAG
<1>3. <<>> \in Seq(Frame) OBVIOUS
<1>4. \A n \in Node : {n} \in SUBSET Node OBVIOUS
<1>5. TypeOK BY <1>1, <1>2, <1>3, <1>4 DEF Init, TypeOK, NoGep, Label, Node
<1>6. AddrFromMem BY WaveDiffAssumption DEF Init, AddrFromMem
<1> QED BY <1>5, <1>6 DEF Init, TypeInv, NodeThere, GepThere, FramesThere

\* mergeNodeToRep keeps the types of what it changes.
LEMMA MergeType ==
  ASSUME TypeOK, NEW P \in [Node -> SUBSET Mem], NEW n \in Node, NEW r \in Node,
         mergeNodeToRep(P, n, r)
  PROVE  /\ edges' \subseteq Edge
         /\ rep' \in [Node -> Node] /\ subs' \in [Node -> SUBSET Node] /\ pwc' \subseteq Node
         /\ pts' \in [Node -> SUBSET Mem] /\ revPts' \in [Mem -> SUBSET Node]
         /\ propa' \in [Node -> SUBSET Mem] /\ cache' \subseteq Edge \X Mem
<1>1. edges' \subseteq Edge BY MoveEdges DEF mergeNodeToRep, TypeOK
<1>2. rep' \in [Node -> Node] /\ subs' \in [Node -> SUBSET Node] /\ pwc' \subseteq Node
  BY DEF mergeNodeToRep, TypeOK, nodeSubs
<1>3. pts' \in [Node -> SUBSET Mem] BY DEF mergeNodeToRep, TypeOK
<1>4. revPts' \in [Mem -> SUBSET Node] BY DEF mergeNodeToRep, TypeOK, addRevPts
<1>5. propa' \in [Node -> SUBSET Mem] BY DEF mergeNodeToRep, TypeOK, updatePropaPts
<1>6. cache' \subseteq Edge \X Mem BY DEF mergeNodeToRep, TypeOK
<1> QED BY <1>1, <1>2, <1>3, <1>4, <1>5, <1>6

\* propagate and addCopyEdges keep the types of what they change.
LEMMA PropagateType ==
  ASSUME TypeOK, NEW D \in SUBSET Node, NEW U \in SUBSET Mem, propagate(D, U)
  PROVE  /\ pts' \in [Node -> SUBSET Mem] /\ revPts' \in [Mem -> SUBSET Node]
         /\ worklist' \subseteq Node
<1>1. pts' \in [Node -> SUBSET Mem] BY DEF propagate, TypeOK
<1>2. revPts' \in [Mem -> SUBSET Node] BY DEF propagate, TypeOK, addRevPts
<1>3. worklist' \subseteq Node BY DEF propagate, TypeOK
<1> QED BY <1>1, <1>2, <1>3

LEMMA AddCopyEdgesType ==
  ASSUME TypeOK, NEW F \in SUBSET Edge, addCopyEdges(F)
  PROVE  /\ edges' \subseteq Edge
         /\ pts' \in [Node -> SUBSET Mem] /\ revPts' \in [Mem -> SUBSET Node]
         /\ worklist' \subseteq Node
<1>1. \A e \in F : e.src \in Node /\ e.dst \in Node BY DEF Edge
<1>2. edges' \subseteq Edge BY DEF addCopyEdges, TypeOK
<1>3. pts' \in [Node -> SUBSET Mem]
  <2>1. \A e \in F : pts[e.src] \subseteq Mem BY <1>1 DEF TypeOK
  <2> QED BY <2>1 DEF addCopyEdges, TypeOK
<1>4. revPts' \in [Mem -> SUBSET Node] BY <1>1 DEF addCopyEdges, TypeOK
<1>5. worklist' \subseteq Node BY <1>1 DEF addCopyEdges, TypeOK
<1> QED BY <1>2, <1>3, <1>4, <1>5

\* A call pushed on the stack, and the stack without its innermost call.
LEMMA PushFrame ==
  ASSUME NEW f \in Frame, NEW s \in Seq(Frame)
  PROVE  /\ <<f>> \o s \in Seq(Frame)
         /\ <<f>> \o s # <<>>
         /\ Len(<<f>> \o s) = Len(s) + 1
         /\ \A i \in 1 .. Len(s) + 1 : (<<f>> \o s)[i] = IF i = 1 THEN f ELSE s[i - 1]
OBVIOUS

LEMMA OneFrame ==
  ASSUME NEW f \in Frame
  PROVE  <<f>> \in Seq(Frame) /\ Len(<<f>>) = 1 /\ <<f>> \o <<>> = <<f>>
OBVIOUS

LEMMA PopFrame ==
  ASSUME NEW s \in Seq(Frame), s # <<>>
  PROVE  /\ s[1] \in Frame
         /\ Len(s) \in Nat \ {0}
         /\ Tail(s) \in Seq(Frame)
         /\ Len(Tail(s)) = Len(s) - 1
         /\ \A i \in 1 .. Len(s) - 1 : Tail(s)[i] = s[i + 1]
OBVIOUS

\* The merge touches no address edge.
LEMMA MergeAddr ==
  ASSUME TypeInv, NEW P, NEW n \in Node, NEW r \in Node, mergeNodeToRep(P, n, r)
  PROVE  AddrFromMem'
<1>1. edges \in SUBSET Edge BY DEF TypeInv, TypeOK
<1>2. \A e \in edges' : \E d \in edges : moved(e, d, n, r)
  BY <1>1, MoveEdges DEF mergeNodeToRep
<1> QED BY <1>2 DEF TypeInv, AddrFromMem, moved

\* A stack s is well-formed: FramesThere says so of frames.
StackOK(s) ==
  /\ s \in Seq(Frame)
  /\ \A i \in 1 .. Len(s) :
       /\ s[i].call = "collapseField" => s[i].base \in Mem
       /\ s[i].ret = "collapse" => i < Len(s)

\* Calling collapseField from the wave, and from collapseNodePts.
LEMMA CallType ==
  ASSUME TypeInv, NEW m \in Mem, callCollapseField(m, "drain", <<>>)
  PROVE  /\ frames' \in Seq(Frame) /\ fi' \subseteq Obj /\ FramesThere'
         /\ pc' \in {"drain", "collapse"}
<1>1. getBaseObjNode(m) \in Mem /\ ObjOf(m) \in Obj BY BaseNode
<1>2. fi \subseteq Obj /\ fieldsOf(m) \subseteq Mem BY DEF TypeInv, TypeOK, fieldsOf
<1>3. fieldFrame(getBaseObjNode(m), fieldsOf(m), "drain") \in Frame
  BY <1>1, <1>2 DEF fieldFrame, Frame
<1> DEFINE f == fieldFrame(getBaseObjNode(m), fieldsOf(m), "drain")
<1>4. f \in Frame /\ f.base \in Mem /\ f.ret # "collapse"
  BY <1>1, <1>3 DEF fieldFrame
<1>5. CASE isBlkObjOrConstantObj(m) \/ isSingleFieldObj(ObjOf(m))
  <2>1. frames' = <<>> /\ pc' = "drain" /\ fi' = fi BY <1>5 DEF callCollapseField
  <2>2. <<>> \in Seq(Frame) /\ Len(<<>>) = 0 OBVIOUS
  <2> QED BY <1>2, <2>1, <2>2 DEF FramesThere
<1>6. CASE ~ (isBlkObjOrConstantObj(m) \/ isSingleFieldObj(ObjOf(m)))
  <2>1. frames' = <<f>> \o <<>> /\ pc' = "collapse" /\ fi' = fi \cup {ObjOf(m)}
    BY <1>6 DEF callCollapseField
  <2> HIDE DEF f
  <2>2. frames' = <<f>> /\ frames' \in Seq(Frame) BY <1>4, <2>1, OneFrame
  <2>3. FramesThere' BY <1>4, <2>2 DEF FramesThere
  <2> QED BY <1>1, <1>2, <2>1, <2>2, <2>3
<1> QED BY <1>5, <1>6

LEMMA CallTypeNested ==
  ASSUME TypeInv, NEW m \in Mem, NEW s, StackOK(s), s # <<>>,
         callCollapseField(m, "collapse", s)
  PROVE  frames' \in Seq(Frame) /\ fi' \subseteq Obj /\ FramesThere' /\ pc' = "collapse"
<1>1. getBaseObjNode(m) \in Mem /\ ObjOf(m) \in Obj BY BaseNode
<1>2. fi \subseteq Obj /\ fieldsOf(m) \subseteq Mem BY DEF TypeInv, TypeOK, fieldsOf
<1> DEFINE f == fieldFrame(getBaseObjNode(m), fieldsOf(m), "collapse")
<1>3. f \in Frame /\ f.base \in Mem BY <1>1, <1>2 DEF fieldFrame, Frame
<1>4. CASE isBlkObjOrConstantObj(m) \/ isSingleFieldObj(ObjOf(m))
  <2>1. frames' = s /\ pc' = "collapse" /\ fi' = fi BY <1>4 DEF callCollapseField
  <2> QED BY <2>1, <1>2 DEF StackOK, FramesThere
<1>5. CASE ~ (isBlkObjOrConstantObj(m) \/ isSingleFieldObj(ObjOf(m)))
  <2>1. frames' = <<f>> \o s /\ pc' = "collapse" /\ fi' = fi \cup {ObjOf(m)}
    BY <1>5 DEF callCollapseField
  <2> HIDE DEF f
  <2>2. /\ frames' \in Seq(Frame) /\ frames' # <<>> /\ Len(frames') = Len(s) + 1
        /\ \A i \in 1 .. Len(s) + 1 : frames'[i] = IF i = 1 THEN f ELSE s[i - 1]
    BY <1>3, <2>1, PushFrame DEF StackOK
  <2>3. Len(s) \in Nat \ {0} BY DEF StackOK
  <2>4. \A i \in 1 .. Len(frames') :
          /\ frames'[i].call = "collapseField" => frames'[i].base \in Mem
          /\ frames'[i].ret = "collapse" => i < Len(frames')
    <3> SUFFICES ASSUME NEW i \in 1 .. Len(s) + 1
                 PROVE  /\ frames'[i].call = "collapseField" => frames'[i].base \in Mem
                        /\ frames'[i].ret = "collapse" => i < Len(s) + 1
      BY <2>2
    <3>1. CASE i = 1 BY <3>1, <1>3, <2>2, <2>3
    <3>2. CASE i # 1
      <4>1. i - 1 \in 1 .. Len(s) /\ frames'[i] = s[i - 1] BY <2>2, <2>3, <3>2
      <4> QED BY <4>1, <2>3 DEF StackOK
    <3> QED BY <3>1, <3>2
  <2> QED BY <1>1, <1>2, <2>1, <2>2, <2>4 DEF FramesThere
<1> QED BY <1>4, <1>5

\* Replacing the innermost frame by g, which returns to the same place.
LEMMA SwapFrame ==
  ASSUME TypeInv, frames # <<>>, NEW g \in Frame, g.ret = frames[1].ret,
         g.call = "collapseField" => g.base \in Mem
  PROVE  StackOK(<<g>> \o Tail(frames)) /\ <<g>> \o Tail(frames) # <<>>
<1> DEFINE s == <<g>> \o Tail(frames)
<1>1. /\ Len(frames) \in Nat \ {0} /\ Tail(frames) \in Seq(Frame)
      /\ Len(Tail(frames)) = Len(frames) - 1
      /\ \A i \in 1 .. Len(frames) - 1 : Tail(frames)[i] = frames[i + 1]
  BY PopFrame DEF TypeInv, TypeOK
<1>2. /\ s \in Seq(Frame) /\ s # <<>> /\ Len(s) = Len(frames)
      /\ \A i \in 1 .. Len(frames) : s[i] = IF i = 1 THEN g ELSE Tail(frames)[i - 1]
  BY <1>1, PushFrame
<1> HIDE DEF s
<1>3. \A i \in 1 .. Len(s) : /\ s[i].call = "collapseField" => s[i].base \in Mem
                             /\ s[i].ret = "collapse" => i < Len(s)
  <2> SUFFICES ASSUME NEW i \in 1 .. Len(frames)
               PROVE  /\ s[i].call = "collapseField" => s[i].base \in Mem
                      /\ s[i].ret = "collapse" => i < Len(frames)
    BY <1>2
  <2>1. CASE i = 1 BY <2>1, <1>1, <1>2 DEF TypeInv, FramesThere
  <2>2. CASE i # 1
    <3>1. i - 1 \in 1 .. Len(frames) - 1 /\ s[i] = frames[i] BY <1>1, <1>2, <2>2
    <3> QED BY <3>1, <1>1 DEF TypeInv, FramesThere
  <2> QED BY <2>1, <2>2
<1>4. StackOK(s) /\ s # <<>> BY <1>2, <1>3 DEF StackOK
<1> QED BY <1>4 DEF s

LEMMA TopFrame ==
  ASSUME TypeInv, frames # <<>>, NEW f
  PROVE  /\ StackOK(<<[frames[1] EXCEPT !.left = @ \ {f}]>> \o Tail(frames))
         /\ <<[frames[1] EXCEPT !.left = @ \ {f}]>> \o Tail(frames) # <<>>
<1> DEFINE g == [frames[1] EXCEPT !.left = @ \ {f}]
<1>1. frames[1] \in Frame /\ 1 \in 1 .. Len(frames) BY PopFrame DEF TypeInv, TypeOK
<1>2. g \in Frame /\ g.ret = frames[1].ret /\ g.call = frames[1].call /\ g.base = frames[1].base
  BY <1>1 DEF Frame
<1>3. g.call = "collapseField" => g.base \in Mem BY <1>1, <1>2 DEF TypeInv, FramesThere
<1> HIDE DEF g
<1>4. StackOK(<<g>> \o Tail(frames)) /\ <<g>> \o Tail(frames) # <<>>
  BY <1>2, <1>3, SwapFrame
<1> QED BY <1>4 DEF g

LEMMA ReplaceFrame ==
  ASSUME TypeInv, frames # <<>>, NEW U \in SUBSET Mem
  PROVE  /\ StackOK(<<ptsFrame(U, frames[1].ret)>> \o Tail(frames))
         /\ <<ptsFrame(U, frames[1].ret)>> \o Tail(frames) # <<>>
<1>1. frames[1] \in Frame BY PopFrame DEF TypeInv, TypeOK
<1>2. /\ ptsFrame(U, frames[1].ret) \in Frame
      /\ ptsFrame(U, frames[1].ret).ret = frames[1].ret
      /\ ptsFrame(U, frames[1].ret).call # "collapseField"
  BY <1>1 DEF ptsFrame, Frame
<1> QED BY <1>2, SwapFrame

\* Returning from the innermost call.
LEMMA ReturnType ==
  ASSUME TypeInv, frames # <<>>, frames' = Tail(frames), pc' = frames[1].ret
  PROVE  frames' \in Seq(Frame) /\ FramesThere' /\ pc' \in {"copy", "drain", "collapse"}
<1>1. /\ frames[1] \in Frame /\ Len(frames) \in Nat \ {0} /\ frames' \in Seq(Frame)
      /\ Len(frames') = Len(frames) - 1
      /\ \A i \in 1 .. Len(frames) - 1 : frames'[i] = frames[i + 1]
  BY PopFrame DEF TypeInv, TypeOK
<1>2. pc' \in {"copy", "drain", "collapse"} BY <1>1 DEF Frame
<1>3. pc' = "collapse" => frames' # <<>>
  <2> SUFFICES ASSUME pc' = "collapse" PROVE Len(frames') > 0 BY <1>1
  <2>1. 1 \in 1 .. Len(frames) /\ frames[1].ret = "collapse" BY <1>1
  <2>2. 1 < Len(frames) BY <2>1 DEF TypeInv, FramesThere
  <2> QED BY <2>2, <1>1
<1>4. \A i \in 1 .. Len(frames') :
        /\ frames'[i].call = "collapseField" => frames'[i].base \in Mem
        /\ frames'[i].ret = "collapse" => i < Len(frames')
  <2> SUFFICES ASSUME NEW i \in 1 .. Len(frames) - 1
               PROVE  /\ frames'[i].call = "collapseField" => frames'[i].base \in Mem
                      /\ frames'[i].ret = "collapse" => i < Len(frames) - 1
    BY <1>1
  <2>1. i + 1 \in 1 .. Len(frames) /\ frames'[i] = frames[i + 1] BY <1>1
  <2> QED BY <2>1, <1>1 DEF TypeInv, FramesThere
<1> QED BY <1>1, <1>2, <1>3, <1>4 DEF FramesThere

\* What handleLoad and handleStore do once the new edges F are known.
HandlerStep(e, F) ==
  /\ todo' = todo \ {e}
  /\ cache' = cache \cup {<<e, m>> : m \in newPts(e)}
  /\ addCopyEdges(F)
  /\ reanalyze' = (reanalyze \/ changed(F))
  /\ UNCHANGED <<postUnchanged, node, pc>>

LEMMA HandleEdgeType ==
  ASSUME TypeInv, NEW e \in Edge, newPts(e) \subseteq Mem, pc = "post", node \in Node,
         NEW F \in SUBSET Edge, \A d \in F : d.kind = "copy", HandlerStep(e, F)
  PROVE  TypeInv'
<1>1. TypeOK BY DEF TypeInv
<1>2. addCopyEdges(F) BY DEF HandlerStep
<1>3. /\ edges' \subseteq Edge
      /\ pts' \in [Node -> SUBSET Mem] /\ revPts' \in [Mem -> SUBSET Node]
      /\ worklist' \subseteq Node
  BY <1>1, <1>2, AddCopyEdgesType
<1>4. cache' \subseteq Edge \X Mem BY <1>1 DEF HandlerStep, TypeOK
<1>5. AddrFromMem' BY <1>2 DEF addCopyEdges, TypeInv, AddrFromMem
<1>6. TypeOK' BY <1>1, <1>3, <1>4 DEF HandlerStep, TypeOK, postUnchanged, objVars, schedVars,
                   collapseVars
<1> QED BY <1>5, <1>6 DEF HandlerStep, TypeInv, NodeThere, GepThere, FramesThere, postUnchanged,
          collapseVars

\* Every step keeps TypeInv.
LEMMA TypeNext ==
  ASSUME TypeInv, Next
  PROVE  TypeInv'
<1> USE DEF TypeInv, Label, graphVars, objVars, ptsVars, schedVars, handlerVars, collapseVars
<1>1. CASE processAllAddr
  <2>1. \A n \in Node : addrs(edges, n) \subseteq Mem BY DEF AddrFromMem, addrs
  <2>2. TypeOK' BY <1>1, <2>1 DEF processAllAddr, TypeOK, AddrFromMem, NodeThere, GepThere,
        FramesThere
  <2> QED BY <1>1, <2>2 DEF processAllAddr, TypeOK, AddrFromMem, NodeThere, GepThere, FramesThere
<1>2. CASE SCCDetect
  <2>1. \A c \in sccOf(edges) : c \subseteq Node
    BY DEF sccOf, directEnds, TypeOK, Edge
  <2>2. PICK root \in [sccOf(edges) -> Node] :
          toMerge' = {<<root[c], c \ {root[c]}>> : c \in sccOf(edges)}
    BY <1>2 DEF SCCDetect
  <2>3. toMerge' \subseteq Node \X SUBSET Node BY <2>1, <2>2
  <2>4. nodeStack' \subseteq Node BY <1>2 DEF SCCDetect, live
  <2>5. before' \subseteq Node \X Node BY <1>2, <2>4 DEF SCCDetect
  <2> QED BY <1>2, <2>3, <2>4, <2>5 DEF SCCDetect, TypeOK, AddrFromMem, NodeThere, GepThere,
        FramesThere
<1>3. CASE mergeSccNodes
  <2>1. PICK c \in toMerge : \E n \in c[2] :
          /\ mergeNodeToRep(pts, n, c[1])
          /\ toMerge' = {x \in (toMerge \ {c}) \cup {<<c[1], c[2] \ {n}>>} : x[2] # {}}
    BY <1>3 DEF mergeSccNodes
  <2>2. PICK n \in c[2] :
          /\ mergeNodeToRep(pts, n, c[1])
          /\ toMerge' = {x \in (toMerge \ {c}) \cup {<<c[1], c[2] \ {n}>>} : x[2] # {}}
    BY <2>1
  <2>3. c[1] \in Node /\ c[2] \subseteq Node /\ n \in Node BY DEF TypeOK
  <2>4. toMerge' \subseteq Node \X SUBSET Node BY <2>2, <2>3 DEF TypeOK
  <2>5. pts \in [Node -> SUBSET Mem] BY DEF TypeOK
  <2>6. TypeOK' BY <1>3, <2>2, <2>3, <2>4, <2>5, MergeType DEF mergeSccNodes, TypeOK, AddrFromMem,
        NodeThere, GepThere, FramesThere
  <2>7. AddrFromMem' BY <2>2, <2>3, MergeAddr
  <2> QED BY <1>3, <2>6, <2>7 DEF mergeSccNodes, TypeOK, AddrFromMem, NodeThere, GepThere,
        FramesThere
<1>4. CASE mergeSccDone
  BY <1>4 DEF mergeSccDone, TypeOK, AddrFromMem, NodeThere, GepThere, FramesThere
<1>5. CASE processNode
  <2>1. \A n \in Node : rep[n] \in Node /\ ptsFrame(pts[rep[n]], "copy") \in Frame
    BY DEF TypeOK, ptsFrame, Frame
  <2>2. PICK n \in nodeStack :
          /\ node' = n /\ nodeStack' = nodeStack \ {n}
          /\ IF rep[n] \in pwc
               THEN frames' = <<ptsFrame(pts[rep[n]], "copy")>> /\ pc' = "collapse"
               ELSE pc' = "copy" /\ UNCHANGED frames
    BY <1>5 DEF processNode
  <2>3. n \in Node BY DEF TypeOK
  <2>4. frames' \in Seq(Frame) BY <2>1, <2>2, <2>3, OneFrame DEF TypeOK
  <2>5. TypeOK' BY <1>5, <2>2, <2>3, <2>4 DEF processNode, TypeOK, AddrFromMem, NodeThere, GepThere,
        FramesThere
  <2>6. FramesThere' BY <2>2, <2>3, <2>1 DEF FramesThere, ptsFrame
  <2> QED BY <1>5, <2>2, <2>3, <2>5, <2>6 DEF processNode, TypeOK, AddrFromMem, NodeThere, GepThere,
        FramesThere
<1>6. CASE waveDone
  BY <1>6 DEF waveDone, TypeOK, AddrFromMem, NodeThere, GepThere, FramesThere
<1>7. CASE skipMergedNode
  BY <1>7 DEF skipMergedNode, TypeOK, AddrFromMem, NodeThere, GepThere, FramesThere
<1>8. CASE handleCopyGep
  <2>1. diff' \subseteq Mem /\ node \in Node BY <1>8 DEF handleCopyGep, TypeOK, NodeThere
  <2>2. {e.dst : e \in {x \in outgoingCopies(edges, node) : diff' # {}}} \in SUBSET Node
    BY DEF outgoingCopies, TypeOK, Edge
  <2>3. propagate({e.dst : e \in {x \in outgoingCopies(edges, node) : diff' # {}}}, diff')
    BY <1>8 DEF handleCopyGep
  <2>4. /\ pts' \in [Node -> SUBSET Mem] /\ revPts' \in [Mem -> SUBSET Node]
        /\ worklist' \subseteq Node
    BY <2>1, <2>2, <2>3, PropagateType
  <2>5. todo' \subseteq Edge BY <1>8 DEF handleCopyGep, outgoingGeps, TypeOK
  <2> QED BY <1>8, <2>1, <2>4, <2>5 DEF handleCopyGep, TypeOK, AddrFromMem, NodeThere, GepThere,
        FramesThere
<1>9. CASE processGep
  BY <1>9 DEF processGep, gepUnchanged, TypeOK, AddrFromMem, NodeThere, GepThere, FramesThere
<1>10. CASE gepBlkObjOrConstant
  <2>1. PICK m \in gep.left : gepStep(m, {m}) BY <1>10 DEF gepBlkObjOrConstant
  <2>2. gep' \in [e : Edge \cup {Nil}, left : SUBSET Mem, tmp : SUBSET Mem] /\ gep'.e = gep.e
    BY <2>1 DEF gepStep, TypeOK
  <2> QED BY <1>10, <2>2 DEF gepBlkObjOrConstant, gepUnchanged, TypeOK, AddrFromMem, NodeThere,
        GepThere, FramesThere
<1>11. CASE variantGepPts
  <2>1. PICK m \in gep.left :
          /\ gepStep(m, {getBaseObjNode(m)})
          /\ fi' = fi \cup {ObjOf(m)}
          /\ toCollapse' \subseteq toCollapse \cup {getBaseObjNode(m)}
    BY <1>11 DEF variantGepPts
  <2>2. m \in Mem BY DEF TypeOK
  <2>3. gep' \in [e : Edge \cup {Nil}, left : SUBSET Mem, tmp : SUBSET Mem] /\ gep'.e = gep.e
    BY <2>1, <2>2, BaseNode DEF gepStep, TypeOK
  <2>4. fi' \subseteq Obj /\ toCollapse' \subseteq Mem BY <2>1, <2>2, BaseNode DEF TypeOK
  <2> QED BY <1>11, <2>3, <2>4 DEF variantGepPts, gepUnchanged, TypeOK, AddrFromMem, NodeThere,
        GepThere, FramesThere
<1>12. CASE normalGepPts
  <2> DEFINE fld(m) == getGepObjNode(m, gep.e.off, fi)
             new(m) == IF gep.e.off = 0 THEN newCopyEdge(edges, rep, getBaseObjNode(m), fld(m))
                       ELSE {}
  <2>1. PICK m \in gep.left :
          /\ gepStep(m, {fld(m)})
          /\ fields' = fields \cup ({fld(m)} \ {getBaseObjNode(m)})
          /\ addCopyEdges(new(m))
    BY <1>12 DEF normalGepPts
  <2>2. m \in Mem /\ gep.e.off \in Offset BY <1>12 DEF normalGepPts, GepThere, TypeOK, Edge
  <2>3. fld(m) \in Mem /\ fld(m) \in Node /\ getBaseObjNode(m) \in Node
    BY <2>2, GepNode, BaseNode DEF Node
  <2>4. new(m) \in SUBSET Edge /\ \A e \in new(m) : e.kind = "copy"
    <3>1. rep \in [Node -> Node] BY DEF TypeOK
    <3> HIDE DEF fld
    <3> QED BY <2>3, <3>1, NewCopyEdge
  <2>5. gep' \in [e : Edge \cup {Nil}, left : SUBSET Mem, tmp : SUBSET Mem] /\ gep'.e = gep.e
    <3> HIDE DEF fld
    <3> QED BY <2>1, <2>2, <2>3 DEF gepStep, TypeOK
  <2>6. fields' \subseteq Mem
    <3> HIDE DEF fld
    <3> QED BY <2>1, <2>3 DEF TypeOK
  <2> HIDE DEF fld, new
  <2>7. /\ edges' \subseteq Edge
        /\ pts' \in [Node -> SUBSET Mem] /\ revPts' \in [Mem -> SUBSET Node]
        /\ worklist' \subseteq Node
    BY <2>1, <2>4, AddCopyEdgesType
  <2>8. AddrFromMem' BY <2>1, <2>4 DEF AddrFromMem, addCopyEdges
  <2> QED BY <1>12, <2>5, <2>6, <2>7, <2>8 DEF normalGepPts, gepUnchanged, TypeOK, AddrFromMem,
        NodeThere, GepThere, FramesThere
<1>13. CASE processGepDone
  <2>1. {gep.e.dst} \in SUBSET Node /\ gep.tmp \in SUBSET Mem
    BY <1>13 DEF processGepDone, GepThere, TypeOK, Edge
  <2>2. propagate({gep.e.dst}, gep.tmp) BY <1>13 DEF processGepDone
  <2>3. /\ pts' \in [Node -> SUBSET Mem] /\ revPts' \in [Mem -> SUBSET Node]
        /\ worklist' \subseteq Node
    BY <2>1, <2>2, PropagateType
  <2> QED BY <1>13, <2>3 DEF processGepDone, NoGep, gepUnchanged, TypeOK, AddrFromMem, NodeThere,
        GepThere, FramesThere
<1>14. CASE handleGepDone
  BY <1>14 DEF handleGepDone, gepUnchanged, TypeOK, AddrFromMem, NodeThere, GepThere, FramesThere
<1>15. CASE collapseNext
  <2>1. PICK m \in toCollapse :
          toCollapse' = toCollapse \ {m} /\ callCollapseField(m, "drain", <<>>)
    BY <1>15 DEF collapseNext
  <2>2. m \in Mem BY DEF TypeOK
  <2>3. /\ frames' \in Seq(Frame) /\ fi' \subseteq Obj /\ FramesThere'
        /\ pc' \in {"drain", "collapse"}
    BY <2>1, <2>2, CallType
  <2> QED BY <1>15, <2>1, <2>3 DEF collapseNext, collapseUnchanged, TypeOK, AddrFromMem, NodeThere,
        GepThere, FramesThere
<1>16. CASE collapseAllDone
  BY <1>16 DEF collapseAllDone, collapseUnchanged, TypeOK, AddrFromMem, NodeThere, GepThere,
        FramesThere
<1>17. CASE collapseNodePts
  <2> DEFINE caller(m) == <<[frames[1] EXCEPT !.left = @ \ {m}]>> \o Tail(frames)
  <2>1. frames # <<>> /\ pc = "collapse" BY <1>17 DEF collapseNodePts, inCall, FramesThere
  <2>2. PICK m \in frames[1].left :
          IF ObjOf(m) \in fi THEN frames' = caller(m) /\ UNCHANGED <<fi, pc>>
          ELSE callCollapseField(m, "collapse", caller(m))
    BY <1>17 DEF collapseNodePts
  <2>3. frames[1] \in Frame /\ m \in Mem
    <3>1. frames[1] \in Frame BY <2>1, PopFrame DEF TypeOK
    <3> QED BY <3>1 DEF Frame
  <2>4. StackOK(caller(m)) /\ caller(m) # <<>> BY <2>1, TopFrame
  <2> HIDE DEF caller
  <2>5. /\ frames' \in Seq(Frame) /\ fi' \subseteq Obj /\ FramesThere' /\ pc' = "collapse"
    <3>1. CASE ObjOf(m) \in fi BY <2>1, <2>2, <2>4, <3>1 DEF StackOK, FramesThere, TypeOK
    <3>2. CASE ObjOf(m) \notin fi BY <2>2, <2>3, <2>4, <3>2, CallTypeNested
    <3> QED BY <3>1, <3>2
  <2> QED BY <1>17, <2>1, <2>5 DEF collapseNodePts, collapseUnchanged, TypeOK, AddrFromMem,
        NodeThere, GepThere, FramesThere
<1>18. CASE collapseField
  <2>1. frames # <<>> /\ pc = "collapse" /\ frames[1].call = "collapseField"
    BY <1>18 DEF collapseField, inCall, FramesThere
  <2>2. PICK f \in frames[1].left :
          /\ LET P == [n \in Node |-> replaceField(n, f, frames[1].base)]
             IN  IF rep[f] # rep[frames[1].base]
                   THEN mergeNodeToRep(P, rep[f], rep[frames[1].base])
                   ELSE pts' = P /\ UNCHANGED <<graphVars, revPts, propa, cache>>
          /\ frames' = <<[frames[1] EXCEPT !.left = @ \ {f}]>> \o Tail(frames)
    BY <1>18 DEF collapseField
  <2> DEFINE P == [n \in Node |-> replaceField(n, f, frames[1].base)]
  <2>3. frames[1] \in Frame /\ frames[1].base \in Mem
    <3>1. frames[1] \in Frame /\ 1 \in 1 .. Len(frames) BY <2>1, PopFrame DEF TypeOK
    <3> QED BY <3>1, <2>1 DEF FramesThere
  <2>4. f \in Mem BY <2>3 DEF Frame
  <2>5. P \in [Node -> SUBSET Mem] BY <2>3 DEF replaceField, TypeOK
  <2>6. rep[f] \in Node /\ rep[frames[1].base] \in Node BY <2>3, <2>4 DEF TypeOK, Node
  <2> HIDE DEF P
  <2>7. /\ edges' \subseteq Edge
        /\ rep' \in [Node -> Node] /\ subs' \in [Node -> SUBSET Node] /\ pwc' \subseteq Node
        /\ pts' \in [Node -> SUBSET Mem] /\ revPts' \in [Mem -> SUBSET Node]
        /\ propa' \in [Node -> SUBSET Mem] /\ cache' \subseteq Edge \X Mem
        /\ AddrFromMem'
    <3>1. CASE rep[f] # rep[frames[1].base]
      <4>1. mergeNodeToRep(P, rep[f], rep[frames[1].base]) BY <2>2, <3>1 DEF P
      <4> QED BY <4>1, <2>5, <2>6, MergeType, MergeAddr
    <3>2. CASE rep[f] = rep[frames[1].base]
      <4>1. pts' = P /\ UNCHANGED <<graphVars, revPts, propa, cache>> BY <2>2, <3>2 DEF P
      <4> QED BY <4>1, <2>5 DEF TypeOK, AddrFromMem, graphVars
    <3> QED BY <3>1, <3>2
  <2>8. StackOK(frames') /\ frames' # <<>> BY <2>1, <2>2, TopFrame
  <2>9. pc' = "collapse" BY <1>18, <2>1 DEF collapseField
  <2>10. TypeOK'
    <3>1. frames' \in Seq(Frame) BY <2>8 DEF StackOK
    <3>2. reanalyze' \in BOOLEAN BY <1>18 DEF collapseField
    <3> QED BY <1>18, <2>7, <3>1, <3>2 DEF collapseField, TypeOK, collapseUnchanged, objVars,
            schedVars, handlerVars
  <2>11. NodeThere' /\ GepThere' BY <1>18, <2>1, <2>9 DEF collapseField, NodeThere, GepThere,
            collapseUnchanged, handlerVars
  <2>12. FramesThere' BY <2>8, <2>9 DEF FramesThere, StackOK
  <2> QED BY <2>7, <2>10, <2>11, <2>12
<1>19. CASE collapseFieldDone
  <2>1. frames # <<>> /\ pc = "collapse" /\ frames[1].call = "collapseField"
    BY <1>19 DEF collapseFieldDone, inCall, FramesThere
  <2>2. frames[1] \in Frame /\ 1 \in 1 .. Len(frames) BY <2>1, PopFrame DEF TypeOK
  <2>3. rep[frames[1].base] \in Node BY <2>1, <2>2 DEF FramesThere, TypeOK, Node
  <2>4. /\ frames' \in Seq(Frame) /\ FramesThere' /\ pc' \in {"copy", "drain", "collapse"}
    <3>1. CASE rep[frames[1].base] \in pwc
      <4>1. pts[rep[frames[1].base]] \in SUBSET Mem BY <2>3 DEF TypeOK
      <4>2. StackOK(frames') /\ frames' # <<>>
        BY <1>19, <2>1, <3>1, <4>1, ReplaceFrame DEF collapseFieldDone
      <4>3. pc' = "collapse" BY <1>19, <2>1, <3>1 DEF collapseFieldDone
      <4> QED BY <4>2, <4>3 DEF StackOK, FramesThere
    <3>2. CASE rep[frames[1].base] \notin pwc
      <4>1. frames' = Tail(frames) /\ pc' = frames[1].ret BY <1>19, <3>2 DEF collapseFieldDone
      <4> QED BY <4>1, <2>1, ReturnType
    <3> QED BY <3>1, <3>2
  <2> QED BY <1>19, <2>1, <2>4 DEF collapseFieldDone, collapseUnchanged, TypeOK, AddrFromMem,
        NodeThere, GepThere, FramesThere
<1>20. CASE collapseNodePtsDone
  <2>1. frames # <<>> /\ pc = "collapse"
    BY <1>20 DEF collapseNodePtsDone, inCall, FramesThere
  <2>2. /\ frames' \in Seq(Frame) /\ FramesThere' /\ pc' \in {"copy", "drain", "collapse"}
    BY <1>20, <2>1, ReturnType DEF collapseNodePtsDone
  <2> QED BY <1>20, <2>1, <2>2 DEF collapseNodePtsDone, collapseUnchanged, TypeOK, AddrFromMem,
        NodeThere, GepThere, FramesThere
<1>21. CASE popFromWorklist
  <2>1. PICK n \in worklist :
          /\ worklist' = worklist \ {n} /\ node' = rep[n]
          /\ todo' = outgoingLoads(edges, rep[n]) \cup incomingStores(edges, rep[n])
    BY <1>21 DEF popFromWorklist
  <2>2. node' \in Node /\ worklist' \subseteq Node BY <2>1 DEF TypeOK
  <2>3. todo' \subseteq Edge BY <2>1 DEF TypeOK, outgoingLoads, incomingStores
  <2> QED BY <1>21, <2>2, <2>3 DEF popFromWorklist, postUnchanged, TypeOK, AddrFromMem, NodeThere,
        GepThere, FramesThere
<1>22. CASE handleLoad
  <2> DEFINE F(e) == UNION {newCopyEdge(edges, rep, m, e.dst) : m \in {x \in newPts(e) : ~ holdsNoPointer(x)}}
  <2>1. PICK e \in todo : handleEdge(e, F(e)) BY <1>22 DEF handleLoad
  <2>2. e \in Edge /\ e.src \in Node /\ e.dst \in Node BY DEF TypeOK, Edge
  <2>3. node \in Node BY <1>22 DEF handleLoad, NodeThere
  <2>4. newPts(e) \subseteq Mem BY <2>3 DEF newPts, TypeOK
  <2>5. F(e) \in SUBSET Edge /\ \A d \in F(e) : d.kind = "copy"
    <3>1. rep \in [Node -> Node] BY DEF TypeOK
    <3>2. \A m \in newPts(e) : \A d \in newCopyEdge(edges, rep, m, e.dst) : d \in Edge /\ d.kind = "copy"
      BY <2>2, <2>4, <3>1, NewCopyEdge DEF Node
    <3> QED BY <3>2
  <2> HIDE DEF F
  <2>6. HandlerStep(e, F(e)) BY <2>1 DEF handleEdge, HandlerStep
  <2>7. pc' = "post" BY <1>22, <2>1 DEF handleLoad, handleEdge
  <2> QED BY <1>22, <2>2, <2>3, <2>4, <2>5, <2>6, <2>7, HandleEdgeType DEF handleLoad
<1>23. CASE handleStore
  <2> DEFINE F(e) == UNION {newCopyEdge(edges, rep, e.src, m) : m \in {x \in newPts(e) : ~ holdsNoPointer(x)}}
  <2>1. PICK e \in todo : handleEdge(e, F(e)) BY <1>23 DEF handleStore
  <2>2. e \in Edge /\ e.src \in Node /\ e.dst \in Node BY DEF TypeOK, Edge
  <2>3. node \in Node BY <1>23 DEF handleStore, NodeThere
  <2>4. newPts(e) \subseteq Mem BY <2>3 DEF newPts, TypeOK
  <2>5. F(e) \in SUBSET Edge /\ \A d \in F(e) : d.kind = "copy"
    <3>1. rep \in [Node -> Node] BY DEF TypeOK
    <3>2. \A m \in newPts(e) : \A d \in newCopyEdge(edges, rep, e.src, m) : d \in Edge /\ d.kind = "copy"
      BY <2>2, <2>4, <3>1, NewCopyEdge DEF Node
    <3> QED BY <3>2
  <2> HIDE DEF F
  <2>6. HandlerStep(e, F(e)) BY <2>1 DEF handleEdge, HandlerStep
  <2>7. pc' = "post" BY <1>23, <2>1 DEF handleStore, handleEdge
  <2> QED BY <1>23, <2>2, <2>3, <2>4, <2>5, <2>6, <2>7, HandleEdgeType DEF handleStore
<1>24. CASE postDone
  BY <1>24 DEF postDone, postUnchanged, TypeOK, AddrFromMem, NodeThere, GepThere, FramesThere
<1>25. CASE updateCallGraph
  <2>1. PICK D \in SUBSET (resolvable \ called) :
          /\ called' = called \cup D
          /\ reanalyze' = (reanalyze \/ changed(D))
          /\ todo' = UNION {newCopyEdge(edges, rep, a[1], a[2]) : a \in UNION {c.args : c \in D}}
          /\ edges' = edges \cup todo'
    BY <1>25 DEF updateCallGraph
  <2>2. D \subseteq Call BY DEF resolvable, TypeOK, PAG
  <2>3. \A a \in UNION {c.args : c \in D} : a[1] \in Node /\ a[2] \in Node
    BY <2>2 DEF Call, Node
  <2>4. rep \in [Node -> Node] BY DEF TypeOK
  <2>5. todo' \subseteq Edge /\ \A e \in todo' : e.kind = "copy"
    <3>1. \A a \in UNION {c.args : c \in D} : \A e \in newCopyEdge(edges, rep, a[1], a[2]) :
            e \in Edge /\ e.kind = "copy"
      BY <2>3, <2>4, NewCopyEdge
    <3> QED BY <2>1, <3>1
  <2>6. edges' \subseteq Edge /\ called' \subseteq Call BY <2>1, <2>2, <2>5 DEF TypeOK
  <2>7. AddrFromMem' BY <2>1, <2>5 DEF AddrFromMem
  <2> QED BY <1>25, <2>1, <2>5, <2>6, <2>7 DEF updateCallGraph, changed, callgraphUnchanged, TypeOK,
        AddrFromMem, NodeThere, GepThere, FramesThere
<1>26. CASE connectCaller2CalleeParams
  <2>1. PICK e \in todo :
          /\ todo' = todo \ {e}
          /\ pts' = [pts EXCEPT ![e.dst] = @ \cup pts[e.src]]
          /\ revPts' = addRevPts(revPts, {e.dst}, pts[e.src])
          /\ worklist' = worklist \cup {e.dst}
    BY <1>26 DEF connectCaller2CalleeParams
  <2>2. e.src \in Node /\ e.dst \in Node BY DEF TypeOK, Edge
  <2>3. pts' \in [Node -> SUBSET Mem] BY <2>1, <2>2 DEF TypeOK
  <2>4. revPts' \in [Mem -> SUBSET Node] BY <2>1, <2>2 DEF TypeOK, addRevPts
  <2>5. worklist' \subseteq Node /\ todo' \subseteq Edge BY <2>1, <2>2 DEF TypeOK
  <2> QED BY <1>26, <2>3, <2>4, <2>5 DEF connectCaller2CalleeParams, callgraphUnchanged, TypeOK,
        AddrFromMem, NodeThere, GepThere, FramesThere
<1>27. CASE solveAgain
  BY <1>27 DEF solveAgain, callgraphUnchanged, TypeOK, AddrFromMem, NodeThere, GepThere, FramesThere
<1> QED
  BY <1>1, <1>2, <1>3, <1>4, <1>5, <1>6, <1>7, <1>8, <1>9, <1>10, <1>11, <1>12, <1>13, <1>14, <1>15,
        <1>16, <1>17, <1>18, <1>19, <1>20, <1>21, <1>22, <1>23, <1>24, <1>25, <1>26, <1>27
  DEF Next, waveNext, gepNext, collapsingNext, postNext, callNext

\* Every state of the solver is well-typed.
THEOREM TypeCorrect == Spec => []TypeOK
<1>1. Init => TypeInv BY TypeInit
<1>2. TypeInv /\ [Next \/ done]_vars => TypeInv'
  <2> SUFFICES ASSUME TypeInv, [Next \/ done]_vars PROVE TypeInv' OBVIOUS
  <2>1. CASE Next BY <2>1, TypeNext
  <2>2. CASE UNCHANGED vars
    BY <2>2 DEF vars, TypeInv, TypeOK, AddrFromMem, NodeThere, GepThere, FramesThere, graphVars,
                objVars, ptsVars, schedVars, handlerVars, collapseVars
  <2> QED BY <2>1, <2>2 DEF done
<1>3. TypeInv => TypeOK BY DEF TypeInv
<1> QED BY <1>1, <1>2, <1>3, PTL DEF Spec

-----------------------------------------------------------------------------
(****************************************************************************)
(* Precision.  S is a field-insensitive solution of the input; allowed(S,n) *)
(* is what it lets node n point to.  Everything the solver holds on to, not *)
(* only the points-to sets, stays within S: the edges it adds or moves, the *)
(* nodes it merges, the stale reverse points-to sets, what a handler read   *)
(* before it changed the graph, and the calls of collapseField under way.   *)
(****************************************************************************)
allowed(S, n) == S[base(n)]

EdgeSound(S, e) ==
  /\ e.kind = "addr" => ObjOf(e.src) \in allowed(S, e.dst)
  /\ e.kind \in DirectKind => allowed(S, e.src) \subseteq allowed(S, e.dst)
  /\ e.kind = "load" => \A o \in allowed(S, e.src) : S[baseOf(o)] \subseteq allowed(S, e.dst)
  /\ e.kind = "store" => \A o \in allowed(S, e.dst) : allowed(S, e.src) \subseteq S[baseOf(o)]

PtsSound(S)   == \A n \in Node : \A m \in pts[n] : ObjOf(m) \in allowed(S, n)
RevSound(S)   == \A m \in Mem : \A n \in revPts[m] : ObjOf(m) \in allowed(S, n)
EdgesSound(S) == \A e \in edges : EdgeSound(S, e)
RepSound(S)   == \A n \in Node : /\ allowed(S, rep[n]) = allowed(S, n)
                                 /\ \A m \in subs[n] : allowed(S, m) = allowed(S, n)
MergeSound(S) == \A c \in toMerge : \A n \in c[2] : allowed(S, n) = allowed(S, c[1])
GepSound(S) ==
  /\ pc \in {"gep", "ptd"} => \A e \in todo : \A m \in diff : ObjOf(m) \in allowed(S, e.dst)
  /\ pc = "ptd" => \A m \in gep.left \cup gep.tmp : ObjOf(m) \in allowed(S, gep.e.dst)
TodoSound(S) ==
  /\ pc = "post" => \A e \in todo : /\ EdgeSound(S, e)
                                    /\ e.kind = "load" => e.src = node
                                    /\ e.kind = "store" => e.dst = node
  /\ pc = "connect" => \A e \in todo : allowed(S, e.src) \subseteq allowed(S, e.dst)
Sound(S) == /\ PtsSound(S) /\ RevSound(S) /\ EdgesSound(S) /\ RepSound(S) /\ MergeSound(S)
            /\ GepSound(S) /\ TodoSound(S)

\* a call of collapseField works on fields of its own object
FrameOK(f) == f.call = "collapseField" => \A x \in f.left : ObjOf(x) = ObjOf(f.base)
FramesOK == \A i \in 1 .. Len(frames) : FrameOK(frames[i])

\* Memory nodes of one object are allowed the same.
LEMMA AllowedMem ==
  ASSUME NEW S, NEW m \in Mem
  PROVE  allowed(S, m) = S[baseOf(ObjOf(m))]
BY ConsGAssumption DEF allowed, base, baseOf, ObjOf, getBaseObjNode

\* What flows around a cycle of direct edges is allowed everywhere on it.
LEMMA CycleAllowed ==
  ASSUME NEW S, NEW E \in SUBSET Edge, \A e \in E : EdgeSound(S, e),
         NEW c \in sccOf(E), NEW m \in c, NEW n \in c
  PROVE  allowed(S, m) = allowed(S, n)
<1>1. PICK k \in directEnds(E) : c = {j \in directEnds(E) : sameCycle(reachable(E), j, k)}
  BY DEF sccOf
<1>2. \A u, v \in directEnds(E) :
        <<u, v>> \in reachable(E) => allowed(S, u) \subseteq allowed(S, v)
  <2> TAKE u, v \in directEnds(E)
  <2> HAVE <<u, v>> \in reachable(E)
  <2> DEFINE X == {j \in directEnds(E) : allowed(S, u) \subseteq allowed(S, j)}
  <2>1. closedUnderDirect(E, X)
    <3> SUFFICES ASSUME NEW e \in E, e.kind \in DirectKind, e.src \in X PROVE e.dst \in X
      BY DEF closedUnderDirect
    <3>1. e.dst \in directEnds(E) BY DEF directEnds
    <3>2. allowed(S, e.src) \subseteq allowed(S, e.dst) BY DEF EdgeSound
    <3> QED BY <3>1, <3>2
  <2>2. X \in SUBSET directEnds(E) /\ u \in X OBVIOUS
  <2>3. v \in X
    <3> HIDE DEF X
    <3> QED BY <2>1, <2>2 DEF reachable
  <2> QED BY <2>3
<1>3. \A j \in c : allowed(S, j) = allowed(S, k)
  <2> TAKE j \in c
  <2>1. /\ j \in directEnds(E)
        /\ <<k, j>> \in reachable(E) /\ <<j, k>> \in reachable(E)
    BY <1>1 DEF sameCycle
  <2>2. allowed(S, k) \subseteq allowed(S, j) BY <1>2, <2>1
  <2>3. allowed(S, j) \subseteq allowed(S, k) BY <1>2, <2>1
  <2> QED BY <2>2, <2>3
<1> QED BY <1>3

\* A copy edge between the representatives of u and v is sound if u may flow to v.
LEMMA NewCopySound ==
  ASSUME TypeOK, NEW S, RepSound(S), NEW u \in Node, NEW v \in Node,
         allowed(S, u) \subseteq allowed(S, v)
  PROVE  \A e \in newCopyEdge(edges, rep, u, v) :
           e.kind = "copy" /\ allowed(S, e.src) \subseteq allowed(S, e.dst)
<1>1. rep \in [Node -> Node] BY DEF TypeOK
<1>2. \A e \in newCopyEdge(edges, rep, u, v) :
        e.kind = "copy" /\ e.src = rep[u] /\ e.dst = rep[v]
  BY <1>1, NewCopyEdge
<1> QED BY <1>2 DEF RepSound

LEMMA AddCopySound ==
  ASSUME TypeOK, NEW S, PtsSound(S), RevSound(S), EdgesSound(S),
         NEW F \in SUBSET Edge,
         \A e \in F : e.kind = "copy" /\ allowed(S, e.src) \subseteq allowed(S, e.dst),
         addCopyEdges(F)
  PROVE  PtsSound(S)' /\ RevSound(S)' /\ EdgesSound(S)'
<1>1. \A e \in F : e.src \in Node /\ e.dst \in Node BY DEF Edge
<1>2. PtsSound(S)'
  <2> SUFFICES ASSUME NEW n \in Node, NEW m \in pts'[n] PROVE ObjOf(m) \in allowed(S, n)
    BY DEF PtsSound
  <2>1. m \in pts[n] \/ \E e \in F : e.dst = n /\ m \in pts[e.src] BY DEF addCopyEdges
  <2> QED BY <2>1, <1>1 DEF PtsSound
<1>3. RevSound(S)'
  <2> SUFFICES ASSUME NEW m \in Mem, NEW n \in revPts'[m] PROVE ObjOf(m) \in allowed(S, n)
    BY DEF RevSound
  <2>1. n \in revPts[m] \/ \E e \in F : e.dst = n /\ m \in pts[e.src] BY DEF addCopyEdges
  <2> QED BY <2>1, <1>1 DEF PtsSound, RevSound
<1>4. EdgesSound(S)' BY DEF addCopyEdges, EdgesSound, EdgeSound, DirectKind
<1> QED BY <1>2, <1>3, <1>4

LEMMA PropagateSound ==
  ASSUME TypeOK, NEW S, PtsSound(S), RevSound(S), NEW D \in SUBSET Node, NEW U \in SUBSET Mem,
         \A d \in D : \A m \in U : ObjOf(m) \in allowed(S, d), propagate(D, U)
  PROVE  PtsSound(S)' /\ RevSound(S)'
<1>1. PtsSound(S)' BY DEF PtsSound, propagate
<1>2. RevSound(S)' BY DEF RevSound, propagate, addRevPts
<1> QED BY <1>1, <1>2

LEMMA MovedSound ==
  ASSUME NEW S, NEW d, NEW e, NEW n, NEW r, EdgeSound(S, d), moved(e, d, n, r),
         allowed(S, n) = allowed(S, r)
  PROVE  EdgeSound(S, e)
BY DEF moved, EdgeSound

\* Merging two nodes that are allowed the same is sound.
LEMMA MergeKeepsSound ==
  ASSUME TypeOK, NEW S, RevSound(S), EdgesSound(S), RepSound(S),
         NEW P \in [Node -> SUBSET Mem],
         \A n \in Node : \A m \in P[n] : ObjOf(m) \in allowed(S, n),
         NEW n \in Node, NEW r \in Node, allowed(S, n) = allowed(S, r), mergeNodeToRep(P, n, r)
  PROVE  PtsSound(S)' /\ RevSound(S)' /\ EdgesSound(S)' /\ RepSound(S)'
<1>1. PtsSound(S)' BY DEF PtsSound, mergeNodeToRep
<1>2. RevSound(S)' BY DEF RevSound, mergeNodeToRep, addRevPts
<1>3. EdgesSound(S)'
  <2>1. edges \in SUBSET Edge BY DEF TypeOK
  <2>2. \A e \in edges' : \E d \in edges : moved(e, d, n, r)
    BY <2>1, MoveEdges DEF mergeNodeToRep
  <2> QED BY <2>2, MovedSound DEF EdgesSound
<1>4. RepSound(S)' BY DEF RepSound, mergeNodeToRep, nodeSubs, TypeOK
<1> QED BY <1>1, <1>2, <1>3, <1>4

LEMMA SoundInit ==
  ASSUME Init, NEW S \in FISolutions(pag)
  PROVE  Sound(S)
<1>1. EdgesSound(S)
  <2> SUFFICES ASSUME NEW e \in edges PROVE EdgeSound(S, e) BY DEF EdgesSound
  <2>1. e \in pag.edges /\ pag \in PAGs BY DEF Init
  <2>2. /\ e.kind = "addr" => e.dst \in Ptr
        /\ e.kind # "addr" => e.src \in Ptr /\ e.dst \in Ptr
    BY <2>1, WaveDiffAssumption
  <2>3. closed(pag, S) BY DEF FISolutions
  <2> QED BY <2>1, <2>2, <2>3 DEF closed, EdgeSound, allowed, base, DirectKind
<1> QED BY <1>1 DEF Init, Sound, PtsSound, RevSound, RepSound, MergeSound, GepSound, TodoSound

\* Every step stays within a solution S of the input.
LEMMA SoundNext ==
  ASSUME TypeInv, FramesOK, pag \in PAGs, NEW S \in FISolutions(pag), Sound(S), Next
  PROVE  Sound(S)'
<1> USE DEF Sound, graphVars, objVars, ptsVars, schedVars, handlerVars, collapseVars
<1>0. TypeOK BY DEF TypeInv
<1>1. CASE processAllAddr
  <2>1. \A n \in Node : \A m \in addrs(edges, n) : ObjOf(m) \in allowed(S, n)
    BY DEF addrs, EdgesSound, EdgeSound
  <2> QED BY <1>1, <2>1 DEF processAllAddr, PtsSound, RevSound, EdgesSound, RepSound, MergeSound,
        GepSound, TodoSound
<1>2. CASE SCCDetect
  <2>1. edges \in SUBSET Edge BY <1>0 DEF TypeOK
  <2>2. MergeSound(S)'
    <3>1. PICK root \in [sccOf(edges) -> Node] :
            /\ \A c \in sccOf(edges) : root[c] \in c
            /\ toMerge' = {<<root[c], c \ {root[c]}>> : c \in sccOf(edges)}
      BY <1>2 DEF SCCDetect
    <3>2. \A c \in sccOf(edges) : \A n \in c : allowed(S, n) = allowed(S, root[c])
      BY <2>1, <3>1, CycleAllowed DEF EdgesSound
    <3> QED BY <3>1, <3>2 DEF MergeSound
  <2> QED BY <1>2, <2>2 DEF SCCDetect, PtsSound, RevSound, EdgesSound, RepSound, MergeSound,
        GepSound, TodoSound
<1>3. CASE mergeSccNodes
  <2>1. PICK c \in toMerge : \E n \in c[2] :
          /\ mergeNodeToRep(pts, n, c[1])
          /\ toMerge' = {x \in (toMerge \ {c}) \cup {<<c[1], c[2] \ {n}>>} : x[2] # {}}
    BY <1>3 DEF mergeSccNodes
  <2>2. PICK n \in c[2] :
          /\ mergeNodeToRep(pts, n, c[1])
          /\ toMerge' = {x \in (toMerge \ {c}) \cup {<<c[1], c[2] \ {n}>>} : x[2] # {}}
    BY <2>1
  <2>3. c[1] \in Node /\ n \in Node /\ allowed(S, n) = allowed(S, c[1])
    BY <1>0 DEF TypeOK, MergeSound
  <2>4. pts \in [Node -> SUBSET Mem] BY <1>0 DEF TypeOK
  <2>5. PtsSound(S)' /\ RevSound(S)' /\ EdgesSound(S)' /\ RepSound(S)'
    BY <1>0, <2>2, <2>3, <2>4, MergeKeepsSound DEF PtsSound
  <2>6. MergeSound(S)' BY <2>2 DEF MergeSound
  <2> QED BY <1>3, <2>5, <2>6 DEF mergeSccNodes, GepSound, TodoSound
<1>4. CASE mergeSccDone
  BY <1>4 DEF mergeSccDone, PtsSound, RevSound, EdgesSound, RepSound, MergeSound, GepSound,
        TodoSound
<1>5. CASE processNode
  BY <1>5 DEF processNode, PtsSound, RevSound, EdgesSound, RepSound, MergeSound, GepSound, TodoSound
<1>6. CASE waveDone
  BY <1>6 DEF waveDone, PtsSound, RevSound, EdgesSound, RepSound, MergeSound, GepSound, TodoSound
<1>7. CASE skipMergedNode
  BY <1>7 DEF skipMergedNode, PtsSound, RevSound, EdgesSound, RepSound, MergeSound, GepSound,
        TodoSound
<1>8. CASE handleCopyGep
  <2>1. node \in Node BY <1>8 DEF handleCopyGep, TypeInv, NodeThere
  <2>2. diff' \in SUBSET Mem /\ diff' \subseteq pts[node]
    BY <1>0, <1>8, <2>1 DEF handleCopyGep, TypeOK
  <2> DEFINE D == {e.dst : e \in {x \in outgoingCopies(edges, node) : diff' # {}}}
  <2>3. D \in SUBSET Node BY <1>0 DEF outgoingCopies, TypeOK, Edge
  <2>4. \A e \in edges : e.kind \in DirectKind /\ e.src = node =>
          \A m \in diff' : ObjOf(m) \in allowed(S, e.dst)
    BY <2>1, <2>2 DEF EdgesSound, EdgeSound, PtsSound
  <2>5. \A d \in D : \A m \in diff' : ObjOf(m) \in allowed(S, d)
    BY <2>4 DEF outgoingCopies, DirectKind
  <2>6. propagate(D, diff') BY <1>8 DEF handleCopyGep
  <2> HIDE DEF D
  <2>7. PtsSound(S)' /\ RevSound(S)' BY <1>0, <2>2, <2>3, <2>5, <2>6, PropagateSound
  <2>8. GepSound(S)' BY <1>8, <2>4 DEF handleCopyGep, GepSound, outgoingGeps, DirectKind
  <2> QED BY <1>8, <2>7, <2>8 DEF handleCopyGep, PtsSound, RevSound, EdgesSound, RepSound,
        MergeSound, GepSound, TodoSound
<1>9. CASE processGep
  BY <1>9 DEF processGep, gepUnchanged, PtsSound, RevSound, EdgesSound, RepSound, MergeSound,
        GepSound, TodoSound
<1>10. CASE gepBlkObjOrConstant
  <2>1. PICK m \in gep.left : gepStep(m, {m})
    BY <1>10 DEF gepBlkObjOrConstant
  <2>2. gep.left \subseteq Mem /\ gep \in [e : Edge \cup {Nil}, left : SUBSET Mem, tmp : SUBSET Mem]
    BY <1>0 DEF TypeOK
  <2>3. gep'.e = gep.e /\ gep'.left \cup gep'.tmp \subseteq gep.left \cup gep.tmp \cup {m}
    BY <2>1, <2>2 DEF gepStep
  <2>4. GepSound(S)' BY <1>10, <2>3 DEF gepBlkObjOrConstant, gepUnchanged, GepSound
  <2> QED BY <1>10, <2>4 DEF gepBlkObjOrConstant, gepUnchanged, PtsSound, RevSound, EdgesSound,
        RepSound, MergeSound, GepSound, TodoSound
<1>11. CASE variantGepPts
  <2>1. PICK m \in gep.left : gepStep(m, {getBaseObjNode(m)})
    BY <1>11 DEF variantGepPts
  <2>2. gep.left \subseteq Mem /\ gep \in [e : Edge \cup {Nil}, left : SUBSET Mem, tmp : SUBSET Mem]
    BY <1>0 DEF TypeOK
  <2>3. gep'.e = gep.e /\ gep'.left \cup gep'.tmp \subseteq gep.left \cup gep.tmp \cup {getBaseObjNode(m)}
    BY <2>1, <2>2 DEF gepStep
  <2>4. ObjOf(getBaseObjNode(m)) = ObjOf(m) BY <2>2, BaseNode
  <2>5. GepSound(S)' BY <1>11, <2>3, <2>4 DEF variantGepPts, gepUnchanged, GepSound
  <2> QED BY <1>11, <2>5 DEF variantGepPts, gepUnchanged, PtsSound, RevSound, EdgesSound, RepSound,
        MergeSound, GepSound, TodoSound
<1>12. CASE normalGepPts
  <2> DEFINE fld(m) == getGepObjNode(m, gep.e.off, fi)
             new(m) == IF gep.e.off = 0 THEN newCopyEdge(edges, rep, getBaseObjNode(m), fld(m))
                       ELSE {}
  <2>1. PICK m \in gep.left : gepStep(m, {fld(m)}) /\ addCopyEdges(new(m))
    BY <1>12 DEF normalGepPts
  <2>2. gep.left \subseteq Mem /\ gep \in [e : Edge \cup {Nil}, left : SUBSET Mem, tmp : SUBSET Mem]
    BY <1>0 DEF TypeOK
  <2>3. m \in Mem /\ gep.e.off \in Offset
    BY <1>12, <2>2 DEF normalGepPts, TypeInv, GepThere, Edge
  <2>4. fld(m) \in Mem /\ ObjOf(fld(m)) = ObjOf(m) BY <2>3, GepNode
  <2>5. getBaseObjNode(m) \in Mem /\ ObjOf(getBaseObjNode(m)) = ObjOf(m) BY <2>3, BaseNode
  <2> HIDE DEF fld
  <2>6. gep'.e = gep.e /\ gep'.left \cup gep'.tmp \subseteq gep.left \cup gep.tmp \cup {fld(m)}
    BY <2>1, <2>2 DEF gepStep
  <2>7. allowed(S, getBaseObjNode(m)) \subseteq allowed(S, fld(m)) BY <2>4, <2>5, AllowedMem
  <2>8. \A e \in new(m) : /\ e \in Edge /\ e.kind = "copy"
                          /\ allowed(S, e.src) \subseteq allowed(S, e.dst)
    <3>1. rep \in [Node -> Node] BY <1>0 DEF TypeOK
    <3>2. fld(m) \in Node /\ getBaseObjNode(m) \in Node BY <2>4, <2>5 DEF Node
    <3> QED BY <1>0, <2>7, <3>1, <3>2, NewCopySound, NewCopyEdge
  <2> HIDE DEF new
  <2>9. PtsSound(S)' /\ RevSound(S)' /\ EdgesSound(S)' BY <1>0, <2>1, <2>8, AddCopySound
  <2>10. GepSound(S)' BY <1>12, <2>4, <2>6 DEF normalGepPts, gepUnchanged, GepSound
  <2> QED BY <1>12, <2>9, <2>10 DEF normalGepPts, gepUnchanged, PtsSound, RevSound, EdgesSound,
        RepSound, MergeSound, GepSound, TodoSound
<1>13. CASE processGepDone
  <2>1. {gep.e.dst} \in SUBSET Node /\ gep.tmp \in SUBSET Mem
    BY <1>0, <1>13 DEF processGepDone, TypeInv, GepThere, TypeOK, Edge
  <2>2. propagate({gep.e.dst}, gep.tmp) BY <1>13 DEF processGepDone
  <2>3. \A m \in gep.tmp : ObjOf(m) \in allowed(S, gep.e.dst) BY <1>13 DEF processGepDone, GepSound
  <2>4. PtsSound(S)' /\ RevSound(S)' BY <1>0, <2>1, <2>2, <2>3, PropagateSound
  <2> QED BY <1>13, <2>4 DEF processGepDone, gepUnchanged, PtsSound, RevSound, EdgesSound, RepSound,
        MergeSound, GepSound, TodoSound
<1>14. CASE handleGepDone
  BY <1>14 DEF handleGepDone, gepUnchanged, PtsSound, RevSound, EdgesSound, RepSound, MergeSound,
        GepSound, TodoSound
<1>15. CASE collapseNext
  <2>1. pc' \in {"drain", "collapse"} BY <1>15 DEF collapseNext, callCollapseField
  <2> QED BY <1>15, <2>1 DEF collapseNext, collapseUnchanged, PtsSound, RevSound, EdgesSound,
        RepSound, MergeSound, GepSound, TodoSound
<1>16. CASE collapseAllDone
  BY <1>16 DEF collapseAllDone, collapseUnchanged, PtsSound, RevSound, EdgesSound, RepSound,
        MergeSound, GepSound, TodoSound
<1>17. CASE collapseNodePts
  <2>1. pc' = "collapse" BY <1>17 DEF collapseNodePts, inCall, callCollapseField
  <2> QED BY <1>17, <2>1 DEF collapseNodePts, collapseUnchanged, PtsSound, RevSound, EdgesSound,
        RepSound, MergeSound, GepSound, TodoSound
<1>18. CASE collapseField
  <2>1. frames # <<>> /\ pc = "collapse" /\ frames[1].call = "collapseField"
    BY <1>18 DEF collapseField, inCall, TypeInv, FramesThere
  <2>2. PICK f \in frames[1].left :
          LET P == [n \in Node |-> replaceField(n, f, frames[1].base)]
          IN  IF rep[f] # rep[frames[1].base]
                THEN mergeNodeToRep(P, rep[f], rep[frames[1].base])
                ELSE pts' = P /\ UNCHANGED <<graphVars, revPts, propa, cache>>
    BY <1>18 DEF collapseField
  <2> DEFINE P == [n \in Node |-> replaceField(n, f, frames[1].base)]
  <2>3. frames[1] \in Frame /\ frames[1].base \in Mem /\ ObjOf(f) = ObjOf(frames[1].base)
    <3>1. frames[1] \in Frame /\ 1 \in 1 .. Len(frames) BY <1>0, <2>1, PopFrame DEF TypeOK
    <3> QED BY <3>1, <2>1 DEF TypeInv, FramesThere, FramesOK, FrameOK
  <2>4. f \in Mem BY <2>3 DEF Frame
  <2>5. P \in [Node -> SUBSET Mem] BY <1>0, <2>3 DEF replaceField, TypeOK
  <2>6. \A n \in Node : \A m \in P[n] : ObjOf(m) \in allowed(S, n)
    <3> SUFFICES ASSUME NEW n \in Node, NEW m \in replaceField(n, f, frames[1].base)
                 PROVE  ObjOf(m) \in allowed(S, n)
      OBVIOUS
    <3>1. CASE m \in pts[n] BY <3>1 DEF PtsSound
    <3>2. CASE m \notin pts[n]
      <4>1. PICK k \in revPts[f] : rep[k] = n BY <3>2 DEF replaceField
      <4>2. ObjOf(m) = ObjOf(f) BY <2>3, <3>2 DEF replaceField
      <4>3. k \in Node BY <1>0, <2>4 DEF TypeOK
      <4> QED BY <2>4, <4>1, <4>2, <4>3 DEF RevSound, RepSound
    <3> QED BY <3>1, <3>2
  <2> HIDE DEF P
  <2>7. PtsSound(S)' /\ RevSound(S)' /\ EdgesSound(S)' /\ RepSound(S)'
    <3>1. CASE rep[f] # rep[frames[1].base]
      <4>1. mergeNodeToRep(P, rep[f], rep[frames[1].base]) BY <2>2, <3>1 DEF P
      <4>2. f \in Node /\ frames[1].base \in Node BY <2>3, <2>4 DEF Node
      <4>3. rep[f] \in Node /\ rep[frames[1].base] \in Node BY <1>0, <4>2 DEF TypeOK
      <4>4. allowed(S, rep[f]) = allowed(S, rep[frames[1].base])
        BY <2>3, <2>4, <4>2, AllowedMem DEF RepSound
      <4> QED BY <1>0, <2>5, <2>6, <4>1, <4>3, <4>4, MergeKeepsSound
    <3>2. CASE rep[f] = rep[frames[1].base]
      <4>1. pts' = P /\ UNCHANGED <<graphVars, revPts, propa, cache>> BY <2>2, <3>2 DEF P
      <4> QED BY <2>6, <4>1 DEF PtsSound, RevSound, EdgesSound, RepSound, graphVars
    <3> QED BY <3>1, <3>2
  <2> QED BY <1>18, <2>1, <2>7 DEF collapseField, collapseUnchanged, MergeSound, GepSound,
        TodoSound,
          schedVars, handlerVars
<1>19. CASE collapseFieldDone
  <2>1. pc' \in {"copy", "drain", "collapse"}
    <3>1. frames # <<>> BY <1>19 DEF collapseFieldDone, inCall, TypeInv, FramesThere
    <3>2. frames[1].ret \in {"copy", "drain", "collapse"}
      BY <1>0, <3>1, PopFrame DEF TypeOK, Frame
    <3> QED BY <1>19, <3>2 DEF collapseFieldDone, inCall
  <2> QED BY <1>19, <2>1 DEF collapseFieldDone, collapseUnchanged, PtsSound, RevSound, EdgesSound,
        RepSound, MergeSound, GepSound, TodoSound
<1>20. CASE collapseNodePtsDone
  <2>1. pc' \in {"copy", "drain", "collapse"}
    <3>1. frames # <<>> BY <1>20 DEF collapseNodePtsDone, inCall, TypeInv, FramesThere
    <3>2. frames[1].ret \in {"copy", "drain", "collapse"}
      BY <1>0, <3>1, PopFrame DEF TypeOK, Frame
    <3> QED BY <1>20, <3>2 DEF collapseNodePtsDone
  <2> QED BY <1>20, <2>1 DEF collapseNodePtsDone, collapseUnchanged, PtsSound, RevSound, EdgesSound,
        RepSound, MergeSound, GepSound, TodoSound
<1>21. CASE popFromWorklist
  <2>1. TodoSound(S)'
    BY <1>21 DEF popFromWorklist, outgoingLoads, incomingStores, EdgesSound, TodoSound
  <2> QED BY <1>21, <2>1 DEF popFromWorklist, postUnchanged, PtsSound, RevSound, EdgesSound,
        RepSound, MergeSound, GepSound, TodoSound
<1>22. CASE handleLoad
  <2> DEFINE F(e) == UNION {newCopyEdge(edges, rep, m, e.dst) :
                              m \in {x \in newPts(e) : ~ holdsNoPointer(x)}}
  <2>1. PICK e \in todo : e.kind = "load" /\ handleEdge(e, F(e)) BY <1>22 DEF handleLoad
  <2>2. e \in Edge /\ e.src \in Node /\ e.dst \in Node BY <1>0 DEF TypeOK, Edge
  <2>3. node \in Node BY <1>22 DEF handleLoad, TypeInv, NodeThere
  <2>4. newPts(e) \subseteq Mem /\ newPts(e) \subseteq pts[node]
    BY <1>0, <2>3 DEF newPts, TypeOK
  <2>5. \A m \in newPts(e) : allowed(S, m) \subseteq allowed(S, e.dst)
    <3> SUFFICES ASSUME NEW m \in newPts(e) PROVE allowed(S, m) \subseteq allowed(S, e.dst)
      OBVIOUS
    <3>1. ObjOf(m) \in allowed(S, node) BY <2>3, <2>4 DEF PtsSound
    <3>2. EdgeSound(S, e) /\ e.src = node BY <1>22, <2>1 DEF handleLoad, TodoSound
    <3>3. m \in Mem /\ allowed(S, m) = S[baseOf(ObjOf(m))] BY <2>4, AllowedMem
    <3> QED BY <2>1, <3>1, <3>2, <3>3 DEF EdgeSound
  <2>6. \A d \in F(e) : /\ d \in Edge /\ d.kind = "copy"
                        /\ allowed(S, d.src) \subseteq allowed(S, d.dst)
    <3>1. rep \in [Node -> Node] BY <1>0 DEF TypeOK
    <3>2. \A m \in newPts(e) : \A d \in newCopyEdge(edges, rep, m, e.dst) :
            d \in Edge /\ d.kind = "copy" /\ allowed(S, d.src) \subseteq allowed(S, d.dst)
      <4> SUFFICES ASSUME NEW m \in newPts(e)
                   PROVE  \A d \in newCopyEdge(edges, rep, m, e.dst) :
                            d \in Edge /\ d.kind = "copy" /\ allowed(S, d.src) \subseteq allowed(S, d.dst)
        OBVIOUS
      <4>1. m \in Node /\ e.dst \in Node BY <2>2, <2>4 DEF Node
      <4>2. \A d \in newCopyEdge(edges, rep, m, e.dst) : d \in Edge BY <3>1, <4>1, NewCopyEdge
      <4>3. \A d \in newCopyEdge(edges, rep, m, e.dst) :
              d.kind = "copy" /\ allowed(S, d.src) \subseteq allowed(S, d.dst)
        BY <1>0, <2>5, <4>1, NewCopySound
      <4> QED BY <4>2, <4>3
    <3> QED BY <3>2
  <2> HIDE DEF F
  <2>7. PtsSound(S)' /\ RevSound(S)' /\ EdgesSound(S)'
    BY <1>0, <2>1, <2>6, AddCopySound DEF handleEdge
  <2>8. TodoSound(S)' BY <1>22, <2>1 DEF handleLoad, handleEdge, TodoSound
  <2> QED BY <1>22, <2>1, <2>7, <2>8 DEF handleLoad, handleEdge, postUnchanged, RepSound,
        MergeSound,
          GepSound, schedVars
<1>23. CASE handleStore
  <2> DEFINE F(e) == UNION {newCopyEdge(edges, rep, e.src, m) :
                              m \in {x \in newPts(e) : ~ holdsNoPointer(x)}}
  <2>1. PICK e \in todo : e.kind = "store" /\ handleEdge(e, F(e)) BY <1>23 DEF handleStore
  <2>2. e \in Edge /\ e.src \in Node /\ e.dst \in Node BY <1>0 DEF TypeOK, Edge
  <2>3. node \in Node BY <1>23 DEF handleStore, TypeInv, NodeThere
  <2>4. newPts(e) \subseteq Mem /\ newPts(e) \subseteq pts[node]
    BY <1>0, <2>3 DEF newPts, TypeOK
  <2>5. \A m \in newPts(e) : allowed(S, e.src) \subseteq allowed(S, m)
    <3> SUFFICES ASSUME NEW m \in newPts(e) PROVE allowed(S, e.src) \subseteq allowed(S, m)
      OBVIOUS
    <3>1. ObjOf(m) \in allowed(S, node) BY <2>3, <2>4 DEF PtsSound
    <3>2. EdgeSound(S, e) /\ e.dst = node BY <1>23, <2>1 DEF handleStore, TodoSound
    <3>3. m \in Mem /\ allowed(S, m) = S[baseOf(ObjOf(m))] BY <2>4, AllowedMem
    <3> QED BY <2>1, <3>1, <3>2, <3>3 DEF EdgeSound
  <2>6. \A d \in F(e) : /\ d \in Edge /\ d.kind = "copy"
                        /\ allowed(S, d.src) \subseteq allowed(S, d.dst)
    <3>1. rep \in [Node -> Node] BY <1>0 DEF TypeOK
    <3>2. \A m \in newPts(e) : \A d \in newCopyEdge(edges, rep, e.src, m) :
            d \in Edge /\ d.kind = "copy" /\ allowed(S, d.src) \subseteq allowed(S, d.dst)
      <4> SUFFICES ASSUME NEW m \in newPts(e)
                   PROVE  \A d \in newCopyEdge(edges, rep, e.src, m) :
                            d \in Edge /\ d.kind = "copy" /\ allowed(S, d.src) \subseteq allowed(S, d.dst)
        OBVIOUS
      <4>1. e.src \in Node /\ m \in Node BY <2>2, <2>4 DEF Node
      <4>2. \A d \in newCopyEdge(edges, rep, e.src, m) : d \in Edge BY <3>1, <4>1, NewCopyEdge
      <4>3. \A d \in newCopyEdge(edges, rep, e.src, m) :
              d.kind = "copy" /\ allowed(S, d.src) \subseteq allowed(S, d.dst)
        BY <1>0, <2>5, <4>1, NewCopySound
      <4> QED BY <4>2, <4>3
    <3> QED BY <3>2
  <2> HIDE DEF F
  <2>7. PtsSound(S)' /\ RevSound(S)' /\ EdgesSound(S)'
    BY <1>0, <2>1, <2>6, AddCopySound DEF handleEdge
  <2>8. TodoSound(S)' BY <1>23, <2>1 DEF handleStore, handleEdge, TodoSound
  <2> QED BY <1>23, <2>1, <2>7, <2>8 DEF handleStore, handleEdge, postUnchanged, RepSound,
        MergeSound,
          GepSound, schedVars
<1>24. CASE postDone
  BY <1>24 DEF postDone, postUnchanged, PtsSound, RevSound, EdgesSound, RepSound, MergeSound,
        GepSound, TodoSound
<1>25. CASE updateCallGraph
  <2>1. PICK D \in SUBSET (resolvable \ called) :
          /\ todo' = UNION {newCopyEdge(edges, rep, a[1], a[2]) : a \in UNION {c.args : c \in D}}
          /\ edges' = edges \cup todo'
    BY <1>25 DEF updateCallGraph
  <2>2. \A c \in D : c \in pag.calls /\ c \in Call /\ c.callee \in S[c.cs]
    <3> SUFFICES ASSUME NEW c \in D PROVE c \in pag.calls /\ c \in Call /\ c.callee \in S[c.cs]
      OBVIOUS
    <3>1. c \in pag.calls /\ c \in Call BY <1>0 DEF resolvable, TypeOK, PAG
    <3>2. PICK m \in pts[rep[c.cs]] : ObjOf(m) = c.callee BY DEF resolvable
    <3>3. c.cs \in Ptr /\ c.cs \in Node /\ rep[c.cs] \in Node
      BY <1>0, <3>1 DEF Call, Node, TypeOK
    <3>4. c.callee \in allowed(S, c.cs) BY <3>2, <3>3 DEF PtsSound, RepSound
    <3> QED BY <3>1, <3>3, <3>4 DEF allowed, base
  <2>3. \A a \in UNION {c.args : c \in D} :
          a[1] \in Node /\ a[2] \in Node /\ allowed(S, a[1]) \subseteq allowed(S, a[2])
    <3> SUFFICES ASSUME NEW c \in D, NEW a \in c.args
                 PROVE  /\ a[1] \in Node /\ a[2] \in Node
                        /\ allowed(S, a[1]) \subseteq allowed(S, a[2])
      OBVIOUS
    <3>1. a[1] \in Ptr /\ a[2] \in Ptr BY <2>2 DEF Call
    <3>2. S[a[1]] \subseteq S[a[2]] BY <2>2 DEF FISolutions, closed
    <3> QED BY <3>1, <3>2 DEF Node, allowed, base
  <2>4. \A e \in todo' : e.kind = "copy" /\ allowed(S, e.src) \subseteq allowed(S, e.dst)
    <3>1. \A a \in UNION {c.args : c \in D} : \A e \in newCopyEdge(edges, rep, a[1], a[2]) :
            e.kind = "copy" /\ allowed(S, e.src) \subseteq allowed(S, e.dst)
      BY <1>0, <2>3, NewCopySound
    <3> QED BY <2>1, <3>1
  <2>5. EdgesSound(S)' BY <2>1, <2>4 DEF EdgesSound, EdgeSound, DirectKind
  <2> QED BY <1>25, <2>4, <2>5 DEF updateCallGraph, callgraphUnchanged, PtsSound, RevSound,
        RepSound,
          MergeSound, GepSound, TodoSound, schedVars
<1>26. CASE connectCaller2CalleeParams
  <2>1. PICK e \in todo :
          /\ todo' = todo \ {e}
          /\ pts' = [pts EXCEPT ![e.dst] = @ \cup pts[e.src]]
          /\ revPts' = addRevPts(revPts, {e.dst}, pts[e.src])
    BY <1>26 DEF connectCaller2CalleeParams
  <2>2. e.src \in Node /\ e.dst \in Node BY <1>0 DEF TypeOK, Edge
  <2>3. \A m \in pts[e.src] : ObjOf(m) \in allowed(S, e.dst)
    BY <1>26, <2>2 DEF connectCaller2CalleeParams, TodoSound, PtsSound
  <2>4. PtsSound(S)' BY <1>0, <2>1, <2>2, <2>3 DEF PtsSound, TypeOK
  <2>5. RevSound(S)' BY <2>1, <2>3 DEF RevSound, addRevPts
  <2>6. TodoSound(S)' BY <1>26, <2>1 DEF connectCaller2CalleeParams, TodoSound
  <2> QED BY <1>26, <2>4, <2>5, <2>6 DEF connectCaller2CalleeParams, callgraphUnchanged, EdgesSound,
          RepSound, MergeSound, GepSound, schedVars
<1>27. CASE solveAgain
  BY <1>27 DEF solveAgain, callgraphUnchanged, PtsSound, RevSound, EdgesSound, RepSound, MergeSound,
        GepSound, TodoSound
<1> QED
  BY <1>1, <1>2, <1>3, <1>4, <1>5, <1>6, <1>7, <1>8, <1>9, <1>10, <1>11, <1>12, <1>13, <1>14, <1>15,
        <1>16, <1>17, <1>18, <1>19, <1>20, <1>21, <1>22, <1>23, <1>24, <1>25, <1>26, <1>27
  DEF Next, waveNext, gepNext, collapsingNext, postNext, callNext

\* FramesOK survives a call of collapseField and the return from one.
LEMMA CallFrames ==
  ASSUME TypeOK, NEW m \in Mem, NEW ret, NEW s, Len(s) \in Nat,
         s \in Seq(Frame), \A i \in 1 .. Len(s) : FrameOK(s[i]),
         ret \in {"drain", "collapse"}, callCollapseField(m, ret, s)
  PROVE  FramesOK'
<1>1. CASE frames' = s BY <1>1 DEF FramesOK
<1>2. CASE frames' # s
  <2> DEFINE f == fieldFrame(getBaseObjNode(m), fieldsOf(m), ret)
  <2>1. frames' = <<f>> \o s BY <1>2 DEF callCollapseField
  <2>2. f \in Frame BY BaseNode DEF fieldFrame, Frame, fieldsOf, TypeOK
  <2>3. FrameOK(f) BY BaseNode DEF FrameOK, fieldFrame, fieldsOf
  <2> HIDE DEF f
  <2>4. /\ Len(frames') = Len(s) + 1
        /\ \A i \in 1 .. Len(s) + 1 : frames'[i] = IF i = 1 THEN f ELSE s[i - 1]
    BY <2>1, <2>2, PushFrame
  <2>5. \A i \in 1 .. Len(s) + 1 : FrameOK(frames'[i])
    <3> SUFFICES ASSUME NEW i \in 1 .. Len(s) + 1 PROVE FrameOK(frames'[i]) OBVIOUS
    <3>1. CASE i = 1 BY <2>3, <2>4, <3>1
    <3>2. CASE i # 1
      <4>1. i - 1 \in 1 .. Len(s) /\ frames'[i] = s[i - 1] BY <2>4, <3>2
      <4> QED BY <4>1
    <3> QED BY <3>1, <3>2
  <2> QED BY <2>4, <2>5 DEF FramesOK
<1> QED BY <1>1, <1>2

\* The stack with the innermost frame replaced by a sound one.
LEMMA SwapFrames ==
  ASSUME TypeOK, frames # <<>>, FramesOK, NEW g \in Frame, FrameOK(g)
  PROVE  /\ <<g>> \o Tail(frames) \in Seq(Frame)
         /\ Len(<<g>> \o Tail(frames)) \in Nat
         /\ \A i \in 1 .. Len(<<g>> \o Tail(frames)) : FrameOK((<<g>> \o Tail(frames))[i])
<1> DEFINE s == <<g>> \o Tail(frames)
<1>1. /\ Len(frames) \in Nat \ {0} /\ Tail(frames) \in Seq(Frame)
      /\ Len(Tail(frames)) = Len(frames) - 1
      /\ \A i \in 1 .. Len(frames) - 1 : Tail(frames)[i] = frames[i + 1]
  BY PopFrame DEF TypeOK
<1>2. /\ s \in Seq(Frame) /\ Len(s) = Len(frames)
      /\ \A i \in 1 .. Len(frames) : s[i] = IF i = 1 THEN g ELSE Tail(frames)[i - 1]
  BY <1>1, PushFrame
<1> HIDE DEF s
<1>3. \A i \in 1 .. Len(s) : FrameOK(s[i])
  <2> SUFFICES ASSUME NEW i \in 1 .. Len(frames) PROVE FrameOK(s[i]) BY <1>2
  <2>1. CASE i = 1 BY <1>2, <2>1
  <2>2. CASE i # 1
    <3>1. i - 1 \in 1 .. Len(frames) - 1 /\ s[i] = frames[i] BY <1>1, <1>2, <2>2
    <3> QED BY <3>1 DEF FramesOK
  <2> QED BY <2>1, <2>2
<1>4. s \in Seq(Frame) /\ Len(s) \in Nat /\ \A i \in 1 .. Len(s) : FrameOK(s[i])
  BY <1>1, <1>2, <1>3
<1> QED BY <1>4 DEF s

LEMMA ReturnFrames ==
  ASSUME TypeOK, frames # <<>>, FramesOK, frames' = Tail(frames)
  PROVE  FramesOK'
<1>1. /\ Len(frames) \in Nat \ {0} /\ Len(frames') = Len(frames) - 1
      /\ \A i \in 1 .. Len(frames) - 1 : frames'[i] = frames[i + 1]
  BY PopFrame DEF TypeOK
<1>2. \A i \in 1 .. Len(frames) - 1 : i + 1 \in 1 .. Len(frames) BY <1>1
<1> QED BY <1>1, <1>2 DEF FramesOK

LEMMA FramesNext ==
  ASSUME TypeInv, FramesOK, Next
  PROVE  FramesOK'
<1>0. TypeOK /\ FramesThere BY DEF TypeInv
<1>1. CASE processNode
  <2>1. PICK n \in nodeStack :
          IF rep[n] \in pwc THEN frames' = <<ptsFrame(pts[rep[n]], "copy")>> ELSE UNCHANGED frames
    BY <1>1 DEF processNode
  <2>2. CASE UNCHANGED frames BY <2>2 DEF FramesOK
  <2>3. CASE frames' = <<ptsFrame(pts[rep[n]], "copy")>>
    <3>1. FrameOK(ptsFrame(pts[rep[n]], "copy")) BY DEF FrameOK, ptsFrame
    <3>2. Len(frames') = 1 /\ frames'[1] = ptsFrame(pts[rep[n]], "copy") BY <2>3
    <3> QED BY <3>1, <3>2 DEF FramesOK
  <2> QED BY <2>1, <2>2, <2>3
<1>2. CASE collapseNext
  <2>1. PICK m \in toCollapse : callCollapseField(m, "drain", <<>>) BY <1>2 DEF collapseNext
  <2>2. m \in Mem /\ <<>> \in Seq(Frame) /\ Len(<<>>) = 0 BY <1>0 DEF TypeOK
  <2>3. \A i \in 1 .. Len(<<>>) : FrameOK(<<>>[i]) BY <2>2
  <2>4. Len(<<>>) \in Nat BY <2>2
  <2> QED BY <1>0, <2>1, <2>2, <2>3, <2>4, CallFrames
<1>3. CASE collapseNodePts \/ collapseField
  <2>1. frames # <<>> /\ frames[1] \in Frame /\ 1 \in 1 .. Len(frames)
    BY <1>0, <1>3, PopFrame DEF collapseNodePts, collapseField, inCall, FramesThere, TypeOK
  <2> DEFINE g(f) == [frames[1] EXCEPT !.left = @ \ {f}]
             s(f) == <<g(f)>> \o Tail(frames)
  <2>2. \A f : g(f) \in Frame /\ FrameOK(g(f)) BY <2>1 DEF FramesOK, FrameOK, Frame
  <2> HIDE DEF g
  <2>3. \A f : s(f) \in Seq(Frame) /\ Len(s(f)) \in Nat /\ \A i \in 1 .. Len(s(f)) : FrameOK(s(f)[i])
    BY <1>0, <2>1, <2>2, SwapFrames
  <2> HIDE DEF s
  <2>4. CASE collapseField
    <3>1. \E f \in frames[1].left : frames' = s(f) BY <2>4 DEF collapseField, s, g
    <3> QED BY <2>3, <3>1 DEF FramesOK
  <2>5. CASE collapseNodePts
    <3>1. PICK m \in frames[1].left :
            frames' = s(m) \/ callCollapseField(m, "collapse", s(m))
      BY <2>5 DEF collapseNodePts, s, g
    <3>2. CASE frames' = s(m)
      <4>1. Len(s(m)) \in Nat /\ \A i \in 1 .. Len(s(m)) : FrameOK(s(m)[i]) BY <2>3
      <4> QED BY <3>2, <4>1 DEF FramesOK
    <3>3. CASE callCollapseField(m, "collapse", s(m))
      <4>1. m \in Mem BY <2>1 DEF Frame
      <4>2. s(m) \in Seq(Frame) /\ Len(s(m)) \in Nat /\ \A i \in 1 .. Len(s(m)) : FrameOK(s(m)[i])
        BY <2>3
      <4> QED BY <1>0, <3>3, <4>1, <4>2, CallFrames
    <3> QED BY <3>1, <3>2, <3>3
  <2> QED BY <1>3, <2>4, <2>5
<1>4. CASE collapseFieldDone
  <2>1. frames # <<>> /\ frames[1] \in Frame /\ 1 \in 1 .. Len(frames)
    BY <1>0, <1>4, PopFrame DEF collapseFieldDone, inCall, FramesThere, TypeOK
  <2>2. CASE frames' = Tail(frames) BY <1>0, <2>1, <2>2, ReturnFrames
  <2>3. CASE frames' # Tail(frames)
    <3> DEFINE g == ptsFrame(pts[rep[frames[1].base]], frames[1].ret)
    <3>1. frames' = <<g>> \o Tail(frames) BY <1>4, <2>3 DEF collapseFieldDone
    <3>2. rep[frames[1].base] \in Node
      BY <1>0, <1>4, <2>1 DEF collapseFieldDone, inCall, FramesThere, TypeOK, Node
    <3>3. pts[rep[frames[1].base]] \in SUBSET Mem BY <1>0, <3>2 DEF TypeOK
    <3>4. g \in Frame /\ FrameOK(g) BY <2>1, <3>3 DEF ptsFrame, Frame, FrameOK
    <3> HIDE DEF g
    <3> QED BY <1>0, <2>1, <3>1, <3>4, SwapFrames DEF FramesOK
  <2> QED BY <2>2, <2>3
<1>5. CASE collapseNodePtsDone
  <2>1. frames # <<>> BY <1>0, <1>5 DEF collapseNodePtsDone, inCall, FramesThere
  <2> QED BY <1>0, <1>5, <2>1, ReturnFrames DEF collapseNodePtsDone
<1>6. CASE UNCHANGED frames BY <1>6 DEF FramesOK
<1>7. CASE \/ processAllAddr \/ SCCDetect \/ mergeSccNodes \/ mergeSccDone \/ waveDone
           \/ skipMergedNode \/ handleCopyGep \/ gepNext \/ collapseAllDone \/ postNext \/ callNext
  BY <1>6, <1>7 DEF processAllAddr, SCCDetect, mergeSccNodes, mergeSccDone, waveDone,
       skipMergedNode, handleCopyGep, gepNext, processGep, gepBlkObjOrConstant, variantGepPts,
       normalGepPts, processGepDone, handleGepDone, gepUnchanged, collapseAllDone, postNext,
       popFromWorklist, handleLoad, handleStore, handleEdge, postDone, postUnchanged, callNext,
       updateCallGraph, connectCaller2CalleeParams, solveAgain, callgraphUnchanged, collapseVars
<1> QED BY <1>1, <1>2, <1>3, <1>4, <1>5, <1>7 DEF Next, waveNext, collapsingNext

\* No step changes the input.
LEMMA InputFixed ==
  ASSUME Next
  PROVE  pag' = pag
BY DEF Next, waveNext, gepNext, collapsingNext, postNext, callNext, processAllAddr, SCCDetect,
       mergeSccNodes, mergeSccDone, processNode, waveDone, skipMergedNode, handleCopyGep,
       processGep, gepBlkObjOrConstant, variantGepPts, normalGepPts, processGepDone,
       handleGepDone, gepUnchanged, collapseNext, collapseAllDone, collapseNodePts,
       collapseField, collapseFieldDone, collapseNodePtsDone, collapseUnchanged,
       popFromWorklist, handleLoad, handleStore, handleEdge, postDone, postUnchanged,
       updateCallGraph, connectCaller2CalleeParams, solveAgain, callgraphUnchanged

PInv == TypeInv /\ FramesOK /\ pag \in PAGs /\ \A S \in FISolutions(pag) : Sound(S)

\* The solver invents no pointee: what a points-to set holds, every field-insensitive
\* solution of the same input has there too.
THEOREM SolverPrecise == Spec => []Precise
<1>1. Init => PInv
  <2> SUFFICES ASSUME Init PROVE PInv OBVIOUS
  <2>1. FramesOK BY DEF Init, FramesOK
  <2> QED BY <2>1, TypeInit, SoundInit DEF PInv, Init
<1>2. PInv /\ [Next \/ done]_vars => PInv'
  <2> SUFFICES ASSUME PInv, [Next \/ done]_vars PROVE PInv' OBVIOUS
  <2>1. CASE Next
    <3>1. TypeInv' BY <2>1, TypeNext DEF PInv
    <3>2. FramesOK' BY <2>1, FramesNext DEF PInv
    <3>3. pag' = pag BY <2>1, InputFixed
    <3>4. \A S \in FISolutions(pag) : Sound(S)' BY <2>1, SoundNext DEF PInv
    <3> QED BY <3>1, <3>2, <3>3, <3>4 DEF PInv
  <2>2. CASE UNCHANGED vars
    <3>1. TypeInv'
      BY <2>2 DEF PInv, vars, TypeInv, TypeOK, AddrFromMem, NodeThere, GepThere, FramesThere,
                  graphVars, objVars, ptsVars, schedVars, handlerVars, collapseVars
    <3>2. FramesOK' /\ pag' = pag BY <2>2 DEF PInv, vars, FramesOK, collapseVars
    <3>3. \A S \in FISolutions(pag) : Sound(S)'
      BY <2>2 DEF PInv, vars, Sound, PtsSound, RevSound, EdgesSound, RepSound, MergeSound,
                  GepSound, TodoSound, graphVars, objVars, ptsVars, schedVars, handlerVars
    <3> QED BY <3>1, <3>2, <3>3 DEF PInv
  <2> QED BY <2>1, <2>2 DEF done
<1>3. PInv => Precise
  <2> SUFFICES ASSUME PInv, NEW g \in Expected, g.input = pag, NEW w \in g.at,
                      NEW n \in Node, base(n) = w.at, NEW m \in pts[n]
               PROVE  ObjOf(m) \in w.objs
    BY DEF Precise
  <2>1. g.at = Pointees(pag) BY DEF Expected
  <2>2. PICK k \in Ptr \cup {baseOf(o) : o \in Obj} :
          w = [at |-> k, objs |-> {o \in Obj : \A S \in FISolutions(pag) : o \in S[k]}]
    BY <2>1 DEF Pointees
  <2>3. \A S \in FISolutions(pag) : ObjOf(m) \in S[base(n)]
    BY DEF PInv, Sound, PtsSound, allowed
  <2>4. m \in Mem BY DEF PInv, TypeInv, TypeOK
  <2>5. ObjOf(m) \in Obj BY <2>4, BaseNode
  <2> QED BY <2>2, <2>3, <2>5
<1> QED BY <1>1, <1>2, <1>3, PTL DEF Spec
==============================================================================
