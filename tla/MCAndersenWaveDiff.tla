------------------------- MODULE MCAndersenWaveDiff -------------------------
(****************************************************************************)
(* Inputs for AndersenWaveDiff.  They are PAGs as LLVM's SSA form yields    *)
(* them: x and y are the addresses of objects A0 and B0, every other pointer *)
(* has one definition (a phi or parameter, i.e. copies; a load; a field     *)
(* access), stores define nothing.                                          *)
(****************************************************************************)
EXTENDS AndersenWaveDiff, TLC

CONSTANTS x, y, p, q, r, s, t, A0, B0

addr(o, d) == edge("addr", baseOf(o), d)
gepAt(src, d, k) == [edge("gep", src, d) EXCEPT !.off = k]
addrOf == {addr(A0, x), addr(B0, y)}

copiesOf(D, d) == {{edge("copy", n, d) : n \in S} : S \in SUBSET (D \ {d}) \ {{}}}
loadOf(D, d)   == {{edge("load", n, d)} : n \in D \ {d}}
gepOf(D, d)    == {{gepAt(n, d, k)} : n \in D \ {d}, k \in {0, 1}}
                  \cup {{edge("vgep", n, d)} : n \in D \ {d}}
storesIn(D)    == {{edge("store", n, d)} : n \in D, d \in D}

input(E) == [edges |-> E, fi |-> {}, calls |-> {}]

Mov == {x, y, p, q}

\* two objects, two defined pointers and at most one store, no field accesses
MovPAGs == {input(addrOf \cup d \cup e \cup f) :
              d \in copiesOf(Mov, p) \cup loadOf(Mov, p),
              e \in copiesOf({x, p}, q) \cup loadOf(Mov, q),
              f \in storesIn({p, q}) \cup {{edge("store", q, x)}, {edge("store", x, p)}, {}}}

\* p = &x->0, *p = x, q = *p, y = &q->1, *p = y: the field node lies on a weighted
\* cycle and in its own points-to set, collapsing it merges the node being visited
SelfPAG == input({addr(A0, x), gepAt(x, p, 0), edge("store", x, p), edge("load", p, q),
                  gepAt(q, y, 1), edge("store", y, p)})

\* field accesses: A0 has two fields, B0 is the black hole
FieldPAGs == {input(addrOf \cup d \cup e \cup f) :
                d \in gepOf(Mov, p),
                e \in copiesOf(Mov, q) \cup loadOf(Mov, q) \cup gepOf(Mov, q),
                f \in storesIn({p, q}) \cup {{}}} \cup {SelfPAG}

\* fields and cycles over one struct, for the properties that cost most to check
MixPAGs == {input(addrOf \cup d \cup e \cup f) :
              d \in gepOf({x, q}, p),
              e \in copiesOf(Mov, q) \cup loadOf({y, p}, q) \cup gepOf({x, p}, q),
              f \in {{edge("store", q, p)}, {edge("store", x, y)}, {}}} \cup {SelfPAG}

\* Calls through p, whose targets include functions that the call itself or a
\* cycle through memory passes to it; q and s are parameters or results
CallPtr == {x, y, p, q, s}
callTo(o, A) == [cs |-> p, callee |-> o, args |-> A]
throughMemory == {edge("store", p, y), edge("store", y, y), edge("load", y, s)}
CallPAGs == {[edges |-> addrOf \cup d \cup f, fi |-> {},
              calls |-> {callTo(A0, {<<y, q>>}), callTo(B0, {<<p, q>>, <<s, p>>})}] :
               d \in copiesOf({x, q, s}, p) \cup loadOf({x, q}, p),
               f \in {{}, {edge("copy", q, s)}, throughMemory}}

MovCallPAGs == MovPAGs \cup CallPAGs

\* p = phi(x, s), q = phi(p, y), s = *q, *p = q
StorePtr == {x, y, p, q, s}
StorePAG == {input(addrOf \cup {edge("copy", x, p), edge("copy", s, p), edge("copy", p, q),
                     edge("copy", y, q), edge("load", q, s), edge("store", q, p)})}

\* p = x + 1, q = p + 1 wraps to field 0; *x = x; r = *x; s = &r->0; t = *q
ZeroPtr == {x, p, q, r, s, t}
ZeroPAG == {input({addr(A0, x), gepAt(x, p, 1), gepAt(p, q, 1), edge("store", x, x),
                   edge("load", x, r), gepAt(r, s, 0), edge("load", q, t)})}

ab == {A0, B0}
scalars == [o \in ab |-> 1]
structA == [o \in ab |-> IF o = A0 THEN 2 ELSE 1]
=============================================================================
