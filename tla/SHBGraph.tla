------------------------------ MODULE SHBGraph ------------------------------
(****************************************************************************)
(* The static happens-before graph of the race detector (SHBGraph.cpp,      *)
(* SHBGraph.h): the accesses of every function in layout order between an   *)
(* enter and a ret node, joined by call, return, fork and join edges.       *)
(*                                                                          *)
(* A node is <<f, i>>: an access is its instruction, the enter node has     *)
(* index 0, the ret node the index behind the last instruction.             *)
(*                                                                          *)
(* A thread is the pointer pthread_create was given: <<h>> for a handle     *)
(* variable h, or the instruction that computes a pointer to an element of  *)
(* an array, or loads one to a variable of "pts"; no two forks share that.  *)
(****************************************************************************)
EXTENDS ThreadProgram

VARIABLES
  edges,             \* the edges: <<source, target>> to PO, Call, Ret, Fork or Join
  thread2RountineMap \* threads to their start routines

shbVars == <<edges, thread2RountineMap>>

accesses     == withOp({"stmt"})
enterNode(f) == <<f, 0>>
retNode(f)   == <<f, Len(prog.body[f]) + 1>>
nodesIn(f)   == {enterNode(f), retNode(f)} \cup (accesses \cap instsOf(f))

isPointer(n) == "pts" \in DOMAIN ins(n)
threadOf(n)  == IF isPointer(n) \/ ins(n).idx # Plain THEN n ELSE <<ins(n).h>>
threadSet    == DOMAIN thread2RountineMap

\* the handle variables a fork site may write to
getPts(n) == IF isPointer(n) THEN ins(n).pts ELSE IF ins(n).idx = Plain THEN {ins(n).h} ELSE {}

-----------------------------------------------------------------------------

\* mutated: a site is taken for a node
preNodeSite(n) == n

\* the node a site hangs on, and the one behind a node
preNode(n) == LET B == {m \in nodesIn(n[1]) : m[2] < n[2]}
              IN CHOOSE m \in B : \A k \in B : k[2] <= m[2]
nextTo(m)  == LET A == {k \in nodesIn(m[1]) : m[2] < k[2]}
              IN CHOOSE n \in A : \A k \in A : n[2] <= k[2]

\* An edge between two nodes that have one is dropped, whatever its type.
addEdges(g, type, E) == [e \in DOMAIN g \cup E |-> IF e \in DOMAIN g THEN g[e] ELSE type]

\* The nodes of a function are one chain, whatever its branches and loops.
buildIntraProcNode ==
  /\ pass = "nodes"
  /\ edges' = addEdges(edges, "PO", UNION {{<<m, nextTo(m)>> : m \in nodesIn(f) \ {retNode(f)}} : f \in Funs})
  /\ pass' = "calls"
  /\ UNCHANGED <<prog, thread2RountineMap>>

callsites == withOp({"call"})

connectCallEdges ==
  /\ pass = "calls"
  /\ LET called == addEdges(edges, "Call", {<<preNode(n), enterNode(ins(n).fun)>> : n \in callsites})
     IN edges' = addEdges(called, "Ret", {<<retNode(ins(n).fun), nextTo(preNode(n))>> : n \in callsites})
  /\ pass' = "forks"
  /\ UNCHANGED <<prog, thread2RountineMap>>

\* A thread forked at several sites keeps the routine of the site visited last; the
\* sites are visited in the order of their addresses.
addThreads ==
  \E last \in [{threadOf(n) : n \in forksites} -> forksites] :
    /\ \A t \in DOMAIN last : threadOf(last[t]) = t
    /\ thread2RountineMap' = [t \in DOMAIN last |-> ins(last[t]).fun]

connectForkEdges ==
  /\ pass = "forks"
  /\ addThreads
  /\ edges' = addEdges(edges, "Fork", {<<preNode(n), enterNode(ins(n).fun)>> : n \in forksites})
  /\ pass' = "joins"
  /\ UNCHANGED prog

\* mutated: the handle is not looked at
mayWaitForAny(j) == {threadOf(n) : n \in {m \in forksites : ins(j).idx = Plain /\ getPts(m) # {}}}

\* A join of a plain variable waits for every thread whose pointer may point to it.
mayWaitFor(j) == {threadOf(n) : n \in {m \in forksites : ins(j).idx = Plain /\ ins(j).h \in getPts(m)}}

connectJoinEdges ==
  /\ pass = "joins"
  /\ edges' = addEdges(edges, "Join", UNION {{<<retNode(thread2RountineMap[t]), nextTo(preNode(j))>> : t \in mayWaitFor(j)} :
                                              j \in joinsites})
  /\ pass' = "access"
  /\ UNCHANGED <<prog, thread2RountineMap>>

-----------------------------------------------------------------------------

getSHBNodes == UNION {nodesIn(f) : f \in Funs}
outEdges(n, types) == {m \in getSHBNodes : <<n, m>> \in DOMAIN edges /\ edges[<<n, m>>] \in types}

\* the nodes reached from n, n among them, along edges of these types
reachedFrom(n, types) ==
  LET within[k \in Nat] ==
        IF k = 0 THEN {n}
        ELSE LET R == within[k - 1] IN R \cup UNION {outEdges(m, types) : m \in R}
  IN within[Cardinality(getSHBNodes)]

EdgeTypes == {"PO", "Call", "Ret", "Fork", "Join"}

SHBInit == edges = <<>> /\ thread2RountineMap = <<>>
SHBNext == buildIntraProcNode \/ connectCallEdges \/ connectForkEdges \/ connectJoinEdges
=============================================================================
