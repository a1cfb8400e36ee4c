--------------------------------- MODULE TCT ---------------------------------
(****************************************************************************)
(* TCT: the thread creation tree, one node for each context in which a fork *)
(* site can be reached from an entry function (TCT.cpp, TCT.h).             *)
(*                                                                          *)
(* A context is a sequence of call sites.  Node ids start at 1, so the      *)
(* code's node 0 is node 1.                                                 *)
(****************************************************************************)
EXTENDS ThreadProgram

\* The tree starts at the functions that nothing calls: main has to be one of them.
ASSUME MainAssumption ==
  \A p \in Programs : \A f \in DOMAIN p.body : \A i \in DOMAIN p.body[f] :
    p.body[f][i].op \in {"call", "fork"} => p.body[f][i].fun # Main

VARIABLES
  tcgSCC,             \* pairs of functions in one cycle of the call graph
  candidateFuncSet,   \* functions from which a fork or join site is reached, and start routines
  joinSiteToLoopMap,  \* join site to the loop that runs it in every iteration
  inRecurJoinSites,   \* join sites that may run in a recursion
  nodes,              \* the threads: [cxt, fork, forkCxt, routine, inloop, incycle, multiforked]
  tctEdges,           \* <<parent, child>>
  ctpList,            \* worklist of <<thread, context, function>>
  visitedCTPs

tctVars == <<tcgSCC, candidateFuncSet, joinSiteToLoopMap, inRecurJoinSites, nodes, tctEdges,
             ctpList, visitedCTPs>>

Tids == DOMAIN nodes
NoFork == <<>>

\* a worklist is a queue without duplicates
push(list, x) == IF Contains(list, x) THEN list ELSE Append(list, x)

-----------------------------------------------------------------------------
(* What the tree tells the other passes *)

inSameCallGraphSCC(f, g) == <<f, g>> \in tcgSCC
isCandidateFun(f)     == f \in candidateFuncSet
isMultiforked(t)      == nodes[t].multiforked
parents(t)            == {e[1] : e \in {d \in tctEdges : d[2] = t}}
children(t)           == {e[2] : e \in {d \in tctEdges : d[1] = t}}
getParentThread(t)    == CHOOSE p \in parents(t) : TRUE
getSiblingThread(t)   == UNION {children(p) : p \in parents(t)} \ {t}

getAncestorThread(t) ==
  LET up[k \in Nat] == IF k = 0 THEN parents(t)
                       ELSE LET A == up[k - 1] IN A \cup UNION {parents(p) : p \in A}
  IN up[Len(nodes)]

getTCTNode(cxt, fork) == CHOOSE t \in Tids : nodes[t].cxt = cxt /\ nodes[t].fork = fork

pushCxt(cxt, call, callee) ==
  IF isCandidateFun(call[1]) /\ ~inSameCallGraphSCC(call[1], callee) THEN Append(cxt, call) ELSE cxt

matches(cxt, call, callee) ==
  \/ ~isCandidateFun(call[1])
  \/ cxt = <<>>
  \/ inSameCallGraphSCC(call[1], callee)
  \/ Last(cxt) = call

\* the context once a matching return has left callee
popCxt(cxt, call, callee) ==
  IF isCandidateFun(call[1]) /\ cxt # <<>> /\ ~inSameCallGraphSCC(call[1], callee) THEN Front(cxt) ELSE cxt

joinLoops == {joinSiteToLoopMap[j] : j \in DOMAIN joinSiteToLoopMap}
hasJoinLoop(join) == join \in DOMAIN joinSiteToLoopMap
joinExits(join)   == getExitBlocks(joinSiteToLoopMap[join])

\* the header of a join loop is only left through its joins
getNextInsts(n) == SelectSeq(succs(n), LAMBDA s : n \in joinLoops => contains(n, s))

-----------------------------------------------------------------------------
(* Building it *)

markRelProcs ==
  LET sites == forksites \cup joinsites
      here  == {n[1] : n \in sites}
  IN here \cup {f \in Funs : reachable(f) \cap here # {}} \cup {ins(n).fun : n \in forksites}

isJoinMustExecutedInLoop(h, join) ==
  \A s \in ToSet(succs(h)) : contains(h, s) => postDominates(join, s)

callersUpTo(f) == {f} \cup {g \in Funs : f \in reachable(g)}

\* mutated: the calls that lead to the instruction are not looked at
isInLoopItself(n) == loopsAt(n) # {}

isInLoopInstruction(n) ==
  \E m \in {n} \cup UNION {sitesOf(f) : f \in callersUpTo(n[1])} : loopsAt(m) # {}

isInRecursion(n) == \E f \in callersUpTo(n[1]) : isInCycle(f)

newThread(cxt, fork, forkCxt, routine) ==
  [cxt |-> cxt, fork |-> fork, forkCxt |-> forkCxt, routine |-> routine,
   inloop      |-> fork # NoFork /\ isInLoopInstruction(fork),
   incycle     |-> fork # NoFork /\ isInRecursion(fork),
   multiforked |-> FALSE]

\* every function is in one cycle with itself
begun == tcgSCC # {}

\* Every entry function asks for the thread with an empty context and no fork
\* site: the first one creates it, and the set is ordered by address.
build ==
  /\ pass = "tct" /\ ~begun
  /\ tcgSCC' = {p \in Funs \X Funs : sameSCC(p[1], p[2])}
  /\ candidateFuncSet' = markRelProcs
  /\ LET mustRun == {j \in joinsites : loopsAt(j) # {} /\ isJoinMustExecutedInLoop(getLoop(j), j)}
     IN joinSiteToLoopMap' = [j \in mustRun |-> getLoop(j)]
  /\ inRecurJoinSites' = {j \in joinsites : isInRecursion(j)}
  /\ LET entries == {f \in markRelProcs : sitesOf(f) = {}}
     IN \E order \in SetToSeqs(entries) :
          /\ nodes' = IF order = <<>> THEN <<>> ELSE <<newThread(<<>>, NoFork, <<>>, order[1])>>
          /\ ctpList' = [i \in DOMAIN order |-> <<1, <<>>, order[i]>>]
          /\ visitedCTPs' = ToSet(ctpList')
  /\ UNCHANGED <<prog, pass, tctEdges>>

pushToCTPWorkList(w, ctp) ==
  IF ctp \in w.visited THEN w
  ELSE [w EXCEPT !.visited = @ \cup {ctp}, !.list = push(@, ctp)]

getOrCreateTCTNode(w, new) ==
  IF \E t \in DOMAIN w.nodes : w.nodes[t].cxt = new.cxt /\ w.nodes[t].fork = new.fork
  THEN w ELSE [w EXCEPT !.nodes = Append(@, new)]

\* mutated: threads hang below the first one
handleCallRelationFlat(w, ctp, site) ==
  LET callee == ins(site).fun
      cxt    == pushCxt(ctp[2], site, callee)
      made   == getOrCreateTCTNode(w, newThread(cxt, site, ctp[2], callee))
      tid    == CHOOSE t \in DOMAIN made.nodes : made.nodes[t].cxt = cxt /\ made.nodes[t].fork = site
      newctp == <<tid, cxt, callee>>
  IN IF ins(site).op = "call" THEN pushToCTPWorkList(w, <<ctp[1], cxt, callee>>)
     ELSE IF newctp \in w.visited THEN made
     ELSE [pushToCTPWorkList(made, newctp) EXCEPT !.edges = @ \cup {<<1, tid>>}]

\* mutated: the edge takes the id the next thread will get
handleCallRelationNextId(w, ctp, site) ==
  LET callee == ins(site).fun
      cxt    == pushCxt(ctp[2], site, callee)
      made   == getOrCreateTCTNode(w, newThread(cxt, site, ctp[2], callee))
      tid    == CHOOSE t \in DOMAIN made.nodes : made.nodes[t].cxt = cxt /\ made.nodes[t].fork = site
      newctp == <<tid, cxt, callee>>
  IN IF ins(site).op = "call" THEN pushToCTPWorkList(w, <<ctp[1], cxt, callee>>)
     ELSE IF newctp \in w.visited THEN made
     ELSE [pushToCTPWorkList(made, newctp) EXCEPT !.edges = @ \cup {<<ctp[1], tid + 1>>}]

\* one call or fork site of the function of ctp
handleCallRelation(w, ctp, site) ==
  LET callee == ins(site).fun
      cxt    == pushCxt(ctp[2], site, callee)
      made   == getOrCreateTCTNode(w, newThread(cxt, site, ctp[2], callee))
      tid    == CHOOSE t \in DOMAIN made.nodes : made.nodes[t].cxt = cxt /\ made.nodes[t].fork = site
      newctp == <<tid, cxt, callee>>
  IN IF ins(site).op = "call" THEN pushToCTPWorkList(w, <<ctp[1], cxt, callee>>)
     ELSE IF newctp \in w.visited THEN made
     ELSE [pushToCTPWorkList(made, newctp) EXCEPT !.edges = @ \cup {<<ctp[1], tid>>}]

\* the call and fork sites among the first instructions of the function of ctp, in their order
handleCallRelations(w, ctp) ==
  LET code == prog.body[ctp[3]]
      done[k \in 0 .. Len(code)] ==
        IF k = 0 THEN w
        ELSE IF <<ctp[3], k>> \in sitesFrom(ctp[3]) THEN handleCallRelation(done[k - 1], ctp, <<ctp[3], k>>)
        ELSE done[k - 1]
  IN done[Len(code)]

popFromCTPWorkList ==
  /\ pass = "tct" /\ ctpList # <<>>
  /\ LET ctp == Head(ctpList)
         w == [nodes |-> nodes, edges |-> tctEdges, list |-> Tail(ctpList), visited |-> visitedCTPs]
         done == IF isCandidateFun(ctp[3]) THEN handleCallRelations(w, ctp) ELSE w
     IN /\ nodes' = done.nodes
        /\ tctEdges' = done.edges
        /\ ctpList' = done.list
        /\ visitedCTPs' = done.visited
  /\ UNCHANGED <<prog, pass, tcgSCC, candidateFuncSet, joinSiteToLoopMap, inRecurJoinSites>>

\* from the first node, whose descendants all threads are: in a loop or recursion,
\* or forked by such a thread
collectMultiForkedThreads ==
  /\ pass = "tct" /\ begun /\ ctpList = <<>>
  /\ nodes' = [t \in Tids |-> [nodes[t] EXCEPT !.multiforked =
                 \E a \in {t} \cup getAncestorThread(t) : nodes[a].inloop \/ nodes[a].incycle]]
  /\ pass' = "fja"
  /\ UNCHANGED <<prog, tcgSCC, candidateFuncSet, joinSiteToLoopMap, inRecurJoinSites, tctEdges, ctpList,
                 visitedCTPs>>

TCTInit ==
  /\ tcgSCC = {} /\ candidateFuncSet = {} /\ inRecurJoinSites = {} /\ joinSiteToLoopMap = <<>>
  /\ nodes = <<>> /\ tctEdges = {} /\ ctpList = <<>> /\ visitedCTPs = {}

TCTNext == build \/ popFromCTPWorkList \/ collectMultiForkedThreads
=============================================================================
