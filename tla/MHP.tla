--------------------------------- MODULE MHP ---------------------------------
(****************************************************************************)
(* MHP: which threads may be alive while a thread is at a statement, and    *)
(* from it which instructions may happen in parallel (MHP.cpp, MHP.h).      *)
(*                                                                          *)
(* A thread's statement is <<thread, context, instruction>>.                *)
(****************************************************************************)
EXTENDS ForkJoinAnalysis

VARIABLES
  rootTid,      \* the thread whose interleaving is being added
  interleaving, \* threadStmtToTheadInterLeav on the statements instToTSMap lists
  ctsList       \* cxtStmtList

mhpVars == <<rootTid, interleaving, ctsList>>

-----------------------------------------------------------------------------
(* The answer *)

threadStmts(n) == {s \in DOMAIN interleaving : s[3] = n}

mayHappenInParallelInst(m, n) ==
  \E s \in threadStmts(m), u \in threadStmts(n) :
    IF s[1] = u[1] THEN isMultiforked(s[1])
    ELSE u[1] \in interleaving[s] /\ s[1] \in interleaving[u]

-----------------------------------------------------------------------------
(* Interleavings and worklist, kept in w: [il, list] *)

threadsAt(w, cts) == IF cts \in DOMAIN w.il THEN w.il[cts] ELSE {}

setThreads(w, cts, S) == [il |-> (cts :> S) @@ w.il, list |-> push(w.list, cts)]

addThreads(w, cts, S) ==
  LET old == threadsAt(w, cts) IN IF S \subseteq old THEN w ELSE setThreads(w, cts, old \cup S)

addInterleavingThread(w, cts, src) == addThreads(w, cts, threadsAt(w, src))

addAll(w, css, src) == FoldLeft(LAMBDA v, cs : addInterleavingThread(v, <<src[1], cs[1], cs[2]>>, src), w, css)

\* only a thread that is not multi-forked itself must join, outside of recursions
isMustJoin(t, join) == ~isMultiforked(t) /\ join \notin inRecurJoinSites

\* mutated: joined threads stay
rmNothing(w, cts, tids, join) == w

rmInterleavingThread(w, cts, tids, join) ==
  LET old == threadsAt(w, cts)
  IN IF isMustJoin(cts[1], join) /\ old \cap tids # {} THEN setThreads(w, cts, old \ tids) ELSE w

\* mutated: only the code after the fork of t itself
updateParentThread(w, t) ==
  LET after == [i \in DOMAIN getNextInsts(nodes[t].fork) |->
                  <<getParentThread(t), nodes[t].forkCxt, getNextInsts(nodes[t].fork)[i]>>]
  IN IF nodes[t].fork = NoFork THEN w ELSE FoldLeft(LAMBDA x, cts : addThreads(x, cts, {t}), w, after)

\* the code after the forks of t and of its ancestors runs with t
updateAncestorThreads(w, t) ==
  LET forked == {a \in {t} \cup getAncestorThread(t) : nodes[a].fork # NoFork}
      after(a) == [i \in DOMAIN getNextInsts(nodes[a].fork) |->
                     <<getParentThread(a), nodes[a].forkCxt, getNextInsts(nodes[a].fork)[i]>>]
  IN FoldLeft(LAMBDA v, a : FoldLeft(LAMBDA x, cts : addThreads(x, cts, {t}), v, after(a)),
              w, SetToSortSeq(forked, <))

isRecurFullJoin(p, t) ==
  LET up[k \in Nat] == IF k = 0 THEN {t}
                       ELSE LET A == up[k - 1] IN A \cup UNION {{q \in parents(a) : isFullJoin(q, a)} : a \in A}
  IN p \in up[Len(nodes)]

routineStart(t) == <<t, nodes[t].cxt, entryOf(nodes[t].routine)>>

\* a sibling of t or of its ancestors runs with t unless one is over before the other
updateSiblingThreads(w, t) ==
  LET line == {t} \cup getAncestorThread(t)
      apart(c, s) == (isHBPair(c, s) /\ isRecurFullJoin(c, t)) \/ isHBPair(s, c)
      with == UNION {{s \in getSiblingThread(c) : ~apart(c, s)} : c \in line}
  IN FoldLeft(LAMBDA v, s : addThreads(v, routineStart(s), {t}), w, SetToSortSeq(with, <))

-----------------------------------------------------------------------------

mcts  == Head(ctsList)
minst == mcts[3]
mrest == [il |-> interleaving, list |-> Tail(ctsList)]
visiting == pass = "mhp" /\ ctsList # <<>>
inCandidate == isCandidateFun(minst[1])

become(w) ==
  /\ interleaving' = w.il
  /\ ctsList' = w.list
  /\ UNCHANGED <<rootTid, prog, pass>>

handleIntra(w) == addAll(w, next(mcts[2], minst), mcts)

analyzeInterleaving ==
  /\ pass = "mhp" /\ ctsList = <<>>
  /\ rootTid < Len(nodes)
  /\ rootTid' = rootTid + 1
  /\ LET w == addThreads([il |-> interleaving, list |-> <<>>], routineStart(rootTid'), {rootTid'})
         started == updateSiblingThreads(updateAncestorThreads(w, rootTid'), rootTid')
     IN /\ interleaving' = started.il
        /\ ctsList' = started.list
  /\ UNCHANGED <<prog, pass>>

\* only the entries of functions that neither fork nor join are visited
mhpHandleNonCandidateFun ==
  /\ visiting /\ ~inCandidate
  /\ become(FoldLeft(LAMBDA v, f : addInterleavingThread(v, <<mcts[1], mcts[2], entryOf(f)>>, mcts),
                     mrest, SetToSeq(callees(minst[1]))))

mhpHandleFork ==
  /\ visiting /\ inCandidate /\ ins(minst).op = "fork"
  /\ LET tid == getTCTNode(pushCxt(mcts[2], minst, ins(minst).fun), minst)
     IN become(handleIntra(addInterleavingThread(mrest, routineStart(tid), mcts)))

mhpHandleJoin ==
  /\ visiting /\ inCandidate /\ ins(minst).op = "join"
  /\ LET cs     == <<mcts[2], minst>>
         joined == getDirAndIndJoinedTid(cs)
         exits  == IF hasJoinLoop(minst)
                   THEN SetToSeq({<<mcts[1], mcts[2], s>> : s \in joinExits(minst)}) ELSE <<>>
         leave(v, e) ==
           LET out == addInterleavingThread(v, e, mcts)
           IN IF joined # {} /\ cs \in cxtJoinInLoop
              THEN rmInterleavingThread(out, e, joined, minst) ELSE out
         here == IF hasJoinLoop(minst) THEN FoldLeft(leave, mrest, exits)
                 ELSE rmInterleavingThread(mrest, mcts, joined, minst)
     IN become(handleIntra(here))

mhpHandleCall ==
  /\ visiting /\ inCandidate /\ ins(minst).op = "call"
  /\ LET callee  == ins(minst).fun
         entered == addInterleavingThread(mrest,
                      <<mcts[1], pushCxt(mcts[2], minst, callee), entryOf(callee)>>, mcts)
     IN become(IF isCandidateFun(callee) THEN entered ELSE handleIntra(entered))

mhpHandleRet ==
  /\ visiting /\ inCandidate /\ ins(minst).op = "ret"
  /\ become(addAll(mrest, returns(mcts[2], minst[1]), mcts))

mhpHandleIntra ==
  /\ visiting /\ inCandidate /\ ins(minst).op \notin {"fork", "join", "call", "ret"}
  /\ become(handleIntra(mrest))

\* the other statements of a function that neither forks nor joins are as its entry
updateNonCandidateFunInterleaving ==
  /\ pass = "mhp" /\ ctsList = <<>> /\ rootTid = Len(nodes)
  /\ LET entries == {s \in DOMAIN interleaving : ~isCandidateFun(s[3][1]) /\ s[3] = entryOf(s[3][1])}
         copies  == UNION {{<<s[1], s[2], n>> : n \in instsOf(s[3][1])} : s \in entries}
         il      == [il |-> interleaving, list |-> <<>>]
     IN interleaving' = [s \in copies |-> threadsAt(il, s) \cup interleaving[<<s[1], s[2], entryOf(s[3][1])>>]]
                          @@ interleaving
  /\ pass' = "lock"
  /\ UNCHANGED <<prog, rootTid, ctsList>>

MHPInit == rootTid = 0 /\ interleaving = <<>> /\ ctsList = <<>>

MHPNext ==
  \/ analyzeInterleaving \/ updateNonCandidateFunInterleaving
  \/ mhpHandleNonCandidateFun \/ mhpHandleFork \/ mhpHandleJoin \/ mhpHandleCall
  \/ mhpHandleRet \/ mhpHandleIntra
=============================================================================
