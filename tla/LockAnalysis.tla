---------------------------- MODULE LockAnalysis ----------------------------
(****************************************************************************)
(* LockAnalysis: which locks are held at a statement, first inside each     *)
(* function, then along calls, returns and forks for each context           *)
(* (LockAnalysis.cpp, LockAnalysis.h).                                      *)
(*                                                                          *)
(* A context-sensitive lock, like a statement, is <<context, instruction>>. *)
(* Locks alias when they are the same variable.                             *)
(****************************************************************************)
EXTENDS TCT

VARIABLES
  lockcandidateFuncSet, \* functions from which an acquire or a release is reached
  ciLocks,              \* instCILocksMap: <<instruction, lock site>>
  condLocks,            \* instTocondCILocksMap: the lock site may not have run
  clpList,              \* worklist of <<context, function>>
  visitedCLPs,          \* visitedCTPs
  cxtLockset,           \* the context-sensitive locks
  locksets,             \* cxtStmtToCxtLockSet: statement to its locks
  spanOf,               \* cxtLocktoSpan: <<lock, statement>>
  visitedStmts,         \* instToCxtStmtSet
  spanList              \* cxtStmtList

lockVars == <<lockcandidateFuncSet, ciLocks, condLocks, clpList, visitedCLPs, cxtLockset, locksets,
              spanOf, visitedStmts, spanList>>

locksites   == withOp({"lock"})
unlocksites == withOp({"unlock"})
isAliasedLocks(m, n) == ins(m).l = ins(n).l
isLockCandidateFun(f) == f \in lockcandidateFuncSet
entryProcs == {f \in Funs : sitesOf(f) = {}}

-----------------------------------------------------------------------------
(* Inside one function *)

\* mutated: the functions with an acquire or release of their own
lockFunctionsOnly == {n[1] : n \in locksites \cup unlocksites}

buildCandidateFuncSetforLock ==
  LET here == {n[1] : n \in locksites \cup unlocksites}
  IN here \cup {f \in Funs : reachable(f) \cap here # {}}

\* the instructions of f reached from S, next[n] being those visited after n
traverse(f, S, next) ==
  LET reached[k \in Nat] ==
        IF k = 0 THEN S ELSE reached[k - 1] \cup UNION {next[n] : n \in reached[k - 1]}
  IN reached[Len(prog.body[f])]

preds(n) == {m \in instsOf(n[1]) : n \in ToSet(succs(m))}

\* n releases the lock acquired at k
releases(k, n) == n \in unlocksites /\ isAliasedLocks(k, n)

forwardInsts(k) ==
  traverse(k[1], {k}, [n \in instsOf(k[1]) |-> IF releases(k, n) THEN {} ELSE ToSet(succs(n))])

intraForwardTraverse(k) == exitOf(k[1]) \notin forwardInsts(k)

\* the last instruction of the entry block, a jump to the next block left out
terminatorOfEntry(f) ==
  LET ends(i) == \/ ins(<<f, i>>).op \in {"br", "goto", "head", "ret"}
                 \/ ins(<<f, i + 1>>).op = "head" \/ Cardinality(preds(<<f, i + 1>>)) > 1
  IN <<f, Min({i \in DOMAIN prog.body[f] : ends(i)})>>

\* mutated: whether the acquire runs is not asked
neverConditional(k) == TRUE

\* back from a release of k, the lock is acquired before the end of the entry block
intraBackwardTraverse(k) ==
  \A u \in {n \in forwardInsts(k) : releases(k, n)} :
    LET acquires(n) == n \in locksites /\ isAliasedLocks(u, n)
    IN terminatorOfEntry(k[1]) \notin
         traverse(k[1], {u}, [n \in instsOf(k[1]) |-> IF acquires(n) THEN {} ELSE preds(n)]) \ {u}

-----------------------------------------------------------------------------
(* Contexts: every call counts here, not only those of candidates *)

pushLockCxt(cxt, site, callee) ==
  IF inSameCallGraphSCC(site[1], callee) THEN cxt ELSE Append(cxt, site)

matchLockCxt(cxt, site, callee) ==
  cxt = <<>> \/ inSameCallGraphSCC(site[1], callee) \/ Last(cxt) = site

popLockCxt(cxt, site, callee) ==
  IF cxt = <<>> \/ inSameCallGraphSCC(site[1], callee) THEN cxt ELSE Front(cxt)

-----------------------------------------------------------------------------
(* Lock sets and worklist, kept in w: [sets, spans, list] *)

addCxtStmtToSpan(w, cts, cl) ==
  [w EXCEPT !.sets = (cts :> w.sets[cts] \cup {cl}) @@ @, !.spans = @ \cup {<<cl, cts>>}]

\* mutated: locks of all paths are kept
markCxtStmtFlagUnion(w, cts, src) ==
  LET S == w.sets[src]
  IN IF cts \notin DOMAIN w.sets
     THEN [sets |-> (cts :> S) @@ w.sets, spans |-> w.spans \cup {<<cl, cts>> : cl \in S}, list |-> push(w.list, cts)]
     ELSE IF S \subseteq w.sets[cts] THEN w
     ELSE [w EXCEPT !.sets[cts] = @ \cup S, !.list = push(@, cts)]

\* mutated: a statement that loses nothing is visited again
markCxtStmtFlagAgain(w, cts, src) ==
  LET S == w.sets[src]
  IN IF cts \notin DOMAIN w.sets
     THEN [sets |-> (cts :> S) @@ w.sets, spans |-> w.spans \cup {<<cl, cts>> : cl \in S}, list |-> push(w.list, cts)]
     ELSE [w EXCEPT !.sets[cts] = @ \cap S, !.list = push(@, cts)]

\* A statement has the locks of the first way to it, less those that another way
\* does not have.  Spans keep what lock sets lose.
markCxtStmtFlag(w, cts, src) ==
  LET S == w.sets[src]
  IN IF cts \notin DOMAIN w.sets
     THEN [sets |-> (cts :> S) @@ w.sets, spans |-> w.spans \cup {<<cl, cts>> : cl \in S}, list |-> push(w.list, cts)]
     ELSE IF w.sets[cts] \subseteq S THEN w
     ELSE [w EXCEPT !.sets[cts] = @ \cap S, !.list = push(@, cts)]

markAll(w, css, src) ==
  LET marked[k \in 0 .. Len(css)] ==
        IF k = 0 THEN w ELSE markCxtStmtFlag(marked[k - 1], css[k], src)
  IN marked[Len(css)]

flowsTo(cxt, n) == LET to == succs(n) IN [i \in DOMAIN to |-> <<cxt, to[i]>>]

-----------------------------------------------------------------------------
(* The passes *)

analyzeIntraProcedualLock ==
  /\ pass = "lock"
  /\ lockcandidateFuncSet' = buildCandidateFuncSetforLock
  /\ LET closed == {k \in locksites : intraForwardTraverse(k)}
         span(K) == UNION {{<<n, k>> : n \in forwardInsts(k)} : k \in K}
     IN /\ ciLocks'   = span({k \in closed : intraBackwardTraverse(k)})
        /\ condLocks' = span({k \in closed : ~intraBackwardTraverse(k)})
  /\ \E order \in SetToSeqs(entryProcs \cap lockcandidateFuncSet') :
       /\ clpList' = [i \in DOMAIN order |-> <<<<>>, order[i]>>]
       /\ visitedCLPs' = ToSet(clpList')
  /\ pass' = "clp"
  /\ UNCHANGED <<prog, cxtLockset, locksets, spanOf, visitedStmts, spanList>>

\* the sites of a function come in the order of their addresses
collectCxtLock ==
  /\ pass = "clp" /\ clpList # <<>>
  /\ LET clp    == Head(clpList)
         sites  == IF isLockCandidateFun(clp[2]) THEN sitesFrom(clp[2]) ELSE {}
         new    == {<<pushLockCxt(clp[1], s, ins(s).fun), ins(s).fun>> : s \in sites} \ visitedCLPs
     IN /\ \E order \in SetToSeqs(new) : clpList' = Tail(clpList) \o order
        /\ visitedCLPs' = visitedCLPs \cup new
        /\ cxtLockset' = cxtLockset \cup {<<clp[1], k>> : k \in {n \in locksites : n[1] = clp[2]}}
  /\ UNCHANGED <<prog, pass, lockcandidateFuncSet, ciLocks, condLocks, locksets, spanOf, visitedStmts, spanList>>

startSpans ==
  /\ pass = "clp" /\ clpList = <<>>
  /\ \E order \in SetToSeqs(entryProcs \cap lockcandidateFuncSet) :
       spanList' = [i \in DOMAIN order |-> <<<<>>, entryOf(order[i])>>]
  /\ pass' = "span"
  /\ UNCHANGED <<prog, lockcandidateFuncSet, ciLocks, condLocks, clpList, visitedCLPs, cxtLockset, locksets,
                 spanOf, visitedStmts>>

lcur  == Head(spanList)
linst == lcur[2]
\* popped and touched
lrest == [sets |-> IF lcur \in DOMAIN locksets THEN locksets ELSE (lcur :> {}) @@ locksets,
          spans |-> spanOf, list |-> Tail(spanList)]
spanning(O) == pass = "span" /\ spanList # <<>> /\ ins(linst).op \in O

visited(w) ==
  /\ locksets' = w.sets /\ spanOf' = w.spans /\ spanList' = w.list
  /\ visitedStmts' = visitedStmts \cup {lcur}
  /\ UNCHANGED <<prog, pass, lockcandidateFuncSet, ciLocks, condLocks, clpList, visitedCLPs, cxtLockset>>

toNext(w) == markAll(w, flowsTo(lcur[1], linst), lcur)

toCallee(w) ==
  LET f == ins(linst).fun IN markCxtStmtFlag(w, <<pushLockCxt(lcur[1], linst, f), entryOf(f)>>, lcur)

\* the new thread starts with the locks of the thread that forks it
lsaHandleFork == spanning({"fork"}) /\ visited(toNext(toCallee(lrest)))

acquireLock ==
  /\ spanning({"lock"})
  /\ visited(IF lcur \in lrest.sets[lcur] THEN lrest ELSE toNext(addCxtStmtToSpan(lrest, lcur, lcur)))

\* asks for a lock acquired at the releasing statement itself; nothing follows a release
releaseLock ==
  /\ spanning({"unlock"})
  /\ visited(IF lcur \in lrest.sets[lcur]
             THEN toNext([lrest EXCEPT !.sets[lcur] = @ \ {lcur}, !.spans = @ \ {<<lcur, lcur>>}])
             ELSE lrest)

lsaHandleCall == spanning({"call"}) /\ visited(toCallee(lrest))

\* to behind every call site the context can return to, in the order of their addresses
lsaHandleRet ==
  /\ spanning({"ret"})
  /\ LET f     == linst[1]
         sites == {c \in callEdgesTo(f) : matchLockCxt(lcur[1], c, f)}
         after == UNION {ToSet(flowsTo(popLockCxt(lcur[1], c, f), c)) : c \in sites}
     IN \E order \in SetToSeqs(after) : visited(markAll(lrest, order, lcur))

lsaHandleIntra == spanning({"stmt", "join", "br", "goto", "head"}) /\ visited(toNext(lrest))

locksDone ==
  /\ pass = "span" /\ spanList = <<>>
  /\ pass' = "run"
  /\ UNCHANGED <<prog, lockVars>>

LockInit ==
  /\ lockcandidateFuncSet = {} /\ ciLocks = {} /\ condLocks = {}
  /\ clpList = <<>> /\ visitedCLPs = {} /\ cxtLockset = {}
  /\ locksets = <<>> /\ spanOf = {} /\ visitedStmts = {} /\ spanList = <<>>

LockNext ==
  \/ analyzeIntraProcedualLock \/ collectCxtLock \/ startSpans \/ locksDone
  \/ lsaHandleFork \/ acquireLock \/ releaseLock \/ lsaHandleCall \/ lsaHandleRet \/ lsaHandleIntra

-----------------------------------------------------------------------------
(* The answers *)

isInsideCondIntraLock(n) == \E k \in locksites : <<n, k>> \in condLocks
isInsideIntraLock(n) == \E k \in locksites : <<n, k>> \in ciLocks \cup condLocks
getIntraLockSet(n)   == {k \in locksites : <<n, k>> \in ciLocks}
getCxtStmtfromInst(n) == {cs \in visitedStmts : cs[2] = n}

\* some lock of one aliases some lock of the other, inside functions
commonIntraLock(m, n) ==
  /\ ~isInsideCondIntraLock(m) /\ ~isInsideCondIntraLock(n)
  /\ \E j \in getIntraLockSet(m), k \in getIntraLockSet(n) : isAliasedLocks(j, k)

\* the same in every two contexts
commonCxtLock(m, n) ==
  /\ getCxtStmtfromInst(m) # {} /\ getCxtStmtfromInst(n) # {}
  /\ \A c \in getCxtStmtfromInst(m), d \in getCxtStmtfromInst(n) :
       c # d => \E j \in locksets[c], k \in locksets[d] : isAliasedLocks(j[2], k[2])

isProtectedByCommonLock(m, n) ==
  IF isInsideIntraLock(m) /\ isInsideIntraLock(n) THEN commonIntraLock(m, n) ELSE commonCxtLock(m, n)
=============================================================================
