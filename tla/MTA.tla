--------------------------------- MODULE MTA ---------------------------------
(****************************************************************************)
(* MTA::runOnModule: the passes run one after the other on a program, then  *)
(* the program runs and everything they said about it is compared with what *)
(* its threads do.                                                          *)
(****************************************************************************)
EXTENDS MHP, LockAnalysis, Threads

vars == <<prog, pass, tctVars, fjaVars, mhpVars, lockVars, thrVars>>

Init ==
  /\ prog \in Programs
  /\ pass = "tct"
  /\ TCTInit /\ FJAInit /\ MHPInit /\ LockInit /\ ThreadsInit

Analysis ==
  \/ TCTNext /\ UNCHANGED <<fjaVars, mhpVars, lockVars, thrVars>>
  \/ FJANext /\ UNCHANGED <<tctVars, mhpVars, lockVars, thrVars>>
  \/ MHPNext /\ UNCHANGED <<tctVars, fjaVars, lockVars, thrVars>>
  \/ LockNext /\ UNCHANGED <<tctVars, fjaVars, mhpVars, thrVars>>

\* a running program may stop anywhere; the passes may not
Stopped == pass = "run" /\ UNCHANGED vars

Next ==
  \/ Analysis
  \/ ThreadsNext /\ UNCHANGED <<prog, pass, tctVars, fjaVars, mhpVars, lockVars>>
  \/ Stopped

\* The passes are loops of one thread, which keeps taking steps until it is done.  It
\* always can: it would deadlock otherwise.
Spec == Init /\ [][Next]_vars /\ ([]<>(pass = "run") \/ []<><<TRUE>>_vars)

-----------------------------------------------------------------------------

\* the context the analysis gives to what the sites of path lead to
cxtOf(path) ==
  LET cxt[k \in 0 .. Len(path)] ==
        IF k = 0 THEN <<>> ELSE pushCxt(cxt[k - 1], path[k], ins(path[k]).fun)
  IN cxt[Len(path)]

\* the abstract thread of an instance
tid(i) ==
  LET path == running[i].path
  IN IF path = <<>> THEN 1 ELSE getTCTNode(cxtOf(path), Last(path))

TypeOK ==
  /\ pass \in {"tct", "fja", "mhp", "lock", "clp", "span", "run"}
  /\ candidateFuncSet \subseteq Funs
  /\ DOMAIN joinSiteToLoopMap \subseteq joinsites /\ inRecurJoinSites \subseteq joinsites
  /\ tctEdges \subseteq Tids \X Tids
  /\ fjaTid \in 0..Len(nodes) /\ rootTid \in 0..Len(nodes)
  /\ \A cs \in DOMAIN flags : flags[cs] \in {"alive", "dead"} /\ cs[2] \in Insts
  /\ \A d \in directJoin : d[1][2] \in joinsites /\ d[2] \in Tids
  /\ HBPair \cup HPPair \cup fullJoin \cup partialJoin \subseteq Tids \X Tids
  /\ \A s \in DOMAIN interleaving : s[1] \in Tids /\ s[3] \in Insts /\ interleaving[s] \subseteq Tids
  /\ nodes # <<>> => \A i \in DOMAIN running : tid(i) \in Tids

\* Only a thread the tree marks as forked many times has two instances (TCT.cpp
\* isInLoopInstruction, isInRecursion, collectMultiForkedThreads).
SingleInstance ==
  \A i, j \in DOMAIN running : i # j /\ tid(i) = tid(j) => isMultiforked(tid(i))

\* Outside recursions the tree has an edge for every fork that happens, from the
\* forking to the forked thread in the context of the fork (TCT.cpp
\* handleCallRelation, pushCxt).
ParentsInTree ==
  \A i \in DOMAIN running :
    running[i].parent # 0 =>
      \/ <<tid(running[i].parent), tid(i)>> \in tctEdges
      \/ nodes[tid(i)].incycle

\* A thread that fully joins another has, at its end, waited for every instance it
\* forked (ForkJoinAnalysis::analyzeForkJoinPair).
FullJoinHolds ==
  ~reused => \A i \in DOMAIN running :
    LET p == running[i].parent
    IN p # 0 /\ over(p) /\ isFullJoin(tid(p), tid(i)) => over(i)

\* Two threads one of which happens before the other do not run together when the
\* same instance forked them (ForkJoinAnalysis::handleFork, isHBPair).
HBHolds ==
  ~reused => \A i, j \in DOMAIN running :
    i # j /\ live(i) /\ live(j) /\ running[i].parent = running[j].parent
      => ~isHBPair(tid(i), tid(j))

\* Two instances that are at two memory accesses at the same time: MHP says the
\* accesses may happen in parallel (MHP::mayHappenInParallelInst).
Parallel == \A i, j \in DOMAIN running :
  i # j /\ isAt(i, "stmt") /\ isAt(j, "stmt") => mayHappenInParallelInst(at(i), at(j))

MHPSound == ~reused => Parallel

\* Exact on straight-line programs in which main forks every routine once: a thread
\* runs from its fork to the first join of its handle after it
\* (MHP::mayHappenInParallelInst).
StraightLine ==
  /\ withOp({"stmt", "fork", "join", "ret"}) = Insts
  /\ \A n \in forksites : n[1] = Main /\ sitesOf(ins(n).fun) = {n}

Accesses == withOp({"stmt"})

\* the positions in the main function between which n can run
span(n) ==
  IF n[1] = Main THEN <<n[2], n[2]>>
  ELSE LET f  == CHOOSE g \in sitesOf(n[1]) : TRUE
           js == {j[2] : j \in {k \in joinsites : k[2] > f[2] /\ alias(f, k)}}
       IN <<f[2] + 1, IF js = {} THEN exitOf(Main)[2] ELSE Min(js)>>

ExactOnStraightLine ==
  pass = "run" /\ running = <<>> /\ StraightLine => \A m, n \in Accesses :
    mayHappenInParallelInst(m, n) <=>
      m[1] # n[1] /\ span(m)[1] <= span(n)[2] /\ span(n)[1] <= span(m)[2]

\* Inside a span of its function an instance holds the lock, unless it has not yet
\* acquired it: the span is what every way from the acquire to a release, and back
\* from there, has in common (LockAnalysis::analyzeIntraProcedualLock).
IntraLocksHeld ==
  \A i \in DOMAIN running : live(i) =>
    \A k \in getIntraLockSet(at(i)) \ {at(i)} : ins(k).l \in held(i)

\* Two accesses under a common lock are never at the same time, whatever contexts
\* they run in (LockAnalysis::isProtectedByCommonLock).
LocksProtect ==
  \A i, j \in DOMAIN running :
    i # j /\ isAt(i, "stmt") /\ isAt(j, "stmt") /\ at(i) # at(j) => ~isProtectedByCommonLock(at(i), at(j))

\* An acquire is only visited in a context it was collected in: the assertion
\* "context-sensitive lock not found!!" of analyzeLockSpanCxtStmt.
CxtLocksFound ==
  pass = "span" /\ spanList # <<>> /\ linst \in locksites => lcur \in cxtLockset

\* The passes end: the worklists of TCT, ForkJoinAnalysis, MHP and LockAnalysis run dry,
\* although joins and releases take away what was found before.
AnalysisEnds == <>(pass = "run")
=============================================================================
