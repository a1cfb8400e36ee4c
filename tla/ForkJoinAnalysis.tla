-------------------------- MODULE ForkJoinAnalysis --------------------------
(****************************************************************************)
(* ForkJoinAnalysis: for each forked thread, a walk forward from its fork   *)
(* site through the code of the forking thread that tells where the forked  *)
(* thread may be alive and where it has been joined (MHP.cpp, MHP.h).       *)
(*                                                                          *)
(* A context-sensitive statement is <<context, instruction>>.               *)
(****************************************************************************)
EXTENDS TCT

VARIABLES
  fjaTid,      \* the thread whose fork is being followed
  flags,       \* cxtStmtToAliveFlagMap: statement to "alive" or "dead", unmapped when empty
  fjaList,     \* cxtStmtList
  directJoin,  \* <<statement, thread>>: the join joins the thread
  cxtJoinInLoop, \* joins in a loop symmetric to the fork's
  HBPair, HPPair, fullJoin, partialJoin \* pairs of threads

fjaVars == <<fjaTid, flags, fjaList, directJoin, cxtJoinInLoop, HBPair, HPPair, fullJoin,
             partialJoin>>

-----------------------------------------------------------------------------
(* Its answers *)

isHBPair(t, u)   == <<t, u>> \in HBPair /\ <<t, u>> \notin HPPair
isFullJoin(t, u) == <<t, u>> \in fullJoin /\ <<t, u>> \notin partialJoin

getDirectlyJoinedTid(cs) == {d[2] : d \in {e \in directJoin : e[1] = cs}}

getDirAndIndJoinedTid(cs) ==
  LET joined[k \in Nat] ==
        IF k = 0 THEN getDirectlyJoinedTid(cs)
        ELSE LET J == joined[k - 1]
             IN J \cup UNION {{c \in children(t) : isFullJoin(t, c)} : t \in J}
  IN joined[Len(nodes)]

-----------------------------------------------------------------------------
(* Which joins join the thread of a fork *)

inloop(n) == ins(n).idx = Counter /\ loopsAt(n) # {}
tripcount(n) == ins(getLoop(n)).trip

\* elements picked by two loop counters, by the trip counts; else one variable or
\* one fixed element
isSameSCEV(fork, join) ==
  IF inloop(fork) /\ inloop(join) THEN tripcount(fork) <= tripcount(join)
  ELSE ins(fork).idx = ins(join).idx /\ ins(fork).idx # Counter

alias(fork, join) == ins(fork).h = ins(join).h

\* mutated: elements of an array are not told apart
isAliasedBase(fork, join) == alias(fork, join)

isAliasedForkJoin(fork, join) == alias(fork, join) /\ isSameSCEV(fork, join)

-----------------------------------------------------------------------------
(* Flags and worklist, kept in w: [flags, list] *)

flagOf(w, cs) == IF cs \in DOMAIN w.flags THEN w.flags[cs] ELSE "empty"

setFlag(w, cs, flag) ==
  IF flagOf(w, cs) = flag THEN w
  ELSE [flags |-> (cs :> flag) @@ w.flags, list |-> push(w.list, cs)]

\* mutated: dead wins
inheritFlagDeadWins(w, cs, src) ==
  IF flagOf(w, cs) = "empty" \/ flagOf(w, src) = "dead" THEN setFlag(w, cs, flagOf(w, src)) ELSE w

\* alive wins over dead, dead over empty
inheritFlag(w, cs, src) ==
  IF flagOf(w, cs) = "empty" \/ flagOf(w, src) = "alive" THEN setFlag(w, cs, flagOf(w, src)) ELSE w

inheritAll(w, css, src) == FoldLeft(LAMBDA v, cs : inheritFlag(v, cs, src), w, css)
next(cxt, n) == LET to == getNextInsts(n) IN [i \in DOMAIN to |-> <<cxt, to[i]>>]

cur  == Head(fjaList)
ctxt == cur[1]
inst == cur[2]
rest == [flags |-> flags, list |-> Tail(fjaList)]

\* the rest of a step: at the end of the forking thread's routine, was it joined?
atExit(w) ==
  LET p == getParentThread(fjaTid)
      ends == inst = exitOf(nodes[p].routine)
      open == flagOf(w, cur) = "alive"
  IN /\ fullJoin'    = IF ends /\ ~open THEN fullJoin \cup {<<p, fjaTid>>} ELSE fullJoin
     /\ partialJoin' = IF ends /\ open THEN partialJoin \cup {<<p, fjaTid>>} ELSE partialJoin

finish(w) ==
  /\ flags' = w.flags
  /\ fjaList' = w.list
  /\ atExit(w)
  /\ UNCHANGED <<fjaTid, prog, pass>>

following == pass = "fja" /\ fjaList # <<>>

-----------------------------------------------------------------------------
(* The actions *)

analyzeForkJoinPair ==
  /\ pass = "fja" /\ fjaList = <<>>
  /\ fjaTid < Len(nodes)
  /\ fjaTid' = fjaTid + 1
  /\ LET ct == nodes[fjaTid']
         w  == [flags |-> <<>>, list |-> <<>>]
         started == IF ct.fork = NoFork THEN w
                    ELSE FoldLeft(LAMBDA v, n : setFlag(v, <<ct.forkCxt, n>>, "alive"), w,
                                  getNextInsts(ct.fork))
     IN /\ flags' = started.flags
        /\ fjaList' = started.list
  /\ UNCHANGED <<prog, pass, directJoin, cxtJoinInLoop, HBPair, HPPair, fullJoin, partialJoin>>

fjaHandleFork ==
  /\ following /\ ins(inst).op = "fork"
  /\ LET tid == getTCTNode(pushCxt(ctxt, inst, ins(inst).fun), inst)
     IN IF flags[cur] # "alive"
        THEN HBPair' = HBPair \cup {<<fjaTid, tid>>} /\ UNCHANGED HPPair
        ELSE HPPair' = HPPair \cup {<<fjaTid, tid>>, <<tid, fjaTid>>} /\ UNCHANGED HBPair
  /\ finish(inheritAll(rest, next(ctxt, inst), cur))
  /\ UNCHANGED <<directJoin, cxtJoinInLoop>>

fjaHandleJoin ==
  /\ following /\ ins(inst).op = "join"
  /\ LET exits == IF hasJoinLoop(inst) THEN SetToSeq({<<ctxt, s>> : s \in joinExits(inst)}) ELSE <<>>
         marked ==
           IF ~isAliasedForkJoin(nodes[fjaTid].fork, inst) THEN inheritAll(rest, exits, cur)
           ELSE IF hasJoinLoop(inst)
                THEN FoldLeft(LAMBDA v, cs : setFlag(v, cs, "dead"), rest, exits)
           ELSE setFlag(rest, cur, "dead")
     IN finish(inheritAll(marked, next(ctxt, inst), cur))
  /\ IF isAliasedForkJoin(nodes[fjaTid].fork, inst)
     THEN /\ directJoin' = directJoin \cup {<<cur, fjaTid>>}
          /\ cxtJoinInLoop' = IF hasJoinLoop(inst) THEN cxtJoinInLoop \cup {cur} ELSE cxtJoinInLoop
     ELSE UNCHANGED <<directJoin, cxtJoinInLoop>>
  /\ UNCHANGED <<HBPair, HPPair>>

fjaHandleCall ==
  /\ following /\ ins(inst).op = "call" /\ isCandidateFun(ins(inst).fun)
  /\ LET callee == ins(inst).fun
     IN finish(inheritFlag(rest, <<pushCxt(ctxt, inst, callee), entryOf(callee)>>, cur))
  /\ UNCHANGED <<directJoin, cxtJoinInLoop, HBPair, HPPair>>

\* to the successors of every call site the context can return to
returns(cxt, f) ==
  LET sites == SetToSeq({c \in callEdgesTo(f) : matches(cxt, c, f)})
  IN FoldLeft(LAMBDA q, c : q \o next(popCxt(cxt, c, f), c), <<>>, sites)

fjaHandleRet ==
  /\ following /\ ins(inst).op = "ret"
  /\ finish(inheritAll(rest, returns(ctxt, inst[1]), cur))
  /\ UNCHANGED <<directJoin, cxtJoinInLoop, HBPair, HPPair>>

fjaHandleIntra ==
  /\ following
  /\ \/ ins(inst).op \notin {"fork", "join", "call", "ret"}
     \/ ins(inst).op = "call" /\ ~isCandidateFun(ins(inst).fun)
  /\ finish(inheritAll(rest, next(ctxt, inst), cur))
  /\ UNCHANGED <<directJoin, cxtJoinInLoop, HBPair, HPPair>>

fjaDone ==
  /\ pass = "fja" /\ fjaList = <<>> /\ fjaTid = Len(nodes)
  /\ pass' = "mhp"
  /\ UNCHANGED <<prog, fjaVars>>

FJAInit ==
  /\ fjaTid = 0 /\ flags = <<>> /\ fjaList = <<>>
  /\ directJoin = {} /\ cxtJoinInLoop = {}
  /\ HBPair = {} /\ HPPair = {} /\ fullJoin = {} /\ partialJoin = {}

FJANext ==
  \/ analyzeForkJoinPair \/ fjaDone
  \/ fjaHandleFork \/ fjaHandleJoin \/ fjaHandleCall \/ fjaHandleRet \/ fjaHandleIntra
=============================================================================
