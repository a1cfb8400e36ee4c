---------------------------- MODULE RaceDetector ----------------------------
(****************************************************************************)
(* RaceDetectorBase::runOnModule: one session reads the logs earlier ones   *)
(* left, computes lock sets and the happens-before graph, sorts the         *)
(* locations of the accesses into shared and unshared and writes one of the *)
(* logs.  The next session starts from what is then on the disk; between    *)
(* sessions the program may run, and what its threads do is compared with   *)
(* what the last session said.                                              *)
(*                                                                          *)
(* An access has the variable it accesses, var, and the source location of  *)
(* its pointer, loc, "" if that has none.  prog.file gives the file of a    *)
(* location, "" if it names none.  A line of a log is <<"src", file>>,      *)
(* <<"fun", "">>, as no method name is ever found, or <<"var", location>>.  *)
(* The lists of lines and locations are sets: only what is in them counts.  *)
(*                                                                          *)
(* prog.sessions bounds the sessions, prog.options has the configurations   *)
(* [shared, files, methods, vars] they may run under, and prog.logs what    *)
(* the logs <<unshared, shared>> may hold before the first.                 *)
(****************************************************************************)
EXTENDS SHBGraph, InsensitiveLockSet, Threads

VARIABLES
  sessions,           \* sessions so far
  options,            \* the configuration of this one
  threadAccessSetMap, \* threads to their accesses
  unsharedVarLocs, sharedVarLocs, unsharedStrings, sharedStrings, \* as the globals
  known,              \* what the session read: <<unshared, shared>>
  logs                \* UnsharedOutput.txt and PotentiallySharedOutput.txt

logVars == <<unsharedStrings, sharedStrings>>
rdbVars == <<sessions, options, threadAccessSetMap, unsharedVarLocs, sharedVarLocs, logVars, known, logs>>
vars    == <<prog, pass, shbVars, lockSetVars, rdbVars, thrVars>>

\* Locations name a file or none, and the logs are two.
ASSUME InputsAssumption ==
  \A p \in Programs :
    /\ \A f \in DOMAIN p.body : \A i \in DOMAIN p.body[f] :
         p.body[f][i].op = "stmt" => p.body[f][i].loc \in {""} \cup DOMAIN p.file
    /\ \A l \in p.logs : l = <<l[1], l[2]>>

MAIN_THREAD == <<>>

src(f)    == <<"src", f>>
varOf(l)  == <<"var", l>>
method    == <<"fun", "">>
files(L)  == {prog.file[l] : l \in L} \ {""}
loc(n)    == ins(n).loc

-----------------------------------------------------------------------------

inputExistingLogs ==
  /\ pass = "read"
  /\ unsharedStrings' = logs[1] /\ sharedStrings' = logs[2]
  /\ known' = logs
  /\ pass' = "fill"
  /\ UNCHANGED <<prog, sessions, options, threadAccessSetMap, unsharedVarLocs, sharedVarLocs, logs>>

\* mutated: the calls are not followed
intraThreadDFSFunction(f) == reachedFrom(enterNode(f), {"PO"}) \cap accesses

\* the accesses on the way along the chains and into calls
intraThreadDFS(f) == reachedFrom(enterNode(f), {"PO", "Call"}) \cap accesses

collectAccess ==
  /\ pass = "access"
  /\ threadAccessSetMap' = [t \in threadSet \cup {MAIN_THREAD} |->
                              intraThreadDFS(IF t = MAIN_THREAD THEN Main ELSE thread2RountineMap[t])]
  /\ pass' = "detect"
  /\ UNCHANGED <<prog, sessions, options, unsharedVarLocs, sharedVarLocs, logVars, known, logs>>

mayAlias(m, n) == ins(m).var = ins(n).var

\* the accesses of other threads than t
others(t) == UNION {threadAccessSetMap[u] : u \in DOMAIN threadAccessSetMap \ {t}}

checkNodes(m, n) == n \notin reachedFrom(m, EdgeTypes) /\ mayAlias(m, n)

\* When checkNodes is not true it returns nothing, and what the caller sees is up to
\* the build: undecided accesses may be found shared or not.
detectShared ==
  /\ pass = "detect"
  /\ LET located == {d \in (DOMAIN threadAccessSetMap) \X accesses :
                       d[2] \in threadAccessSetMap[d[1]] /\ loc(d[2]) # ""}
         decided == {d \in located : \E b \in others(d[1]) : checkNodes(d[2], b)}
     IN \E luck \in SUBSET {d \in located \ decided : others(d[1]) # {}} :
          /\ sharedVarLocs'   = {loc(d[2]) : d \in decided \cup luck}
          /\ unsharedVarLocs' = {loc(d[2]) : d \in located \ (decided \cup luck)}
  /\ pass' = "files"
  /\ UNCHANGED <<prog, sessions, options, threadAccessSetMap, logVars, known, logs>>

-----------------------------------------------------------------------------
(* The output.  A file is named unless the logs name it, or shared locations are in it. *)

\* mutated: the shared log is not looked at
namedUnsharedOnly(f) == src(f) \in unsharedStrings

alreadyNamed(f) == src(f) \in unsharedStrings \cup sharedStrings

\* mutated: one unshared location is enough
noneShared(f) == FALSE

containsShared(f) == f \in files(sharedVarLocs)

checkUnsharedFiles ==
  LET new == {f \in files(unsharedVarLocs) : ~alreadyNamed(f)}
  IN /\ sharedStrings'   = sharedStrings \cup {src(f) : f \in {g \in new : containsShared(g)}}
     /\ unsharedStrings' = unsharedStrings \cup {src(f) : f \in {g \in new : ~containsShared(g)}}

checkSharedFiles ==
  /\ sharedStrings' = sharedStrings \cup {src(f) : f \in files(sharedVarLocs)}
  /\ UNCHANGED unsharedStrings

checkFiles ==
  /\ pass = "files"
  /\ IF ~options.files THEN UNCHANGED logVars
     ELSE IF options.shared THEN checkSharedFiles ELSE checkUnsharedFiles
  /\ pass' = "methods"

checkUnsharedMethods ==
  LET known1 == unsharedStrings \cup sharedStrings
  IN IF method \in known1 \/ \A f \in files(unsharedVarLocs) : src(f) \in known1 THEN UNCHANGED logVars
     ELSE IF sharedVarLocs # {}
          THEN sharedStrings' = sharedStrings \cup {method} /\ UNCHANGED unsharedStrings
          ELSE unsharedStrings' = unsharedStrings \cup {method} /\ UNCHANGED sharedStrings

checkSharedMethods ==
  /\ sharedStrings' = sharedStrings \cup
       {method : f \in {g \in files(sharedVarLocs) : src(g) \notin sharedStrings}}
  /\ UNCHANGED unsharedStrings

checkMethods ==
  /\ pass = "methods"
  /\ IF ~options.methods THEN UNCHANGED logVars
     ELSE IF options.shared THEN checkSharedMethods ELSE checkUnsharedMethods
  /\ pass' = "vars"

\* the lines of locations in a file that the log names neither by file nor by method
newVars(L, lines) ==
  {varOf(l) : l \in {k \in L : prog.file[k] # "" /\ src(prog.file[k]) \notin lines /\ method \notin lines}}

\* Whether an unshared location is also a shared one is not asked.
checkVariables ==
  /\ pass = "vars"
  /\ IF ~options.vars THEN UNCHANGED logVars
     ELSE IF options.shared
     THEN sharedStrings' = sharedStrings \cup newVars(sharedVarLocs, sharedStrings) /\ UNCHANGED unsharedStrings
     ELSE unsharedStrings' = unsharedStrings \cup newVars(unsharedVarLocs, unsharedStrings) /\ UNCHANGED sharedStrings
  /\ pass' = "write"

check ==
  /\ checkFiles \/ checkMethods \/ checkVariables
  /\ UNCHANGED <<prog, sessions, options, threadAccessSetMap, unsharedVarLocs, sharedVarLocs, known, logs>>

chosen   == IF options.shared THEN 2 ELSE 1
contents == IF options.shared THEN sharedStrings ELSE unsharedStrings

UnchangedByOutput == UNCHANGED <<prog, sessions, options, threadAccessSetMap, unsharedVarLocs, sharedVarLocs, logVars, known>>

\* Opening the chosen log empties it; that may fail, and the session with it.
openLog ==
  /\ pass = "write"
  /\ \/ logs' = [logs EXCEPT ![chosen] = {}] /\ pass' = "writing"
     \/ UNCHANGED logs /\ pass' = "stopped"
  /\ UnchangedByOutput

output ==
  /\ pass = "writing"
  /\ logs' = [logs EXCEPT ![chosen] = contents]
  /\ pass' = "run"
  /\ UnchangedByOutput

-----------------------------------------------------------------------------
(* Sessions *)

working == pass \notin {"stopped", "run"}

\* A session that is killed leaves in the log it writes what has reached the disk.
crash ==
  /\ working
  /\ IF pass = "writing" THEN \E lines \in SUBSET contents : logs' = [logs EXCEPT ![chosen] = lines]
     ELSE UNCHANGED logs
  /\ pass' = "stopped"
  /\ UnchangedByOutput /\ UNCHANGED <<shbVars, lockSetVars, thrVars>>

\* The next session is another process: nothing but the logs outlives it.
newSession ==
  /\ pass = "stopped" \/ (pass = "run" /\ running = <<>>)
  /\ sessions < prog.sessions
  /\ sessions' = sessions + 1
  /\ options' \in prog.options
  /\ threadAccessSetMap' = <<>>
  /\ unsharedVarLocs' = {} /\ sharedVarLocs' = {} /\ unsharedStrings' = {} /\ sharedStrings' = {}
  /\ edges' = <<>> /\ thread2RountineMap' = <<>> /\ worklist' = <<>> /\ outLockSetMap' = <<>>
  /\ known' = <<{}, {}>>
  /\ pass' = "read"
  /\ UNCHANGED <<prog, logs, thrVars>>

Init ==
  /\ prog \in Programs
  /\ pass = "read" /\ sessions = 1 /\ options \in prog.options
  /\ logs \in prog.logs /\ known = <<{}, {}>>
  /\ threadAccessSetMap = <<>>
  /\ unsharedVarLocs = {} /\ sharedVarLocs = {} /\ unsharedStrings = {} /\ sharedStrings = {}
  /\ SHBInit /\ LockSetInit /\ ThreadsInit

Session ==
  \/ (inputExistingLogs \/ collectAccess \/ detectShared \/ check \/ openLog \/ output)
     /\ UNCHANGED <<shbVars, lockSetVars, thrVars>>
  \/ LockSetNext /\ UNCHANGED <<shbVars, rdbVars, thrVars>>
  \/ SHBNext /\ UNCHANGED <<lockSetVars, rdbVars, thrVars>>

\* a running program may stop anywhere; the detector may not
Stopped == ~working /\ UNCHANGED vars

Next ==
  \/ Session \/ crash \/ newSession
  \/ ThreadsNext /\ UNCHANGED <<prog, pass, shbVars, lockSetVars, rdbVars>>
  \/ Stopped

\* A session is one thread, which keeps taking steps until it is done.
Spec == Init /\ [][Next]_vars /\ ([]<>~working \/ []<><<TRUE>>_vars)

-----------------------------------------------------------------------------

\* the thread of an instance
tid(i) == IF running[i].path = <<>> THEN MAIN_THREAD ELSE threadOf(Last(running[i].path))

\* two instances about to access one variable at the same time
racing(i, j) == /\ i # j
                /\ isAt(i, "stmt") /\ isAt(j, "stmt")
                /\ mayAlias(at(i), at(j))

TypeOK ==
  /\ pass \in {"read", "fill", "locks", "nodes", "calls", "forks", "joins", "access", "detect", "files",
               "methods", "vars", "write", "writing", "run", "stopped"}
  /\ \A e \in DOMAIN edges : e \in getSHBNodes \X getSHBNodes /\ edges[e] \in EdgeTypes
  /\ \A t \in threadSet : thread2RountineMap[t] \in Funs
  /\ ToSet(worklist) \subseteq Insts /\ DOMAIN outLockSetMap \subseteq Insts
  /\ unsharedVarLocs \cup sharedVarLocs \subseteq DOMAIN prog.file

\* n is passed once, and on every way through its function
passedOnce(n) == loopsAt(n) = {} /\ postDominates(n, entryOf(n[1]))

\* Layout is program order for calls, forks and joins, and a handle is for one thread.
orderIsLayout ==
  /\ \A n \in withOp({"call", "join"}) : passedOnce(n)
  /\ \A n \in forksites : loopsAt(n) = {}
  /\ \A m, n \in forksites : ~isPointer(m) /\ (m # n => getPts(m) \cap getPts(n) = {})

\* Two accesses that different threads make at the same time: one of their locations is
\* found shared, and where layout is program order the graph has neither access before the
\* other (detectShared, over the graph of SHBGraph::buildFromModule).
RacesShared ==
  \A i, j \in DOMAIN running : racing(i, j) /\ tid(i) # tid(j) /\ at(i) # at(j) =>
    /\ {loc(at(i)), loc(at(j))} \cap sharedVarLocs # {}
    /\ orderIsLayout => at(j) \notin reachedFrom(at(i), EdgeTypes)

\* The same for threads that run the same routine, at the same access.
AllRacesShared ==
  \A i, j \in DOMAIN running : racing(i, j) /\ tid(i) # tid(j) =>
    {loc(at(i)), loc(at(j))} \cap sharedVarLocs # {}

\* A session that ends has added no file with a location found shared to the log of what need
\* not be watched, and with the shared files chosen it leaves all of them in the log, whatever
\* the logs held and whichever sessions were killed (checkFiles, output).
LogsFollowDetection ==
  pass = "run" =>
    /\ \A l \in sharedVarLocs : src(prog.file[l]) \notin logs[1] \ known[1]
    /\ options.shared /\ options.files =>
         \A l \in sharedVarLocs : prog.file[l] # "" => src(prog.file[l]) \in logs[2]

\* Every lock an instance holds when it accesses memory is in the lock set of the access
\* (InsensitiveLockSet::analyze).
HeldIsCollected ==
  \A i \in DOMAIN running : isAt(i, "stmt") => held(i) \subseteq outLockSetMap[at(i)]

\* A session that ends keeps every line it read, and lists no file as unshared that it
\* read to be shared (inputExistingLogs, checkFiles, output).
KnownIsKept ==
  pass = "run" =>
    /\ known[chosen] \subseteq logs[chosen]
    /\ \A l \in logs[1] \ known[1] : l[1] = "src" => l \notin known[2]

\* Every session ends, in its output or before it (the worklist of analyze).
DetectorEnds == []<>~working
=============================================================================
