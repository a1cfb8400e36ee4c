------------------------------- MODULE Threads -------------------------------
(****************************************************************************)
(* How a program with POSIX threads runs: what the thread analyses have to  *)
(* predict.  Nothing in the repository computes this; it is the meaning of  *)
(* the instructions the analyses read.                                      *)
(*                                                                          *)
(* An instance of a thread has a stack of frames [at, iters]: the           *)
(* instruction it is at and how often each loop has been entered.  Its path *)
(* is the call and fork sites that led from the main function to it.        *)
(****************************************************************************)
EXTENDS ThreadProgram

CONSTANTS MaxThreads, \* instances a run may create
          MaxIters,   \* iterations of a loop whose trip count is not known
          MaxDepth    \* frames of a stack

VARIABLES
  running, \* the instances: [path, parent, stack]
  handles, \* what was forked into a handle: <<handle, index>> to an instance
  joined,  \* instances some join has waited for
  reused,  \* a handle was forked into while its thread had not been joined
  owners   \* locks that are held to the instance holding them

thrVars == <<running, handles, joined, reused, owners>>

frame(f) == [at |-> entryOf(f), iters |-> <<>>]

over(i)   == running[i].stack = <<>>
ended     == running # <<>> /\ over(1)
top(i)    == Last(running[i].stack)
at(i)     == top(i).at
\* instances that can be at an instruction at the same time
live(i)   == i \in DOMAIN running /\ ~over(i) /\ ~ended

iterations(i, h) == IF h \in DOMAIN top(i).iters THEN top(i).iters[h] ELSE 0

\* the handle an instruction names, element by element for an array
handle(i) ==
  LET n == at(i)
  IN <<ins(n).h, IF ins(n).idx = Counter THEN iterations(i, getLoop(n)) - 1 ELSE ins(n).idx>>

-----------------------------------------------------------------------------

\* the call sites the frames below the top will return behind
callSites(i) == LET fr == Front(running[i].stack) IN [k \in DOMAIN fr |-> <<fr[k].at[1], fr[k].at[2] - 1>>]

toStack(i, s) == running' = [running EXCEPT ![i].stack = s]
moved(i, fr)  == Append(Front(running[i].stack), fr)
goOn(i)       == [top(i) EXCEPT !.at = <<@[1], @[2] + 1>>]
jump(i)       == [top(i) EXCEPT !.at = <<@[1], @[2] + ins(@).by>>]
counted(i, h, k) == [g \in DOMAIN top(i).iters \cup {h} |-> IF g = h THEN k ELSE top(i).iters[g]]
isAt(i, op)   == live(i) /\ ins(at(i)).op = op

start ==
  /\ pass = "run" /\ running = <<>>
  /\ running' = <<[path |-> <<>>, parent |-> 0, stack |-> <<frame(Main)>>]>>
  /\ UNCHANGED <<handles, joined, reused, owners>>

access(i) ==
  /\ isAt(i, "stmt")
  /\ toStack(i, moved(i, goOn(i)))
  /\ UNCHANGED <<handles, joined, reused, owners>>

goto(i) ==
  /\ isAt(i, "goto")
  /\ toStack(i, moved(i, jump(i)))
  /\ UNCHANGED <<handles, joined, reused, owners>>

branch(i) ==
  /\ isAt(i, "br")
  /\ \E fr \in {goOn(i), jump(i)} : toStack(i, moved(i, fr))
  /\ UNCHANGED <<handles, joined, reused, owners>>

enterLoop(i) ==
  /\ isAt(i, "head")
  /\ LET h == at(i)
     IN /\ iterations(i, h) < IF ins(h).trip > 0 THEN ins(h).trip ELSE MaxIters
        /\ toStack(i, moved(i, [goOn(i) EXCEPT !.iters = counted(i, h, iterations(i, h) + 1)]))
  /\ UNCHANGED <<handles, joined, reused, owners>>

leaveLoop(i) ==
  /\ isAt(i, "head")
  /\ LET h == at(i)
     IN /\ ins(h).trip \in {0, iterations(i, h)}
        /\ toStack(i, moved(i, [jump(i) EXCEPT !.iters = counted(i, h, 0)]))
  /\ UNCHANGED <<handles, joined, reused, owners>>

call(i) ==
  /\ isAt(i, "call")
  /\ Len(running[i].stack) < MaxDepth
  /\ toStack(i, Append(moved(i, goOn(i)), frame(ins(at(i)).fun)))
  /\ UNCHANGED <<handles, joined, reused, owners>>

ret(i) ==
  /\ isAt(i, "ret")
  /\ toStack(i, Front(running[i].stack))
  /\ UNCHANGED <<handles, joined, reused, owners>>

fork(i) ==
  /\ isAt(i, "fork")
  /\ Len(running) < MaxThreads
  /\ LET n   == at(i)
         new == [path |-> running[i].path \o callSites(i) \o <<n>>, parent |-> i, stack |-> <<frame(ins(n).fun)>>]
     IN /\ running' = Append([running EXCEPT ![i].stack = moved(i, goOn(i))], new)
        /\ reused' = (reused \/ (handle(i) \in DOMAIN handles /\ handles[handle(i)] \notin joined))
        /\ handles' = (handle(i) :> Len(running')) @@ handles
  /\ UNCHANGED <<joined, owners>>

\* waits for the thread in the handle; joining a handle that holds none does nothing
join(i) ==
  /\ isAt(i, "join")
  /\ IF handle(i) \in DOMAIN handles
     THEN over(handles[handle(i)]) /\ joined' = joined \cup {handles[handle(i)]}
     ELSE UNCHANGED joined
  /\ toStack(i, moved(i, goOn(i)))
  /\ UNCHANGED <<handles, reused, owners>>

lock(i) ==
  /\ isAt(i, "lock") /\ ins(at(i)).l \notin DOMAIN owners
  /\ owners' = [l \in DOMAIN owners \cup {ins(at(i)).l} |-> IF l = ins(at(i)).l THEN i ELSE owners[l]]
  /\ toStack(i, moved(i, goOn(i)))
  /\ UNCHANGED <<handles, joined, reused>>

\* releasing a lock somebody else holds, or nobody, does nothing
unlock(i) ==
  /\ isAt(i, "unlock")
  /\ LET l == ins(at(i)).l
     IN owners' = IF l \in DOMAIN owners /\ owners[l] = i
                  THEN [k \in DOMAIN owners \ {l} |-> owners[k]] ELSE owners
  /\ toStack(i, moved(i, goOn(i)))
  /\ UNCHANGED <<handles, joined, reused>>

held(i) == {l \in DOMAIN owners : owners[l] = i}

ThreadsInit == running = <<>> /\ handles = <<>> /\ joined = {} /\ reused = FALSE /\ owners = <<>>

ThreadsNext ==
  \/ start
  \/ \E i \in DOMAIN running :
       \/ access(i) \/ goto(i) \/ branch(i) \/ enterLoop(i) \/ leaveLoop(i) \/ call(i) \/ ret(i)
       \/ fork(i) \/ join(i) \/ lock(i) \/ unlock(i)
=============================================================================
