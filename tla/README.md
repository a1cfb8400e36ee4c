# TLA+ models of NEO-SVF

NEO-SVF is a static analyser for C and C++ programs on LLVM: an inclusion-based
pointer analysis, sparse value-flow graphs and checkers built on it (SVF), and a
race detector with context- and origin-sensitive variants (NEO). These modules
model the analyser's own algorithms, check them with TLC on small programs and
prove what matters most with TLAPS for every program.

The modelled program is sequential. What makes it hard is that it runs fixpoints
over shared structures (a graph, points-to sets, caches, worklists) that its own
steps rewrite while loops over them are in progress, and that its answer must not
depend on the order in which hash sets happen to be iterated. Wherever an order
of the code's containers can matter the model chooses any element, so one run of
TLC covers every order. Part of what it computes is about concurrent programs:
there the models also run the analysed program, thread by thread, and compare
what its threads do with what the analysis said of them; the leak checker's programs
are run the same way, with one allocated object followed. The race detector also
keeps logs from one session to the next, so there sessions are repeated and killed.

## Inventory

| component (sources) | state | operations | what makes it hard | what makes it correct | here |
|---|---|---|---|---|---|
| Constraint graph (`MemoryModel/ConsG*`) | nodes, edges by kind, representative and sub-node maps, positive-weight flags | add edges, retarget and move the edges of a merged node, connect call parameters | retargeting while the graph is iterated; duplicates; what is dropped inside a cycle | no edge left at a merged node; a dropped field access flags its cycle | `ConsG` |
| Inclusion-based solver (`WPA/Andersen*`, `WPASolver.h`, `PointsToDS.h`) | points-to, reverse points-to, propagated and cached sets, worklist | address, copy, gep, load, store handlers; merging; collapsing; call resolution | merging and collapsing inside the wave, mutual recursion, stale reverse sets, difference sets | nothing spurious, closed under the constraints, terminating | `AndersenWaveDiff` |
| Cycle detection (`Util/SCC.h`) | DFS stacks, representative, topological order | `find`, `visit`, `match` | Nuutila's variant keeps only roots on the stack | same representative iff mutually reachable; order is topological | `SCC`, `Components`; its result in `ConsG` |
| Worklists (`Util/WorkList.h`) | queue or stack, membership set | `push`, `pop`, `find` | membership set and container must agree | no lost and no duplicate item | a set in `AndersenWaveDiff`, a FIFO without duplicates in `TCT`; the vector of the lock sets, a stack with duplicates, in `InsensitiveLockSet` |
| PAG, symbol table, memory model (`MemoryModel/PAG*`, `MemModel`, `LocMemModel`, `LocationSet`) | nodes, edges, objects, field maps | node and edge creation, field offsets | offset reduction, limits, negative offsets | field nodes stay inside the object | field part in `ConsG` |
| Pointer analysis base (`PointerAnalysis`) | call graph, resolved calls | on-the-fly call graph, aliases, result files | calls appear while solving, a budget stops them | all reachable callees resolved unless the budget is spent | call part in `AndersenWaveDiff` |
| CHA, type analysis | class graph, vtables | build, resolve virtual call | none that interacts | - | no |
| Flow-sensitive solver (`FlowSensitive`, `PointsToDFDS.h`) | IN and OUT sets per statement | propagation, strong and weak updates | strong updates on changing points-to sets | never less than flow-insensitive truth | planned |
| Context and origin sensitivity (`CtxSensitive.h`, `OriginPAG`, `CallSitePAG`, `CtxConsG`) | contexts, cloned nodes | clone per call site or origin while solving | graph grows while solved, recursion bounds | projection equals the insensitive answer or less | planned |
| Memory SSA (`MSSA/MemRegion`, `MemSSA`, `MemPartition`) | regions, mod and ref sets | bottom-up mod-ref, partitions, phi placement | recursion in the call graph | regions partition objects; every effect has a mu or chi | planned |
| Value-flow graph (`MSSA/SVFG*`) | nodes, def-use edges | build, connect calls, remove actual/formal nodes | calls connected on the fly | def-use paths preserved by the optimisation | its direct edges, in `SaberProgram` |
| SABER checkers (`SABER/*`) | sources, sinks, forward and backward slice, conditions of nodes, reports | find sources behind wrappers, traverse with contexts, solve conditions, report | contexts cut at a limit, recursion, slices given up for globals, contexts matched in one pass and not in the next | slices follow balanced paths only; no leak unreported; nothing freed is reported as never freed | `SrcSnkDDA`, `Saber` |
| Path conditions (`Util/PathCondAllocator`, `Conditions`) | decision variables, conditions of blocks | allocate, evaluate branches, compute guards | shortcuts over post-dominators, loops approximated once, branches decided by exits and null tests | the guard of a value flow is true of the runs that take it | `PathCondAllocator` |
| Call graphs, thread API (`PTACallGraph`, `ThreadCallGraph`, `ThreadAPI`) | call, fork, join edges | build, update with indirect targets | forks through pointers | - | direct edges, in `ThreadProgram` |
| Thread creation tree (`MTA/TCT`) | abstract threads, contexts, join loops | build from forks, multi-fork marking | recursion and loops around forks | a thread not marked multi-forked has one instance; every fork has its edge | `TCT` |
| MHP and fork/join analysis (`MTA/MHP`) | alive and dead threads per statement, HB pairs | fork, join, call, return, intra handlers | joins on some paths only, symmetric loops, joins that take threads out of a growing set again | a pair that can run in parallel is reported | `ForkJoinAnalysis`, `MHP` |
| Lock analysis (`MTA/LockAnalysis`) | spans inside functions, contexts of locks, locks per statement and context | forward and backward walks, walk along calls, returns and forks, query | releases on some paths, acquires in callees, a fixpoint that takes locks away and puts them back | a span is held on all paths; two accesses under one lock are never at the same time | `LockAnalysis` |
| Multithreaded value flow (`MTA/FSMPTA`, `PCG`) | extra def-use edges | build | depends on MHP and locks | no interference edge missed | planned |
| Race detector (`RaceDectectorBase/*`) | happens-before graph, lock sets, shared and unshared locations, two log files | build, reach, merge lock sets, pair accesses, filter by file, method and variable, read and write logs | a function that may return nothing, layout order for program order, logs of sessions that ran under other options or were killed | a race has a shared location; a file is not declared quiet if it has one; logs keep what they knew | `SHBGraph`, `InsensitiveLockSet`, `RaceDetector` |
| Utilities, tools, CUDD | - | tables, option parsing, vendored BDDs | - | - | no |

How they interact: the PAG builder turns the IR into a PAG; the solver copies it
into a constraint graph and fills points-to sets; it calls back into the base
class to resolve indirect calls, which adds edges to the graph being solved. The
memory SSA, the value-flow graph, the checkers, the thread analyses and the race
detector read the final points-to sets and call graph, so what they compute is
only as good as the solver. That is why it is modelled first. The thread analyses
are a chain of their own: the creation tree names the threads, the fork/join walk
says which of them are over before which, the interleaving fixpoint reads both,
and the lock analysis says which statements share a lock. The clients ask both
whether two instructions may happen in parallel. They are modelled second. The
race detector is a third line: it has its own happens-before graph, lock sets and
driver, reads points-to sets of the solver only, and hands its result to later
sessions, and to an instrumenter, through two log files. The checkers of SABER are a
fourth: they build a value-flow graph from the solver's answer, slice it from every
allocation, and ask the path conditions under which branches the allocation reaches
each release.

## Modules

| module | models |
|---|---|
| `ConsG` | memory nodes and field offsets (PAG.cpp, MemModel.cpp), constraint edges, adding, retargeting and moving them (ConsG.cpp, ConsG.h), the cycles of direct edges (SCC.h) |
| `AndersenWaveDiff` | the solver the race detector and the value-flow graph use: `AndersenWaveDiff` with what it inherits from `AndersenWave`, `Andersen`, `WPASolver`, and the on-the-fly call graph of `PointerAnalysis` |
| `MCAndersenWaveDiff` | the inputs of its runs |
| `AndersenWaveDiff_proofs` | its theorems about types and precision |
| `AndersenWaveDiff_graph_proofs` | its theorems about merging and collapsing: representatives, caches, propagated sets, calls, collapsed objects |
| `ThreadProgram` | the program the thread analyses read: instructions, loops, post-dominance, call and fork edges |
| `TCT` | the thread creation tree (TCT.cpp, TCT.h) |
| `ForkJoinAnalysis` | where the thread of each fork is alive and where it has been joined (MHP.cpp, second half) |
| `MHP` | which threads run beside a statement, and the query on two instructions (MHP.cpp, first half) |
| `LockAnalysis` | lock spans inside functions, contexts of locks, locks held at a statement in a context, and the query on two instructions (LockAnalysis.cpp, .h) |
| `Threads` | the analysed program itself, run with POSIX threads; the meaning of the instructions, not code of the repository |
| `Threads_proofs` | what the proofs about threads share: facts of programs, of sequences and folds, and of how programs run |
| `MTA` | the passes in the order of `MTA::runOnModule`, then the program; all properties |
| `MCMTA` | the programs of its runs |
| `MTA_proofs` | its theorem about the lock walk |
| `MTA_tree_proofs` | its theorems about the creation tree |
| `SHBGraph` | the static happens-before graph of the race detector (SHBGraph.cpp, .h) |
| `InsensitiveLockSet` | its lock sets (InsensitiveLockSet.cpp) |
| `RaceDetector` | its driver: sessions that read the logs, find shared accesses, filter and write; the analysed program between sessions; all properties |
| `MCRace` | the programs, options and old logs of its runs |
| `RaceDetector_proofs` | the theorems about lock sets, the logs and the types of the detector |
| `SaberProgram` | the programs SABER reads: control-flow graph, dominators and loops, value-flow graph (SVFG.cpp, SVFGOPT.cpp, SaberSVFGBuilder.cpp) |
| `PathCondAllocator` | conditions of branches, guards of value flows (PathCondAllocator.cpp, .h) |
| `SrcSnkDDA` | sources, slices, conditions and reports of the leak and double-free checkers (SrcSnkDDA.cpp, CFLSolver.h, DPItem.h, ProgSlice.cpp, LeakChecker.cpp, DoubleFreeChecker.cpp) |
| `Saber` | the analysis, then a run of the program that follows one object; all properties |
| `MCSaber` | the programs of its run |
| `Saber_proofs` | its theorems about slices and about what is reported as never freed |
| `Components` | what the users of a cycle detection rely on, as an abstract specification |
| `SCC` | the detection itself, Nuutila's search (SCC.h), shown to implement `Components` |
| `MCSCC` | its graphs |
| `SCC_proofs` | its theorems, the safety part of the refinement among them |

### ConsG

A memory node is a pair: `<<o, 0>>` is the base node of object `o`, `<<o, 1 + f>>`
its field `f` (`getFIObjNode`, `getGepObjNode`). `getModulusOffset` takes the
absolute value of an offset modulo the object's field limit, as
`SymbolTableInfo::getModulusOffset` does, and `getGepObjNode` returns the base
node once the object is field-insensitive. The graph is a set of edge records.
As in the code an edge is identified by kind, source and destination, and the
offset of a gep is not part of the comparison, so a second gep between two
nodes is dropped. `moveEdgesToRepNode` is the pair of loops in ConsG.cpp: an
incoming edge first, then an outgoing one, each retargeted or removed by kind and
by whether its other end already belongs to the representative.

### AndersenWaveDiff

`pc` says which loop of `Andersen::analyze` the solver is in; one action is one
iteration of one loop.

| pc | loop | actions |
|---|---|---|
| addr | `processAllAddr` | `processAllAddr` |
| scc, merge | `SCCDetect`, `mergeSccCycle`, `mergeSccNodes` | `SCCDetect`, `mergeSccNodes`, `mergeSccDone` |
| wave | `WPASolver::solve`, the node stack | `processNode`, `waveDone` |
| copy | `AndersenWave::processNode`, `handleCopyGep` | `skipMergedNode`, `handleCopyGep` |
| gep, ptd | `processGep`, `processGepPts` | `processGep`, `gepBlkObjOrConstant`, `variantGepPts`, `normalGepPts`, `processGepDone`, `handleGepDone` |
| drain, collapse | the queue `nodesToBeCollapsed`; `collapseNodePts`, `collapseField` | `collapseNext`, `collapseAllDone`, `collapseNodePts`, `collapseField`, `collapseFieldDone`, `collapseNodePtsDone` |
| worklist, post | `popFromWorklist`, `postProcessNode` | `popFromWorklist`, `handleLoad`, `handleStore`, `postDone` |
| connect | `updateCallGraph`, end of a round | `updateCallGraph`, `connectCaller2CalleeParams`, `solveAgain` |

State: `edges`, `rep`, `subs`, `pwc` are the constraint graph and its
`nodeToRepMap`, `nodeToSubsMap` and flags; `pts`, `revPts`, `propa`, `cache` are
the four parts of `DiffPTData`; `frames` is the C++ call stack of the two
mutually recursive collapse functions, with the cloned points-to set each of them
iterates; `toCollapse` is `nodesToBeCollapsed`; `called` is `indCallMap`.

Abstractions: sets replace the containers, so every iteration order is covered,
and the choice of a representative in a cycle and of the topological order is
free. Loops whose iterations cannot see one another are one step:
`processAllAddr`, the copy edges of a node, and the copy edges one load or store
adds. The input is a set of edges together with the calls an indirect call site
can resolve to and the parameter copies they would add.

### The thread analyses

`pass` is the pass at work: `tct`, `fja`, `mhp`, then `lock`, `clp` and `span` of
the lock analysis, and then `run`, when the program runs. `ForkJoinAnalysis`, `MHP`
and `LockAnalysis` EXTEND what they read from. `MTA!Init` picks a program from
`Programs`.

| code | action |
|---|---|
| `TCT::TCT`, `build` up to its worklist loop | `build` |
| one turn of the loop, `handleCallRelation` per call site | `popFromCTPWorkList` |
| `collectMultiForkedThreads` | `collectMultiForkedThreads` |
| `analyzeForkJoinPair`, next thread | `analyzeForkJoinPair`, `fjaDone` |
| one turn of its worklist loop | `fjaHandleFork`, `fjaHandleJoin`, `fjaHandleCall`, `fjaHandleRet`, `fjaHandleIntra` |
| `analyzeInterleaving`, next thread | `analyzeInterleaving`, `updateNonCandidateFunInterleaving` |
| one turn of its worklist loop | `mhpHandleNonCandidateFun`, `mhpHandleFork`, `mhpHandleJoin`, `mhpHandleCall`, `mhpHandleRet`, `mhpHandleIntra` |
| `analyzeIntraProcedualLock` of every lock site | `analyzeIntraProcedualLock` |
| one turn of the loop of `collectCxtLock` | `collectCxtLock`, `startSpans` |
| one turn of the loop of `analyzeLockSpanCxtStmt` | `lsaHandleFork`, `acquireLock`, `releaseLock`, `lsaHandleCall`, `lsaHandleRet`, `lsaHandleIntra`, `locksDone` |

An instruction is `<<function, position>>`; a loop is its header, with the
distance to the instruction after it. A context is a sequence of call sites and a
thread's statement is `<<thread, context, instruction>>`, as in the code; the lock
analysis leaves the thread out. Node 1 is the code's node 0. The worklists are FIFO
and without duplicates as `FIFOWorkList` is, so the passes are deterministic up to
the places where an order of addresses decides something, the entry functions of
`build` and of the lock analysis, the pairs one turn of the collection adds, and the call
sites a return goes back behind. The order in which the creation tree takes a function's
call sites only renumbers the nodes.

A fork and a join name a handle. Two sites alias when the handle is the same, and
`isSameSCEV` compares trip counts when both pick an array element by a loop
counter and the fixed element otherwise. The cache `dirAndIndJoinMap` is left
out: full joins are final when MHP first asks. The analysed threads of `Threads`
have a stack of frames with loop counters; forking stores the instance in the
handle, joining waits for the instance in it, and `owners` says who holds a lock.
Handles and locks are shared by all threads, and when main returns the process ends.

Pairs of fork and join are taken to be must-aliases (the comment of `isSameSCEV`
says so: "We assume a pair of fork and join sites are must-alias if they have same
PTASCEV"). A program that forks into a handle again while its thread has not been
joined breaks that assumption; `reused` records it, and `FullJoinHolds`,
`HBHolds` and `MHPSound` claim nothing from then on. `Parallel` is `MHPSound`
without that exemption.

### The race detector

One session is `RaceDetectorBase::runOnModule`. `pass` follows it:

| pass | code | actions |
|---|---|---|
| read | `inputExistingLogs` | `inputExistingLogs` |
| fill, locks | `InsensitiveLockSet::analyze`: worklist filled, one turn of its loop | `fillWorklist`, `visit`, `lockSetsDone` |
| nodes, calls, forks, joins | `SHBGraph::buildFromModule` | `buildIntraProcNode`, `connectCallEdges`, `connectForkEdges`, `connectJoinEdges` |
| access | `collectAccess`, `intraThreadDFS` | `collectAccess` |
| detect | `detectShared`, `checkNodes` | `detectShared` |
| files, methods, vars | the three filters, unshared or shared mode | `checkFiles`, `checkMethods`, `checkVariables` |
| write, writing | opening (which empties) the log, writing it line by line | `openLog`, `output` |
| run, stopped | the session has ended, or died | `newSession`, and the steps of `Threads` |

`crash` kills a session at any step: what is in memory is gone, the two log files
stay as they are at that moment. `newSession` starts over from the files under any
configuration of `prog.options`. The lists of strings are sets of lines, since only
membership is ever asked. A line of the output may be written or not when the
session is killed while writing.

`checkNodes` returns a value on one of its paths only. `luck` stands for what its
caller finds on the others: any accesses not decided may count as shared. The
lock sets do not depend on the order of visits except in how long they take, but the
order is kept: call sites come in the order of addresses, any order here.

### Cycle detection

`SCC` has the recursion of `visit` as a stack of frames, each with the children
left; `_rep`, `_inSCC`, `_I`, `_D`, `_SS`, `_T` and `_subNodes` are variables.
`Components` knows neither numbers nor stacks: it names one component after another,
each after those it reaches, with any member as its representative. The mapping
takes `repOf` to be the representatives of the nodes whose component is complete
and `topo` to be `_T`; entering, handling a child and leaving a member are
stutters, `completeSCC` names. `addEdgeAndFind` is the solver adding an edge between
two detections, as its rounds do.

### SABER

`pass` follows `SrcSnkDDA::analyze`; one action is one turn of a loop.

| pass | code | actions |
|---|---|---|
| init | `SrcSnkDDA::initialize`, `PathCondAllocator::allocate`, `LeakChecker::initSrcs` | `initialize` |
| source | the loop over sources | `setCurSlice`, `finalize` |
| forward | `forwardTraverse`, `forwardProcess`, `forwardpropagate` | `forwardTraverse`, `forwardDone` |
| backward | `backwardTraverse` from each sink found | `backwardStart`, `backwardTraverse`, `backwardDone` |
| guard | `ProgSlice::AllPathReachableSolve` | `AllPathReachableSolve`, `solved` |
| report | `LeakChecker::reportBug`, `DoubleFreeChecker::reportBug` | `reportBug` |
| run | the program, one instruction or branch at a time | `malloc`, `assign`, `phi`, `free`, `exit`, `call`, `branch`, `return` |

A condition is the set of valuations of the decision variables that satisfy it, so
`condAnd`, `condOr` and equality of decision diagrams are intersection, union and
equality of sets. `info` is what LLVM and the allocator know of the program before
any slice: post-dominators, exits of loops, blocks that only lead to a call of exit.
Computing one guard has no effect outside `bbToCondMap`, which is emptied before
each, so a guard is an operator, `solveCF`, that goes through the worklist of
`ComputeIntraVFGGuard` in its order, a block a turn (`visitBB`). It is given `mostTurns`
turns, more than it can need: a block is queued when its condition gets weaker, which is
not more often than there are valuations, and a solved guard stays as it is. Values are in SSA form; a `phi` has an
operand for every predecessor, a `store` names the version of memory it makes, as
memory SSA would, and a parameter or result of a call is a phi.

A run picks one allocation and follows its object: the values of each frame that
hold it, the sources that have held it (`origin` is the first) and the calls of free it
reaches, the branches taken. A null test of
a value that holds it goes one way only. `lost` says that a value that held the object was
overwritten or passed over by a phi, `varied` that a branch went both ways.

## Bounds

`MovPAGs` and `FieldPAGs` have two address-taken objects and two further pointers,
the first with every right-hand side the family's statement kinds allow, the second
with every load and, in `MovPAGs`, the copies from an object's pointer or the first
pointer, and at most one store, which is enough for cycles through memory,
cycles found only in a later round, weighted cycles and chained merges. Pointers
have one definition each, because the code analyses SSA form. `MixPAGs`
restricts the right-hand sides for the properties that cost most. Objects have
one or two fields: two is enough for a field at offset 0 and one beyond it, and
for offsets that wrap. `CallPAGs`, checked together with `MovPAGs`, gives a call pointer
two possible callees and a budget of one edge. `StorePAG` and `ZeroPAG` are the programs of
the findings, and need the five or six pointers they have. No counter of the
solver is unbounded.

`ThreadPrograms` combines four ways main may open (one fork, a loop of known and
one of unknown trip count, two forks), four ways to join what was opened, four
continuations that fork again or call a helper, three thread routines (flat, with
a child it joins, with a call) and three helpers that fork, call or join under a
condition, and adds programs with recursive forks and calls, a thread with
two children, a join in a function of its own, a loop that joins fewer threads than were
forked, and one thread only. `StraightLinePrograms`
is complete: all mains of five items out of two forks, their joins and
accesses. `LockPrograms` combines two or three threads of a routine with twelve
forms of lock section each (under a condition, in a loop, nested, released and
acquired again, a release of the wrong lock) and with sections whose acquire and
release lie in callees, 280 programs. Every program forks through at most three
functions, which is enough for a thread, its child, and a sibling of each.
`MaxThreads` (instances), `MaxIters` (iterations of a loop of unknown trip count)
and `MaxDepth` (frames) bound the run of the program only; the passes are not
bounded. A run of more threads than `MaxThreads` stops at the fork, so the
properties are checked on a prefix of it.

The loops of `MCRace` start with a jump, as the header of a loop is never the entry block.
`DetectPrograms` are five mains (straight, a join under a condition, a fork in a
loop, a fork through a pointer that may be either handle, calls), four routines for
one thread, three for the other, one of which forks itself, and two helpers, in one
session. `LogPrograms` are two small programs in two sessions under six option
sets, from four states of the logs left by older sessions: empty, shared files
known, a method line, one location in both logs. Two sessions are enough for what
one session hands to the next, since a session reads nothing but the logs.

`MCPrograms` of `MCSaber` has 2101 programs. Thirteen shapes of one function
(straight, branches beside and inside one another, a switch of three ways, loops
tested at the top and at the bottom, with a break to the same or to another exit,
with a call of exit in them, with a short and a long way to the loop) are combined
with an allocation in one of the first three blocks, up to two calls of free in the
blocks it dominates, no null test or one of either kind at any branch below, and the
value passed directly, by a copy or through memory. Phis at joins and in loops,
wrappers of free and malloc, a function that returns a new object or its argument
(`reuse`), functions that return their argument (once, twice, and
at the end of a chain of four calls, one more than `CxtLimit`), recursions, dead
functions and globals are added. `MaxVisits`, three entries of a block, bounds the
run only: two turns of a loop, two calls inside a recursion.

`MCSCC` has 512 graphs of four nodes: a path that forks into two ways is fixed, the
other nine edges are free, so there are nested and overlapping cycles, cross edges
to complete components, and self loops. Four nodes are the least for a component
that is closed while an enclosing one is open and has a member on the stack.

## Runs

| run | properties | shows |
|---|---|---|
| `wavediff_mov` | `PendingConstraints`, `CacheHonest`, `PropagatedArrived`, `CopyClosed`, `RepConsistent`, `CallsResolved` | without fields, with and without indirect calls: the four difference-propagation sets stay honest while cycles merge: a load or store that has not seen a pointee is waiting, one that has seen it has its copy edge, what counts as propagated has arrived, and the answer is closed under copies; representatives stay idempotent with inverse sub-node sets; calls are resolved also when the call pointer was merged away, unless the budget is spent |
| `wavediff_field` | `FieldsClosed`, `CollapsedEverywhere` | with fields, variable accesses and the black hole: every field access has its effect in the answer, and a collapsed object has no field left in a points-to set |
| `wavediff_mix` | `TypeOK`, `Precise`, `PointeesNeverLost`, `Terminates` | no points-to set exceeds the field-insensitive solutions of the program, which are computed from the input alone and not from the solver's graph; a node never loses an object it points to, however it is merged or collapsed (an action property); the rounds end |
| `mta` | `TypeOK`, `SingleInstance`, `ParentsInTree`, `FullJoinHolds`, `HBHolds`, `MHPSound`, `ExactOnStraightLine`, `IntraLocksHeld`, `LocksProtect`, `CxtLocksFound`, `AnalysisEnds` | on all three families, analysed and then run in every interleaving: a thread with two instances is marked, every fork has its edge in the tree, a fully joined thread is over when its parent is, threads ordered by happens-before never run together, two accesses at the same time are reported, and on straight lines nothing else is; inside a span the lock is held, accesses under a common lock are never at the same time, the assertion of the lock walk holds; the passes end |
| `race` | `TypeOK`, `RacesShared`, `LogsFollowDetection`, `HeldIsCollected`, `KnownIsKept`, `DetectorEnds` | on both families, each session possibly killed: of two racing accesses one location is found shared, and neither precedes the other in the graph where layout is program order and a handle is for one thread; no session adds a file with a shared location to the log of quiet files, a session that lists shared files lists all of them, lock sets cover the locks held, logs keep what they knew, every session ends |
| `scc` | `TypeOK`, `SubNodesExact`, `CyclesFound`, `NamesComponents` | on every graph, from any root in any order, and again after an edge is added: the search implements `Components` and sub-nodes and cycles are exact |
| `saber` | `TypeOK`, `SliceComplete`, `SliceExact`, `NoLeakMissed`, `NeverFreeReal`, `GuardsMatchRuns`, `AnalysisEnds` | forward slices have the nodes reached with calls and returns matched, defined without contexts by summaries, and are given up for a global among these; where calls nest no deeper than contexts are long they have no others; an object never freed by a run that ends is reported; an object that is freed has come from a source, and the first one is not reported as never freed; a guard is true of the branches of every run that frees there and, without loops, of no other; the analysis ends |
| `wavediff_store`, `wavediff_zero` | `StoreClosed`, `CopyClosed` | violated, see the findings |
| `mta_refork`, `mta_release` | `Parallel`, `LocksProtect` | violated, see the findings |
| `race_same_routine` | `AllRacesShared` | violated, see the findings |

Deadlock is checked in every run. `Stopped` in `MTA`, `Saber` and `RaceDetector`, and a
stuttering step at the end of the others, let a finished analyser or an analysed
program stop; a pass that cannot go on is a deadlock.

Fairness: `FairSpec` of `AndersenWaveDiff` asks weak fairness of `Next` as a whole,
`SCC` of `find`. `MTA`, `Saber` and `RaceDetector` ask the same of the passes, written as
"done or a step again and again" (`[]<>(pass = "run") \/ []<><<TRUE>>_vars`): each
analyser is one thread that nothing blocks, so as long as a step is possible one is
taken, and the deadlock check confirms that one is possible. No fairness between
actions is assumed, so any order of work must end. The analysed program gets none.

## Findings

1. `wavediff_store`: `mergeNodeToRep` (Andersen.cpp:478) unions the points-to set
   of a merged node into the representative but does not push the representative.
   A store through it can end without a copy edge to one of its pointees,
   against the comment of `processStore`. `PendingConstraints` therefore exempts
   nodes that stand for others, and holds for all the rest.
2. `wavediff_zero`: `processGepPts` (Andersen.cpp:288) ignores that the copy edge
   for an access at offset 0 enlarged the field's points-to set. If the field was
   visited earlier in the wave and no later round is asked for, its outgoing
   copies keep something to transfer. Needs an offset that wraps, so that the
   field lies upstream of the pointer.
3. `mta_refork`: `rmInterleavingThread` (MHP.h:153) passes the joining thread to
   `isMustJoin` where the comment of `isMustJoin` speaks of the joined one. A
   single join in main takes a thread forked in a loop out of the interleavings,
   although it waits for one instance. A program that gets there reuses a handle,
   so `MHPSound` exempts it and the finding is about `Parallel`.
4. `mta_release`: at a release `analyzeLockSpanCxtStmt` (LockAnalysis.cpp:318) asks
   `removeCxtStmtToSpan` (LockAnalysis.h:195) for a lock acquired at the releasing
   statement itself, finds none and does not go on. The statements behind a
   release on one of two ways are therefore reached on the other way only, keep its
   locks, and count as protected. No program of `LockPrograms` releases on some ways
   only.
5. `race_same_routine`: reachability in the happens-before graph is reflexive
   (SHBGraph.cpp:38), so `checkNodes` never decides for two threads at the same
   access. Two threads that run one routine race on all it accesses, and the
   locations may be logged as unshared. `RacesShared` exempts equal accesses.

### Disagreements outside the runs

Met while modelling, and kept out of the input families or exempted where said.

Solver and thread analyses:

- A variable access to a single-field object marks it field-insensitive and
  `collapseField` (Andersen.cpp:378) then returns early; the comment at Andersen.h:116
  says fields have been collapsed. `CollapsedEverywhere` exempts such objects.
- With two functions that nobody calls and that reach a fork or join, `build`
  (TCT.cpp:346) makes one node for both, with the start routine of whichever comes
  first by address. If that is not main, nothing of main's interleaving is
  computed: two entries that each fork violate `MHPSound`.
- A start routine that a function without forks and joins also calls: `handleRet`
  (MHP.cpp:302) continues after that call, in the middle of a function that
  `handleNonCandidateFun` asserts to visit at its entry only (MHP.cpp:195).
- `isSameSCEV` (MHP.cpp:928) pairs a fork loop with a join loop when
  the first trip count is at most the second. A trip count that is not a known
  constant is 0, so a loop that forks any number of threads counts as fully
  joined by one that joins two, against "should have same loop trip count" above
  it: `FullJoinHolds` fails on such a program, and `HBHolds` if it forks again behind the
  joining loop.
- `updateSiblingThreads` (MHP.cpp:389) leaves out a sibling that
  happens before the thread without asking that it joined its own children. A
  child that a joined thread left running is not reported with threads main forks
  later: `MHPSound` fails on such a program.
- A thread inherits the locks of the thread that forks it
  (LockAnalysis.cpp:347-362), which it does not hold. No program of `LockPrograms`
  forks inside a section.
- An instruction counts as protected against itself in one context, whatever its
  locks (LockAnalysis.cpp:534 skips equal statements). `LocksProtect` is about
  two different instructions.
- A function called again after a release keeps the locks of its first call, as
  nothing follows a release; a release in the callee of a section is not seen by the
  walk inside a function; a lock acquired in the entry block and released in
  another block is judged conditional; spans keep statements that lost the lock
  (LockAnalysis.h:304-316, against the comment at 65-67).

Cycle detection and race detector:

- `getRepNodes` is said to "get all repNodeID" (SCC.h:161); it lists the
  representatives of several nodes only.
- A location may be logged as an unshared variable although another access at it is
  shared (RaceDetectorBase.cpp:306-313 does not ask). `LogsFollowDetection` is about files.
- A log of unshared files from another program, or another version, is believed.
- A thread pointer that forks two routines keeps the one visited last
  (SHBGraph.h:136), and two forks into one handle are one thread, whose accesses
  are not paired with one another (RaceDetectorBase.cpp:94).
- A function called at two sites returns to both (SHBGraph.cpp:130-141), so
  what follows one call is ordered after what precedes the other: `RacesShared`
  fails on such programs.
- A join waits for every thread its handle may point to (SHBGraph.cpp:174-194), and one that
  is passed on some ways only orders what is behind it in the layout; an access in a loop that forks
  counts as before what the loop forked earlier. Of two racing accesses one is then
  taken to precede the other, and only one location is certain to be found shared.
- `RaceDetectorBase.h` is out of step with the source file (parameters of the
  checks, `checkFiles`), and `module` is read before it is set
  (RaceDetectorBase.cpp:46).
- A line of the shared log without "var:" is compared whole with a name (:337), so
  duplicates are appended; sets do not see it.

SABER (every exemption named was seen to be needed: the property fails without it):

- A function that returns a new object or its argument counts as a wrapper of the
  allocation in it (LeakChecker.cpp, `initSrcs`), so the result of a call of it is a
  source, also where it is the argument. If that object is freed by its first name only, the
  result is reported as never freed although the object it holds is freed.
  `NeverFreeReal` is about the first.
- The search for a guard stops at the first loop header all of whose exits lead to
  the target (PathCondAllocator.cpp:424-427), with the condition found for the
  header so far. With a short and a longer way to the loop the longer one is
  missing: a free that happens has an unsatisfiable guard. `GuardsMatchRuns`
  exempts programs with a join before a loop.
- A node's condition is the disjunction over all edges into it, whatever call they
  come through (ProgSlice.cpp:76, SrcSnkDDA.cpp:147). A function that returns
  its argument and is called on both ways of a branch makes a free of one of its
  results look unconditional. `NoLeakMissed` exempts results that flow to several calls.
- A value that reaches a phi on one of its edges only counts as reaching it always
  when the phi's block post-dominates it; `getPHIComplementCond`
  (PathCondAllocator.cpp:358), written for this, is called from nowhere. A
  leak on the other edge is missed. `NoLeakMissed` and `GuardsMatchRuns`
  exempt objects that are `lost`.
- `isSatisfiableForPairs` pairs a sink with itself (ProgSlice.cpp:107), against "each
  pair of sinks" at line 102: every object with a satisfiable free is reported as freed
  twice. No property is about double frees.
- Ways that end in exit are worth nothing (evaluateProgExit): an object that is not
  freed when the program exits is not reported, and a free on such a way has
  an unsatisfiable guard. The properties are about runs that return from main.
- A branch with three successors has four valuations, so its conditions never add up to
  true and freeing on all three ways is still a partial leak; two edges to one successor
  share the condition of the last (PathCondAllocator.cpp:154, FIXME there).
  `GuardsMatchRuns` says nothing of runs that do not free in programs with
  such branches.
- Guards take a loop once (comment at PathCondAllocator.cpp:433-435), so a run that takes
  a branch both ways has no valuation; `GuardsMatchRuns` is about the others.

## Proofs

`AndersenWaveDiff_proofs` assumes only `ConsGAssumption` and
`WaveDiffAssumption`: the kinds of objects, a field limit per object, offset 0
among the offsets, inputs that are PAGs with no parallel edges, and `Nil` outside
the nodes and edges. Pointers, objects, fields, offsets and inputs are otherwise
arbitrary, infinite ones included.

- `TypeCorrect`: `Spec => []TypeOK`. `TypeOK` alone is not inductive: the handlers
  use `node` and `gep.e` as a node and an edge, and `Tail(frames)` needs a frame.
  The invariant adds that the program counter determines which of these are set,
  that frames below the top return into the collapse loop, and that edges run
  between nodes. One lemma per operation of the graph states that it builds
  edges, one per action that it keeps the invariant.
- `SolverPrecise`: `Spec => []Precise`. For a fixed solution `S` of the input an
  edge is sound if `S` satisfies the constraint it stands for between the objects
  of its ends; merging a cycle is sound because around a cycle of sound direct
  edges `S` is constant. The invariant `PInv` says so of all edges, of all four
  points-to structures, of the representatives, of cycles still to be merged, of
  the handler's partial results and of the frames. The step lemmas follow the
  actions; `MergeSound` and `CycleAllowed` carry the argument.

`AndersenWaveDiff_graph_proofs` builds on the first invariant.

- `RepsConsistent`: `Spec => []RepConsistent`. Not inductive, as a cycle is merged in
  many steps, and a collapse merges fields in between: `GraphInv` adds that the cycle
  being merged still has its nodes at representatives, and that what a frame has left
  to merge are fields of one object.
- `CacheKept`, `PropagatedStays`: `Spec => []CacheHonest`, `[]PropagatedArrived`. A
  promise of the form "there is a copy edge between the representatives" is kept by a
  merge only because `moveEdgesToRepNode` leaves every edge or makes its ends one
  (`CopyMoved`); `PropaInv` adds that what is propagated is in the points-to set,
  and that no address edge is added late.
- `NothingLost`: `Spec => PointeesNeverLost`, an action property, from `GraphInv` and
  the same lemmas.
- `CallsAreResolved`: `Spec => []CallsResolved`. `CallInv` says that the parameters of a
  resolved call are joined at the representatives of its nodes, and that a round
  which is the last has found nothing to resolve.

- `ObjectsCollapsed`: `Spec => []CollapsedEverywhere`.
  A field is still in some set while its object waits to be collapsed, so the invariant
  says who owes which collapse (the queue, or a frame of the stack) and that the reverse
  points-to sets lead `collapseField` to every set that holds a field, through the
  representatives of nodes merged since.

`SCC_proofs` assumes `GraphsAssumption`: edges run between nodes. `SearchInv` says where
every visited node is: on the path of the calls under way, waiting on `SS` below the
representative of a node of the path with which it is mutually reachable, or complete
with all it reaches. Its part `Lowest`, that no child already handled leads to an older
node than the representative, is what makes Nuutila's variant right though only
roots are stacked. From it follow `DetectionTypes`, `SubNodesAreExact`,
`CyclesAreFound` and `ComponentsNamed`, `Spec => Abstract!Steps`: initial states map to
initial states, `completeSCC` to `Name`, the next detection to `Again`, every other step
to a stutter. `Steps` is the abstract specification without its liveness.

The proofs about threads assume `ProgramsAssumption`, which is what LLVM guarantees of a
module: functions end in their return, jumps stay inside the function, calls and forks are
of functions of the module. `Threads_proofs` has the facts of programs, and of the
sequences and folds the passes are written with, that several of them need; and what each
step of a running thread does to the stacks (`StepIs`, `CalledIs`, `ReturnedIs`, `ForkedIs`,
`StartedIs`), with the invariant `Runs`: a frame is behind a call of the function in the
frame above.

The theorems of `MTA` assume `MainAssumption` too: nothing calls or forks main. `build` starts
the tree at the functions without callers (`collectEntryFunInCallGraph`); a main that is
called would not be in it.

- `LocksFound`: `Spec => []CxtLocksFound`, the assertion of the walk that computes lock
  sets. The collection goes from function to function and turns back where no lock is
  reached; the walk goes from instruction to instruction and back out of callees.
  What they share is the shape of a context (`WayTo`): the sites that lead from one cycle of
  the call graph to the next, the first out of an entry function. `LockInv` says that the
  cycles the tree computed are those of the call graph, that what is not on the
  collection's worklist is done (`Collecting`), and that every statement of the walk has a
  context of that shape (`Walking`); `WayInto` and `WayOut` keep the latter over calls,
  forks and returns. That every context of that shape has been collected when the list is
  empty is shown by induction on its length and, inside a cycle, from `reachable` being the
  least closed set (`CollectedInCycle`, `CollectedEverywhere`).
- `ParentsFound`, in `MTA_tree_proofs`: `Spec => []ParentsInTree`. The tree is built from
  pairs of a function and a context in a thread. `TreeInv` says of them that a pair
  off the worklist is done: what its function calls or forks is a pair too (`DoneIn`);
  that a thread has its context and fork site to itself (`OwnKeys`) and hangs below the
  thread of a pair whose context its fork site extends (`ForkedBy`); and that outside of
  recursions a context tells the thread, its part up to the last fork being the thread's
  (`InThread`). `Walked` then follows the running program: every function on a stack
  that leads to a fork is a pair, in the thread and the context that the
  path of the instance gives (`Walk`), and each instance is linked to its parent. The step that
  matters is the fork (`ForkLinked`): the pair of the forking function is done, so the
  forked thread is in the tree; the edge the tree has may come from
  another pair with the same context, and `OneThread` shows that it is in the same thread.
  Inside recursions contexts are merged and this fails, which is why the property exempts
  threads that are marked `incycle`.
- `OnlyMultiforked`: `Spec => []SingleInstance`. A thread that is not marked has a fork site in
  no loop and no recursion, and so have the sites that lead to it (`ForkedOnce`); then nothing
  was cut from its context, which is the whole path of each of its instances (`CxtIsPath`).
  `Once` is what the run adds: of two instances, or two frames, with one such path there
  is one only, since a frame comes to an instruction outside of loops once. This needs
  `LoopsAssumption`: control flow is reducible, so that every jump back is to the header of
  a loop that `LoopInfo` knows. In an irreducible cycle the code would find no loop,
  and would not mark a thread forked there.

`RaceDetector_proofs` adds `LayoutAssumption`: the order of the module names its
functions, and no jump leads to the first instruction, since an entry block has no
predecessors (`comesFrom` asks for the callers there and for nothing else).

- `HeldCollected`: `Spec => []HeldIsCollected`. `CollectInv` joins the analysis and the
  run. `Settled`: an instruction not on the worklist has the set its predecessors
  give it; a visit keeps that because it pushes all whose predecessor changed
  (`PushedCovers`, which fails if the callers of a function that returns are left
  out). `Covered`: what a
  thread holds before an instruction is among what comes in there. Each step of a thread
  carries `Covered` from an instruction to its successor, into a callee or back.

It also assumes `InputsAssumption`: an access has the location of its debug
information or none, and there are two logs. `LogInv` says what is on the disk in each
pass (`Disk`) and where each line in memory comes from (`Lines`).

- `LogsKeepWhatIsKnown`: `Spec => []KnownIsKept`.
- `FilesFollowDetection`: `Spec => []LogsFollowDetection`.
- `RacesStayWatched`, `RacesAreListed`: so `RacesShared` implies that no session declares the
  files of both racing accesses quiet (`FilesQuiet`), and that a session which lists shared
  files lists one of them where shared locations name files (`SharedFilesListed`). `RacesShared` is the
  hypothesis here: it does not hold of every program (finding 5 and the list below
  it), and is checked by TLC on programs outside these cases.
- `DetectorTypes`: `Spec => []TypeOK`; needs that the node before a site and the one
  behind that exist, and that a thread has its routine before a join asks for it.

`Saber_proofs` assumes `ProgramsAssumption` of `SrcSnkDDA`, which is what LLVM and the mapping to SSA
guarantee: one definition per value, an operand of a phi for every predecessor of its
block, branches that stay in their function and never lead to its entry, calls that pass and
return what their callee takes and gives. Programs may have any finite number of blocks and any
recursion, contexts any limit, 0 included, and runs any `MaxVisits`. `AnalysisInv` follows the passes. While a slice is
made every item visited is on the worklist or has been passed on (`Forward`), which rests on
`PropagateAll`: an edge that may be entered is either passed or the slice is given up. So a slice
that is not given up ends closed under the edges its items may pass: `whole`, all of it in the
slice and none a global; and if it met no call of free, `neverSunk`. A report of
never freed keeps the latter for good.

- `SliceLosesNothing`: `Spec => []SliceComplete`. What the value flows to is defined without
  contexts, by summaries of calls. An edge is `good` for a set of items if it leads from every
  context back to an item with an end of that context (`suffix`). A context at its limit has
  lost its oldest calls only, so the return of a call is still let through from any end of the
  context the call was given, and leads to an end of the caller's (`PushedPops`); hence
  summaries of good edges are good (`SummaryGood`), and so are all (`SameLevelGood`).
- `FreedNotNeverFree`: `Spec => []NeverFreeReal`. Before its first source the object is in a
  wrapper and its copies, in one frame (`Wrapped`): a wrapper has no other way out than its
  return, and what comes out is a source or in a wrapper again (`WrappedGoes`). From the source on, if it is
  reported as never freed, every value that holds the object has an item of the source's
  slice whose context agrees with the calls the frame stands on (`Covered`, `fits`), so a call of
  free that gets it would be a sink of the slice. `Framed` says that frames stand behind calls of
  the function above, in functions that somebody calls.
- `SaberTypes`: `Spec => []TypeOK`. The backward slice goes over edges within the forward slice, and the
  conditions are built from guards, so they stay within the valuations. That a run has at
  most `MaxVisits` frames for each function needs frames of one function to be told apart:
  `counts` gives every frame the number of the entry it stands for, recursion included.

TLC found every inductive invariant to hold on the runs, or on smaller instances of them,
before it was proved.

Model-checked only:

- `PendingConstraints`, `CopyClosed` and `FieldsClosed` of the solver hold
  outside the cases of findings 1 and 2 only, so they are no theorems for all inputs; the
  same is true of `RacesShared`, and of `FullJoinHolds`, `HBHolds`, `MHPSound`, `IntraLocksHeld` and
  `LocksProtect` of the thread analyses, and of `NoLeakMissed` and `GuardsMatchRuns` of SABER:
  each fails on programs listed under the disagreements, which the families leave out.
- `ExactOnStraightLine` is about all orders of forks and joins of one family.
- `TypeOK` of `MTA` has not been proved: the invariants above have the parts its theorems
  need. `SliceExact`, that a slice has nothing its source does not flow to, needs in addition that a
  context within its limit is the exact path of calls, and that the summaries have come to
  their fixpoint after as many rounds as there are edges.
- `Terminates`, `AnalysisEnds`, `DetectorEnds` and the liveness of `NamesComponents` are beyond
  the prover.

## Plan

Done: the solver, because everything else reads its answer, with its theorems; the thread
analyses up to locks; the race detector over the same threaded programs; cycle detection
against its abstract specification; SABER's slices and path conditions; theorems of cycle
detection, of the creation tree, of the lock walk, of the race detector and of SABER's slices.
Next, in order:

1. Memory SSA and the value-flow graph; that the removal of actual and formal nodes
   preserves def-use paths.
2. Flow-sensitive solver; contexts and origins.
3. Forks through function pointers: the thread call graph as the solver updates
   it, read by `TCT`.
4. Proofs: that slices have nothing extra where calls nest no deeper than contexts;
   type correctness of the thread passes.

## Not modelled

LLVM IR and its translation into a PAG are the input, as are loops, trip counts
and post-dominance for the thread analyses. Result files, dumps, statistics,
timers, the validators that read test annotations and command line tools are I/O.
CUDD is vendored; path conditions are modelled by the sets their diagrams stand for.
SABER's file checker has the code of the leak checker with other functions; slice
annotation and `testsValidation` are output; value flow through memory over calls is
left to memory SSA. CHA and the type analysis are single passes over types. Of the
thread analyses: `mayHappenInParallelCache`, `executedByTheSameThread`,
`isConnectedfromMain`, `isInSameSpan`, forks through function pointers and
`hare_parallel_for`; the multithreaded value flow is called from code that is
commented out (MTA.cpp:66-102). Of the race detector: `protectedByCommonLock`,
which nothing calls, and indirect calls, which it skips. The remaining analyses are
listed in the plan.
