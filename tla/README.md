# TLA+ models of SVF

SVF is a static value-flow analysis framework for LLVM IR. It reads a program,
builds a graph of assignments between pointers (the PAG), computes which
objects every pointer may point to, and runs clients on the result: value-flow
graphs, leak checkers, thread analyses. Everything downstream is wrong if the
points-to sets are wrong, so this project models every kind of points-to solver
SVF has: the inclusion-based (Andersen) ones and the data structures under them,
Steensgaard's analysis, the sparse flow-sensitive solver, the one with versions
of objects, and the demand-driven one; and, of the clients, the leak and
double-free checkers.

SVF runs in one thread and persists nothing the analyses depend on. What makes
its solvers hard is not concurrency but *order*: a work list hands out nodes in
an order nobody chooses, and while a node is processed the graph below it is
rewritten (edges are added, nodes are merged, objects lose their fields) and
each piece of cached knowledge ("this much has been propagated already", "this
object is not new any more", "this query has been answered", "these are the
cycles") may have become stale. Whether
the fixed point that comes out is a solution of the program then depends on long
sequences of legal steps, which the repository's tests (LLVM bitcode in, one
alias query out) exercise one schedule at a time.

## 1. Inventory

| Component | State it keeps | Operations | Interacts with |
|---|---|---|---|
| Work lists (`include/Util/WorkList.h`) | deque + membership set | push, pop, clear, find | every solver |
| PAG and memory objects (`PAG.h/.cpp`, `MemModel`, `LocationSet`) | nodes, base and field objects, `isFieldInsensitive` flag | getGepObjNode, getFIObjNode, setObjFieldInsensitive, memToFieldsMap | constraint graph, all solvers |
| Constraint graph (`ConsG.h/.cpp`, `ConsGNode.h`, `ConsGEdge.h`) | edges by kind, nodeToRepMap, nodeToSubsMap, PWC flags | buildCG, add*CGEdge, re-targeting edges, moveEdgesToRepNode, merge sub nodes | solver, SCC detection |
| Points-to data (`AbstractPointsToDS.h`, `MutablePointsToDS.h`) | ptsMap, revPtsMap, diffPtsMap, propaPtsMap | addPts, unionPts, computeDiffPts, updatePropaPtsMap, clearPropaPts | solver |
| SCC detection (`include/Util/SCC.h`) | per-node info, stamps, two stacks, topological stack | find(), find(candidates), visit() | solver, other graph clients |
| Andersen worklist solver (`WPASolver.h`, `Andersen.h/.cpp`) | work list, objects to collapse, `reanalyze`, call graph | analyze, solveWorklist, processNode, handleLoadStore, handleCopyGep, collapseField, mergeNodeToRep, updateCallGraph | all of the above |
| AndersenLCD | metEdges, lcdCandidates | lazy cycle detection, mergeSCC | overrides parts of Andersen |
| AndersenWaveDiff (the default) | topological stack, round | solveWorklist in waves, postProcessNode | overrides parts of Andersen |
| Other Andersen variants (HCD, HLCD, SCD, SFR, WithType; OfflineConsG; CSC) | offline graph, selective SCC candidates, strides | offline cycles, PWC handling | not modelled |
| Steensgaard (`-steens`) | nodeToECMap, nodeToSubsMap, a points-to set per class | solveWorklist, ecUnion, setEC | uses the constraint graph, WPASolver's work list and SCC detection |
| Memory SSA, VFG/SVFG | regions, partitions, def-use graph | generateMRs, partitionMRs, SSA renaming; connectCallerAndCallee | input of the next four; its construction is not modelled |
| Flow-sensitive solver (`FlowSensitive`, `WPAFSSolver.h`, data-flow half of `MutablePointsToDS.h`) | a points-to set per variable, IN and OUT per location and object, flags for what is new, call graph | processSVFGNode, processStore, propagation along direct and indirect edges, updateCallGraph | SVFG, Andersen's result |
| Versioned solver (`VersionedFlowSensitive`) | version of each object at each location, a points-to set per version, reliances | prelabel, meldLabel, mapMeldVersions, processLoad/Store, propagateVersion, updateConnectedNodes | SVFG, Andersen's result, call graph |
| Demand-driven analysis (`DDAVFSolver.h`, `FlowDDA`) | caches that outlive a query, visited marks, budget, call graph | findPT, handleSingleStatement, reCompute, resetQuery, updateCallGraphAndSVFG | SVFG, Andersen's result as the answer of last resort |
| SABER checkers (`SrcSnkDDA`, `CFLSolver`, `ProgSlice`, `LeakChecker`, `DoubleFreeChecker`) | per source: items visited, forward and backward slice, conditions of nodes | initSrcs, forward and backward traversal, AllPathReachableSolve, reportBug | SVFG, guards of edges |
| Thread analysis (`lib/MTA`: TCT, MHP, LockAnalysis, PCG) | thread creation tree, per-context thread sets, lock spans | build, analyzeForkJoinPair, analyzeInterleaving, queries | not in this commit's build: `lib/CMakeLists.txt` leaves it out |
| ICFG, call graphs; front end | graphs of the program | construction from LLVM IR | not modelled: sequential translation whose correctness is about LLVM's semantics |
| Node identifiers | counters | allocate by strategy | every graph; not modelled |
| Options, ExtAPI, ThreadAPI, Conditions; CUDD | tables; vendored BDD package | look-ups | not modelled: tables and third-party code |

`PROJECT.json` lists the same components with their files and status.

### What is hard, and the properties that make each component correct

*Work list.* Nothing pushed may be lost, an element is queued at most once, and what
was pushed first is popped first. A set beside the deque answers `find()`; the two must
agree after every operation.

*Constraint graph and points-to data.* Difference propagation sends only
`pts \ propa` along an edge. That is sound only if everything in `propa[n]` has
really arrived at the end of *every* edge leaving `n`, including edges that did
not exist when it was sent and edges taken over from another node. Adding a copy
edge and merging two nodes are where this can break.

*Andersen.* When `analyze()` returns, the points-to sets satisfy every
constraint of the program; nothing in them is unjustified; no step loses a
pointee; the loop ends. Hazards: an object is made field-insensitive in the
middle of the loop over a node's edges while its fields are merged only later;
`collapseField` rewrites points-to sets and merges nodes while another node is
being processed; the popped node may be merged away; calls resolved late name
nodes that have been merged.

*Lazy cycle detection.* Cycle candidates and met edges go stale when nodes are
merged; only true cycles may be merged (merging too much keeps the result sound
but makes it imprecise).

*Wave propagation.* The topological order is computed once per round and edges
are re-targeted while the wave runs; copies added at the end of a round must be
propagated in the next.

*SCC detection.* One detector object is asked again and again: nothing of an
earlier search may leak into a later one; edges into closed components must not
touch open ones; the stack of representatives must be topological.

*Steensgaard.* Every node is in one class, and a class has one points-to set.
Unions move a node and the sub nodes it has itself, not the class it is in, and
push one node of a class that has grown. What the inclusion-based analysis finds
must be found, and no more than unification justifies.

*Flow-sensitive solver.* With incremental data (the default) an object moves
only while it is flagged as new, and a flag is cleared by the one handler thought
to be its last reader. A store is a strong update until its pointer gets a second
pointee; call edges appear after the graph was solved without them. The result
must be the least solution of the data-flow equations of the final graph, whatever
the order.

*Versions.* Locations that the same definitions reach share a version, decided
before solving. While solving, statements are told only through versions that
something has changed; a reliance added when a call is connected comes too late for
what its source has propagated already.

*Demand-driven queries.* A query that meets itself on a value-flow cycle takes the
answer it has so far; everything built on that must be found again when it grows,
from inside the queries under way. Between queries the caches must be a fixed
point, also after one was cut off for its budget.

*SABER.* Contexts are cut at a maximal length, marks of one source must not leak into
the next, sinks share what they have visited on the way back, and the condition
of a node may grow after its successors were computed from it. No report may be a
false alarm on the graph, no silence unfounded.

The complete list, each at the line where it bites and with the properties that
would notice, is `hazards` in `PROJECT.json`.

## 2. Modules

```
WorkSet  <--implements--  FIFOWorkList  <-- FIFOWorkListProofs

ConstraintSystem            the input and what a solution is
   ^
ConstraintGraph
   ^
Andersen
   ^        ^
AndersenLCD AndersenWaveDiff   <----- AndersenProofs (all three solvers)
   ^        ^
MCAndersenLCD  MCAndersenWaveDiff   (and MCAndersen; programs in MCPrograms)

SCCDetection  <-- SCCDetectionProofs, MCSCCDetection

ConstraintSystem  <-- Steensgaard  <-- SteensgaardProofs, MCSteensgaard (programs in MCPrograms)

ValueFlow                   the SVFG, call edges found late, strong updates
   ^
   |-- FlowSensitive           <-- FlowSensitiveProofs
   |-- VersionedFlowSensitive  <-- VersionedFlowSensitiveProofs
   |-- DemandDriven            <-- DemandDrivenProofs
   |-- MCValueFlow             small graphs and their least solution
          ^
MCFlowSensitive, MCVersionedFlowSensitive, MCDemandDriven

SourceSink  <-- SourceSinkProofs, MCSourceSink
```

| Module | Code | How state and actions correspond |
|---|---|---|
| `WorkSet` | what `WPASolver` expects of its work list | a set; push, pop any member, clear |
| `FIFOWorkList` | `WorkList.h`, FIFOWorkList | `data_list` (sequence), `data_set`; Push, Pop, Clear |
| `ConstraintSystem` | PAG statements, `isFieldInsensitive`, `getGepObjNode`, `processGepPts` | constants: nodes, objects, base and field maps; `Program`: edges by kind and indirect calls; the predicates that say what it means to satisfy them |
| `ConstraintGraph` | `ConsG.cpp`, `MutablePointsToDS.h`, `mergeNodeToRep` | `rep` is nodeToRepMap, one edge set per kind, `pts`, `propa`, `fi`, `fields` (memToFieldsMap), `pwc`; operators AddCopyEdge, MergeNodeToRep, SCCs |
| `Andersen` | `WPASolver.h`, `Andersen.cpp` | `pc` says which handler runs; one action per handler, or per iteration of its loop: Pop, CollapseObject, CollapseOneField, ProcessLoadStore, HandleCopyGep, UpdateCallGraph, ConnectParam, ... |
| `AndersenLCD` | `AndersenLCD.cpp` | adds `metEdges`, `lcdCandidates`, `merging`; reuses Andersen's actions where the class inherits |
| `AndersenWaveDiff` | `AndersenWaveDiff.cpp` | adds `phase`, `nodeStack`, `order`, `tmpWorklist`, `sccMerges` |
| `Steensgaard` | `Steensgaard.cpp`, `Steensgaard.h` | `ec` is nodeToECMap, `subs` nodeToSubsMap, `pts` by class; one call of ecUnion is one step, the calls a loop is about to make are in `unions` |
| `ValueFlow` | what the solvers read of `SVFG.h`, `VFG.cpp`, `SVFG.cpp`; `isStrongUpdate`, `isLocalVarInRecursiveFun` | constants: variables, objects, nodes, statements; `Program`: edges by kind, and for each target of an indirect call the edges that connecting it adds |
| `FlowSensitive` | `FlowSensitive.cpp`, `IncMutableDFPTData` | `pts`, `dfIn`, `dfOut`, `inNew`, `outNew` are the maps of the data structure; one action per kind of node, then Propagate; UpdateCallGraph, ConnectEdge, NextRound |
| `VersionedFlowSensitive` | `VersionedFlowSensitive.cpp` | `consume`, `versionReliance`, `vPtD` as in the code; `pending` holds the calls that propagateVersion's recursion has yet to make |
| `DemandDriven` | `DDAVFSolver.h`, `FlowDDA` | `pts` and `adPts` are the two caches; the recursion of findPT and reCompute is `stack`; Ask, UseCached, Enter, ..., Update, NextEdge, Return, Answer |
| `SourceSink` | `SrcSnkDDA.cpp`, `CFLSolver.h`, `ProgSlice.cpp`, the two checkers | `visited`, `visitedSet`, `forward`, `backward`, `vfCond` as in the code, `pc` the phase of a source |
| `SCCDetection` | `SCC.h` | `visit()`'s recursion is an explicit stack of frames; `_I`, `_D`, `_SS`, `_T`, GNodeSCCInfo's fields are variables |

`AndersenLCD` and `AndersenWaveDiff` extend `Andersen` as the classes do: what
is inherited is the same action, what is overridden is replaced.

### Modelling decisions

- **Any order.** The work list is a set from which the solver may pop any
  member; `FIFOWorkList` is shown to implement that (`ImplementsWorkSet`), so
  what is shown for any order holds for the first-in-first-out one. In the same
  way loops over edges, pointees or components, which iterate over sets ordered
  by address, hash or bit, take any order, and the root an SCC is merged into
  is any member (it depends on the order of the search).
- **Granularity.** A handler that loops is a sequence of steps, one per
  iteration, because the iterations interact (a merge changes what the next
  sees). `handleCopyGep` is one step: the difference it sends is computed before
  the loop. The exception is a variant gep, which makes objects field-insensitive
  on the spot; `Early` picks the normal geps that were handled before that.
- **revPtsMap** is `{n : f \in pts[n]}`. The code keeps stale entries; they only
  cause extra pushes and extra rounds.
- **Objects.** `Norm` and `Covers` compare points-to sets up to field-
  insensitivity: a field of a collapsed object and the object itself are one.
- **metEdges** forgets edges that were re-targeted, because the code keeps edge
  identities and a re-targeted edge is a new one.
- **Wave order** is any topological order of the edges the detector saw. A merge
  in the middle of the wave leaves the order as it was.
- A PWC node whose base is merged during its own collapse has its pointees
  collapsed too; `collapseField`'s nested call is a refill of `ptsQ`.
- `initWorklist()` is empty in class Andersen (`Andersen.h:266`): what starts the
  solver is `processAllAddr`, which is part of `Init`.
- In `Steensgaard` the loop `for (o : getPts(nodeId))` runs over a bit vector
  that the unions in its body may grow. Which new members the iterator still
  meets depends on where they lie, so any of them may be met or missed.
- `Steensgaard` leaves the constraint graph alone; its work list maps nodes to
  the representatives of the SCCs of the *initial* graph (`WPASolver.h:139-143`),
  so of a cycle only one node, any one, is processed.
- Left out of the Andersen solvers: `heapAllocatorViaIndCall`, reading results from a file, `-diff=false`
  (`diffOpt` is TRUE), `matchType` (TRUE unless overridden), statistics, and the
  handlers for constants beyond `BlkOrConst`/`NonPointer`. The specifications carry
  these two sets and the proofs cover them; in the runs `NonPointer` is empty and
  `BlkOrConst` is {b} in `wave` and empty elsewhere. In the value-flow runs
  `NonPointer` holds the two functions.

Of the value-flow solvers:

- **Which graph.** `FlowSensitive` and `VersionedFlowSensitive` work on the SVFG that
  `SVFGOPT` has made smaller: formal parameters and results are phis, the ActualIN
  and FormalOUT nodes are gone. `DemandDriven` works on the graph without OPT: actuals
  and formals are nodes, and so are memory SSA phis (`head`). The runs of the first
  two also include programs with actual and formal nodes.
- **Objects** are those that the Andersen pre-analysis has left: an object it made
  field-insensitive has no fields here.
- **Granularity.** A node of the flow-sensitive solvers is processed in one step and
  its result propagated in another, as `processNode` does; nothing runs between the
  parts of one. `UpdateCallGraph` adds the edges of all new targets, then each is
  served by a step of its own. `WPAFSSolver`'s SCC order is again "any node of the
  work list": `sccRepNode` is the identity there and all nodes are pushed.
- **Recursion.** Only calls through pointers close call-graph cycles in the programs
  here, so which functions are recursive is a function of `callgraph`.
- **Versions.** A version is the set of the definitions that reach a location; the
  numbers of the code are a renaming of these sets. Delta nodes are the ends of the
  edges that late calls may add. `propagateVersion`'s recursion is taken in any order.
- **Queries.** A store's value and what it lets through are looked for in any order
  unless its pointer has one pointee, when the code's order matters. Looking again
  for one dpm within one frame is one step (the second look finds it visited).
  Edges added while `reCompute` iterates over the edges of a node may or may not be
  met; the recomputation for the call edges serves them. `handleBKCondition` lets every
  edge of a connected call pass and is left out.
- **SABER.** The guard of an edge is computed by `PathCondAllocator` from the control
  flow graph and depends on the edge only: it is part of the program, a set of
  valuations of the branches. Which functions allocate or deallocate, and which are
  dead, is given too. Work lists are taken in any order; once a global is met, any of
  the item's other edges may have been followed. Both checkers' reports come from one
  `ReportBug`. `ComputeIntraVFGGuard`'s special case of loop exits is within the guards.

## 3. Runs

The runs of the Andersen solvers and Steensgaard explore every program of a family
of small ones (`MCPrograms`), with
pointers p, q, r (sometimes s), an aggregate `a` with a second field `af`, and a
scalar `b`; p = &a and q = &b always hold, the other statements are any of the
kinds named. `NumArcs` bounds their number. No bound cuts a behaviour off: the
state of a solver is finite by itself, so each run covers every schedule to its
end. In `steens` `af` is `a`: that analysis has no fields. The runs of the value-flow
solvers take their graphs from `MCValueFlow` (p = &a, q = &b an array, r = phi(p, q) or
a field of p, then statements in a row, a loop or with calls), `saber` from
`MCSourceSink`.

| Run | Programs | What it shows |
|---|---|---|
| `fifo` | lists over four elements | Deque and index agree, the list implements `WorkSet`, no element overtakes another. |
| `scc` | all graphs of three nodes, self-loops included; find() called again and again with any candidates | Components, sub nodes and representatives are right after every call; so is the topological stack; find() returns. |
| `base` | three of copy, load, store, field access; three of copy, store, field and array access; two and an indirect call | Class Andersen returns a solution, without anything unjustified, loses no pointee on the way, and stops. |
| `lcd` | three of all five kinds; two and an indirect call | Lazy cycle detection returns a solution, field accesses included, with nothing unjustified; positive weight cycles are collapsed when it stops. |
| `wave` | two of all five kinds; three of copy, load, store; one and an indirect call with `-merge-pwc=false` | Wave propagation satisfies every copy edge of the final graph, collapses positive weight cycles, invents nothing; the waves, the extra propagation phase and the rounds end. |
| `steens` | two of all five kinds; three copies and array accesses without a cycle; around r copied to p and to q, p to s: two more copies or array accesses without a cycle, or a load | Steensgaard finds all that the inclusion-based analysis does, no more than unification does, and stops; so it does when a node moves twice and is moved again with the class it left first, losing pointees on the way. |
| `flow` | all rows of three statements and all loops of three (store, load through p, r or what was loaded), rows of two with field accesses and without incremental data, calls through pointers, a function that turns out to be recursive | No flag is cleared too early; the result, IN and OUT included, is the least solution of the data-flow equations; the rounds end. |
| `vfs` | rows, loops, branches and joins, walks along pointers, calls through pointers | Versions share without losing: nothing that relies on another version, and no statement, misses a change; the result satisfies the same equations and stays within their least solution. |
| `dda` | rows, loops with memory SSA phis, walks, calls through pointers; two queries, each with 2, 5 or unlimited steps | Caches are closed between queries, answers are those of the flow-sensitive solution (or at most the pre-analysis' after a cut), every query returns. |
| `saber` | a wrapper called twice, a function called from two places, and any two of: conditional deallocations, recursion, a nested call, a loop, an access to a global; contexts cut at 0, 1 and 3 calls | Slices are closed; reports and silence agree with the paths of the graph; every source is dealt with. |
| `wave_late`, `vfs_calls` | see section 5 | expected violations |

Why these bounds suffice for the cases that are hard: two statements already
make cycles, positive weight cycles (p = &p->f through a copy), collapses and
objects pointing to objects; the third makes a copy edge that is added *after*
its source has propagated, an edge re-targeted by a merge, and a node merged
while it is on the work list. For the value-flow solvers three statements in a loop
make a store that is a strong update at first and not later, a load that feeds the
pointer of the store before it, and definitions that meet; the call programs connect
a second call because of what the first one stored. Budgets of 2 and 5 end queries at
different depths, some inside a recomputation; two queries suffice for one to use
what another has left. In `saber` a limit of 0 forgets every call, 1 cuts the nested
ones, 3 keeps all but those of the recursion. Every action of the modules fires in the passing
runs, and every property has a mutant: a plausible slip in the modelled code
(a push forgotten, a propagated set kept when an edge is added, a set united
where it should be intersected) that the run detects. Programs that need four
or more statements are only covered where a run names them.

The properties:

- `SolvedWhenDone`, `NormalGepsSolvedWhenDone`: the final points-to sets satisfy
  each constraint of the *program* (not of the rewritten graph), up to
  field-insensitivity. `CopyEdgesSolvedWhenDone`: they satisfy the copy edges of
  the final graph.
- `PropagatedDelivered`: whatever a node counts as propagated has arrived at the
  end of every copy and gep edge that leaves it.
- `PreciseWhenDone` (Andersen): nothing is in the result but what the field-insensitive reading
  of the program allows. The reference is the constant `Insensitive`, which
  `InsensitiveAssumption` only requires to be a solution of that reading; the runs give
  the least one, computed in `MCPrograms` with no graph rewriting, and TLC checks that
  it is one.
- `SolutionGrows` (Andersen): no step takes a pointee from any node, merged ones included.
- `CyclesCollapsedWhenDone`: what a node on a positive weight cycle points to is
  field-insensitive at the end.
- `SoundWhenDone`, `WithinUnificationWhenDone`: Steensgaard's result lies between
  the least inclusion-based solution and a partition that agrees with the
  statements, the constant `Unified`; the run gives the finest one, which `MCSteensgaard`
  computes from the statements.
- `UnflaggedDelivered`: what a store or load no longer flags as new in IN has reached
  its OUT or its variable; what OUT or a memory SSA node holds has arrived at the end of
  every indirect edge, unless it is about to.
- `ReliantDelivered`, `StatementsNotified`: what a version has, the versions that rely on
  it have; a load or store that has not read all of a version it sees will be
  processed again.
- `LeastWhenDone` (`flow`): the result, IN and OUT and the calls included, is a
  solution of the flow equations and within the constant `Reference`, which
  `ReferenceAssumption` requires to be a solution; the run gives the least one, which
  `MCValueFlow` computes by iterating all equations at once.
- `LeastWhenDone` (`vfs`): the same of the versioned solver. It has no IN and OUT sets;
  `Result` reads them off the versions (what the version has that a location sees, or what
  the edges bring if it sees none). That the result is a solution is stated for programs
  that are `Anticipated` (section 5), that it is within the reference for all;
  `SoundWhenDone` of `vfs_calls` asks of any program only for what must be there.
- `CachesClosed`: whatever the next query takes for answered holds all that follows from
  what it is made of. `AnswersSound`: answers hold all of the least solution. `AnswersPrecise`:
  they are within the constant `Reference`, which the run gives the same least one (after
  a cut, within what the pre-analysis found). A variable answered early is compared again after later queries.
- `SliceClosed`: what was visited has been followed, and what is known at a node is
  known at its successors, or it is in the work list. `ReportsJustified`,
  `SilenceJustified`: reports against paths with matched calls, silence against paths
  with and without matching. The paths of a source are the last of the constant
  `Stages`, each of which extends those before it by one edge until nothing is new
  (`PathsAssumption`); `MCSourceSink` computes them for call strings of up to four
  (`Depth`), and TLC checks that they are what the assumption says.
- `Termination`, `FindReturns`, `QueryAnswered`: the loops end.

`PropagatedDelivered`, `SolutionGrows` and the type invariants of modules with a
theorem need no run of their own for every variant: they are proved (section 4).
The `TypeOK` of `SCCDetection` documents its variables; those of `Steensgaard` and
`DemandDriven` are proved.

**Fairness.** `WF_vars(Next)` on each solver, and for the SCC detector weak fairness
of the steps of a find() under way (nobody has to call it again); likewise in `dda` weak
fairness of the steps of a query under way, while nobody has to ask; nothing stronger: SVF is one
thread in a loop, which keeps executing as long as there is something to
execute. No fairness between work-list nodes is assumed; termination holds for
every order. Deadlock is checked everywhere, a finished solver stuttering in an
explicit final action, except in `dda`: a program may stop asking.

## 4. Theorems

TLAPS proves the theorems below for every finite or infinite set of nodes, objects,
fields, contexts and programs that satisfies the assumptions of the module:

- `SystemAssumption` (`ConstraintSystem`): fields belong to a base object, which is its
  own base; black hole and constant objects are base objects; at most one normal gep
  between two nodes, as `PAG::addNormalGepPE` ensures.
- `ValueFlowAssumption` (`ValueFlow`): edges join nodes of the graph; indirect edges
  leave stores and memory SSA nodes and enter loads, stores and memory SSA nodes,
  those of late calls the latter only; actuals lead to formals.
- `InsensitiveAssumption` (`Andersen`), `ReferenceAssumption` (`ValueFlow`): the
  constants that results are compared with are solutions. Any will do; one is the least.
- `UsesLinkedAssumption` (`ValueFlow`): def-use chains are complete, every use of a
  variable is linked with all that define it.
- `PreAnalysisAssumption` (`VersionedFlowSensitive`): the Andersen pre-analysis covers what
  the reference gives to variables, and a store is the source only of indirect edges for
  objects its pointer may point to, as memory SSA makes them.
- `PreAnalysisAssumption` (`DemandDriven`): read without regard to locations, what Andersen
  found is a solution of the flow equations (`PreAnalysis`); that is how a query over its
  budget may be answered with it. The pre-analysis is AndersenWaveDiff, whose result is
  not always one: `wave_late` ends without what a load or store requires. Where that
  happens this assumption and the one before may fail, and the theorems that rest on them
  say nothing. `WaveSolvedButForAccesses` and `WaveGepsSolved` say of the programs that meet
  their hypotheses that nothing else can be missing.
- `DefinitionsAssumption` (`DemandDriven`): a direct edge leads from a definition to a use
  of it, or between the actual and formal of a parameter; what a query may come to ask for
  has a definition, so that `getDefSVFGNode` answers; variables and objects share no NodeID.
- `SourceSinkAssumption` (`SourceSink`): types, limits are natural numbers, and what an
  allocation defines is not itself a load or store of a global, as
  `SaberSVFGBuilder.cpp:132-163` collects only those.
- `PathsAssumption` (`SourceSink`): determines the paths a report is compared with.
- `UnifiedAssumption` (`Steensgaard`): the constant `Unified` is, for each program, a
  partition with which all statements agree. Any will do; one is the finest.
- `SCCAssumption` (`SCCDetection`): the graphs are sets of edges between nodes.

TLC evaluates each of them on the instances of the runs.

| Theorem | Establishes |
|---|---|
| `AndersenProofs!TypeCorrect` | the state stays well-typed |
| `AndersenProofs!NothingSkipped` | `PropagatedDelivered`: difference propagation never counts as sent what has not arrived |
| `AndersenProofs!NothingLost` | `SolutionGrows` |
| `AndersenProofs!NothingInvented`, `LCDNothingInvented`, `WaveNothingInvented` | `PreciseWhenDone` of each of the three solvers, and the same at every moment |
| `AndersenProofs!SolvedWithoutArrays` | `SolvedWhenDone` and `NormalGepsSolvedWhenDone` of programs without accesses to array elements |
| `AndersenProofs!GepsSolved` | of the same programs `NormalGepsSolvedWhenDone`, whatever the offsets |
| `AndersenProofs!LCDSolved` | `SolvedWhenDone` of lazy cycle detection, for all programs with `-merge-pwc` (the default), without it for those that have no array accesses |
| `AndersenProofs!LCDCyclesCollapsed` | `CyclesCollapsedWhenDone` of lazy cycle detection, with `-merge-pwc` |
| `AndersenProofs!LCDGepsSolved` | `NormalGepsSolvedWhenDone` of lazy cycle detection for programs whose field accesses have one offset, with `-merge-pwc` and `-ff-eq-base` (the defaults) |
| `AndersenProofs!LCDGepsSolvedOrDeclined` | the same for any offsets, but for accesses whose ends were merged with those of another access with another offset |
| `AndersenProofs!LCDNothingSkipped`, `LCDNothingLost` | the same for lazy cycle detection |
| `AndersenProofs!WaveNothingSkipped`, `WaveNothingLost` | the same for wave propagation |
| `AndersenProofs!WaveCopiesSolved` | `CopyEdgesSolvedWhenDone` of wave propagation for programs that are `Plain` (below) |
| `AndersenProofs!WaveCyclesCollapsed` | `CyclesCollapsedWhenDone` for the same programs, with `-merge-pwc` |
| `AndersenProofs!WaveSolvedButForAccesses` | for them too, addresses, copies, resolved calls and collapsed objects, and array accesses with `-merge-pwc`: all of `SolvedWhenDone` but loads and stores, which do fail (`wave_late`) |
| `AndersenProofs!WaveGepsSolved`, `WaveGepsSolvedOrDeclined` | `NormalGepsSolvedWhenDone` of wave propagation, as for lazy cycle detection, for the same programs |
| `SteensgaardProofs!SteensgaardTypeCorrect` | the state stays well-typed |
| `SteensgaardProofs!SteensgaardWithinUnification` | `WithinUnificationWhenDone`, and the same at every moment |
| `SCCDetectionProofs!FindsComponents` | `ComponentsFound`: for every graph and every order of the successors |
| `SCCDetectionProofs!SubNodesCollected` | `SubNodesAreComponents` |
| `SCCDetectionProofs!RepresentativesOrdered` | `TopologicalOrder` |
| `FIFOWorkListProofs!IndexAlwaysAgrees` | deque and index agree, over any element type |
| `FIFOWorkListProofs!WorkListImplementsWorkSet` | `ImplementsWorkSet`: each step is one of the abstract set or a stutter |
| `FIFOWorkListProofs!NothingOvertakes` | `NoOvertaking` |
| `FlowSensitiveProofs!FlowTypeCorrect` | the state stays well-typed |
| `FlowSensitiveProofs!FlowNothingSkipped` | `UnflaggedDelivered`, with and without incremental data, late edges included |
| `FlowSensitiveProofs!FlowSolutionDelivered` | when the solver is done, nothing is left to move along any edge |
| `FlowSensitiveProofs!FlowLeast` | `LeastWhenDone` |
| `VersionedFlowSensitiveProofs!VersionTypeCorrect` | the state stays well-typed |
| `VersionedFlowSensitiveProofs!VersionNothingMissed` | `ReliantDelivered` |
| `VersionedFlowSensitiveProofs!VersionStatementsNotified` | `StatementsNotified` |
| `VersionedFlowSensitiveProofs!VersionsLeast` | `LeastWhenDone` of the versioned solver: within the reference for all programs, a solution for those that are `Anticipated` |
| `DemandDrivenProofs!DemandTypeCorrect` | the state stays well-typed: `findPT` is called only with a location and what it defines |
| `DemandDrivenProofs!DemandPrecise` | `AnswersPrecise`, for every budget and sequence of queries |
| `SourceSinkProofs!SliceTypeCorrect` | the state stays well-typed |
| `SourceSinkProofs!SliceNothingSkipped` | `SliceClosed`, for every limit of the contexts |
| `SourceSinkProofs!ReportsComplete` | what a checker relies on when it reports: all sinks are in the backward slice, with all of the forward slice that leads there, and conditions include what each edge contributes |
| `SourceSinkProofs!LeaksAreLeaks` | `ReportsJustified`, for call strings of any depth |
| `SourceSinkProofs!NothingConcealed` | `SilenceJustified` |

**The argument.** `PropagatedDelivered` is not inductive by itself. The invariant
is `IInv == SolverTypeOK /\ DeliveredInv /\ CollapseInv`:

- `DeliveredInv` adds the types of the graph and `PropagatedWithinPts` (a node
  has not propagated more than it has): without it a merge that intersects the
  two propagated sets could count as sent something the merged node never had.
- `CollapseInv` is what the middle of `collapseField` may rely on: the object
  being collapsed is field-insensitive already, is its own base, and the queued
  fields are fields of it. Replacing a field by its object in all points-to sets
  at once is then invisible up to `Norm`, so nothing delivered is lost.

`AndersenProofs` first proves what the graph operations preserve
(`AddCopyEdgeKeepsDelivered`, `MergeNodeToRepKeepsDelivered`), and that a step that only
enlarges points-to sets preserves it too. It then applies these
action by action; the proofs for the two subclasses reuse its lemmas for the
inherited actions and add their own for those they override.

*Nothing invented.* Every node, edge and pointee stays, up to `Norm`, below what the
reference gives its original node; the hard step is a merge. Nodes are merged only
along cycles of copies and geps, on which the reference is constant because each edge
makes it grow: the members of a component reach each other, so their reference sets
are equal, and the merged node is below the same one.

*Solved.* The converse needs an invariant about what is pending: a constraint that is
not yet satisfied by what a node has leaves that node on the work list, or in the
handler that is running, with the difference not yet propagated; and what a merged node
knew is known, or due, at its representative. For class Andersen that fails with array
accesses. The class detects no cycles; it merges nodes only in `collapseField`, and that
without pushing the node merged into. With p = &a, q = &b, r = &p->field, *r = q, s = r,
p = &s[i] and p = *p, `b` gets into the field by the store; the array access makes a
field-insensitive, the field is merged into a, which now has `b`; but a has been processed,
its copy edge to p (from the load) is not served again, and p never gets `b`
(`MCProgramsThatCollapse`, section 5). `SolvedWithoutArrays` therefore has the hypothesis. Lazy cycle
detection does push; there it is `-merge-pwc=false` that fails with array accesses. With
p = &a, q = &b, copies between p and r both ways, an array access from p to r and a copy
from q to p, the cycle is merged, the access inside the merged node is dropped and the
node flagged as a positive weight cycle, and `b`, which arrives later, is never collapsed:
`LCDSolved` has the hypothesis for `-merge-pwc=false` only.

*Field accesses.* The graph keeps one normal gep between two nodes, so a merge may drop
one. What became of an access of the program is recorded by the graph (`GepInv`): its edge
is there, between the representatives; or both ends were merged, when the offset is 0
(the first field is the object, `-ff-eq-base`) or the node is on a positive weight cycle
and what it points to is collapsed; or another access of the program with another offset
joins the same nodes now (`Rival`), and this one has been dropped. With one offset in the
program nothing has a rival.

*Waves.* A round that leaves `reanalyze` unset must have sent everything, although each node is
popped once and edges are re-targeted on the way. The invariant (`RoundInv`) says so of a
round that nothing has disturbed *so far*: who has something to send is still on the stack
(`WaveSent`), the successors of what was popped come after it (`OrderKept`), and cycles still
to be collapsed are on the stack, too (`CyclesDealtWith`). A merge in the middle of the wave
breaks the order, and it is harmless only because the same step sets `reanalyze`; that
in turn rests on some node pointing to every field that is merged (`PointedInv`). Hence the
hypothesis `Plain`: no field is a node of a statement of its own, so that it gets into a
statement only by having been pointed to, and with `-merge-pwc` no field access leads from a node to
itself, as none does in SSA form. TLC shows that both are needed. With p = &a, q = &b,
a copy from p to q and a field access from p to itself the copy stays unsatisfied; so does, with
p = &a, af = &b, the copy from a field af of a to r when array accesses join p and af
both ways: a is collapsed and af merged with it, and as no node points to af no round follows.
What a round achieves for the edges it achieves for the program, because its statements
are in the graph at all times (`StatementsInv`): a step keeps the edges, merges two
representatives or adds a copy (`EdgesKept`, `RepMerged`, `CopyAdded`), and a resolved call is
queued until its copy is there. From "everything has been propagated, cycles are collapsed"
on, the argument is the one of lazy cycle detection (`SolvedButForAccesses`, `GepsWhenDone`).
Only the handling of loads and stores has no such invariant.

*Least flow solution.* The equations are monotone, strong updates included: whether a
store overwrites depends on its pointer having one pointee, and may turn only from
yes to no. Hence nothing exceeds the reference, and conversely each equation is
satisfied, or the node it belongs to has been told: it is on the work list, being
processed, or its flag is set.

*Versions.* A version is a set of definitions. The invariant bounds it by what these have
in a solution X of the equations: a version holds no more than its definitions have in X
(`Below`), and the definitions in a location's label have no more than X has there
(`LabelsBelow`), because labels are melded along edges and along edges X carries what it
has. Every edge gives a reliance, which leads to a version whose bound is no lower, so
copying along it keeps the bound. What a store lets through is bounded because X gives its
pointer at least as much, and with more pointees a store overwrites no more.
Conversely, when labelling has ended, what the source of an edge yields is in the label of
its end, or that is a delta node with a version of its own (`LabelInv`); so at the end
every edge is a reliance that has been served, has the same version at both ends, or
carries nothing (`EdgesSolved`, which needs `Anticipated` for the delta nodes). With
`StatementsNotified`, and `SolvedInv` for what does not depend on versions, an empty
work list means that all equations hold.

*Queries.* The caches of a demand-driven query grow from within the calls under way, and
what a call has gathered may be older than what the caches hold when it returns. The
invariant `Inv(X)` therefore speaks of every frame of the stack: what it has gathered, and
what it has yet to find, is below what the solution X has for the pair it computes
(`FrameBelow`), and so are the caches (`CachesBelow`). A store is the hard step. Its
frame remembers what its pointer was found to point to, which X may exceed: where X
overwrites the object, its pointer has that one pointee, so a nonempty set found is the
same set, and the query overwrites, too. X is the reference while no query has run out of
budget, and `PreAnalysis` all the time (`Justified`).

*Unification.* Steensgaard's solver forgets unions: a node that is moved to another class
leaves those it was with. What it cannot do is bring together what no partition that
agrees with the statements does. The invariant (`WithinInv`) says so of everything a class is
made of or may yet take in: a node and its class, a class and its sub nodes, the class
being processed and the pointees still to visit, and both sides of each union that is queued,
are in one class of the partition, and points-to sets are within what that class is assigned.

*Components.* A node is open from its first visit until its component is closed. The
invariant of `SCCDetectionProofs` says that older active nodes reach all that is open
and younger, that every open node reaches an active one as old, that what is closed
leads only to what is closed, and (`LowInv`) that the representative of an active node is
as old as anything open that a node visited since leads to, but for successors not yet
looked at. So when a node that represents itself ends, nothing of what is open and
younger leads to anything older: it is a component, exactly what lies above the node on
the internal stack, and no closed component reaches it, which gives the order. TLC
checked the invariant on all graphs of three nodes first.

*Reports.* A cut context is a suffix of the call string of some path, so a path with
matched calls stays within the forward slice, and the condition of the slice includes
its own; what is visited lies on a path that need not match. Both go by induction on the
length of a path. The induction theorems of the library take an operator as a parameter,
which the provers cannot instantiate, but its theorem about minimal elements of
well-founded relations is first-order: from it follows that a set of natural numbers
that is not empty has a least member, and the number of the first stage that breaks a
claim is one.

The other proofs have the same shape. `UnflaggedDelivered` is inductive together
with types and `Control`: OUT flags exist only while their node is being propagated,
which is why `processNode` may end by clearing them all. `ReliantDelivered` and
`StatementsNotified` need only that nothing moves while labels are computed; that a
statement is told in time follows from the completeness of def-use chains, the one
assumption that is about the graph's construction. `SliceClosed` is inductive with
`Untouched` (backward traversal and conditions start from nothing for every source),
and `ReportInv` carries it from the phases to the report.

**Only model-checked:** termination of all solvers (liveness is out of the prover's
reach); `SolvedWhenDone` of class Andersen with array accesses, and `CopyEdgesSolvedWhenDone`
and `CyclesCollapsedWhenDone` of wave propagation for programs that are not `Plain`, which
hold for the families of programs of the runs and not for all; `NormalGepsSolvedWhenDone` of lazy
cycle detection without `-merge-pwc`;
`SoundWhenDone` of Steensgaard, which holds for small programs only (section 5);
of the demand-driven solver `CachesClosed`, which holds between queries only and fails on
the cycles of section 5, and `AnswersSound`, which rests on it.

## 5. Where code and comments disagree

Two runs end with a violation that is expected; `findings` in `PROJECT.json` quotes the
lines they contradict.

- `wave_late`: the wave resolves loads and stores only of nodes whose points-to set
  the wave itself changed; a node that inherits them in an SCC merge may be
  left out.
- `vfs_calls`: the entry of a function called through a pointer that only forwards an
  object to another such call has no indirect edge of its own, `SVFGOPT` having
  removed the one to the call, so `prelabel()` gives it no version of the object; when
  the calls are connected no reliance is set up, and what the caller stored is lost.
  The passing run `vfs` excludes such programs (`Anticipated`).

A third disagreement is a comment's alone. That of `FIFOWorkList::pop` says that it pops
"from the END of work list" (`WorkList.h:156`). The code takes the front (`:160-161`), as
the comment of the class says (`:122-123`) and as `NoOvertaking` requires; the sentence
is that of `FILOWorkList::pop` (`:214`), which does take the end.

TLC also found the limits of the passing runs, programs on which a property fails and
which the families therefore leave out. They are definitions of the MC modules; giving
one to a run's configuration as `Programs`, with the property named, reproduces the failure
(the first with four pointers and `NumArcs = 2`, the second with four and `NumArcs = 1`).

- `MCProgramsThatCollapse` (`Andersen.cpp:475`): after `collapseField` merges a field's
  node into its object's, class Andersen does not push the merged node, and
  `CopyEdgesSolvedWhenDone` fails. `AndersenLCD` does push. `base` therefore has loads or
  array accesses, not both.
- `MCProgramsTwoGeps` (`ConsG.cpp:205`): moving an edge to a representative that has a
  normal gep to the same node with another offset drops the edge, and with it what one
  field access reads: `NormalGepsSolvedWhenDone` of lazy cycle detection fails. The programs
  of `lcd` have geps with one offset only; `LCDGepsSolvedOrDeclined` says what holds with
  several.
- `MCProgramsTwoStores` (`Steensgaard.cpp:66`): `setEC` moves one node between classes
  instead of uniting two classes, so a node united with a second class is no longer united
  with the first, and an object misses what was stored there (`StoresSolvedWhenDone`,
  `SoundWhenDone`). Besides, when a class grows only the node that was named is pushed.
  `steens` stops at two statements in general.
- `MCProgramsCopyCycle` (`WPASolver.h:139-143`): of a copy cycle only one node is ever
  processed, so copies that leave the others are ignored and `SoundWhenDone` fails.
  `steens` has no copy cycles of more than two nodes.
- Lists of sub nodes (`Steensgaard.cpp:59`): a node that moves stays on the list of the
  class it leaves. It is moved again when that class is, and may lose pointees: with
  copies from r to p, from r to q and from p to s, r loses `b`. That points-to sets only grow
  is therefore no property of Steensgaard. These programs are in the run
  (`MCProgramsMoves`): at the end nothing is missing when more copies, array accesses or a
  load come with them. With a store besides, *q = s, something is.
- `MCProgramsRecursive` (`FlowDDA.h:115-127`): the cache of a top-level variable is one
  for all locations, while the visited marks are by location. On a value-flow cycle through
  actual and formal nodes a recomputation can find the variable's set grown by another
  location and stop; what was built on it is not found again, and `CachesClosed` fails.
  `dda` has no such cycles, and no function whose recursion shows only after a strong update
  in it has been relied on.

## 6. Not modelled

- **Other Andersen variants.** Hybrid and selective cycle detection change when nodes
  are merged, `AndersenSFR` how fields are numbered, `AndersenWaveDiffWithType` splits
  waves by type. Merging and propagation themselves are those of `ConstraintGraph`.
- **FlowSensitiveTBHC**, which clones heap objects by their types: a question of naming
  objects through C++ type metadata. `WPASCCSolver` and `WPAMinimumSolver` have no users.
- **ContextDDA**: queries that carry contexts; its solver is the same template, its
  contexts those modelled in `SourceSink`, and the product of both is beyond small
  instances.
- **Construction of graphs**: the front end, memory SSA and regions, VFG, SVFG, SVFGOPT,
  ICFG, call graphs. These are one-pass translations of LLVM IR whose correctness is
  about LLVM's semantics; their results are the constants of the models, and the
  assumptions of section 4 say what is required of them.
- **`lib/MTA`**: this commit does not build it.
- **Node identifiers**: model values here; the numbering strategies are arithmetic on
  counters.
- **Options, ExtAPI, ThreadAPI**: tables. **CUDD**: a vendored package (most of the
  lines of the repository's C code).

### Running

`tlc -config <X>.cfg <M>.tla` with the pairs listed under `runs` in
`PROJECT.json`; `tlapm <M>.tla` for the modules named `*Proofs`.
