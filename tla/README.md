# TSAR: models, checks and proofs

TSAR (Traits Static Analyzer) analyses C, C++ and Fortran programs, on the intermediate
representation of LLVM, to find what prevents and what allows their parallelization: data
dependences, privatizable, reduction and induction variables.  It is also the analyser of the
SAPFOR system, which asks it for results over a network connection, and it transforms sources and
inserts OpenMP and DVMH directives.

This directory holds TLA+ models of parts of it, the TLC configurations that check them on small
instances, and TLAPS proofs.  `PROJECT.json` lists the components, runs, mutants, findings, hazards
and theorems, and maps every definition that models code to the lines it models.

    tlc -workers 2 -config MCPrivateAnalysis_Traits.cfg MCPrivateAnalysis
    tlapm DIMemoryHandle_proofs.tla

## 1. The system and its parts

What is modelled is marked with the number of its module in section 2.

**Analysis in a second thread** (`AnalysisServer.h`, `AnalysisSocket.h/.cpp`, `SMStringSocket.h`,
`ServerUtils.cpp`, `DIMemoryAnalysisServer.cpp`, `APC/MemoryServer.h`) [1, 2].  A pass of the *client*, a
legacy pass manager over the original module, starts a *server* thread.  The thread clones the
module and runs a pass manager of its own, which may transform the clone to analyse it better.  The two
managers are fixed lists of passes; notification, wait, release, response and close passes keep
them in step by messages over a socket in shared memory.  State: the position of each thread, the message
under way, the mapping of the client's metadata-level memory to the server's (a shared table of
handles), the cache of the response pass.  Hard: both threads use the memory environment of the client
and the mapping, and nothing but the order of the passes protects them; nobody may wait for a
message that does not come; results are addresses of passes that may be run again.

**Metadata-level memory** (`DIMemoryHandle.h`, `DIMemoryEnvironment.h`, `DIEstimateMemory.cpp`) [3].
A memory location of the source program survives transformations of the IR because its description is
metadata; analyses keep *handles* of it, which follow it when it is replaced and are told when it is
destroyed.  Handles of a location form an intrusive list whose head is in a hash table that moves when it
grows.  Hard: callbacks create, move and destroy handles of the list that is being walked.

**List of array accesses** (`DIArrayAccess.cpp`) [4].  Two intrusive lists with ranges for every scope (loop or
function) and array, filled by a collector in the server, copied by clients, and kept up to date by
callback handles of the arrays.  Hard: every insertion or removal must move all bounds it touches.

**Regions, defined and live memory, private memory** (`DFRegionInfo.cpp`, `ADT/DataFlow.h`,
`DefinedMemory.cpp`, `LiveMemory.cpp`, `PrivateAnalysis.cpp`) [5].  Loops are collapsed to nodes of the
region around them.  A forward problem, solved from the innermost loops outwards, gives what a region
always writes, may write and reads before it writes; a backward one, from the outermost region inwards, gives what
is read later.  From both follows which variables a loop may keep in private copies and how their last
value is found.  No concurrency, but conclusions about every run of every program: a wrong
one is a miscompiled parallel program.

**Sets and ranges of memory** (`MemoryLocationRange.cpp`, `MemorySet.h`, `MemorySetInfo.h`, `DefinedMemory.cpp`) [6].
Inner loops access parts of arrays.  A part is a range of bytes, or a start, a step and a count in every dimension; a
set of parts keeps for each pointer a list to which new parts are joined.  The data-flow problems above meet, merge and
subtract such sets.  State: the lists, grown in the order in which blocks and loops are visited.  Hard:
intersections of ranges with different steps, differences that fall into many pieces, results that may exist but are
not calculated, joins that depend on the order, and the step from a loop to the range it writes.

**Dependence tests** (`DependenceAnalysis.cpp`, the collector in `PrivateAnalysis.cpp`) [7].  For two accesses of an array,
`depends()` finds in which directions and at which distances, loop by loop, iterations may meet; a dozen tests of single
subscripts, and the Delta test, which carries constraints from one subscript to another until nothing changes.  What it
answers is merged, pair by pair, into flow, anti and output dependences of each loop with a least and
a greatest distance.  State: the subscripts that are left, constraints per loop, the answer so far.  Hard: every test has
a boundary at the first and the last iteration, signs and factors are carried from one place to
another, and a direction lost once is lost for good.

**Alias tree** (`EstimateMemory.cpp`, `EstimateMemory.h`) [8].  The memory of a function as a tree: locations with the
larger ones they are parts of (chains), what may overlap in one node, what is covered below what covers it.  All
traits live on its nodes.  State: memory, chains, nodes, forwarding references from merged nodes.  Hard: accesses
come in any order, and each may join chains, add a pointer to a chain and so make everything in it overlap with what
it was disjoint from, and merge nodes up to their common ancestor.

**Other parts of the analyser**, not modelled: the metadata-level twin of the alias tree and the pool of traits that follows
it (`DIEstimateMemory.cpp`, `DIDependenceAnalysis.cpp`); interprocedural versions of the data-flow analyses;
delinearization; the program dependence graph; matchers between sources and IR; containers whose
iterators survive insertions (`ADT`).

**Around it**, not modelled: the network server `tsar-server` and its session with a client; threads that keep a
syntax tree alive when the input is IR (`IRAction.cpp`); parallelization and transformations of sources
(`Transform/Clang`, `APC`), of IR and of Fortran; instrumentation; front ends, pragmas, command line,
unparser, diagnostics.  `PROJECT.json` names all components, each with the reason.

How they interact: `Query.cpp` and `Server.cpp` build the client's manager; it builds the metadata-level alias tree
(which owns the memory), starts the server, waits for the initial mapping, matches the sources, waits for the
analysis, and then its passes ask for results by `AnalysisSocket::getAnalysis` (through
`DIClientServerInfo`).  In the server, transformations make `DIEstimateMemory` rebuild its tree, and handles in
the trait pool, the mapping and the list of array accesses follow.  The traits come from the private recognition
(per loop, from the data-flow results) and from the dependence tests, and are what clients get.

What makes each part correct: section 3 says it for the modelled ones.  For the rest: a rebuilt alias tree keeps every
location that is still there, once; merged traits are the conjunction of what was known of
both; a session answers every request once; instrumented calls nest; a directive is only placed where the traits allow it.

## 2. Modules

| | module | models | state and actions |
|-|-|-|-|
| 1 | `AnalysisServer` | the two threads and their messages | positions in two scripts of passes, request and response under way, handles the server keeps.  `Client*` and `Server*` are the message passes; a pass without messages is described by the shared data it touches |
| | `EpochBarrier` | what the connection promises | points opened and passed |
| 2 | `AnalysisResponse` | the response pass | the cache of the active function, for which function the on-the-fly passes were last run, the last answer as a list of addresses; one action per way to answer, and the loop over the cache address by address (`Looking`) |
| 3 | `DIMemoryHandle` | handles of memory | the fields `mMemory`, `mPrevPair`, `mNext`, the table of heads; construction, copy, assignment, destruction; the walk of a destroyed or replaced location, one action per visited handle |
| | `MemoryHandles` | what handles promise | who watches what, who has been told; no lists |
| 4 | `DIArrayAccess` | the list of array accesses | both lists, the ranges of scopes, arrays and arrays in scopes, the scopes an erase has left with bounds in destroyed accesses (`missed`); `Add`, `Delete`, `Replace` |
| | `AccessPromise` | what clients find in it | a number per array and scope, and whether the promise has ended |
| 5 | `DFRegionInfo` | graphs of regions | operators on a control-flow graph |
| | `DefinedMemory`, `LiveMemory` | the data-flow problems | operators: transfer, meet, solution of one region, collapse |
| | `PrivateAnalysis` | the passes, and then a run of the analysed function | solutions per node, traits per loop; the run: block, next access, in which iteration a location was last written. `SolveUpward`, `SolveDownward`, `Resolve` are the passes; `Call`, `Access`, `Branch`, `Return` the run |
| 6 | `MemoryLocationRange`, `MemorySet` | parts of arrays and sets of them | operators: intersection and difference, `delinearize`, joins, `insert`, `findCoveredBy`, `subtractFrom`, values of data-flow problems |
| | `DefinedRanges` | the data-flow problem of a region over such sets, and a run of it | values of visited nodes, what the region is collapsed to; the run: bytes written in this iteration and since the region was entered.  `Solve` (one node), `Collapse`; `Enter`, `Branch`, `Leave` |
| 7 | `SubscriptTests` | the tests of one pair of subscripts | operators |
| | `DependenceTests` | `depends()` | the subscripts, groups, constraints and the answer, one action per step of the Delta test |
| | `LoopDependences` | what is recorded for the loops | pairs left, answers, dependences per loop and kind.  The iterations that meet are enumerated beside it |
| 8 | `MemoryRelation` | how two locations relate | operators: stripping of levels, relation of locations, the answers of alias analysis |
| | `AliasTree` | the tree | estimate memory, nodes, the location `add()` goes on with.  `Add`, one `AddLevel` per round of its loop, `AddUnknown`; `Find` is an operator |

A module `X_proofs` has the theorems about `X`, and `Recursion` lemmas about recursive functions that three of them need.
What is proved of `DFRegionInfo` is in `PrivateAnalysis_proofs`, which is the only place it is used.

An action is a whole handler.  `AnalysisServer` takes its two pipelines as constants, `MCAnalysisServer`
translates those of the repository; `tsar-server` and the loop parallelization passes have the pipeline of
a query.  Data that no property distinguishes are left out: subscripts, contents of metadata, the text of
messages.  In `DIMemoryHandle` pointers to buckets become stale when the table moves, and whether it moves
is nondeterministic, as is the order in which a hash table is iterated in `DIArrayAccess`.

`PrivateAnalysis` compares analysis and execution.  The functions it analyses and runs are all ways to put accesses
into the blocks of the given graphs; a *may* access either happens or not, branches are taken at will, and a loop with a known
trip count takes its back edge exactly that often.  The run records for every region in which iteration
each location was written; nothing in it uses what the passes computed.

## 3. Runs

Each property has a mutant: a plausible bug in one definition that makes TLC find it violated.

| run | bounds | shows |
|-|-|-|
| `apc_server` | the APC pipeline, with two stages of up to 3 requests (223 states) | no thread receives what it cannot handle; shared data are never used by both threads while connected, and freed before the connection is closed; both threads finish; the threads implement `EpochBarrier`.  The pipeline of a query is a prefix of it.  More requests repeat the loop of one stage |
| `responses` | 6 cloned functions and one without a clone; the widest provider; the clients of both servers, one that asks for a provider as a whole and one that also asks for what nobody has (1,694 states) | answers are for the function asked for unless something was refused, have an address for each thing asked for, in its place, or nothing, and passes are not run again for the function whose results the client holds |
| `handles` | two locations and five handles: two weak, two callback, one asserting; the table may move at any insertion (52,374 states) | the lists stay linked and complete, nothing watches destroyed memory, the program stops only for an asserting handle, and every handle is told exactly once (`MemoryHandles`) |
| `access_lists` | 3 arrays, 2 functions, one with a nest of two loops, up to 4 accesses at a time, any sequence of additions, removals and renamings (352,381 states) | ranges are exactly what scopes and arrays contain; clients find in every scope what was put there (`AccessPromise`).  An erase that empties a scope may stop before it has reached others: these are excepted, and the run of the list ends there |
| `private_traits` | 7 graphs of up to 5 blocks (while, break, conditional, two nests, endless loop, two loops in a row), each block without or with a read, write or may-write of one location, the location local or not, trip counts unknown or known (811,576 states) | what the passes say of a region holds in every run: see below |
| `ranges` | a vector of 6 elements and a matrix of 2 by 2; an `if`, a `while` with unknown and known count, a loop with a `break`; every inner loop reads, writes or may write one of up to eleven parts, strided, constant, given in bytes, not collapsable, of unknown size; differences of at most one piece inside (342,438 states) | what must reach a node was written, what was written may reach it, uses hold each byte read before it is written, intersections and the pieces they leave are exact |
| `count_down`, `lost_may_defs` | an `if`, two parts of a vector | **findings** |
| `loop_dependences` | one loop with every coefficient and offset from -3 to 3, unknown bound or 1, 2, 4 iterations; two coupled subscripts; two loops with one, two and three subscripts; loops beside each other; stencils of three accesses (91,022 states) | independent accesses never meet; directions and distances cover all iterations that meet; constraints hold for them; peeling and splitting breaks what it is said to break; kinds and distances of each loop are those of the iterations that meet |
| `skewed_lines` | one loop, even coefficients | **finding** |
| `alias_tree` | two arrays of two bytes, their elements, an element at an unknown index, two loaded pointers of which all may point to either array; a call that may access everything and one for each array; four accesses and calls in any order (225,654 states; nothing else was found with five, 1,385,846 states) | siblings have no memory in common, parents cover their children, larger memory covers smaller, `find()` covers what was added, no assertion fails.  Next to calls that do not access everything the first and the last are promised with exceptions, see the findings |
| `alias_fields` | the same without calls, with two elements accessed through one pointer | **finding** |

Why the bounds are enough.  A walk of handles needs one handle of each kind, two of the kinds that change lists, and
two locations to move between.  Bounds of array accesses interact between an array and its neighbours in the list and
between a scope, its parent and what follows it: three arrays and four scopes have all of these; four accesses let
three arrays alternate.  The locations of the data-flow problems are scalars that do not overlap, so every equation is
one per location and one location is enough; the graphs have every kind of arc a region can have (exit from the
header, body or latch, from an inner loop, and none).  Iterations beyond the third look like the third: `src`
distinguishes this, the previous and earlier iterations. For ranges, six elements are the fewest in which steps one,
two and three give parts that overlap, interleave, touch and contain each other, and a matrix of two rows has whole
rows, columns, elements and bytes across rows; a node sees at most two parts before a third one, in both orders.  A
dependence test is decided by its coefficients, offset and bound; offsets beyond the last iteration times the
coefficient repeat the answer "too far".  A tree has a case of its own for each relation of a new location to a chain
and to a node (equal, contained, containing, overlapping, disjoint), and for each place a merge may start; two
objects, their parts and two ambiguous pointers have all of them, and four accesses let a merge follow a merge.  Which
locations the pointers refer to in the run is chosen after the analysis, among all that its answers allow.

The properties of `private_traits`, with what would go wrong: `DefsAlwaysWritten` (a variable said to be
always written keeps its old value on some way), `WritesAreKnown` (a write nobody knows of), `UsesCoverReads` (a
private copy is read uninitialised), `LiveCoversReads` (a value is dropped that is read later, after the loop
or after the function), `CopiesAreRight` (the value copied out of a private copy is not the last one).

The models of [6], [7] and [8] are checked in the same way: against the bytes a run of the region writes and reads,
against the iterations that access one element, enumerated (loops without a known bound up to `Horizon`), and against the
bytes the pointers refer to in every run.  Nothing of this uses what the analysis computed.

`CHECK_DEADLOCK FALSE` stands where the program ends: the last passes, a release, `llvm_unreachable`, the return of the
function, all pairs tested, the bounds on accesses.

### Fairness

Only `AnalysisServer` has liveness.  `WF` on each thread: both are threads of the operating system, which runs
a thread that can run, and each pass terminates (analyses of a fixed module).  Requests end by
`ClientRequestsDone`, which fairness of the client does not force by itself; the bound `MaxRequests` does: the
passes of the client ask a finite number of questions.

### Findings

Where the code does not do what its documentation says, with the run that shows it:

- `count_down`: `aggregate()` starts a range at the least value scalar evolution gives for the recurrence, the one after the last
  iteration included, and gives it one element less than the header is run (`DefinedMemory.cpp:364`).
  `for (i = 10; i > 0; --i) A[i]` is said to always write `A[0]` to `A[9]`.  For a loop that tests its condition after the body
  the last element is missing, which is safe for definitions and not for uses.
- `lost_may_defs`: when only a part of a definition reaches the exit of a region, the rest is neither a must nor a may
  definition of it (`DefinedMemory.cpp:1025`), as in the example of the comment before it.
- `skewed_lines`: `exactSIVtest()` explores directions with a step that is not divided by the common divisor of the
  coefficients (`DependenceAnalysis.cpp:1712`); directions are lost, and a loop that carries a dependence is recorded
  to carry none.  With a second subscript the directions left by two tests may have nothing in common, and the
  dependence is disproved: `A[-2*i][-i]` and `A[2-4*i][i-2]` in a loop of two iterations are said to be independent
  and meet in the second one.  (`Independence` fails for the loops of `skewed_lines` with such subscripts.)
- `alias_fields`: the previous element of a chain is only looked for at the first child, and new children are appended
  (`EstimateMemory.h:1283`).  A chain whose smaller end is missed is placed again without it, and nodes beside each
  other have memory in common.

Further ones were found with these modules.  The properties except exactly them, or the bounds of a run keep them out; each can be seen
again by changing what is said:

- `DIArrayAccessInfo::erase` leaves its loop over the scopes at the first scope that accesses only the
  erased array; bounds of scopes it has not reached stay in destroyed accesses (`DIArrayAccess.cpp:235`).  The model has these
  erases and collects such scopes in `missed`; `missed = {}` is not an invariant of `access_lists`.  As what reads
  a destroyed bound next has no defined outcome, nothing follows such a state.
- The handle whose callback copies the accesses may be destroyed by the table the copies are entered into, and is read
  afterwards (`DIArrayAccess.cpp:305`).  The model reads the old array or nothing; then the accesses to the old array
  stay beside their copies, which `AccessPromise` has to permit (`PCopy`).
- Three about calls that do not access all memory, in `alias_tree`.  `addUnknown` asks the calls of an unknown node,
  not its children, whether they conflict with a call (`EstimateMemory.cpp:687`): a location that may be in `x` or
  `y`, a call that accesses `x` and one that accesses `y` give two unknown nodes beside each other, and the second
  call accesses what is below the first (`Apart` without its exception).  `addEmptyNode` moves a node below an unknown
  one without a look at the children there (`EstimateMemory.cpp:834`): after `x`, a load from `y` and a call that
  accesses `x`, a second load that widens the first one to `x` or `y` is put beside `x`, below the node of the call
  (`SiblingsDisjoint` without `Sorted`).  The documentation has no such exceptions (`EstimateMemory.h:22`).  And when
  a pointer is added to memory below an unknown node that may also be memory beside this node, the walk up leaves the
  unknown node, arrives at the top level one and merges nodes of different kinds, which an assertion of the merge
  excludes (`EstimateMemory.h:739`); the code for the unknown nodes it has collected (`EstimateMemory.cpp:590`) can
  never be reached (`failed = ""`).
- `intersect()` leaves pieces of earlier dimensions in the lists when a later dimension has nothing in common, or
  cannot be calculated; the documentation says a list "will not be changed if the intersection is empty"
  (`MemoryLocationRange.h:199`).  The model keeps these pieces (`None(acc.rest)`); `MemorySet` appends the whole
  location besides, so that subtraction only leaves too much.
- "Has trips" is asked of the number of times the header runs, so a loop whose body never runs is
  said to always write what its body writes (`DefinedMemory.cpp:906`).  In `private_traits` with `Counts = {0, 1}`, `DefsAlwaysWritten`
  fails, and uses, live memory and copies with it.
- `isDAG` looks for a cycle from the entry of a graph along arcs that enter a node, finds none in any graph,
  and the iterative solver is never used; in a loop with two entries (a `goto` into it) a use is missed (`GraphUtils.h:132`).  The graphs of
  `private_traits` have natural loops only.
- A server pass may keep weak handles of the client's memory after the client has destroyed its
  environment, which asserts that there are none (`ClonedDIMemoryMatcher.cpp:112`, `DIMemoryEnvironment.h:74`): the maps are destroyed with the
  server's pass manager, after its last message.  `AnalysisServer` ends with the messages.
- A request nobody can answer makes its function the active one with the cache of the previous one; the
  next request for it is answered with results for another function (`AnalysisServer.h:289`).  `RightFunction` holds while nothing
  was refused; the clients in the repository do not send such requests (`NeverRefused`).
- Observed, without a property: parts of arrays are joined without a look at the size of their elements (`MemorySetInfo.h:232`), which
  differs only if one pointer is read with two types; `MemorySet::intersect` (`MemorySet.h:360`) does not report that a location was dropped, which
  only the iterative solver would ask.

## 4. Proofs

TLAPS proves, for all values of the constants that satisfy the named assumptions:

- `AnalysisServer_proofs`, for all pairs of pipelines that satisfy `StartAndClose`, `Matching`, `Disjointness`,
  `DroppedBeforeClose` and `SamePoints` (`AnalysisServer.h` states them as the steps a user of the class has to take; TLC evaluates
  them for the pipelines of the repository): `TypeCorrect`, `MessagesExpected`, `RaceFree`, `SharedDataFreed`.  None is
  inductive.  `IInv` adds that there is at most one message and only while the client is blocked (`Channel`),
  that results are used only while the server listens (`Stage`), that the thread exists from the start pass on, and
  `Lockstep`: the numbers of points passed by the two threads differ by at most the point that is being left.
  With it, what the threads do at the same time is between the same two points, and the assumptions about the
  pipelines apply.  `BarrierImplemented`: the initial states and steps of the protocol are those of
  `EpochBarrier`, or leave it unchanged.
- `AnalysisResponse_proofs`, for all lists of passes and providers: `TypeCorrect`; `AnswersComplete`: the loop over
  the cache, which appends one address after another and clears the answer at a miss, ends with the addresses of all
  that was asked for in its order or with nothing (`LookedFacts` and `LookingFacts`, by induction over the length of
  the request), and the other answers are complete too; and `AnswersRightFunction`: as long as nothing was refused the
  active function is the one the passes were last run for (`CacheIsFresh`).  `NeverRefused`: if every request can be
  answered (`AllAvailable`), none is.
- `DIArrayAccess_proofs`, for all sets of arrays and scopes, all nests without cycles (`Domains`) and any bound: `ScopeRangesHold`,
  `ArrayRangesHold` and `AccessPromiseKept`, all the properties of `access_lists`, without further assumptions.

  `ScopeRanges` and `ArrayRanges` say what a walk between two iterators meets, which nothing can be derived from once a list has changed.
  The invariant `Good` says it with positions: a range `Spans` a set if an access of the list is in the set
  exactly if it is not before the first bound and is before the second one.  With it `Good` says that both lists hold all accesses, none twice, that
  the bounds of every scope span what is `In` it, those of an array what is `Of` it, those of an array in a scope
  what is both, that what has accesses is known and nothing else is, and that the stored parents are those of the program.
  It holds as long as no scope was missed.  `Kept` is what remains of it after an erase that stopped early, and is what every step keeps
  (`AlwaysKept`): the lists, the ranges of arrays, and those of every scope the erase has reached or that had no bound in an
  erased access (`KeptScopes`, `TrimmedSpan`).

  Adding (`AddedGood`): there is a place in each list, after an access of every scope of the nest that is known
  (`PoolPlaced`) and after an access to the array (`SibsPlaced`), and each range that contains the access before the
  place and must not contain the new one ends there.  These are the ranges the two loops over inner scopes find
  (`DIArrayAccess.cpp:161` and `:195`), and ends at this place are the only ones they have to move (`Assembled`).
  Erasing (`ErasedKept`): a list without some elements has the others in their order (`Thinned`), and a range whose
  bounds are moved to the next element that stays spans what stays (`SpanThinned`); `Skipped` and `Closed` move them
  there, the latter because the only range of another array that can end in the erased one is that of the array before
  it.  Replacing (`AllCopied`): every access to the old array is copied once (the model takes them before the loop: a
  copy is put in front of the list or after an access to the new array, never into the range the loop runs over), and
  the copies correspond one to one to the old accesses in every scope (`CopiesKeepScopes`), so that the numbers
  clients see are added up as `AccessPromise` says; if the running handle was destroyed nothing is erased and the
  copies are all that is new (`PCopy`).  `StepPromised` puts the three together.
- `DIMemoryHandle_proofs`, for all sets of locations and handles and all kinds: `TypeCorrect`, `ListsStayLinked`,
  `HandlesFollow`.  The invariant is `Inv`: the links are consistent for all handles (`Linking`), have no cycles
  (`Acyclic`, by a ranking of the handles, so that the iterator never follows itself), a handle watches only what
  exists or is being destroyed (`Watching`), and the iterator is in the list of the walk (`Walking`).  Each list
  operation has a lemma that it keeps the lists `Sane`, moved tables included; each action follows from them.
  `ListsHoldAllWatchers`: a watcher out of the list of its location would have a predecessor that is out of it too,
  and one of all such handles has the least rank.  For what happens during a walk the invariant is strengthened to
  `NInv`: whoever watches the location of the walk is in front of the iterator (`Untold`), or asserts, or has been
  called and is at work or may keep a replaced location (`Told`), whatever callbacks insert, move and destroy
  meanwhile.  From it follow `StopsOnlyForAssert` and `PromiseKept`: `Spec` implements `MemoryHandles`, one lemma per
  operation and kind of handle.
- `PrivateAnalysis_proofs`, for all sets of reducible graphs, all accesses of their blocks, all known trip counts of
  at least one and unknown ones (assumption `Inputs`): `WritesKnown`, `DefsWritten`, `UsesCovered`, `CopiesRight`,
  `ReadsAreLive`, all the properties of `private_traits`.  `Reducible` is what `LoopInfo` gives a pass for code
  without `goto` into loops: nested loops entered by their header, a region without its back edges has no cycle.  Its
  first part has what follows about nests of loops (every block is in one node of each region around it, a branch is
  an edge of the innermost region that contains both ends, or leaves all below it).  Then the invariant `Passes` says
  that the values of solved regions satisfy the data-flow equations; the models' recursive functions have a value
  because a region has no cycle (`Recursion`).  Then the run is compared with the values: `RunHolds` says of each
  region that is run that what must reach the node of the current block was written in this iteration, what this
  iteration has written may reach its end, what an inner loop wrote this iteration wrote, and what must reach the
  latch was written in this iteration or the previous one.  A step may leave many loops at once; that what they are
  collapsed to holds of them is shown from the innermost one outwards (`LoopLeft`).  `DeadHolds` is the argument for
  live memory: what was said to be dead is dead at this point of the block, or was before an inner loop that has not
  written it.
- `MemoryLocationRange_proofs`, for all bounds: `ScalarIntersectionExact` (what `intersect()` finds of two scalar locations is exactly what
  they have in common, and its pieces are exactly the rest of the right one), `ScalarJoinExact` and `RangeJoinExact` (a join of
  two locations, or of two ranges of consecutive elements, has exactly what both have).
- `LoopDependences_proofs` begins with single tests, for all coefficients, constants and bounds.  Let two iterations access the same element.
  Everything a test says of them is true (`Tells`: not disproved, direction, distance, constraint, iterations to peel or to split after) if what was
  known before was: `StrongSIVSound`, `WeakZeroSrcSIVSound`, `WeakZeroDstSIVSound`, `WeakCrossingSIVSound`.
  `SymbolicRDIVSound`: the bounds of two loops never disprove them; `IntersectSound`: the intersection of constraints that hold for them holds.
  There is no overflow in these theorems: numbers are integers.

  From there to the analysis, for all programs of loops with and without bounds and of linear subscripts (assumption
  `Inputs`: every access has the same number of subscripts, coefficients are integers, bounds natural numbers or
  unknown).  The value of a subscript is a sum over the loops of a nest: `Sums` and the lemmas after it say what
  changing, adding and scaling coefficients does to it.  `Propagation` is the result about the Delta test: if
  constraints hold for two iterations, subscripts into which they were propagated are equal for them where the
  subscripts before were.  The invariant (`Inv`, with `Truthful` for its main part) is that iterations that meet
  satisfy the constraints, are equal in the subscripts as simplified so far, and are what the answer says they are,
  unless the dependence is disproved.  Each test is shown to keep this (`FoundBy` for tests of one loop, which leave a
  line, `Keeps` for the others), and so is each action; a loop of the code that runs until nothing changes needs no
  measure for it.  `Typed` holds the shapes of subscripts, groups and constraints, and that choices made by the code
  (the first subscript of a group, the first group, the next pair) exist.  Proved: `ConstraintsAlwaysHold`,
  `DistancesAlwaysExact`, `PeelAndSplitAlwaysBreak`.
- `Recursion` has no model.  It holds what the proofs about array accesses, data flow and dependences have in common:
  a function with a recursion along a relation without cycles exists, a sequence with a recursion exists, a property
  of 0 that is kept by adding one holds of all natural numbers.

Induction needs a remark.  The induction theorems of the library take an operator, which no prover available can
instantiate.  Induction is done with sets in its place: the set of counterexamples, if it is not empty, has a least
element by `NatLessThanWellFounded` or by the finiteness of a set, and that one is refuted.

Model-checked only:

- Liveness (`BothFinish`) and the fairness of `EpochBarrier`: beyond the prover, as is `ENABLED`.
- `Independence` and `DirectionsCover`.  They do not hold for all programs, because of the directions `exactSIVtest()` loses
  (`skewed_lines`, and its consequence in section 3).  The theorems above are about dependences that are not disproved.  What is recorded
  of the answers (`KindsAreRecorded`, `DistancesCover`) rests on directions, too.
- The tests with common divisors (`ExactSIV`, `ExactRDIV`, `GcdMIV`) and `BanerjeeMIV`, beyond the fact that they change
  nothing but directions, or disprove.
- The alias tree: walks along chains and up the tree are `RECURSIVE` operators, for which the prover loses its arithmetic.
- Ranges with steps, and data flow over sets of them.  `count_down` and `lost_may_defs` refute them in general.

## 5. Not modelled

Of the modelled parts:

- More than one server per client; sockets after their server has ended (external library `bcl`).  No pipeline of the repository has
  several servers.
- The contents of the answers; the tables of `LLVMContext` both threads use.
- In `DIMemoryHandle`: handles of different environments, and assignments that the type of an asserting handle forbids.  The debugging
  build is modelled, in which the assertions are compiled.
- In `DIArrayAccess`: subscripts; `clear()`, which has no caller.
- In the data-flow modules: unknown instructions, addresses, results of calls, header accesses, aliases of what is
  written, the propagation of traits over the alias tree, shared and reduction traits.  Whether a location is own
  memory of the function is an input.
- In the range modules: type tags, the left pieces of an intersection, `MemoryCoverage`, and in `aggregate()` the distinction of
  loops inside and outside the region, with the lists of locations that wait for an outer one (`clarify`).
- In the dependence modules: symbolic coefficients and bounds, which turn a test into the answer "all directions"; confused levels,
  pointers that may alias, and calls, for which no test is run; values of inductions after their loop.
- In the alias tree: more than one offset between a pointer and what it is derived from, type tags, the cache of `find()`.

Of the rest, and why:

- The metadata-level tree, its traits and their merge follow the metadata of the debugger through two trees at a time;
  a model that can tell right from wrong has to contain `AliasTree` and the analyses on it, which TLC exhausts only one at a time.  The
  pieces they rest on, handles, the alias tree, what is recorded of dependences and of private variables, are modelled.
- The matchers, the control-flow graph of sources, `CanonicalLoop` and the other analyses of sources translate one syntax tree into
  another; their state is one walk, and what they should do is what the language says.
- Transformations, parallelization, the unparser, diagnostics, readers and writers produce text.
- `tsar-server`, `IRAction` and the sockets wait for the external library `bcl`, of which the repository has no code; the same
  holds for APC.
- Hazards that no property covers are in `PROJECT.json`, each with a note.
