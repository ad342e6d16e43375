# coelacanth in TLA+

coelacanth generates random C-like programs. A run builds, one from the other, a *type graph*, a *call
graph*, an assignment of *variables* to functions and a *control graph* (one *split tree* per function), each
in a task that a pool of consumer threads executes. This directory models that system, model-checks the
modules with TLC and proves theorems about all of them with TLAPS, but for the two abstract ones. Paths below are
relative to the repository; `PROJECT.json` gives the lines behind every definition.

## 1. Inventory

| component | code | state | operations | model |
|---|---|---|---|---|
| task system and driver | `tools/coelacanth/`, `include/coelacanth/` | `task_queue`, its mutex, each consumer's `cur`, the futures, the generator of `default_config_` | `push_task`, `push_sentinel_task`, `consumer_thread_func`, `coerunner_t::run*` | `TaskSystem`, `Pipeline` |
| type graph | `lib/typegraph/`, `include/typegraph/` | a graph of types; `leaf_vs_`, `struct_vs_`, `array_vs_`, `pointer_vs_`, `idx_vs_`, `perm_vs_` | constructor: seed, split, unify, pointers, bitfields, permutators; random getters; analysis of access | `TypeGraph` |
| call graph | `lib/callgraph/`, `include/callgraph/` | a graph of functions; `leafs_`, `non_leafs_`, `comps_`, `inds_`; metastructure and types of functions | constructor, in the order of its head comment | `CallGraph`, `Signatures` |
| variable assignment | `lib/varassign/`, `include/varassign/` | `vars_`, `globals_`, `func_vars` of every function | constructor: globals, `create_function_vars`, `process_var` | `VarAssign` |
| split tree, control graph | `lib/controlgraph/`, `include/controlgraph/` | adjacency lists, `parent_of_`, `desc_of_`, `bbs_`, variables of vertices | seeds, `do_split`, `assign_vars` | `SplitTree` |
| configuration | `lib/config/`, `include/config/` | options and one random generator | `read_global_config`, `get`, `rand_from`, `from_probf` | `Config` |
| semitree | `include/utils/semitree*.h` | a tree of linked nodes with a sentinel per branch; iterators | insertion, both iterators, conversions | `OrderedTree`, `SemiTree` |
| indented streams | `include/utils/indent_ostream.h` | level, spaces still to be written | `put`, `increase_level`, `decrease_level`, `reset` | `IndentStream` |
| debug stream, dumps, build files, tests | | none that the program reads | output | not modelled |

How they interact. The driver creates a task with the *values* of the futures it depends on, so a component
never sees an unfinished one; finished graphs are shared read-only by `shared_ptr`. There are exactly two
pieces of shared mutable state: the task queue (under a mutex) and the random generators inside
configurations (each drawn from under its own lock). Everything inside a constructor is sequential, but
random: every draw is a choice of the environment, so what has to hold is that *no* sequence of draws breaks
the structure.

What is hard in it, per component, and what makes it correct:

* **Task system.** Interleaving of main and consumers; one sentinel that must end all consumers; exceptions in
  tasks nobody waits for at that moment; reproducible seeds although scheduling is not. Correct when no task
  is lost or run twice, none starts before its inputs, the sentinel is seen last, seeds do not depend on the
  schedule, every exception ends the program, and the program ends.
* **Type graph.** Sets by category that are kept by hand while vertices change category; unification that
  swaps edges; pointers that may point anywhere. Correct when the sets follow the graph, types stay finite and
  within the nesting limits, unification changes no type, and the getters' assertions hold.
* **Call graph.** Analyses computed once and used after the graph has changed; components and heads. Correct
  when each component has one head, components stay apart, leafs stay leafs, direct calls form a tree, and
  what is called through one pointer has one type.
* **Variable assignment.** Ids handed out by the size of a vector that several helpers extend; nested types
  served through a queue. Correct when every array and pointer in a variable is served and no variable is
  shared or lost.
* **Split trees.** Five containers describing one tree, updated separately. Correct when they agree after any
  sequence of splits, containers have the shape their category needs, breaks stay in loops, and the calls that
  are always executed are those of the call graph.
* **Configuration.** Options read one after another into a registry of defaults; ranges and probabilities at
  their boundaries; one generator for many threads. Correct when nothing is refused without a cause, no list of a
  wrong length gets in, every answer is one that was asked for, as often as was asked for, and no number is given
  out twice. That a range with one bound is refused, too, is documented and does not hold (section 3).
* **Semitree.** Links kept by hand, iterators kept across insertions. Correct when the rings of links stay
  whole, `++` and `--` undo each other, and the walk is that of an ordered tree.
* **Indented streams.** An indentation kept apart from its level, over a sink that fails. Correct when no line
  is indented twice, too far, or after its first character, and each gets what both levels ask for when it is
  started. The last part has an exception in the code that its comment denies (section 3).

`PROJECT.json` lists every hazard at its line with the properties that would catch it.

## 2. Modules

| module | what it is |
|---|---|
| `TaskSystem` | Queue, mutex, consumers, futures, seeds and the driver's four levels. One action per critical section or step between two of them: `main_lock`/`consumer_lock` take the mutex, the push and pop actions end the critical section, `invoke` settles a future with a value *or* an exception, `*_get` are the blocking `get()` calls, `get_rethrows` is the one that ends the program. What a task computes is abstract. |
| `Pipeline` | The abstract specification: a plan of tasks is carried out in an order that respects inputs, each is settled once, the program finishes or aborts. No queue, mutex or threads. |
| `TaskSystemProofs` | Theorems about `TaskSystem` for any consumers and bounds. |
| `TypeGraph` | The constructor of the type graph, one action per helper or loop turn (`seed`, `do_split`, `unify_structs`, `unify_arrays`, `process_pointer`, `create_bitfields`, `choose_perms_idxs`), with the ways in which it can fail. A type is its category, scalar and number of elements. `acc_` is the closure that `type_analysis_t` computes of a finished graph. |
| `TypeGraphProofs` | Theorems about `TypeGraph` for all option values. |
| `CallGraph` | The constructor of the call graph up to the choice of indirect functions; `boost`'s search is a recursive function, its disjoint sets are reachability. |
| `CallGraphProofs` | Theorems about `CallGraph` for any random graph, of any size. |
| `Signatures` | Metastructure and types of functions: the last two steps of that constructor. A type is what `check_type` looks at. |
| `VarAssign` | The constructor of varassign for a fixed type graph and fixed functions: one action per variable, or per turn of a loop in `process_var`. |
| `VarAssignProofs` | Theorems about `VarAssign` for any type graph, functions and options. |
| `SplitTree` | Growth of one split tree and assignment of variables to its vertices. `tree` holds `adj_`, `parent_of_`, `desc_of_` and `bbs_`; `do_split` is one action, because nothing can observe its middle. A call knows its callee. |
| `SplitTreeProofs` | Theorems about `SplitTree` for all option values: the tree, and what splits may never do to one that is already there. |
| `SignaturesProofs` | Theorems about `Signatures` for any functions, metastructures and types. |
| `Config` | Reading the command line, one option per step, and the calls of `get` by any number of threads, whose critical section (`rand_from`) is one step between two others. What is given on the command line is data, a registry of options a constant. |
| `ConfigProofs` | Theorems about `Config` for any registry, command line and threads. |
| `OrderedTree` | The abstract specification of the container: lists of children, and a caller that walks, inserts and keeps a position. No links. |
| `SemiTree` | The container: `prev`, `next` and `parent` of every node and sentinel; an iterator is a pointer and a `visited` flag. One action per operation of a caller that holds an iterator. |
| `IndentStream` | Two filters, one above the other, over a sink that may fail; one action per character, taken or not, and per change of a level. |
| `UtilsProofs` | Theorems about `SemiTree` for any nodes and about `IndentStream` for any widths. |
| `MC*` | Values of constants for TLC. `MCSideBySide` also puts four modules into one run, see below. |

Names are the code's where TLA+ allows it. A definition introduced by "Mutant" is a plausible wrong version of
the one named after it: it occurs in no specification, and shows that a property can fail. Composition is by
assumption: `Signatures` and `VarAssign` take type graphs as constants, with ASSUMEs that state what
holds of those that `TypeGraph` finishes, and theorems of `TypeGraphProofs` are there for it: every size of array
can be permuted, an array or pointer has one child, a pointee is no pointer (without `TG::MORESCALARS`), there is
an integral index type (`GettersAreDefined`), nothing is a part of itself (`TypesAreFinite`), and what is not a
scalar is stored in one structure or array (`PartsAreStoredOnce`).

## 3. Runs

All with two workers, none longer than two minutes.

| run | question | bounds, and why they are enough |
|---|---|---|
| `tasksystem_safety` | can any schedule, option or failure lose, double, hurry or reseed a task; is `Pipeline` implemented | 3 consumers (two pass the sentinel on, one ends), up to 3 assignments of 2 control graphs: every loop runs 0, 1 and more times. Consumers are symmetric. |
| `tasksystem_liveness` | does the program end, do exceptions surface, is the fair `Pipeline` implemented | 2 consumers, up to 2 by 1 tasks, no symmetry |
| `splittree` | is the tree sound after any splits | 3 splits: a container in a container in a container, or siblings between them; functions of up to 2 callees, those of 2 with 2 splits (`Small`), so that there is an order of calls to keep; 0 or 2 added blocks; ifs of 2 branches |
| `callgraph` | is the graph sound for any random graph | up to 4 functions, 4 random edges, one added leaf, one self-loop: two components of two, one of four, a cycle without a head |
| `typegraph` | are types sound for any splits, does the analysis of access find all and no more | one seed and 3 splits, which nest to depth 3, with limits of 1 array, 2 structures and 2 in all, so that each limit is met; `TG::MORESCALARS` with 2 splits; 2 scalars, one a float |
| `varassign` | is every variable served and owned | 2 globals, 2 functions; a structure with an integer, an array and a pointer to itself, an array of pointers; the limit on permutators met for the first array and passed for the second |
| `side_by_side`: `SemiTree` | is the container an ordered tree for whoever holds an iterator | 3 leafs and 2 branches besides the root: empty, single and full rings, a branch in a branch, an iterator at every end; nodes of a kind are symmetric |
| `side_by_side`: `IndentStream` | is a line ever indented twice, too far or too late, and when by too little | 2 streams of widths 1 and 2, levels up to 4 spaces; a sink that fails at any character |
| `side_by_side`: `Config` | what is refused, and what may `get` answer, how often | one option of each kind, up to two of them given, with values below, at, inside and above their bounds, functions of wrong length, of equal entries and of none; 2 symmetric threads, 2 draws |
| `side_by_side`: `Signatures` | do types of functions conform | 3 functions, so that two are indirect and one is not; each flag alone, none and all; type graphs with and without an unsigned integer |
| `typegraph_leafs`, `varassign_globals`, `splittree_branches`, `config_bounds`, `indentstream_levels` | disagreements, below | the smallest instance that shows them; `splittree_branches` with the default options |

`side_by_side` is one run of four small modules that share no state. One of them, chosen at the start, moves while
the others rest in an initial state, so TLC visits as many states as the four have together (306755, of which 6786
are trees, 45666 streams, 19398 configurations and 234905 signatures), and each module is explored as if alone.

Named bounds. `MaxVar`, `MaxSplits` (task system) bound `PG::VAR` and `PG::SPLITS`; `MaxCallees`, `MaxSplits`
(split tree) the callees drawn and `MS::SPLITS`; `MaxEdges` and `Loopers` (call graph) the random edges and
self-loops; `MaxBitfields` (type graph) the fields that get a size; `PermBound` (variables) how often
`VA::USEPERM` says yes for one array; `MaxDraws` (configuration) the numbers drawn, `MaxGiven` the options
given at once; `MaxSpaces` (streams) a level. Two state constraints cut runs, not specifications: `Small`
above, and `Bounded` in `MCIndentStream`, which ends a line of which nothing but ever more spaces comes out.
No bound but these restricts what the code can do; other constants are values of options.

What the passing runs show:

* **Task system** - `NothingLost`, `SentinelLast`, `CleanShutdown`, `SeedsReproducible`;
  `ImplementsPipeline` (which includes that no task is handed out before its inputs exist, and none settles
  twice) and, under fairness, `ImplementsFairPipeline`, `Termination`, `ExceptionsSurface`.
* **Split tree** - `TreeWellFormed` (parents and child lists agree), `BlocksTracked` (`bbs_` is the set of
  blocks), `ContainersShaped` (no container is left half made: what is a leaf has no children, an if has as many
  branches as its option says, and the branches are below what branches and nowhere else), `BreaksInLoops`,
  `DirectCallsKept` (the unconditional calls stay those of the seeds, in order, outside of every container),
  `GrowsOnly` (a split adds vertices and turns only blocks),
  `FaultsExplained` (the two divisions by zero need options, or functions, of a known kind).
* **Call graph** - `AssertionsHold` (each `assert` in the constructor, but for the cases the model
  lists), `OneHead`, `ComponentsApart`, `LeafsStayLeafs`, `DirectTree`.
* **Type graph** - `SetsTracked`, `FiniteTypes`, `NestingBounded`, `FieldsKept`, `GettersDefined`, and
  `AccessExact` of the analysis: one pass of the closure finds everything that can be reached through members,
  elements and pointees, cycles included, and calls direct only what is.
* **Signatures** - `SignaturesConform`, `IndirectAlike`.
* **Variables** - `SubtypesServed`, `OwnedOnce`, `PermutatorsFit`.
* **Configuration** - `RefusedForCause` (reading stops for what its two messages name only, and always for a list of
  wrong length), `Honoured` (an answer is the value, or one of the range or of the possible entries, that was asked
  for; a flag is 0 with no chance and 1 with more than there are, and nothing is said of one with exactly all),
  `ChancesAsWritten` (an entry is picked for as many numbers as its weight), `EachNumberOnce`.
* **Semitree** - `LinksMatch`, `StepsUndo`, `ImplementsOrderedTree`.
* **Streams** - `IndentedOnce` (what came out before the first character of a line is never more than the levels ask
  for, and not less unless the line is *late*: a level changed after the newline while its stream owed nothing, being
  at level 0), `LeadingOnly`. Lines are *torn* and left out when a level changed while a part of the indentation was
  out already, which takes a failing sink, or by `reset`.

### Disagreements between code and its documentation

Five have a run that TLC refutes and an entry under `findings`:

* `TG::MORESCALARS` may put a pointer into `leaf_vs_`, which consists of scalars only (`typegraph.cc:403`;
  `typegraph_leafs`).
* Globals are chosen by the number of the variable instead of its type (`varassign.cc:168`; `varassign_globals`).
* A switch or region takes its number of branches from the option for ifs, 2 to 6 by default, and nothing reads
  `CN::NBRANCHES_SWITCH`, 6 to 10, or `CN::NBRANCHES_RGN`, 4 to 7 (`splittree.cc:144`, `options.h:265`;
  `splittree_branches`). The passing run does not say how many branches these have.
* The error for a bound of a range given without the other cannot occur: each has a default, which `vm.count`
  counts, so the other one is always there (`configs.cc:168`; `config_bounds`).
* A level raised from 0 right after a newline does not count for the line, which the comment at `indent_ostream.h:43`
  wants (`indentstream_levels`): nothing is owed at level 0, and `correct_spaces` takes that for a line whose
  indentation is written. A level that was not 0 before is followed. This is what makes a line late.

The others were met while modelling; the modules do what the code does:

* More functions than `CG::INDSETCNT` become indirect: the `break` leaves the inner loop only (`callgraph.cc:418`).
* Components are ordered by their number of heads where the comment says by size (`callgraph.cc:357`).
* Iterators over callees ignore their mask, as a comment admits (`calliters.h:36`): conditional edges and
  self-loops are called directly too, and `random_callee` draws from the same list whatever the type of call.
* `-no-x` is stored under a name that nobody reads; the value of `x` stays its default (`configs.h:44`).
* A probability of m of n is true for m of n + 1 numbers, so with m = n a flag may still be 0 (`configs.cc:261`,
  `configs.h:70`). `Honoured` therefore claims 1 only for m > n.
* All `varassign` tasks draw from the generator of one type graph, although each packaged task is said to have
  its own configuration (`configs.h:5`): which task gets which number depends on the schedule.
* `reset` of an indented stream puts its level to 0 and leaves the old one owed (`indent_ostream.h:88`).
* `has_direct_access` may say no where there is a direct way: an entry once found by way of a pointer is never
  upgraded (`typean.h:60`). `AccessExact` therefore claims the other direction only.

### Fairness

`FairSpec` of `TaskSystem` has weak fairness of every thread: the operating system schedules runnable threads,
and each thread runs straight-line code between blocking calls. It also has *strong* fairness of taking the
mutex. The code polls: a consumer that finds the queue empty yields, unlocks and locks again, so the mutex is
free infinitely often but never permanently, and weak fairness would allow main to starve. The C++ standard
does not promise a fair `std::mutex`: termination holds on the assumption that the implementation is fair in
the long run. At least one consumer is assumed too (nothing rejects `PG::CONSUMERS` 0; see the hazards). The
sequential modules state no liveness: each action finishes a helper or takes a counter or a queue down, and
threads that draw from a generator hold its lock for one draw.

## 4. Proofs

`TaskSystemProofs`, for any finite or infinite set of consumers, any `MaxVar` and `MaxSplits`, from
`ThreadsAssumption` and `BoundsAssumption` only.

* `Invariance`: `Spec => []IndInv`. `NothingLost` and `SentinelLast` are not inductive: that a task is in one
  place needs that its future is pending exactly while it is somewhere, which needs to know which tasks main
  has submitted. `IndInv` therefore says, as a function of where main is, which tasks are `Submitted` and
  which are `Collected` (`Results`), what the counters are (`Progress`), who holds the mutex (`Locking`), what
  consumers hold (`Holding`) and that a task or the sentinel is in one place (`OnePlace`), and in some place
  exactly while it should be (`SomePlace`). One lemma per action shows that it preserves `IndInv`; lemmas about
  appending to and taking from a sequence without repetitions carry the queue.
* From it: `TypeCorrect`, `NothingIsLost`, `InputsAreReady` (no task is with the consumers before its inputs
  have values), `SentinelIsLast`, `ShutdownIsClean`, `SeedsAreReproducible` (with an invariant about the number
  of draws), `ResultsAreFinal` (no result changes), and `Refinement`:
  initial states of `TaskSystem` are initial states of `Pipeline` under `plan <- Planned(opts)`, `status <-
  future`, and every step is a `Pipeline` step or a stutter.

`SplitTreeProofs`, for any option values, from the module's assumptions.

* `Invariance`: the inductive invariant is that the tree is typed and well formed, that `bbs_` is the set of
  blocks, *and that no block has children*. The last part is what makes the others inductive: turning a block
  overwrites its list of children, which loses vertices unless the list is empty.
* From it: `TypeCorrect`, `TreeStaysATree`, `BlocksStayTracked`, `FaultsAreExplained`.

On top of that invariant, the module says what splits do to a tree that is already there.

* A split is an edit of one list (`Widened`, siblings behind the block) and of one block (`Turned`, with fresh
  vertices below it). Each is shown to keep what was there (`Kept`: `Grown`, no new direct call, and `Shaped` if
  it held before); `Grown` composes because embedding of a list in another is transitive.
* `GrowthInvariance` adds `Shaped`, `Directs` and `BreaksLooped` to the invariant. `DirectCallsKept` alone is not
  inductive: that no second call of a callee becomes direct needs to know which vertices the direct calls are, and
  that their order survives needs the pairs of positions that embedding carries along. `BreaksInLoops` asks a
  recursive function along the path to the root; `HaveLoop` unfolds it once, which takes that its equation has an
  answer at all (`AnswersExist`: parents are older), and `LoopsKept` shows that a split takes no loop away from a
  vertex (the least one to lose it would have a parent that lost it before).
* From it: `ContainersKeepShape`, `DirectCallsStay`, `BreaksStayInLoops`, and, from `Invariance` alone,
  `SplitsOnlyGrow`.

`TypeGraphProofs`, for any options, from the module's assumptions.

* `CoreInvariance`: `SetsTracked` is not inductive. A helper picks a vertex of a set and trusts its category, so
  the sets must agree while edges and categories change. Where edges lead is `Directed` (none from a scalar or an
  open pointer; from a container to a newer vertex or a scalar); which vertices have one predecessor, and until
  when, is `Unshared`; arrays and processed pointers have one child (`Sons`); `Chosen` is what is drawn for indexes
  and permutators.
* From it: `SetsStayTracked`; `GettersAreDefined`; `TypesAreFinite` (a type consists of newer vertices and of
  scalars, so it is no part of itself); `FieldsAreKept`, a property of steps: what unification replaces is a
  bijection that keeps types (`UnifySwaps`).
* `parts`, `above`, `around` and `reach` are recursive functions that repeat a step as often as there are vertices.
  `Saturates` shows that this is enough, so each is the least set closed under its step (`Closure`), and the rest of
  the proof uses nothing else.
* `NestingStaysBounded` bounds the containers above a vertex. While the graph splits this is about `above`;
  permutators and pointers come after the last split, and the proof then keeps any function that bounded the
  nesting before (`Nested`).
* `PartsAreStoredOnce`: unification shares scalars only, so structures, arrays and pointers have one container
  even in the finished graph. `VarAssign` needs it to name a pointee by the variable and the pointer's type.
* `AccessIsExact`: after round `k` of the closure, `Halfway` says what paths through the first `k` vertices find;
  the last round is all paths (`AccComplete`), and no round finds what no path leads to.

`CallGraphProofs`, for any number of functions, any edges and self-loops, from the module's assumptions.

* `CoreInvariance`: phase by phase, that edges stay inside the graph (`Typed`), that a random graph has no
  self-loop and a head (`Ordinary`), that leafs are what calls nobody but itself (`Leafs`), that the components are
  closed under edges, disjoint, and hold one head each, and every head (`Parted`), and that the direct edges reach
  what all edges reach, with one edge into each function but the root (`Spans`).
* Components are the classes of reachability either way (`Components`), taken in an order without repetitions
  (`Orders`). The breadth-first search is the recursive function of the model: `Found` is what holds between two of
  its steps (no function is queued twice, each but the root was entered by one tree edge, the tree leads to all of
  them), and `QueueFits` says that as many turns as there are functions empty the queue.
* From it: `AssertionsAlwaysHold`, `LeafsAreLeafs`, `ComponentsHaveOneHead`, `ComponentsStayApart` and
  `DirectCallsAreATree`.

`SignaturesProofs`, from the module's assumptions; its only assumption about type graphs that the proofs use is
that they hold types.

* `Invariance`: what was drawn for one indirect function is given to the others unchecked, so the invariant
  has to say that they share their metastructure, and get it at the same time (`MetaShared`), before it can say
  that the shared signature is one that `gen_params` may return for each of them (`Stages`, `Drawn`).
* From it: `TypesConform` (by the lemma `AcceptedConforms` on what `accept_abi_type` lets through) and
  `IndirectsAlike`.

`VarAssignProofs`, for any type graph, functions and options, from `TypesAssumption`, `FunctionsAssumption` and
`OptionsAssumption`.

* `Invariance`: `IndInv` says whose the variables are (`Owned`: what a function has it has once and for one
  purpose, maps have keys among what is served and different values, functions share globals only), what the
  permutators are (`AllPermuted`), that whatever a function has is served (`AllServed`) but for the variable that
  `process_var` is in, and how far that one is (`InProcess`), and, per phase, what the next one relies on (`Stages`:
  a function to come has nothing, a global in the loop is not chosen yet).
* `SubtypesServed` is only about finished functions. What carries it through the loop over `chlds` is `Halfway`: the
  subtypes that were looked at and those in the queue are disjoint, and together with the variable's type they are
  closed under children that are containers; `Supplied` counts an index for each array and a pointee for each
  pointer below those looked at. When the queue is empty the closure gives all subtypes (`HalfwayLast`). That no
  subtype enters the queue twice needs that a container has one parent and is no part of itself.
* A step appends variables to `vars_` and to one function. `OwnsGains` says once what that does to ownership,
  `StaysServed` and `StaysPermuted` to everything else; the lemma of an action says what it appends.
* From it: `VariablesOwnedOnce` (with two lemmas on counting), `SubtypesAreServed`, `PermutatorsAlwaysFit`.

`UtilsProofs` on `SemiTree`, for any sets of nodes, from `NodesAssumption`; the refinement also from
`FiniteAssumption`, that the nodes are finitely many, since `Followed` counts the links it follows.

* `Invariance`: the type invariant and `LinksMatch`, which is inductive with it. Its proof takes one lemma on
  the five links that insertion writes (`InsertLinks`), and the lemmas that the iterator stays in the tree.
* From it: `RingsStayWhole`, and `StepsUndoEachOther`, which follows from the rings alone, by the cases of
  leaf, unvisited and visited branch.
* `TreeIsOrdered`: `ImplementsOrderedTree`. Its invariant, `TreeInv`, adds that the links of every ring are a list
  without repetitions that has exactly the children of the branch (`Rings`), and that branches have heights which
  grow from child to parent (`Heights`): nothing in the links says otherwise that a branch is not in itself, and
  without it the visits of the tree would be defined by an equation that need not have a solution. From the lists:
  following `next` from a sentinel yields the list (`FollowedRing`), and insertion puts the node where `InsertAt`
  does (`InsertRing`, `OtherRings`, `InsertHeights`). From the heights: the visits exist (`VisitsExist`, by iterating
  the equation once for each height) and those of every branch are among those of the tree (`Upwards`). Then a
  step forward is a step of the visits, by the cases of `increment` (`ForwardStep`); a step back is one because `++`
  undoes it (`BackStep`, from `BackUndone`); and one lemma per operation maps it to its action of `OrderedTree`.

`ConfigProofs`, for any registry, command lines, threads and bound on draws, from the module's assumptions.

* `Invariance`: the options before `at` are what the command line asks for and those after it the registered
  defaults; a thread has a number to use exactly while it holds the mutex, and it is the last one given out.
* From it: `RefusalsHaveCause`, `AnswersHonoured` (by `AnswerHonoured`, on what the search through a probability
  function may return), `NumbersOnce`, and `ChancesAreAsWritten`: the numbers for which an entry is picked are
  the interval from the entry before to it, because a function that grows from entry to entry grows all over
  (`Grows`, `PickedFor`).

`UtilsProofs` on `IndentStream`, for any widths and bound on levels.

* `StreamInvariance`: `IndentedOnce` needs to know, before a line is started, that what came out and what is owed add
  up to what the levels ask for, or to no more than that if the line is late, that no stream then owes more than its
  level, and that nothing is owed afterwards (`Balance`).
* From it: `LinesIndentedOnce`, `NothingOnBlankLines` and `SpacesLeadOnly`, a property of steps.

None of the proofs uses an induction theorem with an operator as its parameter, which the provers cannot
instantiate. Where a recursive function is followed along the naturals, a lemma says that a set of naturals with 0
and with the successors of its members has all numbers up to n, or that a set that is not empty has a least one.

Only model-checked: liveness and `ImplementsFairPipeline` (temporal reasoning under fairness is beyond the
prover). Every other property of the passing runs has a theorem.

## 5. What is not modelled

* What tasks compute inside the task system, and dumps, names and wording everywhere: no state depends on them.
* Random numbers. Outside of `Config` a draw is a choice; nothing is said of distributions. What a task draws
  from a shared generator is therefore not compared between schedules.
* Configuration: options that are strings, the help, and the library that splits the command line into tokens.
* Streams: what the characters are, and how a manipulator finds its stream.
* Type graph: sizes of bitfields, the check of the length of `TG::TYPEPROB`, reading a graph from a file. The
  failed assertion in a split is modelled as in a build with assertions.
* Call graph: random getters; modules of functions (`map_modules` is empty in the code).
* Control graph: which variable is drawn beyond there being one; bounds of loops.
* `locir` and `exprir`: the driver calls them, they are empty.

## 6. Plan

Done, in order of importance: `TaskSystem` with `Pipeline`, `SplitTree`, `CallGraph`, `TypeGraph` with its analysis,
`Signatures`, `VarAssign`, `SemiTree` with `OrderedTree`, `Config`, `IndentStream`; proofs of the safety properties
and of the refinements without fairness.

Next to model: a module that composes the direct calls of `CallGraph` with the seeds of `SplitTree`, through the
iterators over callees, to say of the generated program as a whole what runs unconditionally; and the reading of a
type graph from a file.
