# Verification of the Windows Driver Developer Supplemental Tools

The repository holds CodeQL queries for Windows drivers, the QL libraries they
share, and a test runner that builds small drivers, runs every query on them and
compares the results with a stored baseline. This directory models

- the **test runner**, a multi-threaded Python program whose exit code decides whether
  CI is green;
- the **IRQL analysis**, a recursive interprocedural analysis, and the queries on it;
- the **queries about hazards of running drivers**: user-mode memory, reference
  counts, floating-point state, driver isolation;
- the **snippets**, the small drivers these queries are tested on.

A query is modelled as what it computes, a snippet as the program it is, and the two
are composed: the snippet runs, with its threads, its failing calls and the user-mode
program beside it, and the properties say how the query's alerts relate to
what happens in any execution.

## 1. Inventory

| Part | State | Operations | Hard because |
|---|---|---|---|
| Test runner, `test/build_create_analyze_test.py` | worker threads, three locks, directories per test, two result tables, `failed_tests`, `db_create_failures`, baseline and diff file | `run_tests`, `_run_single_test`, `run_test`, `test_setup`, `create_codeql_test_database`, `analyze_codeql_database`, `sarif_diff`, `compare_health_results` | concurrency; five stages that may each fail or raise; leftovers of earlier runs; three independent records decide the exit code |
| IRQL library, `libraries/Irql.qll`, `IrqlDataFlow.qll` | the levels derived per control flow node | the cascade of `getPotentialExitIrqlAtCfn`, matching of saves and restores, entry levels from annotations | recursion over branches, loops and calls; textual matching; priorities among annotations; boundary values |
| IRQL queries, `general/queries/Irql*`, `KeSetEvent*` | none | predicates over the analysis | strict comparison with the minimum or maximum of a possibly empty set; matching by source line; wrappers, loops, pointers |
| User-mode memory queries, `microsoft/Likely Bugs/Memory Management/UserModeMemory*` | none; the driver's buffers are shared with a program | origins of memory, uses outside `__try`, pairs of reads | the program unmaps and writes concurrently |
| Reference counting query, `MultithreadedAVCondition` | none; the snippet's object has a counter | reachability of a delete among basic blocks | several threads release one object |
| Floating-point queries, `FloatSafeExit`, `FloatUnsafeExit`, `FloatHardwareStateProtection` | none; a routine's saved state | reachability of saves and restores | branches and failing calls |
| Isolation library and queries, `libraries/DriverIsolation.qll`, `DriverIsolation*` | none; registry handles | data flow of paths and handles | chains of relative opens, failing opens, stale handles |
| Suppression library, `libraries/Suppression.qll` | none | ranges of `#pragma warning` and comments | push/pop nesting |
| SAL, role types, paging libraries | none | recognise macros and typedefs | text patterns only |
| API catalogues (WDM, KMDF, NDIS, Storport, WFP) | none | lists of names | – |
| CI workflow, DVL script, comparison script | files between steps | jobs that call the test runner | steps conditional on files |
| Snippets (`driver_snippet.c`, `UserModeMemory*.c`) | a driver's locals, handles, IRQL | the drivers the queries are tested on | what the queries look for |
| Templates, suites, other shared Microsoft queries | test data, lists, imported queries | – | – |

How they interact: the CI workflow downloads the baseline, calls the runner with
`--no_build --compare_results` and fails if the runner fails or leaves
`diffdetailedfunctiontestresults.xlsx`. The runner starts `msbuild`, `codeql` and
`sarif` as child processes. The queries call the libraries; the IRQL library calls
SAL, role types and paging to learn a function's annotations, and CodeQL's own
control flow and data flow libraries, which are not in this repository.

What makes each part correct:

- runner: a row of the result tables stems from its own test only; the two files
  are complete and agree; success means that everything ran; a regression is
  visible; concurrent linkers do not share a PDB server; the script ends;
- analysis: the levels listed for a node include every level a thread can have
  there (for the drivers it can follow); a restore yields the level saved;
- IRQL queries: what is reported is a real violation, and a violation at a node with a
  single known level is reported; a function that leaves its promised range, returns
  at another level, or restores a floating-point state at another level, is reported;
- the other queries: whatever goes wrong in an execution (an unhandled fault, two reads
  that disagree, an access to a freed object, a float in unsaved state on exit, a key
  outside the isolated registry) goes wrong at something the query reports, and its
  alerts are real;
- snippets: each query's alerts are those of its baseline.

## 2. Modules

| Module | Models |
|---|---|
| `TestRunner` | the test runner; one action per step between two observable effects |
| `TestVerdicts` | abstract specification: what a run promises about verdicts and exit code |
| `TestRunnerInvariants` | the inductive invariant, in named parts |
| `TestRunnerProofs` | theorems about `TestRunner` |
| `MCTestRunner` | instances for TLC |
| `IrqlAnnotations` | annotations of a function, bounds and entry levels |
| `IrqlAnalysis` | call classes, matching, the cascade and its evaluation |
| `IrqlQueries` | five queries on the analysis |
| `IrqlExecution` | a thread running the analysed driver, composed with the analysis |
| `IrqlSoundness` | what the analysis promises about executions, and for which drivers |
| `IrqlInvariants` | the inductive invariant behind soundness |
| `IrqlSoundnessProofs` | theorems about the analysis and its queries |
| `MCIrql` | generated drivers for TLC |
| `IrqlKernel` | the annotations of the kernel functions that drivers call |
| `IrqlExtract` | from a function's statements to the database: control flow, dead branches, save flow |
| `IrqlContracts` | IRQL-changing calls, the seven queries built on them, executions with history |
| `ContractInvariants`, `ContractProofs` | what is known of every running function and of every floating-point state saved, and the theorems about `IrqlContracts` |
| `FloatStateProofs` | theorems about `IrqlFloatStateMismatch` |
| `IrqlSnippets` | the snippet drivers of twelve IRQL queries, statement by statement |
| `MCIrqlSnippets`, `MCIrqlContracts` | the snippets with their baselines; generated routines |
| `UserBuffer`, `UserBufferSamples`, `UserBufferProofs`, `MCUserBuffer` | a driver reading user-mode memory, the program, and the two queries |
| `RefCount`, `RefCountProofs`, `MCRefCount` | the reference-counted class run by several threads, and the query |
| `FloatProtection`, `FloatSnippets`, `FloatProofs`, `MCFloat` | routines of basic blocks that use floats, and the three queries |
| `DriverIsolation`, `IsolationSnippets`, `IsolationProofs`, `MCIsolation` | routines that open registry keys, and the three queries |

A definition named `...Forgotten`, `...Unlocked`, `...Somewhere` and so on, with
"Mutant" in its comment, is a plausible mistake in the definition that follows it. It is
used by nothing; replacing that definition by it must break the property PROJECT.json
names, which shows that the property says something about the code.

### 2.1 TestRunner and the code

The state is that of `run_tests` and its workers: `pc`/`cur` are a worker's program
counter and `ql_test`; `printLock`, `resultsLock` the two mutexes held across other
steps (`_progress_mutex` guards a single increment and is the atomicity of
`NextProgressLabel`); `working`, `db`, `sarif` map a test's *name* to what is in the
directory or file of that name, `health`/`detailed` map a name to its table row. A row
is the pair of the query that was run and the snippet its database was built from, so
that mixing up two tests, or using a leftover, is visible. Tests are paths; `ql_name`
takes the directory name, as `parse_attributes` does, and nothing in the model says
that names are unique (`NamesDistinct` is an assumption of theorems and true of the
instances; the repository's layout has it).

One worker means `--jobs 1`, where the main thread runs the tests itself: it takes a
test only after handling the previous result, and none after an exception. With a pool,
an exception reaches the main thread through `imap_unordered`, the `finally` clause
closes and joins the pool, and every queued test still runs (`Collect`, `Join`).

Every child process may fail (`RunTestNone`), and file operations may raise
(`Return(w, "raised")`), at each place the code lets them. `Init` admits leftovers:
`__main__` cleans relative to the current directory, the workers use `g_test_dir`.
The comparison keeps, for every row of the baseline, whether it is absent, equal to
what a successful run gives, or different; `ShapesDiffer` is pandas refusing to compare a
table without rows.

Left out: `run_tests_external_drivers`, `--compare_results_no_build`,
`--individual_test`, the choice of the template, printing other than the banner.

### 2.2 The IRQL modules and the code

A CodeQL database is a record (`IrqlAnalysis` lists its parts): functions with their
annotations, nodes, edges, targets, arguments. Arguments are reduced to what
`exprsMatchText` compares, their own text and that of their first child, and beside it
the model keeps which variable they denote (`loc`), which the analysis never sees and
the execution uses. The library's classes of annotation become sets of levels per
function; a level that is not a standard one is `Unparsed` (-1), as `getIrqlLevel`
returns.

`getPotentialExitIrqlAtCfnInternal` is split by what a branch does: `Own` gives the
levels a branch names, `Sources` the nodes whose levels it passes on; the order of the
cascade is `Class`. QL computes the least fixed point; `Evaluate` is one round of
bottom-up evaluation, `Saturated` says that it is reached. The fallback for loop bodies
is applied on top of the finished result, as the code's layering note demands.

`IrqlExecution` is not code of this repository: it is the reference the analysis is
compared with, a thread that walks the control flow graph, calls and returns, and
whose calls of kernel functions do to the IRQL what their annotations say. A saved
level is stored at the location the argument denotes, so the execution knows which save
a restore really undoes. Conditions are not modelled (both branches are possible) except
constants, which `isInConstantFalseBranch` recognises.

`IrqlExtract` builds such a record from functions given as statements, the form of
`IrqlSnippets`: a node per statement and call, edges, the transitive reachability
CodeQL offers, the flags that make a branch constant (`isInConstantFalseBranch`, whose
test for changes of the flag is `NeverMutated`), and the flow of saved IRQLs and
floating-point states through variables and helper parameters. `IrqlContracts` adds the
queries that compare two places: a restore with its save (`irqlChangesBetween`, which
compares source lines in an enclosing function, `anchorLineForCall`), a function's exit
with its entry, a call with its limit; and the two that ask what becomes of an annotated
parameter. `IrqlNotUsed` looks for a kernel function that restores from it, `IrqlNotSaved`
for one that saves to it (`SavedByArgument`) or whose result is assigned to it
(`SavedByAssignment`), in the function or in one the parameter is passed to (`flow`). A
location is a variable together with the copies made of it; `KeAcquireSpinLock` of a
parameter, an assignment of what `KeAcquireSpinLockRaiseToDpc` returns, and both in helpers of
helpers are statements of `MCIrqlContracts`. `ContractNext` is `Next` of `IrqlExecution` with
history: the levels at which the running functions were entered and the level each
floating-point state was saved at, which the queries only estimate. `calls[f]`, the
functions reached from `f` by calls, includes those of the kernel:
`isIrqlChangingFunction` follows `getTarget` to their declarations
(`Irql.qll:1059-1085`), so that a helper that only calls `KeAcquireSpinLock` counts as
changing. `ContractAssumption` says what a database of `IrqlContracts` is: `calls` is
reflexive and transitive, `flow` follows a parameter through every call it is passed to, and
`wdm.h` annotates `KeSetEvent` with its limits.

`WellFormed` names the drivers the promises are about. It says that the data flow library
misses no save still in place (`FlowComplete`, an external component), that calls are of
annotated kernel functions or of unannotated functions with a body, that every save a
restore can really undo is among those the matching finds (`Paired`), that entry
annotations could be evaluated, and that a lower bound above `DISPATCH_LEVEL` is not
masked (`_IRQL_requires_min_` hides `_IRQL_always_function_min_`; the library would then
cap the entry level at `DISPATCH_LEVEL`, below what the routine may be entered at).
Drivers outside it are part of the runs, and a run shows what happens there.

### 2.3 User-mode memory

A routine is a sequence of reads (`Read`, `Deref`), each of a buffer of some origin through
some variable, inside a `__try` or not, at one of four kinds of place: in the routine, in a helper of
the driver (`Helpers`, which dereference their argument once), or inside a function without a
definition (`Undefined`) that the libraries know to read its argument (`"memcpy"`) or do not
(`"unknown"`). The place decides what the queries see. `UserModeMemoryOutsideTry` drops a dereference
that is an argument of a call of an undefined function. `UserModeMemoryReadMultipleTimes` needs two
dereferences that are equivalent and not the same: two calls of one helper reach a single one
(`sameDereference`), so the query is silent. Beside the driver
runs the user-mode program, which may at any moment unmap a buffer it owns
(`UserUnmaps`) or write to one it shares (`UserWrites`), the latter also through an MDL.
A read of an unmapped buffer faults: inside `__try` the exception is handled and raised
again as a status (`"raised"`), otherwise the system stops (`"faulted"`).
`MemoryOrigin.originCanUnmap` and `originCanWrite` are what the library says of an
origin, `UserCanUnmap` and `UserCanWrite` what is the case.

### 2.4 Reference counts

`CObject`, `AddRef`, `Release_good` and `Release_bad` of the snippet as steps of
several threads that share objects; the interlocked operations are one step each, the
test of the result, the destructor and the freeing of the memory are steps of their own.
A thread may call `Release` only for a reference it holds. The query sees blocks of a
method, not threads; `MultithreadedAVCondition` is its condition on the three blocks.

### 2.5 Floating-point state

A routine is a graph of basic blocks of saves, restores and floats; each save or restore
may fail, its status is dropped, kept in a variable nobody reads, or tested, and a test
decides the branch. The queries speak of blocks that can reach, or be reached from, a
block with a call, which is what `Before` and `After` define. `saved` in a routine
stands for a function that is only called with the state saved
(`FuncWithSafeFloatAccess`).

### 2.6 Driver isolation

A routine is a sequence of the snippets' statements: strings, conversions, object
attributes, opens, handles from an approved function. Every call may fail; a failed
open leaves its handle as it was, unset ones being garbage; only a `CheckStatus`
statement leaves the routine. `RtlInitString` (`Copy`) cannot fail,
`RtlAnsiStringToUnicodeString` (`Convert`) can. A key remembers the absolute path or function
it descends from.
The QL side is the data flow of the same routine: the constant that reaches
the attributes, and the first call of a chain of handles
(`nonNullRootDirFlowFirstCall`). Data flow is that of straight-line code with
the last assignment of a variable in force.

That last assignment is what `FailuresSeen` is about. If a call that sets a variable for
the second time fails unnoticed, the variable still holds what the first call left, while
data flow sees only the second: for a chain built on it the queries look at the wrong
origin. The three properties are therefore stated for routines that test the status of
such a call before the variable feeds another key; a variable
set once is covered whether its status is tested or not, since a garbage handle opens
nothing that could be judged. `UnseenPath` names the other
exception, a key first opened below a root *variable* that holds `NULL`:
`TestZwWithRelativeHandleBad` does this and calls it "Not allowed", and neither query reports it.

## 3. Runs

| Run | Checks | States |
|---|---|---|
| `runner_pool` | three tests, up to two workers, `--no_build` alone or with `--existing_database`: types, isolation, files, exit code, endpoints, banners, the barrier, refinement of `TestVerdicts` | 656,628 |
| `runner_live` | seven command lines of four kinds (`--no_build` with and without its options, with msbuild, databases only, the CI workflow's comparison), against all baselines: `Terminates`, `EveryTestJudged` under fairness, `RegressionNeverSilent` | 155,948 |
| `runner_green_compare` | finding: exit code 0 although a test failed | violation |
| `irql_paths` | all routines of three statements from twelve kinds, five shapes (straight, `if`, constant `if`, two loops), a helper that raises; eight entry annotations and three helper annotations: `Sound`, `AlertsAreReal`, `CertainBreaksReported`, `SetAlertsAreReal` | 313,300 |
| `irql_spinlock_variable` | finding: `&old` and `old` never match | violation |
| `snippets_all` | the twelve snippet drivers: `MatchesBaseline`, `RangeLeftIsReported` | 867 |
| `contracts_all` | routines of three statements that change the IRQL or set events, straight, with `if` or loop; of four that move a floating-point state, with helpers, straight, with `if`, or with the save, the restore or both in a loop; that save an IRQL to an annotated parameter or elsewhere, by argument or assignment, through two helpers: `SameLevelOrReported`, `ChangeIsReported`, `MismatchReported`, `EventAlertsAreReal`, `NotSavedAlertsAreReal` | 152,695 |
| `contracts_float_lock` | finding: a release between save and restore is no change | violation |
| `user_buffer_samples` | the samples and all routines of two reads, at every place: `UnhandledFaultReported`, `DisagreementReported` | 835,182 |
| `ref_count_threads` | three threads, two objects: `LastReleaseDeletes`, `AccessAfterFreeReported`, `GoodReleaseSafe`, and `UnreferencedIsFreed` under fairness | 109,358 |
| `float_paths` | the snippets and all functions with one branch and blocks of up to three statements: baselines, `SavedOrReported`, `RestoredOrReported`, `FloatAlertsAreReal` | 144,620 |
| `isolation_chains` | the snippets and all routines that open three keys: baselines, `OutsideOpenReported`, `IsolationAlertsAreReal`, `CaughtWhenOpened` | 56,882 |

`MatchesBaseline` shows that the models of the queries are the queries: on every
snippet they give the alerts the repository keeps as expected, wrong ones included.

Bounds. Two workers are the smallest number that can
interfere and a third adds no new pair; two tests, three in `runner_pool`, let one worker go on while
the other fails; leftovers, all failures and both
lock orders occur. A routine of three statements holds a save, something in between and
a restore, or two saves and a restore, inside or around a branch, a loop and a
call; four statements hold both ends of a floating-point state and both ends of a
raise in every order, and a loop around any part of them takes a change of one iteration to a
restore of the next. `MaxIrql = 3` has levels on both sides of `DISPATCH_LEVEL` = 2 (15,
the real one, for the snippets), and a call depth
of 2 includes the helper (5 for the snippets' call chains). Two reads are the fewest
that can disagree; three threads
are a thread between two others' steps; one branch is where a path can skip
a call; three opens are a chain in which the first step back is not the first call.
Deadlock is checked for the runner (it ends in
`Terminated`) and not for the driver models, which simply end.

Fairness. In `runner_live`, weak fairness of the main thread and of each worker.
Python threads are scheduled by the operating system, a blocked `acquire` is granted
when the lock is free (each test takes it at most twice, so nobody is overtaken
for ever), and child processes are assumed to end; the code has no timeouts.
In `ref_count_threads`, weak fairness of each thread's `Step`, its next step inside a method: a
thread that has entered `Release` is scheduled again. Nothing obliges it to call
`Release`, and the property promises nothing before the last reference is given up.

## 4. What is proved

`TestRunnerProofs`, for every set of tests, workers and modes:

- `TypeCorrect`: `TypeOK`.
- `InvCorrect`: the inductive invariant `TypeInv /\ RunnerInv`. The safety properties
  are not inductive: that a row is right depends on the SARIF file, which depends on the
  database, which depends on the working directory at the moment it was read. The
  invariant follows a test through the stages: who may be where (a test is in `todo`, with one
  worker, or has one result), which lock is held at which location, what the directory,
  database and file of the *current* test of a worker contain at each location, and which rows
  exist for which outcomes.
- `Isolation` (`RowsFaithful`), `SavedCorrect` (`SavedComplete`), under `NamesDistinct`.
- `SuccessCorrect` (`SuccessMeansEveryTestRan`) for command lines without
  `--compare_results`, and with `--no_build` if `--build_database_only` is given.
  Finding 1 shows that the first restriction is needed; without the second, a failed msbuild in
  `test_setup` leaves no database and exit code 0.
- `RegressionsNeverSilent` (`RegressionNeverSilent`), for every command line and
  baseline. `RowInv` says what is in the tables; `CompareInv` adds that what is compared is the
  tables of this run, and that an exit with success leaves the diff file or has found no
  row that differs.
- `VerdictsImplemented` (`ImplementsVerdicts`): the refinement of `TestVerdicts`, without
  `--compare_results`. A test's abstract verdict is read off the results that workers have
  returned and the main thread has collected; the proof shows, action by action, that a step
  adds at most one result, of a test that had none, and never after the exit, and that
  the main thread exits with success only if all verdicts are "passed" (`ExitInv`).
- `VerdictsFinal`, for every command line: no step of any process replaces the result of a test
  by another one of that test.
- `EndpointsPrivate` (`PrivatePdbServer`) for `--no_build`; otherwise the msbuild of
  `test_setup` runs in the inherited environment.
- `BannersCorrect` (`BannersInOrder`), `FrozenCorrect` (`FrozenAfterJoin`), action
  properties from the same invariant.

`IrqlSoundnessProofs`, for every set of drivers (any number of functions, nodes and
edges, any call depth, recursion included) and every number of levels:

- `AnalysisTypeCorrect`: `TypeOK`.
- `SoundCorrect`: `Sound`, the main result. That the IRQL at a node is among the listed
  levels is not inductive: after a restore it depends on a level that was stored earlier,
  after a return on the function returned from, whose callers must be the calls the
  analysis joined. `AnalysisInv` therefore also says that every stored level stems from a
  save still in place here and was listed before that save (`SavedFrom`), and that each
  frame of the stack is a call of the function above it, with its caller's stored levels
  (`Called`). One lemma per branch of the cascade shows where a level comes from
  (`KeptSource`, `ExitSource`, `EntrySource`, `RestoreSource`, `EntryOwn`), and one per
  action that the invariant is kept. `ObeysAllowable` is the part about numbers: a level
  that respects all annotations of a routine lies in an interval
  `getAllowableIrqlLevel` computes from the ones it selects.
- `AlertsCorrect` (`AlertsAreReal`), `CertainCorrect` (`CertainBreaksReported`) and
  `SetAlertsCorrect` (`SetAlertsAreReal`): consequences for the five queries.
- `LeastLevels`: no round of the evaluation lists a level that some solution of the recursion
  lacks (`NothingMore`), because the cascade is monotone (`InternalMonotone`). A saturated
  result is then the least solution, which is what a recursive QL predicate means.
- `RoundsBounded`: in a driver with finitely many nodes every round lists a pair of a node and a level
  that was not listed (`Listed` grows), and there are at most nodes times levels of them. With
  `LeastLevels`, a bound on the rounds of any evaluation and not only of those the runs make. That a
  next round happens is liveness and not stated.

`ContractProofs`, for the same drivers:

- `ContractInvCorrect`: `ContractInv`, that is `AnalysisInv` together with `FrameInv` for
  *every* running function and not only the one on top: the level it was entered at is listed
  at its entry; the level from which it called the next one is listed before that call; if it
  is not at the level it was entered at, some call in it may change the IRQL
  (`MayChange`); if it has left its range, it was reported (`Decided` functions). When a
  function returns, its caller has moved to another level without a step of its own, and these
  facts about the frame below are what shows that the caller can be judged by its own
  call node (`FrameMoved`, `CallerMayChange`). `SavedInv` follows the annotated
  parameter of the routine: wherever on the stack it has been passed to, `flow` knows the function, and
  a level found saved there was saved by a kernel function called with that parameter
  (`SavedFrame`). It is about every frame because a caller's stored levels come back on return.
- `ChangesAreReported` (`ChangeIsReported`) and `EventAlertsCorrect` (`EventAlertsAreReal`), without
  further conditions.
- `SameLevelsOrReported` (`SameLevelOrReported`) unless what the function runs restores the IRQL from
  a parameter (`RestoresParameter`): finding 3 is that `isIrqlChangingCall` does not see those calls.
- `RangeLeftReported` (`RangeLeftIsReported`) for functions at whose nodes the listed levels
  lie on one side of every bound (`Decided`). `IrqlSetTooHigh` reports a node only if *all* levels
  listed there are too high, so a branch on which the range is kept hides one on which it is left.
- `NotSavedAlertsCorrect` (`NotSavedAlertsAreReal`) for every `WellFormed` driver: a routine reported
  may save IRQLs wherever it likes, but returns with none at its annotated parameter.

`FloatStateProofs`, for the same drivers:

- `MismatchesReported` (`MismatchReported`), where each restore about to be made is `Judgeable`,
  in one of two ways.
  - `RestoredLocally`: the function that restores is the only one that saves at that location and
    does so on every path to the restore (`Unsaved`), and no activation of it runs inside another.
  - `RestoredAtHome`: the function is a routine of the system, and it or helpers called by it alone
    save and restore, in any combination.

  In both, the data flow library misses no save (`FloatFlowComplete`, and its part in `FloatLocal`),
  the saves and restores themselves change no IRQL, nothing run there restores the IRQL from a
  parameter (`RestoresParameter`, finding 3), and the calls that change the IRQL on a path from save to
  restore stand between them in the source, or in a loop with both (`StandsBetween`). The last two
  leave out what `irqlChangesBetween` cannot see. Branches, loops, calls of any depth and recursion
  further up the stack are not restricted.
- `FloatInvCorrect` and `HomeInvCorrect`: the invariants behind it. That the saved level was listed
  before a save that flows to the restore is not inductive: the level is stored when the kernel's
  save is *entered*, and the save flows to the nodes behind its call only when it has returned.
  `FloatInv` therefore follows every function on the stack: one that runs has not saved yet or knows
  the save (`FloatAt`); one that has called something is in the middle of a save (`FloatBelow`) or
  knew it before the call. `Nested` says that whatever runs above a call is reached from the function
  called, so nobody above saves at the same location. `HomeInv` follows the routine at the bottom of
  the stack and one save through the stages of its flow: in progress, in the helper that made it
  or in one called later (`FlowsAbove`), back in the routine (`SiteAt`). Both say that if the
  level is not the saved one, a call that `isIrqlChangingCall` knows was passed since, or the
  function running may change it (`MayChange`), which makes its call such a call when it returns
  (`ReturnIsKnown`).
- `InvariantBetweenCalls` (`InvariantWithoutChange`) for the same restores: the claim of
  `IrqlFloatStateMismatch.ql` that `contracts_float_lock` refutes holds where no restore from
  a parameter is involved.

None of these conditions is empty: with its negation as an invariant, TLC finds a state where
it holds together with everything else the property assumes, among routines of three
statements that raise and lower under `_IRQL_always_function_max_(APC_LEVEL)` or
`_IRQL_always_function_min_(APC_LEVEL)`; for the two
conditions on restores, among routines of three or four statements with `if`, loop and helpers, a
thread about to restore at another level than the saved one: in one function, in a loop, in a helper,
and behind a save in a helper. TLC checked `FloatInv` and `HomeInv` on those routines before they
were proved.

`UserBufferProofs`, for every set of routines of any length:
`UserBufferTypeCorrect`, `UnhandledFaultsAreReported` (`UnhandledFaultReported`) and
`DisagreementsAreReported` (`DisagreementReported`). The invariant `BufferInv` adds that only
buffers the program may unmap are unmapped, that a fault stops the driver at a read
outside a `__try` of an unmapped buffer, and that a buffer nobody may write has returned the
same contents at every read. Both theorems promise what the queries do: the first is about reads in the
driver's own code, not those inside functions without a definition; the second about reads that are
`Comparable`, that is of a buffer not described by an MDL, not inside a function the analysis does not
know, and not made by one dereference of one helper.

`RefCountProofs`, for any finite set of threads and any objects:
`RefCountTypeCorrect`, `LastReleaseAlwaysDeletes` (`LastReleaseDeletes`),
`FreedAccessAlwaysReported` (`AccessAfterFreeReported`), `GoodReleaseAlwaysSafe`
(`GoodReleaseSafe`). The invariant ties the counter to the cardinality of
the set of threads holding a reference, which makes the thread that reads zero
the only one left; the counting facts come from `FiniteSetTheorems`.

`FloatProofs`, for every routine, of any number of blocks with any edges:
`FloatTypeCorrect`, `UnsafeExitReported` (`SavedOrReported`), `SafeExitReported`
(`RestoredOrReported`), `FloatAlertsAlwaysReal` (`FloatAlertsAreReal`). The invariant says that
the statements of the current block before the next one were executed (`DoneHere`), that the
entry block was executed before any other (`EntryDone`), that only a call whose status is
unchecked can fail unnoticed (`IgnoredUnused`), and that a saved state was saved by a block
this one can be reached from, or by the caller (`SavedBefore`). A routine that is not reported
has the save in its entry block, which has no block before it, and the restore in
every block nothing can be reached from. Closures are the intersection of all closed sets, so
that no induction over paths is needed.

`IsolationProofs`, for every set of routines of any length, with chains of any length:
`IsolationInvCorrect`, `OutsideReported` (`OutsideOpenReported`), `AlertsOutside`
(`IsolationAlertsAreReal`), `WritesCaught` (`CaughtWhenOpened`). The last covers keys that descend
from a path and keys opened below a handle that any function returned, approved or not; it does not
cover a write through that returned handle itself, which no open precedes and no query reports
(section 5). The invariant compares the
execution with the data flow of the routine up to `pc`: a variable that still feeds a key
(`Live`) holds what its last definition gives it, or is unset because that call failed, and
every opened key is what the *first* call of its chain made it (`KeyFrom`). Which constant and
which call that is, `FlowNullRootDir` and `nonNullRootDirFlowFirstCall` compute as recursive
functions over the routine. That these have values needs an induction over
positions; a rule with a predicate as parameter cannot be used, so it is made with a
set: one that holds zero and all successors holds every natural number
(`SetInduction`, from `LeastNatural`).

Assumptions of the last four: the routines are of the form their module describes
(`IsRoutine`, `RoutinesAssumption`, sequences of `Reads`), threads are finite.
Those of the IRQL proofs: `MaxIrqlAssumption` (there are levels up to at least `DISPATCH_LEVEL`),
`DatabaseAssumption` (what CodeQL builds is a database in the sense of `IsDatabase`),
`IdleAssumption` (a name for "no thread yet"). The soundness results are about
`WellFormed` drivers. Its part on the matching of saves, `Paired`, is what
finding 2 breaks: it is the code's own limit, not one of the proof. The bound
`MaxDepth` on the stack is a constant, so the theorems hold for every depth.

Writing the proofs corrected the model in three places. A helper that calls only kernel
functions was not `isIrqlChangingCall`, since `calls` left the kernel out (`CallEdges`).
The history missed the entry of a function whose first statement is a call of itself
(`Entering`). In `DriverIsolation` a key was excused for a `NULL` root anywhere in the
routine; `UnseenPath` speaks of the key's own first call.

Only model-checked:

- liveness (`Terminates`, `EveryTestJudged`, `UnreferencedIsFreed`): fairness and `ENABLED` are
  outside the prover;
- `MismatchReported` outside `Judgeable` (`LoopedPast` is left out there too): helpers of helpers, functions other than the system's
  routines that save in helpers, and drivers whose source order is not that of the paths.
  `irqlChangesBetween` compares source lines, looks into helpers one call deep and into loop bodies one
  iteration long, so there the property holds for the shapes of `contracts_all` and not for every
  driver (see the findings);
- `RangeLeftIsReported` where levels lie on both sides of a bound, `SameLevelOrReported`
  where a parameter's level is restored: there they hold of the routines of the runs, not of all;
- `MatchesBaseline`, three times: the results on given snippets, a matter of evaluation;
- what the recursions of `IrqlExtract` compute from statements: the proofs take databases as they
  are, under `IsDatabase` and `IsContractDatabase`, which TLC evaluates for every driver of
  the runs.

## 5. Findings

Shown by runs:

1. `--compare_results`: `exit(0)` in `compare_health_results` precedes the failure
   summary; a failed test without a baseline row leaves CI green.
2. `KeAcquireSpinLock(.., &old)` with `KeReleaseSpinLock(.., old)` never match.
   The analysis has no level after the release and the queries are silent there;
   nothing false is reported.
3. `isIrqlChangingCall` omits the calls that restore an IRQL from a parameter: a spin lock
   acquired before a floating-point state is saved and released before it is restored
   goes unreported by `IrqlFloatStateMismatch`.

Other disagreements of documents and code, which the properties leave out by a named
condition:

| Where | Code | Document | Left out by |
|---|---|---|---|
| `Irql.qll:685` | a release of a reused lock handle finds no save, because a later acquire excludes it | `Irql.qll:770` | `Paired` |
| `build_create_analyze_test.py:379` | msbuild of `test_setup` shares the inherited PDB endpoint | docstring at line 55 | command lines of `runner_pool` |
| `build_create_analyze_test.py:979` | `--build_database_only` ignores a failed msbuild of `test_setup` | comment at line 975 | command lines of `runner_pool` |
| `IrqlSetTooHigh/driver_snippet.c:228` | a call through a pointer is not followed | "This should fail" | `Followable` |
| `KeSetEventIrql/driver_snippet.c:39` | `_IRQL_always_function_min_` gives no entry level | "too high to call KeSetEvent" | `MatchesBaseline` has no alert there |
| `KeSetEventIrql.ql:33` | a call without any known level is reported | the query's message | `WellFormed` |
| `IrqlFloatStateMismatch/driver_snippet.c:141` | the loop's mismatch is reported | "the finding is suppressed" | `MatchesBaseline` has the alert |
| `IrqlFloatStateMismatch.ql:122` | a change in a loop around only one of save and restore is not seen if it stands outside them: the back edge takes it between | line 75, "could run between" | `LoopedPast` |
| `IrqlNotSaved.ql:44` | a function annotated `_IRQL_saves_global_` is no `IrqlSavesFunction` (`Irql.qll:450`), so the IRQL it saves to its argument does not count | line 160, "an OS function that will save a value to it" | `SavedGlobally` |
| `UserModeMemoryOutsideTry.ql:36` | a dereference that is an argument of a call of a function without a definition (`memcpy`) is not reported, inside `__try` or not | line 5, "Reading user memory outside a try/catch block" | `Undefined` in `UnhandledFaultReported` |
| `UserModeMemoryReadMultipleTimes.ql:80` | two calls of one helper reach one dereference, which is not its own equivalent: two reads of the buffer, no alert | line 64, "some memory origin flows (inter-procedurally) to both" | `Comparable` in `DisagreementReported` |
| `MemoryOrigins.qll:170` | MDLs are never written by their origin | line 167 | origin `"Mdl"` in `DisagreementReported` |
| `UserModeMemoryOutsideTry2.c:99` | a dereference in a function called inside `__try` is reported | "GOOD" | no claim that alerts are real |
| `UserModeMemoryOutsideTry1.c:112` | the pointer is `NULL` and has no origin | "BAD" | origin `"Null"` in `UnhandledFaultReported` |
| `FloatHardwareStateProtection.ql:94` | a save on one branch exempts what follows both | line 11 | no claim that every float is reported |
| `FloatSafeExit.ql:86` | blocks behind the restore count as unrestored | snippet, line 19 | `MatchesBaseline` has the alert |
| `DriverIsolation.qll:82` | `NULL` in a variable is no `NULL` root | snippet, lines 308 and 322 | `UnseenPath` |
| `DriverIsolationZwViolation1/driver_snippet.c:284` | the handle may never have been set | "RootKey is a valid handle" | `Known` |
| `DriverIsolation.qll:303` | paths below Software and System are allowed | `DriverIsolationZwViolation2.md:6` | `Outside` follows the code |
| `DriverIsolationRtlViolation.ql:30` | `RTL_REGISTRY_HANDLE` is exempt | `DriverIsolationRtlViolation.md:10` | `CaughtWhenOpened` |
| `DriverIsolationRtlViolation.ql:30` | a write through the very handle that an unapproved function returned has no open to report and is reported by no query | line 30, "caught when the handle is opened" | second conjunct of `CaughtWhenOpened` |

## 6. Plan

1. (done) runner, abstract verdicts, its invariant and proofs; IRQL analysis,
   queries, execution, soundness and its proof.
2. (done) `isIrqlChangingCall` and the queries built on it, the snippets and their
   baselines, user-mode memory, reference counts, floating-point state, isolation.
3. Suppression: pragma ranges with push/pop against a reference definition.
4. The CI workflow around the runner (diff upload, baseline update) and
   the DVL script, composed with `TestVerdicts`.
5. The external-driver mode of the runner (its `build_database_only` test is inverted).
6. (done) Proofs: refinement of `TestVerdicts`, `RegressionNeverSilent`, finality of verdicts, the
   least solution of the analysis and the bound on its rounds, isolation, the contract queries,
   floating-point states in one function and with helpers.
7. Proofs left: `MismatchReported` for helpers of helpers.

## 7. Not modelled

API catalogues, suites and templates (data); SAL, role type and paging
recognition (text patterns, which appear as a function's annotations); `_When_` syntax
and `getExplicitExitIrqlAtCfn`; `IrqlCancelRoutine` and the other single-relation
queries, with their snippets. In the modelled parts, left out: of the user-mode queries, the
mitigations (code under a check that the previous mode was kernel mode, a buffer written back before it
is read again), accesses the libraries do not take for reads (`isSpuriousRead`, arguments of `ProbeForRead` and its like), single-bit reads and overlapping fields, so that every read of a buffer is of
the same field; in the comparison of the runner, a raise of `ExcelWriter` or `os.remove`
(`build_create_analyze_test.py:870-881`), which ends the script with an error like any other raise; of the
floating-point queries, declarations: a status is "stored" by an assignment, whereas for an initializer
it depends on the CodeQL library whether `getParent()` is an expression (`FloatUnsafeExit.ql:96`,
`FloatSafeExit.ql:104`); the exemption of read functions (`DriverIsolationRtlViolation.ql:40-44`), since the
only `Rtl` call of a routine is a write; in `IrqlNotSaved`, a returned IRQL that takes its way through other
variables or functions before it is assigned to the parameter. Also left out: the interprocedural part of
`FuncWithSafeFloatAccess` (a flag); data flow through branches in isolation routines;
the other imported queries under `src/microsoft`; suppression, workflow and DVL script; CodeQL, msbuild,
sarif-tools, pandas and the kernel, which appear only by what the modelled code relies on.
