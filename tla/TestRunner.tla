----------------------------- MODULE TestRunner -----------------------------
(***************************************************************************)
(* The query test runner, src/drivers/test/build_create_analyze_test.py.   *)
(*                                                                         *)
(* run_tests hands every discovered query test to a pool of worker threads *)
(* (or runs them one after the other when --jobs is 1).  A worker populates*)
(* working/<ql_name>, builds a CodeQL database from it, analyses the       *)
(* database, diffs the SARIF file and records a row in two shared tables.  *)
(* The main thread collects the workers' return values, saves the tables,  *)
(* optionally compares them with a stored baseline, and picks the process  *)
(* exit code.  Every external program (msbuild, codeql, sarif) may succeed *)
(* or fail; file operations of the worker may raise.                       *)
(***************************************************************************)
EXTENDS Naturals, Sequences

CONSTANTS
  Tests,       \* paths of the .ql files found, as sequences of components
  Workers,     \* thread identities the pool may use
  Modes,       \* command lines considered, see Mode
  Nothing,     \* no directory, no file, no row
  Stale,       \* left behind by an earlier invocation
  TemplateOnly,\* a copied template without the test's snippet
  ExistingDb,  \* the database named by --existing_database
  NoTest       \* a worker without a task

\* The options that steer control flow.
Mode == [no_build : BOOLEAN, existing_database : BOOLEAN,
         build_database_only : BOOLEAN, compare_results : BOOLEAN]

\* Mutant: the path component above it.
ql_name_category(t) == t[Len(t) - 2]

\* parse_attributes: a test is named after the directory holding its query.
ql_name(t) == t[Len(t) - 1]

Names == {ql_name(t) : t \in Tests}

ASSUME ModesAssumption == Modes \subseteq Mode

ASSUME SentinelAssumption ==
  /\ Nothing \notin Tests /\ Stale \notin Tests /\ TemplateOnly \notin Tests
  /\ ExistingDb \notin Tests /\ NoTest \notin Tests /\ NoTest \notin Workers
  /\ Nothing # Stale /\ Nothing # TemplateOnly /\ Stale # TemplateOnly
  /\ Nothing # ExistingDb
  /\ \A t \in Tests, s \in Tests \cup {ExistingDb} :
        <<t, s>> # Nothing /\ <<t, s>> # Stale

\* No two query files share a directory name; the repository's layout has
\* this property and the isolation of the workers rests on it.
NamesDistinct == \A s, t \in Tests : ql_name(s) = ql_name(t) => s = t

VARIABLES
  args,        \* the parsed command line
  team,        \* the workers of the pool; one worker means --jobs 1
  main,        \* where run_tests is
  todo,        \* tests not yet given to a worker
  pc, cur,     \* per worker: where it is, and its ql_test
  printLock,   \* holder of print_mutex, or NoTest
  resultsLock, \* holder of results_mutex, or NoTest
  started,     \* _progress_started
  label,       \* per worker: the N of its "[N/total]" prefix
  printed,     \* N of the last banner that reached the console
  working, db, sarif, \* per ql_name: working/, TestDB/ and AnalysisFiles/
  got,         \* per worker: what sarif_results returned
  endpoint,    \* per worker: _MSPDBSRV_ENDPOINT_ of its running linker chain
  nextEndpoint,\* _endpoint_counter
  health, detailed,  \* health_df and detailed_health_df, one row per name
  returned,    \* results in the pool's output queue: <<test, outcome>>
  collected,   \* results the main thread has taken from it
  failed,      \* failed_tests
  dbFailures,  \* db_create_failures
  saved,       \* the tables as written to the result files, or Nothing
  baseline,    \* rows of the azure- baseline file as downloaded, or Nothing
  baselineFile,\* that file exists
  diffFile,    \* diffdetailedfunctiontestresults.xlsx exists
  exitCode     \* of the process

workerVars == <<pc, cur, label, got, endpoint>>
lockVars == <<printLock, resultsLock>>
progressVars == <<started, printed>>
fileVars == <<working, db, sarif>>
tableVars == <<health, detailed>>
mainVars == <<main, collected, failed, saved, baselineFile, diffFile,
              exitCode>>
fixedVars == <<args, team, baseline>>
vars == <<workerVars, lockVars, progressVars, fileVars, tableVars, mainVars,
          fixedVars, todo, nextEndpoint, returned, dbFailures>>

-----------------------------------------------------------------------------
(* Endpoints: the inherited default, then one fresh value per invocation.  *)
NoEndpoint == 0
DefaultEndpoint == 1
FirstEndpoint == 2

Contents == Tests \cup {Nothing, Stale, TemplateOnly}
Outcomes == {"none", "failed", "raised"}

\* A row is the query that was run and what its database was built from.
Rows == (Tests \X (Contents \cup {ExistingDb})) \cup {Nothing, Stale}

\* What a baseline row says, relative to a successful run of the same test.
BaselineRows == {"absent", "same", "other"}

Locations ==
  {"idle", "announce", "label", "banner", "clean", "copy", "build",
   "building", "create", "creating", "analyze", "diff", "read", "report",
   "record", "recording"}

MainLocations ==
  {"start", "collect", "join", "save", "compare", "summary", "done"}

Sequential == \E w \in Workers : team = {w}

-----------------------------------------------------------------------------
(* Cleaning in __main__ is relative to the current directory, while the    *)
(* workers use paths under the template directory: leftovers may survive.  *)
Init ==
  /\ args \in Modes
  /\ team \in SUBSET Workers /\ team # {}
  /\ main = "start"
  /\ todo = Tests
  /\ pc = [w \in Workers |-> "idle"]
  /\ cur = [w \in Workers |-> NoTest]
  /\ printLock = NoTest /\ resultsLock = NoTest
  /\ started = 0 /\ printed = 0
  /\ label = [w \in Workers |-> 0]
  /\ \E leftover \in {Nothing, Stale} :
       /\ working = [n \in Names |-> leftover]
       /\ db = [n \in Names |-> leftover]
       /\ sarif = [n \in Names |-> leftover]
  /\ got = [w \in Workers |-> Nothing]
  /\ endpoint = [w \in Workers |-> NoEndpoint]
  /\ nextEndpoint = FirstEndpoint
  /\ health = [n \in Names |-> Nothing]
  /\ detailed = [n \in Names |-> Nothing]
  /\ returned = {} /\ collected = {}
  /\ failed = {} /\ dbFailures = {}
  /\ saved = Nothing
  /\ baseline \in IF args.compare_results
                    THEN [Names -> BaselineRows] \cup {Nothing}
                    ELSE {Nothing}
  /\ baselineFile = (baseline # Nothing)
  /\ diffFile = FALSE
  /\ exitCode = "running"

-----------------------------------------------------------------------------
(* Worker control: moving on, returning a value, raising.                  *)
Goto(w, l) ==
  /\ pc' = [pc EXCEPT ![w] = l]
  /\ UNCHANGED <<cur, returned>>

\* Mutant: the task is forgotten before it is named in the result.
ReturnForgotten(w, outcome) ==
  /\ pc' = [pc EXCEPT ![w] = "idle"]
  /\ cur' = [cur EXCEPT ![w] = NoTest]
  /\ returned' = returned \cup {<<cur'[w], outcome>>}

Return(w, outcome) ==
  /\ pc' = [pc EXCEPT ![w] = "idle"]
  /\ cur' = [cur EXCEPT ![w] = NoTest]
  /\ returned' = returned \cup {<<cur[w], outcome>>}

\* Mutants: the failure is not reported; the analysis is retried for ever.
RunTestNoneUnreported(w) == Return(w, "none")
RunTestNoneRetried(w) == Goto(w, "analyze")

\* run_test returned None: _run_single_test reports it, unless only
\* databases were wanted, where None also means success.
RunTestNone(w) ==
  IF args.build_database_only THEN Return(w, "none") ELSE Goto(w, "report")

\* The tail of run_test once a database path is known.
HaveDatabase(w) ==
  IF args.build_database_only THEN Return(w, "none") ELSE Goto(w, "analyze")

\* A worker of the pool picks up a task.  The order of the task list is the
\* order os.walk happened to list the files in.  Without a pool the main
\* thread itself runs the tests: it takes the next one only after handling
\* the previous result, and none after an exception.
TakeTask(w) ==
  /\ w \in team /\ pc[w] = "idle"
  /\ main \in {"collect", "join"}
  /\ Sequential => returned = {} /\ main = "collect"
  /\ \E t \in todo :
       /\ todo' = todo \ {t}
       /\ cur' = [cur EXCEPT ![w] = t]
  /\ pc' = [pc EXCEPT ![w] = "announce"]
  /\ UNCHANGED <<label, got, endpoint, lockVars, progressVars, fileVars,
                 tableVars, mainVars, fixedVars, nextEndpoint, returned,
                 dbFailures>>

\* Mutant: print_mutex is not waited for.
AcquirePrintUnlocked(w) ==
  /\ pc[w] = "announce"
  /\ printLock' = w
  /\ Goto(w, "label")
  /\ UNCHANGED <<label, got, endpoint, resultsLock, progressVars, fileVars,
                 tableVars, mainVars, fixedVars, todo, nextEndpoint,
                 dbFailures>>

AcquirePrint(w) ==
  /\ pc[w] = "announce" /\ printLock = NoTest
  /\ printLock' = w
  /\ Goto(w, "label")
  /\ UNCHANGED <<label, got, endpoint, resultsLock, progressVars, fileVars,
                 tableVars, mainVars, fixedVars, todo, nextEndpoint,
                 dbFailures>>

\* _next_progress_label, an atomic increment under _progress_mutex.
NextProgressLabel(w) ==
  /\ pc[w] = "label"
  /\ started' = started + 1
  /\ label' = [label EXCEPT ![w] = started + 1]
  /\ Goto(w, "banner")
  /\ UNCHANGED <<got, endpoint, lockVars, printed, fileVars, tableVars,
                 mainVars, fixedVars, todo, nextEndpoint, dbFailures>>

\* The banner is printed and print_mutex released; an existing database
\* makes test_setup and database creation unnecessary.
Banner(w) ==
  /\ pc[w] = "banner"
  /\ printed' = label[w]
  /\ printLock' = NoTest
  /\ IF args.existing_database THEN HaveDatabase(w) ELSE Goto(w, "clean")
  /\ UNCHANGED <<label, got, endpoint, resultsLock, started, fileVars,
                 tableVars, mainVars, fixedVars, todo, nextEndpoint,
                 dbFailures>>

\* test_setup: rmtree the working directory if it exists, copy the template.
SetupClean(w) ==
  /\ pc[w] = "clean"
  /\ LET n == ql_name(cur[w]) IN
       \/ /\ working' = [working EXCEPT ![n] = TemplateOnly]
          /\ Goto(w, "copy")
       \/ /\ \E c \in {working[n], Nothing} :
               working' = [working EXCEPT ![n] = c]
          /\ Return(w, "raised")
  /\ UNCHANGED <<label, got, endpoint, lockVars, progressVars, db, sarif,
                 tableVars, mainVars, fixedVars, todo, nextEndpoint,
                 dbFailures>>

\* test_setup: copy the snippet and the query next to the template's files.
SetupCopy(w) ==
  /\ pc[w] = "copy"
  /\ \/ /\ working' = [working EXCEPT ![ql_name(cur[w])] = cur[w]]
        /\ Goto(w, IF args.no_build THEN "create" ELSE "build")
     \/ /\ Return(w, "raised")
        /\ UNCHANGED working
  /\ UNCHANGED <<label, got, endpoint, lockVars, progressVars, db, sarif,
                 tableVars, mainVars, fixedVars, todo, nextEndpoint,
                 dbFailures>>

\* test_setup: msbuild is started with the inherited environment.
MsbuildStart(w) ==
  /\ pc[w] = "build"
  /\ endpoint' = [endpoint EXCEPT ![w] = DefaultEndpoint]
  /\ Goto(w, "building")
  /\ UNCHANGED <<label, got, lockVars, progressVars, fileVars, tableVars,
                 mainVars, fixedVars, todo, nextEndpoint, dbFailures>>

MsbuildEnd(w) ==
  /\ pc[w] = "building"
  /\ endpoint' = [endpoint EXCEPT ![w] = NoEndpoint]
  /\ Goto(w, "create") \/ RunTestNone(w)
  /\ UNCHANGED <<label, got, lockVars, progressVars, fileVars, tableVars,
                 mainVars, fixedVars, todo, nextEndpoint, dbFailures>>

\* Mutant: the environment is passed on unchanged.
BuildSubprocessEnvInherited(w) ==
  /\ endpoint' = [endpoint EXCEPT ![w] = DefaultEndpoint]
  /\ UNCHANGED nextEndpoint

\* _build_subprocess_env: an endpoint of its own, here only the number drawn
\* from _endpoint_counter (the code adds the process and thread identities).
BuildSubprocessEnv(w) ==
  /\ endpoint' = [endpoint EXCEPT ![w] = nextEndpoint]
  /\ nextEndpoint' = nextEndpoint + 1

\* create_codeql_test_database: remove the old database, start `codeql
\* database create` in an environment of its own.
CreateStart(w) ==
  /\ pc[w] = "create"
  /\ \/ /\ db' = [db EXCEPT ![ql_name(cur[w])] = Nothing]
        /\ BuildSubprocessEnv(w)
        /\ Goto(w, "creating")
     \/ /\ Return(w, "raised")
        /\ UNCHANGED <<db, endpoint, nextEndpoint>>
  /\ UNCHANGED <<label, got, lockVars, progressVars, working, sarif,
                 tableVars, mainVars, fixedVars, todo, dbFailures>>

CreateEnd(w) ==
  /\ pc[w] = "creating"
  /\ endpoint' = [endpoint EXCEPT ![w] = NoEndpoint]
  /\ LET n == ql_name(cur[w]) IN
       \/ /\ db' = [db EXCEPT ![n] = working[n]]
          /\ HaveDatabase(w)
          /\ UNCHANGED dbFailures
       \/ /\ dbFailures' = dbFailures \cup {n}
          /\ RunTestNone(w)
          /\ UNCHANGED db
  /\ UNCHANGED <<label, got, lockVars, progressVars, working, sarif,
                 tableVars, mainVars, fixedVars, todo, nextEndpoint>>

\* analyze_codeql_database: codeql writes AnalysisFiles/<name>.sarif or fails.
Analyze(w) ==
  /\ pc[w] = "analyze"
  /\ LET n == ql_name(cur[w])
         source == IF args.existing_database THEN ExistingDb ELSE db[n] IN
       \/ /\ sarif' = [sarif EXCEPT ![n] = <<cur[w], source>>]
          /\ Goto(w, IF args.existing_database THEN "read" ELSE "diff")
       \/ /\ RunTestNone(w)
          /\ UNCHANGED sarif
  /\ UNCHANGED <<label, got, endpoint, lockVars, progressVars, working, db,
                 tableVars, mainVars, fixedVars, todo, nextEndpoint,
                 dbFailures>>

\* sarif_diff: only the exit status of `sarif diff` counts.
SarifDiff(w) ==
  /\ pc[w] = "diff"
  /\ Goto(w, "read") \/ RunTestNone(w)
  /\ UNCHANGED <<label, got, endpoint, lockVars, progressVars, fileVars,
                 tableVars, mainVars, fixedVars, todo, nextEndpoint,
                 dbFailures>>

\* sarif_results in _run_single_test, whose exceptions are caught.
ReadSarif(w) ==
  /\ pc[w] = "read"
  /\ \/ /\ got' = [got EXCEPT ![w] = sarif[ql_name(cur[w])]]
        /\ Goto(w, "record")
     \/ /\ Goto(w, "report")
        /\ UNCHANGED got
  /\ UNCHANGED <<label, endpoint, lockVars, progressVars, fileVars, tableVars,
                 mainVars, fixedVars, todo, nextEndpoint, dbFailures>>

\* The error line is printed under print_mutex and the test's name returned.
ReportFailure(w) ==
  /\ pc[w] = "report" /\ printLock = NoTest
  /\ Return(w, "failed")
  /\ UNCHANGED <<label, got, endpoint, lockVars, progressVars, fileVars,
                 tableVars, mainVars, fixedVars, todo, nextEndpoint,
                 dbFailures>>

\* Both tables are updated under results_mutex, one after the other.
RecordHealth(w) ==
  /\ pc[w] = "record" /\ resultsLock = NoTest
  /\ resultsLock' = w
  /\ health' = [health EXCEPT ![ql_name(cur[w])] = got[w]]
  /\ Goto(w, "recording")
  /\ UNCHANGED <<label, got, endpoint, printLock, progressVars, fileVars,
                 detailed, mainVars, fixedVars, todo, nextEndpoint,
                 dbFailures>>

RecordDetailed(w) ==
  /\ pc[w] = "recording"
  /\ detailed' = [detailed EXCEPT ![ql_name(cur[w])] = got[w]]
  /\ resultsLock' = NoTest
  /\ Return(w, "none")
  /\ UNCHANGED <<label, got, endpoint, printLock, progressVars, fileVars,
                 health, mainVars, fixedVars, todo, nextEndpoint, dbFailures>>

WorkerStep(w) ==
  \/ AcquirePrint(w) \/ NextProgressLabel(w) \/ Banner(w)
  \/ SetupClean(w) \/ SetupCopy(w) \/ MsbuildStart(w) \/ MsbuildEnd(w)
  \/ CreateStart(w) \/ CreateEnd(w) \/ Analyze(w) \/ SarifDiff(w)
  \/ ReadSarif(w) \/ ReportFailure(w) \/ RecordHealth(w) \/ RecordDetailed(w)

-----------------------------------------------------------------------------
(* The main thread: run_tests after parse_attributes.                      *)
MainOnly == UNCHANGED <<workerVars, lockVars, fileVars, tableVars, fixedVars,
                        todo, nextEndpoint, returned, dbFailures>>

\* The progress counter is reset; with a pool, a line is printed under
\* print_mutex before the workers exist.
Start ==
  /\ main = "start"
  /\ main' = "collect"
  /\ started' = 0
  /\ MainOnly
  /\ UNCHANGED <<printed, collected, failed, saved, baselineFile, diffFile,
                 exitCode>>

\* One iteration over imap_unordered.  An exception of the worker is raised
\* again here and leaves the loop through the finally clause.
Collect ==
  /\ main = "collect"
  /\ \E r \in returned :
       /\ returned' = returned \ {r}
       /\ collected' = collected \cup {r}
       /\ main' = IF r[2] = "raised" THEN "join" ELSE main
       /\ failed' = IF r[2] = "failed" THEN failed \cup {r[1]} ELSE failed
  /\ UNCHANGED <<workerVars, lockVars, progressVars, fileVars, tableVars,
                 fixedVars, todo, nextEndpoint, dbFailures, saved, baselineFile,
                 diffFile, exitCode>>

CollectEnd ==
  /\ main = "collect"
  /\ \A t \in Tests : \E r \in collected : r[1] = t
  /\ main' = "join"
  /\ MainOnly
  /\ UNCHANGED <<progressVars, collected, failed, saved, baselineFile, diffFile,
                 exitCode>>

\* Mutant: pool.join() is missing.
PoolAbandoned == TRUE

\* pool.close(); pool.join(): every queued task still runs.
PoolDrained ==
  /\ \A w \in team : pc[w] = "idle"
  /\ Sequential \/ todo = {}

\* A pending exception then ends the script.
Join ==
  /\ main = "join"
  /\ PoolDrained
  /\ IF \E r \in collected : r[2] = "raised"
       THEN main' = "done" /\ exitCode' = "failure"
       ELSE main' = "save" /\ UNCHANGED exitCode
  /\ MainOnly
  /\ UNCHANGED <<progressVars, collected, failed, saved, baselineFile, diffFile>>

\* Both result files are written, or writing one raises.
Save ==
  /\ main = "save"
  /\ \/ /\ saved' = [health |-> health, detailed |-> detailed]
        /\ main' = IF args.compare_results THEN "compare" ELSE "summary"
        /\ UNCHANGED exitCode
     \/ /\ main' = "done" /\ exitCode' = "failure"
        /\ UNCHANGED saved
  /\ MainOnly
  /\ UNCHANGED <<progressVars, collected, failed, baselineFile, diffFile>>

\* compare_health_results: rows missing on one side are added as empty.
HasRow(n) == saved.detailed[n] # Nothing
\* Mutant: only the rows of the current run are compared.
CurrentRowDiffers(n) == HasRow(n) /\ baseline[n] # "same"
RowDiffers(n) ==
  IF HasRow(n) THEN baseline[n] # "same" ELSE baseline[n] # "absent"
\* A table without rows has no column to compare or extend.
ShapesDiffer ==
  (\E n \in Names : HasRow(n)) # (\E n \in Names : baseline[n] # "absent")
CompareRaises == IF baselineFile THEN ShapesDiffer ELSE TRUE

\* Without differences the script exits at once; with differences they are
\* written to the diff file.  The baseline file is removed either way.
Compare ==
  /\ main = "compare"
  /\ \/ /\ CompareRaises
        /\ main' = "done" /\ exitCode' = "failure"
        /\ UNCHANGED <<baselineFile, diffFile>>
     \/ /\ ~CompareRaises /\ \E n \in Names : RowDiffers(n)
        /\ main' = "summary" /\ diffFile' = TRUE /\ baselineFile' = FALSE
        /\ UNCHANGED exitCode
     \/ /\ ~CompareRaises /\ \A n \in Names : ~RowDiffers(n)
        /\ main' = "done" /\ exitCode' = "success" /\ baselineFile' = FALSE
        /\ UNCHANGED diffFile
  /\ MainOnly
  /\ UNCHANGED <<progressVars, collected, failed, saved>>

\* Mutant: only failed database builds count.
SummaryFailsOnDatabases == dbFailures # {}

\* The failure summary picks the exit code.
SummaryFails == (~args.build_database_only /\ failed # {}) \/ dbFailures # {}

Summary ==
  /\ main = "summary"
  /\ main' = "done"
  /\ exitCode' = IF SummaryFails THEN "failure" ELSE "success"
  /\ MainOnly
  /\ UNCHANGED <<progressVars, collected, failed, saved, baselineFile, diffFile>>

MainStep ==
  Start \/ Collect \/ CollectEnd \/ Join \/ Save \/ Compare \/ Summary

Terminated == main = "done" /\ UNCHANGED vars

Next ==
  \/ \E w \in Workers : TakeTask(w) \/ WorkerStep(w)
  \/ MainStep
  \/ Terminated

Spec == Init /\ [][Next]_vars

\* Threads are scheduled by the interpreter and the operating system, and
\* the external programs are assumed to end.  Fairness of the lock: a
\* waiting thread is not overtaken forever, as each test takes it at most
\* twice.
Fairness ==
  /\ WF_vars(MainStep)
  /\ \A w \in Workers : WF_vars(TakeTask(w) \/ WorkerStep(w))

FairSpec == Spec /\ Fairness
-----------------------------------------------------------------------------
(* Properties.                                                             *)

TypeOK ==
  /\ args \in Modes
  /\ team \in SUBSET Workers
  /\ main \in MainLocations
  /\ todo \in SUBSET Tests
  /\ pc \in [Workers -> Locations]
  /\ cur \in [Workers -> Tests \cup {NoTest}]
  /\ printLock \in Workers \cup {NoTest}
  /\ resultsLock \in Workers \cup {NoTest}
  /\ started \in Nat /\ printed \in Nat
  /\ label \in [Workers -> Nat]
  /\ working \in [Names -> Contents]
  /\ db \in [Names -> Contents]
  /\ sarif \in [Names -> Rows]
  /\ got \in [Workers -> Rows]
  /\ endpoint \in [Workers -> Nat] /\ nextEndpoint \in Nat
  /\ health \in [Names -> Rows] /\ detailed \in [Names -> Rows]
  /\ returned \in SUBSET (Tests \X Outcomes)
  /\ collected \in SUBSET (Tests \X Outcomes)
  /\ failed \in SUBSET Tests /\ dbFailures \in SUBSET Names
  /\ saved \in [health : [Names -> Rows], detailed : [Names -> Rows]]
                \cup {Nothing}
  /\ baseline \in [Names -> BaselineRows] \cup {Nothing}
  /\ baselineFile \in BOOLEAN /\ diffFile \in BOOLEAN
  /\ exitCode \in {"running", "success", "failure"}

\* The row test t owes: its own query on the database built from its own
\* snippet, or on the database the user named.
OwnRow(t) == <<t, IF args.existing_database THEN ExistingDb ELSE t>>

\* "each ql_test uses its own working/, TestDB/, and AnalysisFiles/<name>.sarif
\* paths" (_run_single_test): no row of either table was computed from another
\* test's snippet, from another query, or from leftovers of an earlier run.
RowsFaithful ==
  \A t \in Tests :
    /\ health[ql_name(t)] \in {Nothing, OwnRow(t)}
    /\ detailed[ql_name(t)] \in {Nothing, OwnRow(t)}

\* What is written to the two result files is complete and consistent: a
\* test has a row in both files or it is in failed_tests, never both and
\* never neither.
SavedComplete ==
  (saved # Nothing /\ ~args.build_database_only) =>
    \A t \in Tests :
      /\ (t \in failed) <=> (saved.health[ql_name(t)] = Nothing)
      /\ saved.health[ql_name(t)] = saved.detailed[ql_name(t)]

\* "Surface failures so the CI job no longer reports green when nothing
\* actually ran" (run_tests): the process succeeds only if every test ran to
\* its end, which is a row in the tables or, with --build_database_only, a
\* database built from the test's snippet.
SuccessMeansEveryTestRan ==
  exitCode = "success" =>
    \A t \in Tests :
      IF args.build_database_only
        THEN args.existing_database \/ db[ql_name(t)] = t
        ELSE detailed[ql_name(t)] = OwnRow(t)

\* With --compare_results, a test the baseline knows cannot fail or change its
\* result unnoticed: the script fails, or it leaves the diff file that the
\* workflow step after it looks for.
RegressionNeverSilent ==
  (args.compare_results /\ exitCode = "success" /\ ~diffFile) =>
    \A t \in Tests :
      baseline[ql_name(t)] # "absent" =>
        /\ baseline[ql_name(t)] = "same"
        /\ detailed[ql_name(t)] = OwnRow(t)

\* "each concurrent invocation talks to its own private mspdbsrv.exe"
\* (_build_subprocess_env): two linker chains that run at the same time never
\* share an endpoint.
PrivatePdbServer ==
  \A v, w \in Workers :
    (v # w /\ endpoint[v] # NoEndpoint) => endpoint[v] # endpoint[w]

\* The "[N/total]" prefix is consistent across parallel workers: banners
\* appear on the console numbered 1, 2, 3, ... without gap, repetition or
\* inversion, whichever worker prints them.
BannersInOrder == [][printed' # printed => printed' = printed + 1]_vars

\* pool.join() is a barrier: once the main thread is past it, no worker
\* runs, so the tables cannot change while they are serialised and the
\* files the diff and the exit code are about are final.
FrozenAfterJoin ==
  [][(main \in {"save", "compare", "summary", "done"}) =>
       (UNCHANGED <<workerVars, fileVars, tableVars, dbFailures>>)]_vars

\* Whatever fails or raises, the script ends.
Terminates == <>(main = "done")

\* With a pool, an exception of one test does not stop the others: close and
\* join let every queued test run to a verdict.
EveryTestJudged ==
  ~Sequential =>
    \A t \in Tests :
      (t \in todo) ~> (\E r \in returned \cup collected : r[1] = t)

\* What run_tests promises its caller, see TestVerdicts.
Verdict(t) ==
  CASE <<t, "none">> \in returned \cup collected -> "passed"
    [] <<t, "failed">> \in returned \cup collected -> "failed"
    [] <<t, "raised">> \in returned \cup collected -> "raised"
    [] OTHER -> "pending"

Verdicts == INSTANCE TestVerdicts
              WITH verdict <- [t \in Tests |-> Verdict(t)], exit <- exitCode

\* The detailed runner implements that promise.
ImplementsVerdicts == Verdicts!Spec
=============================================================================
