------------------------ MODULE TestRunnerInvariants ------------------------
(***************************************************************************)
(* The inductive invariant behind the safety properties of TestRunner, in  *)
(* layers: each is preserved given the ones before it.                     *)
(***************************************************************************)
EXTENDS TestRunner

\* A worker has a task exactly while it is not idle.
BusyInv == \A w \in Workers : (pc[w] = "idle") <=> (cur[w] = NoTest)

TypeInv == TypeOK /\ BusyInv

\* The mutexes are held exactly in the critical sections.
LockInv ==
  \A w \in Workers :
    /\ (printLock = w) <=> (pc[w] \in {"label", "banner"})
    /\ (resultsLock = w) <=> (pc[w] = "recording")

\* The counter runs at most one ahead of the console, and then the worker
\* about to print holds the newest label.
BannerInv ==
  /\ \A w \in Workers :
       pc[w] = "banner" => label[w] = started /\ started = printed + 1
  /\ (\A w \in Workers : pc[w] # "banner") => started = printed

Judged == returned \cup collected

\* A test is in one place: waiting, with one worker, or judged once.
TaskInv ==
  /\ \A w \in Workers : cur[w] \notin todo
  /\ \A v, w \in Workers : v # w /\ cur[v] = cur[w] => cur[v] = NoTest
  /\ \A r \in Judged : r[1] \notin todo /\ \A w \in Workers : cur[w] # r[1]
  /\ \A r, s \in Judged : r[1] = s[1] => r = s

\* Where the main thread is, and what must be over by then.
PastJoin == {"save", "compare", "summary", "done"}
MainInv ==
  /\ \A w \in Workers : w \notin team => pc[w] = "idle"
  /\ main \in PastJoin => \A w \in Workers : pc[w] = "idle"
  /\ main = "start" => started = 0 /\ \A w \in Workers : pc[w] = "idle"

\* The mode a location implies, and the file contents it relies on.
ModeInv ==
  \A w \in Workers :
    /\ pc[w] \in {"clean", "copy", "build", "building", "create", "creating",
                  "diff"} => ~args.existing_database
    /\ pc[w] \in {"build", "building"} => ~args.no_build
    /\ pc[w] \in {"analyze", "diff", "read", "report", "record", "recording"}
         => ~args.build_database_only

FileInv ==
  \A w \in Workers :
    /\ pc[w] \in {"build", "building", "create", "creating"}
         => working[ql_name(cur[w])] = cur[w]
    /\ pc[w] = "analyze" /\ ~args.existing_database
         => db[ql_name(cur[w])] = cur[w]
    /\ pc[w] \in {"diff", "read"} => sarif[ql_name(cur[w])] = OwnRow(cur[w])
    /\ pc[w] \in {"record", "recording"} => got[w] = OwnRow(cur[w])

\* A linker chain runs only while its worker waits for it, and fresh
\* endpoints are below the counter.
EndpointInv ==
  /\ nextEndpoint >= FirstEndpoint
  /\ \A w \in Workers :
       /\ endpoint[w] # NoEndpoint => pc[w] \in {"building", "creating"}
       /\ endpoint[w] = DefaultEndpoint => ~args.no_build
       /\ endpoint[w] < nextEndpoint
  /\ \A v, w \in Workers :
       v # w /\ endpoint[v] >= FirstEndpoint => endpoint[v] # endpoint[w]

\* The rows of a test follow its progress.
Passed(t) == <<t, "none">> \in Judged
Recording(t) == \E w \in Workers : cur[w] = t /\ pc[w] = "recording"

RowsOf(t) ==
  LET n == ql_name(t) IN
    /\ health[n] = OwnRow(t)
         \/ (health[n] = Nothing /\ ~Recording(t))
    /\ detailed[n] = OwnRow(t) \/ detailed[n] = Nothing
    /\ health[n] # Nothing => Passed(t) \/ Recording(t)
    /\ detailed[n] # Nothing => Passed(t)
    /\ Passed(t) /\ ~args.build_database_only =>
         health[n] = OwnRow(t) /\ detailed[n] = OwnRow(t)

RowInv == \A t \in Tests : RowsOf(t)

\* failed_tests, the saved tables and the exit code against the verdicts.
AllCollected ==
  \A t \in Tests : <<t, "none">> \in collected \/ <<t, "failed">> \in collected

VerdictInv ==
  /\ failed = {t \in Tests : <<t, "failed">> \in collected}
  /\ main \in {"start", "collect"} => \A t \in Tests : <<t, "raised">> \notin collected
  /\ main \in {"save", "compare", "summary"} => AllCollected
  /\ main = "compare" => args.compare_results
  /\ main = "join" => \/ AllCollected
                      \/ \E t \in Tests : <<t, "raised">> \in collected
  /\ (exitCode = "running") <=> (main # "done")
  /\ saved # Nothing =>
       /\ saved = [health |-> health, detailed |-> detailed]
       /\ main \in {"compare", "summary", "done"}
       /\ AllCollected
  /\ exitCode = "success" =>
       /\ AllCollected
       /\ ~args.compare_results /\ ~args.build_database_only => failed = {}

\* What --compare_results leaves behind: the diff file, or tables whose every
\* row is that of the baseline.
TablesSaved == saved = [health |-> health, detailed |-> detailed]
CompareInv ==
  /\ main = "compare" => TablesSaved
  /\ main = "summary" /\ args.compare_results => diffFile
  /\ args.compare_results /\ exitCode = "success" /\ ~diffFile =>
       TablesSaved /\ \A n \in Names : ~RowDiffers(n)

\* With --build_database_only no test is in failed_tests: one whose database
\* codeql could not build is in db_create_failures.
DatabaseOf(t) ==
  /\ <<t, "failed">> \notin Judged
  /\ Passed(t) /\ args.no_build /\ ~args.existing_database =>
       db[ql_name(t)] = t \/ ql_name(t) \in dbFailures
DatabaseInv == args.build_database_only => \A t \in Tests : DatabaseOf(t)

\* An exit code of 0 is given to runs without failures only.
ExitInv ==
  exitCode = "success" /\ ~args.compare_results =>
    AllCollected /\ ~SummaryFails

\* Everything together.
RunnerInv ==
  /\ LockInv /\ BannerInv /\ TaskInv /\ MainInv /\ ModeInv /\ FileInv
  /\ EndpointInv /\ RowInv /\ VerdictInv
  /\ CompareInv /\ DatabaseInv /\ ExitInv
=============================================================================
