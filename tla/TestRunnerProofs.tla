-------------------------- MODULE TestRunnerProofs --------------------------
(***************************************************************************)
(* Proofs of the safety properties of TestRunner for every set of tests,   *)
(* workers and command lines.  One lemma per layer of the invariant, one   *)
(* step per action; the theorems at the end combine them.                  *)
(***************************************************************************)
EXTENDS TestRunnerInvariants, TLAPS

\* Every test has a name in Names.
LEMMA NamesOfTests == \A t \in Tests : ql_name(t) \in Names
BY DEF Names

\* The initial state is well typed.
LEMMA TypeInit == Init => TypeInv
<1> SUFFICES ASSUME Init PROVE TypeInv
  OBVIOUS
<1>1. TypeOK
  <2>1. baselineFile \in BOOLEAN
    BY Zenon DEF Init
  <2>2. baseline \in [Names -> BaselineRows] \cup {Nothing}
    BY Zenon DEF Init
  <2>3. PICK leftover \in {Nothing, Stale} :
          /\ working = [n \in Names |-> leftover]
          /\ db = [n \in Names |-> leftover]
          /\ sarif = [n \in Names |-> leftover]
    BY DEF Init
  <2>4. /\ working \in [Names -> Contents] /\ db \in [Names -> Contents]
        /\ sarif \in [Names -> Rows]
    BY <2>3 DEF Contents, Rows
  <2>5. /\ pc \in [Workers -> Locations] /\ main \in MainLocations
        /\ cur \in [Workers -> Tests \cup {NoTest}]
        /\ label \in [Workers -> Nat] /\ endpoint \in [Workers -> Nat]
        /\ got \in [Workers -> Rows] /\ health \in [Names -> Rows]
        /\ detailed \in [Names -> Rows]
    BY DEF Init, Locations, MainLocations, Rows, NoEndpoint
  <2> QED
    BY <2>1, <2>2, <2>4, <2>5 DEF Init, TypeOK, FirstEndpoint
<1>2. BusyInv
  BY DEF Init, BusyInv
<1> QED
  BY <1>1, <1>2 DEF TypeInv

\* Every step of run_tests and its workers preserves the types.
LEMMA TypeStep == TypeInv /\ [Next]_vars => TypeInv'
<1> SUFFICES ASSUME TypeInv, [Next]_vars PROVE TypeInv'
  OBVIOUS
<1> USE SentinelAssumption, NamesOfTests
<1> USE DEF TypeInv, TypeOK, BusyInv, workerVars, lockVars, progressVars,
            fileVars, tableVars, mainVars, fixedVars, Locations,
            MainLocations, Outcomes
<1>1. ASSUME NEW w \in Workers, TakeTask(w) PROVE TypeInv'
  BY <1>1 DEF TakeTask
<1>2. ASSUME NEW w \in Workers, AcquirePrint(w) PROVE TypeInv'
  BY <1>2 DEF AcquirePrint, Goto
<1>3. ASSUME NEW w \in Workers, NextProgressLabel(w) PROVE TypeInv'
  BY <1>3 DEF NextProgressLabel, Goto
<1>4. ASSUME NEW w \in Workers, Banner(w) PROVE TypeInv'
  BY <1>4 DEF Banner, HaveDatabase, Goto, Return
<1>5. ASSUME NEW w \in Workers, SetupClean(w) PROVE TypeInv'
  BY <1>5 DEF SetupClean, Goto, Return, Contents
<1>6. ASSUME NEW w \in Workers, SetupCopy(w) PROVE TypeInv'
  BY <1>6 DEF SetupCopy, Goto, Return, Contents
<1>7. ASSUME NEW w \in Workers, MsbuildStart(w) PROVE TypeInv'
  BY <1>7 DEF MsbuildStart, Goto, DefaultEndpoint
<1>8. ASSUME NEW w \in Workers, MsbuildEnd(w) PROVE TypeInv'
  BY <1>8 DEF MsbuildEnd, RunTestNone, Goto, Return, NoEndpoint
<1>9. ASSUME NEW w \in Workers, CreateStart(w) PROVE TypeInv'
  BY <1>9 DEF CreateStart, BuildSubprocessEnv, Goto, Return, Contents
<1>10. ASSUME NEW w \in Workers, CreateEnd(w) PROVE TypeInv'
  BY <1>10 DEF CreateEnd, HaveDatabase, RunTestNone, Goto, Return, NoEndpoint
<1>11. ASSUME NEW w \in Workers, Analyze(w) PROVE TypeInv'
  BY <1>11 DEF Analyze, RunTestNone, Goto, Return, Rows
<1>12. ASSUME NEW w \in Workers, SarifDiff(w) PROVE TypeInv'
  BY <1>12 DEF SarifDiff, RunTestNone, Goto, Return
<1>13. ASSUME NEW w \in Workers, ReadSarif(w) PROVE TypeInv'
  BY <1>13 DEF ReadSarif, Goto
<1>14. ASSUME NEW w \in Workers, ReportFailure(w) PROVE TypeInv'
  BY <1>14 DEF ReportFailure, Return
<1>15. ASSUME NEW w \in Workers, RecordHealth(w) PROVE TypeInv'
  BY <1>15 DEF RecordHealth, Goto
<1>16. ASSUME NEW w \in Workers, RecordDetailed(w) PROVE TypeInv'
  BY <1>16 DEF RecordDetailed, Return
<1>17. CASE Start
  BY <1>17 DEF Start, MainOnly
<1>18. CASE Collect
  BY <1>18 DEF Collect
<1>19. CASE CollectEnd
  BY <1>19 DEF CollectEnd, MainOnly
<1>20. CASE Join
  BY <1>20 DEF Join, PoolDrained, MainOnly
<1>21. CASE Save
  BY <1>21 DEF Save, MainOnly
<1>22. CASE Compare
  BY <1>22 DEF Compare, MainOnly
<1>23. CASE Summary
  BY <1>23 DEF Summary, MainOnly
<1>24. CASE UNCHANGED vars
  BY <1>24 DEF vars
<1> QED
  BY <1>1, <1>2, <1>3, <1>4, <1>5, <1>6, <1>7, <1>8, <1>9, <1>10, <1>11,
     <1>12, <1>13, <1>14, <1>15, <1>16, <1>17, <1>18, <1>19, <1>20, <1>21,
     <1>22, <1>23, <1>24 DEF Next, WorkerStep, MainStep, Terminated

\* Every step keeps print_mutex and results_mutex with the worker inside the
\* critical section.
LEMMA LockStep ==
  TypeInv /\ LockInv /\ [Next]_vars => LockInv'
<1> SUFFICES ASSUME TypeInv, LockInv, [Next]_vars PROVE LockInv'
  OBVIOUS
<1> USE SentinelAssumption
<1> USE DEF TypeInv, TypeOK, LockInv, workerVars, lockVars, progressVars,
   fileVars, tableVars, mainVars, fixedVars
<1>1. ASSUME NEW w \in Workers, TakeTask(w) PROVE LockInv'
  BY <1>1 DEF TakeTask
<1>2. ASSUME NEW w \in Workers, AcquirePrint(w) PROVE LockInv'
  BY <1>2 DEF AcquirePrint, Goto
<1>3. ASSUME NEW w \in Workers, NextProgressLabel(w) PROVE LockInv'
  BY <1>3 DEF NextProgressLabel, Goto
<1>4. ASSUME NEW w \in Workers, Banner(w) PROVE LockInv'
  BY <1>4 DEF Banner, HaveDatabase, Goto, Return
<1>5. ASSUME NEW w \in Workers, SetupClean(w) PROVE LockInv'
  BY <1>5 DEF SetupClean, Goto, Return
<1>6. ASSUME NEW w \in Workers, SetupCopy(w) PROVE LockInv'
  BY <1>6 DEF SetupCopy, Goto, Return
<1>7. ASSUME NEW w \in Workers, MsbuildStart(w) PROVE LockInv'
  BY <1>7 DEF MsbuildStart, Goto
<1>8. ASSUME NEW w \in Workers, MsbuildEnd(w) PROVE LockInv'
  BY <1>8 DEF MsbuildEnd, RunTestNone, Goto, Return
<1>9. ASSUME NEW w \in Workers, CreateStart(w) PROVE LockInv'
  BY <1>9 DEF CreateStart, BuildSubprocessEnv, Goto, Return
<1>10. ASSUME NEW w \in Workers, CreateEnd(w) PROVE LockInv'
  BY <1>10 DEF CreateEnd, HaveDatabase, RunTestNone, Goto, Return
<1>11. ASSUME NEW w \in Workers, Analyze(w) PROVE LockInv'
  BY <1>11 DEF Analyze, RunTestNone, Goto, Return
<1>12. ASSUME NEW w \in Workers, SarifDiff(w) PROVE LockInv'
  BY <1>12 DEF SarifDiff, RunTestNone, Goto, Return
<1>13. ASSUME NEW w \in Workers, ReadSarif(w) PROVE LockInv'
  BY <1>13 DEF ReadSarif, Goto
<1>14. ASSUME NEW w \in Workers, ReportFailure(w) PROVE LockInv'
  BY <1>14 DEF ReportFailure, Return
<1>15. ASSUME NEW w \in Workers, RecordHealth(w) PROVE LockInv'
  BY <1>15 DEF RecordHealth, Goto
<1>16. ASSUME NEW w \in Workers, RecordDetailed(w) PROVE LockInv'
  BY <1>16 DEF RecordDetailed, Return
<1>17. CASE Start
  BY <1>17 DEF Start, MainOnly
<1>18. CASE Collect
  BY <1>18 DEF Collect
<1>19. CASE CollectEnd
  BY <1>19 DEF CollectEnd, MainOnly
<1>20. CASE Join
  BY <1>20 DEF Join, PoolDrained, MainOnly
<1>21. CASE Save
  BY <1>21 DEF Save, MainOnly
<1>22. CASE Compare
  BY <1>22 DEF Compare, MainOnly
<1>23. CASE Summary
  BY <1>23 DEF Summary, MainOnly
<1>24. CASE UNCHANGED vars
  BY <1>24 DEF vars
<1> QED
  BY <1>1, <1>2, <1>3, <1>4, <1>5, <1>6, <1>7, <1>8, <1>9, <1>10, <1>11,
     <1>12, <1>13, <1>14, <1>15, <1>16, <1>17, <1>18, <1>19, <1>20, <1>21,
     <1>22, <1>23, <1>24 DEF Next, WorkerStep, MainStep, Terminated

\* Every step keeps the progress counter at most one ahead of the console.
LEMMA BannerStep ==
  TypeInv /\ LockInv /\ MainInv /\ BannerInv /\ [Next]_vars => BannerInv'
<1> SUFFICES ASSUME TypeInv, LockInv, MainInv, BannerInv, [Next]_vars PROVE BannerInv'
  OBVIOUS
<1> USE SentinelAssumption
<1> USE DEF TypeInv, TypeOK, LockInv, MainInv, BannerInv, PastJoin,
   workerVars, lockVars, progressVars, fileVars, tableVars, mainVars,
   fixedVars
<1>1. ASSUME NEW w \in Workers, TakeTask(w) PROVE BannerInv'
  BY <1>1 DEF TakeTask
<1>2. ASSUME NEW w \in Workers, AcquirePrint(w) PROVE BannerInv'
  BY <1>2 DEF AcquirePrint, Goto
<1>3. ASSUME NEW w \in Workers, NextProgressLabel(w) PROVE BannerInv'
  BY <1>3 DEF NextProgressLabel, Goto
<1>4. ASSUME NEW w \in Workers, Banner(w) PROVE BannerInv'
  BY <1>4 DEF Banner, HaveDatabase, Goto, Return
<1>5. ASSUME NEW w \in Workers, SetupClean(w) PROVE BannerInv'
  BY <1>5 DEF SetupClean, Goto, Return
<1>6. ASSUME NEW w \in Workers, SetupCopy(w) PROVE BannerInv'
  BY <1>6 DEF SetupCopy, Goto, Return
<1>7. ASSUME NEW w \in Workers, MsbuildStart(w) PROVE BannerInv'
  BY <1>7 DEF MsbuildStart, Goto
<1>8. ASSUME NEW w \in Workers, MsbuildEnd(w) PROVE BannerInv'
  BY <1>8 DEF MsbuildEnd, RunTestNone, Goto, Return
<1>9. ASSUME NEW w \in Workers, CreateStart(w) PROVE BannerInv'
  BY <1>9 DEF CreateStart, BuildSubprocessEnv, Goto, Return
<1>10. ASSUME NEW w \in Workers, CreateEnd(w) PROVE BannerInv'
  BY <1>10 DEF CreateEnd, HaveDatabase, RunTestNone, Goto, Return
<1>11. ASSUME NEW w \in Workers, Analyze(w) PROVE BannerInv'
  BY <1>11 DEF Analyze, RunTestNone, Goto, Return
<1>12. ASSUME NEW w \in Workers, SarifDiff(w) PROVE BannerInv'
  BY <1>12 DEF SarifDiff, RunTestNone, Goto, Return
<1>13. ASSUME NEW w \in Workers, ReadSarif(w) PROVE BannerInv'
  BY <1>13 DEF ReadSarif, Goto
<1>14. ASSUME NEW w \in Workers, ReportFailure(w) PROVE BannerInv'
  BY <1>14 DEF ReportFailure, Return
<1>15. ASSUME NEW w \in Workers, RecordHealth(w) PROVE BannerInv'
  BY <1>15 DEF RecordHealth, Goto
<1>16. ASSUME NEW w \in Workers, RecordDetailed(w) PROVE BannerInv'
  BY <1>16 DEF RecordDetailed, Return
<1>17. CASE Start
  BY <1>17 DEF Start, MainOnly
<1>18. CASE Collect
  BY <1>18 DEF Collect
<1>19. CASE CollectEnd
  BY <1>19 DEF CollectEnd, MainOnly
<1>20. CASE Join
  BY <1>20 DEF Join, PoolDrained, MainOnly
<1>21. CASE Save
  BY <1>21 DEF Save, MainOnly
<1>22. CASE Compare
  BY <1>22 DEF Compare, MainOnly
<1>23. CASE Summary
  BY <1>23 DEF Summary, MainOnly
<1>24. CASE UNCHANGED vars
  BY <1>24 DEF vars
<1> QED
  BY <1>1, <1>2, <1>3, <1>4, <1>5, <1>6, <1>7, <1>8, <1>9, <1>10, <1>11,
     <1>12, <1>13, <1>14, <1>15, <1>16, <1>17, <1>18, <1>19, <1>20, <1>21,
     <1>22, <1>23, <1>24 DEF Next, WorkerStep, MainStep, Terminated

\* Every step keeps each test in one place: queued, with a worker, or judged.
LEMMA TaskStep ==
  TypeInv /\ TaskInv /\ [Next]_vars => TaskInv'
<1> SUFFICES ASSUME TypeInv, TaskInv, [Next]_vars PROVE TaskInv'
  OBVIOUS
<1> USE SentinelAssumption
<1> USE DEF TypeInv, TypeOK, BusyInv, TaskInv, Judged, workerVars, lockVars,
   progressVars, fileVars, tableVars, mainVars, fixedVars
<1>1. ASSUME NEW w \in Workers, TakeTask(w) PROVE TaskInv'
  BY <1>1 DEF TakeTask
<1>2. ASSUME NEW w \in Workers, AcquirePrint(w) PROVE TaskInv'
  BY <1>2 DEF AcquirePrint, Goto
<1>3. ASSUME NEW w \in Workers, NextProgressLabel(w) PROVE TaskInv'
  BY <1>3 DEF NextProgressLabel, Goto
<1>4. ASSUME NEW w \in Workers, Banner(w) PROVE TaskInv'
  BY <1>4 DEF Banner, HaveDatabase, Goto, Return
<1>5. ASSUME NEW w \in Workers, SetupClean(w) PROVE TaskInv'
  BY <1>5 DEF SetupClean, Goto, Return
<1>6. ASSUME NEW w \in Workers, SetupCopy(w) PROVE TaskInv'
  BY <1>6 DEF SetupCopy, Goto, Return
<1>7. ASSUME NEW w \in Workers, MsbuildStart(w) PROVE TaskInv'
  BY <1>7 DEF MsbuildStart, Goto
<1>8. ASSUME NEW w \in Workers, MsbuildEnd(w) PROVE TaskInv'
  BY <1>8 DEF MsbuildEnd, RunTestNone, Goto, Return
<1>9. ASSUME NEW w \in Workers, CreateStart(w) PROVE TaskInv'
  BY <1>9 DEF CreateStart, BuildSubprocessEnv, Goto, Return
<1>10. ASSUME NEW w \in Workers, CreateEnd(w) PROVE TaskInv'
  BY <1>10 DEF CreateEnd, HaveDatabase, RunTestNone, Goto, Return
<1>11. ASSUME NEW w \in Workers, Analyze(w) PROVE TaskInv'
  BY <1>11 DEF Analyze, RunTestNone, Goto, Return
<1>12. ASSUME NEW w \in Workers, SarifDiff(w) PROVE TaskInv'
  BY <1>12 DEF SarifDiff, RunTestNone, Goto, Return
<1>13. ASSUME NEW w \in Workers, ReadSarif(w) PROVE TaskInv'
  BY <1>13 DEF ReadSarif, Goto
<1>14. ASSUME NEW w \in Workers, ReportFailure(w) PROVE TaskInv'
  BY <1>14 DEF ReportFailure, Return
<1>15. ASSUME NEW w \in Workers, RecordHealth(w) PROVE TaskInv'
  BY <1>15 DEF RecordHealth, Goto
<1>16. ASSUME NEW w \in Workers, RecordDetailed(w) PROVE TaskInv'
  BY <1>16 DEF RecordDetailed, Return
<1>17. CASE Start
  BY <1>17 DEF Start, MainOnly
<1>18. CASE Collect
  BY <1>18 DEF Collect
<1>19. CASE CollectEnd
  BY <1>19 DEF CollectEnd, MainOnly
<1>20. CASE Join
  BY <1>20 DEF Join, PoolDrained, MainOnly
<1>21. CASE Save
  BY <1>21 DEF Save, MainOnly
<1>22. CASE Compare
  BY <1>22 DEF Compare, MainOnly
<1>23. CASE Summary
  BY <1>23 DEF Summary, MainOnly
<1>24. CASE UNCHANGED vars
  BY <1>24 DEF vars
<1> QED
  BY <1>1, <1>2, <1>3, <1>4, <1>5, <1>6, <1>7, <1>8, <1>9, <1>10, <1>11,
     <1>12, <1>13, <1>14, <1>15, <1>16, <1>17, <1>18, <1>19, <1>20, <1>21,
     <1>22, <1>23, <1>24 DEF Next, WorkerStep, MainStep, Terminated

\* Every step keeps idle workers idle outside the pool's lifetime.
LEMMA MainInvStep ==
  TypeInv /\ MainInv /\ [Next]_vars => MainInv'
<1> SUFFICES ASSUME TypeInv, MainInv, [Next]_vars PROVE MainInv'
  OBVIOUS
<1> USE SentinelAssumption
<1> USE DEF TypeInv, TypeOK, MainInv, PastJoin, BusyInv, workerVars, lockVars,
   progressVars, fileVars, tableVars, mainVars, fixedVars
<1>1. ASSUME NEW w \in Workers, TakeTask(w) PROVE MainInv'
  BY <1>1 DEF TakeTask
<1>2. ASSUME NEW w \in Workers, AcquirePrint(w) PROVE MainInv'
  BY <1>2 DEF AcquirePrint, Goto
<1>3. ASSUME NEW w \in Workers, NextProgressLabel(w) PROVE MainInv'
  BY <1>3 DEF NextProgressLabel, Goto
<1>4. ASSUME NEW w \in Workers, Banner(w) PROVE MainInv'
  BY <1>4 DEF Banner, HaveDatabase, Goto, Return
<1>5. ASSUME NEW w \in Workers, SetupClean(w) PROVE MainInv'
  BY <1>5 DEF SetupClean, Goto, Return
<1>6. ASSUME NEW w \in Workers, SetupCopy(w) PROVE MainInv'
  BY <1>6 DEF SetupCopy, Goto, Return
<1>7. ASSUME NEW w \in Workers, MsbuildStart(w) PROVE MainInv'
  BY <1>7 DEF MsbuildStart, Goto
<1>8. ASSUME NEW w \in Workers, MsbuildEnd(w) PROVE MainInv'
  BY <1>8 DEF MsbuildEnd, RunTestNone, Goto, Return
<1>9. ASSUME NEW w \in Workers, CreateStart(w) PROVE MainInv'
  BY <1>9 DEF CreateStart, BuildSubprocessEnv, Goto, Return
<1>10. ASSUME NEW w \in Workers, CreateEnd(w) PROVE MainInv'
  BY <1>10 DEF CreateEnd, HaveDatabase, RunTestNone, Goto, Return
<1>11. ASSUME NEW w \in Workers, Analyze(w) PROVE MainInv'
  BY <1>11 DEF Analyze, RunTestNone, Goto, Return
<1>12. ASSUME NEW w \in Workers, SarifDiff(w) PROVE MainInv'
  BY <1>12 DEF SarifDiff, RunTestNone, Goto, Return
<1>13. ASSUME NEW w \in Workers, ReadSarif(w) PROVE MainInv'
  BY <1>13 DEF ReadSarif, Goto
<1>14. ASSUME NEW w \in Workers, ReportFailure(w) PROVE MainInv'
  BY <1>14 DEF ReportFailure, Return
<1>15. ASSUME NEW w \in Workers, RecordHealth(w) PROVE MainInv'
  BY <1>15 DEF RecordHealth, Goto
<1>16. ASSUME NEW w \in Workers, RecordDetailed(w) PROVE MainInv'
  BY <1>16 DEF RecordDetailed, Return
<1>17. CASE Start
  BY <1>17 DEF Start, MainOnly
<1>18. CASE Collect
  BY <1>18 DEF Collect
<1>19. CASE CollectEnd
  BY <1>19 DEF CollectEnd, MainOnly
<1>20. CASE Join
  BY <1>20 DEF Join, PoolDrained, MainOnly
<1>21. CASE Save
  BY <1>21 DEF Save, MainOnly
<1>22. CASE Compare
  BY <1>22 DEF Compare, MainOnly
<1>23. CASE Summary
  BY <1>23 DEF Summary, MainOnly
<1>24. CASE UNCHANGED vars
  BY <1>24 DEF vars
<1> QED
  BY <1>1, <1>2, <1>3, <1>4, <1>5, <1>6, <1>7, <1>8, <1>9, <1>10, <1>11,
     <1>12, <1>13, <1>14, <1>15, <1>16, <1>17, <1>18, <1>19, <1>20, <1>21,
     <1>22, <1>23, <1>24 DEF Next, WorkerStep, MainStep, Terminated

\* Every step keeps the link between locations and command-line options.
LEMMA ModeStep ==
  TypeInv /\ ModeInv /\ [Next]_vars => ModeInv'
<1> SUFFICES ASSUME TypeInv, ModeInv, [Next]_vars PROVE ModeInv'
  OBVIOUS
<1> USE DEF TypeInv, TypeOK, ModeInv, BusyInv, workerVars, lockVars,
   progressVars, fileVars, tableVars, mainVars, fixedVars
<1>1. ASSUME NEW w \in Workers, TakeTask(w) PROVE ModeInv'
  BY <1>1 DEF TakeTask
<1>2. ASSUME NEW w \in Workers, AcquirePrint(w) PROVE ModeInv'
  BY <1>2 DEF AcquirePrint, Goto
<1>3. ASSUME NEW w \in Workers, NextProgressLabel(w) PROVE ModeInv'
  BY <1>3 DEF NextProgressLabel, Goto
<1>4. ASSUME NEW w \in Workers, Banner(w) PROVE ModeInv'
  BY <1>4 DEF Banner, HaveDatabase, Goto, Return
<1>5. ASSUME NEW w \in Workers, SetupClean(w) PROVE ModeInv'
  BY <1>5 DEF SetupClean, Goto, Return
<1>6. ASSUME NEW w \in Workers, SetupCopy(w) PROVE ModeInv'
  BY <1>6 DEF SetupCopy, Goto, Return
<1>7. ASSUME NEW w \in Workers, MsbuildStart(w) PROVE ModeInv'
  BY <1>7 DEF MsbuildStart, Goto
<1>8. ASSUME NEW w \in Workers, MsbuildEnd(w) PROVE ModeInv'
  BY <1>8 DEF MsbuildEnd, RunTestNone, Goto, Return
<1>9. ASSUME NEW w \in Workers, CreateStart(w) PROVE ModeInv'
  BY <1>9 DEF CreateStart, BuildSubprocessEnv, Goto, Return
<1>10. ASSUME NEW w \in Workers, CreateEnd(w) PROVE ModeInv'
  BY <1>10 DEF CreateEnd, HaveDatabase, RunTestNone, Goto, Return
<1>11. ASSUME NEW w \in Workers, Analyze(w) PROVE ModeInv'
  BY <1>11 DEF Analyze, RunTestNone, Goto, Return
<1>12. ASSUME NEW w \in Workers, SarifDiff(w) PROVE ModeInv'
  BY <1>12 DEF SarifDiff, RunTestNone, Goto, Return
<1>13. ASSUME NEW w \in Workers, ReadSarif(w) PROVE ModeInv'
  BY <1>13 DEF ReadSarif, Goto
<1>14. ASSUME NEW w \in Workers, ReportFailure(w) PROVE ModeInv'
  BY <1>14 DEF ReportFailure, Return
<1>15. ASSUME NEW w \in Workers, RecordHealth(w) PROVE ModeInv'
  BY <1>15 DEF RecordHealth, Goto
<1>16. ASSUME NEW w \in Workers, RecordDetailed(w) PROVE ModeInv'
  BY <1>16 DEF RecordDetailed, Return
<1>17. CASE Start
  BY <1>17 DEF Start, MainOnly
<1>18. CASE Collect
  BY <1>18 DEF Collect
<1>19. CASE CollectEnd
  BY <1>19 DEF CollectEnd, MainOnly
<1>20. CASE Join
  BY <1>20 DEF Join, PoolDrained, MainOnly
<1>21. CASE Save
  BY <1>21 DEF Save, MainOnly
<1>22. CASE Compare
  BY <1>22 DEF Compare, MainOnly
<1>23. CASE Summary
  BY <1>23 DEF Summary, MainOnly
<1>24. CASE UNCHANGED vars
  BY <1>24 DEF vars
<1> QED
  BY <1>1, <1>2, <1>3, <1>4, <1>5, <1>6, <1>7, <1>8, <1>9, <1>10, <1>11,
     <1>12, <1>13, <1>14, <1>15, <1>16, <1>17, <1>18, <1>19, <1>20, <1>21,
     <1>22, <1>23, <1>24 DEF Next, WorkerStep, MainStep, Terminated

\* Every step keeps fresh endpoints distinct and below the counter.
LEMMA EndpointStep ==
  TypeInv /\ ModeInv /\ EndpointInv /\ [Next]_vars => EndpointInv'
<1> SUFFICES ASSUME TypeInv, ModeInv, EndpointInv, [Next]_vars PROVE EndpointInv'
  OBVIOUS
<1> USE SentinelAssumption
<1> USE DEF TypeInv, TypeOK, ModeInv, EndpointInv, NoEndpoint,
   DefaultEndpoint, FirstEndpoint, workerVars, lockVars, progressVars,
   fileVars, tableVars, mainVars, fixedVars
<1>1. ASSUME NEW w \in Workers, TakeTask(w) PROVE EndpointInv'
  BY <1>1 DEF TakeTask
<1>2. ASSUME NEW w \in Workers, AcquirePrint(w) PROVE EndpointInv'
  BY <1>2 DEF AcquirePrint, Goto
<1>3. ASSUME NEW w \in Workers, NextProgressLabel(w) PROVE EndpointInv'
  BY <1>3 DEF NextProgressLabel, Goto
<1>4. ASSUME NEW w \in Workers, Banner(w) PROVE EndpointInv'
  BY <1>4 DEF Banner, HaveDatabase, Goto, Return
<1>5. ASSUME NEW w \in Workers, SetupClean(w) PROVE EndpointInv'
  BY <1>5 DEF SetupClean, Goto, Return
<1>6. ASSUME NEW w \in Workers, SetupCopy(w) PROVE EndpointInv'
  BY <1>6 DEF SetupCopy, Goto, Return
<1>7. ASSUME NEW w \in Workers, MsbuildStart(w) PROVE EndpointInv'
  BY <1>7 DEF MsbuildStart, Goto
<1>8. ASSUME NEW w \in Workers, MsbuildEnd(w) PROVE EndpointInv'
  BY <1>8 DEF MsbuildEnd, RunTestNone, Goto, Return
<1>9. ASSUME NEW w \in Workers, CreateStart(w) PROVE EndpointInv'
  BY <1>9 DEF CreateStart, BuildSubprocessEnv, Goto, Return
<1>10. ASSUME NEW w \in Workers, CreateEnd(w) PROVE EndpointInv'
  BY <1>10 DEF CreateEnd, HaveDatabase, RunTestNone, Goto, Return
<1>11. ASSUME NEW w \in Workers, Analyze(w) PROVE EndpointInv'
  BY <1>11 DEF Analyze, RunTestNone, Goto, Return
<1>12. ASSUME NEW w \in Workers, SarifDiff(w) PROVE EndpointInv'
  BY <1>12 DEF SarifDiff, RunTestNone, Goto, Return
<1>13. ASSUME NEW w \in Workers, ReadSarif(w) PROVE EndpointInv'
  BY <1>13 DEF ReadSarif, Goto
<1>14. ASSUME NEW w \in Workers, ReportFailure(w) PROVE EndpointInv'
  BY <1>14 DEF ReportFailure, Return
<1>15. ASSUME NEW w \in Workers, RecordHealth(w) PROVE EndpointInv'
  BY <1>15 DEF RecordHealth, Goto
<1>16. ASSUME NEW w \in Workers, RecordDetailed(w) PROVE EndpointInv'
  BY <1>16 DEF RecordDetailed, Return
<1>17. CASE Start
  BY <1>17 DEF Start, MainOnly
<1>18. CASE Collect
  BY <1>18 DEF Collect
<1>19. CASE CollectEnd
  BY <1>19 DEF CollectEnd, MainOnly
<1>20. CASE Join
  BY <1>20 DEF Join, PoolDrained, MainOnly
<1>21. CASE Save
  BY <1>21 DEF Save, MainOnly
<1>22. CASE Compare
  BY <1>22 DEF Compare, MainOnly
<1>23. CASE Summary
  BY <1>23 DEF Summary, MainOnly
<1>24. CASE UNCHANGED vars
  BY <1>24 DEF vars
<1> QED
  BY <1>1, <1>2, <1>3, <1>4, <1>5, <1>6, <1>7, <1>8, <1>9, <1>10, <1>11,
     <1>12, <1>13, <1>14, <1>15, <1>16, <1>17, <1>18, <1>19, <1>20, <1>21,
     <1>22, <1>23, <1>24 DEF Next, WorkerStep, MainStep, Terminated

\* Every step keeps the files under a worker's name those of its own test.
LEMMA FileStep ==
  NamesDistinct /\ TypeInv /\ TaskInv /\ ModeInv /\ FileInv /\ [Next]_vars => FileInv'
<1> SUFFICES ASSUME NamesDistinct, TypeInv, TaskInv, ModeInv, FileInv, [Next]_vars PROVE FileInv'
  OBVIOUS
<1> USE SentinelAssumption, NamesOfTests
<1> USE DEF NamesDistinct, TypeInv, TypeOK, BusyInv, TaskInv, ModeInv,
   FileInv, OwnRow, workerVars, lockVars, progressVars, fileVars, tableVars,
   mainVars, fixedVars
<1>1. ASSUME NEW w \in Workers, TakeTask(w) PROVE FileInv'
  BY <1>1 DEF TakeTask
<1>2. ASSUME NEW w \in Workers, AcquirePrint(w) PROVE FileInv'
  BY <1>2 DEF AcquirePrint, Goto
<1>3. ASSUME NEW w \in Workers, NextProgressLabel(w) PROVE FileInv'
  BY <1>3 DEF NextProgressLabel, Goto
<1>4. ASSUME NEW w \in Workers, Banner(w) PROVE FileInv'
  BY <1>4 DEF Banner, HaveDatabase, Goto, Return
<1>5. ASSUME NEW w \in Workers, SetupClean(w) PROVE FileInv'
  BY <1>5 DEF SetupClean, Goto, Return
<1>6. ASSUME NEW w \in Workers, SetupCopy(w) PROVE FileInv'
  BY <1>6 DEF SetupCopy, Goto, Return
<1>7. ASSUME NEW w \in Workers, MsbuildStart(w) PROVE FileInv'
  BY <1>7 DEF MsbuildStart, Goto
<1>8. ASSUME NEW w \in Workers, MsbuildEnd(w) PROVE FileInv'
  BY <1>8 DEF MsbuildEnd, RunTestNone, Goto, Return
<1>9. ASSUME NEW w \in Workers, CreateStart(w) PROVE FileInv'
  BY <1>9 DEF CreateStart, BuildSubprocessEnv, Goto, Return
<1>10. ASSUME NEW w \in Workers, CreateEnd(w) PROVE FileInv'
  BY <1>10 DEF CreateEnd, HaveDatabase, RunTestNone, Goto, Return
<1>11. ASSUME NEW w \in Workers, Analyze(w) PROVE FileInv'
  BY <1>11 DEF Analyze, RunTestNone, Goto, Return
<1>12. ASSUME NEW w \in Workers, SarifDiff(w) PROVE FileInv'
  BY <1>12 DEF SarifDiff, RunTestNone, Goto, Return
<1>13. ASSUME NEW w \in Workers, ReadSarif(w) PROVE FileInv'
  BY <1>13 DEF ReadSarif, Goto
<1>14. ASSUME NEW w \in Workers, ReportFailure(w) PROVE FileInv'
  BY <1>14 DEF ReportFailure, Return
<1>15. ASSUME NEW w \in Workers, RecordHealth(w) PROVE FileInv'
  BY <1>15 DEF RecordHealth, Goto
<1>16. ASSUME NEW w \in Workers, RecordDetailed(w) PROVE FileInv'
  BY <1>16 DEF RecordDetailed, Return
<1>17. CASE Start
  BY <1>17 DEF Start, MainOnly
<1>18. CASE Collect
  BY <1>18 DEF Collect
<1>19. CASE CollectEnd
  BY <1>19 DEF CollectEnd, MainOnly
<1>20. CASE Join
  BY <1>20 DEF Join, PoolDrained, MainOnly
<1>21. CASE Save
  BY <1>21 DEF Save, MainOnly
<1>22. CASE Compare
  BY <1>22 DEF Compare, MainOnly
<1>23. CASE Summary
  BY <1>23 DEF Summary, MainOnly
<1>24. CASE UNCHANGED vars
  BY <1>24 DEF vars
<1> QED
  BY <1>1, <1>2, <1>3, <1>4, <1>5, <1>6, <1>7, <1>8, <1>9, <1>10, <1>11,
     <1>12, <1>13, <1>14, <1>15, <1>16, <1>17, <1>18, <1>19, <1>20, <1>21,
     <1>22, <1>23, <1>24 DEF Next, WorkerStep, MainStep, Terminated


\* A result is the pair of its test and its outcome.
LEMMA PairEta ==
  \A r \in Tests \X Outcomes : r[1] \in Tests /\ r = <<r[1], r[2]>>
OBVIOUS

\* A step that touches neither the rows of t, nor its verdict, nor who is
\* recording it, preserves RowsOf(t).
LEMMA RowFrame ==
  ASSUME NEW t \in Tests, RowsOf(t), args' = args,
         health'[ql_name(t)] = health[ql_name(t)],
         detailed'[ql_name(t)] = detailed[ql_name(t)],
         Passed(t)' <=> Passed(t), Recording(t)' <=> Recording(t)
  PROVE  RowsOf(t)'
BY DEF RowsOf, OwnRow

\* A worker that moves between two other places than the recording one.
LEMMA GotoFrame ==
  ASSUME TypeInv, NEW t \in Tests, RowsOf(t), NEW w \in Workers, NEW l,
         Goto(w, l), pc[w] # "recording", l # "recording",
         UNCHANGED <<args, collected, health, detailed>>
  PROVE  RowsOf(t)'
<1>1. Passed(t)' <=> Passed(t)
  BY DEF Goto, Passed, Judged
<1>2. Recording(t)' <=> Recording(t)
  BY DEF Goto, Recording, TypeInv, TypeOK
<1> QED
  BY <1>1, <1>2, RowFrame

\* A worker that returns without having recorded anything.
LEMMA ReturnFrame ==
  ASSUME TypeInv, TaskInv, NEW t \in Tests, RowsOf(t), NEW w \in Workers,
         NEW o, Return(w, o), pc[w] # "recording", pc[w] # "idle",
         o # "none" \/ args.build_database_only,
         UNCHANGED <<args, collected, health, detailed>>
  PROVE  RowsOf(t)'
<1>1. Recording(t)' <=> Recording(t)
  BY SentinelAssumption DEF Return, Recording, TypeInv, TypeOK
<1>2. CASE o # "none"
  <2>1. <<t, "none">> # <<cur[w], o>>
    BY <1>2
  <2>2. Passed(t)' <=> Passed(t)
    BY <2>1 DEF Return, Passed, Judged
  <2> QED
    BY <1>1, <2>2, RowFrame
<1>3. CASE args.build_database_only
  <2>1. Passed(t) => Passed(t)'
    BY DEF Return, Passed, Judged
  <2> QED
    BY <1>1, <1>3, <2>1 DEF RowsOf, OwnRow
<1> QED
  BY <1>2, <1>3

\* Every step keeps the rows of a test in line with its verdict.
LEMMA RowStep ==
  /\ NamesDistinct /\ TypeInv /\ TaskInv /\ ModeInv /\ LockInv /\ FileInv
  /\ RowInv /\ [Next]_vars
  => RowInv'
<1> SUFFICES ASSUME NamesDistinct, TypeInv, TaskInv, ModeInv, LockInv,
                    FileInv, RowInv, [Next]_vars, NEW t \in Tests
             PROVE  RowsOf(t)'
  BY DEF RowInv
<1>0. RowsOf(t)
  BY DEF RowInv
<1> USE DEF mainVars, fixedVars, tableVars
<1>1. ASSUME NEW w \in Workers, TakeTask(w) PROVE RowsOf(t)'
  <2>1. Passed(t)' <=> Passed(t)
    BY <1>1 DEF TakeTask, Passed, Judged
  <2>2. Recording(t)' <=> Recording(t)
    BY <1>1 DEF TakeTask, Recording, TypeInv, TypeOK
  <2> QED
    BY <1>0, <1>1, <2>1, <2>2, RowFrame DEF TakeTask
<1>2. ASSUME NEW w \in Workers, AcquirePrint(w) PROVE RowsOf(t)'
  BY <1>0, <1>2, GotoFrame DEF AcquirePrint
<1>3. ASSUME NEW w \in Workers, NextProgressLabel(w) PROVE RowsOf(t)'
  BY <1>0, <1>3, GotoFrame DEF NextProgressLabel
<1>4. ASSUME NEW w \in Workers, Banner(w) PROVE RowsOf(t)'
  BY <1>0, <1>4, GotoFrame, ReturnFrame DEF Banner, HaveDatabase
<1>5. ASSUME NEW w \in Workers, SetupClean(w) PROVE RowsOf(t)'
  BY <1>0, <1>5, GotoFrame, ReturnFrame DEF SetupClean
<1>6. ASSUME NEW w \in Workers, SetupCopy(w) PROVE RowsOf(t)'
  BY <1>0, <1>6, GotoFrame, ReturnFrame DEF SetupCopy
<1>7. ASSUME NEW w \in Workers, MsbuildStart(w) PROVE RowsOf(t)'
  BY <1>0, <1>7, GotoFrame DEF MsbuildStart
<1>8. ASSUME NEW w \in Workers, MsbuildEnd(w) PROVE RowsOf(t)'
  BY <1>0, <1>8, GotoFrame, ReturnFrame DEF MsbuildEnd, RunTestNone
<1>9. ASSUME NEW w \in Workers, CreateStart(w) PROVE RowsOf(t)'
  BY <1>0, <1>9, GotoFrame, ReturnFrame DEF CreateStart, BuildSubprocessEnv
<1>10. ASSUME NEW w \in Workers, CreateEnd(w) PROVE RowsOf(t)'
  BY <1>0, <1>10, GotoFrame, ReturnFrame DEF CreateEnd, HaveDatabase,
     RunTestNone
<1>11. ASSUME NEW w \in Workers, Analyze(w) PROVE RowsOf(t)'
  BY <1>0, <1>11, GotoFrame, ReturnFrame DEF Analyze, RunTestNone
<1>12. ASSUME NEW w \in Workers, SarifDiff(w) PROVE RowsOf(t)'
  BY <1>0, <1>12, GotoFrame, ReturnFrame DEF SarifDiff, RunTestNone
<1>13. ASSUME NEW w \in Workers, ReadSarif(w) PROVE RowsOf(t)'
  BY <1>0, <1>13, GotoFrame DEF ReadSarif
<1>14. ASSUME NEW w \in Workers, ReportFailure(w) PROVE RowsOf(t)'
  BY <1>0, <1>14, ReturnFrame DEF ReportFailure
<1>15. ASSUME NEW w \in Workers, RecordHealth(w) PROVE RowsOf(t)'
  <2>1. /\ pc' = [pc EXCEPT ![w] = "recording"]
        /\ health' = [health EXCEPT ![ql_name(cur[w])] = got[w]]
        /\ UNCHANGED <<args, cur, returned, collected, detailed>>
        /\ pc[w] = "record"
    BY <1>15 DEF RecordHealth, Goto
  <2>2. cur[w] \in Tests /\ got[w] = OwnRow(cur[w])
    BY <2>1 DEF TypeInv, TypeOK, BusyInv, FileInv
  <2>3. Passed(t)' <=> Passed(t)
    BY <2>1 DEF Passed, Judged
  <2>4. CASE cur[w] = t
    <3>1. health'[ql_name(t)] = OwnRow(t)
      BY <2>1, <2>2, <2>4, NamesOfTests DEF TypeInv, TypeOK
    <3>2. Recording(t)'
      BY <2>1, <2>4 DEF Recording, TypeInv, TypeOK
    <3> QED
      BY <1>0, <2>1, <2>3, <3>1, <3>2 DEF RowsOf, OwnRow
  <2>5. CASE cur[w] # t
    <3>1. health'[ql_name(t)] = health[ql_name(t)]
      BY <2>1, <2>2, <2>5 DEF NamesDistinct, TypeInv, TypeOK
    <3>2. Recording(t)' <=> Recording(t)
      BY <2>1, <2>5 DEF Recording, TypeInv, TypeOK
    <3> QED
      BY <1>0, <2>1, <2>3, <3>1, <3>2, RowFrame
  <2> QED
    BY <2>4, <2>5
<1>16. ASSUME NEW w \in Workers, RecordDetailed(w) PROVE RowsOf(t)'
  <2>1. /\ pc' = [pc EXCEPT ![w] = "idle"]
        /\ cur' = [cur EXCEPT ![w] = NoTest]
        /\ returned' = returned \cup {<<cur[w], "none">>}
        /\ detailed' = [detailed EXCEPT ![ql_name(cur[w])] = got[w]]
        /\ UNCHANGED <<args, collected, health>>
        /\ pc[w] = "recording"
    BY <1>16 DEF RecordDetailed, Return
  <2>2. cur[w] \in Tests /\ got[w] = OwnRow(cur[w])
    BY <2>1 DEF TypeInv, TypeOK, BusyInv, FileInv
  <2>3. CASE cur[w] = t
    <3>1. detailed'[ql_name(t)] = OwnRow(t)
      BY <2>1, <2>2, <2>3, NamesOfTests DEF TypeInv, TypeOK
    <3>2. Passed(t)'
      BY <2>1, <2>3 DEF Passed, Judged
    <3>3. Recording(t)
      BY <2>1, <2>3 DEF Recording
    <3>4. health'[ql_name(t)] = OwnRow(t)
      BY <1>0, <2>1, <3>3 DEF RowsOf
    <3> QED
      BY <2>1, <3>1, <3>2, <3>4 DEF RowsOf, OwnRow
  <2>4. CASE cur[w] # t
    <3>1. detailed'[ql_name(t)] = detailed[ql_name(t)]
      BY <2>1, <2>2, <2>4 DEF NamesDistinct, TypeInv, TypeOK
    <3>2. <<t, "none">> # <<cur[w], "none">>
      BY <2>4
    <3>3. Passed(t)' <=> Passed(t)
      BY <2>1, <3>2 DEF Passed, Judged
    <3>4. Recording(t)' <=> Recording(t)
      BY <2>1, <2>4, SentinelAssumption DEF Recording, TypeInv, TypeOK
    <3> QED
      BY <1>0, <2>1, <3>1, <3>3, <3>4, RowFrame
  <2> QED
    BY <2>3, <2>4
<1>17. ASSUME MainStep \/ UNCHANGED vars PROVE RowsOf(t)'
  <2>1. UNCHANGED <<args, pc, cur, health, detailed>>
    BY <1>17 DEF MainStep, Start, Collect, CollectEnd, Join, PoolDrained, Save, Compare,
       Summary, MainOnly, workerVars, vars
  <2>2. Judged' = Judged
    BY <1>17 DEF MainStep, Start, Collect, CollectEnd, Join, PoolDrained, Save, Compare,
       Summary, MainOnly, vars, Judged
  <2>3. (Passed(t)' <=> Passed(t)) /\ (Recording(t)' <=> Recording(t))
    BY <2>1, <2>2 DEF Passed, Recording
  <2> QED
    BY <1>0, <2>1, <2>3, RowFrame
<1> QED
  BY <1>1, <1>2, <1>3, <1>4, <1>5, <1>6, <1>7, <1>8, <1>9, <1>10, <1>11,
     <1>12, <1>13, <1>14, <1>15, <1>16, <1>17
     DEF Next, WorkerStep, Terminated

\* Every step keeps failed_tests, the saved tables and the exit code in line
\* with the collected verdicts.
LEMMA VerdictStep ==
  TypeInv /\ TaskInv /\ MainInv /\ VerdictInv /\ [Next]_vars => VerdictInv'
<1> SUFFICES ASSUME TypeInv, TaskInv, MainInv, VerdictInv, [Next]_vars
             PROVE  VerdictInv'
  OBVIOUS
<1> USE DEF VerdictInv, AllCollected
<1>1. ASSUME NEW w \in Workers, TakeTask(w) \/ WorkerStep(w)
      PROVE  VerdictInv'
  <2>1. UNCHANGED <<args, main, collected, failed, saved, exitCode>>
    BY <1>1 DEF WorkerStep, TakeTask, AcquirePrint, NextProgressLabel, Banner,
       SetupClean, SetupCopy, MsbuildStart, MsbuildEnd, CreateStart, BuildSubprocessEnv,
       CreateEnd, Analyze, SarifDiff, ReadSarif, ReportFailure, RecordHealth,
       RecordDetailed, mainVars, fixedVars
  <2>2. main \notin PastJoin
    BY <1>1 DEF MainInv, PastJoin, WorkerStep, TakeTask, AcquirePrint,
       NextProgressLabel, Banner, SetupClean, SetupCopy, MsbuildStart,
       MsbuildEnd, CreateStart, BuildSubprocessEnv, CreateEnd, Analyze, SarifDiff, ReadSarif,
       ReportFailure, RecordHealth, RecordDetailed
  <2> QED
    BY <2>1, <2>2 DEF PastJoin
<1>2. CASE Start
  BY <1>2 DEF Start, MainOnly, fixedVars, tableVars
<1>3. CASE Collect
  <2>1. PICK r \in returned :
          /\ collected' = collected \cup {r}
          /\ main' = IF r[2] = "raised" THEN "join" ELSE main
          /\ failed' = IF r[2] = "failed" THEN failed \cup {r[1]} ELSE failed
    BY <1>3 DEF Collect
  <2>2. r[1] \in Tests /\ r = <<r[1], r[2]>>
    BY PairEta, <2>1 DEF TypeInv, TypeOK
  <2>3. main = "collect" /\ UNCHANGED <<args, saved, exitCode>>
    BY <1>3 DEF Collect, fixedVars
  <2>4. saved = Nothing /\ exitCode = "running"
    BY <2>3
  <2>5. failed' = {t \in Tests : <<t, "failed">> \in collected'}
    BY <2>1, <2>2
  <2>6. main' \in {"start", "collect"} =>
          \A t \in Tests : <<t, "raised">> \notin collected'
    <3> SUFFICES ASSUME main' \in {"start", "collect"}, NEW t \in Tests
                 PROVE  <<t, "raised">> \notin collected'
      OBVIOUS
    <3>1. r[2] # "raised"
      BY <2>1
    <3>2. <<t, "raised">> # r
      BY <2>2, <3>1
    <3> QED
      BY <2>1, <2>3, <3>2
  <2>7. main' = "join" => \E t \in Tests : <<t, "raised">> \in collected'
    BY <2>1, <2>2, <2>3
  <2> QED
    BY <2>1, <2>3, <2>4, <2>5, <2>6, <2>7
<1>4. CASE CollectEnd
  <2>1. AllCollected
    <3> SUFFICES ASSUME NEW t \in Tests
                 PROVE  <<t, "none">> \in collected \/ <<t, "failed">> \in collected
      OBVIOUS
    <3>1. PICK r \in collected : r[1] = t
      BY <1>4 DEF CollectEnd
    <3>2. r = <<t, r[2]>> /\ r[2] \in Outcomes
      BY <3>1, PairEta DEF TypeInv, TypeOK
    <3>3. r[2] # "raised"
      BY <1>4, <3>1, <3>2 DEF CollectEnd
    <3> QED
      BY <3>1, <3>2, <3>3 DEF Outcomes
  <2> QED
    BY <1>4, <2>1 DEF CollectEnd, MainOnly, fixedVars, tableVars
<1>5. CASE Join
  <2>1. (\E r \in collected : r[2] = "raised") <=>
          \E t \in Tests : <<t, "raised">> \in collected
    <3>1. ASSUME NEW r \in collected, r[2] = "raised"
          PROVE  \E t \in Tests : <<t, "raised">> \in collected
      <4>1. r[1] \in Tests /\ r = <<r[1], "raised">>
        BY <3>1, PairEta DEF TypeInv, TypeOK
      <4> QED
        BY <4>1
    <3>2. ASSUME NEW t \in Tests, <<t, "raised">> \in collected
          PROVE  \E r \in collected : r[2] = "raised"
      <4>1. <<t, "raised">>[2] = "raised"
        OBVIOUS
      <4> QED
        BY <3>2, <4>1
    <3> QED
      BY <3>1, <3>2
  <2>2. UNCHANGED <<args, collected, failed, saved, health, detailed>>
    BY <1>5 DEF Join, PoolDrained, MainOnly, fixedVars, tableVars
  <2>3. CASE \E r \in collected : r[2] = "raised"
    BY <1>5, <2>2, <2>3 DEF Join, PoolDrained
  <2>4. CASE ~\E r \in collected : r[2] = "raised"
    BY <1>5, <2>1, <2>2, <2>4 DEF Join, PoolDrained
  <2> QED
    BY <2>3, <2>4
<1>6. CASE Save
  BY <1>6, SentinelAssumption DEF Save, MainOnly, fixedVars, tableVars
<1>7. CASE Compare
  <2>1. UNCHANGED <<args, collected, failed, saved, health, detailed>>
    BY <1>7 DEF Compare, MainOnly, fixedVars, tableVars
  <2>2. \/ main' = "done" /\ exitCode' = "failure"
        \/ main' = "summary" /\ exitCode' = exitCode
        \/ main' = "done" /\ exitCode' = "success"
    BY <1>7 DEF Compare
  <2>3. main = "compare"
    BY <1>7 DEF Compare
  <2> QED
    BY <2>1, <2>2, <2>3
<1>8. CASE Summary
  BY <1>8 DEF Summary, SummaryFails, MainOnly, fixedVars, tableVars
<1>9. CASE UNCHANGED vars
  BY <1>9 DEF vars, mainVars, fixedVars, tableVars
<1> QED
  BY <1>1, <1>2, <1>3, <1>4, <1>5, <1>6, <1>7, <1>8, <1>9
     DEF Next, MainStep, Terminated

\* A step of a worker is one before the barrier of pool.join, and touches
\* nothing of the main thread's.
LEMMA WorkerFrame ==
  ASSUME MainInv, NEW w \in Workers, TakeTask(w) \/ WorkerStep(w)
  PROVE  /\ UNCHANGED <<mainVars, fixedVars>>
         /\ main \notin PastJoin
<1>1. UNCHANGED <<mainVars, fixedVars>>
  BY DEF WorkerStep, TakeTask, AcquirePrint, NextProgressLabel, Banner,
     SetupClean, SetupCopy, MsbuildStart, MsbuildEnd, CreateStart, BuildSubprocessEnv,
     CreateEnd, Analyze, SarifDiff, ReadSarif, ReportFailure, RecordHealth,
     RecordDetailed
<1>2. main \notin PastJoin
  BY DEF MainInv, PastJoin, WorkerStep, TakeTask, AcquirePrint,
     NextProgressLabel, Banner, SetupClean, SetupCopy, MsbuildStart,
     MsbuildEnd, CreateStart, BuildSubprocessEnv, CreateEnd, Analyze, SarifDiff, ReadSarif,
     ReportFailure, RecordHealth, RecordDetailed
<1> QED
  BY <1>1, <1>2

\* Every step keeps the outcome of the comparison in line with the tables.
LEMMA CompareStep ==
  TypeInv /\ MainInv /\ VerdictInv /\ CompareInv /\ [Next]_vars => CompareInv'
<1> SUFFICES ASSUME TypeInv, MainInv, VerdictInv, CompareInv, [Next]_vars
             PROVE  CompareInv'
  OBVIOUS
<1>0. /\ main \in {"start", "collect", "join", "save", "compare", "summary"}
           => exitCode # "success"
      /\ main = "compare" => args.compare_results
  BY DEF VerdictInv
<1> USE DEF CompareInv, TablesSaved, RowDiffers, HasRow, tableVars, fixedVars
<1>1. ASSUME NEW w \in Workers, TakeTask(w) \/ WorkerStep(w)
      PROVE  CompareInv'
  <2>1. UNCHANGED <<mainVars, fixedVars>> /\ main \notin PastJoin
    BY <1>1, WorkerFrame
  <2> QED
    BY <1>0, <2>1 DEF PastJoin, mainVars, TypeInv, TypeOK, MainLocations
<1>2. CASE Start
  BY <1>0, <1>2 DEF Start, MainOnly
<1>3. CASE Collect
  BY <1>0, <1>3 DEF Collect
<1>4. CASE CollectEnd
  BY <1>0, <1>4 DEF CollectEnd, MainOnly
<1>5. CASE Join
  BY <1>0, <1>5 DEF Join, MainOnly
<1>6. CASE Save
  BY <1>0, <1>6 DEF Save, MainOnly
<1>7. CASE Compare
  <2>1. main = "compare" /\ UNCHANGED <<args, saved, health, detailed, baseline>>
    BY <1>7 DEF Compare, MainOnly
  <2>2. TablesSaved /\ exitCode # "success"
    BY <1>0, <2>1
  <2>3. \/ main' = "done" /\ exitCode' = "failure"
        \/ main' = "summary" /\ diffFile' /\ exitCode' = exitCode
        \/ /\ main' = "done" /\ exitCode' = "success"
           /\ \A n \in Names : ~RowDiffers(n)
    BY <1>7 DEF Compare
  <2> QED
    BY <2>1, <2>2, <2>3
<1>8. CASE Summary
  BY <1>0, <1>8 DEF Summary, MainOnly
<1>9. CASE UNCHANGED vars
  BY <1>9 DEF vars, mainVars
<1> QED
  BY <1>1, <1>2, <1>3, <1>4, <1>5, <1>6, <1>7, <1>8, <1>9
     DEF Next, MainStep, Terminated

\* Every step keeps the exit code in line with the failures of the summary.
LEMMA ExitStep ==
  TypeInv /\ MainInv /\ VerdictInv /\ ExitInv /\ [Next]_vars => ExitInv'
<1> SUFFICES ASSUME TypeInv, MainInv, VerdictInv, ExitInv, [Next]_vars
             PROVE  ExitInv'
  OBVIOUS
<1>0. main # "done" => exitCode # "success"
  BY DEF VerdictInv
<1> USE DEF ExitInv, SummaryFails, AllCollected, fixedVars
<1>1. ASSUME NEW w \in Workers, TakeTask(w) \/ WorkerStep(w)
      PROVE  ExitInv'
  <2>1. UNCHANGED <<mainVars, fixedVars>> /\ main \notin PastJoin
    BY <1>1, WorkerFrame
  <2> QED
    BY <1>0, <2>1 DEF PastJoin, mainVars
<1>2. CASE Start \/ Collect \/ CollectEnd \/ Join \/ Save
  BY <1>0, <1>2 DEF Start, Collect, CollectEnd, Join, Save, MainOnly
<1>3. CASE Compare
  BY <1>0, <1>3 DEF Compare, MainOnly, VerdictInv
<1>4. CASE Summary
  BY <1>4 DEF Summary, MainOnly, VerdictInv
<1>5. CASE UNCHANGED vars
  BY <1>5 DEF vars, mainVars
<1> QED
  BY <1>1, <1>2, <1>3, <1>4, <1>5 DEF Next, MainStep, Terminated

\* A step that judges nobody and leaves the database of t alone.
LEMMA DatabaseFrame ==
  ASSUME NEW t \in Tests, DatabaseOf(t), Judged' \subseteq Judged, args' = args,
         db'[ql_name(t)] = db[ql_name(t)], dbFailures \subseteq dbFailures'
  PROVE  DatabaseOf(t)'
BY DEF DatabaseOf, Passed

\* A worker that goes on, or gives up with an exception, on a test that is not
\* judged yet.
LEMMA DatabaseUnjudged ==
  ASSUME NamesDistinct, TypeInv, TaskInv, NEW t \in Tests, DatabaseOf(t),
         NEW w \in Workers, pc[w] # "idle",
         (\E l : Goto(w, l)) \/ Return(w, "raised"),
         UNCHANGED <<args, collected, dbFailures>>,
         \A n \in Names : n # ql_name(cur[w]) => db'[n] = db[n]
  PROVE  DatabaseOf(t)'
<1>0. cur[w] \in Tests
  BY DEF TypeInv, TypeOK, BusyInv
<1>1. <<t, "raised">> # <<t, "none">> /\ <<t, "raised">> # <<t, "failed">>
  OBVIOUS
<1>2. /\ <<t, "failed">> \in Judged' => <<t, "failed">> \in Judged
      /\ <<t, "none">> \in Judged' => <<t, "none">> \in Judged
  BY <1>1 DEF Goto, Return, Judged
<1>3. CASE t = cur[w]
  <2>1. <<t, "none">>[1] = t
    OBVIOUS
  <2>2. <<t, "none">> \notin Judged
    BY <1>3, <2>1 DEF TaskInv
  <2> QED
    BY <1>2, <2>2 DEF DatabaseOf, Passed
<1>4. CASE t # cur[w]
  <2>1. db'[ql_name(t)] = db[ql_name(t)]
    BY <1>0, <1>4, NamesOfTests DEF NamesDistinct
  <2> QED
    BY <1>2, <2>1 DEF DatabaseOf, Passed
<1> QED
  BY <1>3, <1>4

\* A worker that returns from a run that builds only a database: there was one
\* to begin with, msbuild failed, or the database is there or known to have
\* failed.
LEMMA DatabaseReturned ==
  ASSUME NamesDistinct, TypeInv, TaskInv, NEW t \in Tests, DatabaseOf(t),
         NEW w \in Workers, pc[w] # "idle", Return(w, "none"),
         UNCHANGED <<args, collected>>, dbFailures \subseteq dbFailures',
         \A n \in Names : n # ql_name(cur[w]) => db'[n] = db[n],
         \/ args.existing_database \/ ~args.no_build
         \/ db'[ql_name(cur[w])] = cur[w]
         \/ ql_name(cur[w]) \in dbFailures'
  PROVE  DatabaseOf(t)'
<1>0. cur[w] \in Tests
  BY DEF TypeInv, TypeOK, BusyInv
<1>1. <<t, "failed">> # <<cur[w], "none">>
  OBVIOUS
<1>2. <<t, "failed">> \notin Judged'
  BY <1>1 DEF Return, Judged, DatabaseOf
<1>3. CASE t = cur[w]
  BY <1>2, <1>3 DEF DatabaseOf
<1>4. CASE t # cur[w]
  <2>1. db'[ql_name(t)] = db[ql_name(t)]
    BY <1>0, <1>4, NamesOfTests DEF NamesDistinct
  <2>2. <<t, "none">> # <<cur[w], "none">>
    BY <1>4
  <2>3. Passed(t)' => Passed(t)
    BY <2>2 DEF Return, Passed, Judged
  <2> QED
    BY <1>2, <2>1, <2>3 DEF DatabaseOf
<1> QED
  BY <1>3, <1>4

\* Every step of a run that builds only databases keeps them where the
\* verdicts say.
LEMMA DatabaseStep ==
  /\ NamesDistinct /\ TypeInv /\ TaskInv /\ ModeInv /\ FileInv
  /\ DatabaseInv /\ [Next]_vars
  => DatabaseInv'
<1> SUFFICES ASSUME NamesDistinct, TypeInv, TaskInv, ModeInv, FileInv,
                    DatabaseInv, [Next]_vars, args'.build_database_only,
                    NEW t \in Tests
             PROVE  DatabaseOf(t)'
  BY DEF DatabaseInv
<1>0. args' = args /\ DatabaseOf(t) /\ args.build_database_only
  <2>1. args' = args
    BY DEF Next, WorkerStep, MainStep, Terminated, TakeTask, AcquirePrint,
       NextProgressLabel, Banner, SetupClean, SetupCopy, MsbuildStart,
       MsbuildEnd, CreateStart, CreateEnd, Analyze, SarifDiff, ReadSarif,
       ReportFailure, RecordHealth, RecordDetailed, Start, Collect, CollectEnd,
       Join, Save, Compare, Summary, MainOnly, fixedVars, vars
  <2> QED
    BY <2>1 DEF DatabaseInv
<1> USE DEF mainVars, fixedVars, fileVars
<1>1. ASSUME NEW w \in Workers, TakeTask(w) PROVE DatabaseOf(t)'
  BY <1>0, <1>1, DatabaseFrame DEF TakeTask, Judged
<1>2. ASSUME NEW w \in Workers, AcquirePrint(w) \/ NextProgressLabel(w)
      PROVE  DatabaseOf(t)'
  BY <1>0, <1>2, DatabaseUnjudged DEF AcquirePrint, NextProgressLabel
<1>3. ASSUME NEW w \in Workers, Banner(w) PROVE DatabaseOf(t)'
  <2>1. CASE args.existing_database
    BY <1>0, <1>3, <2>1, DatabaseReturned DEF Banner, HaveDatabase
  <2>2. CASE ~args.existing_database
    BY <1>0, <1>3, <2>2, DatabaseUnjudged DEF Banner
  <2> QED
    BY <2>1, <2>2
<1>4. ASSUME NEW w \in Workers, SetupClean(w) \/ SetupCopy(w) \/ MsbuildStart(w)
      PROVE  DatabaseOf(t)'
  BY <1>0, <1>4, DatabaseUnjudged DEF SetupClean, SetupCopy, MsbuildStart
<1>5. ASSUME NEW w \in Workers, MsbuildEnd(w) PROVE DatabaseOf(t)'
  <2>1. ~args.no_build
    BY <1>5 DEF MsbuildEnd, ModeInv
  <2> QED
    BY <1>0, <1>5, <2>1, DatabaseUnjudged, DatabaseReturned
       DEF MsbuildEnd, RunTestNone
<1>6. ASSUME NEW w \in Workers, CreateStart(w) PROVE DatabaseOf(t)'
  <2>1. \A n \in Names : n # ql_name(cur[w]) => db'[n] = db[n]
    BY <1>6 DEF CreateStart, TypeInv, TypeOK
  <2> QED
    BY <1>0, <1>6, <2>1, DatabaseUnjudged DEF CreateStart
<1>7. ASSUME NEW w \in Workers, CreateEnd(w) PROVE DatabaseOf(t)'
  <2>1. cur[w] \in Tests /\ working[ql_name(cur[w])] = cur[w]
    BY <1>7 DEF CreateEnd, TypeInv, TypeOK, BusyInv, FileInv
  <2>2. /\ Return(w, "none") /\ pc[w] # "idle"
        /\ dbFailures \subseteq dbFailures'
        /\ UNCHANGED <<args, collected>>
    BY <1>0, <1>7 DEF CreateEnd, HaveDatabase, RunTestNone
  <2>3. \/ db' = [db EXCEPT ![ql_name(cur[w])] = cur[w]]
        \/ db' = db /\ ql_name(cur[w]) \in dbFailures'
    BY <1>7, <2>1 DEF CreateEnd
  <2>4. \A n \in Names : n # ql_name(cur[w]) => db'[n] = db[n]
    BY <2>3 DEF TypeInv, TypeOK
  <2>5. \/ db'[ql_name(cur[w])] = cur[w]
        \/ ql_name(cur[w]) \in dbFailures'
    BY <2>1, <2>3, NamesOfTests DEF TypeInv, TypeOK
  <2> QED
    BY <1>0, <2>2, <2>4, <2>5, DatabaseReturned
<1>8. ASSUME NEW w \in Workers,
             Analyze(w) \/ SarifDiff(w) \/ ReadSarif(w) \/ ReportFailure(w)
               \/ RecordHealth(w) \/ RecordDetailed(w)
      PROVE  FALSE
  BY <1>0, <1>8 DEF ModeInv, Analyze, SarifDiff, ReadSarif, ReportFailure,
     RecordHealth, RecordDetailed
<1>9. ASSUME MainStep \/ UNCHANGED vars PROVE DatabaseOf(t)'
  <2>1. UNCHANGED <<db, dbFailures>>
    BY <1>9 DEF MainStep, Start, Collect, CollectEnd, Join, Save, Compare,
       Summary, MainOnly, vars
  <2>2. Judged' = Judged
    BY <1>9 DEF MainStep, Start, Collect, CollectEnd, Join, Save, Compare,
       Summary, MainOnly, vars, Judged
  <2> QED
    BY <1>0, <2>1, <2>2, DatabaseFrame
<1> QED
  BY <1>1, <1>2, <1>3, <1>4, <1>5, <1>6, <1>7, <1>8, <1>9
     DEF Next, WorkerStep, Terminated

-----------------------------------------------------------------------------
\* The initial state satisfies the invariant.
LEMMA InvInit == Init => RunnerInv
<1> SUFFICES ASSUME Init PROVE RunnerInv
  OBVIOUS
<1>1. LockInv /\ BannerInv /\ MainInv /\ ModeInv
  BY SentinelAssumption DEF Init, LockInv, BannerInv, MainInv, ModeInv,
     PastJoin
<1>2. TaskInv
  BY SentinelAssumption DEF Init, TaskInv, Judged
<1>3. FileInv /\ EndpointInv
  BY DEF Init, FileInv, EndpointInv, NoEndpoint, DefaultEndpoint,
     FirstEndpoint
<1>4. RowInv
  BY NamesOfTests DEF Init, RowInv, RowsOf, Recording, Passed, Judged
<1>5. VerdictInv /\ CompareInv /\ ExitInv
  BY DEF Init, VerdictInv, CompareInv, ExitInv
<1>6. DatabaseInv
  BY DEF Init, DatabaseInv, DatabaseOf, Passed, Judged
<1> QED
  BY <1>1, <1>2, <1>3, <1>4, <1>5, <1>6 DEF RunnerInv

\* TypeOK: every variable keeps its type in every reachable state of
\* build_create_analyze_test.py's run_tests, for any number of tests, workers
\* and command lines.
THEOREM TypeCorrect == Spec => []TypeOK
<1>1. Spec => []TypeInv
  BY TypeInit, TypeStep, PTL DEF Spec
<1>2. TypeInv => TypeOK
  BY DEF TypeInv
<1> QED
  BY <1>1, <1>2, PTL

\* The inductive invariant: given that query directories have distinct names,
\* every layer of RunnerInv holds in every reachable state.
THEOREM InvCorrect == ASSUME NamesDistinct PROVE Spec => [](TypeInv /\ RunnerInv)
<1>1. Init => TypeInv /\ RunnerInv
  BY TypeInit, InvInit
<1>2. TypeInv /\ RunnerInv /\ [Next]_vars => (TypeInv /\ RunnerInv)'
  <2> SUFFICES ASSUME TypeInv, RunnerInv, [Next]_vars
               PROVE  TypeInv' /\ RunnerInv'
    OBVIOUS
  <2>1. /\ LockInv /\ BannerInv /\ TaskInv /\ MainInv /\ ModeInv /\ FileInv
        /\ EndpointInv /\ RowInv /\ VerdictInv
        /\ CompareInv /\ DatabaseInv /\ ExitInv
    BY DEF RunnerInv
  <2>2. TypeInv'
    BY TypeStep
  <2>3. LockInv' /\ BannerInv' /\ TaskInv' /\ MainInv' /\ ModeInv'
    BY <2>1, LockStep, BannerStep, TaskStep, MainInvStep, ModeStep
  <2>4. FileInv' /\ EndpointInv' /\ RowInv' /\ VerdictInv'
    BY <2>1, FileStep, EndpointStep, RowStep, VerdictStep
  <2>5. CompareInv' /\ DatabaseInv' /\ ExitInv'
    BY <2>1, CompareStep, DatabaseStep, ExitStep
  <2> QED
    BY <2>2, <2>3, <2>4, <2>5 DEF RunnerInv
<1> QED
  BY <1>1, <1>2, PTL DEF Spec

\* RowsFaithful: the workers are isolated as _run_single_test claims, provided
\* no two query files share a directory name.
THEOREM Isolation == ASSUME NamesDistinct PROVE Spec => []RowsFaithful
<1>1. RunnerInv => RowsFaithful
  BY DEF RunnerInv, RowInv, RowsOf, RowsFaithful
<1> QED
  BY <1>1, InvCorrect, PTL

\* SavedComplete: the result files account for every test exactly once.
THEOREM SavedCorrect == ASSUME NamesDistinct PROVE Spec => []SavedComplete
<1>1. TypeInv /\ RunnerInv => SavedComplete
  <2> SUFFICES ASSUME TypeInv, RunnerInv, saved # Nothing,
                      ~args.build_database_only, NEW t \in Tests
               PROVE  /\ (t \in failed) <=> (saved.health[ql_name(t)] = Nothing)
                      /\ saved.health[ql_name(t)] = saved.detailed[ql_name(t)]
    BY DEF SavedComplete
  <2>1. saved.health = health /\ saved.detailed = detailed /\ AllCollected
    BY DEF RunnerInv, VerdictInv
  <2>2. RowsOf(t)
    BY DEF RunnerInv, RowInv
  <2>3. t \in failed <=> <<t, "failed">> \in collected
    BY DEF RunnerInv, VerdictInv
  <2>4. OwnRow(t) # Nothing
    BY SentinelAssumption DEF OwnRow
  <2>5. CASE <<t, "none">> \in collected
    <3>1. Passed(t)
      BY <2>5 DEF Passed, Judged
    <3>2. <<t, "failed">> \notin collected
      <4>1. <<t, "none">>[1] = <<t, "failed">>[1] /\ <<t, "none">> # <<t, "failed">>
        OBVIOUS
      <4> QED
        BY <2>5, <4>1 DEF RunnerInv, TaskInv, Judged
    <3> QED
      BY <2>1, <2>2, <2>3, <2>4, <3>1, <3>2 DEF RowsOf
  <2>6. CASE <<t, "none">> \notin collected
    <3>1. <<t, "failed">> \in collected
      BY <2>1, <2>6 DEF AllCollected
    <3>2. ~Passed(t)
      <4>1. <<t, "none">>[1] = <<t, "failed">>[1] /\ <<t, "none">> # <<t, "failed">>
        OBVIOUS
      <4> QED
        BY <3>1, <4>1 DEF RunnerInv, TaskInv, Judged, Passed
    <3>3. ~Recording(t)
      <4>1. <<t, "failed">> \in Judged /\ <<t, "failed">>[1] = t
        BY <3>1 DEF Judged
      <4> QED
        BY <4>1 DEF RunnerInv, TaskInv, Recording
    <3> QED
      BY <2>1, <2>2, <2>3, <3>1, <3>2, <3>3 DEF RowsOf
  <2> QED
    BY <2>5, <2>6
<1> QED
  BY <1>1, InvCorrect, PTL

\* SuccessMeansEveryTestRan: without --compare_results, and with --no_build
\* where only databases are wanted, exit code 0 means that every test has its
\* row or its database.
THEOREM SuccessCorrect ==
  ASSUME NamesDistinct,
         \A m \in Modes : ~m.compare_results
                         /\ (m.build_database_only => m.no_build)
  PROVE  Spec => []SuccessMeansEveryTestRan
<1>1. TypeInv /\ RunnerInv => SuccessMeansEveryTestRan
  <2> SUFFICES ASSUME TypeInv, RunnerInv, exitCode = "success",
                      NEW t \in Tests
               PROVE  IF args.build_database_only
                        THEN args.existing_database \/ db[ql_name(t)] = t
                        ELSE detailed[ql_name(t)] = OwnRow(t)
    BY DEF SuccessMeansEveryTestRan, TypeInv, TypeOK
  <2>1. ~args.compare_results /\ (args.build_database_only => args.no_build)
    BY DEF TypeInv, TypeOK
  <2>2. AllCollected /\ ~SummaryFails
    BY <2>1 DEF RunnerInv, ExitInv
  <2>3. <<t, "failed">> \notin collected
    BY <2>2 DEF RunnerInv, VerdictInv, SummaryFails, DatabaseInv, DatabaseOf, Judged
  <2>4. Passed(t)
    BY <2>2, <2>3 DEF AllCollected, Passed, Judged
  <2>5. CASE args.build_database_only
    BY <2>1, <2>2, <2>4, <2>5
       DEF RunnerInv, DatabaseInv, DatabaseOf, SummaryFails
  <2>6. CASE ~args.build_database_only
    BY <2>4, <2>6 DEF RunnerInv, RowInv, RowsOf
  <2> QED
    BY <2>5, <2>6
<1> QED
  BY <1>1, InvCorrect, PTL

\* RegressionNeverSilent: with --compare_results, exit code 0 without a diff
\* file means that no test the baseline knows has failed or changed.
THEOREM RegressionsNeverSilent ==
  ASSUME NamesDistinct PROVE Spec => []RegressionNeverSilent
<1>1. TypeInv /\ RunnerInv => RegressionNeverSilent
  <2> SUFFICES ASSUME TypeInv, RunnerInv, args.compare_results,
                      exitCode = "success", ~diffFile, NEW t \in Tests,
                      baseline[ql_name(t)] # "absent"
               PROVE  /\ baseline[ql_name(t)] = "same"
                      /\ detailed[ql_name(t)] = OwnRow(t)
    BY DEF RegressionNeverSilent
  <2>1. TablesSaved /\ ~RowDiffers(ql_name(t))
    BY NamesOfTests DEF RunnerInv, CompareInv
  <2>2. HasRow(ql_name(t)) /\ baseline[ql_name(t)] = "same"
    BY <2>1 DEF RowDiffers
  <2>3. detailed[ql_name(t)] # Nothing
    BY <2>1, <2>2 DEF HasRow, TablesSaved
  <2> QED
    BY <2>2, <2>3 DEF RunnerInv, RowInv, RowsOf
<1> QED
  BY <1>1, InvCorrect, PTL

\* PrivatePdbServer: with --no_build, as in CI, no two linker chains that run
\* at the same time share a mspdbsrv endpoint, however many workers there are.
THEOREM EndpointsPrivate ==
  ASSUME NamesDistinct, \A m \in Modes : m.no_build
  PROVE  Spec => []PrivatePdbServer
<1>1. TypeInv /\ RunnerInv => PrivatePdbServer
  <2> SUFFICES ASSUME TypeInv, RunnerInv, NEW v \in Workers, NEW w \in Workers,
                      v # w, endpoint[v] # NoEndpoint
               PROVE  endpoint[v] # endpoint[w]
    BY DEF PrivatePdbServer
  <2>1. args.no_build /\ endpoint[v] \in Nat
    BY DEF TypeInv, TypeOK
  <2>2. endpoint[v] # DefaultEndpoint
    BY <2>1 DEF RunnerInv, EndpointInv
  <2>3. endpoint[v] >= FirstEndpoint
    BY <2>1, <2>2 DEF NoEndpoint, DefaultEndpoint, FirstEndpoint
  <2> QED
    BY <2>3 DEF RunnerInv, EndpointInv
<1> QED
  BY <1>1, InvCorrect, PTL

\* BannersInOrder: the "[N/total]" prefixes reach the console in order.
THEOREM BannersCorrect == ASSUME NamesDistinct PROVE Spec => BannersInOrder
<1>1. TypeInv /\ RunnerInv /\ [Next]_vars
        => [printed' # printed => printed' = printed + 1]_vars
  <2> SUFFICES ASSUME RunnerInv, Next, printed' # printed
               PROVE  printed' = printed + 1
    BY DEF vars, progressVars
  <2>1. PICK w \in Workers : Banner(w)
    BY DEF Next, WorkerStep, MainStep, Terminated, TakeTask, AcquirePrint,
       NextProgressLabel, SetupClean, SetupCopy, MsbuildStart, MsbuildEnd,
       CreateStart, BuildSubprocessEnv, CreateEnd, Analyze, SarifDiff, ReadSarif, ReportFailure,
       RecordHealth, RecordDetailed, Start, Collect, CollectEnd, Join, PoolDrained, Save,
       Compare, Summary, vars, progressVars
  <2> QED
    BY <2>1 DEF Banner, RunnerInv, BannerInv
<1> QED
  BY <1>1, InvCorrect, PTL DEF Spec, BannersInOrder

\* FrozenAfterJoin: pool.join() is a barrier for every shared table and file.
THEOREM FrozenCorrect == ASSUME NamesDistinct PROVE Spec => FrozenAfterJoin
<1>1. TypeInv /\ RunnerInv /\ [Next]_vars
        => [(main \in {"save", "compare", "summary", "done"}) =>
            (UNCHANGED <<workerVars, fileVars, tableVars, dbFailures>>)]_vars
  <2> SUFFICES ASSUME RunnerInv, Next,
                      main \in {"save", "compare", "summary", "done"}
               PROVE  UNCHANGED <<workerVars, fileVars, tableVars, dbFailures>>
    BY DEF vars
  <2>1. \A w \in Workers : pc[w] = "idle"
    BY DEF RunnerInv, MainInv, PastJoin
  <2>2. \A w \in Workers : ~TakeTask(w) /\ ~WorkerStep(w)
    BY <2>1 DEF WorkerStep, TakeTask, AcquirePrint, NextProgressLabel, Banner,
       SetupClean, SetupCopy, MsbuildStart, MsbuildEnd, CreateStart, BuildSubprocessEnv,
       CreateEnd, Analyze, SarifDiff, ReadSarif, ReportFailure, RecordHealth,
       RecordDetailed
  <2>3. MainStep \/ UNCHANGED vars
    BY <2>2 DEF Next, Terminated
  <2> QED
    BY <2>3 DEF MainStep, Start, Collect, CollectEnd, Join, PoolDrained, Save, Compare,
       Summary, MainOnly, vars
<1> QED
  BY <1>1, InvCorrect, PTL DEF Spec, FrozenAfterJoin

-----------------------------------------------------------------------------
(* The runner implements TestVerdicts.                                      *)
VerdictTable == [t \in Tests |-> Verdict(t)]

\* The verdict of a test depends on the results that exist, not on whether the
\* main thread has taken them from the queue.
LEMMA SameVerdicts ==
  ASSUME Judged' = Judged PROVE VerdictTable' = VerdictTable
BY DEF VerdictTable, Verdict, Judged

\* The table, case by case, while a test has at most one result.
VerdictCases ==
  /\ DOMAIN VerdictTable = Tests
  /\ VerdictTable = [t \in Tests |-> VerdictTable[t]]
  /\ \A t \in Tests :
       /\ <<t, "none">> \in Judged => VerdictTable[t] = "passed"
       /\ <<t, "failed">> \in Judged => VerdictTable[t] = "failed"
       /\ <<t, "raised">> \in Judged => VerdictTable[t] = "raised"
       /\ (\A o \in Outcomes : <<t, o>> \notin Judged) =>
            VerdictTable[t] = "pending"
LEMMA VerdictCasesHold == TaskInv => VerdictCases
<1> SUFFICES ASSUME TaskInv PROVE VerdictCases
  OBVIOUS
<1>1. /\ DOMAIN VerdictTable = Tests
      /\ VerdictTable = [t \in Tests |-> VerdictTable[t]]
      /\ \A t \in Tests : VerdictTable[t] = Verdict(t)
  BY DEF VerdictTable
<1>2. ASSUME NEW t \in Tests
      PROVE  /\ <<t, "none">> \in Judged => Verdict(t) = "passed"
             /\ <<t, "failed">> \in Judged => Verdict(t) = "failed"
             /\ <<t, "raised">> \in Judged => Verdict(t) = "raised"
             /\ (\A o \in Outcomes : <<t, o>> \notin Judged) =>
                  Verdict(t) = "pending"
  <2>1. \A o, p \in Outcomes :
          <<t, o>> \in Judged /\ <<t, p>> \in Judged => o = p
    <3> SUFFICES ASSUME NEW o \in Outcomes, NEW p \in Outcomes,
                        <<t, o>> \in Judged, <<t, p>> \in Judged
                 PROVE  o = p
      OBVIOUS
    <3>1. <<t, o>>[1] = <<t, p>>[1]
      OBVIOUS
    <3>2. <<t, o>> = <<t, p>>
      BY <3>1 DEF TaskInv
    <3> QED
      BY <3>2
  <2>2. CASE <<t, "none">> \in Judged
    BY <2>1, <2>2 DEF Verdict, Judged, Outcomes
  <2>3. CASE <<t, "failed">> \in Judged
    BY <2>1, <2>3 DEF Verdict, Judged, Outcomes
  <2>4. CASE <<t, "raised">> \in Judged
    BY <2>1, <2>4 DEF Verdict, Judged, Outcomes
  <2>5. CASE \A o \in Outcomes : <<t, o>> \notin Judged
    BY <2>5 DEF Verdict, Judged, Outcomes
  <2> QED
    BY <2>2, <2>3, <2>4, <2>5 DEF Outcomes
<1> QED
  BY <1>1, <1>2 DEF VerdictCases

\* A worker step leaves the results alone or adds one of the worker's test.
LEMMA WorkerJudges ==
  ASSUME NEW w \in Workers, TakeTask(w) \/ WorkerStep(w)
  PROVE  \/ Judged' = Judged
         \/ /\ collected' = collected /\ pc[w] # "idle"
            /\ \E o \in Outcomes : Return(w, o)
<1> USE DEF Goto, mainVars, Outcomes, Judged
<1>1. CASE TakeTask(w)
  BY <1>1 DEF TakeTask
<1>2. CASE AcquirePrint(w) \/ NextProgressLabel(w) \/ MsbuildStart(w)
             \/ ReadSarif(w) \/ RecordHealth(w)
  BY <1>2 DEF AcquirePrint, NextProgressLabel, MsbuildStart, ReadSarif, RecordHealth
<1>3. CASE Banner(w) \/ MsbuildEnd(w) \/ CreateEnd(w)
  BY <1>3 DEF Banner, MsbuildEnd, CreateEnd, HaveDatabase, RunTestNone
<1>4. CASE SetupClean(w) \/ SetupCopy(w) \/ CreateStart(w)
  BY <1>4 DEF SetupClean, SetupCopy, CreateStart
<1>5. CASE Analyze(w) \/ SarifDiff(w)
  BY <1>5 DEF Analyze, SarifDiff, RunTestNone
<1>6. CASE ReportFailure(w) \/ RecordDetailed(w)
  BY <1>6 DEF ReportFailure, RecordDetailed
<1> QED
  BY <1>1, <1>2, <1>3, <1>4, <1>5, <1>6 DEF WorkerStep

\* A worker that returns gives its test a verdict it did not have.
LEMMA ReturnJudges ==
  ASSUME TypeInv, TaskInv, TaskInv', NEW w \in Workers, NEW o \in Outcomes,
         Return(w, o), collected' = collected, pc[w] # "idle"
  PROVE  \E t \in Tests :
           /\ VerdictTable[t] = "pending"
           /\ \E v \in {"passed", "failed", "raised"} :
                VerdictTable' = [VerdictTable EXCEPT ![t] = v]
<1> DEFINE t == cur[w]
           v == IF o = "none" THEN "passed" ELSE o
<1>1. t \in Tests /\ Judged' = Judged \cup {<<t, o>>}
  BY DEF TypeInv, TypeOK, BusyInv, Return, Judged
<1>2. \A p \in Outcomes : <<t, p>>[1] = t
  OBVIOUS
<1>3. \A p \in Outcomes : <<t, p>> \notin Judged
  BY <1>2 DEF TaskInv
<1>4. VerdictCases /\ VerdictCases'
  BY VerdictCasesHold, PTL
<1>5. VerdictTable[t] = "pending"
  BY <1>1, <1>3, <1>4 DEF VerdictCases
<1>6. \A p \in Outcomes : <<t, p>> \in Judged' <=> p = o
  BY <1>1, <1>3
<1>7. VerdictTable'[t] = v
  BY <1>1, <1>4, <1>6 DEF VerdictCases, Outcomes
<1>8. ASSUME NEW u \in Tests, u # t PROVE VerdictTable'[u] = VerdictTable[u]
  <2>1. \A p \in Outcomes : <<u, p>> \in Judged' <=> <<u, p>> \in Judged
    BY <1>1, <1>8
  <2> QED
    BY <1>4, <2>1 DEF VerdictCases, Outcomes
<1>9. VerdictTable' = [VerdictTable EXCEPT ![t] = v]
  BY <1>1, <1>4, <1>7, <1>8 DEF VerdictCases
<1>10. v \in {"passed", "failed", "raised"}
  BY DEF Outcomes
<1> QED
  BY <1>1, <1>5, <1>9, <1>10

\* The main thread takes results from the queue, and adds none.
LEMMA MainKeepsJudged ==
  ASSUME MainStep \/ UNCHANGED vars PROVE Judged' = Judged
<1>1. CASE Collect
  <2>1. PICK r \in returned :
          /\ returned' = returned \ {r}
          /\ collected' = collected \cup {r}
    BY <1>1 DEF Collect
  <2> QED
    BY <2>1 DEF Judged
<1> QED
  BY <1>1 DEF MainStep, Start, CollectEnd, Join, PoolDrained, Save, Compare,
     Summary, MainOnly, vars, mainVars, Judged

\* A process that exits with success has seen every test pass.
AllPassed == \A t \in Tests : VerdictTable[t] = "passed"
SuccessMeansPassed ==
  TypeInv /\ RunnerInv /\ exitCode = "success" /\ ~args.compare_results
    => AllPassed
LEMMA SuccessJudged == SuccessMeansPassed
<1> SUFFICES ASSUME TypeInv, RunnerInv, exitCode = "success",
                    ~args.compare_results, NEW t \in Tests
             PROVE  VerdictTable[t] = "passed"
  BY DEF SuccessMeansPassed, AllPassed
<1>1. AllCollected /\ ~SummaryFails
  BY DEF RunnerInv, ExitInv
<1>2. <<t, "failed">> \notin collected
  BY <1>1 DEF RunnerInv, VerdictInv, SummaryFails, DatabaseInv, DatabaseOf, Judged,
     TypeInv, TypeOK
<1>3. VerdictCases
  BY VerdictCasesHold DEF RunnerInv
<1> QED
  BY <1>1, <1>2, <1>3 DEF AllCollected, VerdictCases, Judged

\* ImplementsVerdicts: whatever the workers do, a caller of the script sees a
\* run of TestVerdicts, provided the results are not compared with a baseline.
THEOREM VerdictsImplemented ==
  ASSUME NamesDistinct, \A m \in Modes : ~m.compare_results
  PROVE  Spec => ImplementsVerdicts
<1> DEFINE Stutter == VerdictTable' = VerdictTable /\ exitCode' = exitCode
<1>1. Init => Verdicts!Init
  BY DEF Init, Verdict, Verdicts!Init
<1>2. TypeInv /\ RunnerInv /\ TypeInv' /\ RunnerInv' /\ [Next]_vars
        => [Verdicts!Next]_<<[t \in Tests |-> Verdict(t)], exitCode>>
  <2> SUFFICES ASSUME TypeInv, RunnerInv, TypeInv', RunnerInv', [Next]_vars
               PROVE  Stutter \/ Verdicts!Next
    BY DEF VerdictTable
  <2>1. ASSUME NEW w \in Workers, TakeTask(w) \/ WorkerStep(w)
        PROVE  Stutter \/ Verdicts!Next
    <3>1. exitCode' = exitCode /\ exitCode = "running"
      BY <2>1, WorkerFrame DEF RunnerInv, MainInv, VerdictInv, PastJoin, mainVars
    <3>2. CASE Judged' = Judged
      BY <3>1, <3>2, SameVerdicts
    <3>3. CASE Judged' # Judged
      <4>1. PICK t \in Tests :
              /\ VerdictTable[t] = "pending"
              /\ \E v \in {"passed", "failed", "raised"} :
                   VerdictTable' = [VerdictTable EXCEPT ![t] = v]
        BY <2>1, <3>3, WorkerJudges, ReturnJudges DEF RunnerInv
      <4>2. Verdicts!Judge(t)
        BY <3>1, <4>1 DEF Verdicts!Judge, VerdictTable
      <4> QED
        BY <4>2 DEF Verdicts!Next
    <3> QED
      BY <3>2, <3>3
  <2>2. CASE MainStep \/ UNCHANGED vars
    <3>1. Judged' = Judged
      BY <2>2, MainKeepsJudged
    <3>2. VerdictTable' = VerdictTable
      BY <3>1, SameVerdicts
    <3>3. CASE exitCode' = exitCode
      BY <3>2, <3>3
    <3>4. CASE exitCode' # exitCode
      <4>1. exitCode = "running" /\ exitCode' \in {"failure", "success"}
        BY <2>2, <3>4 DEF MainStep, Start, Collect, CollectEnd, Join, Save,
           Compare, Summary, vars, mainVars, RunnerInv, VerdictInv
      <4>2. SuccessMeansPassed'
        BY SuccessJudged, PTL
      <4>3. exitCode' = "success" => AllPassed'
        BY <4>2 DEF SuccessMeansPassed, TypeInv, TypeOK
      <4>4. AllPassed' => AllPassed
        BY <3>2 DEF AllPassed
      <4>5. Verdicts!Exit
        BY <3>2, <4>1, <4>3, <4>4 DEF Verdicts!Exit, AllPassed, VerdictTable
      <4> QED
        BY <4>5 DEF Verdicts!Next
    <3> QED
      BY <3>3, <3>4
  <2> QED
    BY <2>1, <2>2 DEF Next, Terminated
<1> QED
  BY <1>1, <1>2, InvCorrect, PTL DEF Spec, ImplementsVerdicts, Verdicts!Spec

\* A verdict is final: in no interleaving, and with no command line, does the
\* result of a test replace an earlier one of that test.
THEOREM VerdictsFinal ==
  ASSUME NamesDistinct
  PROVE  Spec =>
           [][\A t \in Tests :
                Verdict(t) # "pending" => Verdict(t)' = Verdict(t)]_vars
<1> DEFINE Kept == \A t \in Tests :
                     VerdictTable[t] # "pending" =>
                       VerdictTable'[t] = VerdictTable[t]
<1>1. TypeInv /\ RunnerInv /\ TypeInv' /\ RunnerInv' /\ [Next]_vars => Kept
  <2> SUFFICES ASSUME TypeInv, RunnerInv, TypeInv', RunnerInv', [Next]_vars
               PROVE  Kept
    OBVIOUS
  <2>1. ASSUME NEW w \in Workers, TakeTask(w) \/ WorkerStep(w)
        PROVE  Kept
    <3>1. CASE Judged' = Judged
      BY <3>1, SameVerdicts
    <3>2. CASE Judged' # Judged
      <4>1. PICK t \in Tests :
              /\ VerdictTable[t] = "pending"
              /\ \E v \in {"passed", "failed", "raised"} :
                   VerdictTable' = [VerdictTable EXCEPT ![t] = v]
        BY <2>1, <3>2, WorkerJudges, ReturnJudges DEF RunnerInv
      <4> QED
        BY <4>1 DEF VerdictTable
    <3> QED
      BY <3>1, <3>2
  <2>2. CASE MainStep \/ UNCHANGED vars
    <3>1. Judged' = Judged
      BY <2>2, MainKeepsJudged
    <3> QED
      BY <3>1, SameVerdicts
  <2> QED
    BY <2>1, <2>2 DEF Next, Terminated
<1>2. TypeInv /\ RunnerInv /\ TypeInv' /\ RunnerInv' /\ [Next]_vars =>
        \A t \in Tests : Verdict(t) # "pending" => Verdict(t)' = Verdict(t)
  <2>1. \A t \in Tests :
          VerdictTable[t] = Verdict(t) /\ VerdictTable'[t] = Verdict(t)'
    BY DEF VerdictTable
  <2> QED
    BY <1>1, <2>1
<1> QED
  BY <1>2, InvCorrect, PTL DEF Spec
=============================================================================
