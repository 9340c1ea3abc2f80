---------------------------- MODULE MCTestRunner ----------------------------
(* Small instances of TestRunner: the query files, and the command lines.  *)
EXTENDS TestRunnerInvariants

QueryDir(d, q) == <<"drivers", d, "queries", q, "query.ql">>

TwoTests == {QueryDir("general", "IrqlTooHigh"), QueryDir("wdm", "KeWaitLocal")}
ThreeTests == TwoTests \cup {QueryDir("kmdf", "FloatSafeExit")}

Option(no_build, existing, only, compare) ==
  [no_build |-> no_build, existing_database |-> existing,
   build_database_only |-> only, compare_results |-> compare]

\* Every command line without --compare_results whose builds are codeql's.
PlainModes == {Option(TRUE, e, o, FALSE) : e, o \in BOOLEAN}
\* The push job.
CompareModes == {Option(TRUE, FALSE, FALSE, TRUE)}
\* Local runs that call msbuild first.
MsbuildModes == {Option(FALSE, FALSE, FALSE, FALSE)}
\* Databases only, each preceded by an msbuild of its own.
DatabaseOnlyModes == {Option(FALSE, FALSE, TRUE, FALSE)}

\* All of the above at once.
LocalModes == PlainModes \cup MsbuildModes \cup DatabaseOnlyModes \cup CompareModes
=============================================================================
