---------------------------- MODULE FloatSnippets ----------------------------
(***************************************************************************)
(* The snippets of the three floating-point queries as basic blocks, and   *)
(* the lines at which their baselines have alerts.                         *)
(***************************************************************************)
EXTENDS FloatProtection, TLC

\* A loop of which the body uses a float: its condition, its body, what
\* follows.
Loop(b, after) ==
  <<Block(<<>>, {b + 1, after}), Block(<<Float>>, {b})>>
Exit == Block(<<>>, {})

\* float_used_good0, which is the same in both snippets.
NotAnnotated == Routine("none", FALSE, <<Block(<<Float>>, {})>>)
\* float_used_bad2 of both.
NeverCalls(annotation) ==
  Routine(annotation, FALSE, <<Block(<<>>, {2})>> \o Loop(2, 4) \o <<Exit>>)

\* float_used_good1 of both: it tests the status of both calls.
SaveTestRestore(annotation) ==
  Routine(annotation, FALSE,
    <<Test(<<Save("checked")>>, {3}, {2}),
      Block(<<Restore("stored")>>, {7})>>
    \o Loop(3, 5) \o
    <<Test(<<Restore("checked")>>, {7}, {6}), Block(<<>>, {7}), Exit>>)

FloatUnsafeExitSnippet ==
  13 :> NotAnnotated @@ 19 :> SaveTestRestore("saved")
  @@ 43 :> Routine("saved", FALSE,
             <<Block(<<Save("stored")>>, {2})>> \o Loop(2, 4) \o
             <<Block(<<Restore("unused")>>, {})>>)
  @@ 56 :> NeverCalls("saved")
  @@ 65 :> Routine("saved", FALSE,
             <<Block(<<>>, {2, 4})>> \o Loop(2, 7) \o
             <<Block(<<Save("stored")>>, {5})>> \o Loop(5, 7) \o <<Exit>>)

FloatSafeExitSnippet ==
  13 :> NotAnnotated @@ 19 :> SaveTestRestore("restored")
  @@ 43 :> Routine("restored", FALSE,
             <<Test(<<Save("checked")>>, {3}, {2}), Block(<<>>, {6})>>
             \o Loop(3, 5) \o <<Block(<<Restore("unused")>>, {6}), Exit>>)
  @@ 60 :> NeverCalls("restored")
  @@ 69 :> Routine("restored", FALSE,
             <<Block(<<>>, {2, 6}),
               Test(<<Save("checked")>>, {4}, {3}), Block(<<>>, {11})>>
             \o Loop(4, 11) \o
             <<Test(<<Save("checked")>>, {8}, {7}), Block(<<>>, {11})>>
             \o Loop(8, 10) \o <<Block(<<Restore("stored")>>, {11}), Exit>>)

FloatHardwareSnippet ==
  17 :> Routine("used", FALSE, <<Block(<<Float>>, {})>>)
  @@ 28 :> Routine("none", FALSE,
             <<Block(<<Save("stored")>>, {2})>> \o Loop(2, 4) \o
             <<Block(<<Restore("unused")>>, {})>>)
  @@ 35 :> NotAnnotated
=============================================================================
