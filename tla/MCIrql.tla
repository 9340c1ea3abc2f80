-------------------------------- MODULE MCIrql --------------------------------
(* Small driver routines: Length statements from a menu, in a few shapes.   *)
EXTENDS IrqlInvariants, IrqlKernel, TLC

CONSTANT Length   \* statements of the routine under test

Expr(head, child) == [head |-> head, child |-> child]
Statement(f, l, e, v) ==
  [call |-> f, level |-> l, arg |-> e, loc |-> v, whenFalse |-> {}]

Statements ==
  [skip     |-> Statement(NoFunction, -1, Expr("x", NoChild), "x"),
   raise1   |-> Statement("KeRaiseIrql", 1, Expr("&", "irql"), "irql"),
   raise2   |-> Statement("KeRaiseIrql", 2, Expr("&", "irql"), "irql"),
   lower    |-> Statement("KeLowerIrql", -1, Expr("irql", NoChild), "irql"),
   acquire  |-> Statement("KeAcquireInStackQueuedSpinLock", -1,
                          Expr("&", "handle"), "handle"),
   release  |-> Statement("KeReleaseInStackQueuedSpinLock", -1,
                          Expr("&", "handle"), "handle"),
   lock     |-> Statement("KeAcquireSpinLockRaiseToDpc", -1,
                          Expr("old", NoChild), "old"),
   unlock   |-> Statement("KeReleaseSpinLock", -1, Expr("old", NoChild), "old"),
   passive  |-> Statement("PassiveApi", -1, Expr("x", NoChild), "x"),
   dispatch |-> Statement("DispatchApi", -1, Expr("x", NoChild), "x"),
   event    |-> [Statement("KeSetEvent", -1, Expr("x", NoChild), "x")
                   EXCEPT !.whenFalse = {1}],
   lockInto |-> Statement("KeAcquireSpinLock", -1, Expr("&", "old"), "old"),
   helper   |-> Statement("Helper", -1, Expr("x", NoChild), "x"),
   print    |-> Statement("DbgPrint", -1, Expr("x", NoChild), "x")]

\* Node 0 is the routine's block, 2i-1 and 2i are statement i and its call,
\* End is the exit.  The three nodes after it are the helper, which raises.
End == 2 * Length + 1
HelperEntry == End + 1
AllNodes == 0 .. End + 3

StatementOf(ops, n) ==
  CASE n \in 1 .. End - 1 /\ n % 2 = 0 -> Statements[ops[n \div 2]]
    [] n = End + 2 -> Statements["raise2"]
    [] OTHER -> Statements["skip"]

\* A shape adds one edge: <<"if", i, j>> jumps over statements i to j, as does
\* <<"dead", i, j>> with a constant condition; <<"loop", i, j>> goes back from
\* j to i.
ShapeEdge(shape) ==
  CASE shape[1] \in {"if", "dead"} -> {<<2 * shape[2] - 1, 2 * shape[3] + 1>>}
    [] shape[1] = "loop" -> {<<2 * shape[3], 2 * shape[2] - 1>>}
    [] OTHER -> {}

Edges(shape) ==
  ShapeEdge(shape) \cup {<<n, n + 1>> : n \in AllNodes \ {End, End + 3}}

DeadCalls(shape) ==
  IF shape[1] = "dead" THEN {2 * i : i \in shape[2] .. shape[3]} ELSE {}

SiblingOf(shape, n) ==
  IF shape[1] = "loop" /\ n > 2 * shape[2] /\ n <= 2 * shape[3]
    THEN {2 * ((n + 1) \div 2) - 3} ELSE {}

\* A path from m to n, both exclusive of nodes in stop except m: along the
\* statements, or over the added edge.
Straight(m, n, stop) ==
  m <= n /\ (m <= End <=> n <= End) /\ \A k \in m + 1 .. n : k \notin stop
Path(shape, m, n, stop) ==
  \/ Straight(m, n, stop)
  \/ \E e \in ShapeEdge(shape) :
       Straight(m, e[1], stop) /\ e[2] \notin stop /\ Straight(e[2], n, stop)

AncestorsOf(shape, n) == {m \in AllNodes : Path(shape, m, n, {})}

\* Saves in place when n exits: some path to n meets no other save of theirs.
SavingTargets ==
  {"KeRaiseIrql", "KeAcquireInStackQueuedSpinLock", "KeAcquireSpinLockRaiseToDpc",
   "KeAcquireSpinLock"}
SaversOf(ops, l) ==
  {m \in AllNodes : /\ StatementOf(ops, m).call \in SavingTargets
                    /\ StatementOf(ops, m).loc = l}
ReachOf(ops, shape, n) ==
  {s \in AllNodes :
     /\ StatementOf(ops, s).call \in SavingTargets
     /\ Path(shape, s, n, SaversOf(ops, StatementOf(ops, s).loc))}

\* The function n |-> Value(n) on the nodes, as a table.
Tabulate(Value(_)) ==
  LET table[n \in AllNodes] ==
        IF n = 0 THEN 0 :> Value(0) ELSE table[n - 1] @@ (n :> Value(n))
  IN  table[End + 3]

Program(ops, shape, entry, helper) ==
  LET scope(n) == IF n <= End THEN "Routine" ELSE "Helper"
      call(n) == StatementOf(ops, n).call
      level(n) == StatementOf(ops, n).level
      arg(n) == StatementOf(ops, n).arg
      loc(n) == StatementOf(ops, n).loc
      sibling(n) == SiblingOf(shape, n)
      reach(n) == ReachOf(ops, shape, n)
      ancestors(n) == AncestorsOf(shape, n)
      whenFalse(n) == StatementOf(ops, n).whenFalse
      pointer(n) == NoFunction
      shared(n) == {}
  IN  [scope |-> Tabulate(scope), call |-> Tabulate(call),
       level |-> Tabulate(level), arg |-> Tabulate(arg), loc |-> Tabulate(loc),
       sibling |-> Tabulate(sibling), reach |-> Tabulate(reach),
       ancestors |-> Tabulate(ancestors), whenFalse |-> Tabulate(whenFalse),
       pointer |-> Tabulate(pointer), shared |-> Tabulate(shared),
       edge |-> Edges(shape),
       constantFalse |-> DeadCalls(shape), dead |-> DeadCalls(shape),
       fn |-> Kernel @@ ("Routine" :> entry) @@ ("Helper" :> helper),
       entry |-> ("Routine" :> 0) @@ ("Helper" :> HelperEntry),
       exit |-> ("Routine" :> {End}) @@ ("Helper" :> {End + 3})]

Routines(menu, shapes, entries, helpers) ==
  [ops : [1 .. Length -> menu], shape : shapes, entry : entries,
   helper : helpers]
Database(d) == Program(d.ops, d.shape, d.entry, d.helper)

-----------------------------------------------------------------------------
(* Values for the configurations.                                          *)
Entries ==
  {Unannotated,
   [Unannotated EXCEPT !.max = {1}],
   [Unannotated EXCEPT !.requires = {2}],
   [Unannotated EXCEPT !.min = {3}],
   [Unannotated EXCEPT !.max = {1}, !.paged = TRUE],
   [Unannotated EXCEPT !.max = {2}, !.alwaysMax = {1}],
   [Unannotated EXCEPT !.min = {0, 1}, !.alwaysMin = {1}],
   [Unannotated EXCEPT !.min = {0}, !.alwaysMin = {3}]}
Helpers == {Unannotated,
            [Unannotated EXCEPT !.alwaysMin = {1}],
            [Unannotated EXCEPT !.alwaysMax = {1}]}
AllShapes == {<<"straight">>, <<"if", 1, 2>>, <<"dead", 2, 2>>,
              <<"loop", 1, 2>>, <<"loop", 2, 3>>}

\* Routines without annotations, and calls under different annotations.
Unrestricted ==
  Routines({"skip", "raise1", "raise2", "lower", "acquire", "release", "lock",
            "unlock", "passive", "dispatch", "helper", "print"},
           AllShapes, {Unannotated}, {Unannotated})
Restricted ==
  Routines({"raise1", "raise2", "lower", "passive", "event", "helper"},
           {<<"straight">>, <<"if", 2, 2>>}, Entries, Helpers)
AllRoutines == Unrestricted \cup Restricted

\* Spin locks whose IRQL is saved in a variable.
SpinLocks ==
  Routines({"lockInto", "unlock"}, {<<"straight">>}, {Unannotated},
           {Unannotated})
=============================================================================
