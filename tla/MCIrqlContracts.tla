--------------------------- MODULE MCIrqlContracts ---------------------------
(* All routines of Length statements from a menu, straight, with a branch   *)
(* over their middle or with a loop around a part of them, and the helpers  *)
(* they may call, directly or through another one.                          *)
EXTENDS IrqlExtract

MenuItems ==
  [raise1 |-> KeRaiseIrql(1, "irql"),
   raise2 |-> KeRaiseIrql(2, "irql"),
   lower |-> KeLowerIrql("irql"),
   acquire |-> KeAcquireSpinLock("old"),
   acquireParam |-> KeAcquireSpinLock("irql"),
   assign |-> [CallAbout("KeAcquireSpinLockRaiseToDpc", "irql") EXCEPT
                 !.arg = [head |-> "irql", child |-> NoChild]],
   queued |-> CallAbout("KeAcquireInStackQueuedSpinLock", "irql"),
   lock |-> [CallAbout("KeAcquireSpinLockRaiseToDpc", "old") EXCEPT
               !.arg = [head |-> "old", child |-> NoChild]],
   unlock |-> KeReleaseSpinLock("old"),
   saveFloat |-> KeSaveFloatingPointState("FloatBuf"),
   restoreFloat |-> KeRestoreFloatingPointState("FloatBuf"),
   event |-> KeSetEvent(FALSE),
   eventWait |-> KeSetEvent(TRUE),
   print |-> Call("DbgPrint"),
   own |-> Call("Helper"),
   helper |-> [Call("Helper") EXCEPT !.shared = {"irql", "FloatBuf"}]]

HelperBodies ==
  [raises |-> <<KeRaiseIrql(2, "irql")>>,
   lowers |-> <<KeLowerIrql("irql")>>,
   saves |-> <<KeSaveFloatingPointState("FloatBuf")>>,
   restores |-> <<KeRestoreFloatingPointState("FloatBuf")>>,
   acquires |-> <<KeAcquireSpinLock("irql")>>,
   assigns |-> <<MenuItems.assign>>,
   passes |-> <<CallPassing("Inner", "irql")>>]
FloatHelpers == {"raises", "lowers", "saves", "restores"}

\* A test jumps over the statements from a to b, or b goes back to it.
IfAround(code, a, b) ==
  SubSeq(code, 1, a - 1) \o <<Branch(Skip, b - a + 2)>>
    \o SubSeq(code, a, Len(code))
LoopAround(code, a, b) ==
  [IfAround(code, a, b) EXCEPT ![b + 1] = Goto(@, a - b - 1)]
Shaped(shape, ops) ==
  LET code == [i \in DOMAIN ops |-> MenuItems[ops[i]]]
      n == Len(ops)
  IN  CASE shape = "straight" -> code
        [] shape = "if" -> IfAround(code, 2, n - 1)
        [] shape = "loop" -> LoopAround(code, 2, n)
        [] shape = "inner loop" -> LoopAround(code, 2, n - 1)
        [] shape = "outer loop" -> LoopAround(code, 1, n)

Routines(length, menu, shapes, entries, helpers) ==
  [ops : [1 .. length -> menu], shape : shapes, entry : entries,
   helper : helpers]
Database(d) ==
  Program(FloatFunctions @@
          ("Routine" :> Function(d.entry, Shaped(d.shape, d.ops))) @@
          ("Helper" :> Function(Unannotated, HelperBodies[d.helper])) @@
          [f \in {g \in {"Inner"} : d.helper = "passes"} |->
             Function(Unannotated, HelperBodies.acquires)])

-----------------------------------------------------------------------------
(* Values for the configurations.                                          *)
Entries ==
  {Unannotated, RequiresSame, [RequiresSame EXCEPT !.max = {1}], RaisesTo(2)}
AllShapes == {"straight", "if", "loop"}
CallingHelper(routines) ==
  {r \in routines : \E i \in DOMAIN r.ops : r.ops[i] \in {"helper", "own"}}

\* Routines that change the IRQL, move a floating-point state across such
\* changes, in helpers too, or set events.
ChangeLevels ==
  Routines(3, {"raise1", "raise2", "lower", "helper"}, AllShapes, Entries,
           {"raises"})
FloatStatements == {"raise1", "lower", "saveFloat", "restoreFloat"}
MoveFloatState ==
  Routines(4, FloatStatements,
           {"straight", "if", "loop", "inner loop", "outer loop"},
           {Unannotated}, {"raises"})
  \cup CallingHelper(Routines(4, FloatStatements \cup {"helper"}, {"straight"},
                             {Unannotated}, FloatHelpers))
  \cup CallingHelper(Routines(3, FloatStatements \cup {"helper"},
                             {"loop", "outer loop"}, {Unannotated},
                             FloatHelpers))
SetEvents ==
  Routines(3, {"raise2", "lower", "event", "eventWait", "acquire", "helper"},
           AllShapes, {Unannotated, [RequiresSame EXCEPT !.max = {1}]},
           {"raises"})
\* Routines with an annotated parameter to save the IRQL to.
Saving == {"acquire", "acquireParam", "assign", "queued"}
SaveToParameter ==
  Routines(3, Saving, {"if", "loop"}, {SavesToParameter}, {"acquires"})
    \cup CallingHelper(Routines(3, {"acquire", "assign", "helper", "own"},
                               {"if"}, {SavesToParameter},
                               {"acquires", "assigns", "passes"}))
AllRoutines ==
  ChangeLevels \cup MoveFloatState \cup SetEvents \cup SaveToParameter

\* A floating-point state saved and restored around a spin lock.
FloatStateAndLock ==
  Routines(4, {"lock", "unlock", "saveFloat", "restoreFloat"}, {"straight"},
           {Unannotated}, {"raises"})
=============================================================================
