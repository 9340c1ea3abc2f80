----------------------------- MODULE IrqlSnippets -----------------------------
(***************************************************************************)
(* The driver_snippet.c files of the IRQL queries: the functions each file *)
(* defines, as annotations and a sequence of statements.  Declarations,    *)
(* return values and statements that neither call nor branch are left out. *)
(***************************************************************************)
EXTENDS IrqlContracts, IrqlKernel, TLC

\* A statement: what it calls and with which arguments (as in IrqlAnalysis),
\* the local flag it initialises to FALSE, the flag it may set and how, the
\* flag it tests, and the statements that may follow it, relative to it.
Skip ==
  [call |-> NoFunction, pointer |-> NoFunction, level |-> Unparsed,
   arg |-> [head |-> "none", child |-> NoChild], loc |-> "none",
   shared |-> {}, wait |-> FALSE, whenFalse |-> {},
   declares |-> "none", sets |-> "none", how |-> "none", tests |-> "none",
   to |-> {1}]

Call(f) == [Skip EXCEPT !.call = f]
CallAbout(f, x) == [Call(f) EXCEPT !.loc = x]
CallPassing(f, x) == [Call(f) EXCEPT !.shared = {x}]
CallThrough(f) == [Skip EXCEPT !.pointer = f]

KeRaiseIrql(l, x) ==
  [Call("KeRaiseIrql") EXCEPT
     !.level = l, !.loc = x, !.arg = [head |-> "&", child |-> x]]
KeLowerIrql(x) ==
  [Call("KeLowerIrql") EXCEPT
     !.loc = x, !.arg = [head |-> x, child |-> NoChild]]
KeLowerIrqlTo(l) == [Call("KeLowerIrql") EXCEPT !.level = l]
KeAcquireSpinLock(x) ==
  [Call("KeAcquireSpinLock") EXCEPT
     !.loc = x, !.arg = [head |-> "&", child |-> x]]
KeReleaseSpinLock(x) ==
  [Call("KeReleaseSpinLock") EXCEPT
     !.loc = x, !.arg = [head |-> x, child |-> NoChild]]
KeSetEvent(wait) ==
  [Call("KeSetEvent") EXCEPT
     !.wait = wait, !.whenFalse = IF wait THEN {} ELSE {1}]
KeSaveFloatingPointState(x) == CallAbout("KeSaveFloatingPointState", x)
KeRestoreFloatingPointState(x) == CallAbout("KeRestoreFloatingPointState", x)

Declare(v) == [Skip EXCEPT !.declares = v]
Setting(v, how, s) == [s EXCEPT !.sets = v, !.how = how]
\* if (v) over the k - 1 statements that follow, and a branch on s itself.
If(v, k) == [Skip EXCEPT !.tests = v, !.to = {1, k}]
Branch(s, k) == [s EXCEPT !.to = {1, k}]
Goto(s, k) == [s EXCEPT !.to = {k}]

Requires(l) == [Unannotated EXCEPT !.requires = {l}]
RequiresMax(l) == [Unannotated EXCEPT !.max = {l}]
RequiresSame == [Unannotated EXCEPT !.same = TRUE]
RaisesTo(l) == [Unannotated EXCEPT !.raises = {l}]
AlwaysMax(l) == [Unannotated EXCEPT !.alwaysMax = {l}]
SavesToParameter == [Unannotated EXCEPT !.saves = "parameter"]
AlwaysMin(l) == [Unannotated EXCEPT !.alwaysMin = {l}]
Function(facts, code) == [facts |-> facts, code |-> code]

-----------------------------------------------------------------------------
(* IrqlTooHigh and IrqlTooLow.                                             *)
CallChain ==
  [TestInner3 |-> Function(Requires(2), <<>>),
   TestInner4 |-> Function(Requires(0), <<>>),
   someFunc |-> Function(Unannotated, <<Call("TestInner3")>>),
   TestInner2 |->
     Function(Requires(1), <<Call("someFunc"), Call("TestInner4")>>),
   TestInner1 |-> Function(Unannotated, <<Call("TestInner2")>>),
   IrqlLowTestFunction |-> Function(Unannotated, <<Call("TestInner1")>>),
   IrqlHighTestFunction |-> Function(Requires(2), <<>>)]
\* IrqlTooLow/driver_snippet.c starts with the same functions.
CallChainTooLow == CallChain

RaisedBeforeCall ==
  [failForIrqlTooHigh |->
     Function(Unannotated,
       <<KeRaiseIrql(2, "oldIrql"), Call("IrqlLowTestFunction")>>),
   passForIrqlTooHigh |->
     Function(Unannotated,
       <<KeRaiseIrql(2, "oldIrql"), Call("IrqlHighTestFunction"),
         KeLowerIrql("oldIrql")>>)]

\* A flag that looks constantly FALSE is set by |=, by ++, through a pointer
\* or, being global, in another function.
FlagSetters ==
  [compoundAssignment |-> <<Declare("bFalse"), Setting("bFalse", "|=", Skip)>>,
   increment |-> <<Declare("bFalse"), Setting("bFalse", "++", Skip)>>,
   byReference |->
     <<Declare("bFalse"),
       Setting("bFalse", "&", Call("mutate_flag_by_pointer"))>>]
FlagHelpers ==
  [initialize_global_dispatch_safe |->
     Function(Unannotated, <<Setting("g_DispatchSafe", "=", Skip)>>),
   mutate_flag_by_pointer |-> Function(Unannotated, <<Skip>>)]

AdversarialTooHigh ==
  LET raised(v) ==
        <<KeRaiseIrql(2, "oldIrql"), If(v, 2), Call("PassiveOnly_TooHigh"),
          KeLowerIrql("oldIrql")>>
  IN  FlagHelpers @@
      [PassiveOnly_TooHigh |-> Function(Requires(0), <<>>),
       globalReassigned |-> Function(Unannotated, raised("g_DispatchSafe"))] @@
      [how \in DOMAIN FlagSetters |->
         Function(Unannotated, FlagSetters[how] \o raised("bFalse"))]

AdversarialTooLow ==
  LET guarded(v) == <<If(v, 2), Call("DispatchOnly_TooLow")>>
  IN  FlagHelpers @@
      [DispatchOnly_TooLow |-> Function(Requires(2), <<>>),
       globalReassigned |->
         Function(Requires(0), guarded("g_DispatchSafe"))] @@
      [how \in DOMAIN FlagSetters |->
         Function(Requires(0), FlagSetters[how] \o guarded("bFalse"))]

-----------------------------------------------------------------------------
(* IrqlSetTooHigh, IrqlSetTooLow and IrqlLoweredImproperly.                *)
RaiseExplicitly ==
  [DoNothing_MaxAPC |-> Function(RequiresMax(1), <<>>),
   DoNothing_MaxDispatch |-> Function(RequiresMax(2), <<>>),
   DoNothing_RequiresPassive |-> Function(Requires(0), <<>>),
   DoNothing_RequiresDispatch |-> Function(Requires(2), <<>>),
   IrqlSetHigherFromPassive_pass0 |->
     Function(RaisesTo(2), <<KeRaiseIrql(2, "oldIRQL")>>),
   IrqlRaiseLevelExplicit_pass1 |->
     Function(RaisesTo(2),
       <<KeRaiseIrql(1, "oldIRQL"), Call("DoNothing_MaxDispatch"),
         KeRaiseIrql(2, "oldIRQL"), Call("DoNothing_MaxDispatch")>>),
   IrqlRaiseLevelExplicit_fail0 |->
     Function(RaisesTo(1), <<KeRaiseIrql(2, "oldIRQL")>>),
   IrqlRaiseLevelExplicit_fail3 |->
     Function(AlwaysMax(0), <<KeRaiseIrql(2, "oldIRQL")>>),
   IrqlRaiseLevelExplicit_fail4 |->
     Function(AlwaysMax(0),
       <<KeRaiseIrql(2, "oldIRQL"), KeLowerIrql("oldIRQL")>>),
   CallFunctionThatRaisesIRQL_fail5 |->
     Function(AlwaysMax(0), <<Call("IrqlSetHigherFromPassive_pass0")>>),
   CallFunctionThatRaisesIRQL_fail6 |->
     Function(RequiresSame, <<Call("IrqlSetHigherFromPassive_pass0")>>)]

RaiseAndKeep ==
  [IrqlDontChange_pass |->
     Function(AlwaysMax(0), <<Call("DoNothing_MaxAPC")>>),
   IrqlRequiresSame_fail7 |->
     Function(RequiresSame, <<KeRaiseIrql(2, "oldIRQL")>>),
   IrqlRequiresSame_notsupported |->
     Function(RequiresSame, <<KeRaiseIrql(Unparsed, "oldIRQL")>>),
   IrqlRequiresSame_pass |->
     Function(RequiresSame,
       <<KeRaiseIrql(2, "oldIRQL"), KeLowerIrql("oldIRQL")>>)]

RaiseIndirectly ==
  [IrqlIndirectCall_pass0 |->
     Function(Unannotated, <<CallThrough("IrqlSetHigherFromPassive_pass0")>>),
   IrqlIndirectCall_pass1 |->
     Function(AlwaysMax(2), <<CallThrough("IrqlSetHigherFromPassive_pass0")>>),
   IrqlIndirectCall_fail0 |->
     Function(Unannotated, <<CallThrough("IrqlRaiseLevelExplicit_fail0")>>),
   IrqlIndirectCall_fail1 |->
     Function(AlwaysMax(0), <<CallThrough("IrqlSetHigherFromPassive_pass0")>>)]

LowerInHelper ==
  LET lowers(facts) == Function(facts, <<KeLowerIrql("oldIRQL")>>)
      raisesAndCalls(levels, f) ==
        Function(Unannotated,
          [i \in DOMAIN levels |-> KeRaiseIrql(levels[i], "oldIRQL")]
            \o <<CallPassing(f, "oldIRQL")>>)
  IN  [IrqlMinDispatchLowerIrql_fail |-> lowers(AlwaysMin(2)),
       IrqlLowerWithFunctionCall |->
         raisesAndCalls(<<1>>, "IrqlMinDispatchLowerIrql_fail"),
       IrqlMinDispatchLowerIrql_fail1 |-> lowers(AlwaysMin(2)),
       IrqlLowerWithFunctionCall1 |->
         raisesAndCalls(<<1, 2>>, "IrqlMinDispatchLowerIrql_fail1"),
       IrqlMinAPCLowerIrql |-> lowers(AlwaysMin(1)),
       IrqlLowerWithFunctionCall_pass |->
         raisesAndCalls(<<1, 2>>, "IrqlMinAPCLowerIrql"),
       IrqlAlwaysMinAPC_fail |-> lowers(AlwaysMin(1)),
       IrqlCallAlwaysMinAPC |-> raisesAndCalls(<<1>>, "IrqlAlwaysMinAPC_fail"),
       IrqlReqSame_pass |->
         Function(RequiresSame,
           <<KeRaiseIrql(1, "oldIRQL"), KeLowerIrql("oldIRQL")>>),
       IrqlReqSame_fail |-> lowers(RequiresSame),
       IrqlCallReqSame |-> raisesAndCalls(<<1>>, "IrqlReqSame_fail")]

RaiseToLower ==
  [IrqlRaiseLevelExplicit_fail |->
     Function(RaisesTo(2),
       <<KeRaiseIrql(2, "oldIRQL"), KeRaiseIrql(0, "oldIRQL")>>),
   IrqlRaiseLevelExplicit_pass |->
     Function(RaisesTo(2),
       <<KeRaiseIrql(2, "oldIRQL"), KeLowerIrql("oldIRQL")>>)]

-----------------------------------------------------------------------------
(* IrqlFloatStateMismatch.  The two functions of wdm.h have a body there.  *)
FloatFunctions ==
  [KeSaveFloatingPointState |-> Function(Unannotated, <<>>),
   KeRestoreFloatingPointState |-> Function(Unannotated, <<>>)]

FloatState ==
  LET saves == KeSaveFloatingPointState("FloatBuf")
      restores == KeRestoreFloatingPointState("FloatBuf")
      raise == KeRaiseIrql(1, "oldIRQL")
      lower == KeLowerIrql("oldIRQL")
  IN  [driver_utility_bad |->
         Function(Requires(0), <<raise, Branch(saves, 3), lower, restores>>),
       driver_utility_good |->
         Function(Requires(0),
           <<raise, Branch(saves, 4), lower, raise, restores>>),
       unannotated_lower_helper |-> Function(Unannotated, <<lower>>),
       driver_utility_helper_bad |->
         Function(Requires(0),
           <<raise, Branch(saves, 3),
             CallPassing("unannotated_lower_helper", "oldIRQL"), restores>>),
       driver_utility_nested_block_good |->
         Function(Requires(0),
           <<raise, Branch(saves, 4), lower, raise, restores>>)]

FloatStateAcross ==
  LET saves == KeSaveFloatingPointState("FloatBuf")
      restores == KeRestoreFloatingPointState("FloatBuf")
      raise == KeRaiseIrql(1, "oldIRQL")
  IN  [save_fp_helper |-> Function(Unannotated, <<saves>>),
       restore_fp_helper |-> Function(Unannotated, <<restores>>),
       driver_utility_cross_function_bad |->
         Function(Requires(0),
           <<CallPassing("save_fp_helper", "FloatBuf"),
             KeRaiseIrql(2, "oldIRQL"),
             CallPassing("restore_fp_helper", "FloatBuf"),
             KeLowerIrql("oldIRQL")>>),
       driver_utility_loop_bad |->
         Function(Requires(0),
           <<raise, Branch(Skip, 5), restores, KeLowerIrqlTo(0), saves,
             Goto(raise, -4)>>)]

-----------------------------------------------------------------------------
(* IrqlFunctionNotAnnotated and IrqlInconsistentWithRequired.              *)
LowerOrRaise(facts) ==
  Function(facts,
    <<Branch(Skip, 2), Goto(KeLowerIrql("oldIrql"), 2),
      KeRaiseIrql(2, "oldIrql")>>)

ChangesUnannotated ==
  [fail1 |-> LowerOrRaise(Unannotated),
   pass |-> Function(RaisesTo(2),
              <<Branch(Skip, 2), KeLowerIrql("oldIrql"),
                KeRaiseIrql(2, "oldIrql")>>)]

ChangesDespiteSame ==
  [fail1 |-> LowerOrRaise(RequiresSame),
   pass1 |-> Function(RequiresSame,
               <<KeRaiseIrql(2, "oldIrql"), KeLowerIrql("oldIrql")>>)]

-----------------------------------------------------------------------------
(* KeSetEventIrql and KeSetEventPageable.                                  *)
EventAtLevel ==
  [KeSetEventIrql_Fail1 |->
     Function([Unannotated EXCEPT !.alwaysMax = {MaxIrql}, !.alwaysMin = {5}],
              <<KeSetEvent(FALSE)>>),
   KeSetEventIrql_Fail2 |->
     Function([AlwaysMin(2) EXCEPT !.paged = TRUE], <<KeSetEvent(TRUE)>>),
   KeSetEventIrql_Pass1 |-> Function(AlwaysMin(0), <<KeSetEvent(TRUE)>>),
   KeSetEventIrql_Pass2 |->
     Function([AlwaysMin(2) EXCEPT !.paged = TRUE], <<KeSetEvent(FALSE)>>)]

EventInPagedCode ==
  [KeSetEventIrql_Fail1 |->
     Function([Unannotated EXCEPT !.paged = TRUE], <<KeSetEvent(TRUE)>>),
   KeSetEventIrql_Fail2 |->
     Function([AlwaysMin(1) EXCEPT !.paged = TRUE], <<KeSetEvent(TRUE)>>),
   KeSetEventIrql_Pass1 |-> Function(AlwaysMin(0), <<KeSetEvent(TRUE)>>),
   KeSetEventIrql_Pass2 |->
     Function([AlwaysMin(0) EXCEPT !.paged = TRUE], <<KeSetEvent(FALSE)>>)]

-----------------------------------------------------------------------------
(* IrqlNotUsed and IrqlNotSaved: functions with an annotated parameter,    *)
(* which all of them and their helpers call irql here.                     *)
AnnotatedParameter == "irql"
UsesParameter(facts, use, aux) ==
  [passAux |-> Function(Unannotated, <<aux>>),
   pass |-> Function(facts, <<use>>),
   pass2 |-> Function(facts, <<CallPassing("passAux", "irql")>>),
   pass3 |-> Function(facts, <<use>>),
   fail1 |-> Function(facts, <<>>)]

NotUsed ==
  LET restores == [Unannotated EXCEPT !.restores = TRUE]
  IN  UsesParameter(restores, KeReleaseSpinLock("irql"),
                    KeReleaseSpinLock("irql")) @@
      [fail2 |-> Function(restores,
                   <<Branch(Skip, 2), KeReleaseSpinLock("irql")>>)]

NotSaved ==
  UsesParameter(SavesToParameter, KeAcquireSpinLock("irql"),
                KeRaiseIrql(Unparsed, "irql")) @@
  [fail2 |-> Function(SavesToParameter,
               <<Branch(Skip, 2), KeRaiseIrql(Unparsed, "irql")>>)]
=============================================================================
