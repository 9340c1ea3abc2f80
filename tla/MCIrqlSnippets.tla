--------------------------- MODULE MCIrqlSnippets ---------------------------
(* The snippet drivers, the query each one tests and its expected results.  *)
EXTENDS IrqlExtract

\* A driver: the query its test runs, its functions, and the expected alerts.
Test(query, d, alerts) == [query |-> query, functions |-> d, alerts |-> alerts]

Tests ==
  [IrqlTooHigh |->
     Test("IrqlTooHigh", CallChain @@ RaisedBeforeCall @@ AdversarialTooHigh,
       {<<"TestInner1", 2>>, <<"TestInner2", 4>>, <<"globalReassigned", 6>>,
        <<"compoundAssignment", 10>>, <<"increment", 10>>,
        <<"byReference", 10>>}),
   IrqlTooLow |->
     Test("IrqlTooLow", CallChainTooLow @@ AdversarialTooLow,
       {<<"TestInner1", 2>>, <<"someFunc", 2>>, <<"globalReassigned", 4>>,
        <<"compoundAssignment", 8>>, <<"increment", 8>>,
        <<"byReference", 8>>}),
   IrqlSetTooHigh |->
     Test("IrqlSetTooHigh", RaiseExplicitly @@ RaiseAndKeep @@ RaiseIndirectly,
       {<<"IrqlRaiseLevelExplicit_fail0", 2>>,
        <<"IrqlRaiseLevelExplicit_fail3", 2>>,
        <<"IrqlRaiseLevelExplicit_fail4", 2>>,
        <<"CallFunctionThatRaisesIRQL_fail5", 2>>}),
   IrqlSetTooLow |->
     Test("IrqlSetTooLow", LowerInHelper,
       {<<"IrqlMinDispatchLowerIrql_fail", 0>>,
        <<"IrqlMinDispatchLowerIrql_fail1", 2>>,
        <<"IrqlAlwaysMinAPC_fail", 2>>}),
   IrqlLoweredImproperly |->
     Test("IrqlLoweredImproperly", RaiseToLower,
       {<<"IrqlRaiseLevelExplicit_fail", 4>>}),
   IrqlFloatStateMismatch |->
     Test("IrqlFloatStateMismatch",
       FloatFunctions @@ FloatState @@ FloatStateAcross,
       {<<"driver_utility_bad", 8>>, <<"driver_utility_helper_bad", 8>>,
        <<"restore_fp_helper", 2>>, <<"driver_utility_loop_bad", 6>>}),
   IrqlFunctionNotAnnotated |->
     Test("IrqlFunctionNotAnnotated", ChangesUnannotated, {"fail1"}),
   IrqlInconsistentWithRequired |->
     Test("IrqlInconsistentWithRequired", ChangesDespiteSame, {"fail1"}),
   KeSetEventIrql |->
     Test("KeSetEventIrql", EventAtLevel, {<<"KeSetEventIrql_Fail1", 2>>}),
   KeSetEventPageable |->
     Test("KeSetEventPageable", EventInPagedCode,
       {<<"KeSetEventIrql_Fail1", 2>>, <<"KeSetEventIrql_Fail2", 2>>}),
   IrqlNotUsed |-> Test("IrqlNotUsed", NotUsed, {"fail1"}),
   IrqlNotSaved |-> Test("IrqlNotSaved", NotSaved, {"fail1"})]

Database(name) == Program(Tests[name].functions) @@ [name |-> name]

Queries(p, pot) ==
  LET after(Q(_, _, _, _)) ==
        {n \in Nodes(p) : \E m \in getAPredecessor(p, n) : Q(p, pot, n, m)}
  IN [IrqlTooHigh |-> after(IrqlTooHigh), IrqlTooLow |-> after(IrqlTooLow),
      IrqlLoweredImproperly |-> after(IrqlLoweredImproperly),
      IrqlSetTooHigh |-> {n \in Nodes(p) : IrqlSetTooHigh(p, pot, n)},
      IrqlSetTooLow |-> {n \in Nodes(p) : IrqlSetTooLow(p, pot, n)},
      IrqlFloatStateMismatch |->
        {n \in CallsOf(p, "KeRestoreFloatingPointState") :
           IrqlFloatStateMismatch(p, pot, n)},
      IrqlFunctionNotAnnotated |->
        {f \in DOMAIN p.entry : IrqlFunctionNotAnnotated(p, pot, f)},
      IrqlInconsistentWithRequired |->
        {f \in DOMAIN p.entry : IrqlInconsistentWithRequired(p, pot, f)},
      KeSetEventIrql |->
        {n \in CallsOf(p, "KeSetEvent") : KeSetEventIrql(p, pot, n)},
      KeSetEventPageable |->
        {n \in CallsOf(p, "KeSetEvent") : KeSetEventPageable(p, n)},
      IrqlNotUsed |-> {f \in DOMAIN p.entry : IrqlNotUsed(p, f)},
      IrqlNotSaved |-> {f \in DOMAIN p.entry : IrqlNotSaved(p, f)}]

\* The alerts of each query on its snippet are the expected results kept under
\* src/drivers/test: IRQLs flow through calls, helpers, loops and flags as the
\* baseline says.
MatchesBaseline ==
  at = Idle /\ Saturated(prog, potential) =>
    Queries(prog, potential)[Tests[prog.name].query] = Tests[prog.name].alerts

AllTests == DOMAIN Tests
=============================================================================
