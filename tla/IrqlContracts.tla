---------------------------- MODULE IrqlContracts ----------------------------
(***************************************************************************)
(* The queries of src/drivers/general/queries about what a function as a   *)
(* whole does to the IRQL and about pairs of calls, and executions with    *)
(* the history needed to judge them.                                       *)
(***************************************************************************)
EXTENDS IrqlSoundness

\* Further parts of a database, by node n and function f:
\*   p.wait[n]   the Wait argument of a call of KeSetEvent
\*   p.order[n]  the position of n in the source of its function
\*   p.loops     the bodies of loops, as sets of nodes
\*   p.calls[f]  the functions reached from f by calls, and f, those of the
\*               kernel included
\*   p.parameter[f]  the location of f's annotated parameter, which is that of
\*               the variables its value is copied to
\*   p.flow[f]   the functions that parameter is passed to, and f

Calls(p, f) == {n \in Nodes(p) : FunctionCall(p, n) /\ p.scope[n] = f}
CallsOf(p, api) == {n \in Nodes(p) : Target(p, n) = api}

\* Reachability by calls is reflexive and transitive; data flow follows a
\* parameter into every function it is passed to; wdm.h annotates KeSetEvent
\* with a maximum of APC_LEVEL when it waits and of DISPATCH_LEVEL when it does
\* not.
IsContractDatabase(p) ==
  /\ \A n \in Nodes(p) : FunctionCall(p, n) =>
       /\ Target(p, n) \in p.calls[Target(p, n)]
       /\ p.calls[Target(p, n)] \subseteq p.calls[p.scope[n]]
       /\ p.scope[n] \in p.calls[p.scope[n]]
  /\ \A f \in DOMAIN p.entry :
       /\ f \in p.flow[f]
       /\ \A n \in Nodes(p) :
            FunctionCall(p, n) /\ p.scope[n] \in p.flow[f]
              /\ p.parameter[f] \in p.shared[n]
            => Target(p, n) \in p.flow[f]
  /\ \A n \in CallsOf(p, "KeSetEvent") :
       IF p.wait[n] THEN 1 \in Ceilings(p, n) ELSE 2 \in Ceilings(p, n)

ASSUME ContractAssumption == \A d \in Drivers : IsContractDatabase(Extract(d))

IrqlChangesFunction(f) ==
  \/ f.raises # {}
  \/ f.savesGlobal # "none"
  \/ f.restoresGlobal # "none"

\* Mutant: only raises count as changes.
isIrqlRaisingCall(p, n) ==
  /\ FunctionCall(p, n)
  /\ KeRaiseIrqlCall(p, n) \/ TargetFacts(p, n).raises # {}

\* A primitive, an annotated function, or a function that reaches one of these
\* through its body.
IrqlPrimitive(p, n) ==
  \/ Class(p, n) \in {"KeRaiseIrqlCall", "KeLowerIrqlCall",
                      "RestoresGlobalIrqlCall"}
  \/ SavesGlobalIrqlCall(p, n)
isIrqlChangingCall(p, n) ==
  /\ FunctionCall(p, n)
  /\ \/ IrqlPrimitive(p, n)
     \/ \E g \in p.calls[Target(p, n)] :
          \/ IrqlChangesFunction(p.fn[g])
          \/ \E m \in Calls(p, g) : IrqlPrimitive(p, m)

-----------------------------------------------------------------------------
(* The queries.                                                            *)

\* Mutant: every pair of potential levels must differ.
LevelsDifferAlways(p, pot, f) ==
  \E n \in p.exit[f] :
    /\ getPotentialExitIrqlAtCfn(p, pot, n) # {}
    /\ \A l \in getPotentialExitIrqlAtCfn(p, pot, p.entry[f]),
          k \in getPotentialExitIrqlAtCfn(p, pot, n) : l # k

\* irqlLevelEntry != irqlLevelExit, for some pair of potential levels.
LevelsDiffer(p, pot, f) ==
  \E n \in p.exit[f] :
    \E l \in getPotentialExitIrqlAtCfn(p, pot, p.entry[f]),
       k \in getPotentialExitIrqlAtCfn(p, pot, n) : l # k

IrqlFunctionNotAnnotated(p, pot, f) ==
  /\ ~IrqlChangesFunction(p.fn[f])
  /\ \E n \in Calls(p, f) : IrqlChangesFunction(TargetFacts(p, n))
  /\ LevelsDiffer(p, pot, f)

IrqlInconsistentWithRequired(p, pot, f) ==
  /\ p.fn[f].same
  /\ LevelsDiffer(p, pot, f)
  /\ \E n \in Calls(p, f) : isIrqlChangingCall(p, n)

\* Mutant: no helper stands for a call made inside it.
anchorLineOwn(p, f, n) == IF p.scope[n] = f THEN {p.order[n]} ELSE {}

\* A line of f that stands for the call n: its own, or that of a call of the
\* function it is in.
anchorLineForCall(p, f, n) ==
  IF p.scope[n] = f THEN {p.order[n]}
  ELSE {p.order[s] : s \in {c \in Calls(p, f) : Target(p, c) = p.scope[n]}}

irqlChangesBetween(p, save, restore) ==
  \/ \E f \in DOMAIN p.entry :
       \E s \in anchorLineForCall(p, f, save),
          r \in anchorLineForCall(p, f, restore),
          mid \in Calls(p, f) \ {save, restore} :
         /\ isIrqlChangingCall(p, mid)
         /\ s <= p.order[mid] /\ p.order[mid] <= r
  \/ \E body \in p.loops : \E mid \in body \ {save, restore} :
       {save, restore} \subseteq body /\ isIrqlChangingCall(p, mid)

\* The saves of a floating-point state that flow to the restore n.
FloatStateFlow(p, n) ==
  {s \in UNION {p.reach[m] : m \in getAPredecessor(p, n)} :
     Target(p, s) = "KeSaveFloatingPointState" /\ p.loc[s] = p.loc[n]}

LevelsBefore(p, pot, n) ==
  UNION {getPotentialExitIrqlAtCfn(p, pot, m) : m \in getAPredecessor(p, n)}

IrqlFloatStateMismatch(p, pot, n) ==
  \E s \in FloatStateFlow(p, n) :
    /\ \E l \in LevelsBefore(p, pot, s), k \in LevelsBefore(p, pot, n) : l # k
    /\ irqlChangesBetween(p, s, n)

\* Mutant: the limit with Wait applies to every call.
EventLimitWait(p, n) == 1

\* KeSetEvent may be called up to DISPATCH_LEVEL, or APC_LEVEL with Wait.
EventLimit(p, n) == IF p.wait[n] THEN 1 ELSE 2

\* "not exists": no potential level at all counts as too high.
KeSetEventIrql(p, pot, n) ==
  LevelsBefore(p, pot, n) \cap 0 .. EventLimit(p, n) = {}

KeSetEventPageable(p, n) == p.fn[p.scope[n]].paged /\ p.wait[n]

\* The calls of kernel functions that use the annotated parameter of f: as the
\* argument they save to or restore from, or to assign what they return to.
KernelUses(p, f) ==
  {n \in Nodes(p) :
     /\ FunctionCall(p, n) /\ ~TargetFacts(p, n).body
     /\ p.scope[n] \in p.flow[f] /\ p.loc[n] = p.parameter[f]}

IrqlNotUsed(p, f) ==
  /\ p.fn[f].body /\ p.fn[f].restores
  /\ ~\E n \in KernelUses(p, f) : TargetFacts(p, n).restores

\* Case one: the parameter is assigned what a kernel function returns.
SavedByAssignment(p, f) ==
  \E n \in KernelUses(p, f) : TargetFacts(p, n).saves = "return"
\* Case two: it flows to the parameter a kernel function saves to.
SavedByArgument(p, f) ==
  \E n \in KernelUses(p, f) : TargetFacts(p, n).saves = "parameter"

\* Mutant: case one is missing.
IrqlNotSavedByCall(p, f) ==
  p.fn[f].body /\ p.fn[f].saves = "parameter" /\ ~SavedByArgument(p, f)

IrqlNotSaved(p, f) ==
  /\ p.fn[f].body /\ p.fn[f].saves = "parameter"
  /\ ~SavedByAssignment(p, f) /\ ~SavedByArgument(p, f)

-----------------------------------------------------------------------------
(* Executions with history.                                                *)
VARIABLES entered,  \* the IRQLs at which the functions running were entered
          float     \* per location, the IRQL its floating-point state was
                    \* saved at

historyVars == <<entered, float>>
contractVars == <<vars, historyVars>>

\* The step enters a function, or returns from one.
Entering == (at = Idle /\ at' # Idle) \/ Len(stack') > Len(stack)
Leaving == Len(stack') < Len(stack)

ContractInit == Init /\ entered = <<>> /\ float = NothingSaved(prog)

ObserveLevels ==
  entered' = CASE Entering -> Append(entered, irql')
               [] Leaving -> SubSeq(entered, 1, Len(entered) - 1)
               [] OTHER -> entered

\* The call of the function entered is on top of the stack.
ObserveFloat ==
  float' = IF Entering /\ stack' # <<>>
              /\ prog.scope[at'] = "KeSaveFloatingPointState"
             THEN [float EXCEPT ![prog.loc[stack'[Len(stack')].node]] = irql]
             ELSE float

ContractNext == Next /\ ObserveLevels /\ ObserveFloat

ContractSpec == ContractInit /\ [][ContractNext]_contractVars

-----------------------------------------------------------------------------
\* The driver's function running, and whether the analysis can follow what is
\* run on behalf of it: no call through a pointer, every raise names its level
\* and every restore is of a level saved in the driver.
Here == prog.scope[at]
Followable(f) ==
  \A n \in Nodes(prog) : prog.scope[n] \in prog.calls[f] =>
    /\ prog.pointer[n] = NoFunction
    /\ KeRaiseIrqlCall(prog, n) => RaiseLevel(prog, n) # {}
    /\ Restores(prog, n) => prog.level[n] = Unparsed
AtExit == at # Idle /\ at \in prog.exit[Here]

\* IrqlSetTooHigh and IrqlSetTooLow report some node of a function that, in
\* any execution, leaves the range its annotations promise: directly, in a
\* function it calls, or by restoring a level its caller saved.
LeavesRange ==
  \/ \E r \in RaiseCeilings(prog.fn[Here]) \ {Unparsed} : irql > r
  \/ \E r \in prog.fn[Here].alwaysMin : irql < r
RangeReported(f) ==
  \E n \in Nodes(prog) :
    /\ prog.scope[n] = f
    /\ \/ IrqlSetTooHigh(prog, potential, n)
       \/ IrqlSetTooLow(prog, potential, n)
RangeLeftIsReported ==
  at # Idle /\ LeavesRange /\ Followable(Here) => RangeReported(Here)

\* IrqlInconsistentWithRequired: a function annotated _IRQL_requires_same_
\* that returns at another level than it was entered at is reported.
SameLevelOrReported ==
  AtExit /\ prog.fn[Here].same /\ irql # entered[Len(entered)]
    /\ Followable(Here)
  => IrqlInconsistentWithRequired(prog, potential, Here)

\* IrqlFunctionNotAnnotated: a function that calls a function annotated to
\* change the IRQL and does not return at the level it was entered at is
\* annotated itself, or reported.
ChangeIsReported ==
  AtExit /\ irql # entered[Len(entered)] /\ Followable(Here)
    /\ (\E n \in Calls(prog, Here) : IrqlChangesFunction(TargetFacts(prog, n)))
  => \/ IrqlChangesFunction(prog.fn[Here])
     \/ IrqlFunctionNotAnnotated(prog, potential, Here)

\* IrqlFloatStateMismatch: a thread about to restore a floating-point state
\* at another IRQL than it was saved at makes a call the query reports,
\* whether save, restore and change of IRQL are in one function, in helpers,
\* or in different iterations of a loop around all three.  Left out is a loop
\* with a call that changes the IRQL around only one of save and restore, or
\* around the call of a helper that makes one: its back edge takes the change
\* between them though it stands outside, which irqlChangesBetween overlooks.
StandsFor(n) == {n} \cup CallsOf(prog, prog.scope[n])
LoopedPast(s, n) ==
  \E body \in prog.loops : \E mid \in body :
    /\ isIrqlChangingCall(prog, mid)
    /\ body \cap (StandsFor(s) \cup StandsFor(n)) # {}
    /\ ~({s, n} \subseteq body)
    /\ \A k \in anchorLineForCall(prog, prog.scope[mid], s),
          l \in anchorLineForCall(prog, prog.scope[mid], n) :
         prog.order[mid] \notin k .. l
RestoresFloat ==
  {n \in Successors : Target(prog, n) = "KeRestoreFloatingPointState"}
MismatchReported ==
  \A n \in RestoresFloat :
    /\ float[prog.loc[n]] \notin {NoValue, irql}
    /\ \A s \in CallsOf(prog, "KeSaveFloatingPointState") : ~LoopedPast(s, n)
    => IrqlFloatStateMismatch(prog, potential, n)

\* "If no IRQL-changing call exists between them, the IRQL is invariant within
\* a single invocation" (IrqlFloatStateMismatch.ql).
InvariantWithoutChange ==
  \A n \in RestoresFloat :
    (\A s \in FloatStateFlow(prog, n) : ~irqlChangesBetween(prog, s, n)) =>
      float[prog.loc[n]] \in {NoValue, irql}

\* KeSetEventIrql: in a driver the analysis can follow, a thread about to make
\* a reported call is at a level the annotations of KeSetEvent forbid for its
\* Wait argument.
EventAlertsAreReal ==
  WellFormed(prog) =>
    \A n \in Successors :
      Target(prog, n) = "KeSetEvent" /\ KeSetEventIrql(prog, potential, n) =>
        Breaks(n, irql)

\* IrqlNotSaved: a routine reported for not saving the IRQL to its annotated
\* parameter returns without having saved it there, on every path, whether by a
\* call, by an assignment or in functions the parameter was passed to.  A save
\* that is only annotated _IRQL_saves_global_ is left out: the query takes its
\* function for no IrqlSavesFunction.
SavedGlobally(f) ==
  \E n \in KernelUses(prog, f) :
    Saves(prog, n) /\ TargetFacts(prog, n).saves = "none"
NotSavedAlertsAreReal ==
  AtExit /\ stack = <<>> /\ IrqlNotSaved(prog, Here) /\ ~SavedGlobally(Here)
  => prog.parameter[Here] \notin {x \in Locations(prog) : saved[x] # NoValue}
=============================================================================
