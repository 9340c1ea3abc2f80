----------------------------- MODULE IrqlQueries -----------------------------
(***************************************************************************)
(* The queries IrqlTooHigh, IrqlTooLow, IrqlSetTooHigh, IrqlSetTooLow and  *)
(* IrqlLoweredImproperly of src/drivers/general/queries, on the result of  *)
(* the analysis.                                                           *)
(***************************************************************************)
EXTENDS IrqlAnalysis

\* requirement < min(...) and requirement > max(...): no value, no alert.
BelowAll(r, levels) == levels # {} /\ \A l \in levels : r < l
AboveAll(r, levels) == levels # {} /\ \A l \in levels : r > l

\* The levels a call must not exceed or fall below: its target's annotations,
\* without those that could not be evaluated and the _When_ clauses that are
\* false at this call (p.whenFalse, whenConditionIsFalseAtCallSite).
Ceilings(p, c) ==
  {r \in (TargetFacts(p, c).max \cup TargetFacts(p, c).requires) \ {Unparsed} :
     r \notin p.whenFalse[c]}
Floors(p, c) ==
  {r \in (TargetFacts(p, c).min \cup TargetFacts(p, c).requires) \ {Unparsed} :
     r \notin p.whenFalse[c]}

\* Mutant: the largest of the potential levels is compared.
IrqlTooHighSomewhere(p, pot, c, prior) ==
  /\ FunctionCall(p, c) /\ prior \in getAPredecessor(p, c)
  /\ c \notin p.constantFalse
  /\ \E r \in Ceilings(p, c), l \in getPotentialExitIrqlAtCfn(p, pot, prior) :
       r < l

IrqlTooHigh(p, pot, c, prior) ==
  /\ FunctionCall(p, c) /\ prior \in getAPredecessor(p, c)
  /\ c \notin p.constantFalse
  /\ \E r \in Ceilings(p, c) :
       BelowAll(r, getPotentialExitIrqlAtCfn(p, pot, prior))

\* Mutant: a call one level below the required one is not reported.
IrqlTooLowStrict(p, pot, c, prior) ==
  /\ FunctionCall(p, c) /\ prior \in getAPredecessor(p, c)
  /\ c \notin p.constantFalse
  /\ \E r \in Floors(p, c) :
       AboveAll(r - 1, getPotentialExitIrqlAtCfn(p, pot, prior))

IrqlTooLow(p, pot, c, prior) ==
  /\ FunctionCall(p, c) /\ prior \in getAPredecessor(p, c)
  /\ c \notin p.constantFalse
  /\ \E r \in Floors(p, c) :
       AboveAll(r, getPotentialExitIrqlAtCfn(p, pot, prior))

\* KeRaiseIrql to a level below the current one.
IrqlLoweredImproperly(p, pot, c, prior) ==
  /\ KeRaiseIrqlCall(p, c) /\ prior \in getAPredecessor(p, c)
  /\ \E r \in RaiseLevel(p, c) :
       BelowAll(r, getPotentialExitIrqlAtCfn(p, pot, prior))

\* The level a function promises never to exceed: its always-max annotation,
\* or the level it raises to unless its minimum is above that.
RaiseCeilings(f) ==
  IF f.alwaysMax # {} THEN f.alwaysMax
  ELSE {r \in f.raises : \A m \in f.min : m <= r}

\* Mutant: one potential level above the promise is enough.
tooHighForFuncSomewhere(p, pot, n, r) ==
  r # Unparsed /\ \E l \in getPotentialExitIrqlAtCfn(p, pot, n) : r < l

tooHighForFunc(p, pot, n, r) ==
  r # Unparsed /\ BelowAll(r, getPotentialExitIrqlAtCfn(p, pot, n))
tooLowForFunc(p, pot, n, r) ==
  r # Unparsed /\ AboveAll(r, getPotentialExitIrqlAtCfn(p, pot, n))

\* Only nodes without a predecessor that is too high as well are reported.
IrqlSetTooHigh(p, pot, n) ==
  \E r \in RaiseCeilings(p.fn[p.scope[n]]) :
    /\ tooHighForFunc(p, pot, n, r)
    /\ ~\E m \in getAPredecessor(p, n) : tooHighForFunc(p, pot, m, r)

IrqlSetTooLow(p, pot, n) ==
  \E r \in p.fn[p.scope[n]].alwaysMin :
    /\ tooLowForFunc(p, pot, n, r)
    /\ ~\E m \in getAPredecessor(p, n) : tooLowForFunc(p, pot, m, r)
=============================================================================
