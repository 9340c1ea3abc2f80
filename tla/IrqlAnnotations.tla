--------------------------- MODULE IrqlAnnotations ---------------------------
(***************************************************************************)
(* IRQL annotations of a function and the entry levels they allow, from    *)
(* src/drivers/libraries/Irql.qll.                                         *)
(***************************************************************************)
EXTENDS Integers

CONSTANT MaxIrql   \* getGlobalMaxIrqlLevel: the highest %_LEVEL of wdm.h

ASSUME MaxIrqlAssumption == MaxIrql \in Nat /\ MaxIrql >= 2

IrqlValue == 0 .. MaxIrql
DISPATCH_LEVEL == 2

\* getIrqlLevel of an annotation whose argument is not a standard level.
Unparsed == -1
Levels == IrqlValue \cup {Unparsed}

\* The kinds of annotation with a level, and where an IRQL can be saved.
LevelKinds == {"max", "alwaysMax", "min", "alwaysMin", "requires", "raises"}
SaveSlots == {"none", "parameter", "return"}

\* What the library knows of a function.  A function may carry several
\* annotations of a kind (its declarations, a role typedef, _When_ clauses).
Facts == [
  api : {"none", "KeRaiseIrql", "KeRaiseIrqlToDPCLevel", "KeLowerIrql"},
  max : SUBSET Levels, alwaysMax : SUBSET Levels,
  min : SUBSET Levels, alwaysMin : SUBSET Levels,
  requires : SUBSET Levels, raises : SUBSET Levels,
  same : BOOLEAN, paged : BOOLEAN,
  saves : SaveSlots, restores : BOOLEAN,
  savesGlobal : STRING, restoresGlobal : STRING,
  body : BOOLEAN]

IrqlRestrictsFunction(f) ==
  \/ f.saves = "return"
  \/ \E kind \in LevelKinds : f[kind] # {}

-----------------------------------------------------------------------------
\* An annotation kind that is present masks the kinds after it, even when its
\* level could not be evaluated.
hasUpperBound(f) ==
  IrqlValue \cap
    IF f.max # {} THEN f.max
    ELSE IF f.alwaysMax # {} THEN f.alwaysMax
    ELSE IF f.requires # {} THEN f.requires
    ELSE IF f.paged THEN {1} ELSE {}

hasLowerBound(f) ==
  IrqlValue \cap
    IF f.min # {} THEN f.min
    ELSE IF f.alwaysMin # {} THEN f.alwaysMin
    ELSE IF f.requires # {} THEN f.requires
    ELSE IF f.paged THEN {0} ELSE {}

\* Without a lower bound the interval starts at PASSIVE_LEVEL.
EntryLows(f) == IF hasLowerBound(f) = {} THEN {0} ELSE hasLowerBound(f)

\* Mutant: the implicit DISPATCH_LEVEL cap applies to every lower bound.
EntryHighsCapped(f) ==
  IF hasUpperBound(f) = {} THEN {DISPATCH_LEVEL} ELSE hasUpperBound(f)

\* Without an upper bound it ends at DISPATCH_LEVEL, or at the top if there is
\* a lower bound above that; with lower bounds on both sides, at either.
EntryHighs(f) ==
  IF hasUpperBound(f) # {} THEN hasUpperBound(f)
  ELSE {IF w > DISPATCH_LEVEL THEN MaxIrql ELSE DISPATCH_LEVEL :
          w \in hasLowerBound(f)}

\* Every pair of a lower and an upper bound contributes its interval.
getAllowableIrqlLevel(f) ==
  {r \in IrqlValue :
     /\ hasLowerBound(f) \cup hasUpperBound(f) # {}
     /\ \E l \in EntryLows(f), u \in EntryHighs(f) : r \in l .. u}
=============================================================================
