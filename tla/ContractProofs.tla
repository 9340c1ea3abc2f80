---------------------------- MODULE ContractProofs ----------------------------
(***************************************************************************)
(* Proofs about the contract queries, for every driver of any size: the    *)
(* analysis of IrqlSoundnessProofs carried over to the levels at which the *)
(* functions that are running were entered.                                *)
(***************************************************************************)
EXTENDS IrqlSoundnessProofs, ContractInvariants

-----------------------------------------------------------------------------
(* Ranges.                                                                 *)

\* A level derived for a node hides the fallback.
LEMMA DerivedLevels ==
  ASSUME NEW p, NEW pot, NEW n, NEW l \in pot[n]
  PROVE  getPotentialExitIrqlAtCfn(p, pot, n) = pot[n]
BY DEF getPotentialExitIrqlAtCfn

\* The bounds of a function are levels.
LEMMA RangeBounds ==
  ASSUME IsDatabase(prog), WellFormed(prog), NEW f \in DOMAIN prog.entry
  PROVE  /\ RaiseCeilings(prog.fn[f]) \subseteq Levels
         /\ prog.fn[f].alwaysMin \subseteq Levels \ {Unparsed}
<1>1. prog.fn[f] \in Facts
  BY DEF IsDatabase
<1>2. Unparsed \notin prog.fn[f].alwaysMin
  <2>1. "alwaysMin" \in LevelKinds
    BY DEF LevelKinds
  <2> QED
    BY <2>1 DEF WellFormed, Analysable
<1> DEFINE g == prog.fn[f]
<1>3. /\ g.alwaysMax \subseteq Levels /\ g.raises \subseteq Levels
      /\ g.alwaysMin \subseteq Levels
  BY <1>1 DEF Facts
<1>4. RaiseCeilings(g) \subseteq Levels
  BY <1>3 DEF RaiseCeilings
<1> QED
  BY <1>2, <1>3, <1>4

\* Levels on the same side of every bound f promises to keep.
SameSide(f, l, k) ==
  /\ \A r \in RaiseCeilings(prog.fn[f]) \ {Unparsed} : l > r <=> k > r
  /\ \A r \in prog.fn[f].alwaysMin : l < r <=> k < r

LEMMA DecidedAt ==
  ASSUME NEW f, Decided(f), NEW n \in Nodes(prog), prog.scope[n] = f,
         NEW l \in getPotentialExitIrqlAtCfn(prog, potential, n),
         NEW k \in getPotentialExitIrqlAtCfn(prog, potential, n)
  PROVE  SameSide(f, l, k)
BY DEF Decided, SameSide

LEMMA DecidedBefore ==
  ASSUME NEW f, Decided(f), NEW n \in Nodes(prog), prog.scope[n] = f,
         NEW m \in getAPredecessor(prog, n), NEW m2 \in getAPredecessor(prog, n),
         NEW l \in getPotentialExitIrqlAtCfn(prog, potential, m),
         NEW k \in getPotentialExitIrqlAtCfn(prog, potential, m2)
  PROVE  SameSide(f, l, k)
<1>1. /\ l \in LevelsBefore(prog, potential, n)
      /\ k \in LevelsBefore(prog, potential, n)
  BY DEF LevelsBefore
<1> QED
  BY <1>1 DEF Decided, SameSide

\* Where the levels at a node and before it are on one side of every bound, a
\* node at which the range is left is reported, or the range was left before.
LEMMA StepInRange ==
  ASSUME IsDatabase(prog), WellFormed(prog),
         NEW f \in DOMAIN prog.entry, Decided(f),
         NEW n \in Nodes(prog), prog.scope[n] = f,
         NEW m \in getAPredecessor(prog, n),
         NEW l \in Levels, l \in potential[m],
         NEW k \in Levels, k \in potential[n], OutOfRange(f, k)
  PROVE  OutOfRange(f, l) \/ RangeReported(f)
<1> DEFINE At(x) == getPotentialExitIrqlAtCfn(prog, potential, x)
<1>1. Levels \subseteq Int
  BY MaxIrqlAssumption DEF Levels, IrqlValue, Unparsed
<1>2. /\ k \in At(n)
      /\ \A x \in At(n) : SameSide(f, x, k)
  BY DerivedLevels, DecidedAt
<1>3. ASSUME NEW m2 \in getAPredecessor(prog, n), NEW x \in At(m2)
      PROVE  SameSide(f, x, l)
  <2>1. l \in At(m)
    BY DerivedLevels
  <2> QED
    BY <2>1, DecidedBefore
<1>4. ASSUME NEW r \in RaiseCeilings(prog.fn[f]) \ {Unparsed}, k > r, ~(l > r)
      PROVE  RangeReported(f)
  <2>1. r \in Int /\ k \in Int /\ l \in Int
    BY <1>1, RangeBounds
  <2>2. tooHighForFunc(prog, potential, n, r)
    <3> HIDE DEF At
    <3>1. BelowAll(r, At(n))
      BY <1>2, <1>4, <2>1 DEF BelowAll, SameSide
    <3> QED
      BY <3>1 DEF tooHighForFunc, At
  <2>3. ASSUME NEW m2 \in getAPredecessor(prog, n)
        PROVE  ~tooHighForFunc(prog, potential, m2, r)
    <3> HIDE DEF At
    <3>1. ~BelowAll(r, At(m2))
      BY <1>3, <1>4, <2>1 DEF BelowAll, SameSide
    <3> QED
      BY <3>1 DEF tooHighForFunc, At
  <2>4. IrqlSetTooHigh(prog, potential, n)
    BY <2>2, <2>3 DEF IrqlSetTooHigh
  <2> QED
    BY <2>4 DEF RangeReported
<1>5. ASSUME NEW r \in prog.fn[f].alwaysMin, k < r, ~(l < r)
      PROVE  RangeReported(f)
  <2>1. r \in Int /\ k \in Int /\ l \in Int /\ r # Unparsed
    BY <1>1, RangeBounds
  <2>2. tooLowForFunc(prog, potential, n, r)
    <3> HIDE DEF At
    <3>1. AboveAll(r, At(n))
      BY <1>2, <1>5, <2>1 DEF AboveAll, SameSide
    <3> QED
      BY <2>1, <3>1 DEF tooLowForFunc, At
  <2>3. ASSUME NEW m2 \in getAPredecessor(prog, n)
        PROVE  ~tooLowForFunc(prog, potential, m2, r)
    <3> HIDE DEF At
    <3>1. ~AboveAll(r, At(m2))
      BY <1>3, <1>5, <2>1 DEF AboveAll, SameSide
    <3> QED
      BY <3>1 DEF tooLowForFunc, At
  <2>4. IrqlSetTooLow(prog, potential, n)
    BY <2>2, <2>3 DEF IrqlSetTooLow
  <2> QED
    BY <2>4 DEF RangeReported
<1> QED
  BY <1>4, <1>5 DEF OutOfRange

\* A function entered outside its range is reported at its entry.
LEMMA EntryInRange ==
  ASSUME IsDatabase(prog), WellFormed(prog),
         NEW f \in DOMAIN prog.entry, Decided(f),
         NEW k \in Levels, k \in potential[prog.entry[f]], OutOfRange(f, k)
  PROVE  RangeReported(f)
<1> DEFINE e == prog.entry[f]
           At(x) == getPotentialExitIrqlAtCfn(prog, potential, x)
<1>1. Levels \subseteq Int
  BY MaxIrqlAssumption DEF Levels, IrqlValue, Unparsed
<1>2. e \in Nodes(prog) /\ prog.scope[e] = f /\ getAPredecessor(prog, e) = {}
  BY DEF IsDatabase
<1>3. k \in At(e) /\ \A x \in At(e) : SameSide(f, x, k)
  <2>1. PICK x : x = e
    OBVIOUS
  <2>2. k \in At(x)
    BY <2>1 DEF getPotentialExitIrqlAtCfn
  <2>3. ASSUME NEW y \in At(x) PROVE SameSide(f, y, k)
    <3>1. x \in Nodes(prog) /\ prog.scope[x] = f
      BY <1>2, <2>1
    <3> QED
      BY <2>2, <2>3, <3>1, DecidedAt
  <2> QED
    BY <2>1, <2>2, <2>3
<1>4. ASSUME NEW r \in RaiseCeilings(prog.fn[f]) \ {Unparsed}, k > r
      PROVE  RangeReported(f)
  <2>1. r \in Int /\ k \in Int
    BY <1>1, RangeBounds
  <2>2. tooHighForFunc(prog, potential, e, r)
    <3> HIDE DEF At
    <3>1. BelowAll(r, At(e))
      BY <1>3, <1>4, <2>1 DEF BelowAll, SameSide
    <3> QED
      BY <3>1 DEF tooHighForFunc, At
  <2>3. IrqlSetTooHigh(prog, potential, e)
    BY <1>2, <2>2 DEF IrqlSetTooHigh
  <2> QED
    BY <1>2, <2>3 DEF RangeReported
<1>5. ASSUME NEW r \in prog.fn[f].alwaysMin, k < r
      PROVE  RangeReported(f)
  <2>1. r \in Int /\ k \in Int /\ r # Unparsed
    BY <1>1, RangeBounds
  <2>2. tooLowForFunc(prog, potential, e, r)
    <3> HIDE DEF At
    <3>1. AboveAll(r, At(e))
      BY <1>3, <1>5, <2>1 DEF AboveAll, SameSide
    <3> QED
      BY <2>1, <3>1 DEF tooLowForFunc, At
  <2>3. IrqlSetTooLow(prog, potential, e)
    BY <1>2, <2>2 DEF IrqlSetTooLow
  <2> QED
    BY <1>2, <2>3 DEF RangeReported
<1> QED
  BY <1>4, <1>5 DEF OutOfRange

-----------------------------------------------------------------------------
(* Changes of the IRQL.                                                    *)

\* A call of a function that may change the IRQL is seen to change it, unless
\* it does so by a restore from a parameter.
LEMMA CalleeMayChange ==
  ASSUME IsContractDatabase(prog), NEW n \in Nodes(prog),
         FunctionCall(prog, n), MayChange(Target(prog, n))
  PROVE  isIrqlChangingCall(prog, n) \/ RestoresParameter(Target(prog, n))
<1> DEFINE g == Target(prog, n)
<1>1. g \in prog.calls[g]
  BY DEF IsContractDatabase
<1>2. CASE RestoresParameter(g)
  BY <1>2
<1>3. CASE \E m \in Calls(prog, g) : isIrqlChangingCall(prog, m)
  <2>1. PICK m \in Calls(prog, g) : isIrqlChangingCall(prog, m)
    BY <1>3
  <2>2. m \in Nodes(prog) /\ FunctionCall(prog, m) /\ prog.scope[m] = g
    BY <2>1 DEF Calls
  <2>3. CASE IrqlPrimitive(prog, m)
    BY <1>1, <2>1, <2>3 DEF isIrqlChangingCall
  <2>4. CASE ~IrqlPrimitive(prog, m)
    <3>1. PICK h \in prog.calls[Target(prog, m)] :
            \/ IrqlChangesFunction(prog.fn[h])
            \/ \E c \in Calls(prog, h) : IrqlPrimitive(prog, c)
      BY <2>1, <2>4 DEF isIrqlChangingCall
    <3>2. h \in prog.calls[g]
      BY <2>2, <3>1 DEF IsContractDatabase
    <3> QED
      BY <3>1, <3>2 DEF isIrqlChangingCall
  <2> QED
    BY <2>3, <2>4
<1> QED
  BY <1>2, <1>3 DEF MayChange

\* A call of a function that may change the IRQL may change it.
LEMMA CallerMayChange ==
  ASSUME IsContractDatabase(prog), NEW n \in Nodes(prog),
         FunctionCall(prog, n), MayChange(Target(prog, n))
  PROVE  MayChange(prog.scope[n])
<1>1. prog.calls[Target(prog, n)] \subseteq prog.calls[prog.scope[n]]
  BY DEF IsContractDatabase
<1>2. n \in Calls(prog, prog.scope[n])
  BY DEF Calls
<1> QED
  BY <1>1, <1>2, CalleeMayChange DEF RestoresParameter, MayChange

\* A call of the kernel that changes the IRQL.
Changes(n) ==
  /\ FunctionCall(prog, n)
  /\ isIrqlChangingCall(prog, n) \/ Class(prog, n) = "IrqlRestoreCall"

LEMMA CallChanges ==
  ASSUME IsContractDatabase(prog), NEW n \in Nodes(prog), Changes(n)
  PROVE  MayChange(prog.scope[n])
<1>1. n \in Calls(prog, prog.scope[n])
  BY DEF Calls, Changes
<1>2. prog.scope[n] \in prog.calls[prog.scope[n]]
  BY DEF Changes, IsContractDatabase
<1> QED
  BY <1>1, <1>2 DEF Changes, MayChange, RestoresParameter

\* A step inside the function that is running.
Walk(n) ==
  /\ n \in Successors /\ at' = n /\ stack' = stack
  /\ FunctionCall(prog, n) => ~TargetFacts(prog, n).body
  /\ prog' = prog /\ potential' = potential
  /\ irql' # irql => Changes(n)
  /\ \/ saved' = saved
     \/ /\ Saves(prog, n) /\ FunctionCall(prog, n)
        /\ saved' = [saved EXCEPT ![prog.loc[n]] = irql]

LEMMA Walks ==
  ASSUME IsContractDatabase(prog),
         Pass \/ Raise \/ Restore \/ Annotated \/ Opaque
  PROVE  \E n : Walk(n)
<1>1. CASE Pass
  BY <1>1 DEF Pass, Walk, analysisVars, Callee, FunctionCall
<1>2. ASSUME NEW n \in KernelCalls, NEW l, Returns(n, l)
      PROVE  /\ n \in Successors /\ n \in Nodes(prog) /\ FunctionCall(prog, n)
             /\ (l # irql => Changes(n)) => Walk(n)
  BY <1>2 DEF KernelCalls, Successors, Returns, Walk, analysisVars
<1>3. CASE Raise
  <2>1. PICK n \in KernelCalls :
          KeRaiseIrqlCall(prog, n) /\ \E l : Returns(n, l)
    BY <1>3 DEF Raise
  <2>2. isIrqlChangingCall(prog, n)
    BY <1>2, <2>1 DEF isIrqlChangingCall, IrqlPrimitive, KeRaiseIrqlCall
  <2> QED
    BY <1>2, <2>1, <2>2 DEF Changes
<1>4. CASE Restore
  <2>1. PICK n \in KernelCalls : Restores(prog, n) /\ \E l : Returns(n, l)
    BY <1>4 DEF Restore
  <2>2. PICK l : Returns(n, l)
    BY <2>1
  <2>3. Changes(n)
    <3>1. CASE Class(prog, n) = "IrqlRestoreCall"
      BY <1>2, <2>2, <3>1 DEF Changes
    <3>2. CASE Class(prog, n) \in {"KeLowerIrqlCall", "RestoresGlobalIrqlCall"}
      BY <1>2, <2>2, <3>2 DEF isIrqlChangingCall, IrqlPrimitive, Changes
    <3> QED
      BY <2>1, <3>1, <3>2 DEF Restores
  <2> QED
    BY <1>2, <2>2, <2>3
<1>5. CASE Annotated
  <2>1. PICK n \in KernelCalls :
          \/ Class(prog, n) = "IrqlRaisesAnnotated" /\ \E l : Returns(n, l)
          \/ Returns(n, irql)
    BY <1>5 DEF Annotated
  <2>2. CASE Returns(n, irql)
    BY <1>2, <2>2
  <2>3. CASE Class(prog, n) = "IrqlRaisesAnnotated" /\ \E l : Returns(n, l)
    <3>1. PICK l : Returns(n, l)
      BY <2>3
    <3>2. TargetFacts(prog, n).raises # {}
      BY <2>3 DEF Class
    <3>3. IrqlChangesFunction(prog.fn[Target(prog, n)])
      BY <3>2 DEF IrqlChangesFunction, TargetFacts
    <3>4. Target(prog, n) \in prog.calls[Target(prog, n)]
      BY <1>2, <3>1 DEF IsContractDatabase
    <3>5. isIrqlChangingCall(prog, n)
      BY <1>2, <3>1, <3>3, <3>4 DEF isIrqlChangingCall
    <3> QED
      BY <1>2, <3>1, <3>5 DEF Changes
  <2> QED
    BY <2>1, <2>2, <2>3
<1>6. CASE Opaque
  <2>1. PICK n \in KernelCalls : Returns(n, irql)
    BY <1>6 DEF Opaque
  <2> QED
    BY <1>2, <2>1
<1> QED
  BY <1>1, <1>3, <1>4, <1>5, <1>6

-----------------------------------------------------------------------------
(* The invariant.                                                          *)

\* What a step without a new database leaves alone.
Same == prog' = prog /\ potential' = potential
LEMMA SameFacts ==
  ASSUME Same, NEW f
  PROVE  /\ MayChange(f)' <=> MayChange(f)
         /\ Decided(f)' <=> Decided(f)
         /\ RangeReported(f)' <=> RangeReported(f)
         /\ \A l : OutOfRange(f, l)' <=> OutOfRange(f, l)
<1> USE DEF Same
<1>1. MayChange(f)' <=> MayChange(f)
  BY DEF MayChange, RestoresParameter
<1>2. Decided(f)' <=> Decided(f)
  BY DEF Decided
<1>3. RangeReported(f)' <=> RangeReported(f)
  BY DEF RangeReported
<1>4. \A l : OutOfRange(f, l)' <=> OutOfRange(f, l)
  BY DEF OutOfRange
<1> QED
  BY <1>1, <1>2, <1>3, <1>4

\* What the invariant says of the whole stack.
LEMMA HistoryTypes ==
  ASSUME ContractInv
  PROVE  /\ Len(stack) \in Nat
         /\ \A i \in 1 .. Len(stack) : stack[i].node \in Nodes(prog)
         /\ entered \in Seq(IrqlValue) /\ irql \in IrqlValue
         /\ IsDatabase(prog) /\ IsContractDatabase(prog)
         /\ IrqlValue \subseteq Levels
         /\ at = Idle => stack = <<>>
<1> DEFINE Frames == [node : Nodes(prog),
                      saved : [Locations(prog) -> IrqlValue \cup {NoValue}]]
<1>1. stack \in Seq(Frames) /\ irql \in IrqlValue
  BY DEF ContractInv, AnalysisInv, TypeOK
<1>2. Len(stack) \in Nat /\ \A i \in 1 .. Len(stack) : stack[i] \in Frames
  <2> HIDE DEF Frames
  <2> QED
    BY <1>1
<1>3. \A i \in 1 .. Len(stack) : stack[i].node \in Nodes(prog)
  BY <1>2
<1> QED
  BY <1>1, <1>2, <1>3 DEF ContractInv, AnalysisInv, HistoryInv, Levels

\* How the history follows a step.
LEMMA Observed ==
  ASSUME ObserveLevels
  PROVE  /\ Entering /\ ~Leaving => entered' = Append(entered, irql')
         /\ ~Entering /\ Leaving =>
              entered' = SubSeq(entered, 1, Len(entered) - 1)
         /\ ~Entering /\ ~Leaving => entered' = entered
<1> HIDE DEF Entering, Leaving
<1> QED
  BY DEF ObserveLevels

\* A function that is still running, where it was.
LEMMA FrameKept ==
  ASSUME Same, NEW i, FrameInv(i), Running(i)' = Running(i),
         entered'[i] = entered[i], LevelIn(i)' = LevelIn(i),
         i <= Len(stack') => /\ i <= Len(stack) /\ stack'[i].node = stack[i].node
                             /\ entered'[i + 1] = entered[i + 1]
  PROVE  FrameInv(i)'
<1> DEFINE f == Running(i)
           l == LevelIn(i)
<1>1. PICK g : g = f
  OBVIOUS
<1>2. PICK k : k = l
  OBVIOUS
<1>3. /\ g \in DOMAIN prog.entry
      /\ entered[i] \in potential[prog.entry[g]]
      /\ k # entered[i] => MayChange(g)
      /\ i <= Len(stack) =>
           \E m \in getAPredecessor(prog, stack[i].node) :
             m \in Nodes(prog) /\ entered[i + 1] \in potential[m]
      /\ Decided(g) /\ OutOfRange(g, k) => RangeReported(g)
  BY <1>1, <1>2 DEF FrameInv
<1>4. /\ MayChange(g)' <=> MayChange(g)
      /\ Decided(g)' <=> Decided(g)
      /\ RangeReported(g)' <=> RangeReported(g)
      /\ OutOfRange(g, k)' <=> OutOfRange(g, k)
  BY SameFacts
<1>5. Running(i)' = g /\ LevelIn(i)' = k
  BY <1>1, <1>2
<1>6. /\ MayChange(Running(i))' <=> MayChange(g)
      /\ Decided(Running(i))' <=> Decided(g)
      /\ RangeReported(Running(i))' <=> RangeReported(g)
      /\ OutOfRange(Running(i), LevelIn(i))' <=> OutOfRange(g, k)
  BY <1>4, <1>5 DEF MayChange, RestoresParameter, Decided, RangeReported,
     OutOfRange
<1>7. i <= Len(stack') =>
        \E m \in getAPredecessor(prog', stack'[i].node) :
          m \in Nodes(prog') /\ entered'[i + 1] \in potential'[m]
  BY <1>3 DEF Same
<1> QED
  BY <1>3, <1>5, <1>6, <1>7 DEF FrameInv, Same

\* The last function, after a step from m to n inside it.
LEMMA FrameMoved ==
  ASSUME ContractInv, AnalysisInv', WellFormed(prog), Same, NEW i, FrameInv(i),
         NEW n \in Nodes(prog), at' = n, at' # Idle, prog.scope[n] = Running(i),
         NEW m \in getAPredecessor(prog, n), m \in Nodes(prog),
         LevelIn(i) \in potential[m], LevelIn(i) \in Levels,
         i = Len(stack') + 1, Len(stack') \in Nat, entered'[i] = entered[i],
         irql' # LevelIn(i) => MayChange(prog.scope[n])
  PROVE  FrameInv(i)'
<1>1. PICK f : f = Running(i)
  OBVIOUS
<1>2. PICK l : l = LevelIn(i)
  OBVIOUS
<1>3. PICK k : k = irql'
  OBVIOUS
<1>4. /\ f \in DOMAIN prog.entry /\ entered[i] \in potential[prog.entry[f]]
      /\ l # entered[i] => MayChange(f)
      /\ Decided(f) /\ OutOfRange(f, l) => RangeReported(f)
      /\ l \in potential[m] /\ l \in Levels /\ prog.scope[n] = f
      /\ k # l => MayChange(f)
  BY <1>1, <1>2, <1>3 DEF FrameInv
<1>5. Running(i)' = f /\ LevelIn(i)' = k
  <2>1. Running(i)' = RunningAbove(prog, stack', n, i - 1)
    BY DEF Running, Same
  <2>2. i - 1 = Len(stack')
    OBVIOUS
  <2> QED
    BY <1>3, <1>4, <2>1, <2>2 DEF RunningAbove, LevelIn
<1>6. k \in potential[n] /\ k \in Levels
  <2>1. WellFormed(prog')
    BY DEF Same
  <2>2. irql' \in potential'[at'] /\ irql' \in IrqlValue
    BY <2>1 DEF AnalysisInv, Followed, TypeOK
  <2> QED
    BY <1>3, <2>2 DEF Same, Levels
<1>7. Decided(f) /\ OutOfRange(f, k) => RangeReported(f)
  <2>1. IsDatabase(prog)
    BY HistoryTypes
  <2> QED
    BY <1>4, <1>6, <2>1, StepInRange
<1>8. /\ MayChange(f)' <=> MayChange(f)
      /\ Decided(f)' <=> Decided(f)
      /\ RangeReported(f)' <=> RangeReported(f)
      /\ OutOfRange(f, k)' <=> OutOfRange(f, k)
  BY SameFacts
<1>9. /\ MayChange(Running(i))' <=> MayChange(f)
      /\ Decided(Running(i))' <=> Decided(f)
      /\ RangeReported(Running(i))' <=> RangeReported(f)
      /\ OutOfRange(Running(i), LevelIn(i))' <=> OutOfRange(f, k)
  BY <1>5, <1>8 DEF MayChange, RestoresParameter, Decided, RangeReported,
     OutOfRange
<1>10. ~(i <= Len(stack'))
  OBVIOUS
<1>11. k # entered[i] => MayChange(f)
  BY <1>4
<1> QED
  BY <1>4, <1>5, <1>7, <1>9, <1>10, <1>11 DEF FrameInv, Same

\* A function just entered.
LEMMA FrameEntered ==
  ASSUME ContractInv, AnalysisInv', WellFormed(prog), Same, NEW i,
         NEW f \in DOMAIN prog.entry, at' = prog.entry[f], at' # Idle,
         i = Len(stack') + 1, Len(stack') \in Nat, entered'[i] = irql'
  PROVE  FrameInv(i)'
<1>1. PICK k : k = irql'
  OBVIOUS
<1>2. IsDatabase(prog)
  BY HistoryTypes
<1>3. prog.scope[prog.entry[f]] = f
  BY <1>2 DEF IsDatabase
<1>4. Running(i)' = f /\ LevelIn(i)' = k
  <2>1. Running(i)' = RunningAbove(prog, stack', at', i - 1)
    BY DEF Running, Same
  <2>2. i - 1 = Len(stack')
    OBVIOUS
  <2> QED
    BY <1>1, <1>3, <2>1, <2>2 DEF RunningAbove, LevelIn
<1>5. k \in potential[prog.entry[f]] /\ k \in Levels
  <2>1. WellFormed(prog')
    BY DEF Same
  <2>2. irql' \in potential'[at'] /\ irql' \in IrqlValue
    BY <2>1 DEF AnalysisInv, Followed, TypeOK
  <2> QED
    BY <1>1, <2>2 DEF Same, Levels
<1>6. Decided(f) /\ OutOfRange(f, k) => RangeReported(f)
  BY <1>2, <1>5, EntryInRange
<1>7. /\ Decided(f)' <=> Decided(f)
      /\ RangeReported(f)' <=> RangeReported(f)
      /\ OutOfRange(f, k)' <=> OutOfRange(f, k)
  BY SameFacts
<1>8. /\ Decided(Running(i))' <=> Decided(f)
      /\ RangeReported(Running(i))' <=> RangeReported(f)
      /\ OutOfRange(Running(i), LevelIn(i))' <=> OutOfRange(f, k)
  BY <1>4, <1>7 DEF Decided, RangeReported, OutOfRange
<1>9. ~(i <= Len(stack')) /\ entered'[i] = k
  BY <1>1
<1> QED
  BY <1>4, <1>5, <1>6, <1>8, <1>9 DEF FrameInv, Same

\* A function that calls another one.
LEMMA FrameCalls ==
  ASSUME Same, NEW i, FrameInv(i), Running(i)' = Running(i),
         entered'[i] = entered[i], LevelIn(i)' = LevelIn(i),
         NEW m \in getAPredecessor(prog, stack'[i].node), m \in Nodes(prog),
         entered'[i + 1] \in potential[m]
  PROVE  FrameInv(i)'
<1>1. PICK f : f = Running(i)
  OBVIOUS
<1>2. PICK l : l = LevelIn(i)
  OBVIOUS
<1>3. /\ f \in DOMAIN prog.entry /\ entered[i] \in potential[prog.entry[f]]
      /\ l # entered[i] => MayChange(f)
      /\ Decided(f) /\ OutOfRange(f, l) => RangeReported(f)
  BY <1>1, <1>2 DEF FrameInv
<1>4. /\ MayChange(f)' <=> MayChange(f)
      /\ Decided(f)' <=> Decided(f)
      /\ RangeReported(f)' <=> RangeReported(f)
      /\ OutOfRange(f, l)' <=> OutOfRange(f, l)
  BY SameFacts
<1>5. Running(i)' = f /\ LevelIn(i)' = l
  BY <1>1, <1>2
<1>6. /\ MayChange(Running(i))' <=> MayChange(f)
      /\ Decided(Running(i))' <=> Decided(f)
      /\ RangeReported(Running(i))' <=> RangeReported(f)
      /\ OutOfRange(Running(i), LevelIn(i))' <=> OutOfRange(f, l)
  BY <1>4, <1>5 DEF MayChange, RestoresParameter, Decided, RangeReported,
     OutOfRange
<1>7. \E x \in getAPredecessor(prog', stack'[i].node) :
        x \in Nodes(prog') /\ entered'[i + 1] \in potential'[x]
  BY DEF Same
<1> QED
  BY <1>3, <1>5, <1>6, <1>7 DEF FrameInv, Same

-----------------------------------------------------------------------------
(* What is saved.                                                          *)

\* A function that is still running, with the same levels saved.
LEMMA SavedFrameKept ==
  ASSUME Same, NEW f, NEW x, NEW i, SavedFrame(f, x, i),
         Running(i)' = Running(i), SavedAt(i)' = SavedAt(i),
         \A j \in 1 .. i - 1 : stack'[j].node = stack[j].node
  PROVE  SavedFrame(f, x, i)'
<1>1. Held(x, i)' <=> Held(x, i)
  BY DEF Held, Same
<1>2. /\ KernelUses(prog', f) = KernelUses(prog, f)
      /\ Locations(prog') = Locations(prog)
      /\ \A n : Saves(prog', n) <=> Saves(prog, n)
  BY DEF Same
<1>3. PICK g : g = Running(i)
  OBVIOUS
<1>4. PICK v : v = SavedAt(i)
  OBVIOUS
<1>5. Running(i)' = g /\ SavedAt(i)' = v
  BY <1>3, <1>4
<1> QED
  BY <1>1, <1>2, <1>3, <1>4, <1>5 DEF SavedFrame, Same

\* The function on top finds its parameter x saved to by a call it has made.
LEMMA SavedByCall ==
  ASSUME NEW f, NEW n \in Nodes(prog), Saves(prog, n), FunctionCall(prog, n),
         ~TargetFacts(prog, n).body, prog.scope[n] \in prog.flow[f],
         prog.loc[n] = prog.parameter[f]
  PROVE  \E m \in KernelUses(prog, f) : Saves(prog, m)
BY DEF KernelUses

\* A step inside a function.
LEMMA WalkKeeps ==
  ASSUME ContractInv, AnalysisInv', ObserveLevels, \E n : Walk(n)
  PROVE  HistoryInv'
<1>1. PICK n : Walk(n)
  OBVIOUS
<1>2. /\ n \in Nodes(prog) /\ at \in Nodes(prog) /\ at # Idle
      /\ at \in getAPredecessor(prog, n) /\ prog.scope[at] = prog.scope[n]
  BY <1>1, Ahead DEF Walk, ContractInv
<1>3. Same /\ at' = n /\ stack' = stack /\ at' # Idle
  BY <1>1, <1>2 DEF Walk, Same, ContractInv, AnalysisInv
<1>4. entered' = entered
  BY <1>2, <1>3, Observed, HistoryTypes DEF Entering, Leaving
<1>5. Len(stack) \in Nat
  BY HistoryTypes
<1>6. ASSUME WellFormed(prog), NEW i \in 1 .. Len(stack) + 1
      PROVE  FrameInv(i)'
  <2>1. FrameInv(i)
    BY <1>2, <1>6 DEF ContractInv, HistoryInv
  <2>2. Running(i)' = Running(i)
    BY <1>2, <1>3 DEF Running, RunningAbove, Same
  <2>3. CASE i # Len(stack) + 1
    <3>1. LevelIn(i)' = LevelIn(i) /\ i <= Len(stack)
      BY <1>3, <1>4, <1>5, <2>3 DEF LevelIn
    <3> QED
      BY <1>3, <1>4, <2>1, <2>2, <3>1, FrameKept
  <2>4. CASE i = Len(stack) + 1
    <3>1. Running(i) = prog.scope[n] /\ LevelIn(i) = irql
      BY <1>2, <1>5, <2>4 DEF Running, RunningAbove, LevelIn
    <3>2. irql \in potential[at] /\ irql \in Levels
      BY <1>1, <1>6, Ahead, HistoryTypes DEF Walk, Followed, ContractInv
    <3>3. irql' # irql => MayChange(prog.scope[n])
      BY <1>1, <1>2, CallChanges, HistoryTypes DEF Walk
    <3> QED
      BY <1>2, <1>3, <1>4, <1>5, <1>6, <2>1, <2>4, <3>1, <3>2, <3>3, FrameMoved
  <2> QED
    BY <2>3, <2>4
<1>7. Len(entered) = Len(stack) + 1 /\ entered \in Seq(IrqlValue)
  BY <1>2 DEF ContractInv, HistoryInv
<1>8. ASSUME WellFormed(prog) PROVE SavedInv'
  <2>1. SavedInv
    BY <1>2, <1>8 DEF ContractInv, HistoryInv
  <2>2. PICK f : f = Running(1)
    OBVIOUS
  <2>3. PICK x : x = prog.parameter[f]
    OBVIOUS
  <2>4. \A i \in 1 .. Len(stack) + 1 : Running(i)' = Running(i)
    BY <1>2, <1>3 DEF Running, RunningAbove, Same
  <2>5. ASSUME NEW i \in 1 .. Len(stack) + 1 PROVE SavedFrame(f, x, i)'
    <3>1. SavedFrame(f, x, i)
      BY <2>1, <2>2, <2>3 DEF SavedInv
    <3>2. CASE saved' = saved \/ i # Len(stack) + 1
      <4>1. SavedAt(i)' = SavedAt(i)
        BY <1>3, <3>2 DEF SavedAt
      <4> QED
        BY <1>3, <2>4, <3>1, <4>1, SavedFrameKept
    <3>3. CASE saved' # saved /\ i = Len(stack) + 1
      <4>1. /\ Saves(prog, n) /\ FunctionCall(prog, n)
            /\ saved' = [saved EXCEPT ![prog.loc[n]] = irql]
            /\ ~TargetFacts(prog, n).body
        BY <1>1, <3>3 DEF Walk
      <4>2. Running(i) = prog.scope[n]
        <5>1. i - 1 = Len(stack)
          BY <1>5, <3>3
        <5> QED
          BY <1>2, <5>1 DEF Running, RunningAbove
      <4>3. SavedAt(i) = saved /\ SavedAt(i)' = saved'
        BY <1>3, <3>3 DEF SavedAt
      <4>4. saved \in [Locations(prog) -> IrqlValue \cup {NoValue}]
        BY DEF ContractInv, AnalysisInv, TypeOK
      <4>5. ASSUME Held(x, i)', x \in Locations(prog), saved'[x] # NoValue
            PROVE  \E m \in KernelUses(prog, f) : Saves(prog, m)
        <5>1. Held(x, i)
          BY <1>3, <4>5 DEF Held, Same
        <5>2. CASE x = prog.loc[n]
          BY <1>2, <2>3, <3>1, <4>1, <4>2, <5>1, <5>2, SavedByCall DEF SavedFrame
        <5>3. CASE x # prog.loc[n]
          <6>1. saved[x] # NoValue
            BY <4>1, <4>4, <4>5, <5>3
          <6> QED
            BY <3>1, <4>3, <4>5, <5>1, <6>1 DEF SavedFrame
        <5> QED
          BY <5>2, <5>3
      <4>6. Held(x, i)' => Running(i)' \in prog'.flow[f]
        <5>1. Held(x, i)' <=> Held(x, i)
          BY <1>3 DEF Held, Same
        <5> QED
          BY <1>3, <2>4, <3>1, <5>1 DEF SavedFrame, Same
      <4>7. (\E m \in KernelUses(prog, f) : Saves(prog, m)) =>
              \E m \in KernelUses(prog', f) : Saves(prog', m)
        BY <1>3 DEF Same
      <4>8. Locations(prog') = Locations(prog)
        BY <1>3 DEF Same
      <4> QED
        BY <4>3, <4>5, <4>6, <4>7, <4>8 DEF SavedFrame
    <3> QED
      BY <3>2, <3>3
  <2>6. Running(1)' = f /\ prog'.parameter[f] = x /\ Len(stack') = Len(stack)
    <3>1. 1 \in 1 .. Len(stack) + 1
      BY <1>5
    <3> QED
      BY <1>3, <2>2, <2>3, <2>4, <3>1 DEF Same
  <2> QED
    BY <2>5, <2>6 DEF SavedInv
<1> QED
  BY <1>3, <1>4, <1>6, <1>7, <1>8 DEF HistoryInv, Same

\* A call of a function with a body.
LEMMA CallKeeps ==
  ASSUME ContractInv, AnalysisInv', ObserveLevels, Invoke
  PROVE  HistoryInv'
<1> DEFINE d == Len(stack)
<1>1. PICK n \in Successors :
        /\ Callee(prog, n) \in DOMAIN prog.entry
        /\ stack' = Append(stack, [node |-> n, saved |-> saved])
        /\ at' = prog.entry[Callee(prog, n)]
        /\ saved' = Passed(prog, n, saved, NothingSaved(prog))
  BY DEF Invoke
<1>2. /\ n \in Nodes(prog) /\ at \in Nodes(prog) /\ at # Idle
      /\ at \in getAPredecessor(prog, n) /\ prog.scope[at] = prog.scope[n]
  BY <1>1, Ahead DEF ContractInv
<1>3. Same /\ irql' = irql
  BY DEF Invoke, Same, analysisVars
<1>4. at' # Idle
  <2>1. IsDatabase(prog) /\ Idle \notin Nodes(prog)
    BY DEF ContractInv, AnalysisInv
  <2> QED
    BY <1>1, <2>1 DEF IsDatabase
<1>5. /\ d \in Nat /\ Len(stack') = d + 1
      /\ \A i \in 1 .. d : stack'[i] = stack[i]
      /\ stack'[d + 1].node = n /\ stack'[d + 1].saved = saved
  <2>1. stack \in Seq([node : Nodes(prog),
                       saved : [Locations(prog) -> IrqlValue \cup {NoValue}]])
    BY DEF ContractInv, AnalysisInv, TypeOK
  <2> QED
    BY <1>1, <2>1
<1>6. /\ Len(entered) = d + 1 /\ entered \in Seq(IrqlValue)
      /\ irql \in IrqlValue
  BY <1>2, HistoryTypes DEF ContractInv, HistoryInv
<1>7. entered' = Append(entered, irql)
  BY <1>3, <1>5, Observed DEF Entering, Leaving
<1>8. /\ entered' \in Seq(IrqlValue) /\ Len(entered') = d + 2
      /\ \A i \in 1 .. d + 1 : entered'[i] = entered[i]
      /\ entered'[d + 2] = irql
  BY <1>5, <1>6, <1>7
<1>9. ASSUME WellFormed(prog), NEW i \in 1 .. d + 2 PROVE FrameInv(i)'
  <2>1. CASE i = d + 2
    BY <1>1, <1>3, <1>4, <1>5, <1>8, <1>9, <2>1, FrameEntered
  <2>2. CASE i \in 1 .. d
    <3>1. FrameInv(i)
      BY <1>2, <1>5, <1>9, <2>2 DEF ContractInv, HistoryInv
    <3>2. Running(i)' = Running(i)
      <4>1. i - 1 # d /\ i - 1 # Len(stack') /\ (i - 1) + 1 = i
        BY <1>5, <2>2
      <4> QED
        BY <1>3, <1>5, <2>2, <4>1 DEF Running, RunningAbove, Same
    <3>3. LevelIn(i)' = LevelIn(i)
      <4>1. i # d + 1 /\ i # Len(stack') + 1 /\ i + 1 \in 1 .. d + 1
        BY <1>5, <2>2
      <4> QED
        BY <1>8, <4>1 DEF LevelIn
    <3>4. /\ i <= d /\ stack'[i].node = stack[i].node
          /\ entered'[i + 1] = entered[i + 1] /\ entered'[i] = entered[i]
      BY <1>5, <1>8, <2>2
    <3> QED
      BY <1>3, <3>1, <3>2, <3>3, <3>4, FrameKept
  <2>3. CASE i = d + 1
    <3>1. FrameInv(i)
      BY <1>2, <1>5, <1>9, <2>3 DEF ContractInv, HistoryInv
    <3>2. Running(i) = prog.scope[at] /\ LevelIn(i) = irql
      <4>1. i - 1 = d
        BY <1>5, <2>3
      <4> QED
        BY <2>3, <4>1 DEF Running, RunningAbove, LevelIn
    <3>3. Running(i)' = prog.scope[at] /\ LevelIn(i)' = irql
      <4>1. i - 1 # Len(stack') /\ (i - 1) + 1 = d + 1 /\ i # Len(stack') + 1
            /\ i + 1 = d + 2
        BY <1>5, <2>3
      <4>2. Running(i)' = prog.scope[n]
        BY <1>3, <1>5, <4>1 DEF Running, RunningAbove, Same
      <4>3. LevelIn(i)' = irql
        BY <1>8, <4>1 DEF LevelIn
      <4> QED
        BY <1>2, <4>2, <4>3
    <3>4. irql \in potential[at]
      BY <1>1, <1>9, Ahead DEF Followed, ContractInv
    <3> QED
      BY <1>2, <1>3, <1>5, <1>8, <2>3, <3>1, <3>2, <3>3, <3>4, FrameCalls
  <2> QED
    BY <1>5, <2>1, <2>2, <2>3
<1>10. ASSUME WellFormed(prog) PROVE SavedInv'
  <2>1. SavedInv
    BY <1>2, <1>10 DEF ContractInv, HistoryInv
  <2>2. PICK c : c = d + 1
    OBVIOUS
  <2>3. /\ c \in Nat /\ c >= 1 /\ c <= Len(stack) + 1 /\ c - 1 = Len(stack)
        /\ Len(stack') = c /\ stack'[c].node = n /\ stack'[c].saved = saved
    BY <1>5, <2>2
  <2>4. Running(c) = prog.scope[n]
    BY <1>2, <2>3 DEF Running, RunningAbove
  <2>5. ASSUME NEW i \in 1 .. c PROVE Running(i)' = Running(i)
    <3>1. i - 1 # Len(stack') /\ (i - 1) + 1 = i
      BY <2>3
    <3>2. Running(i)' = prog.scope[stack'[i].node]
      BY <1>3, <3>1 DEF Running, RunningAbove, Same
    <3>3. CASE i = c
      BY <2>3, <2>4, <3>2, <3>3
    <3>4. CASE i # c
      <4>1. i \in 1 .. d /\ i - 1 # d
        BY <1>5, <2>2, <3>4
      <4> QED
        BY <1>5, <3>1, <3>2, <4>1 DEF Running, RunningAbove
    <3> QED
      BY <3>3, <3>4
  <2>6. PICK e : e = c + 1
    OBVIOUS
  <2>7. Running(e)' = prog.scope[at']
    <3>1. e - 1 = Len(stack')
      BY <2>3, <2>6
    <3> QED
      BY <1>3, <3>1 DEF Running, RunningAbove, Same
  <2>8. /\ Class(prog, n) = "FunctionCall"
        /\ Target(prog, n) = prog.scope[at']
    <3>1. Called(prog, potential, stack', at')
      BY <1>3, <1>4, <1>10 DEF AnalysisInv, Followed, Same
    <3>2. c \in 1 .. Len(stack')
      BY <2>3
    <3> QED
      BY <2>3, <3>1, <3>2 DEF Called, RunningAbove
  <2>9. PICK f : f = Running(1)
    OBVIOUS
  <2>10. PICK x : x = prog.parameter[f]
    OBVIOUS
  <2>11. f \in DOMAIN prog.entry
    <3>1. FrameInv(1)
      BY <1>2, <1>5, <1>10 DEF ContractInv, HistoryInv
    <3> QED
      BY <2>9, <3>1 DEF FrameInv
  <2>12. ASSUME NEW i \in 1 .. c PROVE SavedFrame(f, x, i)'
    <3>1. SavedFrame(f, x, i)
      BY <2>1, <2>3, <2>9, <2>10 DEF SavedInv
    <3>2. SavedAt(i)' = SavedAt(i)
      <4>1. i # Len(stack') + 1
        BY <2>3
      <4>2. CASE i = c
        BY <2>3, <4>1, <4>2 DEF SavedAt
      <4>3. CASE i # c
        <5>1. i \in 1 .. d /\ i # Len(stack) + 1
          BY <1>5, <2>2, <4>3
        <5> QED
          BY <1>5, <4>1, <5>1 DEF SavedAt
      <4> QED
        BY <4>2, <4>3
    <3>3. \A j \in 1 .. i - 1 : stack'[j].node = stack[j].node
      <4>1. \A j \in 1 .. i - 1 : j \in 1 .. d
        BY <1>5, <2>2
      <4> QED
        BY <1>5, <4>1
    <3> QED
      BY <1>3, <2>5, <3>1, <3>2, <3>3, SavedFrameKept
  <2>13. SavedFrame(f, x, e)'
    <3>1. SavedFrame(f, x, c)
      BY <2>1, <2>3, <2>9, <2>10 DEF SavedInv
    <3>2. Held(x, e)' => Held(x, c) /\ x \in prog.shared[n]
      <4> SUFFICES ASSUME Held(x, e)' PROVE Held(x, c) /\ x \in prog.shared[n]
        OBVIOUS
      <4>1. \A j \in 1 .. c : x \in prog.shared[stack'[j].node]
        BY <1>3, <2>3, <2>6 DEF Held, Same
      <4>2. \A j \in 1 .. c - 1 : j \in 1 .. d /\ j \in 1 .. c
        BY <1>5, <2>2
      <4>3. c \in 1 .. c
        BY <2>3
      <4> QED
        BY <1>5, <2>3, <4>1, <4>2, <4>3 DEF Held
    <3>3. FunctionCall(prog, n)
      BY <2>8, ClassFacts
    <3>4. Held(x, e)' => Running(e)' \in prog.flow[f]
      <4>1. prog.scope[n] \in prog.flow[f] /\ x \in prog.shared[n] =>
              Target(prog, n) \in prog.flow[f]
        BY <1>2, <2>10, <2>11, <3>3, HistoryTypes DEF IsContractDatabase
      <4> QED
        BY <2>4, <2>7, <2>8, <3>1, <3>2, <4>1 DEF SavedFrame
    <3>5. SavedAt(c) = saved /\ SavedAt(e)' = saved'
      BY <2>3, <2>6 DEF SavedAt
    <3>6. x \in prog.shared[n] /\ x \in Locations(prog) => saved'[x] = saved[x]
      BY <1>1 DEF Passed
    <3>7. ASSUME Held(x, e)', x \in Locations(prog), saved'[x] # NoValue
          PROVE  \E m \in KernelUses(prog, f) : Saves(prog, m)
      BY <3>1, <3>2, <3>5, <3>6, <3>7 DEF SavedFrame
    <3>8. (\E m \in KernelUses(prog, f) : Saves(prog, m)) =>
            \E m \in KernelUses(prog', f) : Saves(prog', m)
      BY <1>3 DEF Same
    <3>9. Locations(prog') = Locations(prog) /\ prog' = prog
      BY <1>3 DEF Same
    <3> QED
      BY <3>4, <3>5, <3>7, <3>8, <3>9 DEF SavedFrame
  <2>14. Running(1)' = f /\ prog'.parameter[f] = x
    <3>1. 1 \in 1 .. c
      BY <2>3
    <3> QED
      BY <1>3, <2>5, <2>9, <2>10, <3>1 DEF Same
  <2>15. \A i \in 1 .. Len(stack') + 1 : i \in 1 .. c \/ i = e
    BY <2>3, <2>6
  <2> QED
    BY <2>12, <2>13, <2>14, <2>15 DEF SavedInv
<1> QED
  BY <1>3, <1>4, <1>5, <1>8, <1>9, <1>10 DEF HistoryInv, Same

\* A return.
LEMMA LeaveKeeps ==
  ASSUME ContractInv, AnalysisInv', ObserveLevels, LeaveFunction
  PROVE  HistoryInv'
<1> DEFINE d == Len(stack)
           n == stack[d].node
<1>1. /\ Same /\ irql' = irql /\ at' = n /\ at # Idle
      /\ stack # <<>> /\ stack' = SubSeq(stack, 1, d - 1)
  BY DEF LeaveFunction, Same, analysisVars
<1>2. /\ d \in Nat /\ d >= 1 /\ Len(stack') = d - 1 /\ n \in Nodes(prog)
      /\ \A i \in 1 .. d - 1 : stack'[i] = stack[i]
  <2> DEFINE Frames == [node : Nodes(prog),
                        saved : [Locations(prog) -> IrqlValue \cup {NoValue}]]
  <2>1. stack \in Seq(Frames)
    BY DEF ContractInv, AnalysisInv, TypeOK
  <2>2. /\ d \in Nat /\ d >= 1 /\ stack[d] \in Frames
        /\ Len(SubSeq(stack, 1, d - 1)) = d - 1
        /\ \A i \in 1 .. d - 1 : SubSeq(stack, 1, d - 1)[i] = stack[i]
    <3> HIDE DEF Frames
    <3> QED
      BY <1>1, <2>1, Popped
  <2>3. n \in Nodes(prog)
    BY <2>2
  <2> QED
    BY <1>1, <2>2, <2>3
<1>3. at' # Idle
  BY <1>1, <1>2 DEF ContractInv, AnalysisInv
<1>4. entered \in Seq(IrqlValue) /\ Len(entered) = d + 1
  BY <1>1 DEF ContractInv, HistoryInv
<1>5. entered' = SubSeq(entered, 1, Len(entered) - 1)
  BY <1>1, <1>2, Observed DEF Entering, Leaving
<1>6. /\ entered' \in Seq(IrqlValue) /\ Len(entered') = d
      /\ \A i \in 1 .. d : entered'[i] = entered[i]
  <2>1. entered # <<>> /\ Len(entered) - 1 = d
    BY <1>2, <1>4
  <2> QED
    BY <1>4, <1>5, <2>1, Popped
<1>7. ASSUME WellFormed(prog), NEW i \in 1 .. d PROVE FrameInv(i)'
  <2>1. FrameInv(i) /\ FrameInv(d + 1)
    BY <1>1, <1>2, <1>7 DEF ContractInv, HistoryInv
  <2>2. CASE i # d
    <3>1. i \in 1 .. d - 1 /\ i + 1 \in 1 .. d
      BY <1>2, <2>2
    <3>2. Running(i)' = Running(i)
      <4>1. /\ i - 1 # d /\ i - 1 # Len(stack') /\ (i - 1) + 1 = i
            /\ stack'[i] = stack[i]
        BY <1>2, <3>1
      <4> QED
        BY <1>1, <4>1 DEF Running, RunningAbove, Same
    <3>3. LevelIn(i)' = LevelIn(i)
      <4>1. i # d + 1 /\ i # Len(stack') + 1
        BY <1>2, <3>1
      <4> QED
        BY <1>6, <3>1, <4>1 DEF LevelIn
    <3>4. /\ i <= d /\ stack'[i].node = stack[i].node
          /\ entered'[i + 1] = entered[i + 1] /\ entered'[i] = entered[i]
      BY <1>2, <1>6, <3>1
    <3> QED
      BY <1>1, <2>1, <3>2, <3>3, <3>4, FrameKept
  <2>3. CASE i = d
    <3>1. Running(i) = prog.scope[n] /\ LevelIn(i) = entered[d + 1]
      <4>1. i - 1 # d /\ (i - 1) + 1 = d /\ i # d + 1 /\ i + 1 = d + 1
        BY <1>2, <2>3
      <4> QED
        BY <4>1 DEF Running, RunningAbove, LevelIn
    <3>2. Running(d + 1) = prog.scope[at] /\ LevelIn(d + 1) = irql
      <4>1. (d + 1) - 1 = d
        BY <1>2
      <4> QED
        BY <4>1 DEF Running, RunningAbove, LevelIn
    <3>3. PICK m \in getAPredecessor(prog, n) :
            m \in Nodes(prog) /\ entered[d + 1] \in potential[m]
      BY <1>2, <2>1, <2>3 DEF FrameInv
    <3>4. irql # entered[d + 1] => MayChange(prog.scope[n])
      <4>1. irql # entered[d + 1] => MayChange(prog.scope[at])
        BY <2>1, <3>2 DEF FrameInv
      <4>2. /\ Class(prog, n) = "FunctionCall"
            /\ Target(prog, n) = prog.scope[at]
        <5>1. Called(prog, potential, stack, at)
          BY <1>1, <1>7 DEF ContractInv, AnalysisInv, Followed
        <5> QED
          BY <1>2, <5>1 DEF Called, RunningAbove
      <4>3. FunctionCall(prog, n)
        BY <4>2, ClassFacts
      <4> QED
        BY <1>2, <4>1, <4>2, <4>3, HistoryTypes, CallerMayChange
    <3>5. entered[d + 1] \in Levels
      BY <1>2, <1>4, HistoryTypes
    <3>6. i = Len(stack') + 1 /\ Len(stack') \in Nat /\ entered'[i] = entered[i]
      BY <1>2, <1>6, <2>3
    <3> QED
      BY <1>1, <1>2, <1>3, <1>7, <2>1, <3>1, <3>3, <3>4, <3>5, <3>6, FrameMoved
  <2> QED
    BY <2>2, <2>3
<1>8. Len(stack') + 1 = d
  BY <1>2
<1>9. ASSUME WellFormed(prog) PROVE SavedInv'
  <2>1. SavedInv
    BY <1>1, <1>9 DEF ContractInv, HistoryInv
  <2>2. PICK c : c = d
    OBVIOUS
  <2>3. /\ c \in Nat /\ c >= 1 /\ c <= Len(stack) + 1
        /\ Len(stack') + 1 = c /\ Len(stack') \in Nat /\ Len(stack) \in Nat
        /\ stack[c].node = at'
    BY <1>1, <1>2, <2>2
  <2>4. ASSUME NEW i \in 1 .. c PROVE Running(i)' = Running(i)
    <3>1. i - 1 # d /\ (i - 1) + 1 = i
      BY <1>2, <2>2
    <3>2. Running(i) = prog.scope[stack[i].node]
      BY <3>1 DEF Running, RunningAbove
    <3>3. CASE i = c
      <4>1. i - 1 = Len(stack')
        BY <2>3, <3>3
      <4> QED
        BY <1>1, <2>3, <3>2, <3>3, <4>1 DEF Running, RunningAbove, Same
    <3>4. CASE i # c
      <4>1. i - 1 # Len(stack') /\ i \in 1 .. d - 1
        BY <1>2, <2>2, <3>4
      <4> QED
        BY <1>1, <1>2, <3>1, <3>2, <4>1 DEF Running, RunningAbove, Same
    <3> QED
      BY <3>3, <3>4
  <2>5. PICK f : f = Running(1)
    OBVIOUS
  <2>6. PICK x : x = prog.parameter[f]
    OBVIOUS
  <2>7. \A i \in 1 .. c - 1 : stack'[i] = stack[i]
    BY <1>2, <2>2
  <2>8. ASSUME NEW i \in 1 .. c PROVE SavedFrame(f, x, i)'
    <3>1. SavedFrame(f, x, i)
      BY <2>1, <2>3, <2>5, <2>6 DEF SavedInv
    <3>2. \A j \in 1 .. i - 1 : stack'[j].node = stack[j].node
      <4>1. \A j \in 1 .. i - 1 : j \in 1 .. c - 1
        BY <2>3
      <4> QED
        BY <2>7, <4>1
    <3>3. CASE i # c
      <4>1. /\ i \in 1 .. c - 1 /\ i # Len(stack) + 1 /\ i # Len(stack') + 1
        BY <1>2, <2>2, <2>3, <3>3
      <4>2. SavedAt(i)' = SavedAt(i)
        BY <2>7, <4>1 DEF SavedAt
      <4> QED
        BY <1>1, <2>4, <3>1, <3>2, <4>2, SavedFrameKept
    <3>4. CASE i = c
      <4>1. PICK e : e = c + 1
        OBVIOUS
      <4>2. e \in 1 .. Len(stack) + 1 /\ e = Len(stack) + 1 /\ c # Len(stack) + 1
        BY <1>2, <2>2, <4>1
      <4>3. SavedFrame(f, x, e)
        BY <2>1, <2>5, <2>6, <4>2 DEF SavedInv
      <4>4. /\ SavedAt(i)' = saved' /\ SavedAt(e) = saved
            /\ SavedAt(i) = stack[c].saved
        BY <2>3, <3>4, <4>2 DEF SavedAt
      <4>5. Held(x, i)' => Held(x, i)
        BY <1>1, <3>2 DEF Held, Same
      <4>6. ASSUME Held(x, i), x \in prog.shared[n] PROVE Held(x, e)
        <5>1. \A j \in 1 .. e - 1 : j = c \/ j \in 1 .. c - 1
          BY <2>3, <4>1
        <5> QED
          BY <2>2, <3>4, <4>6, <5>1 DEF Held
      <4>7. \A y \in Locations(prog) :
              saved'[y] = IF y \in prog.shared[n] THEN saved[y]
                          ELSE stack[c].saved[y]
        BY <2>2 DEF LeaveFunction, Passed
      <4>8. ASSUME Held(x, i)', x \in Locations(prog), saved'[x] # NoValue
            PROVE  \E m \in KernelUses(prog, f) : Saves(prog, m)
        <5>1. CASE x \in prog.shared[n]
          BY <4>3, <4>4, <4>5, <4>6, <4>7, <4>8, <5>1 DEF SavedFrame
        <5>2. CASE x \notin prog.shared[n]
          BY <3>1, <4>4, <4>5, <4>7, <4>8, <5>2 DEF SavedFrame
        <5> QED
          BY <5>1, <5>2
      <4>9. (\E m \in KernelUses(prog, f) : Saves(prog, m)) =>
              \E m \in KernelUses(prog', f) : Saves(prog', m)
        BY <1>1 DEF Same
      <4>10. Locations(prog') = Locations(prog) /\ prog' = prog
        BY <1>1 DEF Same
      <4>11. Held(x, i)' => Running(i)' \in prog'.flow[f]
        BY <2>4, <3>1, <4>5, <4>10 DEF SavedFrame
      <4> QED
        BY <4>4, <4>8, <4>9, <4>10, <4>11 DEF SavedFrame
    <3> QED
      BY <3>3, <3>4
  <2>9. Running(1)' = f /\ prog'.parameter[f] = x /\ Len(stack') + 1 = c
    <3>1. 1 \in 1 .. c
      BY <2>3
    <3> QED
      BY <1>1, <2>3, <2>4, <2>5, <2>6, <3>1 DEF Same
  <2> QED
    BY <2>8, <2>9 DEF SavedInv
<1> QED
  BY <1>1, <1>3, <1>6, <1>7, <1>8, <1>9 DEF HistoryInv, Same

\* The system enters a routine.
LEMMA EnterKeepsHistory ==
  ASSUME ContractInv, AnalysisInv', ObserveLevels, Enter
  PROVE  HistoryInv'
<1>1. PICK f \in EntryPoints(prog), l \in IrqlValue :
        at' = prog.entry[f] /\ irql' = l
  BY DEF Enter
<1>2. Same /\ stack' = stack /\ at = Idle /\ stack = <<>>
  BY HistoryTypes DEF Enter, Same, analysisVars
<1>3. f \in DOMAIN prog.entry
  BY <1>1 DEF EntryPoints
<1>4. at' # Idle
  <2>1. IsDatabase(prog) /\ Idle \notin Nodes(prog)
    BY DEF ContractInv, AnalysisInv
  <2> QED
    BY <1>1, <1>3, <2>1 DEF IsDatabase
<1>5. entered \in Seq(IrqlValue) /\ Len(entered) = 0
  BY <1>2 DEF ContractInv, HistoryInv
<1>6. entered' = Append(entered, l)
  BY <1>1, <1>2, <1>4, Observed DEF Entering, Leaving
<1>7. entered' \in Seq(IrqlValue) /\ Len(entered') = 1 /\ entered'[1] = l
  BY <1>5, <1>6
<1>8. Len(stack') = 0
  BY <1>2
<1>9. ASSUME WellFormed(prog) PROVE FrameInv(1)'
  BY <1>1, <1>2, <1>3, <1>4, <1>7, <1>8, <1>9, FrameEntered
<1>10. SavedInv'
  <2>1. saved' = NothingSaved(prog)
    BY <1>2 DEF Enter, ContractInv, AnalysisInv
  <2>2. Running(1)' = f
    <3>1. 1 - 1 = Len(stack')
      BY <1>8
    <3>2. Running(1)' = prog.scope[at']
      BY <1>2, <3>1 DEF Running, RunningAbove, Same
    <3> QED
      BY <1>1, <1>3, <3>2, HistoryTypes DEF IsDatabase
  <2>3. f \in prog.flow[f]
    BY <1>3, HistoryTypes DEF IsContractDatabase
  <2>4. PICK x : x = prog.parameter[f]
    OBVIOUS
  <2>5. SavedAt(1)' = saved' /\ Locations(prog') = Locations(prog)
    BY <1>2, <1>8 DEF SavedAt, Same
  <2>6. x \in Locations(prog) => saved'[x] = NoValue
    BY <2>1 DEF NothingSaved
  <2>7. SavedFrame(f, x, 1)'
    BY <1>2, <2>2, <2>3, <2>5, <2>6 DEF SavedFrame, Same
  <2>8. \A i \in 1 .. Len(stack') + 1 : i = 1
    BY <1>8
  <2> QED
    BY <1>2, <2>2, <2>4, <2>7, <2>8 DEF SavedInv, Same
<1> QED
  BY <1>2, <1>4, <1>7, <1>8, <1>9, <1>10 DEF HistoryInv, Same

\* A round of the evaluation, before the thread runs.
LEMMA AnalyseKeepsHistory ==
  ASSUME ContractInv, ObserveLevels, Analyse
  PROVE  HistoryInv'
<1>1. /\ prog' = prog /\ at' = at /\ stack' = stack
      /\ ~Saturated(prog, potential)
  BY DEF Analyse, Evaluate, threadVars
<1>2. entered' = entered
  BY <1>1, Observed, HistoryTypes DEF Entering, Leaving
<1>3. ~(WellFormed(prog) /\ at # Idle)
  BY <1>1 DEF ContractInv, AnalysisInv, Followed
<1> QED
  BY <1>1, <1>2, <1>3 DEF HistoryInv, ContractInv

LEMMA HistoryStutter ==
  ASSUME ContractInv, UNCHANGED contractVars
  PROVE  HistoryInv'
<1>1. /\ Same /\ at' = at /\ irql' = irql /\ stack' = stack /\ saved' = saved
      /\ entered' = entered
  BY DEF contractVars, vars, analysisVars, threadVars, historyVars, Same
<1>2. ASSUME WellFormed(prog), at # Idle, NEW i \in 1 .. Len(stack) + 1
      PROVE  FrameInv(i)'
  <2>1. FrameInv(i)
    BY <1>2 DEF ContractInv, HistoryInv
  <2>2. Running(i)' = Running(i) /\ LevelIn(i)' = LevelIn(i)
    BY <1>1 DEF Running, LevelIn, Same
  <2> QED
    BY <1>1, <2>1, <2>2, FrameKept
<1>3. SavedInv' <=> SavedInv
  BY <1>1 DEF SavedInv, SavedFrame, SavedAt, Held, KernelUses, Running, Same
<1> QED
  BY <1>1, <1>2, <1>3 DEF HistoryInv, ContractInv, Same

\* The levels of all functions that are running are known.
THEOREM ContractInvCorrect == ContractSpec => []ContractInv
<1>1. ContractInit => ContractInv
  <2> SUFFICES ASSUME ContractInit PROVE ContractInv
    OBVIOUS
  <2>1. AnalysisInv
    BY AnalysisInvInit DEF ContractInit
  <2>2. IsContractDatabase(prog)
    BY ContractAssumption DEF ContractInit, Init, AnalysisInit
  <2>3. HistoryInv
    BY DEF ContractInit, Init, HistoryInv
  <2> QED
    BY <2>1, <2>2, <2>3 DEF ContractInv
<1>2. ContractInv /\ [ContractNext]_contractVars => ContractInv'
  <2> SUFFICES ASSUME ContractInv, [ContractNext]_contractVars
               PROVE  ContractInv'
    OBVIOUS
  <2>1. [Next]_vars
    BY DEF ContractNext, contractVars
  <2>2. AnalysisInv'
    BY <2>1, AnalysisInvNext DEF ContractInv
  <2>3. prog' = prog
    BY DEF ContractNext, contractVars, vars, Next, Analyse, Evaluate, Enter,
       Pass, Invoke, LeaveFunction, Raise, Restore, Annotated, Opaque, Returns,
       analysisVars
  <2>4. IsContractDatabase(prog)'
    BY <2>3 DEF ContractInv
  <2>5. HistoryInv'
    <3>1. CASE UNCHANGED contractVars
      BY <3>1, HistoryStutter
    <3>2. CASE ContractNext
      <4>1. Next /\ ObserveLevels
        BY <3>2 DEF ContractNext
      <4>2. CASE Pass \/ Raise \/ Restore \/ Annotated \/ Opaque
        <5>1. \E n : Walk(n)
          BY <4>2, Walks DEF ContractInv
        <5> QED
          BY <2>2, <4>1, <5>1, WalkKeeps
      <4> QED
        BY <2>2, <4>1, <4>2, AnalyseKeepsHistory, EnterKeepsHistory, CallKeeps,
           LeaveKeeps DEF Next
    <3> QED
      BY <3>1, <3>2
  <2> QED
    BY <2>2, <2>4, <2>5 DEF ContractInv
<1> QED
  BY <1>1, <1>2, PTL DEF ContractSpec

-----------------------------------------------------------------------------
(* The theorems.                                                           *)

\* What the invariant says of the function on top.
LEMMA HereKnown ==
  ASSUME ContractInv, WellFormed(prog), at # Idle
  PROVE  /\ Here \in DOMAIN prog.entry /\ at \in Nodes(prog)
         /\ irql \in getPotentialExitIrqlAtCfn(prog, potential, at)
         /\ entered[Len(entered)] \in
              getPotentialExitIrqlAtCfn(prog, potential, prog.entry[Here])
         /\ irql # entered[Len(entered)] => MayChange(Here)
         /\ Decided(Here) /\ OutOfRange(Here, irql) => RangeReported(Here)
<1> DEFINE i == Len(stack) + 1
<1>1. Len(stack) \in Nat /\ Len(entered) = i
  BY HistoryTypes DEF ContractInv, HistoryInv
<1>2. FrameInv(i)
  BY <1>1 DEF ContractInv, HistoryInv
<1>3. Running(i) = Here /\ LevelIn(i) = irql
  <2>1. i - 1 = Len(stack)
    BY <1>1
  <2> QED
    BY <2>1 DEF Running, RunningAbove, LevelIn, Here
<1>4. /\ Here \in DOMAIN prog.entry
      /\ entered[i] \in potential[prog.entry[Here]]
      /\ irql # entered[i] => MayChange(Here)
      /\ Decided(Here) /\ OutOfRange(Here, irql) => RangeReported(Here)
  BY <1>2, <1>3 DEF FrameInv
<1>5. irql \in potential[at] /\ at \in Nodes(prog)
  BY DEF ContractInv, AnalysisInv, Followed, TypeOK
<1> QED
  BY <1>1, <1>4, <1>5, DerivedLevels

\* A function that returns at another level has different levels at its entry
\* and at its exit.
LEMMA ChangeSeen ==
  ASSUME ContractInv, WellFormed(prog), AtExit, irql # entered[Len(entered)]
  PROVE  LevelsDiffer(prog, potential, Here)
<1>1. at # Idle /\ at \in prog.exit[Here]
  BY DEF AtExit
<1> QED
  BY <1>1, HereKnown DEF LevelsDiffer

\* ChangeIsReported: in a driver the analysis can follow, of any size, a
\* function that calls one annotated to change the IRQL and returns at another
\* level than it was entered at is annotated itself, or
\* IrqlFunctionNotAnnotated reports it.
THEOREM ChangesAreReported ==
  ContractSpec => [](WellFormed(prog) => ChangeIsReported)
<1>1. ContractInv => (WellFormed(prog) => ChangeIsReported)
  BY ChangeSeen DEF ChangeIsReported, IrqlFunctionNotAnnotated
<1> QED
  BY <1>1, ContractInvCorrect, PTL

\* SameLevelOrReported: a function annotated to return at the same level that
\* returns at another one is reported by IrqlInconsistentWithRequired, if
\* nothing it runs restores the IRQL from a parameter: isIrqlChangingCall does
\* not see such restores.
THEOREM SameLevelsOrReported ==
  ContractSpec =>
    [](WellFormed(prog) /\ ~RestoresParameter(Here) => SameLevelOrReported)
<1>1. ASSUME ContractInv, WellFormed(prog), ~RestoresParameter(Here)
      PROVE  SameLevelOrReported
  <2> SUFFICES ASSUME AtExit, prog.fn[Here].same, irql # entered[Len(entered)]
               PROVE  IrqlInconsistentWithRequired(prog, potential, Here)
    BY DEF SameLevelOrReported
  <2>1. MayChange(Here)
    BY <1>1, HereKnown DEF AtExit
  <2> QED
    BY <1>1, <2>1, ChangeSeen DEF IrqlInconsistentWithRequired, MayChange
<1>2. ContractInv =>
        (WellFormed(prog) /\ ~RestoresParameter(Here) => SameLevelOrReported)
  BY <1>1
<1> QED
  BY <1>2, ContractInvCorrect, PTL

\* RangeLeftIsReported: where the analysis knows the levels of a function for
\* certain, IrqlSetTooHigh or IrqlSetTooLow reports it as soon as an execution
\* leaves the range its annotations promise, be it at its entry, in a function
\* it calls or by a restore.
THEOREM RangeLeftReported ==
  ContractSpec =>
    [](WellFormed(prog) /\ Decided(Here) => RangeLeftIsReported)
<1>1. ASSUME ContractInv, WellFormed(prog), Decided(Here)
      PROVE  RangeLeftIsReported
  <2> SUFFICES ASSUME at # Idle, LeavesRange PROVE RangeReported(Here)
    BY DEF RangeLeftIsReported
  <2>1. OutOfRange(Here, irql)
    BY DEF LeavesRange, OutOfRange
  <2> QED
    BY <1>1, <2>1, HereKnown
<1>2. ContractInv =>
        (WellFormed(prog) /\ Decided(Here) => RangeLeftIsReported)
  BY <1>1
<1> QED
  BY <1>2, ContractInvCorrect, PTL

\* EventAlertsAreReal: in a driver the analysis can follow, a thread about to
\* make a call of KeSetEvent that KeSetEventIrql reports is at a level the
\* annotations of KeSetEvent forbid.
THEOREM EventAlertsCorrect == ContractSpec => []EventAlertsAreReal
<1>1. ASSUME ContractInv PROVE EventAlertsAreReal
  <2> SUFFICES ASSUME WellFormed(prog), NEW n \in Successors,
                      Target(prog, n) = "KeSetEvent",
                      KeSetEventIrql(prog, potential, n)
               PROVE  Breaks(n, irql)
    BY DEF EventAlertsAreReal
  <2>1. /\ n \in Nodes(prog) /\ at # Idle /\ at \in getAPredecessor(prog, n)
    BY <1>1, Ahead DEF ContractInv
  <2>2. irql \in LevelsBefore(prog, potential, n)
    BY <1>1, <2>1, HereKnown DEF LevelsBefore
  <2>3. irql \in Nat
    BY <1>1, HistoryTypes, MaxIrqlAssumption DEF IrqlValue
  <2>4. irql > EventLimit(prog, n)
    BY <2>2, <2>3 DEF KeSetEventIrql, EventLimit
  <2>5. EventLimit(prog, n) \in Ceilings(prog, n)
    <3>1. n \in CallsOf(prog, "KeSetEvent")
      BY <2>1 DEF CallsOf
    <3> QED
      BY <1>1, <3>1 DEF ContractInv, IsContractDatabase, EventLimit
  <2> QED
    BY <2>4, <2>5 DEF Breaks
<1>2. ContractInv => EventAlertsAreReal
  BY <1>1
<1> QED
  BY <1>2, ContractInvCorrect, PTL

\* NotSavedAlertsAreReal: in a driver the analysis can follow, of any size, a
\* routine that IrqlNotSaved reports returns without an IRQL saved at its
\* annotated parameter, neither by a call or an assignment of its own nor in
\* the functions the parameter was passed to.
THEOREM NotSavedAlertsCorrect ==
  ContractSpec => [](WellFormed(prog) => NotSavedAlertsAreReal)
<1>1. ASSUME ContractInv, WellFormed(prog) PROVE NotSavedAlertsAreReal
  <2> SUFFICES ASSUME AtExit, stack = <<>>, IrqlNotSaved(prog, Here),
                      ~SavedGlobally(Here), NEW x \in Locations(prog),
                      saved[x] # NoValue, prog.parameter[Here] = x
               PROVE  FALSE
    BY DEF NotSavedAlertsAreReal
  <2>1. Len(stack) = 0 /\ Running(1) = Here
    BY DEF Running, RunningAbove, Here
  <2>2. SavedFrame(Here, x, 1)
    <3>1. SavedInv
      BY <1>1 DEF AtExit, ContractInv, HistoryInv
    <3>2. 1 \in 1 .. Len(stack) + 1
      BY <2>1
    <3> QED
      BY <2>1, <3>1, <3>2 DEF SavedInv
  <2>3. Held(x, 1)
    BY DEF Held
  <2>4. SavedAt(1) = saved
    BY <2>1 DEF SavedAt
  <2>5. PICK n \in KernelUses(prog, Here) : Saves(prog, n)
    BY <2>2, <2>3, <2>4 DEF SavedFrame
  <2>6. TargetFacts(prog, n).saves \in SaveSlots
    <3>1. n \in Nodes(prog) /\ FunctionCall(prog, n)
      BY <2>5 DEF KernelUses
    <3>2. TargetFacts(prog, n) \in Facts
      BY <1>1, <3>1, HistoryTypes DEF IsDatabase, TargetFacts, Target
    <3> QED
      BY <3>2 DEF Facts
  <2>7. TargetFacts(prog, n).saves = "none"
    BY <2>5, <2>6 DEF IrqlNotSaved, SavedByAssignment, SavedByArgument, SaveSlots
  <2> QED
    BY <2>5, <2>7 DEF SavedGlobally
<1>2. ContractInv => (WellFormed(prog) => NotSavedAlertsAreReal)
  BY <1>1
<1> QED
  BY <1>2, ContractInvCorrect, PTL
=============================================================================
