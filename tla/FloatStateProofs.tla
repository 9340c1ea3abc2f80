--------------------------- MODULE FloatStateProofs ---------------------------
(***************************************************************************)
(* Proofs about IrqlFloatStateMismatch, for every driver of any size whose *)
(* functions save and restore a floating-point state themselves, or whose  *)
(* routines do so with helpers of their own.                               *)
(***************************************************************************)
EXTENDS ContractProofs

-----------------------------------------------------------------------------
(* The invariant follows a step without a new database.                    *)

LEMMA FloatSame ==
  ASSUME Same, NEW f, NEW x, NEW m, NEW l, NEW v
  PROVE  /\ FloatLocal(f, x)' <=> FloatLocal(f, x)
         /\ FloatAt(f, x, m, l, v)' <=> FloatAt(f, x, m, l, v)
         /\ FloatBelow(m, x, l, v)' <=> FloatBelow(m, x, l, v)
<1>1. FloatLocal(f, x)' <=> FloatLocal(f, x)
  BY DEF Same, FloatLocal, FloatSaves, RestoresParameter
<1>2. \A g, n : FloatAt(g, x, n, l, v)' <=> FloatAt(g, x, n, l, v)
  BY DEF Same, FloatAt, FloatSaves, Unsaved
<1>3. FloatBelow(m, x, l, v)' <=> FloatBelow(m, x, l, v)
  <2>1. \A g, n : FloatAt(g, x, n, l, v)' <=> FloatAt(g, x, n, l, v)
    BY <1>2
  <2>2. (m \in FloatSaves(x))' <=> m \in FloatSaves(x)
    BY DEF Same, FloatSaves
  <2> QED
    BY <2>1, <2>2 DEF Same, FloatBelow
<1> QED
  BY <1>1, <1>2, <1>3

\* What has to be shown of the thread and the history after such a step.
LEMMA FloatAfter ==
  ASSUME Same, float' \in [Locations(prog) -> IrqlValue \cup {NoValue}],
         WellFormed(prog) =>
           /\ \A i \in 1 .. Len(stack') : \A j \in i .. Len(stack') :
                prog.calls[Target(prog, stack'[j].node)] \subseteq
                  prog.calls[Target(prog, stack'[i].node)]
           /\ \A x \in Locations(prog) :
                /\ FloatLocal(prog.scope[at'], x) =>
                     FloatAt(prog.scope[at'], x, at', irql', float'[x])
                /\ \A i \in 1 .. Len(stack') :
                     FloatLocal(prog.scope[stack'[i].node], x) =>
                       FloatBelow(stack'[i].node, x, entered'[i + 1], float'[x])
  PROVE  FloatInv'
<1>1. \A f, x, m, l, v :
        /\ FloatLocal(f, x)' <=> FloatLocal(f, x)
        /\ FloatAt(f, x, m, l, v)' <=> FloatAt(f, x, m, l, v)
        /\ FloatBelow(m, x, l, v)' <=> FloatBelow(m, x, l, v)
  BY FloatSame
<1>2. ASSUME WellFormed(prog) PROVE Nested'
  BY <1>2 DEF Same, Nested
<1>3. ASSUME WellFormed(prog), NEW x \in Locations(prog)
      PROVE  (FloatLocal(Here, x) => FloatAt(Here, x, at, irql, float[x]))'
  BY <1>1, <1>3 DEF Here, Same
<1>4. ASSUME WellFormed(prog), NEW x \in Locations(prog),
             NEW i \in 1 .. Len(stack')
      PROVE  (FloatLocal(prog.scope[stack[i].node], x) =>
                FloatBelow(stack[i].node, x, entered[i + 1], float[x]))'
  BY <1>1, <1>4 DEF Same
<1> QED
  BY <1>2, <1>3, <1>4 DEF FloatInv, Same

-----------------------------------------------------------------------------
(* One function.                                                           *)

\* Nothing was saved yet where f is entered.
LEMMA EntryUnsaved ==
  ASSUME IsDatabase(prog), NEW f \in DOMAIN prog.entry, NEW x
  PROVE  prog.entry[f] \in Unsaved(f, x)
BY DEF IsDatabase, Unsaved

\* A path that is not at a save yet goes on without one.
LEMMA StillUnsaved ==
  ASSUME NEW f, NEW x, NEW m \in Unsaved(f, x), NEW n \in Nodes(prog),
         <<m, n>> \in prog.edge, prog.scope[n] = f, n \notin FloatSaves(x)
  PROVE  n \in Unsaved(f, x)
<1> DEFINE own == {c \in Nodes(prog) : prog.scope[c] = f}
           Holds(S) == /\ prog.entry[f] \in S
                       /\ \A e \in prog.edge :
                            e[1] \in S => e[2] \in S \cup FloatSaves(x)
<1>1. ASSUME NEW S \in SUBSET own, Holds(S) PROVE n \in S
  <2>1. m \in S
    BY <1>1 DEF Unsaved
  <2> QED
    BY <1>1, <2>1
<1> QED
  BY <1>1 DEF Unsaved

\* A step from m to n in f, which ends no save, to another level only by a
\* call the query knows to change the IRQL.
LEMMA FloatStep ==
  ASSUME NEW f, NEW x, FloatLocal(f, x), NEW m, NEW n \in Nodes(prog),
         <<m, n>> \in prog.edge, prog.scope[m] = f, prog.scope[n] = f,
         n \notin FloatSaves(x), NEW l, NEW k, NEW v,
         k # l => n \in Calls(prog, f) /\ isIrqlChangingCall(prog, n),
         FloatAt(f, x, m, l, v)
  PROVE  FloatAt(f, x, n, k, v)
<1>1. CASE m \in Unsaved(f, x)
  BY <1>1, StillUnsaved DEF FloatAt
<1>2. CASE m \notin Unsaved(f, x)
  <2>1. PICK s \in FloatSaves(x) \cap prog.reach[m] \cap prog.ancestors[m] :
          /\ \E c \in getAPredecessor(prog, s) : v \in potential[c]
          /\ l # v =>
               \E mid \in Calls(prog, f) :
                 /\ isIrqlChangingCall(prog, mid)
                 /\ s \in prog.ancestors[mid] /\ mid \in prog.ancestors[m]
    BY <1>2 DEF FloatAt
  <2>2. /\ prog.reach[m] \cap FloatSaves(x) \subseteq prog.reach[n]
        /\ prog.ancestors[m] \cup {n} \subseteq prog.ancestors[n]
    <3>1. PICK e \in prog.edge : e = <<m, n>>
      OBVIOUS
    <3>2. e[1] = m /\ e[2] = n
      BY <3>1
    <3> QED
      BY <3>1, <3>2 DEF FloatLocal
  <2>3. s \in FloatSaves(x) \cap prog.reach[n] \cap prog.ancestors[n]
    BY <2>1, <2>2
  <2>4. ASSUME k # v
        PROVE  \E mid \in Calls(prog, f) :
                 /\ isIrqlChangingCall(prog, mid)
                 /\ s \in prog.ancestors[mid] /\ mid \in prog.ancestors[n]
    <3>1. CASE l # v
      BY <2>1, <2>2, <3>1
    <3>2. CASE k # l
      BY <2>2, <2>3, <3>2
    <3> QED
      BY <2>4, <3>1, <3>2
  <2> QED
    BY <2>1, <2>3, <2>4 DEF FloatAt
<1> QED
  BY <1>1, <1>2

\* A save that has ended at the level it was called at.
LEMMA SaveEnds ==
  ASSUME IsDatabase(prog), NEW f, NEW x, FloatLocal(f, x),
         NEW n \in FloatSaves(x),
         NEW m \in getAPredecessor(prog, n), NEW v, v \in potential[m]
  PROVE  FloatAt(f, x, n, v, v)
<1>1. /\ prog.scope[n] = f /\ n \in prog.reach[n] /\ n \in Nodes(prog)
      /\ <<m, n>> \in prog.edge
  BY DEF FloatLocal, FloatSaves, CallsOf, getAPredecessor
<1>2. n \in prog.ancestors[n]
  <2>1. PICK e \in prog.edge : e = <<m, n>>
    BY <1>1
  <2>2. e[1] = m /\ e[2] = n
    BY <2>1
  <2>3. prog.scope[m] = f
    BY <1>1, <2>1, <2>2 DEF IsDatabase
  <2> QED
    BY <1>1, <2>1, <2>2, <2>3 DEF FloatLocal
<1> QED
  BY <1>1, <1>2 DEF FloatAt

\* A save is a call of a function whose body is run.
LEMMA SaveIsCall ==
  ASSUME IsDatabase(prog), NEW f, NEW x, FloatLocal(f, x),
         NEW n \in FloatSaves(x)
  PROVE  /\ n \in Nodes(prog) /\ n \in Calls(prog, f)
         /\ FunctionCall(prog, n) /\ TargetFacts(prog, n).body
         /\ Target(prog, n) = "KeSaveFloatingPointState" /\ prog.loc[n] = x
<1>1. /\ n \in Nodes(prog) /\ Target(prog, n) = "KeSaveFloatingPointState"
      /\ prog.loc[n] = x /\ prog.scope[n] = f
  BY DEF FloatSaves, CallsOf, FloatLocal
<1>2. /\ "KeSaveFloatingPointState" \in Functions(prog)
      /\ prog.fn["KeSaveFloatingPointState"].body
      /\ NoFunction \notin Functions(prog)
  BY DEF FloatLocal, IsDatabase
<1> QED
  BY <1>1, <1>2 DEF FunctionCall, TargetFacts, Calls

\* A call that changes the IRQL is known to.
LEMMA ChangeIsKnown ==
  ASSUME IsContractDatabase(prog), NEW f, ~RestoresParameter(f),
         NEW n \in Nodes(prog), prog.scope[n] = f, Changes(n)
  PROVE  n \in Calls(prog, f) /\ isIrqlChangingCall(prog, n)
<1>1. FunctionCall(prog, n) /\ f \in prog.calls[f]
  BY DEF Changes, IsContractDatabase
<1>2. Class(prog, n) # "IrqlRestoreCall"
  BY <1>1 DEF RestoresParameter
<1> QED
  BY <1>1, <1>2 DEF Changes, Calls

\* So is one of a function that has returned at another level.
LEMMA ReturnIsKnown ==
  ASSUME IsContractDatabase(prog), NEW f, ~RestoresParameter(f),
         NEW n \in Nodes(prog), prog.scope[n] = f, FunctionCall(prog, n),
         MayChange(Target(prog, n))
  PROVE  n \in Calls(prog, f) /\ isIrqlChangingCall(prog, n)
<1>1. prog.calls[Target(prog, n)] \subseteq prog.calls[f]
  BY DEF IsContractDatabase
<1>2. ~RestoresParameter(Target(prog, n))
  BY <1>1 DEF RestoresParameter
<1> QED
  BY <1>2, CalleeMayChange DEF Calls

-----------------------------------------------------------------------------
(* The actions.                                                            *)

\* The state saved at x changes by a save at x, and by nothing else.
LEMMA FloatObserved ==
  ASSUME prog' = prog, ObserveFloat,
         float \in [Locations(prog) -> IrqlValue \cup {NoValue}],
         irql \in IrqlValue,
         \A i \in 1 .. Len(stack') : stack'[i].node \in Nodes(prog),
         Len(stack') \in Nat, stack' # <<>> => Len(stack') > 0
  PROVE  /\ float' \in [Locations(prog) -> IrqlValue \cup {NoValue}]
         /\ ~Entering \/ stack' = <<>> => float' = float
         /\ Entering /\ stack' # <<>> =>
              \A x \in Locations(prog) :
                IF /\ prog.scope[at'] = "KeSaveFloatingPointState"
                   /\ prog.loc[stack'[Len(stack')].node] = x
                  THEN float'[x] = irql ELSE float'[x] = float[x]
<1> HIDE DEF Entering
<1>1. CASE Entering /\ stack' # <<>>
            /\ prog.scope[at'] = "KeSaveFloatingPointState"
  <2>1. prog.loc[stack'[Len(stack')].node] \in Locations(prog)
    BY <1>1 DEF Locations
  <2>2. float' = [float EXCEPT ![prog.loc[stack'[Len(stack')].node]] = irql]
    BY <1>1 DEF ObserveFloat
  <2> QED
    BY <1>1, <2>1, <2>2
<1>2. CASE ~(Entering /\ stack' # <<>>
             /\ prog.scope[at'] = "KeSaveFloatingPointState")
  <2>1. float' = float
    BY <1>2 DEF ObserveFloat
  <2> QED
    BY <1>2, <2>1
<1> QED
  BY <1>1, <1>2

\* A step inside a function.
LEMMA FloatWalk ==
  ASSUME ContractInv, FloatInv, ObserveLevels, ObserveFloat, NEW n, Walk(n)
  PROVE  FloatInv'
<1>1. /\ n \in Nodes(prog) /\ at \in Nodes(prog) /\ at # Idle
      /\ at \in getAPredecessor(prog, n) /\ prog.scope[at] = prog.scope[n]
  BY Ahead DEF Walk, ContractInv
<1>2. Same /\ at' = n /\ stack' = stack /\ prog' = prog
  BY DEF Walk, Same
<1>3. /\ IsDatabase(prog) /\ IsContractDatabase(prog) /\ irql \in IrqlValue
      /\ Len(stack) \in Nat /\ ~Entering /\ ~Leaving
  BY <1>1, <1>2, HistoryTypes DEF Entering, Leaving
<1>4. entered' = entered
  BY <1>3, Observed
<1>5. /\ float' = float
      /\ float' \in [Locations(prog) -> IrqlValue \cup {NoValue}]
  BY <1>3 DEF ObserveFloat, FloatInv
<1>6. ASSUME WellFormed(prog), NEW x \in Locations(prog),
             FloatLocal(prog.scope[n], x)
      PROVE  FloatAt(prog.scope[n], x, n, irql', float[x])
  <2> DEFINE f == prog.scope[n]
  <2>1. FloatAt(f, x, at, irql, float[x])
    BY <1>1, <1>6 DEF FloatInv, Here
  <2>2. n \notin FloatSaves(x)
    BY <1>3, <1>6, SaveIsCall DEF Walk
  <2>3. irql' # irql => n \in Calls(prog, f) /\ isIrqlChangingCall(prog, n)
    BY <1>1, <1>3, <1>6, ChangeIsKnown DEF Walk, FloatLocal
  <2>4. <<at, n>> \in prog.edge
    BY <1>1 DEF getAPredecessor
  <2> QED
    BY <1>1, <1>6, <2>1, <2>2, <2>3, <2>4, FloatStep
<1> QED
  BY <1>1, <1>2, <1>4, <1>5, <1>6, FloatAfter DEF FloatInv, Nested

\* No save at x is called above a function that alone saves there.
LEMMA NoSaveAbove ==
  ASSUME ContractInv, WellFormed(prog), at # Idle, Nested,
         NEW n \in Nodes(prog), FunctionCall(prog, n),
         prog.scope[n] = prog.scope[at],
         NEW i \in 1 .. Len(stack), NEW x,
         FloatLocal(prog.scope[stack[i].node], x)
  PROVE  n \notin FloatSaves(x)
<1> DEFINE d == Len(stack)
           f == prog.scope[stack[i].node]
           g == prog.scope[at]
<1>1. d \in Nat /\ i \in 1 .. d /\ d \in 1 .. d /\ d \in i .. d
  BY HistoryTypes
<1>2. Called(prog, potential, stack, at)
  BY DEF ContractInv, AnalysisInv, Followed
<1>3. Target(prog, stack[d].node) = g
  BY <1>1, <1>2 DEF Called, RunningAbove
<1>4. g \in prog.calls[g]
  BY HistoryTypes DEF IsContractDatabase
<1>5. g \in prog.calls[Target(prog, stack[i].node)]
  BY <1>1, <1>3, <1>4 DEF Nested
<1>6. stack[i].node \in Calls(prog, f)
  <2>1. Class(prog, stack[i].node) = "FunctionCall"
    BY <1>1, <1>2 DEF Called
  <2>2. FunctionCall(prog, stack[i].node)
    BY <2>1, ClassFacts
  <2> QED
    BY <1>1, <2>2, HistoryTypes DEF Calls
<1>7. f \notin prog.calls[Target(prog, stack[i].node)]
  BY <1>6 DEF FloatLocal
<1> QED
  BY <1>5, <1>7 DEF FloatLocal

\* A call of a function with a body.
LEMMA FloatCall ==
  ASSUME ContractInv, FloatInv, AnalysisInv', ObserveLevels, ObserveFloat,
         Invoke
  PROVE  FloatInv'
<1>1. PICK n \in Successors :
        /\ Callee(prog, n) \in DOMAIN prog.entry
        /\ stack' = Append(stack, [node |-> n, saved |-> saved])
        /\ at' = prog.entry[Callee(prog, n)]
  BY DEF Invoke
<1>2. /\ n \in Nodes(prog) /\ at \in Nodes(prog) /\ at # Idle
      /\ at \in getAPredecessor(prog, n) /\ prog.scope[at] = prog.scope[n]
  BY Ahead DEF ContractInv
<1>3. Same /\ prog' = prog /\ irql' = irql
  BY DEF Invoke, Same, analysisVars
<1>4. PICK d : d = Len(stack)
  OBVIOUS
<1>5. /\ d \in Nat /\ Len(stack') = d + 1
      /\ \A i \in 1 .. d : stack'[i] = stack[i]
      /\ stack'[d + 1].node = n
  <2>1. stack \in Seq([node : Nodes(prog),
                       saved : [Locations(prog) -> IrqlValue \cup {NoValue}]])
    BY DEF ContractInv, AnalysisInv, TypeOK
  <2> QED
    BY <1>1, <1>4, <2>1
<1>6. /\ IsDatabase(prog) /\ IsContractDatabase(prog) /\ irql \in IrqlValue
      /\ \A i \in 1 .. Len(stack') : stack'[i].node \in Nodes(prog)
  BY <1>2, <1>4, <1>5, HistoryTypes
<1>7. Entering /\ ~Leaving /\ stack' # <<>> /\ at' # Idle
  <2>1. Idle \notin Nodes(prog)
    BY DEF ContractInv, AnalysisInv
  <2> QED
    BY <1>1, <1>4, <1>5, <1>6, <2>1 DEF Entering, Leaving, IsDatabase
<1>8. /\ \A i \in 1 .. d + 1 : entered'[i] = entered[i]
      /\ entered'[d + 2] = irql
  <2>1. Len(entered) = d + 1 /\ entered \in Seq(IrqlValue)
    BY <1>2, <1>4 DEF ContractInv, HistoryInv
  <2>2. entered' = Append(entered, irql)
    BY <1>3, <1>7, Observed
  <2> QED
    BY <1>5, <1>6, <2>1, <2>2
<1>9. /\ float' \in [Locations(prog) -> IrqlValue \cup {NoValue}]
      /\ \A x \in Locations(prog) :
           IF /\ prog.scope[at'] = "KeSaveFloatingPointState"
              /\ prog.loc[n] = x
             THEN float'[x] = irql ELSE float'[x] = float[x]
  <2>1. float \in [Locations(prog) -> IrqlValue \cup {NoValue}]
    BY DEF FloatInv
  <2> QED
    BY <1>3, <1>5, <1>6, <1>7, <2>1, FloatObserved
<1>10. ASSUME WellFormed(prog)
       PROVE  /\ FunctionCall(prog, n)
              /\ Callee(prog, n) = Target(prog, n)
              /\ Target(prog, n) = prog.scope[at']
  <2>1. Called(prog, potential, stack', at')
    BY <1>3, <1>7, <1>10 DEF AnalysisInv, Followed, Same
  <2>2. d + 1 \in 1 .. Len(stack')
    BY <1>5
  <2>3. Class(prog, n) = "FunctionCall" /\ Target(prog, n) = prog.scope[at']
    BY <1>5, <2>1, <2>2 DEF Called, RunningAbove
  <2> QED
    BY <2>3, ClassFacts DEF Callee
<1>11. ASSUME WellFormed(prog),
              NEW i \in 1 .. Len(stack'), NEW j \in i .. Len(stack')
       PROVE  prog.calls[Target(prog, stack'[j].node)] \subseteq
                prog.calls[Target(prog, stack'[i].node)]
  <2>1. CASE j # d + 1
    <3>1. i \in 1 .. d /\ j \in 1 .. d /\ j \in i .. d
      BY <1>5, <2>1
    <3> QED
      BY <1>2, <1>4, <1>5, <1>11, <3>1 DEF FloatInv, Nested
  <2>2. CASE j = d + 1 /\ i = d + 1
    BY <2>2
  <2>3. CASE j = d + 1 /\ i # d + 1
    <3>1. i \in 1 .. d /\ d \in 1 .. d /\ d \in i .. d
      BY <1>5, <2>3
    <3>2. Target(prog, stack[d].node) = prog.scope[at]
      <4>1. Called(prog, potential, stack, at)
        BY <1>2, <1>11 DEF ContractInv, AnalysisInv, Followed
      <4> QED
        BY <1>4, <3>1, <4>1 DEF Called, RunningAbove
    <3>3. prog.calls[Target(prog, n)] \subseteq
            prog.calls[Target(prog, stack[d].node)]
      BY <1>2, <1>6, <1>10, <1>11, <3>2 DEF IsContractDatabase
    <3>4. prog.calls[Target(prog, stack[d].node)] \subseteq
            prog.calls[Target(prog, stack[i].node)]
      BY <1>2, <1>4, <1>11, <3>1 DEF FloatInv, Nested
    <3> QED
      BY <1>5, <2>3, <3>1, <3>3, <3>4
  <2> QED
    BY <2>1, <2>2, <2>3
<1>12. ASSUME WellFormed(prog), NEW x \in Locations(prog)
       PROVE  FloatAt(prog.scope[at'], x, at', irql', float'[x])
  BY <1>1, <1>6, <1>10, <1>12, EntryUnsaved DEF FloatAt
<1>13. ASSUME WellFormed(prog), NEW x \in Locations(prog),
              NEW i \in 1 .. Len(stack'),
              FloatLocal(prog.scope[stack'[i].node], x)
       PROVE  FloatBelow(stack'[i].node, x, entered'[i + 1], float'[x])
  <2>1. CASE i = d + 1
    <3>1. stack'[i].node = n /\ entered'[i + 1] = irql
      BY <1>5, <1>8, <2>1
    <3>2. CASE n \in FloatSaves(x)
      <4>1. float'[x] = irql
        BY <1>6, <1>9, <1>10, <1>13, <3>1, <3>2, SaveIsCall
      <4> QED
        BY <3>1, <3>2, <4>1 DEF FloatBelow
    <3>3. CASE n \notin FloatSaves(x)
      <4>1. float'[x] = float[x]
        BY <1>2, <1>9, <1>10, <1>13, <3>3 DEF FloatSaves, CallsOf
      <4>2. FloatAt(prog.scope[n], x, at, irql, float[x])
        BY <1>2, <1>13, <3>1 DEF FloatInv, Here
      <4> QED
        BY <1>2, <3>1, <3>3, <4>1, <4>2 DEF FloatBelow
    <3> QED
      BY <3>2, <3>3
  <2>2. CASE i # d + 1
    <3>1. /\ i \in 1 .. Len(stack) /\ stack'[i].node = stack[i].node
          /\ entered'[i + 1] = entered[i + 1]
      <4>1. i \in 1 .. d /\ i + 1 \in 1 .. d + 1
        BY <1>5, <2>2
      <4> QED
        BY <1>4, <1>5, <1>8, <4>1
    <3>2. n \notin FloatSaves(x)
      BY <1>2, <1>10, <1>13, <3>1, NoSaveAbove DEF FloatInv
    <3>3. float'[x] = float[x]
      BY <1>2, <1>9, <1>10, <1>13, <3>2 DEF FloatSaves, CallsOf
    <3> QED
      BY <1>2, <1>13, <3>1, <3>3 DEF FloatInv
  <2> QED
    BY <2>1, <2>2
<1> QED
  BY <1>3, <1>9, <1>11, <1>12, <1>13, FloatAfter

\* A return.
LEMMA FloatReturn ==
  ASSUME ContractInv, FloatInv, AnalysisInv', ObserveLevels, ObserveFloat,
         LeaveFunction
  PROVE  FloatInv'
<1>1. PICK d : d = Len(stack)
  OBVIOUS
<1>2. PICK n : n = stack[d].node
  OBVIOUS
<1>3. /\ Same /\ prog' = prog /\ irql' = irql /\ at' = n /\ at # Idle
      /\ stack # <<>> /\ stack' = SubSeq(stack, 1, d - 1)
  BY <1>1, <1>2 DEF LeaveFunction, Same, analysisVars
<1>4. /\ d \in Nat /\ d >= 1 /\ Len(stack') = d - 1 /\ n \in Nodes(prog)
      /\ \A i \in 1 .. d - 1 : stack'[i] = stack[i]
  <2> DEFINE Frames == [node : Nodes(prog),
                        saved : [Locations(prog) -> IrqlValue \cup {NoValue}]]
  <2>1. stack \in Seq(Frames)
    BY DEF ContractInv, AnalysisInv, TypeOK
  <2>2. /\ d \in Nat /\ d >= 1 /\ stack[d] \in Frames
        /\ Len(SubSeq(stack, 1, d - 1)) = d - 1
        /\ \A i \in 1 .. d - 1 : SubSeq(stack, 1, d - 1)[i] = stack[i]
    <3> HIDE DEF Frames
    <3> QED
      BY <1>1, <1>3, <2>1, Popped
  <2>3. n \in Nodes(prog)
    BY <1>2, <2>2
  <2> QED
    BY <1>3, <2>2, <2>3
<1>5. /\ IsDatabase(prog) /\ IsContractDatabase(prog)
      /\ ~Entering /\ Leaving
  BY <1>1, <1>3, <1>4, HistoryTypes DEF Entering, Leaving
<1>6. \A i \in 1 .. d : entered'[i] = entered[i]
  <2>1. Len(entered) = d + 1 /\ entered \in Seq(IrqlValue)
    BY <1>1, <1>3 DEF ContractInv, HistoryInv
  <2>2. entered' = SubSeq(entered, 1, Len(entered) - 1)
    BY <1>5, Observed
  <2>3. entered # <<>> /\ Len(entered) - 1 = d
    BY <1>4, <2>1
  <2> QED
    BY <2>1, <2>2, <2>3, Popped
<1>7. /\ float' = float
      /\ float' \in [Locations(prog) -> IrqlValue \cup {NoValue}]
  BY <1>5 DEF ObserveFloat, FloatInv
<1>8. ASSUME WellFormed(prog), NEW x \in Locations(prog),
             FloatLocal(prog.scope[n], x)
      PROVE  FloatAt(prog.scope[n], x, n, irql, float[x])
  <2> DEFINE f == prog.scope[n]
  <2>1. PICK l : l = entered[d + 1]
    OBVIOUS
  <2>2. PICK v : v = float[x]
    OBVIOUS
  <2>3. FloatBelow(n, x, l, v)
    <3>1. d \in 1 .. Len(stack)
      BY <1>1, <1>4
    <3> QED
      BY <1>2, <1>3, <1>8, <2>1, <2>2, <3>1 DEF FloatInv
  <2>4. FunctionCall(prog, n) /\ Target(prog, n) = Here
    <3>1. Called(prog, potential, stack, at)
      BY <1>3, <1>8 DEF ContractInv, AnalysisInv, Followed
    <3>2. Class(prog, n) = "FunctionCall" /\ Target(prog, n) = prog.scope[at]
      BY <1>1, <1>2, <1>4, <3>1 DEF Called, RunningAbove
    <3> QED
      BY <3>2, ClassFacts DEF Here
  <2>5. irql # l => n \in Calls(prog, f) /\ isIrqlChangingCall(prog, n)
    <3>1. Len(entered) = d + 1
      BY <1>1, <1>3 DEF ContractInv, HistoryInv
    <3>2. irql # l => MayChange(Target(prog, n))
      BY <1>3, <1>8, <2>1, <2>4, <3>1, HereKnown
    <3> QED
      BY <1>4, <1>5, <1>8, <2>4, <3>2, ReturnIsKnown DEF FloatLocal
  <2>6. CASE n \in FloatSaves(x)
    <3>1. v = l
      BY <2>3, <2>6 DEF FloatBelow
    <3>2. irql = l
      BY <1>8, <2>5, <2>6 DEF FloatLocal
    <3>3. PICK m \in getAPredecessor(prog, n) : l \in potential[m]
      <4>1. FrameInv(d)
        BY <1>1, <1>3, <1>4, <1>8 DEF ContractInv, HistoryInv
      <4> QED
        BY <1>1, <1>2, <1>4, <2>1, <4>1 DEF FrameInv
    <3> QED
      BY <1>5, <1>8, <2>2, <2>6, <3>1, <3>2, <3>3, SaveEnds
  <2>7. CASE n \notin FloatSaves(x)
    <3>1. PICK m \in getAPredecessor(prog, n) : FloatAt(f, x, m, l, v)
      BY <2>3, <2>7 DEF FloatBelow
    <3>2. m \in Nodes(prog) /\ <<m, n>> \in prog.edge /\ prog.scope[m] = f
      <4>1. m \in Nodes(prog) /\ <<m, n>> \in prog.edge
        BY DEF getAPredecessor
      <4> QED
        BY <1>4, <1>5, <4>1, EdgeScope
    <3> QED
      BY <1>4, <1>8, <2>2, <2>5, <2>7, <3>1, <3>2, FloatStep
  <2> QED
    BY <2>6, <2>7
<1>9. \A i \in 1 .. Len(stack') :
        /\ i \in 1 .. Len(stack) /\ stack'[i] = stack[i]
        /\ entered'[i + 1] = entered[i + 1]
  <2> SUFFICES ASSUME NEW i \in 1 .. Len(stack')
               PROVE  /\ i \in 1 .. Len(stack) /\ stack'[i] = stack[i]
                      /\ entered'[i + 1] = entered[i + 1]
    OBVIOUS
  <2>1. i \in 1 .. d /\ i \in 1 .. d - 1 /\ i + 1 \in 1 .. d
    BY <1>4
  <2> QED
    BY <1>1, <1>4, <1>6, <2>1
<1>10. ASSUME WellFormed(prog),
              NEW i \in 1 .. Len(stack'), NEW j \in i .. Len(stack')
       PROVE  prog.calls[Target(prog, stack'[j].node)] \subseteq
                prog.calls[Target(prog, stack'[i].node)]
  <2>1. j \in 1 .. Len(stack') /\ j \in i .. Len(stack)
    BY <1>1, <1>4
  <2> QED
    BY <1>3, <1>9, <1>10, <2>1 DEF FloatInv, Nested
<1>11. ASSUME WellFormed(prog), NEW x \in Locations(prog),
              NEW i \in 1 .. Len(stack'),
              FloatLocal(prog.scope[stack'[i].node], x)
       PROVE  FloatBelow(stack'[i].node, x, entered'[i + 1], float'[x])
  BY <1>3, <1>7, <1>9, <1>11 DEF FloatInv
<1> QED
  BY <1>3, <1>7, <1>8, <1>10, <1>11, FloatAfter

\* The system enters a routine.
LEMMA FloatEnter ==
  ASSUME ContractInv, FloatInv, ObserveFloat, Enter
  PROVE  FloatInv'
<1>1. PICK f \in DOMAIN prog.entry : at' = prog.entry[f]
  BY DEF Enter, EntryPoints
<1>2. Same /\ prog' = prog /\ stack' = <<>>
  BY HistoryTypes DEF Enter, Same, analysisVars
<1>3. IsDatabase(prog) /\ Len(stack') = 0
  BY <1>2, HistoryTypes
<1>4. /\ float' = float
      /\ float' \in [Locations(prog) -> IrqlValue \cup {NoValue}]
  BY <1>2 DEF ObserveFloat, FloatInv
<1>5. \A x : FloatAt(prog.scope[at'], x, at', irql', float'[x])
  <2>1. prog.scope[at'] = f
    BY <1>1, <1>3 DEF IsDatabase
  <2> QED
    BY <1>1, <1>3, <2>1, EntryUnsaved DEF FloatAt
<1>6. \A i \in 1 .. Len(stack') : FALSE
  BY <1>3
<1> QED
  BY <1>2, <1>4, <1>5, <1>6, FloatAfter

\* A round of the evaluation, before the thread runs.
LEMMA FloatAnalyse ==
  ASSUME ContractInv, FloatInv, ObserveFloat, Analyse
  PROVE  FloatInv'
<1>1. /\ prog' = prog /\ at' = at /\ stack' = stack
      /\ ~Saturated(prog, potential)
  BY DEF Analyse, Evaluate, threadVars
<1>2. float' = float
  BY <1>1, HistoryTypes DEF Entering, ObserveFloat
<1>3. ~(WellFormed(prog) /\ at # Idle)
  BY <1>1 DEF ContractInv, AnalysisInv, Followed
<1> QED
  BY <1>1, <1>2, <1>3 DEF FloatInv

LEMMA FloatStutter ==
  ASSUME FloatInv, UNCHANGED contractVars
  PROVE  FloatInv'
<1>1. /\ Same /\ prog' = prog /\ at' = at /\ irql' = irql /\ stack' = stack
      /\ entered' = entered /\ float' = float
  BY DEF contractVars, vars, analysisVars, threadVars, historyVars, Same
<1>2. CASE at = Idle
  BY <1>1, <1>2 DEF FloatInv
<1>3. CASE at # Idle
  BY <1>1, <1>3, FloatAfter DEF FloatInv, Nested, Here
<1> QED
  BY <1>2, <1>3

\* Whenever a floating-point state was saved in a function that is running,
\* the save flows to where that function is, and a change of the IRQL since
\* was made by a call on the way.
THEOREM FloatInvCorrect == ContractSpec => []FloatInv
<1>1. ContractInit => FloatInv
  BY DEF ContractInit, Init, NothingSaved, FloatInv
<1>2. ContractInv /\ ContractInv' /\ FloatInv /\ [ContractNext]_contractVars
        => FloatInv'
  <2> SUFFICES ASSUME ContractInv, ContractInv', FloatInv,
                      [ContractNext]_contractVars
               PROVE  FloatInv'
    OBVIOUS
  <2>1. CASE UNCHANGED contractVars
    BY <2>1, FloatStutter
  <2>2. CASE ContractNext
    <3>1. Next /\ ObserveLevels /\ ObserveFloat /\ AnalysisInv'
      BY <2>2 DEF ContractNext, ContractInv
    <3>2. CASE Pass \/ Raise \/ Restore \/ Annotated \/ Opaque
      <4>1. PICK n : Walk(n)
        BY <3>2, Walks DEF ContractInv
      <4> QED
        BY <3>1, <4>1, FloatWalk
    <3> QED
      BY <3>1, <3>2, FloatAnalyse, FloatEnter, FloatCall, FloatReturn DEF Next
  <2> QED
    BY <2>1, <2>2
<1> QED
  BY <1>1, <1>2, ContractInvCorrect, PTL DEF ContractSpec

-----------------------------------------------------------------------------
(* What the query reports of one function.                                 *)

\* A state restored in the function that saved it, at another level, is
\* reported.
LEMMA MismatchSeen ==
  ASSUME ContractInv, FloatInv, WellFormed(prog), NEW n \in RestoresFloat,
         RestoredLocally(n), float[prog.loc[n]] # irql
  PROVE  IrqlFloatStateMismatch(prog, potential, n)
<1> DEFINE f == prog.scope[n]
           x == prog.loc[n]
           v == float[x]
<1>1. /\ n \in Nodes(prog) /\ at \in Nodes(prog) /\ at # Idle
      /\ at \in getAPredecessor(prog, n) /\ prog.scope[at] = f
      /\ IsDatabase(prog)
  BY Ahead DEF RestoresFloat, ContractInv
<1>2. irql \in LevelsBefore(prog, potential, n)
  BY <1>1, HereKnown DEF LevelsBefore
<1>3. FloatLocal(f, x) /\ ~isIrqlChangingCall(prog, n)
  BY DEF RestoredLocally
<1>4. PICK s \in FloatSaves(x) \cap prog.reach[at] \cap prog.ancestors[at] :
        /\ \E k \in getAPredecessor(prog, s) : v \in potential[k]
        /\ irql # v =>
             \E mid \in Calls(prog, f) :
               /\ isIrqlChangingCall(prog, mid)
               /\ s \in prog.ancestors[mid] /\ mid \in prog.ancestors[at]
  <2>1. x \in Locations(prog)
    BY <1>1 DEF Locations
  <2>2. FloatAt(f, x, at, irql, v)
    BY <1>1, <1>3, <2>1 DEF FloatInv, Here
  <2>3. at \notin Unsaved(f, x)
    BY <1>1 DEF RestoredLocally
  <2> QED
    BY <2>2, <2>3 DEF FloatAt
<1>5. s \in FloatStateFlow(prog, n)
  BY <1>1, <1>4 DEF FloatStateFlow, FloatSaves, CallsOf
<1>6. v \in LevelsBefore(prog, potential, s)
  <2>1. PICK k \in getAPredecessor(prog, s) : v \in potential[k]
    BY <1>4
  <2>2. v \in getPotentialExitIrqlAtCfn(prog, potential, k)
    BY <2>1 DEF getPotentialExitIrqlAtCfn
  <2> QED
    BY <2>1, <2>2 DEF LevelsBefore
<1>7. PICK mid \in Calls(prog, f) :
        /\ isIrqlChangingCall(prog, mid)
        /\ s \in prog.ancestors[mid] /\ mid \in prog.ancestors[n]
  <2>1. <<at, n>> \in prog.edge
    BY <1>1 DEF getAPredecessor
  <2>2. PICK e \in prog.edge : e = <<at, n>>
    BY <2>1
  <2>3. prog.ancestors[at] \subseteq prog.ancestors[n]
    <3>1. e[1] = at /\ e[2] = n
      BY <2>2
    <3> QED
      BY <1>1, <1>3, <2>2, <3>1 DEF FloatLocal
  <2> QED
    BY <1>4, <2>3
<1>8. mid \in Calls(prog, f) \ {s, n} /\ prog.scope[s] = f
  BY <1>3, <1>4, <1>7 DEF FloatLocal
<1>9. StandsBetween(s, mid, n)
  BY <1>4, <1>7, <1>8 DEF RestoredLocally
<1>10. irqlChangesBetween(prog, s, n)
  <2>1. CASE prog.order[s] <= prog.order[mid] /\ prog.order[mid] <= prog.order[n]
    <3>1. /\ prog.order[s] \in anchorLineForCall(prog, f, s)
          /\ prog.order[n] \in anchorLineForCall(prog, f, n)
      BY <1>8 DEF anchorLineForCall
    <3>2. f \in DOMAIN prog.entry
      BY <1>1 DEF IsDatabase
    <3> QED
      BY <1>7, <1>8, <2>1, <3>1, <3>2 DEF irqlChangesBetween
  <2>2. CASE \E body \in prog.loops : {s, mid, n} \subseteq body
    <3>1. PICK body \in prog.loops : {s, mid, n} \subseteq body
      BY <2>2
    <3>2. mid \in body \ {s, n} /\ {s, n} \subseteq body
      BY <1>8, <3>1
    <3> QED
      BY <1>7, <3>1, <3>2 DEF irqlChangesBetween
  <2> QED
    BY <1>9, <2>1, <2>2 DEF StandsBetween
<1> QED
  BY <1>2, <1>5, <1>6, <1>10 DEF IrqlFloatStateMismatch

-----------------------------------------------------------------------------
(* States saved or restored by helpers of the routine.                     *)

\* The history follows a step without a new database.
LEMMA HomeSame ==
  ASSUME Same, NEW f, NEW x, NEW s, NEW m, NEW l, NEW v
  PROVE  /\ FloatHome(f, x)' <=> FloatHome(f, x)
         /\ SiteAt(f, s, m, l, v)' <=> SiteAt(f, s, m, l, v)
         /\ FloatSaves(x)' = FloatSaves(x)
<1>1. FloatSaves(x)' = FloatSaves(x)
  BY DEF Same, FloatSaves
<1>2. FloatFlowComplete(x)' <=> FloatFlowComplete(x)
  BY DEF Same, FloatFlowComplete, FloatSaves
<1>3. \A h : HelperOf(f, x, h)' <=> HelperOf(f, x, h)
  BY DEF Same, HelperOf
<1>4. RestoresParameter(f)' <=> RestoresParameter(f)
  BY DEF Same, RestoresParameter
<1>5. FloatHome(f, x)' <=> FloatHome(f, x)
  BY <1>1, <1>2, <1>3, <1>4 DEF Same, FloatHome
<1>6. SiteAt(f, s, m, l, v)' <=> SiteAt(f, s, m, l, v)
  BY DEF Same, SiteAt, Sites
<1> QED
  BY <1>1, <1>5, <1>6

\* What has to be shown after such a step.
LEMMA HomeAfter ==
  ASSUME Same, at' # Idle, NEW f, WellFormed(prog) => Running(1)' = f,
         WellFormed(prog) =>
           \A x \in Locations(prog) :
             FloatHome(f, x) /\ float'[x] # NoValue =>
               \E s \in FloatSaves(x) :
                 /\ \E k \in getAPredecessor(prog, s) : float'[x] \in potential[k]
                 /\ HomeKnown(f, x, s)'
  PROVE  HomeInv'
<1>1. \A g, x : /\ FloatHome(g, x)' <=> FloatHome(g, x)
                /\ FloatSaves(x)' = FloatSaves(x)
  BY HomeSame
<1>2. ASSUME WellFormed(prog), NEW x \in Locations(prog),
             FloatHome(f, x), float'[x] # NoValue
      PROVE  (\E s \in FloatSaves(x) :
                /\ \E k \in getAPredecessor(prog, s) : float[x] \in potential[k]
                /\ HomeKnown(f, x, s))'
  <2>1. PICK s \in FloatSaves(x) :
               /\ \E k \in getAPredecessor(prog, s) : float'[x] \in potential[k]
               /\ HomeKnown(f, x, s)'
    BY <1>2
  <2> QED
    BY <1>1, <2>1 DEF Same
<1>3. ASSUME WellFormed(prog)
      PROVE  \A x, s : HomeKnown(Running(1), x, s)' <=> HomeKnown(f, x, s)'
  <2>1. Running(1)' = f
    BY <1>3
  <2>2. \A g, x, s, m, l, v :
          /\ SiteAt(g, s, m, l, v)' <=> SiteAt(g, s, m, l, v)
    BY HomeSame
  <2> QED
    BY <2>1, <2>2 DEF HomeKnown
<1> QED
  BY <1>1, <1>2, <1>3 DEF HomeInv, Same

\* The routine itself is running.
LEMMA KnownHere ==
  ASSUME Same, stack' = <<>>, NEW f, NEW x, NEW s,
         SiteAt(f, s, at', irql', float'[x])
  PROVE  HomeKnown(f, x, s)'
<1>1. \A m, l, v : SiteAt(f, s, m, l, v)' <=> SiteAt(f, s, m, l, v)
  BY HomeSame
<1> QED
  BY <1>1 DEF HomeKnown

\* The routine has made the call r.
LEMMA KnownAbove ==
  ASSUME Same, stack' # <<>>, NEW r, stack'[1].node = r,
         NEW f, NEW x, NEW s, NEW v, float'[x] = v,
         \/ r = s /\ v = entered'[2]
         \/ /\ Target(prog, r) = prog.scope[s] /\ FlowsAbove(s)'
            /\ LevelIn(2)' # v => MayChange(prog.scope[s])
         \/ /\ \E m \in getAPredecessor(prog, r) : SiteAt(f, s, m, entered'[2], v)
            /\ x \in prog.shared[r] => FlowsAbove(s)'
  PROVE  HomeKnown(f, x, s)'
<1>1. \A m, l, u : SiteAt(f, s, m, l, u)' <=> SiteAt(f, s, m, l, u)
  BY HomeSame
<1>2. \A g : MayChange(g)' <=> MayChange(g)
  BY SameFacts
<1> QED
  BY <1>1, <1>2 DEF HomeKnown, Same

-----------------------------------------------------------------------------
(* The data flow library follows what is saved.                            *)

LEMMA FlowStep ==
  ASSUME NEW x, FloatFlowComplete(x), NEW s \in FloatSaves(x),
         NEW n \in Nodes(prog), NEW m \in getAPredecessor(prog, n),
         s \in prog.reach[m]
  PROVE  s \in prog.reach[n]
BY DEF FloatFlowComplete

LEMMA SiteStep ==
  ASSUME NEW f, NEW x, FloatHome(f, x), NEW s \in FloatSaves(x),
         NEW n \in Nodes(prog), NEW m \in getAPredecessor(prog, n),
         prog.scope[m] = f, NEW l, NEW k, NEW v,
         k # l => n \in Calls(prog, f) /\ isIrqlChangingCall(prog, n),
         SiteAt(f, s, m, l, v)
  PROVE  SiteAt(f, s, n, k, v)
<1>1. prog.ancestors[m] \cup {n} \subseteq prog.ancestors[n]
  <2>1. PICK e \in prog.edge : e = <<m, n>>
    BY DEF getAPredecessor
  <2>2. e[1] = m /\ e[2] = n
    BY <2>1
  <2> QED
    BY <2>1, <2>2 DEF FloatHome
<1>2. s \in prog.reach[n]
  BY FlowStep DEF FloatHome, SiteAt
<1>3. PICK c \in Sites(f, s) \cap prog.ancestors[m] :
        l # v =>
          \E mid \in Calls(prog, f) :
            /\ isIrqlChangingCall(prog, mid)
            /\ c \in prog.ancestors[mid] /\ mid \in prog.ancestors[m]
  BY DEF SiteAt
<1>4. ASSUME k # v
      PROVE  \E mid \in Calls(prog, f) :
               /\ isIrqlChangingCall(prog, mid)
               /\ c \in prog.ancestors[mid] /\ mid \in prog.ancestors[n]
  <2>1. CASE l # v
    BY <1>1, <1>3, <2>1
  <2>2. CASE k # l
    BY <1>1, <1>3, <2>2
  <2> QED
    BY <1>4, <2>1, <2>2
<1> QED
  BY <1>1, <1>2, <1>3, <1>4 DEF SiteAt

\* A call in the routine that stands for the save has returned.
LEMMA SiteMade ==
  ASSUME IsDatabase(prog), NEW f, NEW x, FloatHome(f, x),
         NEW s, NEW c \in Sites(f, s), c \in Nodes(prog), prog.scope[c] = f,
         NEW m \in getAPredecessor(prog, c), s \in prog.reach[c], NEW l, NEW v,
         l # v => c \in Calls(prog, f) /\ isIrqlChangingCall(prog, c)
  PROVE  c \in prog.ancestors[c] /\ SiteAt(f, s, c, l, v)
<1>1. c \in prog.ancestors[c]
  <2>1. PICK e \in prog.edge : e = <<m, c>>
    BY DEF getAPredecessor
  <2>2. e[1] = m /\ e[2] = c
    BY <2>1
  <2>3. prog.scope[m] = f
    BY <2>1, <2>2 DEF IsDatabase
  <2> QED
    BY <2>1, <2>2, <2>3 DEF FloatHome
<1> QED
  BY <1>1 DEF SiteAt

-----------------------------------------------------------------------------
(* The stack above a routine.                                              *)

\* Every call on the stack is a call of the function above it, in the one below
\* it, and the system's routine is not called.
LEMMA CallsAbove ==
  ASSUME ContractInv, WellFormed(prog), at # Idle, NEW i \in 1 .. Len(stack)
  PROVE  LET n == stack[i].node IN
           /\ n \in Nodes(prog) /\ FunctionCall(prog, n)
           /\ Callee(prog, n) = Target(prog, n)
           /\ Target(prog, n) =
                IF i = Len(stack) THEN Here ELSE prog.scope[stack[i + 1].node]
           /\ \E m \in getAPredecessor(prog, n) :
                /\ m \in Nodes(prog) /\ prog.scope[m] = prog.scope[n]
                /\ entered[i + 1] \in potential[m]
           /\ Target(prog, n) \notin EntryPoints(prog)
           /\ Target(prog, n) \in DOMAIN prog.entry
<1> DEFINE n == stack[i].node
<1>1. /\ n \in Nodes(prog) /\ IsDatabase(prog)
      /\ Len(stack) \in Nat /\ i \in 1 .. Len(stack) + 1
  BY HistoryTypes
<1>2. /\ Class(prog, n) = "FunctionCall"
      /\ Target(prog, n) = RunningAbove(prog, stack, at, i)
  BY DEF ContractInv, AnalysisInv, Followed, Called
<1>3. FunctionCall(prog, n)
  BY <1>2, ClassFacts
<1>4. PICK m \in getAPredecessor(prog, n) :
        m \in Nodes(prog) /\ entered[i + 1] \in potential[m]
  BY <1>1 DEF ContractInv, HistoryInv, FrameInv
<1>5. prog.scope[m] = prog.scope[n]
  <2>1. <<m, n>> \in prog.edge
    BY <1>4 DEF getAPredecessor
  <2> QED
    BY <1>1, <1>4, <2>1, EdgeScope
<1>6. Target(prog, n) \notin EntryPoints(prog)
  BY <1>1, <1>4 DEF EntryPoints, callerPredecessor, Before
<1>7. Target(prog, n) \in DOMAIN prog.entry
  <2>1. TargetFacts(prog, n).body
    BY <1>1, <1>2, <1>3 DEF WellFormed, Analysable
  <2> QED
    BY <1>1, <1>3, <2>1 DEF IsDatabase
<1> QED
  BY <1>1, <1>2, <1>3, <1>4, <1>5, <1>6, <1>7 DEF RunningAbove, Callee, Here

\* The routine, or a helper that it alone calls, runs at most one call deep.
LEMMA HomeDepth ==
  ASSUME ContractInv, WellFormed(prog), at # Idle,
         NEW f \in EntryPoints(prog), f = Running(1), NEW x,
         Here # f => HelperOf(f, x, Here)
  PROVE  /\ Len(stack) \in {0, 1}
         /\ stack = <<>> => Here = f
         /\ stack # <<>> =>
              /\ Len(stack) = 1 /\ Here # f
              /\ Target(prog, stack[1].node) = Here
<1>1. PICK d : d = Len(stack)
  OBVIOUS
<1>2. d \in Nat /\ (stack = <<>> <=> d = 0)
  BY <1>1, HistoryTypes DEF ContractInv, AnalysisInv, TypeOK
<1>3. CASE d = 0
  BY <1>1, <1>2, <1>3 DEF Running, RunningAbove, Here
<1>4. CASE d > 0
  <2>1. d \in 1 .. Len(stack)
    BY <1>1, <1>2, <1>4
  <2>2. /\ Target(prog, stack[d].node) = Here
        /\ Here \notin EntryPoints(prog) /\ stack[d].node \in Nodes(prog)
    BY <1>1, <2>1, CallsAbove
  <2>3. prog.scope[stack[d].node] = f
    BY <2>2 DEF HelperOf
  <2>4. ASSUME d # 1 PROVE FALSE
    <3>1. d - 1 \in 1 .. Len(stack) /\ d - 1 # Len(stack) /\ (d - 1) + 1 = d
      BY <1>1, <1>2, <1>4, <2>4
    <3>2. Target(prog, stack[d - 1].node) = prog.scope[stack[d].node]
      BY <3>1, CallsAbove
    <3> QED
      BY <2>3, <3>1, <3>2, CallsAbove
  <2> QED
    BY <1>1, <1>2, <2>2, <2>4
<1> QED
  BY <1>2, <1>3, <1>4

-----------------------------------------------------------------------------
(* The actions, for a routine with helpers.                                *)

\* A step inside a function.
LEMMA HomeWalk ==
  ASSUME ContractInv, HomeInv, ObserveLevels, ObserveFloat, NEW n, Walk(n)
  PROVE  HomeInv'
<1>1. /\ n \in Nodes(prog) /\ at \in Nodes(prog) /\ at # Idle
      /\ at \in getAPredecessor(prog, n) /\ prog.scope[at] = prog.scope[n]
  BY Ahead DEF Walk, ContractInv
<1>2. Same /\ at' = n /\ at' # Idle /\ stack' = stack /\ prog' = prog
  BY <1>1 DEF Walk, Same, ContractInv, AnalysisInv
<1>3. /\ IsDatabase(prog) /\ IsContractDatabase(prog)
      /\ Len(stack) \in Nat /\ ~Entering /\ ~Leaving
  BY <1>1, <1>2, HistoryTypes DEF Entering, Leaving
<1>4. entered' = entered /\ float' = float
  BY <1>3, Observed DEF ObserveFloat
<1>5. PICK f : f = Running(1)
  OBVIOUS
<1>6. Running(1)' = f
  BY <1>1, <1>2, <1>5 DEF Running, RunningAbove
<1>7. ASSUME WellFormed(prog), NEW x \in Locations(prog),
             FloatHome(f, x), float'[x] # NoValue
      PROVE  \E s \in FloatSaves(x) :
               /\ \E k \in getAPredecessor(prog, s) : float'[x] \in potential[k]
               /\ HomeKnown(f, x, s)'
  <2>1. PICK v : v = float[x]
    OBVIOUS
  <2>2. PICK s \in FloatSaves(x) :
               /\ \E k \in getAPredecessor(prog, s) : v \in potential[k]
               /\ HomeKnown(f, x, s)
    BY <1>1, <1>4, <1>5, <1>7, <2>1 DEF HomeInv
  <2>3. CASE stack = <<>>
    <3>1. SiteAt(f, s, at, irql, v) /\ prog.scope[n] = f
      BY <1>1, <1>5, <2>1, <2>2, <2>3 DEF HomeKnown, Running, RunningAbove
    <3>2. irql' # irql => n \in Calls(prog, f) /\ isIrqlChangingCall(prog, n)
      BY <1>1, <1>3, <1>7, <3>1, ChangeIsKnown DEF Walk, FloatHome
    <3>3. PICK k : k = irql'
      OBVIOUS
    <3>4. SiteAt(f, s, n, k, v)
      BY <1>1, <1>7, <3>1, <3>2, <3>3, SiteStep
    <3>5. HomeKnown(f, x, s)'
      BY <1>2, <1>4, <2>1, <2>3, <3>3, <3>4, KnownHere
    <3> QED
      BY <1>4, <2>1, <2>2, <3>5
  <2>4. CASE stack # <<>>
    <3>1. PICK r : r = stack[1].node
      OBVIOUS
    <3>2. FlowsAbove(s) => FlowsAbove(s)'
      <4>1. CASE Len(stack) = 1
        <5>1. s \in prog.reach[at] => s \in prog.reach[n]
          BY <1>1, <1>7, FlowStep DEF FloatHome
        <5> QED
          BY <1>2, <4>1, <5>1 DEF FlowsAbove
      <4>2. CASE Len(stack) # 1
        BY <1>2, <4>2 DEF FlowsAbove
      <4> QED
        BY <4>1, <4>2
    <3>3. Target(prog, r) = prog.scope[s] /\ LevelIn(2)' # LevelIn(2) =>
            MayChange(prog.scope[s])
      <4>1. CASE Len(stack) = 1
        <5>1. Target(prog, r) = prog.scope[n]
          <6>1. 1 \in 1 .. Len(stack)
            BY <4>1
          <6> QED
            BY <1>1, <1>7, <3>1, <4>1, <6>1, CallsAbove DEF Here
        <5>2. LevelIn(2) = irql /\ LevelIn(2)' = irql'
          BY <1>2, <4>1 DEF LevelIn
        <5>3. irql' # irql => MayChange(prog.scope[n])
          BY <1>1, <1>3, CallChanges DEF Walk
        <5> QED
          BY <5>1, <5>2, <5>3
      <4>2. CASE Len(stack) # 1
        <5>1. PICK d : d = Len(stack) /\ d = Len(stack')
          BY <1>2
        <5>2. d \in Nat
          BY <1>3, <5>1
        <5>3. 2 # d + 1
          BY <4>2, <5>1, <5>2
        <5> QED
          BY <1>4, <5>1, <5>3 DEF LevelIn
      <4> QED
        BY <4>1, <4>2
    <3>4. \/ r = s /\ v = entered[2]
          \/ /\ Target(prog, r) = prog.scope[s] /\ FlowsAbove(s)
             /\ LevelIn(2) # v => MayChange(prog.scope[s])
          \/ /\ \E m \in getAPredecessor(prog, r) : SiteAt(f, s, m, entered[2], v)
             /\ x \in prog.shared[r] => FlowsAbove(s)
      BY <2>1, <2>2, <2>4, <3>1 DEF HomeKnown
    <3>5. HomeKnown(f, x, s)'
      <4>1. \/ r = s /\ v = entered'[2]
            \/ /\ Target(prog, r) = prog.scope[s] /\ FlowsAbove(s)'
               /\ LevelIn(2)' # v => MayChange(prog.scope[s])
            \/ /\ \E m \in getAPredecessor(prog, r) :
                    SiteAt(f, s, m, entered'[2], v)
               /\ x \in prog.shared[r] => FlowsAbove(s)'
        BY <1>4, <3>2, <3>3, <3>4
      <4> QED
        BY <1>2, <1>4, <2>1, <2>4, <3>1, <4>1, KnownAbove
    <3> QED
      BY <1>4, <2>1, <2>2, <3>5
  <2> QED
    BY <2>3, <2>4
<1> QED
  BY <1>2, <1>6, <1>7, HomeAfter

\* A call of a function with a body.
LEMMA HomeCall ==
  ASSUME ContractInv, FloatInv, HomeInv, AnalysisInv', ObserveLevels,
         ObserveFloat, Invoke
  PROVE  HomeInv'
<1>1. PICK n \in Successors :
        /\ Callee(prog, n) \in DOMAIN prog.entry
        /\ stack' = Append(stack, [node |-> n, saved |-> saved])
        /\ at' = prog.entry[Callee(prog, n)]
  BY DEF Invoke
<1>2. /\ n \in Nodes(prog) /\ at \in Nodes(prog) /\ at # Idle
      /\ at \in getAPredecessor(prog, n) /\ prog.scope[at] = prog.scope[n]
  BY Ahead DEF ContractInv
<1>3. Same /\ prog' = prog /\ irql' = irql
  BY DEF Invoke, Same, analysisVars
<1>4. PICK d : d = Len(stack)
  OBVIOUS
<1>5. /\ d \in Nat /\ Len(stack') = d + 1
      /\ \A i \in 1 .. d : stack'[i] = stack[i]
      /\ stack'[d + 1].node = n
      /\ stack = <<>> <=> d = 0
  <2>1. stack \in Seq([node : Nodes(prog),
                       saved : [Locations(prog) -> IrqlValue \cup {NoValue}]])
    BY DEF ContractInv, AnalysisInv, TypeOK
  <2> QED
    BY <1>1, <1>4, <2>1
<1>6. /\ IsDatabase(prog) /\ IsContractDatabase(prog) /\ irql \in IrqlValue
      /\ \A i \in 1 .. Len(stack') : stack'[i].node \in Nodes(prog)
  BY <1>2, <1>4, <1>5, HistoryTypes
<1>7. Entering /\ ~Leaving /\ stack' # <<>> /\ at' # Idle
  <2>1. Idle \notin Nodes(prog)
    BY DEF ContractInv, AnalysisInv
  <2> QED
    BY <1>1, <1>4, <1>5, <1>6, <2>1 DEF Entering, Leaving, IsDatabase
<1>8. /\ \A i \in 1 .. d + 1 : entered'[i] = entered[i]
      /\ entered'[d + 2] = irql
  <2>1. Len(entered) = d + 1 /\ entered \in Seq(IrqlValue)
    BY <1>2, <1>4 DEF ContractInv, HistoryInv
  <2>2. entered' = Append(entered, irql)
    BY <1>3, <1>7, Observed
  <2> QED
    BY <1>5, <1>6, <2>1, <2>2
<1>9. \A x \in Locations(prog) :
        IF /\ prog.scope[at'] = "KeSaveFloatingPointState"
           /\ prog.loc[n] = x
          THEN float'[x] = irql ELSE float'[x] = float[x]
  <2>1. float \in [Locations(prog) -> IrqlValue \cup {NoValue}]
    BY DEF FloatInv
  <2> QED
    BY <1>3, <1>5, <1>6, <1>7, <2>1, FloatObserved
<1>10. ASSUME WellFormed(prog)
       PROVE  /\ FunctionCall(prog, n)
              /\ Callee(prog, n) = Target(prog, n)
              /\ Target(prog, n) = prog.scope[at']
              /\ irql \in potential[at]
  <2>1. Called(prog, potential, stack', at')
    BY <1>3, <1>7, <1>10 DEF AnalysisInv, Followed, Same
  <2>2. d + 1 \in 1 .. Len(stack')
    BY <1>5
  <2>3. Class(prog, n) = "FunctionCall" /\ Target(prog, n) = prog.scope[at']
    BY <1>5, <2>1, <2>2 DEF Called, RunningAbove
  <2>4. irql \in potential[at]
    BY <1>2, <1>10 DEF ContractInv, AnalysisInv, Followed
  <2> QED
    BY <2>3, <2>4, ClassFacts DEF Callee
<1>11. PICK f : f = Running(1)
  OBVIOUS
<1>12. Running(1)' = f
  <2>1. CASE d = 0
    BY <1>2, <1>3, <1>4, <1>5, <1>11, <2>1 DEF Running, RunningAbove
  <2>2. CASE d # 0
    <3>1. 1 \in 1 .. d /\ 0 # Len(stack) /\ 0 # Len(stack')
      BY <1>4, <1>5, <2>2
    <3> QED
      BY <1>3, <1>5, <1>11, <3>1 DEF Running, RunningAbove
  <2> QED
    BY <2>1, <2>2
<1>13. ASSUME WellFormed(prog), NEW x \in Locations(prog),
              FloatHome(f, x), float'[x] # NoValue
       PROVE  \E s \in FloatSaves(x) :
                /\ \E k \in getAPredecessor(prog, s) : float'[x] \in potential[k]
                /\ HomeKnown(f, x, s)'
  <2>1. PICK r : r = stack'[1].node
    OBVIOUS
  <2>2. PICK u : u = float'[x]
    OBVIOUS
  <2>3. CASE n \in FloatSaves(x)
    <3>1. Target(prog, n) = "KeSaveFloatingPointState" /\ prog.loc[n] = x
      BY <2>3 DEF FloatSaves, CallsOf
    <3>2. u = irql
      BY <1>9, <1>10, <1>13, <2>2, <3>1
    <3>3. /\ Len(stack) \in {0, 1}
          /\ stack # <<>> => Len(stack) = 1 /\ Target(prog, stack[1].node) = Here
      <4>1. f \in EntryPoints(prog) /\ (Here # f => HelperOf(f, x, Here))
        BY <1>2, <1>13, <2>3 DEF FloatHome, Here
      <4> QED
        BY <1>2, <1>11, <1>13, <4>1, HomeDepth
    <3>4. \/ r = n /\ u = entered'[2]
          \/ /\ Target(prog, r) = prog.scope[n] /\ FlowsAbove(n)'
             /\ LevelIn(2)' # u => MayChange(prog.scope[n])
      <4>1. CASE d = 0
        <5>1. stack'[1].node = n /\ entered'[2] = irql
          BY <1>5, <1>8, <4>1
        <5> QED
          BY <2>1, <3>2, <5>1
      <4>2. CASE d = 1
        <5>1. /\ stack'[1] = stack[1] /\ Len(stack') = 2
              /\ stack'[2].node = n /\ entered'[3] = irql
          BY <1>5, <1>8, <4>2
        <5>2. Target(prog, r) = prog.scope[n]
          BY <1>2, <1>4, <1>5, <2>1, <3>3, <4>2, <5>1 DEF Here
        <5>3. FlowsAbove(n)' /\ LevelIn(2)' = u
          BY <3>2, <5>1 DEF FlowsAbove, LevelIn
        <5> QED
          BY <5>2, <5>3
      <4> QED
        BY <1>4, <3>3, <4>1, <4>2
    <3>5. HomeKnown(f, x, n)'
      BY <1>3, <1>7, <2>1, <2>2, <3>4, KnownAbove
    <3> QED
      BY <1>2, <1>10, <1>13, <2>2, <2>3, <3>2, <3>5
  <2>4. CASE n \notin FloatSaves(x)
    <3>1. u = float[x]
      BY <1>2, <1>9, <1>10, <1>13, <2>2, <2>4 DEF FloatSaves, CallsOf
    <3>2. PICK s \in FloatSaves(x) :
                 /\ \E k \in getAPredecessor(prog, s) : u \in potential[k]
                 /\ HomeKnown(f, x, s)
      BY <1>2, <1>11, <1>13, <2>2, <3>1 DEF HomeInv
    <3>3. CASE d = 0
      <4>1. SiteAt(f, s, at, irql, u)
        BY <1>5, <3>1, <3>2, <3>3 DEF HomeKnown
      <4>2. r = n /\ entered'[2] = irql /\ Len(stack') = 1
        BY <1>5, <1>8, <2>1, <3>3
      <4>3. x \in prog.shared[n] => FlowsAbove(s)'
        <5>1. x \in prog.shared[n] => s \in prog.reach[at']
          BY <1>1, <1>2, <1>13, <4>1 DEF FloatHome, FloatFlowComplete, SiteAt
        <5> QED
          BY <1>3, <4>2, <5>1 DEF FlowsAbove
      <4>4. HomeKnown(f, x, s)'
        BY <1>2, <1>3, <1>7, <2>1, <2>2, <4>1, <4>2, <4>3, KnownAbove
      <4> QED
        BY <2>2, <3>2, <4>4
    <3>4. CASE d # 0
      <4>1. /\ stack # <<>> /\ r = stack[1].node /\ entered'[2] = entered[2]
        <5>1. 1 \in 1 .. d /\ 2 \in 1 .. d + 1
          BY <1>5, <3>4
        <5> QED
          BY <1>5, <1>8, <2>1, <3>4, <5>1
      <4>2. FlowsAbove(s) => FlowsAbove(s)'
        <5>1. CASE d = 1
          <6>1. Len(stack) = 1 /\ Len(stack') = 2 /\ stack'[2].node = n
            BY <1>4, <1>5, <5>1
          <6> QED
            BY <1>2, <1>3, <6>1 DEF FlowsAbove
        <5>2. CASE d # 1
          <6>1. /\ Len(stack) # 1 /\ Len(stack') # 1 /\ stack'[2] = stack[2]
            BY <1>4, <1>5, <3>4, <5>2
          <6> QED
            BY <1>3, <6>1 DEF FlowsAbove
        <5> QED
          BY <5>1, <5>2
      <4>3. LevelIn(2)' = LevelIn(2)
        <5>1. CASE d = 1
          BY <1>4, <1>5, <1>8, <5>1 DEF LevelIn
        <5>2. CASE d # 1
          <6>1. /\ Len(stack) # 1 /\ Len(stack') # 1
                /\ entered'[3] = entered[3]
            BY <1>4, <1>5, <1>8, <3>4, <5>2
          <6> QED
            BY <1>4, <1>5, <6>1 DEF LevelIn
        <5> QED
          BY <5>1, <5>2
      <4>4. \/ r = s /\ u = entered[2]
            \/ /\ Target(prog, r) = prog.scope[s] /\ FlowsAbove(s)
               /\ LevelIn(2) # u => MayChange(prog.scope[s])
            \/ /\ \E m \in getAPredecessor(prog, r) :
                    SiteAt(f, s, m, entered[2], u)
               /\ x \in prog.shared[r] => FlowsAbove(s)
        BY <3>1, <3>2, <4>1 DEF HomeKnown
      <4>5. HomeKnown(f, x, s)'
        BY <1>3, <1>7, <2>1, <2>2, <4>1, <4>2, <4>3, <4>4, KnownAbove
      <4> QED
        BY <2>2, <3>2, <4>5
    <3> QED
      BY <3>3, <3>4
  <2> QED
    BY <2>3, <2>4
<1> QED
  BY <1>3, <1>7, <1>12, <1>13, HomeAfter

\* The call r of the routine returns to it.
LEMMA HomeReached ==
  ASSUME ContractInv, WellFormed(prog), at # Idle, Len(stack) = 1,
         at \in prog.exit[Here], NEW r, r = stack[1].node,
         NEW f, f = Running(1), NEW x, FloatHome(f, x),
         NEW s \in FloatSaves(x), HomeKnown(f, x, s)
  PROVE  SiteAt(f, s, r, irql, float[x])
<1>1. PICK v : v = float[x]
  OBVIOUS
<1>2. PICK l : l = entered[2]
  OBVIOUS
<1>3. /\ r \in Nodes(prog) /\ FunctionCall(prog, r)
      /\ Callee(prog, r) = Target(prog, r) /\ Target(prog, r) = Here
      /\ Target(prog, r) \notin EntryPoints(prog)
      /\ Target(prog, r) \in DOMAIN prog.entry
  <2>1. 1 \in 1 .. Len(stack)
    OBVIOUS
  <2> QED
    BY <2>1, CallsAbove
<1>4. PICK m \in getAPredecessor(prog, r) :
        m \in Nodes(prog) /\ prog.scope[m] = prog.scope[r]
  <2>1. 1 \in 1 .. Len(stack)
    OBVIOUS
  <2> QED
    BY <2>1, CallsAbove
<1>5. prog.scope[r] = f /\ f \in EntryPoints(prog)
  BY DEF Running, RunningAbove, FloatHome
<1>6. IsDatabase(prog) /\ IsContractDatabase(prog)
  BY HistoryTypes
<1>7. MayChange(Target(prog, r)) =>
        r \in Calls(prog, f) /\ isIrqlChangingCall(prog, r)
  BY <1>3, <1>5, <1>6, ReturnIsKnown DEF FloatHome
<1>8. irql # l => MayChange(Target(prog, r))
  <2>1. Len(entered) = 2
    BY DEF ContractInv, HistoryInv
  <2> QED
    BY <1>2, <1>3, <2>1, HereKnown
<1>9. stack # <<>> /\ LevelIn(2) = irql
  <2>1. 2 = Len(stack) + 1
    OBVIOUS
  <2>2. stack = <<>> => Len(stack) = 0
    OBVIOUS
  <2> QED
    BY <2>1, <2>2 DEF LevelIn
<1>10. CASE r = s /\ v = l
  <2>1. r \in Sites(f, s) /\ s \in prog.reach[r]
    BY <1>3, <1>5, <1>10 DEF Sites, FloatHome, FloatFlowComplete
  <2> QED
    BY <1>1, <1>3, <1>4, <1>5, <1>6, <1>7, <1>8, <1>10, <2>1, SiteMade
<1>11. CASE /\ Target(prog, r) = prog.scope[s] /\ FlowsAbove(s)
            /\ LevelIn(2) # v => MayChange(prog.scope[s])
  <2>1. prog.scope[s] # f
    BY <1>3, <1>5, <1>11
  <2>2. x \in prog.shared[r]
    BY <1>3, <1>11, <2>1 DEF FloatHome, HelperOf
  <2>3. s \in prog.reach[at]
    BY <1>11 DEF FlowsAbove
  <2>4. s \in prog.reach[r]
    BY <1>3, <2>2, <2>3 DEF FloatHome, FloatFlowComplete
  <2>5. r \in Sites(f, s)
    BY <1>3, <1>5, <1>11, <2>1 DEF Sites, Calls
  <2>6. irql # v => r \in Calls(prog, f) /\ isIrqlChangingCall(prog, r)
    BY <1>7, <1>9, <1>11
  <2> QED
    BY <1>1, <1>3, <1>4, <1>5, <1>6, <2>4, <2>5, <2>6, SiteMade
<1>12. CASE \E k \in getAPredecessor(prog, r) : SiteAt(f, s, k, l, v)
  <2>1. PICK k \in getAPredecessor(prog, r) : SiteAt(f, s, k, l, v)
    BY <1>12
  <2>2. prog.scope[k] = f
    <3>1. k \in Nodes(prog) /\ <<k, r>> \in prog.edge
      BY DEF getAPredecessor
    <3> QED
      BY <1>3, <1>5, <1>6, <3>1, EdgeScope
  <2>3. PICK j : j = irql
    OBVIOUS
  <2>4. SiteAt(f, s, r, j, v)
    BY <1>3, <1>7, <1>8, <2>1, <2>2, <2>3, SiteStep
  <2> QED
    BY <1>1, <2>3, <2>4
<1> QED
  BY <1>1, <1>2, <1>9, <1>10, <1>11, <1>12 DEF HomeKnown

\* A return.
LEMMA HomeReturn ==
  ASSUME ContractInv, HomeInv, AnalysisInv', ObserveLevels, ObserveFloat,
         LeaveFunction
  PROVE  HomeInv'
<1>1. PICK d : d = Len(stack)
  OBVIOUS
<1>2. PICK n : n = stack[d].node
  OBVIOUS
<1>3. /\ Same /\ prog' = prog /\ irql' = irql /\ at' = n /\ at # Idle
      /\ stack # <<>> /\ stack' = SubSeq(stack, 1, d - 1)
      /\ at \in prog.exit[Here]
  BY <1>1, <1>2 DEF LeaveFunction, Same, analysisVars, Here
<1>4. /\ d \in Nat /\ d >= 1 /\ Len(stack') = d - 1 /\ n \in Nodes(prog)
      /\ \A i \in 1 .. d - 1 : stack'[i] = stack[i]
      /\ stack' = <<>> <=> d = 1
  <2> DEFINE Frames == [node : Nodes(prog),
                        saved : [Locations(prog) -> IrqlValue \cup {NoValue}]]
  <2>1. stack \in Seq(Frames)
    BY DEF ContractInv, AnalysisInv, TypeOK
  <2>2. /\ d \in Nat /\ d >= 1 /\ stack[d] \in Frames
        /\ SubSeq(stack, 1, d - 1) \in Seq(Frames)
        /\ Len(SubSeq(stack, 1, d - 1)) = d - 1
        /\ \A i \in 1 .. d - 1 : SubSeq(stack, 1, d - 1)[i] = stack[i]
    <3> HIDE DEF Frames
    <3> QED
      BY <1>1, <1>3, <2>1, Popped
  <2>3. n \in Nodes(prog)
    BY <1>2, <2>2
  <2>4. SubSeq(stack, 1, d - 1) = <<>> <=> d = 1
    <3> HIDE DEF Frames
    <3>1. PICK t \in Seq(Frames) : t = SubSeq(stack, 1, d - 1) /\ Len(t) = d - 1
      BY <2>2
    <3>2. t = <<>> <=> Len(t) = 0
      OBVIOUS
    <3> QED
      BY <2>2, <3>1, <3>2
  <2> QED
    BY <1>3, <2>2, <2>3, <2>4
<1>5. /\ IsDatabase(prog) /\ IsContractDatabase(prog)
      /\ ~Entering /\ Leaving /\ at' # Idle
  BY <1>1, <1>3, <1>4, HistoryTypes DEF Entering, Leaving, ContractInv,
     AnalysisInv
<1>6. \A i \in 1 .. d : entered'[i] = entered[i]
  <2>1. Len(entered) = d + 1 /\ entered \in Seq(IrqlValue)
    BY <1>1, <1>3 DEF ContractInv, HistoryInv
  <2>2. entered' = SubSeq(entered, 1, Len(entered) - 1)
    BY <1>5, Observed
  <2>3. entered # <<>> /\ Len(entered) - 1 = d
    BY <1>4, <2>1
  <2> QED
    BY <2>1, <2>2, <2>3, Popped
<1>7. float' = float
  BY <1>5 DEF ObserveFloat
<1>8. PICK f : f = Running(1)
  OBVIOUS
<1>9. Running(1)' = f
  <2>1. CASE d = 1
    BY <1>1, <1>2, <1>3, <1>4, <1>8, <2>1 DEF Running, RunningAbove
  <2>2. CASE d # 1
    <3>1. 1 \in 1 .. d - 1 /\ 0 # Len(stack) /\ 0 # Len(stack')
      BY <1>1, <1>4, <2>2
    <3> QED
      BY <1>3, <1>4, <1>8, <3>1 DEF Running, RunningAbove
  <2> QED
    BY <2>1, <2>2
<1>10. ASSUME WellFormed(prog), NEW x \in Locations(prog),
              FloatHome(f, x), float'[x] # NoValue
       PROVE  \E s \in FloatSaves(x) :
                /\ \E k \in getAPredecessor(prog, s) : float'[x] \in potential[k]
                /\ HomeKnown(f, x, s)'
  <2>1. PICK v : v = float[x]
    OBVIOUS
  <2>2. PICK s \in FloatSaves(x) :
               /\ \E k \in getAPredecessor(prog, s) : v \in potential[k]
               /\ HomeKnown(f, x, s)
    BY <1>3, <1>7, <1>8, <1>10, <2>1 DEF HomeInv
  <2>3. CASE d = 1
    <3>1. SiteAt(f, s, n, irql, v)
      BY <1>1, <1>2, <1>3, <1>8, <1>10, <2>1, <2>2, <2>3, HomeReached
    <3>2. HomeKnown(f, x, s)'
      BY <1>3, <1>4, <1>7, <2>1, <2>3, <3>1, KnownHere
    <3> QED
      BY <1>7, <2>1, <2>2, <3>2
  <2>4. CASE d # 1
    <3>1. PICK r : r = stack[1].node
      OBVIOUS
    <3>2. /\ stack' # <<>> /\ r = stack'[1].node /\ entered'[2] = entered[2]
      <4>1. 1 \in 1 .. d - 1 /\ 2 \in 1 .. d
        BY <1>4, <2>4
      <4> QED
        BY <1>4, <1>6, <2>4, <3>1, <4>1
    <3>3. FlowsAbove(s) => FlowsAbove(s)'
      <4>1. CASE d = 2
        <5>1. Len(stack) # 1 /\ Len(stack') = 1 /\ at' = stack[2].node
          BY <1>1, <1>2, <1>3, <1>4, <4>1
        <5>2. n = s => s \in prog.reach[n]
          BY <1>4, <1>10 DEF FloatHome, FloatFlowComplete
        <5>3. ASSUME NEW m \in getAPredecessor(prog, n), s \in prog.reach[m]
              PROVE  s \in prog.reach[n]
          BY <1>4, <1>10, <5>3, FlowStep DEF FloatHome
        <5> QED
          BY <1>2, <1>3, <4>1, <5>1, <5>2, <5>3 DEF FlowsAbove
      <4>2. CASE d # 2
        <5>1. Len(stack) # 1 /\ Len(stack') # 1 /\ stack'[2] = stack[2]
          <6>1. 2 \in 1 .. d - 1
            BY <1>4, <2>4, <4>2
          <6> QED
            BY <1>1, <1>4, <2>4, <4>2, <6>1
        <5> QED
          BY <1>3, <5>1 DEF FlowsAbove
      <4> QED
        BY <4>1, <4>2
    <3>4. Target(prog, r) = prog.scope[s] /\ LevelIn(2)' # LevelIn(2) =>
            MayChange(prog.scope[s])
      <4>1. CASE d = 2
        <5>1. LevelIn(2) = entered[3] /\ LevelIn(2)' = irql
          <6>1. 2 # Len(stack) + 1 /\ 2 = Len(stack') + 1
            BY <1>1, <1>4, <4>1
          <6> QED
            BY <1>3, <6>1 DEF LevelIn
        <5>2. irql # entered[3] => MayChange(Here)
          <6>1. Len(entered) = 3
            BY <1>1, <1>3, <4>1 DEF ContractInv, HistoryInv
          <6> QED
            BY <1>3, <1>10, <6>1, HereKnown
        <5>3. /\ FunctionCall(prog, n) /\ Target(prog, n) = Here
              /\ Target(prog, r) = prog.scope[n]
          <6>1. /\ 1 \in 1 .. Len(stack) /\ 1 # Len(stack)
                /\ 2 \in 1 .. Len(stack) /\ 2 = Len(stack)
            BY <1>1, <4>1
          <6>2. FunctionCall(prog, n) /\ Target(prog, n) = Here
            BY <1>2, <1>3, <1>10, <4>1, <6>1, CallsAbove
          <6>3. Target(prog, r) = prog.scope[stack[1 + 1].node]
            BY <1>3, <1>10, <3>1, <6>1, CallsAbove
          <6> QED
            BY <1>2, <4>1, <6>2, <6>3
        <5> QED
          BY <1>4, <1>5, <5>1, <5>2, <5>3, CallerMayChange
      <4>2. CASE d # 2
        <5>1. LevelIn(2)' = LevelIn(2)
          <6>1. /\ 2 # Len(stack) + 1 /\ 2 # Len(stack') + 1
                /\ 3 \in 1 .. d
            BY <1>1, <1>4, <2>4, <4>2
          <6> QED
            BY <1>6, <6>1 DEF LevelIn
        <5> QED
          BY <5>1
      <4> QED
        BY <4>1, <4>2
    <3>5. \/ r = s /\ v = entered[2]
          \/ /\ Target(prog, r) = prog.scope[s] /\ FlowsAbove(s)
             /\ LevelIn(2) # v => MayChange(prog.scope[s])
          \/ /\ \E m \in getAPredecessor(prog, r) : SiteAt(f, s, m, entered[2], v)
             /\ x \in prog.shared[r] => FlowsAbove(s)
      BY <1>3, <2>1, <2>2, <3>1 DEF HomeKnown
    <3>6. HomeKnown(f, x, s)'
      <4>1. \/ r = s /\ v = entered'[2]
            \/ /\ Target(prog, r) = prog.scope[s] /\ FlowsAbove(s)'
               /\ LevelIn(2)' # v => MayChange(prog.scope[s])
            \/ /\ \E m \in getAPredecessor(prog, r) :
                    SiteAt(f, s, m, entered'[2], v)
               /\ x \in prog.shared[r] => FlowsAbove(s)'
        BY <3>2, <3>3, <3>4, <3>5
      <4> QED
        BY <1>3, <1>7, <2>1, <3>2, <4>1, KnownAbove
    <3> QED
      BY <1>7, <2>1, <2>2, <3>6
  <2> QED
    BY <2>3, <2>4
<1> QED
  BY <1>3, <1>5, <1>9, <1>10, HomeAfter

\* The system enters a routine.
LEMMA HomeEnter ==
  ASSUME ContractInv, HomeInv, ObserveFloat, Enter
  PROVE  HomeInv'
<1>1. Same /\ prog' = prog /\ at = Idle /\ stack' = <<>>
  BY HistoryTypes DEF Enter, Same, analysisVars
<1>2. at' # Idle
  <2>1. PICK f \in DOMAIN prog.entry : at' = prog.entry[f]
    BY DEF Enter, EntryPoints
  <2> QED
    BY <2>1 DEF ContractInv, AnalysisInv, IsDatabase
<1>3. float' = NothingSaved(prog)
  BY <1>1 DEF ObserveFloat, HomeInv
<1>4. \A x \in Locations(prog) : float'[x] = NoValue
  BY <1>3 DEF NothingSaved
<1>5. PICK f : f = Running(1)'
  OBVIOUS
<1> QED
  BY <1>1, <1>2, <1>4, <1>5, HomeAfter

\* A round of the evaluation, before the thread runs.
LEMMA HomeAnalyse ==
  ASSUME ContractInv, HomeInv, ObserveFloat, Analyse
  PROVE  HomeInv'
<1>1. /\ prog' = prog /\ at' = at /\ stack' = stack
      /\ ~Saturated(prog, potential)
  BY DEF Analyse, Evaluate, threadVars
<1>2. float' = float
  BY <1>1, HistoryTypes DEF Entering, ObserveFloat
<1>3. ~(WellFormed(prog) /\ at # Idle)
  BY <1>1 DEF ContractInv, AnalysisInv, Followed
<1>4. NothingSaved(prog)' = NothingSaved(prog)
  BY <1>1 DEF NothingSaved, Locations
<1> QED
  BY <1>1, <1>2, <1>3, <1>4 DEF HomeInv

LEMMA HomeStutter ==
  ASSUME HomeInv, UNCHANGED contractVars
  PROVE  HomeInv'
<1>1. /\ Same /\ prog' = prog /\ at' = at /\ irql' = irql /\ stack' = stack
      /\ entered' = entered /\ float' = float
  BY DEF contractVars, vars, analysisVars, threadVars, historyVars, Same
<1>2. NothingSaved(prog)' = NothingSaved(prog)
  BY <1>1 DEF NothingSaved, Locations
<1>3. CASE at = Idle
  BY <1>1, <1>2, <1>3 DEF HomeInv
<1>4. CASE at # Idle
  <2>1. PICK f : f = Running(1)
    OBVIOUS
  <2>2. Running(1)' = f
    BY <1>1, <2>1 DEF Running, RunningAbove
  <2>3. \A x, s : HomeKnown(f, x, s)' <=> HomeKnown(f, x, s)
    <3>1. \A m, s, l, v : SiteAt(f, s, m, l, v)' <=> SiteAt(f, s, m, l, v)
      BY <1>1, HomeSame
    <3>2. \A g : MayChange(g)' <=> MayChange(g)
      BY <1>1, SameFacts
    <3>3. LevelIn(2)' = LevelIn(2) /\ \A s : FlowsAbove(s)' <=> FlowsAbove(s)
      BY <1>1 DEF LevelIn, FlowsAbove
    <3> QED
      BY <1>1, <3>1, <3>2, <3>3 DEF HomeKnown
  <2> QED
    BY <1>1, <1>4, <2>1, <2>2, <2>3, HomeAfter DEF HomeInv
<1> QED
  BY <1>3, <1>4

\* Whenever a floating-point state was saved in a routine or in a helper of its
\* own, the routine knows the save, through whatever was called since.
THEOREM HomeInvCorrect == ContractSpec => []HomeInv
<1>1. ContractInit => HomeInv
  BY DEF ContractInit, Init, HomeInv
<1>2. ContractInv /\ ContractInv' /\ FloatInv /\ HomeInv
        /\ [ContractNext]_contractVars => HomeInv'
  <2> SUFFICES ASSUME ContractInv, ContractInv', FloatInv, HomeInv,
                      [ContractNext]_contractVars
               PROVE  HomeInv'
    OBVIOUS
  <2>1. CASE UNCHANGED contractVars
    BY <2>1, HomeStutter
  <2>2. CASE ContractNext
    <3>1. Next /\ ObserveLevels /\ ObserveFloat /\ AnalysisInv'
      BY <2>2 DEF ContractNext, ContractInv
    <3>2. CASE Pass \/ Raise \/ Restore \/ Annotated \/ Opaque
      <4>1. PICK n : Walk(n)
        BY <3>2, Walks DEF ContractInv
      <4> QED
        BY <3>1, <4>1, HomeWalk
    <3> QED
      BY <3>1, <3>2, HomeAnalyse, HomeEnter, HomeCall, HomeReturn DEF Next
  <2> QED
    BY <2>1, <2>2
<1> QED
  BY <1>1, <1>2, ContractInvCorrect, FloatInvCorrect, PTL DEF ContractSpec

\* A call in the routine between those that stand for save and restore is one
\* the query sees between them.
LEMMA SeenBetween ==
  ASSUME IsDatabase(prog), NEW n \in Nodes(prog), NEW f \in DOMAIN prog.entry,
         RestoredAtHome(f, n), NEW s \in FloatSaves(prog.loc[n]),
         NEW c \in Sites(f, s), NEW e \in Sites(f, n), NEW mid \in Calls(prog, f),
         isIrqlChangingCall(prog, mid),
         c \in prog.ancestors[mid], mid \in prog.ancestors[e]
  PROVE  irqlChangesBetween(prog, s, n)
<1>1. /\ ~isIrqlChangingCall(prog, n) /\ ~isIrqlChangingCall(prog, s)
      /\ mid \in Calls(prog, f) \ {s, n}
  BY DEF RestoredAtHome, FloatHome
<1>2. /\ prog.order[c] \in anchorLineForCall(prog, f, s)
      /\ prog.order[e] \in anchorLineForCall(prog, f, n)
  BY DEF Sites, anchorLineForCall
<1>3. CASE prog.order[c] <= prog.order[mid] /\ prog.order[mid] <= prog.order[e]
  BY <1>1, <1>2, <1>3 DEF irqlChangesBetween
<1>4. CASE \E body \in prog.loops : {s, mid, n} \subseteq body
  <2>1. PICK body \in prog.loops : {s, mid, n} \subseteq body
    BY <1>4
  <2>2. mid \in body \ {s, n} /\ {s, n} \subseteq body
    BY <1>1, <2>1
  <2> QED
    BY <2>1, <2>2 DEF irqlChangesBetween
<1> QED
  BY <1>3, <1>4 DEF RestoredAtHome, StandsBetween

\* A state restored at another level, in the routine or in a helper of its own,
\* is reported.
LEMMA HomeMismatchSeen ==
  ASSUME ContractInv, HomeInv, WellFormed(prog), NEW n \in RestoresFloat,
         RestoredAtHome(Running(1), n),
         float[prog.loc[n]] \notin {NoValue, irql}
  PROVE  IrqlFloatStateMismatch(prog, potential, n)
<1>1. PICK f : f = Running(1)
  OBVIOUS
<1>2. PICK x : x = prog.loc[n]
  OBVIOUS
<1>3. PICK v : v = float[x]
  OBVIOUS
<1>4. /\ n \in Nodes(prog) /\ at \in Nodes(prog) /\ at # Idle
      /\ at \in getAPredecessor(prog, n) /\ prog.scope[at] = prog.scope[n]
      /\ IsDatabase(prog) /\ IsContractDatabase(prog)
  BY Ahead, HistoryTypes DEF RestoresFloat, ContractInv
<1>5. /\ FloatHome(f, x) /\ ~isIrqlChangingCall(prog, n)
      /\ f \in EntryPoints(prog) /\ f \in DOMAIN prog.entry
      /\ prog.scope[n] # f =>
           /\ HelperOf(f, x, prog.scope[n])
           /\ prog.scope[n] # "KeSaveFloatingPointState"
  BY <1>1, <1>2 DEF RestoredAtHome, FloatHome, EntryPoints
<1>6. PICK s \in FloatSaves(x) :
             /\ \E k \in getAPredecessor(prog, s) : v \in potential[k]
             /\ HomeKnown(f, x, s)
  <2>1. x \in Locations(prog)
    BY <1>2, <1>4 DEF Locations
  <2> QED
    BY <1>1, <1>2, <1>3, <1>4, <1>5, <2>1 DEF HomeInv
<1>7. v \in LevelsBefore(prog, potential, s)
  <2>1. PICK k \in getAPredecessor(prog, s) : v \in potential[k]
    BY <1>6
  <2>2. v \in getPotentialExitIrqlAtCfn(prog, potential, k)
    BY <2>1 DEF getPotentialExitIrqlAtCfn
  <2> QED
    BY <2>1, <2>2 DEF LevelsBefore
<1>8. irql \in LevelsBefore(prog, potential, n)
  BY <1>4, HereKnown DEF LevelsBefore
<1>9. s \in prog.reach[at] =>
        s \in FloatStateFlow(prog, n)
  BY <1>2, <1>4 DEF FloatStateFlow, FloatSaves, CallsOf
<1>10. /\ stack = <<>> => prog.scope[n] = f
       /\ stack # <<>> =>
            /\ Len(stack) = 1 /\ prog.scope[n] # f
            /\ Target(prog, stack[1].node) = prog.scope[n]
  BY <1>1, <1>4, <1>5, HomeDepth DEF Here
<1>11. CASE stack = <<>>
  <2>1. SiteAt(f, s, at, irql, v)
    BY <1>3, <1>6, <1>11 DEF HomeKnown
  <2>2. PICK c \in Sites(f, s), mid \in Calls(prog, f) :
          /\ isIrqlChangingCall(prog, mid)
          /\ c \in prog.ancestors[mid] /\ mid \in prog.ancestors[at]
    BY <1>2, <1>3, <2>1 DEF SiteAt
  <2>3. n \in Sites(f, n)
    BY <1>10, <1>11 DEF Sites
  <2>4. mid \in prog.ancestors[n]
    <3>1. PICK e \in prog.edge : e = <<at, n>>
      BY <1>4 DEF getAPredecessor
    <3>2. e[1] = at /\ e[2] = n
      BY <3>1
    <3> QED
      BY <1>4, <1>5, <1>10, <1>11, <2>2, <3>1, <3>2 DEF FloatHome
  <2>5. irqlChangesBetween(prog, s, n)
    BY <1>1, <1>2, <1>4, <1>5, <2>2, <2>3, <2>4, SeenBetween
  <2>6. s \in FloatStateFlow(prog, n)
    BY <1>9, <2>1 DEF SiteAt
  <2> QED
    BY <1>2, <1>3, <1>7, <1>8, <2>5, <2>6 DEF IrqlFloatStateMismatch
<1>12. CASE stack # <<>>
  <2>1. PICK r : r = stack[1].node
    OBVIOUS
  <2>2. PICK l : l = entered[2]
    OBVIOUS
  <2>3. 1 \in 1 .. Len(stack) /\ 2 = Len(stack) + 1
    <3>1. PICK d : d = Len(stack)
      OBVIOUS
    <3>2. d = 1
      BY <1>10, <1>12, <3>1
    <3>3. 1 \in 1 .. d /\ 2 = d + 1
      BY <3>2
    <3> QED
      BY <3>1, <3>3
  <2>4. /\ r \in Nodes(prog) /\ FunctionCall(prog, r)
        /\ Target(prog, r) = Here /\ Here = prog.scope[n]
        /\ prog.scope[r] = f
    <3>1. prog.scope[r] = f
      BY <1>1, <1>10, <1>12, <2>1 DEF Running, RunningAbove
    <3> QED
      BY <1>4, <1>10, <1>12, <2>1, <2>3, <3>1, CallsAbove DEF Here
  <2>5. PICK m \in getAPredecessor(prog, r) :
          m \in Nodes(prog) /\ prog.scope[m] = f
    BY <1>4, <2>1, <2>3, <2>4, CallsAbove
  <2>6. \A k \in getAPredecessor(prog, r) :
          prog.ancestors[k] \cup {r} \subseteq prog.ancestors[r]
    <3> SUFFICES ASSUME NEW k \in getAPredecessor(prog, r)
                 PROVE  prog.ancestors[k] \cup {r} \subseteq prog.ancestors[r]
      OBVIOUS
    <3>1. PICK e \in prog.edge : e = <<k, r>>
      BY DEF getAPredecessor
    <3>2. e[1] = k /\ e[2] = r
      BY <3>1
    <3>3. prog.scope[k] = f
      BY <1>4, <2>4, <3>1, <3>2 DEF IsDatabase
    <3> QED
      BY <1>5, <3>1, <3>2, <3>3 DEF FloatHome
  <2>7. r \in prog.ancestors[r]
    BY <2>5, <2>6
  <2>8. r \in Calls(prog, f) /\ r \in Sites(f, n)
    BY <1>10, <1>12, <2>1, <2>4 DEF Calls, Sites
  <2>9. MayChange(Target(prog, r)) => isIrqlChangingCall(prog, r)
    BY <1>4, <1>5, <2>4, ReturnIsKnown DEF FloatHome
  <2>10. irql # l => isIrqlChangingCall(prog, r)
    <3>1. Len(entered) = 2
      BY <1>4, <2>3 DEF ContractInv, HistoryInv
    <3> QED
      BY <1>4, <2>2, <2>4, <2>9, <3>1, HereKnown
  <2>11. ~(r = s /\ v = l)
    BY <1>5, <1>10, <1>12, <2>4 DEF FloatSaves, CallsOf
  <2>12. CASE /\ Target(prog, r) = prog.scope[s] /\ FlowsAbove(s)
              /\ LevelIn(2) # v => MayChange(prog.scope[s])
    <3>1. s \in FloatStateFlow(prog, n)
      BY <1>9, <1>10, <1>12, <2>12 DEF FlowsAbove
    <3>2. isIrqlChangingCall(prog, r)
      BY <1>2, <1>3, <2>3, <2>9, <2>12 DEF LevelIn
    <3>3. r \in Sites(f, s)
      BY <1>10, <1>12, <2>4, <2>8, <2>12 DEF Sites
    <3>4. irqlChangesBetween(prog, s, n)
      BY <1>1, <1>2, <1>4, <1>5, <2>7, <2>8, <3>2, <3>3, SeenBetween
    <3> QED
      BY <1>2, <1>3, <1>7, <1>8, <3>1, <3>4 DEF IrqlFloatStateMismatch
  <2>13. CASE /\ \E k \in getAPredecessor(prog, r) : SiteAt(f, s, k, l, v)
              /\ x \in prog.shared[r] => FlowsAbove(s)
    <3>1. s \in FloatStateFlow(prog, n)
      <4>1. x \in prog.shared[r]
        BY <1>5, <1>10, <1>12, <2>4 DEF HelperOf
      <4> QED
        BY <1>9, <1>10, <1>12, <2>13, <4>1 DEF FlowsAbove
    <3>2. PICK k \in getAPredecessor(prog, r) : SiteAt(f, s, k, l, v)
      BY <2>13
    <3>3. PICK c \in Sites(f, s) \cap prog.ancestors[k] :
            l # v =>
              \E mid \in Calls(prog, f) :
                /\ isIrqlChangingCall(prog, mid)
                /\ c \in prog.ancestors[mid] /\ mid \in prog.ancestors[k]
      BY <3>2 DEF SiteAt
    <3>4. \E mid \in Calls(prog, f) :
            /\ isIrqlChangingCall(prog, mid)
            /\ c \in prog.ancestors[mid] /\ mid \in prog.ancestors[r]
      <4>1. CASE l # v
        BY <2>6, <3>3, <4>1
      <4>2. CASE l = v
        BY <1>2, <1>3, <2>6, <2>7, <2>8, <2>10, <3>3, <4>2
      <4> QED
        BY <4>1, <4>2
    <3>5. irqlChangesBetween(prog, s, n)
      BY <1>1, <1>2, <1>4, <1>5, <2>8, <3>3, <3>4, SeenBetween
    <3> QED
      BY <1>2, <1>3, <1>7, <1>8, <3>1, <3>5 DEF IrqlFloatStateMismatch
  <2> QED
    BY <1>3, <1>6, <1>12, <2>1, <2>2, <2>11, <2>12, <2>13 DEF HomeKnown
<1> QED
  BY <1>11, <1>12

-----------------------------------------------------------------------------
(* The theorems.                                                           *)

\* The function that restores at n saves the state itself, on every path; or
\* the routine the system called and its helpers save and restore it.
Judgeable(n) == RestoredLocally(n) \/ RestoredAtHome(Running(1), n)

\* MismatchReported: a thread about to restore a floating-point state at
\* another IRQL than it was saved at makes a call that IrqlFloatStateMismatch
\* reports, be save, restore and the change of the IRQL in one function, in
\* branches or around a loop, or in different helpers of a routine, if nothing
\* run there restores the IRQL from a parameter and what runs between save and
\* restore stands between them.
THEOREM MismatchesReported ==
  ContractSpec =>
    [](WellFormed(prog) /\ (\A n \in RestoresFloat : Judgeable(n)) =>
         MismatchReported)
<1>1. ASSUME ContractInv, FloatInv, HomeInv, WellFormed(prog),
             \A n \in RestoresFloat : Judgeable(n)
      PROVE  MismatchReported
  BY <1>1, MismatchSeen, HomeMismatchSeen DEF MismatchReported, Judgeable
<1>2. ContractInv /\ FloatInv /\ HomeInv =>
        (WellFormed(prog) /\ (\A n \in RestoresFloat : Judgeable(n)) =>
           MismatchReported)
  BY <1>1
<1> QED
  BY <1>2, ContractInvCorrect, FloatInvCorrect, HomeInvCorrect, PTL

\* InvariantWithoutChange: what IrqlFloatStateMismatch.ql says holds of these
\* restores: with no call that changes the IRQL between save and restore, the
\* state is restored at the level it was saved at.
THEOREM InvariantBetweenCalls ==
  ContractSpec =>
    [](WellFormed(prog) /\ (\A n \in RestoresFloat : Judgeable(n)) =>
         InvariantWithoutChange)
<1>1. ASSUME ContractInv, FloatInv, HomeInv, WellFormed(prog),
             \A n \in RestoresFloat : Judgeable(n)
      PROVE  InvariantWithoutChange
  <2> SUFFICES ASSUME NEW n \in RestoresFloat,
                      float[prog.loc[n]] \notin {NoValue, irql}
               PROVE  \E s \in FloatStateFlow(prog, n) :
                        irqlChangesBetween(prog, s, n)
    BY DEF InvariantWithoutChange
  <2>1. IrqlFloatStateMismatch(prog, potential, n)
    BY <1>1, MismatchSeen, HomeMismatchSeen DEF Judgeable
  <2> QED
    BY <2>1 DEF IrqlFloatStateMismatch
<1>2. ContractInv /\ FloatInv /\ HomeInv =>
        (WellFormed(prog) /\ (\A n \in RestoresFloat : Judgeable(n)) =>
           InvariantWithoutChange)
  BY <1>1
<1> QED
  BY <1>2, ContractInvCorrect, FloatInvCorrect, HomeInvCorrect, PTL
=============================================================================
