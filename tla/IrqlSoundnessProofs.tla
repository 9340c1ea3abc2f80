------------------------- MODULE IrqlSoundnessProofs -------------------------
(***************************************************************************)
(* Theorems about the IRQL analysis, for every driver and every number of  *)
(* levels.                                                                 *)
(***************************************************************************)
EXTENDS IrqlInvariants, FiniteSetTheorems, TLAPS

-----------------------------------------------------------------------------
(* The operators of the analysis.                                          *)

\* Entry levels stay within the levels.
LEMMA AllowableType ==
  ASSUME NEW f \in Facts
  PROVE  /\ hasUpperBound(f) \in SUBSET IrqlValue
         /\ hasLowerBound(f) \in SUBSET IrqlValue
         /\ getAllowableIrqlLevel(f) \in SUBSET IrqlValue
<1> USE MaxIrqlAssumption
<1>1. hasUpperBound(f) \in SUBSET IrqlValue
  BY DEF hasUpperBound
<1>2. hasLowerBound(f) \in SUBSET IrqlValue
  BY DEF hasLowerBound
<1>3. getAllowableIrqlLevel(f) \in SUBSET IrqlValue
  BY DEF getAllowableIrqlLevel
<1>4. QED
  BY <1>1, <1>2, <1>3

\* A level that obeys a function's annotations is one the analysis assumes at
\* the function's entry.
LEMMA ObeysAllowable ==
  ASSUME NEW f \in Facts, NEW l \in IrqlValue, Obeys(f, l),
         \A kind \in LevelKinds : Unparsed \notin f[kind],
         (\E w \in Lowers(f) : w > DISPATCH_LEVEL) =>
           \E w \in hasLowerBound(f) : w > DISPATCH_LEVEL
  PROVE  l \in IF IrqlRestrictsFunction(f) /\ getAllowableIrqlLevel(f) # {}
                 THEN getAllowableIrqlLevel(f) ELSE {0}
<1> USE MaxIrqlAssumption
<1> DEFINE lower == hasLowerBound(f)
           upper == hasUpperBound(f)
<1>t. /\ f.max \subseteq IrqlValue /\ f.alwaysMax \subseteq IrqlValue
      /\ f.min \subseteq IrqlValue /\ f.alwaysMin \subseteq IrqlValue
      /\ f.requires \subseteq IrqlValue /\ f.paged \in BOOLEAN
      /\ lower \subseteq IrqlValue /\ upper \subseteq IrqlValue
  <2>1. /\ Unparsed \notin f.max /\ Unparsed \notin f.alwaysMax
        /\ Unparsed \notin f.min /\ Unparsed \notin f.alwaysMin
        /\ Unparsed \notin f.requires
    BY DEF LevelKinds
  <2>2. QED
    BY <2>1, AllowableType DEF Facts, Levels
<1>b. l \in Int /\ 0 <= l /\ l <= MaxIrql
  BY DEF IrqlValue
<1>1. CASE Uppers(f) \cup Lowers(f) = {}
  <2>1. l = 0
    BY <1>1 DEF Obeys
  <2>2. f.max = {} /\ f.alwaysMax = {} /\ f.min = {} /\ f.alwaysMin = {}
        /\ f.requires = {}
    BY <1>1, <1>t DEF Uppers, Lowers, Unparsed, IrqlValue
  <2>3. lower \subseteq {0} /\ upper \subseteq {1}
    BY <2>2 DEF hasLowerBound, hasUpperBound
  <2>4. CASE getAllowableIrqlLevel(f) = {}
    BY <2>1, <2>4
  <2>5. CASE getAllowableIrqlLevel(f) # {}
    <3>1. lower \cup upper # {}
      BY <2>5 DEF getAllowableIrqlLevel
    <3>2. f.paged /\ lower = {0} /\ upper = {1}
      BY <2>2, <3>1 DEF hasLowerBound, hasUpperBound, IrqlValue
    <3>3. 0 \in getAllowableIrqlLevel(f)
      BY <3>2 DEF getAllowableIrqlLevel, EntryLows, EntryHighs, IrqlValue
    <3>4. QED
      BY <2>1, <3>3
  <2>6. QED
    BY <2>4, <2>5
<1>2. CASE Uppers(f) \cup Lowers(f) # {}
  <2>1. IrqlRestrictsFunction(f)
    <3>1. \/ f.max # {} \/ f.alwaysMax # {} \/ f.min # {} \/ f.alwaysMin # {}
          \/ f.requires # {}
      BY <1>2 DEF Uppers, Lowers
    <3>2. QED
      BY <3>1 DEF IrqlRestrictsFunction, LevelKinds
  <2>2. lower \cup upper # {}
    BY <1>2, <1>t DEF Uppers, Lowers, hasLowerBound, hasUpperBound
  <2>3. PICK a \in EntryLows(f) : a <= l
    <3>1. CASE lower = {}
      BY <3>1, <1>b DEF EntryLows
    <3>2. CASE lower # {}
      <4>1. PICK a \in lower : TRUE
        BY <3>2
      <4>2. a \in Lowers(f) \/ a = 0
        BY <4>1, <1>t DEF hasLowerBound, Lowers, Unparsed, IrqlValue
      <4>3. a <= l
        BY <4>2, <1>b DEF Obeys
      <4>4. QED
        BY <3>2, <4>1, <4>3 DEF EntryLows
    <3>3. QED
      BY <3>1, <3>2
  <2>4. PICK u \in EntryHighs(f) : l <= u
    <3>1. CASE upper # {}
      <4>1. PICK u \in upper : TRUE
        BY <3>1
      <4>2. u \in Uppers(f) \/ (f.paged /\ u = 1)
        BY <4>1, <1>t DEF hasUpperBound, Uppers, Unparsed, IrqlValue
      <4>3. l <= u
        BY <4>2 DEF Obeys
      <4>4. QED
        BY <3>1, <4>1, <4>3 DEF EntryHighs
    <3>2. CASE upper = {}
      <4>1. Uppers(f) = {}
        BY <3>2, <1>t DEF hasUpperBound, Uppers
      <4>2. CASE \A w \in Lowers(f) : w <= DISPATCH_LEVEL
        <5>1. l <= DISPATCH_LEVEL
          BY <4>1, <4>2 DEF Obeys
        <5>2. PICK w \in lower : TRUE
          BY <2>2, <3>2
        <5>3. (IF w > DISPATCH_LEVEL THEN MaxIrql ELSE DISPATCH_LEVEL)
                \in EntryHighs(f)
          BY <3>2, <5>2 DEF EntryHighs
        <5>4. QED
          BY <5>1, <5>3, <1>b DEF DISPATCH_LEVEL
      <4>3. CASE \E w \in Lowers(f) : w > DISPATCH_LEVEL
        <5>1. PICK w \in lower : w > DISPATCH_LEVEL
          BY <4>3
        <5>2. MaxIrql \in EntryHighs(f)
          BY <3>2, <5>1 DEF EntryHighs
        <5>3. QED
          BY <5>2, <1>b
      <4>4. \A w \in Lowers(f) : w \in Int
        BY <1>t DEF Lowers, IrqlValue
      <4>5. QED
        BY <4>2, <4>3, <4>4 DEF DISPATCH_LEVEL
    <3>3. QED
      BY <3>1, <3>2
  <2>5. a \in Int /\ u \in Int
    BY <1>t DEF EntryLows, EntryHighs, IrqlValue, DISPATCH_LEVEL
  <2>6. l \in a .. u
    BY <2>3, <2>4, <2>5, <1>b
  <2>7. l \in getAllowableIrqlLevel(f)
    BY <2>2, <2>6 DEF getAllowableIrqlLevel
  <2>8. QED
    BY <2>1, <2>7
<1>3. QED
  BY <1>1, <1>2

\* Facts about the target of a call.
LEMMA TargetType ==
  ASSUME NEW p, IsDatabase(p), NEW n \in Nodes(p), FunctionCall(p, n)
  PROVE  Target(p, n) \in Functions(p) /\ TargetFacts(p, n) \in Facts
BY DEF IsDatabase, TargetFacts

\* KeRaiseIrqlCall.getIrqlLevel yields levels.
LEMMA RaiseLevelType ==
  ASSUME NEW p, IsDatabase(p), NEW n \in Nodes(p)
  PROVE  RaiseLevel(p, n) \in SUBSET IrqlValue
<1>1. p.level[n] \in Levels
  BY DEF IsDatabase
<1>2. QED
  BY <1>1, MaxIrqlAssumption
  DEF RaiseLevel, Levels, IrqlValue, DISPATCH_LEVEL

\* The class of a call is not "node", and only calls save or restore.
LEMMA ClassFacts ==
  ASSUME NEW p, NEW n
  PROVE  /\ Class(p, n) = "node" <=> ~FunctionCall(p, n)
         /\ KeRaiseIrqlCall(p, n) => FunctionCall(p, n)
         /\ Saves(p, n) => FunctionCall(p, n)
         /\ Restores(p, n) => FunctionCall(p, n)
BY DEF Class, KeRaiseIrqlCall, SavesGlobalIrqlCall, IrqlSaveCall, Saves,
       Restores

\* The cascade names only levels.
LEMMA OwnType ==
  ASSUME NEW p, IsDatabase(p), NEW n \in Nodes(p)
  PROVE  Own(p, n) \in SUBSET Levels
<1>1. CASE KeRaiseIrqlCall(p, n)
  BY <1>1, RaiseLevelType DEF Own, KeRaiseIrqlCall, Levels
<1>2. CASE Class(p, n) = "IrqlRaisesAnnotated"
  <2>1. TargetFacts(p, n).raises \in SUBSET Levels
    BY <1>2, TargetType, ClassFacts DEF Facts
  <2>2. QED
    BY <1>2, <2>1 DEF Own, KeRaiseIrqlCall
<1>3. CASE ~KeRaiseIrqlCall(p, n) /\ Class(p, n) # "IrqlRaisesAnnotated"
  <2>1. p.fn[p.scope[n]] \in Facts
    BY DEF IsDatabase
  <2>2. getAllowableIrqlLevel(p.fn[p.scope[n]]) \in SUBSET Levels
    BY <2>1, AllowableType DEF Levels
  <2>3. {0} \in SUBSET Levels
    BY MaxIrqlAssumption DEF Levels, IrqlValue
  <2>4. QED
    BY <1>3, <2>2, <2>3 DEF Own
<1>4. QED
  BY <1>1, <1>2, <1>3

\* The cascade passes on levels of nodes of the database.
LEMMA SourcesType ==
  ASSUME NEW p, IsDatabase(p), NEW n \in Nodes(p)
  PROVE  Sources(p, n) \in SUBSET Nodes(p)
<1>1. \A calls : Before(p, calls) \subseteq Nodes(p)
  BY DEF Before, getAPredecessor
<1>2. getAPredecessor(p, n) \subseteq Nodes(p)
  BY DEF getAPredecessor
<1>3. FunctionCall(p, n) =>
        getAnExitPointOfFunction(p, Target(p, n)) \subseteq Nodes(p)
  BY DEF IsDatabase, getAnExitPointOfFunction, TargetFacts
<1>4. Class(p, n) = "FunctionCall" => FunctionCall(p, n)
  BY ClassFacts
<1>5. callerPredecessor(p, p.scope[n]) \subseteq Nodes(p)
  BY <1>1 DEF callerPredecessor
<1>6. QED
  BY <1>1, <1>2, <1>3, <1>4, <1>5 DEF Sources

\* One evaluation of the cascade yields levels.
LEMMA InternalType ==
  ASSUME NEW p, IsDatabase(p), NEW n \in Nodes(p),
         NEW pot \in [Nodes(p) -> SUBSET Levels]
  PROVE  getPotentialExitIrqlAtCfnInternal(p, pot, n) \in SUBSET Levels
BY OwnType, SourcesType DEF getPotentialExitIrqlAtCfnInternal

\* In the finished result a node has its own levels and those of its sources.
LEMMA Closed ==
  ASSUME NEW p, NEW pot, Saturated(p, pot), NEW n \in Nodes(p)
  PROVE  /\ Own(p, n) \subseteq pot[n]
         /\ \A m \in Sources(p, n) : pot[m] \subseteq pot[n]
<1>1. getPotentialExitIrqlAtCfnInternal(p, pot, n) \subseteq pot[n]
  BY DEF Saturated
<1>2. QED
  BY <1>1 DEF getPotentialExitIrqlAtCfnInternal

-----------------------------------------------------------------------------
(* Where a level comes from.                                               *)

\* A step along an edge stays in the function.
LEMMA EdgeScope ==
  ASSUME NEW p, IsDatabase(p), NEW n \in Nodes(p), NEW m \in Nodes(p),
         <<m, n>> \in p.edge
  PROVE  m \in getAPredecessor(p, n) /\ p.scope[m] = p.scope[n]
<1>1. p.scope[<<m, n>>[1]] = p.scope[<<m, n>>[2]]
  BY DEF IsDatabase
<1>2. QED
  BY <1>1 DEF getAPredecessor

\* A node that is no call, and a call annotated to keep the IRQL, take over
\* the levels of their predecessors.
LEMMA KeptSource ==
  ASSUME NEW p, NEW n, NEW m \in getAPredecessor(p, n),
         Class(p, n) \in {"node", "IrqlRequiresSameAnnotated"}
  PROVE  m \in Sources(p, n)
BY DEF Sources

\* A call of a function with a body takes over those of its exit points.
LEMMA ExitSource ==
  ASSUME NEW p, NEW n, Class(p, n) = "FunctionCall", TargetFacts(p, n).body,
         NEW m \in p.exit[Target(p, n)]
  PROVE  m \in Sources(p, n)
BY DEF Sources, getAnExitPointOfFunction, TargetFacts

\* The entry of a function takes over those of the predecessors of its calls.
LEMMA EntrySource ==
  ASSUME NEW p, IsDatabase(p), NEW n \in Nodes(p),
         Target(p, n) \in DOMAIN p.entry, NEW m \in getAPredecessor(p, n)
  PROVE  m \in Sources(p, p.entry[Target(p, n)])
<1> DEFINE e == p.entry[Target(p, n)]
<1>1. /\ e \in Nodes(p) /\ p.scope[e] = Target(p, n)
      /\ ~FunctionCall(p, e) /\ getAPredecessor(p, e) = {}
  BY DEF IsDatabase
<1>2. m \in callerPredecessor(p, Target(p, n))
  BY DEF callerPredecessor, Before
<1>3. Class(p, e) = "node"
  BY <1>1, ClassFacts
<1>4. QED
  BY <1>1, <1>2, <1>3 DEF Sources

\* A restoring call takes over those of the predecessors of its saves.
LEMMA RestoreSource ==
  ASSUME NEW p, NEW n, Restores(p, n), NEW s \in RestoredFrom(p, n),
         NEW m \in getAPredecessor(p, s)
  PROVE  m \in Sources(p, n)
<1>1. CASE Class(p, n) = "KeLowerIrqlCall"
  BY <1>1 DEF Sources, RestoredFrom, Before
<1>2. CASE Class(p, n) = "RestoresGlobalIrqlCall"
  BY <1>2 DEF Sources, RestoredFrom, Before
<1>3. CASE Class(p, n) = "IrqlRestoreCall"
  BY <1>3 DEF Sources, RestoredFrom, Before
<1>4. QED
  BY <1>1, <1>2, <1>3 DEF Restores

\* A routine the system enters starts at a level the analysis assumes.
LEMMA EntryOwn ==
  ASSUME NEW p, IsDatabase(p), Analysable(p), NEW f \in EntryPoints(p),
         NEW l \in IrqlValue, Obeys(p.fn[f], l)
  PROVE  l \in Own(p, p.entry[f])
<1> DEFINE e == p.entry[f]
<1>1. f \in DOMAIN p.entry /\ callerPredecessor(p, f) = {}
  BY DEF EntryPoints
<1>2. /\ p.fn[f] \in Facts /\ p.scope[e] = f
      /\ ~FunctionCall(p, e) /\ getAPredecessor(p, e) = {}
  BY <1>1 DEF IsDatabase
<1>3. Class(p, e) = "node"
  BY <1>2, ClassFacts
<1>4. l \in IF /\ IrqlRestrictsFunction(p.fn[f])
              /\ getAllowableIrqlLevel(p.fn[f]) # {}
             THEN getAllowableIrqlLevel(p.fn[f]) ELSE {0}
  BY <1>1, <1>2, ObeysAllowable DEF Analysable
<1>5. Own(p, e) = IF /\ IrqlRestrictsFunction(p.fn[f])
                     /\ getAllowableIrqlLevel(p.fn[f]) # {}
                    THEN getAllowableIrqlLevel(p.fn[f]) ELSE {0}
  BY <1>1, <1>2, <1>3 DEF Own, KeRaiseIrqlCall
<1>6. QED
  BY <1>4, <1>5

-----------------------------------------------------------------------------
(* Saved levels and callers.                                               *)

\* A node that saves nothing leaves every earlier save in place.
LEMMA SavedKept ==
  ASSUME NEW p, NEW pot, NEW sv, FlowComplete(p), NEW n \in Nodes(p),
         NEW m \in getAPredecessor(p, n), ~Saves(p, n),
         SavedFrom(p, pot, m, sv)
  PROVE  SavedFrom(p, pot, n, sv)
<1>1. p.reach[m] \subseteq p.reach[n]
  BY DEF FlowComplete
<1>2. QED
  BY <1>1 DEF SavedFrom

\* A saving call replaces the save to its own location.
LEMMA SavedUpdated ==
  ASSUME NEW p, NEW pot, NEW n \in Nodes(p), FlowComplete(p),
         NEW sv \in [Locations(p) -> IrqlValue \cup {NoValue}],
         NEW m \in getAPredecessor(p, n), Saves(p, n),
         SavedFrom(p, pot, m, sv), NEW l \in pot[m]
  PROVE  SavedFrom(p, pot, n, [sv EXCEPT ![p.loc[n]] = l])
<1> DEFINE new == [sv EXCEPT ![p.loc[n]] = l]
<1> SUFFICES ASSUME NEW x \in Locations(p), new[x] # NoValue
             PROVE  \E s \in p.reach[n] :
                      /\ p.loc[s] = x
                      /\ \E q \in getAPredecessor(p, s) : new[x] \in pot[q]
  BY DEF SavedFrom
<1>1. CASE x = p.loc[n]
  <2>1. new[x] = l
    BY <1>1
  <2>2. n \in p.reach[n]
    BY DEF FlowComplete
  <2>3. QED
    BY <1>1, <2>1, <2>2
<1>2. CASE x # p.loc[n]
  <2>1. new[x] = sv[x]
    BY <1>2
  <2>2. PICK s \in p.reach[m] :
          /\ p.loc[s] = x
          /\ \E q \in getAPredecessor(p, s) : sv[x] \in pot[q]
    BY <2>1 DEF SavedFrom
  <2>3. s \in p.reach[n]
    BY <1>2, <2>2 DEF FlowComplete
  <2>4. QED
    BY <2>1, <2>2, <2>3
<1>3. QED
  BY <1>1, <1>2

\* The callers stay what they are while the thread moves inside a function.
LEMMA CalledMoved ==
  ASSUME NEW p, NEW pot, NEW st, NEW m, NEW n, p.scope[m] = p.scope[n],
         Called(p, pot, st, m)
  PROVE  Called(p, pot, st, n)
BY DEF Called, RunningAbove

\* The same, when the call at n saves what it is annotated to save.
LEMMA Moved ==
  ASSUME NEW p, IsDatabase(p), FlowComplete(p), NEW pot, NEW n \in Nodes(p),
         NEW m \in Nodes(p), <<m, n>> \in p.edge, NEW st, NEW l \in pot[m],
         NEW sv \in [Locations(p) -> IrqlValue \cup {NoValue}],
         SavedFrom(p, pot, m, sv), Called(p, pot, st, m)
  PROVE  /\ SavedFrom(p, pot, n, IF Saves(p, n)
                                   THEN [sv EXCEPT ![p.loc[n]] = l] ELSE sv)
         /\ Called(p, pot, st, n)
<1>1. m \in getAPredecessor(p, n) /\ p.scope[m] = p.scope[n]
  BY EdgeScope
<1>2. Called(p, pot, st, n)
  BY <1>1, CalledMoved
<1>3. CASE Saves(p, n)
  BY <1>1, <1>2, <1>3, SavedUpdated
<1>4. CASE ~Saves(p, n)
  BY <1>1, <1>2, <1>4, SavedKept
<1>5. QED
  BY <1>3, <1>4

-----------------------------------------------------------------------------
(* The invariant.                                                          *)

\* It holds before the analysis starts.
LEMMA AnalysisInvInit ==
  Init => AnalysisInv
<1> SUFFICES ASSUME Init PROVE AnalysisInv
  OBVIOUS
<1> USE MaxIrqlAssumption
<1>1. IsDatabase(prog) /\ Idle \notin Nodes(prog)
  BY DatabaseAssumption, IdleAssumption DEF Init, AnalysisInit
<1>2. potential \in [Nodes(prog) -> SUBSET Levels]
  BY DEF Init, AnalysisInit
<1>3. irql \in IrqlValue
  BY DEF Init, IrqlValue
<1>4. saved \in [Locations(prog) -> IrqlValue \cup {NoValue}]
  BY DEF Init, NothingSaved
<1>5. at = Idle /\ stack = <<>> /\ saved = NothingSaved(prog)
  BY DEF Init
<1>6. QED
  BY <1>1, <1>2, <1>3, <1>4, <1>5 DEF AnalysisInv, TypeOK

\* A step of the thread to the node n, at the level l, keeps the invariant
\* if the analysis has l at n.
LEMMA ReturnsKeeps ==
  ASSUME AnalysisInv, NEW n \in Successors, NEW l \in IrqlValue,
         Returns(n, l), WellFormed(prog) => l \in potential[n]
  PROVE  AnalysisInv'
<1>1. /\ n \in Nodes(prog) /\ at \in Nodes(prog) /\ at # Idle
      /\ <<at, n>> \in prog.edge
  BY DEF Successors, AnalysisInv, TypeOK
<1>2. /\ prog' = prog /\ potential' = potential /\ stack' = stack
      /\ at' = n /\ irql' = l
      /\ saved' = IF Saves(prog, n)
                    THEN [saved EXCEPT ![prog.loc[n]] = irql] ELSE saved
  BY DEF Returns, analysisVars
<1>3. at' # Idle
  BY <1>1, <1>2 DEF AnalysisInv
<1>4. TypeOK'
  <2>1. saved' \in [Locations(prog) -> IrqlValue \cup {NoValue}]
    BY <1>2 DEF AnalysisInv, TypeOK
  <2>2. QED
    BY <1>1, <1>2, <2>1 DEF AnalysisInv, TypeOK, Nodes, Locations
<1>5. ASSUME WellFormed(prog) PROVE Followed'
  <2>1. Followed
    BY <1>1, <1>5 DEF AnalysisInv
  <2>2. /\ SavedFrom(prog, potential, n,
             IF Saves(prog, n) THEN [saved EXCEPT ![prog.loc[n]] = irql]
             ELSE saved)
        /\ Called(prog, potential, stack, n)
    BY <1>1, <1>5, <2>1, Moved DEF Followed, AnalysisInv, TypeOK, WellFormed
  <2>3. SavedFrom(prog, potential, n, saved')
    BY <1>2, <2>2
  <2>4. QED
    BY <1>2, <1>5, <2>1, <2>2, <2>3 DEF Followed
<1>6. QED
  BY <1>2, <1>3, <1>4, <1>5 DEF AnalysisInv

\* The facts about the node ahead that every step of the thread needs.
LEMMA Ahead ==
  ASSUME AnalysisInv, NEW n \in Successors
  PROVE  /\ n \in Nodes(prog) /\ at \in Nodes(prog) /\ at # Idle
         /\ at \in getAPredecessor(prog, n) /\ prog.scope[at] = prog.scope[n]
         /\ IsDatabase(prog)
         /\ WellFormed(prog) =>
              /\ Followed
              /\ Own(prog, n) \subseteq potential[n]
              /\ \A m \in Sources(prog, n) :
                   potential[m] \subseteq potential[n]
<1>1. /\ n \in Nodes(prog) /\ at \in Nodes(prog) /\ at # Idle
      /\ <<at, n>> \in prog.edge /\ IsDatabase(prog)
  BY DEF Successors, AnalysisInv, TypeOK
<1>2. at \in getAPredecessor(prog, n) /\ prog.scope[at] = prog.scope[n]
  BY <1>1, EdgeScope
<1>3. WellFormed(prog) => Followed
  BY <1>1 DEF AnalysisInv
<1>4. WellFormed(prog) => Saturated(prog, potential)
  BY <1>3 DEF Followed
<1>5. QED
  BY <1>1, <1>2, <1>3, <1>4, Closed

\* A round of the evaluation.
LEMMA AnalyseKeeps ==
  ASSUME AnalysisInv, Analyse PROVE AnalysisInv'
<1>1. /\ prog' = prog /\ at' = at /\ irql' = irql /\ saved' = saved
      /\ stack' = stack /\ ~Saturated(prog, potential)
  BY DEF Analyse, Evaluate, threadVars
<1>2. IsDatabase(prog) /\ potential \in [Nodes(prog) -> SUBSET Levels]
  BY DEF AnalysisInv, TypeOK
<1>3. \A n \in Nodes(prog) :
        getPotentialExitIrqlAtCfnInternal(prog, potential, n) \in SUBSET Levels
  BY <1>2, InternalType
<1>4. potential' \in [Nodes(prog) -> SUBSET Levels]
  BY <1>2, <1>3 DEF Analyse, Evaluate
<1>5. TypeOK'
  BY <1>1, <1>4 DEF AnalysisInv, TypeOK, Nodes, Locations
<1>6. ~(WellFormed(prog) /\ at # Idle)
  BY <1>1 DEF AnalysisInv, Followed
<1>7. QED
  BY <1>1, <1>5, <1>6 DEF AnalysisInv

\* The system enters a routine.
LEMMA EnterKeeps ==
  ASSUME AnalysisInv, Enter PROVE AnalysisInv'
<1>1. /\ prog' = prog /\ potential' = potential /\ saved' = saved
      /\ stack' = stack /\ at = Idle /\ Saturated(prog, potential)
  BY DEF Enter, analysisVars
<1>2. PICK f \in EntryPoints(prog), l \in IrqlValue :
        Obeys(prog.fn[f], l) /\ at' = prog.entry[f] /\ irql' = l
  BY DEF Enter
<1>3. stack = <<>> /\ saved = NothingSaved(prog) /\ IsDatabase(prog)
  BY <1>1 DEF AnalysisInv
<1>4. prog.entry[f] \in Nodes(prog)
  BY <1>3 DEF EntryPoints, IsDatabase
<1>5. TypeOK'
  BY <1>1, <1>2, <1>4 DEF AnalysisInv, TypeOK, Nodes, Locations
<1>6. ASSUME WellFormed(prog) PROVE Followed'
  <2>1. l \in Own(prog, prog.entry[f])
    BY <1>2, <1>3, <1>6, EntryOwn DEF WellFormed
  <2>2. l \in potential[prog.entry[f]]
    BY <1>1, <1>4, <2>1, Closed
  <2>3. SavedFrom(prog, potential, prog.entry[f], saved)
    BY <1>3 DEF SavedFrom, NothingSaved
  <2>4. Called(prog, potential, stack, prog.entry[f])
    BY <1>3 DEF Called
  <2>5. QED
    BY <1>1, <1>2, <2>2, <2>3, <2>4 DEF Followed
<1>7. QED
  BY <1>1, <1>2, <1>4, <1>5, <1>6 DEF AnalysisInv

\* The thread passes a node that is no call.
LEMMA PassKeeps ==
  ASSUME AnalysisInv, Pass PROVE AnalysisInv'
<1>1. PICK n \in Successors : Callee(prog, n) = NoFunction /\ at' = n
  BY DEF Pass
<1>2. /\ prog' = prog /\ potential' = potential /\ irql' = irql
      /\ saved' = saved /\ stack' = stack
  BY DEF Pass, analysisVars
<1>3. ~Saves(prog, n) /\ Class(prog, n) = "node"
  <2>1. ~FunctionCall(prog, n)
    BY <1>1 DEF Callee, FunctionCall
  <2>2. QED
    BY <2>1, ClassFacts
<1>4. Returns(n, irql)
  BY <1>1, <1>2, <1>3 DEF Returns, analysisVars
<1>5. at \in Sources(prog, n)
  BY <1>1, <1>3, Ahead, KeptSource
<1>6. WellFormed(prog) => irql \in potential[n]
  BY <1>1, <1>5, Ahead DEF Followed
<1>7. QED
  BY <1>1, <1>4, <1>6, ReturnsKeeps DEF AnalysisInv, TypeOK

\* KeRaiseIrql.
LEMMA RaiseKeeps ==
  ASSUME AnalysisInv, Raise PROVE AnalysisInv'
<1>1. PICK n \in Successors :
        /\ FunctionCall(prog, n) /\ KeRaiseIrqlCall(prog, n)
        /\ \E l \in RaisedTo(n) : Returns(n, l)
  BY DEF Raise, KernelCalls
<1>2. PICK l \in RaisedTo(n) : Returns(n, l)
  BY <1>1
<1>3. l \in IrqlValue
  BY <1>1, <1>2, Ahead, RaiseLevelType DEF RaisedTo
<1>4. WellFormed(prog) => l \in Own(prog, n)
  <2>1. WellFormed(prog) => l \in RaiseLevel(prog, n)
    BY <1>1, <1>2, Ahead DEF RaisedTo, WellFormed, Analysable
  <2>2. QED
    BY <1>1, <2>1 DEF Own, KeRaiseIrqlCall
<1>5. WellFormed(prog) => l \in potential[n]
  BY <1>1, <1>4, Ahead
<1>6. QED
  BY <1>1, <1>2, <1>3, <1>5, ReturnsKeeps

\* A call that restores a saved level.
LEMMA RestoreKeeps ==
  ASSUME AnalysisInv, Restore PROVE AnalysisInv'
<1>1. PICK n \in Successors :
        /\ Restores(prog, n) /\ RestoredTo(n) # NoValue
        /\ Returns(n, RestoredTo(n))
  BY DEF Restore, KernelCalls
<1> DEFINE x == prog.loc[n]
<1>2. n \in Nodes(prog) /\ x \in Locations(prog)
  BY <1>1, Ahead DEF Locations
<1>3. RestoredTo(n) \in IrqlValue
  <2>1. prog.level[n] \in Levels
    BY <1>1, <1>2, Ahead DEF IsDatabase
  <2>2. QED
    BY <1>1, <1>2, <2>1 DEF AnalysisInv, TypeOK, RestoredTo, Levels
<1>4. ASSUME WellFormed(prog) PROVE RestoredTo(n) \in potential[n]
  <2>0. RestoredTo(n) = saved[x]
    BY <1>1, <1>2, <1>4, ClassFacts DEF WellFormed, Analysable, RestoredTo
  <2>1. SavedFrom(prog, potential, at, saved)
    BY <1>1, <1>4, Ahead DEF Followed
  <2>2. PICK s \in prog.reach[at] : prog.loc[s] = x /\
          \E m \in getAPredecessor(prog, s) : saved[x] \in potential[m]
    BY <1>1, <1>2, <2>0, <2>1 DEF SavedFrom
  <2>3. PICK m \in getAPredecessor(prog, s) : saved[x] \in potential[m]
    BY <2>2
  <2>4. Paired(prog, n)
    BY <1>1, <1>2, <1>4, ClassFacts DEF WellFormed, Analysable
  <2>5. s \in RestoredFrom(prog, n)
    BY <1>1, <2>2, <2>4, Ahead DEF Paired
  <2>6. m \in Sources(prog, n)
    BY <1>1, <2>3, <2>5, RestoreSource
  <2>7. QED
    BY <1>1, <1>4, <2>0, <2>3, <2>6, Ahead
<1>5. QED
  BY <1>1, <1>3, <1>4, ReturnsKeeps

\* A call annotated to raise the IRQL or to keep it.
LEMMA AnnotatedKeeps ==
  ASSUME AnalysisInv, Annotated PROVE AnalysisInv'
<1>1. PICK n \in Successors :
        \/ /\ Class(prog, n) = "IrqlRaisesAnnotated"
           /\ \E l \in TargetFacts(prog, n).raises \cap IrqlValue :
                Returns(n, l)
        \/ Class(prog, n) = "IrqlRequiresSameAnnotated" /\ Returns(n, irql)
  BY DEF Annotated, KernelCalls
<1>2. CASE /\ Class(prog, n) = "IrqlRaisesAnnotated"
           /\ \E l \in TargetFacts(prog, n).raises \cap IrqlValue :
                Returns(n, l)
  <2>1. PICK l \in TargetFacts(prog, n).raises \cap IrqlValue : Returns(n, l)
    BY <1>2
  <2>2. l \in Own(prog, n)
    BY <1>2, <2>1 DEF Own, KeRaiseIrqlCall
  <2>3. WellFormed(prog) => l \in potential[n]
    BY <1>1, <2>2, Ahead
  <2>4. QED
    BY <1>1, <2>1, <2>3, ReturnsKeeps
<1>3. CASE Class(prog, n) = "IrqlRequiresSameAnnotated" /\ Returns(n, irql)
  <2>1. at \in Sources(prog, n)
    BY <1>1, <1>3, Ahead, KeptSource
  <2>2. WellFormed(prog) => irql \in potential[n]
    BY <1>1, <2>1, Ahead DEF Followed
  <2>3. QED
    BY <1>1, <1>3, <2>2, ReturnsKeeps DEF AnalysisInv, TypeOK
<1>4. QED
  BY <1>1, <1>2, <1>3

\* A call of an unannotated function without a body, which no database the
\* analysis can follow has.
LEMMA OpaqueKeeps ==
  ASSUME AnalysisInv, Opaque PROVE AnalysisInv'
<1>1. PICK n \in Successors :
        /\ Class(prog, n) = "FunctionCall" /\ ~TargetFacts(prog, n).body
        /\ Returns(n, irql)
  BY DEF Opaque, KernelCalls
<1>2. FunctionCall(prog, n) /\ n \in Nodes(prog)
  BY <1>1, Ahead, ClassFacts
<1>3. ~WellFormed(prog)
  BY <1>1, <1>2 DEF WellFormed, Analysable
<1>4. QED
  BY <1>1, <1>3, ReturnsKeeps DEF AnalysisInv, TypeOK

\* A call of a function with a body pushes the caller's frame.
LEMMA InvokeKeeps ==
  ASSUME AnalysisInv, Invoke PROVE AnalysisInv'
<1> DEFINE passed(n) == Passed(prog, n, saved, NothingSaved(prog))
<1>1. PICK n \in Successors :
        /\ Callee(prog, n) \in DOMAIN prog.entry
        /\ stack' = Append(stack, [node |-> n, saved |-> saved])
        /\ at' = prog.entry[Callee(prog, n)]
        /\ saved' = passed(n)
  BY DEF Invoke
<1>2. prog' = prog /\ potential' = potential /\ irql' = irql
  BY DEF Invoke, analysisVars
<1> DEFINE e == prog.entry[Callee(prog, n)]
           frame == [node |-> n, saved |-> saved]
<1>3. n \in Nodes(prog)
  BY <1>1, Ahead
<1>4. e \in Nodes(prog) /\ prog.scope[e] = Callee(prog, n)
  BY <1>1, <1>3, Ahead DEF IsDatabase
<1>5. /\ Len(stack) \in Nat /\ Len(stack') = Len(stack) + 1
      /\ stack'[Len(stack) + 1] = frame
      /\ \A i \in 1 .. Len(stack) : stack'[i] = stack[i]
  BY <1>1 DEF AnalysisInv, TypeOK
<1>6. TypeOK'
  <2>1. passed(n) \in [Locations(prog) -> IrqlValue \cup {NoValue}]
    BY DEF NothingSaved, Passed, AnalysisInv, TypeOK
  <2>2. stack' \in Seq([node : Nodes(prog),
                        saved : [Locations(prog) -> IrqlValue \cup {NoValue}]])
    BY <1>1, <1>3 DEF AnalysisInv, TypeOK
  <2>3. QED
    BY <1>1, <1>2, <1>4, <2>1, <2>2
    DEF AnalysisInv, TypeOK, Nodes, Locations
<1>7. ASSUME WellFormed(prog) PROVE Followed'
  <2>1. Followed
    BY <1>1, <1>7, Ahead
  <2>0. /\ FunctionCall(prog, n) /\ Callee(prog, n) = Target(prog, n)
        /\ Class(prog, n) = "FunctionCall"
    <3>1. FunctionCall(prog, n) /\ Callee(prog, n) = Target(prog, n)
      BY <1>1, <1>3, <1>7, Ahead
      DEF Callee, WellFormed, Analysable, IsDatabase
    <3>2. TargetFacts(prog, n).body
      BY <1>1, <3>1, Ahead DEF IsDatabase, TargetFacts
    <3>3. QED
      BY <1>3, <1>7, <3>1, <3>2 DEF WellFormed, Analysable
  <2>2. irql \in potential[e]
    <3>1. at \in Sources(prog, e)
      BY <1>1, <1>3, <2>0, Ahead, EntrySource
    <3>2. QED
      BY <1>4, <2>1, <3>1, Closed DEF Followed
  <2>3. SavedFrom(prog, potential, e, passed(n))
    <3> SUFFICES ASSUME NEW x \in Locations(prog), passed(n)[x] # NoValue
                 PROVE  \E s \in prog.reach[e] :
                          /\ prog.loc[s] = x
                          /\ \E m \in getAPredecessor(prog, s) :
                               passed(n)[x] \in potential[m]
      BY DEF SavedFrom
    <3>1. x \in prog.shared[n] /\ passed(n)[x] = saved[x]
      BY DEF Passed, NothingSaved
    <3>2. PICK s \in prog.reach[at] :
            /\ prog.loc[s] = x
            /\ \E m \in getAPredecessor(prog, s) : saved[x] \in potential[m]
      BY <2>1, <3>1 DEF Followed, SavedFrom
    <3>3. s \in prog.reach[e]
      BY <1>1, <1>3, <1>7, <3>1, <3>2, Ahead DEF WellFormed, FlowComplete
    <3>4. QED
      BY <3>1, <3>2, <3>3
  <2>4. SavedFrom(prog, potential, n, saved)
    <3>1. ~Saves(prog, n)
      BY <1>3, <1>7, <2>0 DEF WellFormed, Analysable
    <3>2. QED
      BY <1>1, <1>7, <2>1, <3>1, Ahead, SavedKept DEF Followed, WellFormed
  <2>5. Called(prog, potential, stack', e)
    <3> SUFFICES ASSUME NEW i \in 1 .. Len(stack')
                 PROVE  /\ Class(prog, stack'[i].node) = "FunctionCall"
                        /\ Target(prog, stack'[i].node) =
                             RunningAbove(prog, stack', e, i)
                        /\ SavedFrom(prog, potential, stack'[i].node,
                                     stack'[i].saved)
      BY DEF Called
    <3>1. CASE i = Len(stack) + 1
      BY <1>1, <1>4, <1>5, <2>0, <2>4, <3>1 DEF RunningAbove
    <3>2. CASE i \in 1 .. Len(stack)
      <4>1. /\ Class(prog, stack[i].node) = "FunctionCall"
            /\ Target(prog, stack[i].node) = RunningAbove(prog, stack, at, i)
            /\ SavedFrom(prog, potential, stack[i].node, stack[i].saved)
        BY <2>1, <3>2 DEF Followed, Called
      <4>2. RunningAbove(prog, stack', e, i) = RunningAbove(prog, stack, at, i)
        <5>1. prog.scope[at] = prog.scope[n]
          BY <1>1, Ahead
        <5>2. i # Len(stack')
          BY <1>5, <3>2
        <5>3. CASE i = Len(stack)
          BY <1>5, <5>1, <5>2, <5>3 DEF RunningAbove
        <5>4. CASE i # Len(stack)
          <6>1. i + 1 \in 1 .. Len(stack)
            BY <1>5, <3>2, <5>4
          <6>2. QED
            BY <1>5, <5>2, <5>4, <6>1 DEF RunningAbove
        <5>5. QED
          BY <5>3, <5>4
      <4>3. QED
        BY <1>5, <3>2, <4>1, <4>2
    <3>3. QED
      BY <1>5, <3>1, <3>2
  <2>6. QED
    BY <1>1, <1>2, <2>1, <2>2, <2>3, <2>5 DEF Followed
<1>8. QED
  BY <1>1, <1>2, <1>4, <1>6, <1>7 DEF AnalysisInv

\* Removing the last element of a sequence.
LEMMA Popped ==
  ASSUME NEW S, NEW st \in Seq(S), st # <<>>
  PROVE  /\ Len(st) \in Nat /\ Len(st) >= 1 /\ st[Len(st)] \in S
         /\ SubSeq(st, 1, Len(st) - 1) \in Seq(S)
         /\ Len(SubSeq(st, 1, Len(st) - 1)) = Len(st) - 1
         /\ \A i \in 1 .. Len(st) - 1 :
              SubSeq(st, 1, Len(st) - 1)[i] = st[i]
<1>1. Len(st) \in Nat /\ Len(st) >= 1
  OBVIOUS
<1>2. st[Len(st)] \in S
  BY <1>1
<1>3. \A i \in 1 .. Len(st) - 1 : st[i] \in S
  BY <1>1
<1>4. SubSeq(st, 1, Len(st) - 1) = [i \in 1 .. Len(st) - 1 |-> st[i]]
  BY <1>1
<1>5. SubSeq(st, 1, Len(st) - 1) \in Seq(S)
  BY <1>1, <1>3, <1>4
<1>6. Len([i \in 1 .. Len(st) - 1 |-> st[i]]) = Len(st) - 1
  BY <1>1
<1>7. \A j \in 1 .. Len(st) - 1 : [i \in 1 .. Len(st) - 1 |-> st[i]][j] = st[j]
  BY <1>1
<1>8. QED
  BY <1>1, <1>2, <1>4, <1>5, <1>6, <1>7, Zenon

\* The return of a function with a body pops it.
LEMMA LeaveFunctionKeeps ==
  ASSUME AnalysisInv, LeaveFunction PROVE AnalysisInv'
<1> DEFINE Saved == [Locations(prog) -> IrqlValue \cup {NoValue}]
           Frames == [node : Nodes(prog), saved : Saved]
           depth == Len(stack)
           top == stack[depth]
<1>1. /\ prog' = prog /\ potential' = potential /\ irql' = irql
      /\ saved' = Passed(prog, top.node, saved, top.saved)
      /\ at' = top.node
      /\ stack' = SubSeq(stack, 1, depth - 1)
      /\ at # Idle /\ stack # <<>> /\ at \in prog.exit[prog.scope[at]]
  BY DEF LeaveFunction, analysisVars
<1>2. /\ IsDatabase(prog) /\ at \in Nodes(prog) /\ irql \in IrqlValue
      /\ potential \in [Nodes(prog) -> SUBSET Levels]
      /\ stack \in Seq(Frames)
  BY <1>1 DEF AnalysisInv, TypeOK
<1>3. /\ depth \in Nat /\ depth >= 1 /\ top \in Frames
      /\ stack' \in Seq(Frames) /\ Len(stack') = depth - 1
      /\ \A i \in 1 .. depth - 1 : stack'[i] = stack[i]
  <2> HIDE DEF Frames
  <2>1. QED
    BY <1>1, <1>2, Popped
<1>4. top.node \in Nodes(prog) /\ top.saved \in Saved
  BY <1>3
<1>10. Passed(prog, top.node, saved, top.saved) \in Saved
  BY <1>4 DEF Passed, AnalysisInv, TypeOK
<1>5. /\ Len(stack') = depth - 1
      /\ \A i \in 1 .. depth - 1 : stack'[i] = stack[i]
  BY <1>3
<1>6. TypeOK'
  <2>1. Nodes(prog)' = Nodes(prog) /\ Locations(prog)' = Locations(prog)
    BY <1>1 DEF Nodes, Locations
  <2>2. /\ potential' \in [Nodes(prog) -> SUBSET Levels]
        /\ at' \in Nodes(prog) /\ irql' \in IrqlValue /\ saved' \in Saved
    BY <1>1, <1>2, <1>4, <1>10
  <2>3. QED
    BY <1>3, <2>1, <2>2 DEF TypeOK
<1>7. ASSUME WellFormed(prog) PROVE Followed'
  <2>1. Followed
    BY <1>1, <1>7 DEF AnalysisInv
  <2>2. /\ Class(prog, top.node) = "FunctionCall"
        /\ Target(prog, top.node) = prog.scope[at]
        /\ SavedFrom(prog, potential, top.node, top.saved)
    BY <1>3, <2>1 DEF Followed, Called, RunningAbove
  <2>6. FunctionCall(prog, top.node)
    BY <2>2, ClassFacts
  <2>7. SavedFrom(prog, potential, top.node,
                  Passed(prog, top.node, saved, top.saved))
    <3> DEFINE sv == Passed(prog, top.node, saved, top.saved)
    <3> SUFFICES ASSUME NEW x \in Locations(prog), sv[x] # NoValue
                 PROVE  \E s \in prog.reach[top.node] :
                          /\ prog.loc[s] = x
                          /\ \E m \in getAPredecessor(prog, s) :
                               sv[x] \in potential[m]
      BY DEF SavedFrom
    <3>1. CASE x \in prog.shared[top.node]
      <4>1. sv[x] = saved[x]
        BY <3>1 DEF Passed
      <4>2. PICK s \in prog.reach[at] :
              /\ prog.loc[s] = x
              /\ \E m \in getAPredecessor(prog, s) : saved[x] \in potential[m]
        BY <2>1, <4>1 DEF Followed, SavedFrom
      <4>3. Callee(prog, top.node) = prog.scope[at]
        BY <2>2, <2>6 DEF Callee
      <4>4. prog.scope[at] \in DOMAIN prog.entry
        BY <1>2 DEF IsDatabase
      <4>5. s \in prog.reach[top.node]
        BY <1>1, <1>4, <1>7, <3>1, <4>2, <4>3, <4>4
        DEF WellFormed, FlowComplete
      <4>6. QED
        BY <4>1, <4>2, <4>5
    <3>2. CASE x \notin prog.shared[top.node]
      BY <2>2, <3>2 DEF Passed, SavedFrom
    <3>3. QED
      BY <3>1, <3>2
  <2>3. irql \in potential[top.node]
    <3>1. FunctionCall(prog, top.node)
      BY <2>6
    <3>2. TargetFacts(prog, top.node).body
      BY <1>4, <1>7, <2>2, <3>1 DEF WellFormed, Analysable
    <3>3. at \in Sources(prog, top.node)
      BY <1>1, <2>2, <3>2, ExitSource
    <3>4. QED
      BY <1>4, <2>1, <3>3, Closed DEF Followed
  <2>4. Called(prog, potential, stack', top.node)
    <3> SUFFICES ASSUME NEW i \in 1 .. Len(stack')
                 PROVE  /\ Class(prog, stack'[i].node) = "FunctionCall"
                        /\ Target(prog, stack'[i].node) =
                             RunningAbove(prog, stack', top.node, i)
                        /\ SavedFrom(prog, potential, stack'[i].node,
                                     stack'[i].saved)
      BY DEF Called
    <3>1. i \in 1 .. depth - 1 /\ i \in 1 .. depth /\ stack'[i] = stack[i]
      BY <1>3, <1>5
    <3>2. /\ Class(prog, stack[i].node) = "FunctionCall"
          /\ Target(prog, stack[i].node) = prog.scope[stack[i + 1].node]
          /\ SavedFrom(prog, potential, stack[i].node, stack[i].saved)
      BY <1>3, <2>1, <3>1 DEF Followed, Called, RunningAbove
    <3>3. RunningAbove(prog, stack', top.node, i) =
            prog.scope[stack[i + 1].node]
      <4>1. CASE i = depth - 1
        BY <1>3, <1>5, <4>1 DEF RunningAbove
      <4>2. CASE i # depth - 1
        <5>1. i + 1 \in 1 .. depth - 1
          BY <1>3, <3>1, <4>2
        <5>2. QED
          BY <1>5, <4>2, <5>1 DEF RunningAbove
      <4>3. QED
        BY <4>1, <4>2
    <3>4. QED
      BY <3>1, <3>2, <3>3
  <2>5. QED
    BY <1>1, <2>1, <2>2, <2>3, <2>4, <2>7 DEF Followed
<1>8. at' # Idle
  BY <1>1, <1>4 DEF AnalysisInv
<1>9. QED
  BY <1>1, <1>6, <1>7, <1>8 DEF AnalysisInv

\* Every step keeps the invariant.
LEMMA AnalysisInvNext ==
  AnalysisInv /\ [Next]_vars => AnalysisInv'
<1> SUFFICES ASSUME AnalysisInv, [Next]_vars PROVE AnalysisInv'
  OBVIOUS
<1>1. CASE UNCHANGED vars
  BY <1>1 DEF vars, analysisVars, threadVars, AnalysisInv, TypeOK, Followed
<1>2. CASE Next
  BY <1>2, AnalyseKeeps, EnterKeeps, PassKeeps, InvokeKeeps,
     LeaveFunctionKeeps, RaiseKeeps, RestoreKeeps, AnnotatedKeeps, OpaqueKeeps
  DEF Next
<1>3. QED
  BY <1>1, <1>2

\* The analysis follows every thread.
LEMMA AnalysisInvCorrect ==
  Spec => []AnalysisInv
BY AnalysisInvInit, AnalysisInvNext, PTL DEF Spec

-----------------------------------------------------------------------------
(* The levels listed.                                                      *)

\* More levels at the sources yield more levels.
LEMMA InternalMonotone ==
  ASSUME NEW p, IsDatabase(p), NEW n \in Nodes(p), NEW small, NEW large,
         \A m \in Nodes(p) : small[m] \subseteq large[m]
  PROVE  getPotentialExitIrqlAtCfnInternal(p, small, n) \subseteq
           getPotentialExitIrqlAtCfnInternal(p, large, n)
<1>1. Sources(p, n) \subseteq Nodes(p)
  BY SourcesType
<1>2. UNION {small[m] : m \in Sources(p, n)} \subseteq
        UNION {large[m] : m \in Sources(p, n)}
  BY <1>1
<1> QED
  BY <1>2 DEF getPotentialExitIrqlAtCfnInternal

\* No level is listed that a solution of the recursion lacks.
NothingMore ==
  \A pot \in [Nodes(prog) -> SUBSET Levels] : Saturated(prog, pot) =>
    \A n \in Nodes(prog) : potential[n] \subseteq pot[n]

\* What getPotentialExitIrqlAtCfnInternal means to the engine is its least
\* solution: the rounds of the evaluation never list more, and so end in it.
THEOREM LeastLevels == Spec => []NothingMore
<1>1. Init => NothingMore
  BY DEF Init, AnalysisInit, NothingMore
<1>2. AnalysisInv /\ NothingMore /\ [Next]_vars => NothingMore'
  <2> SUFFICES ASSUME AnalysisInv, NothingMore, [Next]_vars
               PROVE  NothingMore'
    OBVIOUS
  <2>1. prog' = prog
    BY DEF vars, analysisVars, Next, Analyse, Evaluate, Enter, Pass, Invoke,
       LeaveFunction, Raise, Restore, Annotated, Opaque, Returns
  <2> SUFFICES ASSUME NEW pot \in [Nodes(prog) -> SUBSET Levels],
                      Saturated(prog, pot), NEW n \in Nodes(prog)
               PROVE  potential'[n] \subseteq pot[n]
    BY <2>1 DEF NothingMore
  <2>2. \A m \in Nodes(prog) : potential[m] \subseteq pot[m]
    BY DEF NothingMore
  <2>3. CASE potential' = potential
    BY <2>2, <2>3
  <2>4. CASE Analyse
    <3>1. potential'[n] =
            potential[n] \cup
              getPotentialExitIrqlAtCfnInternal(prog, potential, n)
      BY <2>4 DEF Analyse, Evaluate
    <3>2. getPotentialExitIrqlAtCfnInternal(prog, potential, n) \subseteq
            getPotentialExitIrqlAtCfnInternal(prog, pot, n)
      BY <2>2, InternalMonotone DEF AnalysisInv
    <3>3. getPotentialExitIrqlAtCfnInternal(prog, pot, n) \subseteq pot[n]
      BY DEF Saturated
    <3> QED
      BY <2>2, <3>1, <3>2, <3>3
  <2> QED
    BY <2>3, <2>4 DEF vars, analysisVars, Next, Enter, Pass, Invoke,
       LeaveFunction, Raise, Restore, Annotated, Opaque, Returns
<1> QED
  BY <1>1, <1>2, AnalysisInvCorrect, PTL DEF Spec

\* The levels listed, each with its node.
Listed == {nl \in Nodes(prog) \X Levels : nl[2] \in potential[nl[1]]}

LEMMA LevelsFinite == IsFiniteSet(Levels)
<1>1. IsFiniteSet(0 .. MaxIrql)
  BY FS_Interval, MaxIrqlAssumption
<1>2. IsFiniteSet(0 .. MaxIrql \cup {Unparsed})
  BY <1>1, FS_AddElement
<1> QED
  BY <1>2 DEF Levels, IrqlValue

\* A round of the evaluation keeps what is listed and lists something new.
LEMMA RoundGrows ==
  ASSUME AnalysisInv, AnalysisInv', Evaluate
  PROVE  /\ Listed \subseteq Listed' /\ Listed' # Listed
         /\ Listed' \subseteq Nodes(prog) \X Levels
<1>1. /\ prog' = prog
      /\ \A n \in Nodes(prog) :
           potential'[n] =
             potential[n] \cup
               getPotentialExitIrqlAtCfnInternal(prog, potential, n)
  BY DEF Evaluate
<1>2. Listed \subseteq Listed' /\ Listed' \subseteq Nodes(prog) \X Levels
  BY <1>1 DEF Listed
<1>3. PICK n \in Nodes(prog) :
        ~(getPotentialExitIrqlAtCfnInternal(prog, potential, n) \subseteq
            potential[n])
  BY DEF Evaluate, Saturated
<1>4. PICK l \in getPotentialExitIrqlAtCfnInternal(prog, potential, n) :
        l \notin potential[n]
  BY <1>3
<1>5. l \in potential'[n]
  BY <1>1, <1>4
<1>6. l \in Levels
  <2>1. potential' \in [Nodes(prog) -> SUBSET Levels]
    BY <1>1 DEF AnalysisInv, TypeOK
  <2> QED
    BY <1>5, <2>1
<1>7. <<n, l>> \in Listed' /\ <<n, l>> \notin Listed
  BY <1>1, <1>4, <1>5, <1>6 DEF Listed
<1> QED
  BY <1>2, <1>7

\* Every round of the evaluation of getPotentialExitIrqlAtCfnInternal lists at
\* least one more level of some node, of which there are no more than nodes
\* times levels: whatever the driver, loops and recursion included, there are
\* no more rounds than that.
THEOREM RoundsBounded ==
  Spec =>
    [][Analyse /\ IsFiniteSet(Nodes(prog)) =>
         /\ Cardinality(Listed) < Cardinality(Listed)'
         /\ Cardinality(Listed)' <=
              Cardinality(Nodes(prog)) * Cardinality(Levels)]_vars
<1>1. ASSUME AnalysisInv, AnalysisInv', Analyse, IsFiniteSet(Nodes(prog))
      PROVE  /\ Cardinality(Listed) < Cardinality(Listed)'
             /\ Cardinality(Listed)' <=
                  Cardinality(Nodes(prog)) * Cardinality(Levels)
  <2>1. PICK old : old = Listed
    OBVIOUS
  <2>2. PICK new : new = Listed'
    OBVIOUS
  <2>3. old \subseteq new /\ new # old /\ new \subseteq Nodes(prog) \X Levels
    BY <1>1, <2>1, <2>2, RoundGrows DEF Analyse
  <2>4. /\ IsFiniteSet(Nodes(prog) \X Levels)
        /\ Cardinality(Nodes(prog) \X Levels) =
             Cardinality(Nodes(prog)) * Cardinality(Levels)
    BY <1>1, FS_Product, LevelsFinite
  <2>5. /\ IsFiniteSet(new)
        /\ Cardinality(new) <=
             Cardinality(Nodes(prog)) * Cardinality(Levels)
    BY <2>3, <2>4, FS_Subset
  <2>6. Cardinality(old) <= Cardinality(new) /\ Cardinality(old) # Cardinality(new)
    BY <2>3, <2>5, FS_Subset
  <2>7. IsFiniteSet(old)
    BY <2>3, <2>5, FS_Subset
  <2>8. Cardinality(old) \in Nat /\ Cardinality(new) \in Nat
    BY <2>5, <2>7, FS_CardinalityType
  <2>9. Cardinality(old) < Cardinality(new)
    BY <2>6, <2>8
  <2> QED
    BY <2>1, <2>2, <2>5, <2>9
<1>2. AnalysisInv /\ AnalysisInv' /\ Analyse /\ IsFiniteSet(Nodes(prog)) =>
        /\ Cardinality(Listed) < Cardinality(Listed)'
        /\ Cardinality(Listed)' <=
             Cardinality(Nodes(prog)) * Cardinality(Levels)
  BY <1>1
<1> QED
  BY <1>2, AnalysisInvCorrect, PTL

-----------------------------------------------------------------------------
(* The theorems.                                                           *)

\* The result of the analysis and the state of a thread keep their types,
\* whatever the driver.
THEOREM AnalysisTypeCorrect ==
  Spec => []TypeOK
<1>1. AnalysisInv => TypeOK
  BY DEF AnalysisInv
<1>2. QED
  BY <1>1, AnalysisInvCorrect, PTL

\* What is known at the node of a thread: the cascade has its level, so the
\* fallback is not used.
LEMMA LevelKnown ==
  ASSUME AnalysisInv, at # Idle, WellFormed(prog)
  PROVE  irql \in PotentialHere /\ at \in Nodes(prog)
         /\ PotentialHere = potential[at]
<1>1. irql \in potential[at] /\ at \in Nodes(prog)
  BY DEF AnalysisInv, Followed, TypeOK
<1>2. PotentialHere = potential[at]
  BY <1>1 DEF PotentialHere, getPotentialExitIrqlAtCfn
<1>3. QED
  BY <1>1, <1>2

\* getPotentialExitIrqlAtCfn lists the IRQL of every thread at every node it
\* reaches, for every driver it can follow.
THEOREM SoundCorrect ==
  Spec => []Sound
<1>1. AnalysisInv => Sound
  BY LevelKnown DEF Sound
<1>2. QED
  BY <1>1, AnalysisInvCorrect, PTL

\* A level that is below, or above, all of a set of levels is below, or
\* above, each of them.
LEMMA Everywhere ==
  ASSUME NEW r, NEW levels, NEW l \in levels
  PROVE  (BelowAll(r, levels) => r < l) /\ (AboveAll(r, levels) => r > l)
BY DEF BelowAll, AboveAll

\* The levels an annotation of a call's target names are integers.
LEMMA BoundsType ==
  ASSUME NEW p, IsDatabase(p), NEW n \in Nodes(p), FunctionCall(p, n)
  PROVE  /\ Ceilings(p, n) \subseteq Int /\ Floors(p, n) \subseteq Int
<1>1. TargetFacts(p, n) \in Facts
  BY TargetType
<1>2. Levels \subseteq Int
  BY MaxIrqlAssumption DEF Levels, IrqlValue, Unparsed
<1>3. /\ TargetFacts(p, n).max \subseteq Int
      /\ TargetFacts(p, n).min \subseteq Int
      /\ TargetFacts(p, n).requires \subseteq Int
  BY <1>1, <1>2 DEF Facts
<1>4. QED
  BY <1>3 DEF Ceilings, Floors

\* IrqlTooHigh, IrqlTooLow and IrqlLoweredImproperly report only calls that
\* every thread makes at a forbidden level.
THEOREM AlertsCorrect ==
  Spec => []AlertsAreReal
<1>1. ASSUME AnalysisInv PROVE AlertsAreReal
  <2> SUFFICES ASSUME WellFormed(prog), NEW n \in Successors
               PROVE  /\ CallReported(n) => Breaks(n, irql)
                      /\ IrqlLoweredImproperly(prog, potential, n, at) =>
                           \E l \in RaiseLevel(prog, n) : irql > l
    BY DEF AlertsAreReal
  <2>1. /\ n \in Nodes(prog) /\ at # Idle /\ IsDatabase(prog)
        /\ irql \in PotentialHere /\ irql \in Int
    BY <1>1, Ahead, LevelKnown DEF AnalysisInv, TypeOK, IrqlValue
  <2>2. ASSUME IrqlTooHigh(prog, potential, n, at) PROVE Breaks(n, irql)
    <3>1. PICK r \in Ceilings(prog, n) : BelowAll(r, PotentialHere)
      BY <2>2 DEF IrqlTooHigh, PotentialHere
    <3>2. r \in Int
      BY <2>1, <2>2, BoundsType DEF IrqlTooHigh
    <3>3. r < irql
      BY <2>1, <3>1, Everywhere
    <3>4. QED
      BY <2>1, <3>1, <3>2, <3>3 DEF Breaks
  <2>3. ASSUME IrqlTooLow(prog, potential, n, at) PROVE Breaks(n, irql)
    <3>1. PICK r \in Floors(prog, n) : AboveAll(r, PotentialHere)
      BY <2>3 DEF IrqlTooLow, PotentialHere
    <3>2. r \in Int
      BY <2>1, <2>3, BoundsType DEF IrqlTooLow
    <3>3. r > irql
      BY <2>1, <3>1, Everywhere
    <3>4. QED
      BY <2>1, <3>1, <3>2, <3>3 DEF Breaks
  <2>4. ASSUME IrqlLoweredImproperly(prog, potential, n, at)
        PROVE  \E l \in RaiseLevel(prog, n) : irql > l
    <3>1. PICK r \in RaiseLevel(prog, n) : BelowAll(r, PotentialHere)
      BY <2>4 DEF IrqlLoweredImproperly, PotentialHere
    <3>2. r \in Int
      BY <2>1, RaiseLevelType DEF IrqlValue
    <3>3. r < irql
      BY <2>1, <3>1, Everywhere
    <3>4. QED
      BY <2>1, <3>1, <3>2, <3>3
  <2>5. QED
    BY <2>2, <2>3, <2>4 DEF CallReported
<1>2. QED
  BY <1>1, AnalysisInvCorrect, PTL

\* Where the analysis knows a single level, no call that breaks an annotation
\* of its target goes unreported.
THEOREM CertainCorrect ==
  Spec => []CertainBreaksReported
<1>1. ASSUME AnalysisInv PROVE CertainBreaksReported
  <2> SUFFICES ASSUME WellFormed(prog), NEW n \in Successors,
                      FunctionCall(prog, n), Breaks(n, irql),
                      PotentialHere \in {{l} : l \in Levels}
               PROVE  CallReported(n)
    BY DEF CertainBreaksReported
  <2>1. /\ n \in Nodes(prog) /\ at \in getAPredecessor(prog, n)
        /\ IsDatabase(prog) /\ irql \in PotentialHere /\ irql \in Int
    BY <1>1, Ahead, LevelKnown DEF AnalysisInv, TypeOK, IrqlValue
  <2>2. PotentialHere = {irql}
    BY <2>1
  <2>3. n \notin prog.constantFalse
    BY DEF Successors, WellFormed, Analysable
  <2>4. CASE \E r \in Ceilings(prog, n) : irql > r
    <3>1. PICK r \in Ceilings(prog, n) : irql > r
      BY <2>4
    <3>2. r \in Int
      BY <2>1, BoundsType
    <3>3. BelowAll(r, PotentialHere)
      BY <2>1, <2>2, <3>1, <3>2 DEF BelowAll
    <3>4. IrqlTooHigh(prog, potential, n, at)
      BY <2>1, <2>3, <3>3 DEF IrqlTooHigh, PotentialHere
    <3>5. QED
      BY <3>4 DEF CallReported
  <2>5. CASE \E r \in Floors(prog, n) : irql < r
    <3>1. PICK r \in Floors(prog, n) : irql < r
      BY <2>5
    <3>2. r \in Int
      BY <2>1, BoundsType
    <3>3. AboveAll(r, PotentialHere)
      BY <2>1, <2>2, <3>1, <3>2 DEF AboveAll
    <3>4. IrqlTooLow(prog, potential, n, at)
      BY <2>1, <2>3, <3>3 DEF IrqlTooLow, PotentialHere
    <3>5. QED
      BY <3>4 DEF CallReported
  <2>6. QED
    BY <2>4, <2>5 DEF Breaks
<1>2. QED
  BY <1>1, AnalysisInvCorrect, PTL

\* IrqlSetTooHigh and IrqlSetTooLow report only nodes where every thread is
\* outside the range the function is annotated to keep to.
THEOREM SetAlertsCorrect ==
  Spec => []SetAlertsAreReal
<1>1. ASSUME AnalysisInv PROVE SetAlertsAreReal
  <2> DEFINE f == prog.fn[prog.scope[at]]
  <2> SUFFICES ASSUME WellFormed(prog), at # Idle
               PROVE  /\ IrqlSetTooHigh(prog, potential, at) =>
                           \E r \in RaiseCeilings(f) : irql > r
                      /\ IrqlSetTooLow(prog, potential, at) =>
                           \E r \in f.alwaysMin : irql < r
    BY DEF SetAlertsAreReal
  <2>1. irql \in PotentialHere /\ irql \in Int /\ f \in Facts
    <3>1. irql \in PotentialHere /\ at \in Nodes(prog)
      BY <1>1, LevelKnown
    <3>2. irql \in Int /\ IsDatabase(prog)
      BY <1>1 DEF AnalysisInv, TypeOK, IrqlValue
    <3>3. f \in Facts
      BY <3>1, <3>2 DEF IsDatabase
    <3>4. QED
      BY <3>1, <3>2, <3>3
  <2>2. Levels \subseteq Int
    BY MaxIrqlAssumption DEF Levels, IrqlValue, Unparsed
  <2>3. f.alwaysMin \subseteq Int /\ RaiseCeilings(f) \subseteq Int
    BY <2>1, <2>2 DEF Facts, RaiseCeilings
  <2>4. ASSUME IrqlSetTooHigh(prog, potential, at)
        PROVE  \E r \in RaiseCeilings(f) : irql > r
    <3>1. PICK r \in RaiseCeilings(f) : BelowAll(r, PotentialHere)
      BY <2>4 DEF IrqlSetTooHigh, tooHighForFunc, PotentialHere
    <3>2. r < irql /\ r \in Int
      BY <2>1, <2>3, <3>1, Everywhere
    <3>3. QED
      BY <2>1, <3>1, <3>2
  <2>5. ASSUME IrqlSetTooLow(prog, potential, at)
        PROVE  \E r \in f.alwaysMin : irql < r
    <3>1. PICK r \in f.alwaysMin : AboveAll(r, PotentialHere)
      BY <2>5 DEF IrqlSetTooLow, tooLowForFunc, PotentialHere
    <3>2. r > irql /\ r \in Int
      BY <2>1, <2>3, <3>1, Everywhere
    <3>3. QED
      BY <2>1, <3>1, <3>2
  <2>6. QED
    BY <2>4, <2>5
<1>2. QED
  BY <1>1, AnalysisInvCorrect, PTL
=============================================================================
