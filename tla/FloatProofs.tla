----------------------------- MODULE FloatProofs -----------------------------
(***************************************************************************)
(* Proofs about FloatProtection, for any set of functions with any number  *)
(* of blocks, loops included.                                              *)
(***************************************************************************)
EXTENDS FloatProtection, TLAPS

\* The statements of the current block before the next one were executed.
DoneHere ==
  \A i \in 1 .. at - 1 :
    Body[i].op \in {"save", "restore"} => Body[i].op \in called

\* The entry block was executed before any other.
EntryDone ==
  block # 1 /\ Calls(routine, 1, "save") => "save" \in called

\* A failure nobody noticed is of a call whose status is not checked.
IgnoredUnused == \A op \in ignored : unused(routine, op)

\* The state is saved by a block on a path to this one, or by the caller.
SavedBefore ==
  saved => \/ routine.saved
           \/ \E c \in Before(routine, block) : Calls(routine, c, "save")

FloatInv ==
  TypeOK /\ DoneHere /\ EntryDone /\ IgnoredUnused /\ SavedBefore

\* A block is before itself, and what is before a block is before its
\* successors.
LEMMA BeforeFacts ==
  ASSUME NEW r, NEW b \in Blocks(r)
  PROVE  /\ b \in Before(r, b)
         /\ \A c \in Blocks(r) :
              c \in Successors(r, b) => Before(r, b) \subseteq Before(r, c)
BY DEF Before, ClosedBackward

\* Nothing but itself is before the entry block.
LEMMA BeforeEntry ==
  ASSUME NEW r, IsRoutine(r)
  PROVE  Before(r, 1) \subseteq {1}
<1>1. 1 \in Blocks(r) /\ {1} \in SUBSET Blocks(r)
  BY DEF IsRoutine, Blocks
<1>2. ClosedBackward(r, {1})
  BY DEF ClosedBackward, IsRoutine
<1> QED
  BY <1>1, <1>2 DEF Before

\* Nothing but itself is after a block without successors.
LEMMA AfterExit ==
  ASSUME NEW r, NEW b \in Blocks(r), Successors(r, b) = {}
  PROVE  After(r, b) \subseteq {b}
<1>1. {b} \in SUBSET Blocks(r) /\ ClosedForward(r, {b})
  BY DEF ClosedForward
<1> QED
  BY <1>1 DEF After

\* The body of a block is a sequence of statements.
LEMMA BodyFacts ==
  ASSUME NEW r, IsRoutine(r), NEW b \in Blocks(r)
  PROVE  /\ r.blocks[b].body \in Seq(Statements)
         /\ Len(r.blocks[b].body) \in Nat
         /\ \A i \in 1 .. Len(r.blocks[b].body) :
              r.blocks[b].body[i].op \in {"save", "restore", "float"}
<1>1. r.blocks[b].body \in Seq(Statements)
  BY DEF IsRoutine
<1>2. \A i \in 1 .. Len(r.blocks[b].body) : r.blocks[b].body[i] \in Statements
  BY <1>1
<1> QED
  BY <1>1, <1>2 DEF Statements

\* The initial states satisfy the invariant.
LEMMA FloatInit == Init => FloatInv
<1> SUFFICES ASSUME Init PROVE FloatInv
  OBVIOUS
<1>1. IsRoutine(routine)
  BY RoutinesAssumption DEF Init
<1>2. block \in Blocks(routine)
  BY <1>1 DEF Init, IsRoutine, Blocks
<1>3. Len(Body) \in Nat
  BY <1>1, <1>2, BodyFacts DEF Body
<1>4. saved \in BOOLEAN /\ status \in BOOLEAN
  <2>1. routine.saved \in BOOLEAN
    BY <1>1 DEF IsRoutine
  <2> QED
    BY <2>1, Zenon DEF Init
<1>5. TypeOK
  <2>1. at \in 1 .. Len(Body) + 1 /\ called = {} /\ ignored = {}
    BY <1>3 DEF Init
  <2> QED
    BY <1>1, <1>2, <1>4, <2>1, Zenon DEF TypeOK
<1>6. DoneHere /\ EntryDone /\ IgnoredUnused
  BY DEF Init, DoneHere, EntryDone, IgnoredUnused
<1>7. SavedBefore
  BY Zenon DEF Init, SavedBefore
<1> QED
  BY <1>5, <1>6, <1>7 DEF FloatInv

\* A call of one of the two functions preserves the invariant.
LEMMA FloatCall ==
  ASSUME FloatInv, NEW op \in {"save", "restore"}, CallOf(op)
  PROVE  FloatInv'
<1> USE DEF CallOf, More
<1>1. IsRoutine(routine) /\ block \in Blocks(routine)
  BY DEF FloatInv, TypeOK
<1>2. Body' = Body /\ Len(Body) \in Nat /\ at \in 1 .. Len(Body)
  BY <1>1, BodyFacts DEF Body, FloatInv, TypeOK
<1>3. TypeOK'
  <2>1. saved' \in BOOLEAN /\ status' \in BOOLEAN
    BY Zenon DEF FloatInv, TypeOK
  <2>2. /\ at' \in 1 .. Len(Body') + 1
        /\ called' \subseteq {"save", "restore"}
        /\ ignored' \subseteq {"save", "restore"}
    BY <1>2 DEF FloatInv, TypeOK
  <2>3. IsRoutine(routine)' /\ (block \in Blocks(routine))'
    BY <1>1
  <2> QED
    BY <2>1, <2>2, <2>3, Zenon DEF TypeOK
<1>4. DoneHere'
  BY <1>2 DEF FloatInv, DoneHere, Now
<1>5. EntryDone'
  BY DEF FloatInv, EntryDone
<1>6. IgnoredUnused'
  BY <1>1, <1>2 DEF FloatInv, IgnoredUnused, unused, Now, Body
<1>7. SavedBefore'
  <2>1. CASE op = "save"
    <3>1. Calls(routine, block, "save")
      BY <1>2, <2>1 DEF Calls, Now, Body
    <3>2. block \in Before(routine, block)
      BY <1>1, BeforeFacts
    <3> QED
      BY <3>1, <3>2 DEF SavedBefore
  <2>2. CASE op = "restore"
    <3>1. saved' => saved
      BY <2>2 DEF FloatInv, TypeOK
    <3> QED
      BY <3>1 DEF FloatInv, SavedBefore
  <2> QED
    BY <2>1, <2>2
<1> QED
  BY <1>3, <1>4, <1>5, <1>6, <1>7 DEF FloatInv

\* Leaving a block preserves the invariant.
LEMMA FloatLeave ==
  ASSUME FloatInv, Leave PROVE FloatInv'
<1> USE DEF Leave, More
<1>1. IsRoutine(routine) /\ block \in Blocks(routine)
  BY DEF FloatInv, TypeOK
<1>2. /\ block' \in Successors(routine, block)
      /\ block' \in Blocks(routine) /\ block' # 1
  BY <1>1 DEF Successors, IsRoutine
<1>3. Len(Body) \in Nat /\ Len(Body') \in Nat /\ at = Len(Body) + 1
  BY <1>1, <1>2, BodyFacts DEF Body, FloatInv, TypeOK
<1>4. TypeOK'
  BY <1>1, <1>2, <1>3 DEF FloatInv, TypeOK
<1>5. DoneHere'
  BY DEF DoneHere
<1>6. EntryDone'
  BY <1>3 DEF FloatInv, EntryDone, DoneHere, Calls, Body
<1>7. IgnoredUnused'
  BY DEF FloatInv, IgnoredUnused
<1>8. SavedBefore'
  BY <1>1, <1>2, BeforeFacts DEF FloatInv, SavedBefore
<1> QED
  BY <1>4, <1>5, <1>6, <1>7, <1>8 DEF FloatInv

\* Every step preserves the invariant.
LEMMA FloatNext == FloatInv /\ [Next]_vars => FloatInv'
<1> SUFFICES ASSUME FloatInv, [Next]_vars PROVE FloatInv'
  OBVIOUS
<1>1. CASE KeSaveFloatingPointState
  BY <1>1, FloatCall DEF KeSaveFloatingPointState
<1>2. CASE KeRestoreFloatingPointState
  BY <1>2, FloatCall DEF KeRestoreFloatingPointState
<1>3. CASE UseFloat
  <2> USE <1>3 DEF UseFloat, More
  <2>1. Body' = Body /\ Len(Body) \in Nat /\ at \in 1 .. Len(Body)
    BY BodyFacts DEF Body, FloatInv, TypeOK
  <2>2. TypeOK'
    BY <2>1 DEF FloatInv, TypeOK
  <2>3. DoneHere'
    BY <2>1 DEF FloatInv, DoneHere, Now
  <2>4. EntryDone' /\ IgnoredUnused' /\ SavedBefore'
    BY DEF FloatInv, EntryDone, IgnoredUnused, SavedBefore
  <2> QED
    BY <2>2, <2>3, <2>4 DEF FloatInv
<1>4. CASE Leave
  BY <1>4, FloatLeave
<1>5. CASE UNCHANGED vars
  BY <1>5 DEF vars, FloatInv, TypeOK, DoneHere, EntryDone, IgnoredUnused,
              SavedBefore, Body
<1> QED
  BY <1>1, <1>2, <1>3, <1>4, <1>5 DEF Next

\* What was executed, noticed and saved is known in every behaviour.
THEOREM FloatInvariant == Spec => []FloatInv
BY FloatInit, FloatNext, PTL DEF Spec

\* The variables keep their types.
THEOREM FloatTypeCorrect == Spec => []TypeOK
<1>1. FloatInv => TypeOK
  BY DEF FloatInv
<1> QED
  BY <1>1, FloatInvariant, PTL

\* A function that ends without a successful save is reported.
LEMMA SavedHolds == FloatInv => SavedOrReported
<1> SUFFICES ASSUME FloatInv, Finished, routine.annotation = "saved",
                    ~FloatUnsafeExit(routine)
             PROVE  "save" \in called /\ "save" \notin ignored
  BY DEF SavedOrReported
<1>1. IsRoutine(routine) /\ 1 \in Blocks(routine)
  BY DEF FloatInv, TypeOK, IsRoutine, Blocks
<1>2. Calls(routine, 1, "save")
  BY <1>1, BeforeEntry DEF FloatUnsafeExit
<1>3. "save" \notin ignored
  BY DEF FloatUnsafeExit, FloatInv, IgnoredUnused
<1>4. CASE block # 1
  BY <1>2, <1>3, <1>4 DEF FloatInv, EntryDone
<1>5. CASE block = 1
  <2>1. Len(Body) \in Nat /\ at = Len(Body) + 1
    BY <1>1, <1>5, BodyFacts DEF Body, FloatInv, TypeOK, Finished, More
  <2> QED
    BY <1>2, <1>3, <1>5, <2>1 DEF Calls, Body, FloatInv, DoneHere
<1> QED
  BY <1>4, <1>5

\* FloatUnsafeExit is sound: a path without a save call, or with one whose
\* failure goes unnoticed, is never left unreported.
THEOREM UnsafeExitReported == Spec => []SavedOrReported
BY SavedHolds, FloatInvariant, PTL

\* A function that ends without a restore is reported.
LEMMA RestoredHolds == FloatInv => RestoredOrReported
<1> SUFFICES ASSUME FloatInv, Finished, routine.annotation = "restored",
                    ~FloatSafeExit(routine)
             PROVE  "restore" \in called /\ "restore" \notin ignored
  BY DEF RestoredOrReported
<1>1. block \in Blocks(routine) /\ IsRoutine(routine)
  BY DEF FloatInv, TypeOK
<1>2. Calls(routine, block, "restore")
  BY <1>1, AfterExit DEF FloatSafeExit, Finished
<1>3. "restore" \notin ignored
  BY DEF FloatSafeExit, FloatInv, IgnoredUnused
<1>4. Len(Body) \in Nat /\ at = Len(Body) + 1
  BY <1>1, BodyFacts DEF Body, FloatInv, TypeOK, Finished, More
<1> QED
  BY <1>2, <1>3, <1>4 DEF Calls, Body, FloatInv, DoneHere

\* FloatSafeExit is sound in the same way.
THEOREM SafeExitReported == Spec => []RestoredOrReported
BY RestoredHolds, FloatInvariant, PTL

\* A reported float is never executed with the state saved: the saves that
\* could have saved it are on paths the query looks at.
THEOREM FloatAlertsAlwaysReal == Spec => []FloatAlertsAreReal
<1>1. FloatInv => FloatAlertsAreReal
  BY DEF FloatInv, SavedBefore, FloatAlertsAreReal,
         FloatHardwareStateProtection
<1> QED
  BY <1>1, FloatInvariant, PTL
=============================================================================
