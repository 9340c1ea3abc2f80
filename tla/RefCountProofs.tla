---------------------------- MODULE RefCountProofs ----------------------------
(***************************************************************************)
(* Proofs about RefCount, for any finite set of threads and any objects.   *)
(***************************************************************************)
EXTENDS RefCount, FiniteSetTheorems, TLAPS

\* The count of an object is the number of its references; only live objects
\* have any.
CountExact ==
  \A o \in Objects :
    /\ m_cRef[o] = Cardinality(refs[o])
    /\ life[o] # "alive" => refs[o] = {}

\* A thread that has entered Release and not given up its reference has one.
ReleasingHolds ==
  \A t \in Threads :
    pc[t] \in {"assert", "decrement"} => t \in refs[on[t]]

\* Only Release_good has an assertion.
AssertIsGood ==
  \A t \in Threads : pc[t] = "assert" => method[t] = "Release_good"

RefInv ==
  TypeOK /\ CountExact /\ ReleasingHolds /\ AssertIsGood /\ LastReleaseDeletes

\* Every set of references is finite.
LEMMA RefsFinite ==
  ASSUME TypeOK, NEW o \in Objects
  PROVE  /\ IsFiniteSet(refs[o])
         /\ Cardinality(refs[o]) \in Nat
         /\ Cardinality(refs[o]) = 0 <=> refs[o] = {}
<1>1. refs[o] \subseteq Threads
  BY DEF TypeOK
<1>2. IsFiniteSet(refs[o])
  BY <1>1, ThreadsAssumption, FS_Subset
<1> QED
  BY <1>2, FS_CardinalityType, FS_EmptySet

\* The initial states satisfy the invariant.
LEMMA RefInit == Init => RefInv
<1> SUFFICES ASSUME Init PROVE RefInv
  OBVIOUS
<1>1. TypeOK
  BY DEF Init, TypeOK, Steps
<1>2. CountExact /\ ReleasingHolds /\ AssertIsGood
  BY FS_EmptySet DEF Init, CountExact, ReleasingHolds, AssertIsGood
<1>3. LastReleaseDeletes
  BY DEF Init, LastReleaseDeletes, Deleting
<1> QED
  BY <1>1, <1>2, <1>3 DEF RefInv

\* Every step preserves the types.
LEMMA RefTypes ==
  ASSUME TypeOK, CountExact, ReleasingHolds, [Next]_vars PROVE TypeOK'
<1> USE DEF TypeOK
<1>1. ASSUME NEW t \in Threads, NEW o \in Objects, CObject(t, o)
      PROVE  TypeOK'
  BY <1>1 DEF CObject
<1>2. ASSUME NEW t \in Threads, NEW u \in Threads, NEW o \in Objects,
             AddRef(t, u, o)
      PROVE  TypeOK'
  BY <1>2 DEF AddRef
<1>3. ASSUME NEW t \in Threads, NEW m \in Methods, NEW o \in Objects,
             Release(t, m, o)
      PROVE  TypeOK'
  BY <1>3 DEF Release, Steps
<1>4. ASSUME NEW t \in Threads, Decrement(t)
      PROVE  TypeOK'
  <2>1. on[t] \in Objects /\ t \in refs[on[t]]
    BY <1>4 DEF Decrement, ReleasingHolds
  <2>2. m_cRef[on[t]] - 1 \in Nat
    BY <2>1, RefsFinite DEF CountExact
  <2> QED
    BY <1>4, <2>1, <2>2 DEF Decrement, Steps
<1>5. ASSUME NEW t \in Threads,
             AssertNonzero(t) \/ Destroy(t) \/ Free(t) \/ Return(t)
      PROVE  TypeOK'
  BY <1>5 DEF AssertNonzero, Destroy, Free, Return, Steps
<1> QED
  BY <1>1, <1>2, <1>3, <1>4, <1>5 DEF Next, Step, vars

\* Every step preserves the invariant.
LEMMA RefNext == RefInv /\ [Next]_vars => RefInv'
<1> SUFFICES ASSUME RefInv, [Next]_vars PROVE RefInv'
  OBVIOUS
<1> USE DEF RefInv
<1>0. TypeOK'
  BY RefTypes
<1>1. ASSUME NEW t \in Threads, NEW o \in Objects, CObject(t, o)
      PROVE  RefInv'
  <2> USE <1>1 DEF CObject, TypeOK
  <2>1. refs[o] = {} /\ Cardinality({t}) = 1
    BY FS_Singleton DEF CountExact
  <2>2. CountExact'
    BY <2>1 DEF CountExact
  <2>3. ReleasingHolds'
    BY <2>1 DEF ReleasingHolds
  <2>4. AssertIsGood'
    BY DEF AssertIsGood
  <2>5. LastReleaseDeletes'
    <3>1. \A u \in Threads, p \in Objects : Deleting(u, p)' <=> Deleting(u, p)
      BY DEF Deleting
    <3>2. \A u \in Threads : ~Deleting(u, o)
      BY DEF LastReleaseDeletes
    <3>3. refs'[o] # {}
      OBVIOUS
    <3>4. \A p \in Objects : p # o => life'[p] = life[p] /\ refs'[p] = refs[p]
      OBVIOUS
    <3> QED
      BY <3>1, <3>2, <3>3, <3>4 DEF LastReleaseDeletes
  <2> QED
    BY <1>0, <2>2, <2>3, <2>4, <2>5
<1>2. ASSUME NEW t \in Threads, NEW u \in Threads, NEW o \in Objects,
             AddRef(t, u, o)
      PROVE  RefInv'
  <2> USE <1>2 DEF AddRef, TypeOK
  <2>1. life[o] = "alive"
    BY DEF CountExact
  <2>2. Cardinality(refs[o] \cup {u}) = Cardinality(refs[o]) + 1
    BY RefsFinite, FS_AddElement
  <2>3. CountExact'
    BY <2>1, <2>2 DEF CountExact
  <2>4. ReleasingHolds'
    BY DEF ReleasingHolds
  <2>5. AssertIsGood'
    BY DEF AssertIsGood
  <2>6. LastReleaseDeletes'
    BY DEF LastReleaseDeletes, Deleting
  <2> QED
    BY <1>0, <2>3, <2>4, <2>5, <2>6
<1>3. ASSUME NEW t \in Threads, NEW m \in Methods, NEW o \in Objects,
             Release(t, m, o)
      PROVE  RefInv'
  <2> USE <1>3 DEF Release, TypeOK
  <2>1. CountExact'
    BY DEF CountExact
  <2>2. ReleasingHolds'
    BY DEF ReleasingHolds
  <2>3. AssertIsGood'
    BY DEF AssertIsGood, Methods
  <2>4. LastReleaseDeletes'
    BY DEF LastReleaseDeletes, Deleting
  <2> QED
    BY <1>0, <2>1, <2>2, <2>3, <2>4
<1>4. ASSUME NEW t \in Threads, AssertNonzero(t) PROVE RefInv'
  <2> USE <1>4 DEF AssertNonzero, TypeOK
  <2>1. CountExact' /\ ReleasingHolds' /\ AssertIsGood'
    BY DEF CountExact, ReleasingHolds, AssertIsGood
  <2>2. LastReleaseDeletes'
    BY DEF LastReleaseDeletes, Deleting
  <2> QED
    BY <1>0, <2>1, <2>2
<1>5. ASSUME NEW t \in Threads, Decrement(t) PROVE RefInv'
  <2> USE <1>5 DEF Decrement, TypeOK
  <2> DEFINE o == on[t]
  <2>1. o \in Objects /\ t \in refs[o]
    BY DEF ReleasingHolds
  <2>2. life[o] = "alive" /\ m_cRef[o] = Cardinality(refs[o])
    BY <2>1 DEF CountExact
  <2>3. refs'[o] = refs[o] \ {t} /\ m_cRef'[o] = m_cRef[o] - 1
    BY <2>1
  <2>4. IsFiniteSet(refs[o]) /\ IsFiniteSet(refs'[o])
    <3>1. IsFiniteSet(refs[o])
      BY <2>1, RefsFinite
    <3> QED
      BY <2>3, <3>1, FS_RemoveElement
  <2>5. Cardinality(refs'[o]) = m_cRef'[o] /\ (m_cRef'[o] = 0 <=> refs'[o] = {})
    <3>1. Cardinality(refs[o] \ {t}) = Cardinality(refs[o]) - 1
      BY <2>1, <2>4, FS_RemoveElement
    <3>2. Cardinality(refs'[o]) = m_cRef'[o]
      BY <2>2, <2>3, <3>1
    <3> QED
      BY <2>4, <3>2, FS_EmptySet
  <2>6. CountExact'
    BY <2>1, <2>2, <2>5 DEF CountExact
  <2>7. ReleasingHolds'
    BY DEF ReleasingHolds
  <2>8. AssertIsGood'
    BY DEF AssertIsGood
  <2>9. LastReleaseDeletes'
    <3>1. \A u \in Threads : ~Deleting(u, o)
      BY <2>1 DEF LastReleaseDeletes
    <3>2. Deleting(t, o)' <=> refs'[o] = {}
      BY <2>1, <2>5 DEF Deleting
    <3>3. \A u \in Threads, p \in Objects :
            u # t \/ p # o => (Deleting(u, p)' <=> Deleting(u, p))
      BY DEF Deleting
    <3>4. \A p \in Objects : p # o => refs'[p] = refs[p]
      BY <2>1
    <3> QED
      BY <2>1, <2>2, <3>1, <3>2, <3>3, <3>4 DEF LastReleaseDeletes
  <2> QED
    BY <1>0, <2>6, <2>7, <2>8, <2>9
<1>6. ASSUME NEW t \in Threads, Destroy(t) PROVE RefInv'
  <2> USE <1>6 DEF Destroy, TypeOK
  <2>1. CountExact' /\ ReleasingHolds' /\ AssertIsGood'
    BY DEF CountExact, ReleasingHolds, AssertIsGood
  <2>2. LastReleaseDeletes'
    BY DEF LastReleaseDeletes, Deleting
  <2> QED
    BY <1>0, <2>1, <2>2
<1>7. ASSUME NEW t \in Threads, Free(t) PROVE RefInv'
  <2> USE <1>7 DEF Free, TypeOK
  <2>1. Deleting(t, on[t]) /\ on[t] \in Objects
    BY DEF Deleting
  <2>2. life[on[t]] = "alive" /\ refs[on[t]] = {}
    BY <2>1 DEF LastReleaseDeletes
  <2>3. CountExact' /\ ReleasingHolds' /\ AssertIsGood'
    BY <2>1, <2>2 DEF CountExact, ReleasingHolds, AssertIsGood
  <2>4. LastReleaseDeletes'
    BY <2>1, <2>2 DEF LastReleaseDeletes, Deleting
  <2> QED
    BY <1>0, <2>3, <2>4
<1>8. ASSUME NEW t \in Threads, Return(t) PROVE RefInv'
  <2> USE <1>8 DEF Return, TypeOK
  <2>1. CountExact' /\ ReleasingHolds' /\ AssertIsGood'
    BY DEF CountExact, ReleasingHolds, AssertIsGood
  <2>2. LastReleaseDeletes'
    BY DEF LastReleaseDeletes, Deleting
  <2> QED
    BY <1>0, <2>1, <2>2
<1>9. CASE UNCHANGED vars
  BY <1>9 DEF vars, TypeOK, CountExact, ReleasingHolds, AssertIsGood,
              LastReleaseDeletes, Deleting
<1> QED
  BY <1>1, <1>2, <1>3, <1>4, <1>5, <1>6, <1>7, <1>8, <1>9 DEF Next, Step

\* The references and the counts stay in step in every behaviour.
THEOREM RefInvariant == Spec => []RefInv
BY RefInit, RefNext, PTL DEF Spec

\* The variables keep their types.
THEOREM RefCountTypeCorrect == Spec => []TypeOK
<1>1. RefInv => TypeOK
  BY DEF RefInv
<1> QED
  BY <1>1, RefInvariant, PTL

\* However the threads mix and interleave the two Release methods, the thread
\* that gives up the last reference deletes the object, and no other does.
THEOREM LastReleaseAlwaysDeletes == Spec => []LastReleaseDeletes
<1>1. RefInv => LastReleaseDeletes
  BY DEF RefInv
<1> QED
  BY <1>1, RefInvariant, PTL

\* A method about to access a freed object is reported at that access.
LEMMA AccessesAreReported == RefInv => AccessAfterFreeReported
<1> SUFFICES ASSUME RefInv, NEW t \in Threads, Accesses(t),
                    life[on[t]] = "freed"
             PROVE  MultithreadedAVCondition(method[t], Block(pc[t]))
  BY DEF AccessAfterFreeReported
<1>1. on[t] \in Objects /\ refs[on[t]] = {}
  BY DEF RefInv, TypeOK, CountExact
<1>2. pc[t] \in {"destroy", "free", "return"}
  BY <1>1 DEF RefInv, TypeOK, ReleasingHolds, Steps, Accesses
<1>3. pc[t] = "return" /\ method[t] = "Release_bad"
  BY <1>2 DEF Accesses, Block, PointerFieldAccess, RefInv, TypeOK, Methods
<1> QED
  BY <1>3 DEF MultithreadedAVCondition, Block, PointerFieldAccess,
              getAPredecessors

\* MultithreadedAVCondition misses no access to a freed object.
THEOREM FreedAccessAlwaysReported == Spec => []AccessAfterFreeReported
BY AccessesAreReported, RefInvariant, PTL

\* Release_good accesses live objects with references only.
LEMMA GoodAccesses == RefInv => GoodReleaseSafe
<1> SUFFICES ASSUME RefInv, NEW t \in Threads,
                    method[t] = "Release_good", Accesses(t)
             PROVE  life[on[t]] = "alive" /\ m_cRef[on[t]] # 0
  BY DEF GoodReleaseSafe
<1>1. pc[t] \in {"assert", "decrement"}
  BY DEF RefInv, TypeOK, Steps, Accesses, Block, PointerFieldAccess
<1>2. on[t] \in Objects /\ t \in refs[on[t]]
  BY <1>1 DEF RefInv, TypeOK, ReleasingHolds
<1>3. life[on[t]] = "alive" /\ m_cRef[on[t]] = Cardinality(refs[on[t]])
  BY <1>2 DEF RefInv, CountExact
<1> QED
  BY <1>2, <1>3, RefsFinite DEF RefInv

\* Release_good is thread safe: it never touches a deleted object, and its
\* assertion holds.
THEOREM GoodReleaseAlwaysSafe == Spec => []GoodReleaseSafe
BY GoodAccesses, RefInvariant, PTL
=============================================================================
