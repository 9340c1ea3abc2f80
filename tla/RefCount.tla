------------------------------- MODULE RefCount -------------------------------
(***************************************************************************)
(* The reference-counted CObject of the MultithreadedAVCondition snippet,  *)
(* used by several threads, and what the query says of its two Release     *)
(* methods.  A thread holds at most one reference to an object.            *)
(***************************************************************************)
EXTENDS Integers, FiniteSets

CONSTANTS Threads, Objects

ASSUME ThreadsAssumption == IsFiniteSet(Threads)

VARIABLES life,          \* "none", "alive" or "freed", per object
          m_cRef,        \* the object's count
          refs,          \* the threads that hold a reference to it
          g_cRefModule,  \* the objects constructed and not destroyed
          pc, method, on \* per thread: its step, its method and its object

vars == <<life, m_cRef, refs, g_cRefModule, pc, method, on>>

Methods == {"Release_good", "Release_bad"}
Steps == {"idle", "assert", "decrement", "destroy", "free", "return"}

Init ==
  /\ life = [o \in Objects |-> "none"]
  /\ m_cRef = [o \in Objects |-> 0]
  /\ refs = [o \in Objects |-> {}]
  /\ g_cRefModule = 0
  /\ pc = [t \in Threads |-> "idle"]
  /\ method \in [Threads -> Methods] /\ on \in [Threads -> Objects]

\* The constructor and DllAddRef: the creator has the first reference.
CObject(t, o) ==
  /\ pc[t] = "idle" /\ life[o] = "none"
  /\ life' = [life EXCEPT ![o] = "alive"]
  /\ m_cRef' = [m_cRef EXCEPT ![o] = 1]
  /\ refs' = [refs EXCEPT ![o] = {t}]
  /\ g_cRefModule' = g_cRefModule + 1
  /\ UNCHANGED <<pc, method, on>>

\* A thread with a reference takes one for another thread.
AddRef(t, u, o) ==
  /\ pc[t] = "idle" /\ t \in refs[o] /\ u \notin refs[o]
  /\ m_cRef' = [m_cRef EXCEPT ![o] = @ + 1]
  /\ refs' = [refs EXCEPT ![o] = @ \cup {u}]
  /\ UNCHANGED <<life, g_cRefModule, pc, method, on>>

\* A thread gives its reference up with one of the two methods.  Only
\* Release_good starts with an assertion.
Release(t, m, o) ==
  /\ pc[t] = "idle" /\ t \in refs[o]
  /\ pc' = [pc EXCEPT ![t] =
              IF m = "Release_good" THEN "assert" ELSE "decrement"]
  /\ method' = [method EXCEPT ![t] = m]
  /\ on' = [on EXCEPT ![t] = o]
  /\ UNCHANGED <<life, m_cRef, refs, g_cRefModule>>

\* ASSERT(0 != m_cRef) stops the thread when it fails.
AssertNonzero(t) ==
  /\ pc[t] = "assert" /\ m_cRef[on[t]] # 0
  /\ pc' = [pc EXCEPT ![t] = "decrement"]
  /\ UNCHANGED <<life, m_cRef, refs, g_cRefModule, method, on>>

\* Mutant: the object is deleted with one reference left.
DecrementEarly(t) ==
  /\ pc[t] = "decrement"
  /\ m_cRef' = [m_cRef EXCEPT ![on[t]] = @ - 1]
  /\ refs' = [refs EXCEPT ![on[t]] = @ \ {t}]
  /\ pc' = [pc EXCEPT ![t] =
              IF m_cRef'[on[t]] <= 1 THEN "destroy" ELSE "return"]
  /\ UNCHANGED <<life, g_cRefModule, method, on>>

\* Mutant: the reference is counted off twice.
DecrementTwice(t) ==
  /\ pc[t] = "decrement"
  /\ m_cRef' = [m_cRef EXCEPT ![on[t]] = @ - 2]
  /\ refs' = [refs EXCEPT ![on[t]] = @ \ {t}]
  /\ pc' = [pc EXCEPT ![t] =
              IF m_cRef'[on[t]] = 0 THEN "destroy" ELSE "return"]
  /\ UNCHANGED <<life, g_cRefModule, method, on>>

\* Mutant: the branch looks at the count before the decrement.
DecrementLate(t) ==
  /\ pc[t] = "decrement"
  /\ m_cRef' = [m_cRef EXCEPT ![on[t]] = @ - 1]
  /\ refs' = [refs EXCEPT ![on[t]] = @ \ {t}]
  /\ pc' = [pc EXCEPT ![t] =
              IF m_cRef[on[t]] = 0 THEN "destroy" ELSE "return"]
  /\ UNCHANGED <<life, g_cRefModule, method, on>>

\* InterlockedDecrement and the branch on the value it returns.
Decrement(t) ==
  /\ pc[t] = "decrement"
  /\ m_cRef' = [m_cRef EXCEPT ![on[t]] = @ - 1]
  /\ refs' = [refs EXCEPT ![on[t]] = @ \ {t}]
  /\ pc' = [pc EXCEPT ![t] =
              IF m_cRef'[on[t]] = 0 THEN "destroy" ELSE "return"]
  /\ UNCHANGED <<life, g_cRefModule, method, on>>

\* delete this: the destructor, which calls DllRelease, then the memory.
Destroy(t) ==
  /\ pc[t] = "destroy"
  /\ g_cRefModule' = g_cRefModule - 1
  /\ pc' = [pc EXCEPT ![t] = "free"]
  /\ UNCHANGED <<life, m_cRef, refs, method, on>>

Free(t) ==
  /\ pc[t] = "free"
  /\ life' = [life EXCEPT ![on[t]] = "freed"]
  /\ pc' = [pc EXCEPT ![t] = "idle"]
  /\ UNCHANGED <<m_cRef, refs, g_cRefModule, method, on>>

\* Release_good returns its local cRef, Release_bad reads the object again;
\* what is read is not used here.
Return(t) ==
  /\ pc[t] = "return"
  /\ pc' = [pc EXCEPT ![t] = "idle"]
  /\ UNCHANGED <<life, m_cRef, refs, g_cRefModule, method, on>>

Step(t) ==
  AssertNonzero(t) \/ Decrement(t) \/ Destroy(t) \/ Free(t) \/ Return(t)
Next ==
  \E t \in Threads :
    \/ Step(t)
    \/ \E o \in Objects : CObject(t, o)
    \/ \E u \in Threads, o \in Objects : AddRef(t, u, o)
    \/ \E m \in Methods, o \in Objects : Release(t, m, o)

Spec == Init /\ [][Next]_vars
\* A thread inside Release is scheduled again.
FairSpec == Spec /\ \A t \in Threads : WF_vars(Step(t))

-----------------------------------------------------------------------------
(* MultithreadedAVCondition.ql, on the three blocks of a method.           *)
Block(s) ==
  CASE s \in {"assert", "decrement"} -> "entry"
    [] s \in {"destroy", "free"}     -> "delete"
    [] s \in {"idle", "return"}      -> "return"

\* The blocks from which a block can be reached, itself included.
getAPredecessors(b) == {"entry", b}

\* The blocks of a method that access m_cRef.
PointerFieldAccess(m) ==
  IF m = "Release_good" THEN {"entry"} ELSE {"entry", "return"}

\* Mutant: only what follows the delete in the same thread.
AfterDelete(m, b) ==
  /\ b \in PointerFieldAccess(m)
  /\ "delete" \in getAPredecessors(b) \ {b}

MultithreadedAVCondition(m, b) ==
  /\ b \in PointerFieldAccess(m)
  /\ b # "delete" /\ b \notin getAPredecessors("delete")
  /\ getAPredecessors("delete") \cap getAPredecessors(b) # {}

-----------------------------------------------------------------------------
TypeOK ==
  /\ life \in [Objects -> {"none", "alive", "freed"}]
  /\ m_cRef \in [Objects -> Nat]
  /\ refs \in [Objects -> SUBSET Threads]
  /\ g_cRefModule \in Int
  /\ pc \in [Threads -> Steps]
  /\ method \in [Threads -> Methods] /\ on \in [Threads -> Objects]

Deleting(t, o) == pc[t] \in {"destroy", "free"} /\ on[t] = o
Accesses(t) == Block(pc[t]) \in PointerFieldAccess(method[t]) /\ pc[t] # "idle"

\* A live object without references is being deleted, by one thread only,
\* and no other object is, whatever mixture of the two methods the threads
\* call.
LastReleaseDeletes ==
  \A o \in Objects :
    /\ life[o] = "alive" /\ refs[o] = {} <=> \E t \in Threads : Deleting(t, o)
    /\ \A t, u \in Threads : Deleting(t, o) /\ Deleting(u, o) => t = u

\* "There should be no access to a reference-counted object after the
\* reference count is at zero" (MultithreadedAVCondition.ql): a method about to
\* access an object that another thread has freed is reported there.
AccessAfterFreeReported ==
  \A t \in Threads :
    Accesses(t) /\ life[on[t]] = "freed" =>
      MultithreadedAVCondition(method[t], Block(pc[t]))

\* Release_good never reads an object that is deleted or being deleted, and
\* its assertion never fails.
GoodReleaseSafe ==
  \A t \in Threads :
    method[t] = "Release_good" /\ Accesses(t) =>
      life[on[t]] = "alive" /\ m_cRef[on[t]] # 0

\* An object whose last reference is given up is freed in the end.
UnreferencedIsFreed ==
  \A o \in Objects :
    (life[o] = "alive" /\ refs[o] = {}) ~> (life[o] = "freed")
=============================================================================
