--------------------------- MODULE UserBufferProofs ---------------------------
(***************************************************************************)
(* For every set of routines: what the queries on user-mode memory promise *)
(* holds whatever the program does while the routine runs.                 *)
(***************************************************************************)
EXTENDS UserBuffer, TLAPS

\* A buffer is unmapped only if the program can unmap it; a buffer the program
\* cannot write to still holds what was read from it; an unhandled fault is at
\* a read of an unmapped buffer outside a __try.
OnlyUserUnmaps ==
  \A o \in Origins : ~mapped[o] => o \in UserCanUnmap \cup {"Null"}
StableUnlessShared ==
  \A i \in 1 .. Len(routine) :
    routine[i].origin \notin UserCanWrite =>
      got[i] \in {NotRead, content[routine[i].origin]}
FaultsAreUnhandled ==
  status = "faulted" =>
    pc <= Len(routine) /\ ~Now.try /\ ~mapped[Now.origin]

BufferInv ==
  TypeOK /\ OnlyUserUnmaps /\ StableUnlessShared /\ FaultsAreUnhandled

\* A read of a routine names one of the origins.
LEMMA ReadFacts ==
  ASSUME NEW s \in Seq(Reads), NEW i \in 1 .. Len(s)
  PROVE  s[i].origin \in Origins /\ s[i].try \in BOOLEAN
<1>1. s[i] \in Reads
  OBVIOUS
<1> QED
  BY <1>1 DEF Reads

\* The initial states satisfy the invariant.
LEMMA BufferInit == Init => BufferInv
<1> SUFFICES ASSUME Init PROVE BufferInv
  OBVIOUS
<1>1. routine \in Seq(Reads)
  BY RoutinesAssumption DEF Init
<1>2. Len(routine) \in Nat
  BY <1>1
<1>3. TypeOK
  BY <1>1, <1>2 DEF Init, TypeOK
<1>4. OnlyUserUnmaps
  BY DEF Init, OnlyUserUnmaps
<1>5. StableUnlessShared
  BY <1>2 DEF Init, StableUnlessShared
<1>6. FaultsAreUnhandled
  BY DEF Init, FaultsAreUnhandled
<1> QED
  BY <1>3, <1>4, <1>5, <1>6 DEF BufferInv

\* Every step of the routine and of the program preserves it.
LEMMA BufferStep == BufferInv /\ [Next]_vars => BufferInv'
<1> SUFFICES ASSUME BufferInv, [Next]_vars PROVE BufferInv'
  OBVIOUS
<1> USE DEF BufferInv
<1>0. /\ routine \in Seq(Reads) /\ Len(routine) \in Nat
      /\ \A i \in 1 .. Len(routine) :
           routine[i].origin \in Origins /\ routine[i].try \in BOOLEAN
  BY ReadFacts DEF TypeOK
<1>1. CASE Fetch
  <2> USE <1>1 DEF Fetch, Running
  <2>1. pc \in 1 .. Len(routine)
    BY <1>0 DEF TypeOK
  <2>2. TypeOK'
    BY <1>0, <2>1 DEF TypeOK, Now
  <2>3. OnlyUserUnmaps'
    BY DEF OnlyUserUnmaps
  <2>4. StableUnlessShared'
    <3> SUFFICES ASSUME NEW i \in 1 .. Len(routine),
                        routine[i].origin \notin UserCanWrite
                 PROVE  got'[i] \in {NotRead, content[routine[i].origin]}
      BY DEF StableUnlessShared
    <3>1. CASE i = pc
      BY <3>1, <2>1 DEF TypeOK, Now
    <3>2. CASE i # pc
      BY <3>2, <2>1 DEF TypeOK, StableUnlessShared
    <3> QED
      BY <3>1, <3>2
  <2>5. FaultsAreUnhandled'
    BY DEF FaultsAreUnhandled
  <2> QED
    BY <2>2, <2>3, <2>4, <2>5
<1>2. CASE Fault
  <2> USE <1>2 DEF Fault, Running
  <2>1. TypeOK'
    BY DEF TypeOK
  <2>2. OnlyUserUnmaps' /\ StableUnlessShared'
    BY DEF OnlyUserUnmaps, StableUnlessShared
  <2>3. FaultsAreUnhandled'
    BY DEF FaultsAreUnhandled, Now
  <2> QED
    BY <2>1, <2>2, <2>3
<1>3. CASE Finish
  BY <1>3 DEF Finish, TypeOK, OnlyUserUnmaps, StableUnlessShared,
              FaultsAreUnhandled
<1>4. CASE UserUnmaps
  <2> USE <1>4 DEF UserUnmaps
  <2>1. PICK o \in UserCanUnmap \cap Handed :
          mapped' = [mapped EXCEPT ![o] = FALSE]
    OBVIOUS
  <2>2. o \in Origins
    BY <1>0 DEF Handed
  <2>3. TypeOK'
    BY <2>1, <2>2 DEF TypeOK
  <2>4. OnlyUserUnmaps'
    BY <2>1, <2>2 DEF OnlyUserUnmaps, TypeOK
  <2>5. StableUnlessShared'
    BY DEF StableUnlessShared
  <2>6. FaultsAreUnhandled'
    <3> SUFFICES ASSUME status = "faulted"
                 PROVE  pc <= Len(routine) /\ ~Now.try /\ ~mapped'[Now.origin]
      BY DEF FaultsAreUnhandled, Now
    <3>1. pc \in 1 .. Len(routine)
      BY <1>0 DEF TypeOK, FaultsAreUnhandled
    <3>2. Now.origin \in Origins
      BY <1>0, <3>1 DEF Now
    <3> QED
      BY <2>1, <2>2, <3>1, <3>2 DEF FaultsAreUnhandled, TypeOK
  <2> QED
    BY <2>3, <2>4, <2>5, <2>6
<1>5. CASE UserWrites
  <2> USE <1>5 DEF UserWrites
  <2>1. PICK o \in UserCanWrite \cap Handed, c \in Contents :
          content' = [content EXCEPT ![o] = c]
    OBVIOUS
  <2>2. TypeOK'
    BY <2>1 DEF TypeOK
  <2>3. OnlyUserUnmaps' /\ FaultsAreUnhandled'
    BY DEF OnlyUserUnmaps, FaultsAreUnhandled, Now
  <2>4. StableUnlessShared'
    <3> SUFFICES ASSUME NEW i \in 1 .. Len(routine),
                        routine[i].origin \notin UserCanWrite
                 PROVE  got[i] \in {NotRead, content'[routine[i].origin]}
      BY DEF StableUnlessShared
    <3>1. content'[routine[i].origin] = content[routine[i].origin]
      BY <1>0, <2>1 DEF TypeOK
    <3> QED
      BY <3>1 DEF StableUnlessShared
  <2> QED
    BY <2>2, <2>3, <2>4
<1>6. CASE UNCHANGED vars
  BY <1>6 DEF vars, TypeOK, OnlyUserUnmaps, StableUnlessShared,
              FaultsAreUnhandled, Now
<1> QED
  BY <1>1, <1>2, <1>3, <1>4, <1>5, <1>6 DEF Next, Driver

\* The invariant holds in every reachable state.
LEMMA BufferInvariant == Spec => []BufferInv
BY BufferInit, BufferStep, PTL DEF Spec

\* An unhandled fault is at a read the query reports.
LEMMA FaultImpliesReport == BufferInv => UnhandledFaultReported
<1> SUFFICES ASSUME BufferInv, status = "faulted", Now.origin # "Null",
                    Now.place \notin Undefined
             PROVE  UserModeMemoryOutsideTry(Now)
  BY DEF UnhandledFaultReported
<1>1. pc \in 1 .. Len(routine) /\ ~Now.try /\ ~mapped[Now.origin]
  BY DEF BufferInv, FaultsAreUnhandled, TypeOK
<1>2. Now.origin \in Origins
  BY <1>1, ReadFacts DEF BufferInv, TypeOK, Now
<1>3. Now.origin \in UserCanUnmap
  BY <1>1, <1>2 DEF BufferInv, OnlyUserUnmaps
<1> QED
  BY <1>1, <1>3 DEF UserModeMemoryOutsideTry, isInMicrosoftTry, originCanUnmap,
                    UserCanUnmap, IRPUserOrigins

\* Two reads that disagree are of a buffer the query reports.
LEMMA DisagreementImpliesReport == BufferInv => DisagreementReported
<1> SUFFICES ASSUME BufferInv,
                    NEW i \in 1 .. Len(routine), NEW j \in 1 .. Len(routine),
                    Disagree(i, j), Comparable(i, j)
             PROVE  UserModeMemoryReadMultipleTimes(routine, routine[i].origin)
  BY DEF DisagreementReported
<1>1. useUsePair(routine, i, j) /\ routine[i].origin = routine[j].origin
  BY DEF Disagree, useUsePair
<1>2. routine[i].origin \in UserCanWrite
  BY <1>1 DEF BufferInv, StableUnlessShared, Disagree
<1>3. originCanWrite(routine[i].origin)
  BY <1>2 DEF originCanWrite, UserCanWrite, UserCanUnmap, IRPUserOrigins,
              Comparable
<1>4. isLocalDereference(routine[i]) /\ isLocalDereference(routine[j])
  BY DEF Comparable, isLocalDereference
<1>5. getAnEquivalent(routine, i, j)
  BY <1>1 DEF getAnEquivalent, sameDereference, useUsePair, Comparable
<1> QED
  BY <1>1, <1>3, <1>4, <1>5 DEF UserModeMemoryReadMultipleTimes

\* Types are respected, for every routine.
THEOREM UserBufferTypeCorrect == Spec => []TypeOK
BY BufferInvariant, PTL DEF BufferInv

\* Whenever the program unmaps a buffer, an unhandled fault is at a read that
\* UserModeMemoryOutsideTry reports, or in a function without a definition.
THEOREM UnhandledFaultsAreReported == Spec => []UnhandledFaultReported
BY BufferInvariant, FaultImpliesReport, PTL

\* Whenever the program writes to a buffer between two reads of it through one
\* variable, and they differ, UserModeMemoryReadMultipleTimes reports it; MDLs,
\* two calls of one helper and reads in unknown functions are left out.
THEOREM DisagreementsAreReported == Spec => []DisagreementReported
BY BufferInvariant, DisagreementImpliesReport, PTL
=============================================================================
