------------------------------ MODULE UserBuffer ------------------------------
(***************************************************************************)
(* A driver routine reading buffers that a user-mode program shares with   *)
(* it, while that program runs, and what the queries                       *)
(* UserModeMemoryOutsideTry and UserModeMemoryReadMultipleTimes of         *)
(* src/microsoft say of the routine.                                       *)
(***************************************************************************)
EXTENDS Integers, Sequences

CONSTANTS Routines,   \* the routines considered: sequences of reads
          Helpers,    \* functions of the driver that read their argument once
          Contents,   \* what a buffer may hold
          NotRead     \* no value read yet

\* Where a pointer comes from: fields of the IRP and its stack location, a
\* pointer found in the system buffer, the mapping of an MDL, a parameter of a
\* system call, or nowhere.
Origins ==
  {"Type3InputBuffer", "UserBuffer", "SystemBuffer", "Nested", "Mdl",
   "Parameter", "Null"}

\* Where a read's dereference is: in the routine itself; in a function without
\* a definition that the analysis knows to read its argument, such as memcpy,
\* or in one it does not know; or in a function of the driver.
Undefined == {"memcpy", "unknown"}
Places == {"here"} \cup Undefined \cup Helpers

\* A read: of which buffer, through which variable, where, and whether the
\* statement of the routine is inside a __try.
Reads ==
  [origin : Origins, variable : STRING, place : Places, try : BOOLEAN]
Deref(o, v) == [origin |-> o, variable |-> v, place |-> "here", try |-> FALSE]
Read(o, v) == [Deref(o, v) EXCEPT !.place = "Read"]
Try(r) == [r EXCEPT !.try = TRUE]

ASSUME HelpersAssumption == Helpers \cap ({"here"} \cup Undefined) = {}
ASSUME RoutinesAssumption == Routines \subseteq Seq(Reads)
ASSUME NotReadAssumption == NotRead \notin Contents

VARIABLES routine,  \* the routine that runs
          pc,       \* its next read
          status,   \* "running", "done", "raised" or "faulted"
          mapped,   \* which buffers are mapped
          content,  \* what they hold
          got       \* what each read returned

vars == <<routine, pc, status, mapped, content, got>>

\* What the program can do to the memory behind each origin.  The system
\* buffer is a copy; an MDL locks the pages but shares them.
UserCanUnmap == {"Type3InputBuffer", "UserBuffer", "Nested", "Parameter"}
UserCanWrite == UserCanUnmap \cup {"Mdl"}

\* The buffers handed to the routine; what happens to others has no effect.
Handed == {routine[i].origin : i \in 1 .. Len(routine)}

Init ==
  /\ routine \in Routines
  /\ pc = 1 /\ status = "running"
  /\ mapped = [o \in Origins |-> o # "Null"]
  /\ \E c \in Contents : content = [o \in Origins |-> c]
  /\ got = [i \in 1 .. Len(routine) |-> NotRead]

Running == status = "running" /\ pc <= Len(routine)
Now == routine[pc]

\* Mutant: a read is skipped.
FetchTwo ==
  /\ Running /\ mapped[Now.origin]
  /\ got' = [got EXCEPT ![pc] = content[Now.origin]]
  /\ pc' = pc + 2
  /\ UNCHANGED <<routine, status, mapped, content>>

Fetch ==
  /\ Running /\ mapped[Now.origin]
  /\ got' = [got EXCEPT ![pc] = content[Now.origin]]
  /\ pc' = pc + 1
  /\ UNCHANGED <<routine, status, mapped, content>>

\* An access violation is handled by an enclosing __try, whose handler raises
\* it again with ExRaiseAccessViolation; without one it stops the system.
Fault ==
  /\ Running /\ ~mapped[Now.origin]
  /\ status' = IF Now.try THEN "raised" ELSE "faulted"
  /\ UNCHANGED <<routine, pc, mapped, content, got>>

Finish ==
  /\ status = "running" /\ pc > Len(routine)
  /\ status' = "done"
  /\ UNCHANGED <<routine, pc, mapped, content, got>>

UserUnmaps ==
  /\ \E o \in UserCanUnmap \cap Handed :
       mapped[o] /\ mapped' = [mapped EXCEPT ![o] = FALSE]
  /\ UNCHANGED <<routine, pc, status, content, got>>

UserWrites ==
  /\ \E o \in UserCanWrite \cap Handed, c \in Contents :
       content' = [content EXCEPT ![o] = c]
  /\ UNCHANGED <<routine, pc, status, mapped, got>>

Driver == Fetch \/ Fault \/ Finish
Next == Driver \/ UserUnmaps \/ UserWrites

Spec == Init /\ [][Next]_vars

-----------------------------------------------------------------------------
(* MemoryOrigins.qll: MdlOrigin keeps the defaults of DirectMemoryOrigin.  *)
IRPUserOrigins == {"Type3InputBuffer", "UserBuffer"}
originCanUnmap(o) == o \in IRPUserOrigins \cup {"Parameter", "Nested"}

originCanWrite(o) == o \in IRPUserOrigins \cup {"Parameter", "Nested"}

\* The __try must be around the dereference in its own function.
isInMicrosoftTry(r) == r.try /\ r.place \notin Helpers

\* Mutant: reads in called functions are left to the caller.
UserModeMemoryOutsideTryLocal(r) ==
  originCanUnmap(r.origin) /\ r.place = "here" /\ ~isInMicrosoftTry(r)

\* An argument of a call of a function without a definition is no alert.
UserModeMemoryOutsideTry(r) ==
  /\ originCanUnmap(r.origin)
  /\ ~isInMicrosoftTry(r)
  /\ r.place \notin Undefined

\* Data flows to a dereference in the driver or to an argument known to be one.
isLocalDereference(r) == r.place # "unknown"

\* Two uses of one variable with nothing assigned to it in between.
useUsePair(s, i, j) ==
  /\ i # j
  /\ s[i].variable = s[j].variable /\ s[i].origin = s[j].origin

\* Two calls of one helper reach the same dereference.
sameDereference(s, i, j) ==
  i = j \/ (s[i].place \in Helpers /\ s[i].place = s[j].place)

\* Mutant: dereferences in two functions are not compared.
getAnEquivalentInSameFunction(s, i, j) ==
  /\ s[i].origin = s[j].origin
  /\ s[i].place \notin Helpers /\ s[j].place \notin Helpers /\ i # j

\* Two dereferences of one buffer: in different functions, or one after the
\* other in the routine itself.
getAnEquivalent(s, i, j) ==
  s[i].origin = s[j].origin /\ ~sameDereference(s, i, j)

UserModeMemoryReadMultipleTimes(s, o) ==
  /\ originCanWrite(o)
  /\ \E i, j \in 1 .. Len(s) :
       /\ s[i].origin = o
       /\ isLocalDereference(s[i]) /\ isLocalDereference(s[j])
       /\ useUsePair(s, i, j) /\ getAnEquivalent(s, i, j)

-----------------------------------------------------------------------------
TypeOK ==
  /\ routine \in Seq(Reads)
  /\ pc \in 1 .. Len(routine) + 1
  /\ status \in {"running", "done", "raised", "faulted"}
  /\ mapped \in [Origins -> BOOLEAN]
  /\ content \in [Origins -> Contents]
  /\ got \in [1 .. Len(routine) -> Contents \cup {NotRead}]

\* UserModeMemoryOutsideTry: whenever the program unmaps a buffer at the wrong
\* moment and the exception is not handled, the read that faulted is one the
\* query reports, if it is a read of the driver's own code: the query leaves
\* out what a function without a definition reads (memcpy outside a __try).
UnhandledFaultReported ==
  status = "faulted" /\ Now.origin # "Null" /\ Now.place \notin Undefined =>
    UserModeMemoryOutsideTry(Now)

\* UserModeMemoryReadMultipleTimes: if two reads of a buffer through one
\* variable return different contents, because the program wrote to it in
\* between, the query reports the buffer, unless it comes from an MDL.  Each
\* read is a dereference of its own: of two calls of one helper, which make
\* the same one, the query says nothing, nor of a read inside a function
\* without a definition that the analysis does not know.
Disagree(i, j) ==
  /\ useUsePair(routine, i, j)
  /\ got[i] # NotRead /\ got[j] # NotRead /\ got[i] # got[j]
Comparable(i, j) ==
  /\ routine[i].origin # "Mdl"
  /\ routine[i].place # "unknown" /\ routine[j].place # "unknown"
  /\ routine[i].place \in Helpers => routine[j].place # routine[i].place
DisagreementReported ==
  \A i, j \in 1 .. Len(routine) :
    Disagree(i, j) /\ Comparable(i, j) =>
      UserModeMemoryReadMultipleTimes(routine, routine[i].origin)
=============================================================================
