--------------------------- MODULE FloatProtection ---------------------------
(***************************************************************************)
(* A driver function that uses floating point, executed over its basic     *)
(* blocks, and what the queries FloatUnsafeExit, FloatSafeExit and         *)
(* FloatHardwareStateProtection say of it.                                 *)
(***************************************************************************)
EXTENDS Integers, Sequences

CONSTANT Routines   \* the functions considered

\* A statement saves the floating-point state, restores it or uses a float.
\* The status a call returns is ignored, kept in a variable nobody reads, or
\* checked.
Statements ==
  [op : {"save", "restore", "float"}, result : {"unused", "stored", "checked"}]
Save(r) == [op |-> "save", result |-> r]
Restore(r) == [op |-> "restore", result |-> r]
Float == [op |-> "float", result |-> "unused"]

\* A block is left for one of fail after a call that failed, for one of next
\* otherwise; both are the same unless the status is what the branch tests.
Block(body, next) == [body |-> body, next |-> next, fail |-> next]
Test(body, next, fail) == [body |-> body, next |-> next, fail |-> fail]

\* saved: the caller is known to have saved the state.
Routine(annotation, saved, blocks) ==
  [annotation |-> annotation, saved |-> saved, blocks |-> blocks]

Blocks(r) == 1 .. Len(r.blocks)
Successors(r, b) == r.blocks[b].next \cup r.blocks[b].fail

\* Block 1 is the entry, and nothing leads back to it.
IsRoutine(r) ==
  /\ r.annotation \in {"none", "used", "saved", "restored"}
  /\ r.saved \in BOOLEAN
  /\ Len(r.blocks) \in Nat \ {0}
  /\ \A b \in Blocks(r) :
       /\ r.blocks[b].body \in Seq(Statements)
       /\ Successors(r, b) \subseteq Blocks(r) \ {1}

ASSUME RoutinesAssumption == \A r \in Routines : IsRoutine(r)

VARIABLES routine,  \* the function
          block,    \* the block it is in
          at,       \* the next statement of the block
          saved,    \* whether the hardware state is saved
          status,   \* whether the last call succeeded
          called,   \* which of "save" and "restore" has been called
          ignored   \* which of them failed without anyone noticing

vars == <<routine, block, at, saved, status, called, ignored>>

Body == routine.blocks[block].body
Now == Body[at]
More == at <= Len(Body)
Finished == ~More /\ Successors(routine, block) = {}

Init ==
  /\ routine \in Routines
  /\ block = 1 /\ at = 1
  /\ saved \in {FALSE, routine.saved}
  /\ status = TRUE
  /\ called = {} /\ ignored = {}

\* A call of KeSaveFloatingPointState or KeRestoreFloatingPointState, or
\* their Eng counterparts; either may fail and then leaves the state as it is.
CallOf(op) ==
  /\ More /\ Now.op = op
  /\ \E ok \in BOOLEAN :
       /\ status' = ok
       /\ saved' = IF ok THEN op = "save" ELSE saved
       /\ ignored' = IF ok \/ Now.result = "checked" THEN ignored
                                                     ELSE ignored \cup {op}
  /\ called' = called \cup {op}
  /\ at' = at + 1
  /\ UNCHANGED <<routine, block>>

UseFloat ==
  /\ More /\ Now.op = "float"
  /\ at' = at + 1
  /\ UNCHANGED <<routine, block, saved, status, called, ignored>>

\* Mutant: a block is entered before its first statement.
LeaveEarly ==
  /\ ~More
  /\ block' \in IF status THEN routine.blocks[block].next
                          ELSE routine.blocks[block].fail
  /\ at' = 0
  /\ UNCHANGED <<routine, saved, status, called, ignored>>

Leave ==
  /\ ~More
  /\ block' \in IF status THEN routine.blocks[block].next
                          ELSE routine.blocks[block].fail
  /\ at' = 1
  /\ UNCHANGED <<routine, saved, status, called, ignored>>

KeSaveFloatingPointState == CallOf("save")
KeRestoreFloatingPointState == CallOf("restore")
Next ==
  \/ KeSaveFloatingPointState
  \/ KeRestoreFloatingPointState
  \/ UseFloat
  \/ Leave

Spec == Init /\ [][Next]_vars

-----------------------------------------------------------------------------
(* The queries.  getAPredecessor* and getASuccessor* are the least sets     *)
(* that hold the block and are closed under one step.                       *)
ClosedBackward(r, S) ==
  \A b \in Blocks(r) : Successors(r, b) \cap S # {} => b \in S
ClosedForward(r, S) == \A b \in S : Successors(r, b) \subseteq S

Before(r, b) ==
  {c \in Blocks(r) : \A S \in SUBSET Blocks(r) :
                       b \in S /\ ClosedBackward(r, S) => c \in S}
After(r, b) ==
  {c \in Blocks(r) : \A S \in SUBSET Blocks(r) :
                       b \in S /\ ClosedForward(r, S) => c \in S}

Calls(r, b, op) ==
  \E i \in 1 .. Len(r.blocks[b].body) : r.blocks[b].body[i].op = op

\* Mutant: only a status that is dropped at once counts.
unusedVoid(r, op) ==
  \E b \in Blocks(r) : \E i \in 1 .. Len(r.blocks[b].body) :
    /\ r.blocks[b].body[i].op = op
    /\ r.blocks[b].body[i].result = "unused"

\* A call whose status is neither used at once nor read from its variable.
unused(r, op) ==
  \E b \in Blocks(r) : \E i \in 1 .. Len(r.blocks[b].body) :
    /\ r.blocks[b].body[i].op = op
    /\ r.blocks[b].body[i].result # "checked"

\* Mutant: one block from which the call was made is enough.
FloatUnsafeExitSomePath(r) ==
  /\ r.annotation = "saved"
  /\ \/ \A b \in Blocks(r) : ~\E c \in Before(r, b) : Calls(r, c, "save")
     \/ unused(r, "save")

FloatUnsafeExit(r) ==
  /\ r.annotation = "saved"
  /\ \/ \E b \in Blocks(r) : ~\E c \in Before(r, b) : Calls(r, c, "save")
     \/ unused(r, "save")

\* Mutant: one block from which the call can be reached is enough.
FloatSafeExitSomePath(r) ==
  /\ r.annotation = "restored"
  /\ \/ \A b \in Blocks(r) : ~\E c \in After(r, b) : Calls(r, c, "restore")
     \/ unused(r, "restore")

FloatSafeExit(r) ==
  /\ r.annotation = "restored"
  /\ \/ \E b \in Blocks(r) : ~\E c \in After(r, b) : Calls(r, c, "restore")
     \/ unused(r, "restore")

\* Mutant: the save must be in the block of the float.
FloatHardwareStateProtectionLocal(r, b) == ~r.saved /\ ~Calls(r, b, "save")

\* The floats of a block.  _Kernel_float_used_ exempts a function only in a
\* file that itself includes wdf.h; a snippet includes nothing.
FloatHardwareStateProtection(r, b) ==
  ~r.saved /\ ~\E c \in Before(r, b) : Calls(r, c, "save")

-----------------------------------------------------------------------------
TypeOK ==
  /\ IsRoutine(routine)
  /\ block \in Blocks(routine)
  /\ at \in 1 .. Len(Body) + 1
  /\ saved \in BOOLEAN /\ status \in BOOLEAN
  /\ called \subseteq {"save", "restore"}
  /\ ignored \subseteq {"save", "restore"}

\* FloatUnsafeExit: when a function annotated _Kernel_float_saved_ ends, it
\* has called a save function on the path it took and no failure of it went
\* unnoticed, or it is reported.
SavedOrReported ==
  Finished /\ routine.annotation = "saved" =>
    FloatUnsafeExit(routine) \/ ("save" \in called /\ "save" \notin ignored)

\* FloatSafeExit: when a function annotated _Kernel_float_restored_ ends, it
\* has called a restore function and noticed its failures, or it is reported.
RestoredOrReported ==
  Finished /\ routine.annotation = "restored" =>
    \/ FloatSafeExit(routine)
    \/ "restore" \in called /\ "restore" \notin ignored

\* FloatHardwareStateProtection: no float that is reported is executed with
\* the state saved, whatever path led to it.
FloatAlertsAreReal ==
  More /\ Now.op = "float" /\ FloatHardwareStateProtection(routine, block) =>
    ~saved
=============================================================================
