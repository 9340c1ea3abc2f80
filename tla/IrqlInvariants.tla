---------------------------- MODULE IrqlInvariants ----------------------------
(***************************************************************************)
(* The inductive invariant behind IrqlSoundness.  That the IRQL at a node  *)
(* is listed there is not inductive: after a restore it depends on the     *)
(* level that was saved, and after a return on the function returned from. *)
(***************************************************************************)
EXTENDS IrqlSoundness

\* Every level in sv was saved by a call that is still in place at n, and is
\* one the analysis lists before that call.
SavedFrom(p, pot, n, sv) ==
  \A x \in Locations(p) : sv[x] # NoValue =>
    \E s \in p.reach[n] :
      p.loc[s] = x /\ \E m \in getAPredecessor(p, s) : sv[x] \in pot[m]

\* The function running above frame i of the stack.
RunningAbove(p, st, n, i) ==
  IF i = Len(st) THEN p.scope[n] ELSE p.scope[st[i + 1].node]

\* Every frame is a call of the function above it, with the caller's saves.
Called(p, pot, st, n) ==
  \A i \in 1 .. Len(st) :
    /\ Class(p, st[i].node) = "FunctionCall"
    /\ Target(p, st[i].node) = RunningAbove(p, st, n, i)
    /\ SavedFrom(p, pot, st[i].node, st[i].saved)

\* The analysis has followed the thread to where it is.
Followed ==
  /\ Saturated(prog, potential)
  /\ irql \in potential[at]
  /\ SavedFrom(prog, potential, at, saved)
  /\ Called(prog, potential, stack, at)

AnalysisInv ==
  /\ IsDatabase(prog) /\ Idle \notin Nodes(prog)
  /\ TypeOK
  /\ at = Idle => stack = <<>> /\ saved = NothingSaved(prog)
  /\ WellFormed(prog) /\ at # Idle => Followed
=============================================================================
