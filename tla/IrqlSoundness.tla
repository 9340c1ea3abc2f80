---------------------------- MODULE IrqlSoundness ----------------------------
(***************************************************************************)
(* What the analysis promises about executions, and for which databases.   *)
(***************************************************************************)
EXTENDS IrqlExecution

\* The data flow library misses no save that is still in place, in the
\* function or through the variables passed to and from another one.
FlowComplete(p) ==
  \A n \in Nodes(p) :
    /\ Callee(p, n) \in DOMAIN p.entry =>
         /\ \A m \in getAPredecessor(p, n) : \A s \in p.reach[m] :
              p.loc[s] \in p.shared[n] => s \in p.reach[p.entry[Callee(p, n)]]
         /\ \A m \in p.exit[Callee(p, n)] : \A s \in p.reach[m] :
              p.loc[s] \in p.shared[n] => s \in p.reach[n]
    /\ Saves(p, n) => n \in p.reach[n]
    /\ \A m \in getAPredecessor(p, n) : \A s \in p.reach[m] :
         s \in p.reach[n] \/ (Saves(p, n) /\ p.loc[s] = p.loc[n])

\* The saves whose level the analysis assigns to the restoring call n.
RestoredFrom(p, n) ==
  CASE Class(p, n) = "KeLowerIrqlCall" ->
         getMostRecentRaiseInterprocedural(p, n)
    [] Class(p, n) = "RestoresGlobalIrqlCall" -> getMostRecentGlobalSave(p, n)
    [] OTHER -> getMostRecentSave(p, n)

\* No save that n may really restore from is overlooked by the matching.
Paired(p, n) ==
  \A m \in getAPredecessor(p, n) : \A s \in p.reach[m] :
    p.loc[s] = p.loc[n] => s \in RestoredFrom(p, n)

\* The drivers the analysis can follow: every call is of an annotated kernel
\* function or of an unannotated function with a body, none is through a
\* pointer, raises name their level, restores are paired with their saves,
\* calls taken for dead are dead, entry annotations could be evaluated, and a
\* lower bound above DISPATCH_LEVEL is not masked by an annotation of higher
\* priority.
Analysable(p) ==
  /\ \A n \in Nodes(p) : FunctionCall(p, n) =>
       /\ (Class(p, n) = "FunctionCall") <=> TargetFacts(p, n).body
       /\ Class(p, n) = "FunctionCall" => ~Saves(p, n)
       /\ Restores(p, n) => Paired(p, n) /\ p.level[n] = Unparsed
       /\ KeRaiseIrqlCall(p, n) => RaiseLevel(p, n) # {}
  /\ \A n \in Nodes(p) : p.pointer[n] = NoFunction
  /\ p.constantFalse \subseteq p.dead
  /\ \A f \in DOMAIN p.entry :
       /\ \A kind \in LevelKinds : Unparsed \notin p.fn[f][kind]
       /\ (\E w \in Lowers(p.fn[f]) : w > DISPATCH_LEVEL) =>
            \E w \in hasLowerBound(p.fn[f]) : w > DISPATCH_LEVEL

WellFormed(p) == FlowComplete(p) /\ Analysable(p)

-----------------------------------------------------------------------------
TypeOK ==
  /\ potential \in [Nodes(prog) -> SUBSET Levels]
  /\ at \in Nodes(prog) \cup {Idle} /\ irql \in IrqlValue
  /\ saved \in [Locations(prog) -> IrqlValue \cup {NoValue}]
  /\ stack \in Seq([node : Nodes(prog),
                    saved : [Locations(prog) -> IrqlValue \cup {NoValue}]])

\* What the queries see at the thread's node, and of the call n ahead of it.
PotentialHere == getPotentialExitIrqlAtCfn(prog, potential, at)
CallReported(n) ==
  IrqlTooHigh(prog, potential, n, at) \/ IrqlTooLow(prog, potential, n, at)

\* "the IRQL once this control flow node exits" (getPotentialExitIrqlAtCfn):
\* whatever path a thread takes through branches, loops, calls and
\* save/restore pairs, the IRQL it has at a node is one the analysis lists.
Sound == at # Idle => irql \in PotentialHere \/ ~WellFormed(prog)

\* The call n, made at level l, breaks an annotation of its target.
Breaks(n, l) ==
  \/ \E r \in Ceilings(prog, n) : l > r
  \/ \E r \in Floors(prog, n) : l < r

\* IrqlTooHigh, IrqlTooLow and IrqlLoweredImproperly: no false alarm.  A
\* thread about to make a call these queries report is really at a level the
\* callee forbids.
AlertsAreReal ==
  \/ \A n \in Successors :
       /\ CallReported(n) => Breaks(n, irql)
       /\ IrqlLoweredImproperly(prog, potential, n, at) =>
            \E l \in RaiseLevel(prog, n) : irql > l
  \/ ~WellFormed(prog)

\* No missed violation where the analysis is certain: if it knows a single
\* level at a node, every breaking call made from there is reported.
CertainBreaksReported ==
  \/ \A n \in Successors :
       /\ FunctionCall(prog, n) /\ Breaks(n, irql)
       /\ PotentialHere \in {{l} : l \in Levels}
       => CallReported(n)
  \/ ~WellFormed(prog)

\* IrqlSetTooHigh and IrqlSetTooLow: a reported node really runs outside the
\* range its function is annotated to keep to.
SetAlertsAreReal ==
  at # Idle =>
    LET f == prog.fn[prog.scope[at]] IN
      \/ /\ IrqlSetTooHigh(prog, potential, at) =>
              \E r \in RaiseCeilings(f) : irql > r
         /\ IrqlSetTooLow(prog, potential, at) =>
              \E r \in f.alwaysMin : irql < r
      \/ ~WellFormed(prog)

\* "If calling a function annotated to restore the IRQL from a previously
\* saved spot, then the result is the IRQL before that save call."
RestoreYieldsSavedLevel ==
  at # Idle /\ Restores(prog, at) => irql \in PotentialHere
=============================================================================
