-------------------------- MODULE ContractInvariants --------------------------
(***************************************************************************)
(* The inductive invariant behind the contract queries: what the analysis  *)
(* knows of every function that is running, not only of the one on top.    *)
(***************************************************************************)
EXTENDS IrqlContracts, IrqlInvariants

\* The functions running, from the routine the system entered; the levels they
\* were entered at are in entered.  The level of each is the one at which it
\* called the next, and the current one for the last.
Running(i) == RunningAbove(prog, stack, at, i - 1)
LevelIn(i) == IF i = Len(stack) + 1 THEN irql ELSE entered[i + 1]

\* A call of f may change the IRQL, as isIrqlChangingCall sees it, or by a
\* restore from a parameter, which it does not see.
RestoresParameter(f) ==
  \E n \in Nodes(prog) :
    prog.scope[n] \in prog.calls[f] /\ Class(prog, n) = "IrqlRestoreCall"
MayChange(f) ==
  (\E n \in Calls(prog, f) : isIrqlChangingCall(prog, n)) \/ RestoresParameter(f)

\* A level outside the range f's annotations promise.
OutOfRange(f, l) ==
  \/ \E r \in RaiseCeilings(prog.fn[f]) \ {Unparsed} : l > r
  \/ \E r \in prog.fn[f].alwaysMin : l < r

\* At no node of f, and before none, does the analysis list levels both inside
\* and outside a bound f promises to keep.
Decided(f) ==
  \A n \in Nodes(prog) : prog.scope[n] = f =>
    \A S \in {getPotentialExitIrqlAtCfn(prog, potential, n),
              LevelsBefore(prog, potential, n)} : \A l, k \in S :
      /\ \A r \in RaiseCeilings(prog.fn[f]) \ {Unparsed} : l > r => k > r
      /\ \A r \in prog.fn[f].alwaysMin : l < r => k < r

\* The function number i was entered at a level the analysis lists, is at that
\* level unless it may change it, has called the next one from a level the
\* analysis lists, and, where it is decided, has not left its range unreported.
FrameInv(i) ==
  /\ Running(i) \in DOMAIN prog.entry
  /\ entered[i] \in potential[prog.entry[Running(i)]]
  /\ LevelIn(i) # entered[i] => MayChange(Running(i))
  /\ i <= Len(stack) =>
       \E m \in getAPredecessor(prog, stack[i].node) :
         m \in Nodes(prog) /\ entered[i + 1] \in potential[m]
  /\ Decided(Running(i)) /\ OutOfRange(Running(i), LevelIn(i)) =>
       RangeReported(Running(i))

\* The calls that led to function number i all pass x on.
Held(x, i) == \A j \in 1 .. i - 1 : x \in prog.shared[stack[j].node]

\* What function number i finds saved.
SavedAt(i) == IF i = Len(stack) + 1 THEN saved ELSE stack[i].saved

\* Where f's annotated parameter x has been passed to, it flows to; and if an
\* IRQL is saved there, a kernel function called with it saves one.
SavedFrame(f, x, i) ==
  Held(x, i) =>
    /\ Running(i) \in prog.flow[f]
    /\ x \in Locations(prog) /\ SavedAt(i)[x] # NoValue =>
         \E n \in KernelUses(prog, f) : Saves(prog, n)
SavedInv ==
  \A i \in 1 .. Len(stack) + 1 :
    SavedFrame(Running(1), prog.parameter[Running(1)], i)

HistoryInv ==
  /\ entered \in Seq(IrqlValue)
  /\ Len(entered) = IF at = Idle THEN 0 ELSE Len(stack) + 1
  /\ WellFormed(prog) /\ at # Idle =>
       SavedInv /\ \A i \in 1 .. Len(stack) + 1 : FrameInv(i)

ContractInv == AnalysisInv /\ IsContractDatabase(prog) /\ HistoryInv

-----------------------------------------------------------------------------
(* Floating-point states that are saved and restored in one function.      *)

\* The calls that save the floating-point state at x.
FloatSaves(x) ==
  {s \in CallsOf(prog, "KeSaveFloatingPointState") : prog.loc[s] = x}

\* The nodes of f that a path from its entry reaches without a save at x.
Unsaved(f, x) ==
  LET own == {n \in Nodes(prog) : prog.scope[n] = f}
      Holds(S) == /\ prog.entry[f] \in S
                  /\ \A e \in prog.edge : 
                       e[1] \in S => e[2] \in S \cup FloatSaves(x)
  IN  {n \in own : \A S \in SUBSET own : Holds(S) => n \in S}

\* Only f saves the floating-point state at x, no activation of f runs inside
\* another one, saving changes no IRQL, nothing f runs restores the IRQL from a
\* parameter, and the data flow library follows the state along every path of f.
FloatLocal(f, x) ==
  /\ "KeSaveFloatingPointState" \in DOMAIN prog.entry
  /\ ~RestoresParameter(f)
  /\ \A c \in Calls(prog, f) : f \notin prog.calls[Target(prog, c)]
  /\ \A s \in FloatSaves(x) :
       prog.scope[s] = f /\ s \in prog.reach[s] /\ ~isIrqlChangingCall(prog, s)
  /\ \A e \in prog.edge : prog.scope[e[1]] = f =>
       /\ prog.reach[e[1]] \cap FloatSaves(x) \subseteq prog.reach[e[2]]
       /\ prog.ancestors[e[1]] \cup {e[2]} \subseteq prog.ancestors[e[2]]

\* On a path from a to b, both in f, the call c stands between them in the
\* source, or in a loop with both of them.
StandsBetween(a, c, b) ==
  \/ prog.order[a] <= prog.order[c] /\ prog.order[c] <= prog.order[b]
  \/ \E body \in prog.loops : {a, c, b} \subseteq body

\* The restore n has a save before it on every path, in its own function, and
\* what runs between them is between them in the source.
RestoredLocally(n) ==
  LET f == prog.scope[n] x == prog.loc[n] IN
    /\ FloatLocal(f, x)
    /\ ~isIrqlChangingCall(prog, n)
    /\ getAPredecessor(prog, n) \cap Unsaved(f, x) = {}
    /\ \A s \in FloatSaves(x) : \A mid \in Calls(prog, f) \ {s, n} :
         s \in prog.ancestors[mid] /\ mid \in prog.ancestors[n] =>
           StandsBetween(s, mid, n)

\* At m in f, at level l, with v the last level saved at x: nothing was saved
\* there since f was entered, or v is a level the analysis lists before a save
\* that flows to m; if v is not l, a call that changes the IRQL was passed
\* since.
FloatAt(f, x, m, l, v) ==
  \/ m \in Unsaved(f, x)
  \/ \E s \in FloatSaves(x) \cap prog.reach[m] \cap prog.ancestors[m] :
       /\ \E k \in getAPredecessor(prog, s) : v \in potential[k]
       /\ l # v =>
            \E mid \in Calls(prog, f) :
              /\ isIrqlChangingCall(prog, mid)
              /\ s \in prog.ancestors[mid] /\ mid \in prog.ancestors[m]

\* The call n made at level l is a save in progress, or was reached with the
\* state at x known.
FloatBelow(n, x, l, v) ==
  IF n \in FloatSaves(x) THEN v = l
  ELSE \E m \in getAPredecessor(prog, n) : FloatAt(prog.scope[n], x, m, l, v)

\* Whatever runs above a call is reached from the function called.
Nested ==
  \A i \in 1 .. Len(stack) : \A j \in i .. Len(stack) :
    prog.calls[Target(prog, stack[j].node)] \subseteq
      prog.calls[Target(prog, stack[i].node)]

FloatInv ==
  /\ float \in [Locations(prog) -> IrqlValue \cup {NoValue}]
  /\ WellFormed(prog) /\ at # Idle =>
       /\ Nested
       /\ \A x \in Locations(prog) :
            /\ FloatLocal(Here, x) => FloatAt(Here, x, at, irql, float[x])
            /\ \A i \in 1 .. Len(stack) :
                 FloatLocal(prog.scope[stack[i].node], x) =>
                   FloatBelow(stack[i].node, x, entered[i + 1], float[x])

-----------------------------------------------------------------------------
(* Floating-point states that a routine saves and restores with helpers.   *)

\* The data flow library misses no save at x, in a function or through the
\* variables passed to and from another one.
FloatFlowComplete(x) ==
  \A n \in Nodes(prog) :
    /\ n \in FloatSaves(x) => n \in prog.reach[n]
    /\ \A m \in getAPredecessor(prog, n) :
         prog.reach[m] \cap FloatSaves(x) \subseteq prog.reach[n]
    /\ Callee(prog, n) \in DOMAIN prog.entry /\ x \in prog.shared[n] =>
         /\ \A m \in getAPredecessor(prog, n) :
              prog.reach[m] \cap FloatSaves(x) \subseteq
                prog.reach[prog.entry[Callee(prog, n)]]
         /\ \A m \in prog.exit[Callee(prog, n)] :
              prog.reach[m] \cap FloatSaves(x) \subseteq prog.reach[n]

\* h is called in f only, and is passed x.
HelperOf(f, x, h) ==
  \A c \in Nodes(prog) :
    Target(prog, c) = h => prog.scope[c] = f /\ x \in prog.shared[c]

\* The calls in f that stand for n.
Sites(f, n) ==
  IF prog.scope[n] = f THEN {n}
  ELSE {c \in Calls(prog, f) : Target(prog, c) = prog.scope[n]}

\* The system calls f, which saves the state at x itself or in a helper.
FloatHome(f, x) ==
  /\ "KeSaveFloatingPointState" \in DOMAIN prog.entry
  /\ f \in EntryPoints(prog) /\ ~RestoresParameter(f)
  /\ FloatFlowComplete(x)
  /\ \A e \in prog.edge : prog.scope[e[1]] = f =>
       prog.ancestors[e[1]] \cup {e[2]} \subseteq prog.ancestors[e[2]]
  /\ \A s \in FloatSaves(x) :
       /\ ~isIrqlChangingCall(prog, s)
       /\ prog.scope[s] # f => HelperOf(f, x, prog.scope[s])

\* f or a helper restores at n, and what runs between the calls in f that stand
\* for the save and for n is between them in the source.
RestoredAtHome(f, n) ==
  LET x == prog.loc[n] IN
    /\ FloatHome(f, x)
    /\ ~isIrqlChangingCall(prog, n)
    /\ prog.scope[n] # f =>
         /\ HelperOf(f, x, prog.scope[n])
         /\ prog.scope[n] # "KeSaveFloatingPointState"
    /\ \A s \in FloatSaves(x), mid \in Calls(prog, f) :
         \A c \in Sites(f, s), e \in Sites(f, n) :
           /\ isIrqlChangingCall(prog, mid)
           /\ c \in prog.ancestors[mid] /\ mid \in prog.ancestors[e]
           => \/ prog.order[c] <= prog.order[mid] /\ prog.order[mid] <= prog.order[e]
              \/ c = s /\ e = n /\ StandsBetween(s, mid, n)

\* The save s, made at v, flows to m in f, where the level is l; if that is not
\* v, a call that changes the IRQL was passed since.
SiteAt(f, s, m, l, v) ==
  /\ s \in prog.reach[m]
  /\ \E c \in Sites(f, s) \cap prog.ancestors[m] :
       l # v =>
         \E mid \in Calls(prog, f) :
           /\ isIrqlChangingCall(prog, mid)
           /\ c \in prog.ancestors[mid] /\ mid \in prog.ancestors[m]

\* The save s is in progress in the function the routine has called, or flows
\* to where that is.
FlowsAbove(s) ==
  IF Len(stack) = 1 THEN s \in prog.reach[at]
  ELSE \/ stack[2].node = s
       \/ \E m \in getAPredecessor(prog, stack[2].node) : s \in prog.reach[m]

\* The routine f has passed the save s, calls it, has called the helper that
\* made it, or has called something since.
HomeKnown(f, x, s) ==
  IF stack = <<>> THEN SiteAt(f, s, at, irql, float[x])
  ELSE \/ stack[1].node = s /\ float[x] = entered[2]
       \/ /\ Target(prog, stack[1].node) = prog.scope[s] /\ FlowsAbove(s)
          /\ LevelIn(2) # float[x] => MayChange(prog.scope[s])
       \/ /\ \E m \in getAPredecessor(prog, stack[1].node) :
               SiteAt(f, s, m, entered[2], float[x])
          /\ x \in prog.shared[stack[1].node] => FlowsAbove(s)

HomeInv ==
  /\ at = Idle => float = NothingSaved(prog)
  /\ WellFormed(prog) /\ at # Idle =>
       \A x \in Locations(prog) :
         FloatHome(Running(1), x) /\ float[x] # NoValue =>
           \E s \in FloatSaves(x) :
             /\ \E k \in getAPredecessor(prog, s) : float[x] \in potential[k]
             /\ HomeKnown(Running(1), x, s)
=============================================================================
