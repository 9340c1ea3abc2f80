---------------------------- MODULE IrqlExecution ----------------------------
(***************************************************************************)
(* A thread executing the analysed driver at run time, to compare what     *)
(* the analysis says of a node with the IRQLs that really occur there.     *)
(* What the kernel's functions do is taken from the annotations the        *)
(* analysis itself relies on; it is not code of this repository.           *)
(***************************************************************************)
EXTENDS IrqlQueries, Sequences

CONSTANTS Idle,      \* no thread yet
          NoValue,   \* nothing saved
          MaxDepth   \* bound on the depth of calls

ASSUME DepthAssumption == MaxDepth \in Nat
ASSUME IdleAssumption == \A d \in Drivers : Idle \notin Nodes(Extract(d))

VARIABLES at,     \* the node the thread has just left, or Idle
          irql,   \* its current IRQL
          saved,  \* per location of the running function, the IRQL saved there
          stack   \* of its callers: the call node and the caller's saved

threadVars == <<at, irql, saved, stack>>
vars == <<analysisVars, threadVars>>

Locations(p) == {p.loc[n] : n \in Nodes(p)}
NothingSaved(p) == [l \in Locations(p) |-> NoValue]
Saves(p, n) ==
  KeRaiseIrqlCall(p, n) \/ SavesGlobalIrqlCall(p, n) \/ IrqlSaveCall(p, n)
Restores(p, n) ==
  Class(p, n) \in
    {"KeLowerIrqlCall", "RestoresGlobalIrqlCall", "IrqlRestoreCall"}

\* The function that runs at n; one with a body is run whatever annotations it
\* carries.
Callee(p, n) == IF FunctionCall(p, n) THEN Target(p, n) ELSE p.pointer[n]

\* Saved levels across the call n: those of the variables it passes are held
\* by from, the others by the frame entered or returned to.
Passed(p, n, from, frame) ==
  [x \in Locations(p) |-> IF x \in p.shared[n] THEN from[x] ELSE frame[x]]

\* A routine nobody calls directly is entered by the system, at a level its
\* annotations allow; without any, at PASSIVE_LEVEL.
EntryPoints(p) == {f \in DOMAIN p.entry : callerPredecessor(p, f) = {}}
Uppers(f) == (f.max \cup f.alwaysMax \cup f.requires) \ {Unparsed}
Lowers(f) == (f.min \cup f.alwaysMin \cup f.requires) \ {Unparsed}
Obeys(f, l) ==
  /\ \A u \in Uppers(f) : l <= u
  /\ \A w \in Lowers(f) : w <= l
  /\ f.paged => l <= 1
  /\ Uppers(f) = {} /\ (\A w \in Lowers(f) : w <= DISPATCH_LEVEL)
       => l <= DISPATCH_LEVEL
  /\ Uppers(f) \cup Lowers(f) = {} => l = 0

-----------------------------------------------------------------------------
Init ==
  /\ AnalysisInit
  /\ at = Idle /\ irql = 0 /\ saved = NothingSaved(prog) /\ stack = <<>>

Analyse == Evaluate /\ UNCHANGED threadVars

Enter ==
  /\ at = Idle /\ Saturated(prog, potential)
  /\ \E f \in EntryPoints(prog), l \in IrqlValue :
       /\ Obeys(prog.fn[f], l)
       /\ at' = prog.entry[f] /\ irql' = l
  /\ UNCHANGED <<analysisVars, saved, stack>>

\* A branch on a flag that is never set is not taken.
Successors ==
  {n \in Nodes(prog) \ prog.dead :
     at # Idle /\ <<at, n>> \in prog.edge}

\* The calls ahead of functions of the kernel or of another binary.
KernelCalls ==
  {n \in Successors : FunctionCall(prog, n) /\ ~TargetFacts(prog, n).body}

Pass ==
  /\ \E n \in Successors : Callee(prog, n) = NoFunction /\ at' = n
  /\ UNCHANGED <<analysisVars, irql, saved, stack>>

Invoke ==
  /\ \E n \in Successors :
       /\ Callee(prog, n) \in DOMAIN prog.entry
       /\ Len(stack) < MaxDepth
       /\ stack' = Append(stack, [node |-> n, saved |-> saved])
       /\ at' = prog.entry[Callee(prog, n)]
       /\ saved' = Passed(prog, n, saved, NothingSaved(prog))
  /\ UNCHANGED <<analysisVars, irql>>

LeaveFunction ==
  /\ at # Idle /\ stack # <<>>
  /\ at \in prog.exit[prog.scope[at]]
  /\ at' = stack[Len(stack)].node
  /\ saved' = Passed(prog, stack[Len(stack)].node, saved,
                     stack[Len(stack)].saved)
  /\ stack' = SubSeq(stack, 1, Len(stack) - 1)
  /\ UNCHANGED <<analysisVars, irql>>

\* A kernel function leaves the IRQL at l, and saves the previous one if it
\* is annotated to.
Returns(n, l) ==
  /\ at' = n /\ irql' = l
  /\ saved' = IF Saves(prog, n)
                THEN [saved EXCEPT ![prog.loc[n]] = irql] ELSE saved
  /\ UNCHANGED <<analysisVars, stack>>

\* KeRaiseIrql to a lower level stops the system.  An argument that is no
\* literal may have any value.
RaisedTo(n) ==
  IF RaiseLevel(prog, n) = {} THEN IrqlValue ELSE RaiseLevel(prog, n)
Raise ==
  \E n \in KernelCalls :
    /\ KeRaiseIrqlCall(prog, n)
    /\ \E l \in RaisedTo(n) : irql <= l /\ Returns(n, l)

RestoredTo(n) ==
  IF prog.level[n] # Unparsed THEN prog.level[n] ELSE saved[prog.loc[n]]
Restore ==
  \E n \in KernelCalls :
    /\ Restores(prog, n)
    /\ RestoredTo(n) # NoValue
    /\ Returns(n, RestoredTo(n))

Annotated ==
  \E n \in KernelCalls :
    \/ /\ Class(prog, n) = "IrqlRaisesAnnotated"
       /\ \E l \in TargetFacts(prog, n).raises \cap IrqlValue : Returns(n, l)
    \/ Class(prog, n) = "IrqlRequiresSameAnnotated" /\ Returns(n, irql)

\* A function of another binary, without annotations, keeps the IRQL.
Opaque ==
  \E n \in KernelCalls : Class(prog, n) = "FunctionCall" /\ Returns(n, irql)

Next ==
  \/ Analyse \/ Enter
  \/ Pass \/ Invoke \/ LeaveFunction \/ Raise \/ Restore \/ Annotated \/ Opaque

Spec == Init /\ [][Next]_vars
=============================================================================
