----------------------------- MODULE IrqlAnalysis -----------------------------
(***************************************************************************)
(* getPotentialExitIrqlAtCfn of src/drivers/libraries/Irql.qll: the set of *)
(* IRQLs a control flow node may exit at, a recursive predicate over one   *)
(* CodeQL database.                                                        *)
(*                                                                         *)
(* The database is the variable prog, fixed by the driver under analysis:  *)
(* a record of functions and their annotations, control flow nodes and     *)
(* edges, and what the extractor and the data flow library say about them. *)
(***************************************************************************)
EXTENDS IrqlAnnotations, FiniteSets

CONSTANTS Drivers,     \* the drivers considered
          Extract(_),  \* the database CodeQL builds for a driver
          NoFunction   \* target of a node that is not a call

VARIABLES prog,        \* the database under analysis
          potential    \* per node, the levels derived so far

analysisVars == <<prog, potential>>

\* The operators below take a database p and, where they depend on it, the
\* levels pot derived so far.  The parts of a database, by node n:
\*   p.scope[n]    getControlFlowScope
\*   p.call[n]     target of the FunctionCall n, or NoFunction
\*   p.level[n]    its literal first argument, or Unparsed
\*   p.arg[n]      the argument in its annotated slot, or the variable its
\*                    result is assigned to: head and first child
\*   p.loc[n]      the variable or lock handle that argument denotes
\*   p.pointer[n]  the function a call through a pointer at n runs, or
\*                    NoFunction: n is then no FunctionCall
\*   p.shared[n]   the locations the call n shares with the function it runs:
\*                    the variables it passes
\*   p.ancestors[n]  the nodes n can be reached from, and n
\*   p.sibling[n]  closest preceding sibling statements inside a loop body
\*   p.reach[n]    saves whose value is still in place when n exits
\*   p.whenFalse[n], p.constantFalse  see IrqlQueries
\*   p.dead        the calls in branches no execution takes
\* and p.edge (getASuccessor), p.fn (annotations), p.entry and
\* p.exit (of the functions with a body).
Nodes(p) == DOMAIN p.scope
Functions(p) == DOMAIN p.fn
Target(p, n) == p.call[n]
FunctionCall(p, n) == Target(p, n) # NoFunction
TargetFacts(p, n) == p.fn[Target(p, n)]

getAPredecessor(p, n) == {m \in Nodes(p) : <<m, n>> \in p.edge}

\* getAPredecessor*(), the transitive closure the engine computes.
getAPredecessorStar(p, n) == p.ancestors[n]

\* The predecessors of a set of calls: where their prior IRQL is known.
Before(p, calls) == UNION {getAPredecessor(p, c) : c \in calls}

\* What every database has: edges stay inside a function; a function with a
\* body has an entry node without predecessors, which is not a call, and exit
\* nodes of its own; levels in the code are levels.
IsDatabase(p) ==
  /\ NoFunction \notin Functions(p)
  /\ \A f \in Functions(p) : p.fn[f] \in Facts
  /\ \A f \in DOMAIN p.entry :
       /\ f \in Functions(p) /\ p.fn[f].body
       /\ p.entry[f] \in Nodes(p) /\ p.scope[p.entry[f]] = f
       /\ ~FunctionCall(p, p.entry[f]) /\ getAPredecessor(p, p.entry[f]) = {}
  /\ \A n \in Nodes(p) :
       /\ p.scope[n] \in DOMAIN p.entry
       /\ p.level[n] \in Levels
       /\ FunctionCall(p, n) => Target(p, n) \in Functions(p)
       /\ \/ p.pointer[n] = NoFunction
          \/ ~FunctionCall(p, n) /\ p.pointer[n] \in DOMAIN p.entry
       /\ FunctionCall(p, n) /\ TargetFacts(p, n).body =>
            /\ Target(p, n) \in DOMAIN p.entry
            /\ p.exit[Target(p, n)] \subseteq Nodes(p)
  /\ \A e \in p.edge : p.scope[e[1]] = p.scope[e[2]]

ASSUME DatabaseAssumption == \A d \in Drivers : IsDatabase(Extract(d))

-----------------------------------------------------------------------------
(* Classes of calls, in the order in which the cascade asks for them.      *)
Class(p, n) ==
  IF ~FunctionCall(p, n) THEN "node"
  ELSE LET f == TargetFacts(p, n) IN
       IF f.api \in {"KeRaiseIrql", "KeRaiseIrqlToDPCLevel"}
         THEN "KeRaiseIrqlCall"
       ELSE IF f.api = "KeLowerIrql" THEN "KeLowerIrqlCall"
       ELSE IF f.restoresGlobal # "none" THEN "RestoresGlobalIrqlCall"
       ELSE IF f.restores THEN "IrqlRestoreCall"
       ELSE IF f.raises # {} THEN "IrqlRaisesAnnotated"
       ELSE IF f.same THEN "IrqlRequiresSameAnnotated"
       ELSE "FunctionCall"

KeRaiseIrqlCall(p, n) == Class(p, n) = "KeRaiseIrqlCall"
SavesGlobalIrqlCall(p, n) ==
  FunctionCall(p, n) /\ TargetFacts(p, n).savesGlobal # "none"
IrqlSaveCall(p, n) == FunctionCall(p, n) /\ TargetFacts(p, n).saves # "none"

\* Mutant: the argument counts from DISPATCH_LEVEL.
RaiseLevelOffset(p, n) == {p.level[n] + DISPATCH_LEVEL}

\* KeRaiseIrqlCall.getIrqlLevel; no value when the argument is no literal.
RaiseLevel(p, n) ==
  IF TargetFacts(p, n).api = "KeRaiseIrqlToDPCLevel" THEN {DISPATCH_LEVEL}
  ELSE {p.level[n]} \ {Unparsed}

\* Two expressions match when they and their first children read the same, or
\* when neither has a child, whatever they are.
NoChild == "none"
exprsMatchText(e1, e2) ==
  \/ e1.head = e2.head /\ e1.child # NoChild /\ e1.child = e2.child
  \/ e1.child = NoChild /\ e2.child = NoChild

\* Mutant: only raises in the function of the lowering call.
getMostRecentRaiseLocal(p, n) ==
  {s \in UNION {p.reach[m] : m \in getAPredecessor(p, n)} :
     KeRaiseIrqlCall(p, s) /\ p.loc[s] = p.loc[n] /\ p.scope[s] = p.scope[n]}

\* IrqlRaiseLowerFlow: the raises whose saved value flows to the argument of
\* the lowering call n, as the data flow library reports them.
getMostRecentRaiseInterprocedural(p, n) ==
  {s \in UNION {p.reach[m] : m \in getAPredecessor(p, n)} :
     KeRaiseIrqlCall(p, s) /\ p.loc[s] = p.loc[n]}

\* RestoresGlobalIrqlCall.matchingSaveCall
GlobalSaveMatches(p, n, s) ==
  /\ exprsMatchText(p.arg[n], p.arg[s])
  /\ TargetFacts(p, n).restoresGlobal = TargetFacts(p, s).savesGlobal

\* RestoresGlobalIrqlCall.getMostRecentRaise.  A save is passed over as soon
\* as another matching save can be reached from it, be it beyond n.
getMostRecentGlobalSave(p, n) ==
  {s \in getAPredecessorStar(p, n) :
     /\ SavesGlobalIrqlCall(p, s) /\ GlobalSaveMatches(p, n, s)
     /\ ~\E s2 \in Nodes(p) \ {s} :
           /\ SavesGlobalIrqlCall(p, s2) /\ GlobalSaveMatches(p, n, s2)
           /\ s \in getAPredecessorStar(p, s2)}

\* IrqlRestoreCall.matchingSaveCall
SaveMatches(p, n, s) ==
  /\ exprsMatchText(p.arg[n], p.arg[s])
  /\ \/ TargetFacts(p, s).saves = "parameter"
     \/ TargetFacts(p, s).saves = "return" /\ p.scope[n] = p.scope[s]

\* IrqlRestoreCall.getMostRecentRaise.  Only saves to a global kind exclude
\* earlier ones.
getMostRecentSave(p, n) ==
  {s \in getAPredecessorStar(p, n) :
     /\ IrqlSaveCall(p, s) /\ SaveMatches(p, n, s)
     /\ ~\E s2 \in Nodes(p) \ {s} :
           /\ SavesGlobalIrqlCall(p, s2) /\ IrqlSaveCall(p, s2)
           /\ SaveMatches(p, n, s2)
           /\ s \in getAPredecessorStar(p, s2)}

\* Nothing for a function without a body.
getAnExitPointOfFunction(p, f) == IF p.fn[f].body THEN p.exit[f] ELSE {}

\* Mutant: the call itself, whose level is the one after it.
callerItself(p, f) == {c \in Nodes(p) : Target(p, c) = f}

callerPredecessor(p, f) == Before(p, {c \in Nodes(p) : Target(p, c) = f})

-----------------------------------------------------------------------------
(* The cascade getPotentialExitIrqlAtCfnInternal.  Each of its branches    *)
(* either names levels or passes on those of other nodes; which branch     *)
(* applies does not depend on the levels.                                  *)
Own(p, n) ==
  LET f == p.fn[p.scope[n]] IN
  CASE KeRaiseIrqlCall(p, n) -> RaiseLevel(p, n)
    [] Class(p, n) = "IrqlRaisesAnnotated" -> TargetFacts(p, n).raises
    [] /\ Class(p, n) = "node" /\ getAPredecessor(p, n) = {}
       /\ callerPredecessor(p, p.scope[n]) = {} ->
         IF IrqlRestrictsFunction(f) /\ getAllowableIrqlLevel(f) # {}
           THEN getAllowableIrqlLevel(f) ELSE {0}
    [] OTHER -> {}

Sources(p, n) ==
  CASE Class(p, n) = "KeLowerIrqlCall" ->
         Before(p, getMostRecentRaiseInterprocedural(p, n))
    [] Class(p, n) = "RestoresGlobalIrqlCall" ->
         Before(p, getMostRecentGlobalSave(p, n))
    [] Class(p, n) = "IrqlRestoreCall" -> Before(p, getMostRecentSave(p, n))
    [] Class(p, n) = "IrqlRequiresSameAnnotated" -> getAPredecessor(p, n)
    [] Class(p, n) = "FunctionCall" ->
         getAnExitPointOfFunction(p, Target(p, n))
    [] Class(p, n) = "node" ->
         IF getAPredecessor(p, n) # {} THEN getAPredecessor(p, n)
         ELSE callerPredecessor(p, p.scope[n])
    [] OTHER -> {}

getPotentialExitIrqlAtCfnInternal(p, pot, n) ==
  Own(p, n) \cup UNION {pot[m] : m \in Sources(p, n)}

Saturated(p, pot) ==
  \A n \in Nodes(p) :
    getPotentialExitIrqlAtCfnInternal(p, pot, n) \subseteq pot[n]

\* The fallback for a node the cascade says nothing about.
astLevelExitIrqlFallback(p, pot, n) == UNION {pot[m] : m \in p.sibling[n]}

getPotentialExitIrqlAtCfn(p, pot, n) ==
  IF pot[n] # {} THEN pot[n] ELSE astLevelExitIrqlFallback(p, pot, n)

-----------------------------------------------------------------------------
(* The QL engine evaluates the recursion bottom-up, round by round.        *)
AnalysisInit ==
  /\ \E d \in Drivers : prog = Extract(d)
  /\ potential = [n \in Nodes(prog) |-> {}]

Evaluate ==
  /\ ~Saturated(prog, potential)
  /\ potential' =
       [n \in Nodes(prog) |->
          potential[n] \cup
            getPotentialExitIrqlAtCfnInternal(prog, potential, n)]
  /\ UNCHANGED prog
=============================================================================
