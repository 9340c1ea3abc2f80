----------------------------- MODULE IrqlExtract -----------------------------
(***************************************************************************)
(* The database CodeQL builds for a driver given as functions with code.   *)
(* The extractor and the data flow library are not part of the repository. *)
(* isInConstantFalseBranch of Irql.qll is.                                 *)
(***************************************************************************)
EXTENDS IrqlSnippets, FiniteSetsExt

\* The nodes of a function with L statements: 0 is its block, 2i - 1 and 2i
\* are statement i and the call in it, 2L + 1 is the exit.
ExitIndex(d, f) == 2 * Len(d[f].code) + 1
NodesOf(d) == UNION {{<<f, k>> : k \in 0 .. ExitIndex(d, f)} : f \in DOMAIN d}
Index(n) == (n[2] + 1) \div 2
InStatement(d, n) == n[2] # 0 /\ n[2] # ExitIndex(d, n[1])
StatementAt(d, n) ==
  IF InStatement(d, n) /\ n[2] % 2 = 0 THEN d[n[1]].code[Index(n)] ELSE Skip

EdgesFrom(d, n) ==
  CASE n[2] = ExitIndex(d, n[1]) -> {}
    [] n[2] % 2 = 1 \/ n[2] = 0 -> {<<n, <<n[1], n[2] + 1>>>>}
    [] OTHER ->
         {<<n, <<n[1], Min({n[2] + 2 * o - 1, ExitIndex(d, n[1])})>>>> :
            o \in StatementAt(d, n).to}
EdgesOf(d) == UNION {EdgesFrom(d, n) : n \in NodesOf(d)}

\* What can be reached from the set s along the relation r.
RECURSIVE Closure(_, _)
Closure(r, s) ==
  LET t == s \cup {e[2] : e \in {x \in r : x[1] \in s}}
  IN  IF t = s THEN s ELSE Closure(r, t)
Converse(r) == {<<e[2], e[1]>> : e \in r}

\* Which functions call which by name, those of the kernel included.
CallEdges(d) ==
  {<<n[1], StatementAt(d, n).call>> :
     n \in {m \in NodesOf(d) : StatementAt(d, m).call # NoFunction}}

-----------------------------------------------------------------------------
(* Data flow: from a save to where its value is still in place.            *)
IrqlSavers == {f \in DOMAIN Kernel : Kernel[f].saves # "none"}
IsSave(d, n) ==
  StatementAt(d, n).call \in IrqlSavers \cup {"KeSaveFloatingPointState"}

\* An IRQL is overwritten by the next save to its variable.
Overwrites(d, n, s) ==
  /\ StatementAt(d, n).call \in IrqlSavers
  /\ StatementAt(d, n).loc = StatementAt(d, s).loc

\* Into a function that is passed the variable of s, and out of it.
FlowAcross(d, edges, s) ==
  LET passing == {n \in NodesOf(d) :
                    StatementAt(d, s).loc \in StatementAt(d, n).shared}
      f(n) == StatementAt(d, n).call
  IN  {<<e[1], <<f(e[2]), 0>>>> : e \in {x \in edges : x[2] \in passing}}
        \cup {<<<<f(n), ExitIndex(d, f(n))>>, n>> : n \in passing}
FlowFrom(d, edges, s) ==
  Closure({e \in edges : ~Overwrites(d, e[2], s)}
            \cup FlowAcross(d, edges, s), {s})

\* The functions the annotated parameter is passed to from f.
FlowFromParameter(d, f) ==
  LET passing == {n \in NodesOf(d) : AnnotatedParameter \in
                                       StatementAt(d, n).shared}
  IN  Closure({<<n[1], StatementAt(d, n).call>> : n \in passing}, {f})

-----------------------------------------------------------------------------
(* Branches and loops.                                                     *)
Statements(d, f) == {d[f].code[i] : i \in DOMAIN d[f].code}

\* The statements of the "then" branch of the test at i.
Then(d, f, i) == i + 1 .. i + Max(d[f].code[i].to) - 1

\* Mutant: only plain assignments count as changes of the flag.
NeverAssigned(d, f, v) ==
  ~\E s \in Statements(d, f) : s.sets = v /\ s.how = "="

\* No Assignment, CrementOperation or AddressOfExpr on v in f.
NeverMutated(d, f, v) ==
  ~\E s \in Statements(d, f) : s.sets = v /\ s.how \in {"=", "|=", "++", "&"}

\* The guard is a local variable initialised to FALSE and never mutated.
isInConstantFalseBranch(d, n) ==
  LET f == n[1] IN
    \E i \in DOMAIN d[f].code :
      LET v == d[f].code[i].tests IN
        /\ v # "none" /\ Index(n) \in Then(d, f, i)
        /\ \E s \in Statements(d, f) : s.declares = v
        /\ NeverMutated(d, f, v)

\* The guard is set by nothing in the driver.
NeverRuns(d, n) ==
  LET f == n[1] IN
    \E i \in DOMAIN d[f].code :
      LET v == d[f].code[i].tests IN
        /\ v # "none" /\ Index(n) \in Then(d, f, i)
        /\ \A g \in DOMAIN d : \A s \in Statements(d, g) : s.sets # v

\* Loop bodies: from behind the test a statement jumps back to.
LoopsOf(d, f) ==
  {i + Min(d[f].code[i].to) + 1 .. i :
     i \in {j \in DOMAIN d[f].code : Min(d[f].code[j].to) < 0}}
LoopNodes(d) ==
  {{<<f, 2 * i>> : i \in body} : <<f, body>> \in
     UNION {{<<g, b>> : b \in LoopsOf(d, g)} : g \in DOMAIN d}}
SiblingsAt(d, n) ==
  IF \E body \in LoopsOf(d, n[1]) :
       InStatement(d, n) /\ {Index(n), Index(n) - 1} \subseteq body
    THEN {<<n[1], 2 * Index(n) - 3>>} ELSE {}

-----------------------------------------------------------------------------
\* The function x |-> Value(x) on a finite set, as a table.
Tabulate(Value(_), set) ==
  FoldSet(LAMBDA x, table : table @@ (x :> Value(x)), <<>>, set)

Program(d) ==
  LET nodes == NodesOf(d)
      edges == EdgesOf(d)
      back == Converse(edges)
      calls == {n \in nodes : StatementAt(d, n).call # NoFunction}
      saves == {n \in nodes : IsSave(d, n)}
      from(s) == FlowFrom(d, edges, s)
      flows == Tabulate(from, saves)
      scope(n) == n[1]
      call(n) == StatementAt(d, n).call
      pointer(n) == StatementAt(d, n).pointer
      level(n) == StatementAt(d, n).level
      arg(n) == StatementAt(d, n).arg
      loc(n) == StatementAt(d, n).loc
      shared(n) == StatementAt(d, n).shared
      wait(n) == StatementAt(d, n).wait
      whenFalse(n) == StatementAt(d, n).whenFalse
      order(n) == n[2]
      sibling(n) == SiblingsAt(d, n)
      reach(n) == {s \in saves : n \in flows[s]}
      ancestors(n) == Closure(back, {n})
      facts(f) == d[f].facts
      entry(f) == <<f, 0>>
      exit(f) == {<<f, ExitIndex(d, f)>>}
      reached(f) == Closure(CallEdges(d), {f})
      reachedNone(f) == {f}
      parameter(f) == AnnotatedParameter
      flow(f) == FlowFromParameter(d, f)
  IN  [scope |-> Tabulate(scope, nodes), call |-> Tabulate(call, nodes),
       pointer |-> Tabulate(pointer, nodes), level |-> Tabulate(level, nodes),
       arg |-> Tabulate(arg, nodes), loc |-> Tabulate(loc, nodes),
       shared |-> Tabulate(shared, nodes), wait |-> Tabulate(wait, nodes),
       whenFalse |-> Tabulate(whenFalse, nodes),
       order |-> Tabulate(order, nodes), sibling |-> Tabulate(sibling, nodes),
       reach |-> Tabulate(reach, nodes),
       ancestors |-> Tabulate(ancestors, nodes),
       edge |-> edges, loops |-> LoopNodes(d),
       constantFalse |-> {n \in calls : isInConstantFalseBranch(d, n)},
       dead |-> {n \in calls : NeverRuns(d, n)},
       fn |-> Tabulate(facts, DOMAIN d) @@ Kernel,
       entry |-> Tabulate(entry, DOMAIN d), exit |-> Tabulate(exit, DOMAIN d),
       calls |-> Tabulate(reached, DOMAIN d) @@
                 Tabulate(reachedNone, DOMAIN Kernel),
       parameter |-> Tabulate(parameter, DOMAIN d),
       flow |-> Tabulate(flow, DOMAIN d)]
=============================================================================
