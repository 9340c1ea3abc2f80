--------------------------- MODULE IsolationProofs ---------------------------
(***************************************************************************)
(* Theorems about DriverIsolation, for all routines: what the three        *)
(* queries report is exactly what is opened outside the isolated part of   *)
(* the registry.                                                           *)
(***************************************************************************)
EXTENDS DriverIsolation, TLAPS, FiniteSetTheorems, WellFoundedInduction

-----------------------------------------------------------------------------
(* Sets of natural numbers.  The induction theorems of the library take the *)
(* formula to prove as a parameter; these take the set on which it holds.   *)

\* A set of natural numbers has a least element.
LEMMA LeastNatural ==
  ASSUME NEW T \in SUBSET Nat, T # {}
  PROVE  \E m \in T : \A n \in T : m <= n
<1> DEFINE B(n) == {k \in Nat : k <= n}
           F == {B(n) : n \in T}
           R == StrictSubsetOrdering(Nat)
<1>1. \A n \in Nat : IsFiniteSet(B(n))
  <2> SUFFICES ASSUME NEW n \in Nat PROVE IsFiniteSet(B(n))
    OBVIOUS
  <2>1. B(n) = 0 .. n
    OBVIOUS
  <2>2. IsFiniteSet(0 .. n)
    BY FS_Interval
  <2> QED
    BY <2>1, <2>2
<1>2. F \subseteq FiniteSubsetsOf(Nat)
  BY <1>1 DEF FiniteSubsetsOf
<1>3. IsWellFoundedOn(R, FiniteSubsetsOf(Nat))
  BY FS_StrictSubsetOrderingWellFounded
<1>4. PICK x \in F : \A y \in F : <<y, x>> \notin R
  <2> HIDE DEF R
  <2>1. F # {}
    OBVIOUS
  <2> HIDE DEF F
  <2> QED
    BY <1>2, <1>3, <2>1, WFMin
<1>5. PICK m \in T : x = B(m)
  OBVIOUS
<1>6. ASSUME NEW n \in T, ~(m <= n) PROVE FALSE
  <2>1. B(n) \subseteq B(m) /\ m \in B(m) /\ m \notin B(n)
    BY <1>6
  <2>2. <<B(n), B(m)>> \in R
    <3>1. <<B(n), B(m)>> \in (SUBSET Nat) \X (SUBSET Nat)
      OBVIOUS
    <3>2. B(n) \subseteq B(m) /\ B(n) # B(m)
      BY <2>1
    <3> HIDE DEF B
    <3> QED
      BY <3>1, <3>2 DEF StrictSubsetOrdering
  <2> QED
    BY <1>4, <1>5, <2>2
<1> QED
  BY <1>6

\* A set that holds zero and the successors of its elements holds every
\* natural number.
LEMMA SetInduction ==
  ASSUME NEW S, 0 \in S, \A n \in Nat : n \in S => n + 1 \in S
  PROVE  Nat \subseteq S
<1> SUFFICES ASSUME Nat \ S # {} PROVE FALSE
  OBVIOUS
<1>1. PICK m \in Nat \ S : \A n \in Nat \ S : m <= n
  BY LeastNatural
<1>2. m # 0 /\ m - 1 \in Nat
  OBVIOUS
<1>3. m - 1 \in S
  BY <1>1, <1>2
<1> QED
  BY <1>2, <1>3

\* A bounded set of natural numbers has a greatest element, which Max picks.
LEMMA MaxNatural ==
  ASSUME NEW n \in Nat, NEW T \in SUBSET (0 .. n), T # {}
  PROVE  Max(T) \in T /\ \A k \in T : k <= Max(T)
<1> DEFINE U == {u \in Nat : \A k \in T : k <= u}
<1>1. n \in U
  OBVIOUS
<1>2. PICK u \in U : \A w \in U : u <= w
  BY <1>1, LeastNatural
<1>3. u \in T
  <2> SUFFICES ASSUME u \notin T PROVE FALSE
    OBVIOUS
  <2>1. \A k \in T : k <= u - 1
    OBVIOUS
  <2>2. u - 1 \in U
    <3>1. PICK k \in T : k <= u
      OBVIOUS
    <3>2. u > 0
      BY <3>1
    <3> QED
      BY <2>1, <3>2
  <2> QED
    BY <1>2, <2>2
<1>4. \E x \in T : \A k \in T : k <= x
  BY <1>3
<1> QED
  BY <1>4 DEF Max

-----------------------------------------------------------------------------
(* The definitions and the flows of a routine.                              *)

\* The last definition of v before i comes before i, sets v, and no later one
\* does.
LEMMA LastDefinitionRange ==
  ASSUME NEW s, NEW i \in Nat \ {0}, NEW v
  PROVE  LET d == LastDefinition(s, i, v)
         IN  /\ d \in 0 .. i - 1
             /\ d # 0 => s[d].out = v
             /\ \A j \in 1 .. i - 1 : s[j].out = v => j <= d
<1> DEFINE D == Definitions(s, i, v)
<1>1. D \in SUBSET (0 .. i - 1) /\ \A j \in D : j # 0
  BY DEF Definitions
<1>2. CASE D = {}
  BY <1>2 DEF LastDefinition, Definitions
<1>3. CASE D # {}
  <2>1. Max(D) \in D /\ \A j \in D : j <= Max(D)
    <3> HIDE DEF D
    <3> QED
      BY <1>1, <1>3, i - 1 \in Nat, MaxNatural
  <2>2. LastDefinition(s, i, v) = Max(D)
    BY <1>3 DEF LastDefinition
  <2> QED
    BY <2>1, <2>2 DEF Definitions
<1> QED
  BY <1>2, <1>3

LEMMA LastSetOnlyBy ==
  ASSUME NEW s, NEW i \in Nat \ {0}, NEW v, NEW ops, SetOnlyBy(s, i, v, ops),
         LastDefinition(s, i, v) # 0
  PROVE  LastDefinition(s, i, v) \in 1 .. i - 1 /\ s[LastDefinition(s, i, v)].op \in ops
<1> DEFINE d == LastDefinition(s, i, v)
<1>1. d \in 1 .. i - 1 /\ s[d].out = v
  BY LastDefinitionRange
<1> QED
  BY <1>1 DEF SetOnlyBy

\* One statement further, the last definition is that statement or the same.
LEMMA LastDefinitionNext ==
  ASSUME NEW s, NEW i \in Nat \ {0}, NEW v
  PROVE  LastDefinition(s, i + 1, v)
           = IF s[i].out = v THEN i ELSE LastDefinition(s, i, v)
<1> DEFINE d == LastDefinition(s, i, v)
           e == LastDefinition(s, i + 1, v)
<1>1. /\ d \in 0 .. i - 1
      /\ d # 0 => s[d].out = v
      /\ \A j \in 1 .. i - 1 : s[j].out = v => j <= d
  BY LastDefinitionRange
<1>2. /\ e \in 0 .. i
      /\ e # 0 => s[e].out = v
      /\ \A j \in 1 .. i : s[j].out = v => j <= e
  BY LastDefinitionRange, i + 1 \in Nat \ {0}, (i + 1) - 1 = i
<1> HIDE DEF d, e
<1> QED
  BY <1>1, <1>2 DEF d, e

\* The equation by which FlowNullRootDir is computed has a solution.
FlowStep(s, flow, i) ==
  IF i = 0 THEN "none"
  ELSE IF s[i].path # "" THEN s[i].path
  ELSE IF s[i].op = "attributes" /\ s[i].root # "NULL" THEN "none"
  ELSE IF s[i].op \in {"copy", "convert", "attributes"}
       THEN flow[LastDefinition(s, i, s[i].name)]
  ELSE "none"
LEMMA FlowEquation ==
  ASSUME NEW s, Len(s) \in Nat, NEW i \in 0 .. Len(s)
  PROVE  FlowNullRootDir(s)[i] = FlowStep(s, FlowNullRootDir(s), i)
<1> DEFINE N == Len(s)
           Solves(f, n) == \A j \in 0 .. n : j <= N => f[j] = FlowStep(s, f, j)
           S == {n \in Nat : \E f : Solves(f, n)}
           Whole(f) == f = [j \in 0 .. N |-> FlowStep(s, f, j)]
<1>1. 0 \in S
  <2>1. Solves([j \in {0} |-> "none"], 0)
    BY DEF FlowStep
  <2> QED
    BY <2>1
<1>2. ASSUME NEW n \in Nat, n \in S PROVE n + 1 \in S
  <2>1. PICK f : Solves(f, n)
    BY <1>2
  <2> DEFINE g == [j \in 0 .. n + 1 |-> IF j <= n THEN f[j] ELSE FlowStep(s, f, j)]
  <2>2. ASSUME NEW j \in 0 .. n + 1 PROVE FlowStep(s, g, j) = FlowStep(s, f, j)
    <3> DEFINE d == LastDefinition(s, j, s[j].name)
    <3>1. j # 0 => d \in 0 .. n
      BY LastDefinitionRange
    <3>2. j # 0 => g[d] = f[d]
      BY <3>1
    <3> HIDE DEF g
    <3> QED
      BY <3>2 DEF FlowStep
  <2>3. Solves(g, n + 1)
    BY <2>1, <2>2
  <2>4. \E h : Solves(h, n + 1)
    <3> HIDE DEF g, Solves
    <3> QED
      BY <2>3
  <2> QED
    BY <2>4
<1>3. N \in S
  BY <1>1, <1>2, SetInduction
<1>4. PICK f : Solves(f, N)
  BY <1>3
<1>5. Whole([j \in 0 .. N |-> f[j]])
  <2> DEFINE g == [j \in 0 .. N |-> f[j]]
  <2>1. ASSUME NEW j \in 0 .. N PROVE FlowStep(s, g, j) = FlowStep(s, f, j)
    <3> DEFINE d == LastDefinition(s, j, s[j].name)
    <3>1. j # 0 => d \in 0 .. N
      BY LastDefinitionRange
    <3>2. j # 0 => g[d] = f[d]
      BY <3>1
    <3> HIDE DEF g
    <3> QED
      BY <3>2 DEF FlowStep
  <2> QED
    BY <1>4, <2>1
<1>6. FlowNullRootDir(s) = CHOOSE g : Whole(g)
  BY DEF FlowNullRootDir, FlowStep
<1>7. Whole(FlowNullRootDir(s))
  BY <1>5, <1>6
<1> QED
  BY <1>7

\* The call that set a root comes before the call that uses it.
LEMMA RootCallRange ==
  ASSUME NEW s, NEW i \in Nat \ {0}
  PROVE  RootCall(s, i) \in 0 .. i - 1
<1> DEFINE a == AttributesAt(s, i)
<1>1. a \in 0 .. i - 1
  BY LastDefinitionRange DEF AttributesAt
<1>2. CASE a = 0
  BY <1>2 DEF RootCall
<1>3. CASE a # 0
  <2>1. LastDefinition(s, a, s[a].root) \in 0 .. a - 1
    BY <1>1, <1>3, LastDefinitionRange
  <2> QED
    BY <1>1, <2>1 DEF RootCall
<1> QED
  BY <1>2, <1>3

\* The equation by which nonNullRootDirFlowFirstCall is computed has a solution.
FirstStep(s, first, i) ==
  IF s[i].op = "open" /\ RootCall(s, i) # 0 THEN first[RootCall(s, i)] ELSE i
LEMMA FirstCallEquation ==
  ASSUME NEW s, Len(s) \in Nat, NEW i \in 1 .. Len(s)
  PROVE  nonNullRootDirFlowFirstCall(s)[i]
           = FirstStep(s, nonNullRootDirFlowFirstCall(s), i)
<1> DEFINE N == Len(s)
           Solves(f, n) == \A j \in 1 .. n : j <= N => f[j] = FirstStep(s, f, j)
           S == {n \in Nat : \E f : Solves(f, n)}
           Whole(f) == f = [j \in 1 .. N |-> FirstStep(s, f, j)]
<1>1. 0 \in S
  OBVIOUS
<1>2. ASSUME NEW n \in Nat, n \in S PROVE n + 1 \in S
  <2>1. PICK f : Solves(f, n)
    BY <1>2
  <2> DEFINE g == [j \in 1 .. n + 1 |-> IF j <= n THEN f[j] ELSE FirstStep(s, f, j)]
  <2>2. ASSUME NEW j \in 1 .. n + 1 PROVE FirstStep(s, g, j) = FirstStep(s, f, j)
    <3> DEFINE d == RootCall(s, j)
    <3>1. d \in 0 .. n
      BY RootCallRange
    <3>2. d # 0 => g[d] = f[d]
      BY <3>1
    <3> HIDE DEF g
    <3> QED
      BY <3>2 DEF FirstStep
  <2>3. Solves(g, n + 1)
    BY <2>1, <2>2
  <2>4. \E h : Solves(h, n + 1)
    <3> HIDE DEF g, Solves
    <3> QED
      BY <2>3
  <2> QED
    BY <2>4
<1>3. N \in S
  BY <1>1, <1>2, SetInduction
<1>4. PICK f : Solves(f, N)
  BY <1>3
<1>5. Whole([j \in 1 .. N |-> f[j]])
  <2> DEFINE g == [j \in 1 .. N |-> f[j]]
  <2>1. ASSUME NEW j \in 1 .. N PROVE FirstStep(s, g, j) = FirstStep(s, f, j)
    <3> DEFINE d == RootCall(s, j)
    <3>1. d \in 0 .. N
      BY RootCallRange
    <3>2. d # 0 => g[d] = f[d]
      BY <3>1
    <3> HIDE DEF g
    <3> QED
      BY <3>2 DEF FirstStep
  <2> QED
    BY <1>4, <2>1
<1>6. nonNullRootDirFlowFirstCall(s) = CHOOSE g : Whole(g)
  BY DEF nonNullRootDirFlowFirstCall, FirstStep
<1>7. Whole(nonNullRootDirFlowFirstCall(s))
  BY <1>5, <1>6
<1> QED
  BY <1>7

-----------------------------------------------------------------------------
(* The inductive invariant.  A variable holds what its last definition      *)
(* leaves; a key is what its first call made it.                            *)
Flow == FlowNullRootDir(routine)
First == nonNullRootDirFlowFirstCall(routine)
Last(v) == LastDefinition(routine, pc, v)
Names == UNION {{routine[i].out, routine[i].name, routine[i].root} :
                  i \in 1 .. Len(routine)}

\* The routine returns: definition d has failed and the status is looked at.
Failing(d) == d # 0 /\ pc = d + 1 /\ ~ok /\ At("check")

\* Key k was made by call f, a function or an open without a root call.
KeyFrom(f, k) ==
  /\ f \in 1 .. Len(routine)
  /\ IF routine[f].op = "ddi"
     THEN k = [origin |-> routine[f].name, write |-> FALSE]
     ELSE LET a == AttributesAt(routine, f)
          IN  /\ routine[f].op = "open" /\ RootCall(routine, f) = 0
              /\ [at |-> f, key |-> k] \in opened
              /\ k.write = zwWrite(routine[f])
              /\ k.origin \in Paths \cup {"unknown"}
              /\ routine[a].root = "NULL" => k.origin \in {"unknown", Flow[a]}

\* What definitions d and a leave in a handle and in attributes.
KeyHeld(d, k) ==
  /\ k.origin \notin {"NULL", "garbage"}
  /\ k.origin = "anywhere" \/ KeyFrom(First[d], k)
  /\ routine[d].op = "open" => [at |-> d, key |-> k] \in opened
HandleHeld(d, h) ==
  IF d = 0 THEN h = Garbage
  ELSE IF routine[d].op = "null" THEN h = Null
  ELSE h = Garbage \/ KeyHeld(d, h)
AttributesHeld(a, x) ==
  LET r == routine[a].root
  IN  /\ x.name \in Paths \cup {"unknown"}
      /\ IF r = "NULL" THEN x.root = Null /\ x.name \in {"unknown", Flow[a]}
                       ELSE HandleHeld(LastDefinition(routine, a, r), x.root)

StringHeld(d, h) == h = "unknown" \/ (h \in Paths /\ h = Flow[d])

Live(v, ops) ==
  /\ SetOnlyBy(routine, pc, v, ops)
  /\ FeedsKey(routine, pc, v) /\ ~Failing(Last(v))

StringsInv ==
  \A v \in Names :
    Live(v, StringOps) => StringHeld(Last(v), Held(strings, v, "unknown"))
AttrsInv ==
  \A v \in Names :
    SetOnlyBy(routine, pc, v, {"attributes"}) /\ Last(v) # 0 =>
      v \in DOMAIN attrs /\ AttributesHeld(Last(v), attrs[v])
HandlesInv ==
  \A v \in Names :
    Live(v, HandleOps) => HandleHeld(Last(v), Held(handles, v, Garbage))
OpenedInv ==
  \A o \in opened :
    /\ o.at \in 1 .. Len(routine) /\ o.at < pc
    /\ o = [at |-> o.at, key |-> o.key]
    /\ routine[o.at].op \in {"open", "rtl"}
    /\ routine[o.at].op = "open" => KeyHeld(o.at, o.key)
    /\ routine[o.at].op = "rtl" /\ o.key.origin \in Paths =>
         \E p \in ZwOpened : p.at < o.at /\ p.key = o.key

PcInv == routine \in Routines /\ pc \in 1 .. Len(routine) + 1
IsolationInv ==
  /\ PcInv
  /\ FailuresSeen(routine) =>
       /\ pc <= Len(routine) => StringsInv /\ AttrsInv /\ HandlesInv
       /\ OpenedInv

-----------------------------------------------------------------------------
(* Lemmas for the steps.                                                    *)

LEMMA AssignHeld ==
  ASSUME NEW f, NEW v, NEW x, NEW u, NEW default
  PROVE  /\ Held(Assign(f, v, x), u, default)
              = IF u = v THEN x ELSE Held(f, u, default)
         /\ u \in DOMAIN Assign(f, v, x) <=> u = v \/ u \in DOMAIN f
         /\ u \in DOMAIN Assign(f, v, x) =>
              Assign(f, v, x)[u] = IF u = v THEN x ELSE f[u]
BY DEF Held, Assign

\* What the invariant and the type of the statements say where the routine is.
LEMMA PcTyped ==
  ASSUME PcInv
  PROVE  /\ \A i \in 1 .. Len(routine) : IsStatement(routine, i)
         /\ pc \in Nat \ {0} /\ Len(routine) \in Nat
<1>1. IsRoutine(routine)
  BY RoutinesAssumption DEF PcInv
<1>2. Len(routine) \in Nat
  <2> DEFINE R == [line : Int, op : Ops, out : STRING, name : STRING,
                   path : Paths \cup {""}, root : STRING, access : STRING]
  <2>1. routine \in Seq(R)
    BY <1>1 DEF IsRoutine
  <2> HIDE DEF R
  <2> QED
    BY <2>1
<1>3. \A i \in 1 .. Len(routine) : IsStatement(routine, i)
  BY <1>1 DEF IsRoutine
<1> QED
  BY <1>2, <1>3 DEF PcInv

LEMMA NowTyped ==
  ASSUME PcInv, pc <= Len(routine)
  PROVE  /\ pc \in Nat \ {0} /\ Len(routine) \in Nat /\ pc \in 1 .. Len(routine)
         /\ IsStatement(routine, pc) /\ Now.op \in Ops
         /\ Now.out \in Names /\ Now.name \in Names /\ Now.root \in Names
<1>1. Len(routine) \in Nat /\ pc \in 1 .. Len(routine)
  BY PcTyped
<1>2. IsStatement(routine, pc)
  BY <1>1, PcTyped
<1>3. Now.out \in Names /\ Now.name \in Names /\ Now.root \in Names
  <2> DEFINE N(i) == {routine[i].out, routine[i].name, routine[i].root}
  <2>1. N(pc) \in {N(i) : i \in 1 .. Len(routine)}
    BY <1>1
  <2> QED
    BY <2>1 DEF Now, Names
<1>4. Now.op \in Ops
  BY <1>2 DEF IsStatement, Now
<1> QED
  BY <1>1, <1>2, <1>3, <1>4

\* An advance over a statement: definitions, later uses and failures.
Advances == pc' = pc + 1 /\ routine' = routine
LEMMA AdvanceFacts ==
  ASSUME PcInv, pc <= Len(routine), Advances, ~ok => ~At("check"),
         NEW v, NEW ops
  PROVE  /\ Last(v)' = IF Now.out = v THEN pc ELSE Last(v)
         /\ SetOnlyBy(routine, pc, v, ops)' =>
              SetOnlyBy(routine, pc, v, ops) /\ (Now.out = v => Now.op \in ops)
         /\ FeedsKey(routine, pc, v)' => FeedsKey(routine, pc, v)
         /\ ~Failing(Last(v))
<1>1. pc \in Nat \ {0} /\ Len(routine) \in Nat
  BY NowTyped
<1>2. Last(v)' = IF Now.out = v THEN pc ELSE Last(v)
  <2>1. LastDefinition(routine, pc + 1, v)
          = IF routine[pc].out = v THEN pc ELSE LastDefinition(routine, pc, v)
    BY <1>1, LastDefinitionNext
  <2>2. Last(v)' = LastDefinition(routine', pc', v)
    BY DEF Last
  <2> QED
    BY <2>1, <2>2 DEF Advances, Last, Now
<1>3. SetOnlyBy(routine, pc, v, ops)' =>
        SetOnlyBy(routine, pc, v, ops) /\ (Now.out = v => Now.op \in ops)
  BY <1>1 DEF SetOnlyBy, Advances, Now
<1>4. FeedsKey(routine, pc, v)' => FeedsKey(routine, pc, v)
  BY <1>1 DEF FeedsKey, Advances
<1>5. ~Failing(Last(v))
  BY DEF Failing
<1> QED
  BY <1>2, <1>3, <1>4, <1>5

\* A variable other than the one set now is live only if it was.
LEMMA LiveBefore ==
  ASSUME PcInv, pc <= Len(routine), Advances, ~ok => ~At("check"),
         NEW v, NEW ops, Live(v, ops)'
  PROVE  /\ Live(v, ops)
         /\ Now.out = v => Now.op \in ops
  BY AdvanceFacts DEF Live

\* A key stays what it is while further keys are opened.
Opens == routine' = routine /\ opened \subseteq opened'
LEMMA KeptHeld ==
  ASSUME Opens, NEW d, NEW h
  PROVE  /\ KeyHeld(d, h) => KeyHeld(d, h)'
         /\ HandleHeld(d, h) => HandleHeld(d, h)'
         /\ AttributesHeld(d, h) => AttributesHeld(d, h)'
         /\ StringHeld(d, h) <=> StringHeld(d, h)'
<1> USE DEF Opens
<1>1. \A f : KeyFrom(f, h) => KeyFrom(f, h)'
  BY DEF KeyFrom, Flow
<1>2. KeyHeld(d, h) => KeyHeld(d, h)'
  BY <1>1 DEF KeyHeld, First
<1>3. \A e, g : HandleHeld(e, g) => HandleHeld(e, g)'
  BY DEF HandleHeld, KeyHeld, KeyFrom, Flow, First
<1>4. AttributesHeld(d, h) => AttributesHeld(d, h)'
  <2>1. PICK e : e = LastDefinition(routine, d, routine[d].root)
    OBVIOUS
  <2>2. HandleHeld(e, h.root) => HandleHeld(e, h.root)'
    BY <1>3
  <2>3. HandleHeld(LastDefinition(routine, d, routine[d].root), h.root)
          => HandleHeld(LastDefinition(routine, d, routine[d].root), h.root)'
    BY <2>1, <2>2 DEF HandleHeld, KeyHeld, KeyFrom
  <2> QED
    BY <2>3 DEF AttributesHeld, Flow
<1>5. StringHeld(d, h) <=> StringHeld(d, h)'
  BY DEF StringHeld, Flow
<1> QED
  BY <1>2, <1>3, <1>4, <1>5

\* Variables other than x, which is set now, hold what they held.
Steps(x, d) ==
  /\ PcInv /\ pc <= Len(routine) /\ Advances /\ (ok \/ ~At("check"))
  /\ opened \subseteq opened' /\ x = Now.out /\ d = pc
LEMMA StringsKept ==
  ASSUME NEW x, NEW d, Steps(x, d), StringsInv,
         \A v : v # x =>
           Held(strings', v, "unknown") = Held(strings, v, "unknown"),
         Live(x, StringOps)' => StringHeld(d, Held(strings', x, "unknown"))
  PROVE  StringsInv'
<1> SUFFICES ASSUME NEW v \in Names', Live(v, StringOps)'
             PROVE  StringHeld(Last(v), Held(strings, v, "unknown"))'
  BY DEF StringsInv
<1> USE DEF Steps
<1> DEFINE h == Held(strings', v, "unknown")
<1>1. v \in Names /\ Live(v, StringOps)
  BY LiveBefore DEF Names, Advances
<1>2. Last(v)' = IF x = v THEN d ELSE Last(v)
  BY AdvanceFacts
<1>3. StringHeld(Last(v)', h)
  <2>1. CASE x = v
    BY <1>2, <2>1
  <2>2. CASE x # v
    <3>1. Last(v)' = Last(v) /\ h = Held(strings, v, "unknown")
      BY <1>2, <2>2
    <3> QED
      BY <1>1, <3>1 DEF StringsInv
  <2> QED
    BY <2>1, <2>2
<1> QED
  BY <1>3 DEF StringHeld, Flow, Advances

LEMMA HandlesKept ==
  ASSUME NEW x, NEW d, NEW y, Steps(x, d), HandlesInv,
         \A v : v # x =>
           Held(handles', v, Garbage) = Held(handles, v, Garbage),
         y = Held(handles', x, Garbage),
         Live(x, HandleOps)' => HandleHeld(d, y)'
  PROVE  HandlesInv'
<1> SUFFICES ASSUME NEW v \in Names', Live(v, HandleOps)'
             PROVE  HandleHeld(Last(v), Held(handles, v, Garbage))'
  BY DEF HandlesInv
<1> USE DEF Steps
<1>1. v \in Names /\ Live(v, HandleOps)
  BY LiveBefore DEF Names, Advances
<1>2. Last(v)' = IF x = v THEN d ELSE Last(v)
  BY AdvanceFacts
<1>3. PICK e, h : e = Last(v)' /\ h = Held(handles', v, Garbage)
  OBVIOUS
<1>4. HandleHeld(e, h)'
  <2>1. CASE x = v
    BY <1>2, <1>3, <2>1
  <2>2. CASE x # v
    <3>1. e = Last(v) /\ h = Held(handles, v, Garbage)
      BY <1>2, <1>3, <2>2
    <3>2. HandleHeld(e, h)
      BY <1>1, <3>1 DEF HandlesInv
    <3> QED
      BY <3>2, KeptHeld DEF Opens, Advances
  <2> QED
    BY <2>1, <2>2
<1> QED
  BY <1>3, <1>4 DEF HandleHeld, KeyHeld, KeyFrom

LEMMA AttrsKept ==
  ASSUME NEW x, NEW d, Steps(x, d), AttrsInv,
         \A v : v # x /\ v \in DOMAIN attrs =>
           v \in DOMAIN attrs' /\ attrs'[v] = attrs[v],
         Now.op = "attributes" =>
           x \in DOMAIN attrs' /\ \E y : y = attrs'[x] /\ AttributesHeld(d, y)'
  PROVE  AttrsInv'
<1> SUFFICES ASSUME NEW v \in Names', SetOnlyBy(routine, pc, v, {"attributes"})',
                    Last(v)' # 0
             PROVE  v \in DOMAIN attrs' /\ AttributesHeld(Last(v), attrs[v])'
  BY DEF AttrsInv
<1> USE DEF Steps
<1>1. /\ v \in Names /\ SetOnlyBy(routine, pc, v, {"attributes"})
      /\ x = v => Now.op = "attributes"
      /\ Last(v)' = IF x = v THEN d ELSE Last(v)
  BY AdvanceFacts DEF Names, Advances
<1>2. PICK e, h : e = Last(v)' /\ h = attrs'[v]
  OBVIOUS
<1>3. v \in DOMAIN attrs' /\ AttributesHeld(e, h)'
  <2>1. CASE x = v
    BY <1>1, <1>2, <2>1
  <2>2. CASE x # v
    <3>1. e = Last(v) /\ v \in DOMAIN attrs /\ AttributesHeld(Last(v), attrs[v])
      BY <1>1, <1>2, <2>2 DEF AttrsInv
    <3>2. v \in DOMAIN attrs' /\ h = attrs[v]
      BY <1>2, <2>2, <3>1
    <3>3. AttributesHeld(e, h)
      BY <3>1, <3>2
    <3> QED
      BY <3>2, <3>3, KeptHeld DEF Opens, Advances
  <2> QED
    BY <2>1, <2>2
<1> QED
  BY <1>2, <1>3 DEF AttributesHeld, HandleHeld, KeyHeld, KeyFrom

\* A step that sets no variable of a kind keeps what is known of that kind.
LEMMA Untouched ==
  ASSUME PcInv, pc <= Len(routine), Advances, ok \/ ~At("check"),
         opened \subseteq opened'
  PROVE  /\ StringsInv /\ strings' = strings /\ Now.op \notin StringOps => StringsInv'
         /\ HandlesInv /\ handles' = handles /\ Now.op \notin HandleOps => HandlesInv'
         /\ AttrsInv /\ attrs' = attrs /\ Now.op # "attributes" => AttrsInv'
<1>1. PICK x, d, y : Steps(x, d) /\ y = Held(handles', x, Garbage)
  BY DEF Steps
<1>2. ASSUME NEW ops, Live(x, ops)' PROVE Now.op \in ops
  BY <1>1, <1>2, LiveBefore DEF Steps
<1>3. ASSUME StringsInv, strings' = strings, Now.op \notin StringOps
      PROVE  StringsInv'
  BY <1>1, <1>2, <1>3, StringsKept
<1>4. ASSUME HandlesInv, handles' = handles, Now.op \notin HandleOps
      PROVE  HandlesInv'
  BY <1>1, <1>2, <1>4, HandlesKept
<1>5. ASSUME AttrsInv, attrs' = attrs, Now.op # "attributes"
      PROVE  AttrsInv'
  BY <1>1, <1>5, AttrsKept
<1> QED
  BY <1>3, <1>4, <1>5

\* After a failure whose variable is live, the variable had never been set.
LEMMA FailedSet ==
  ASSUME PcInv, pc <= Len(routine), FailuresSeen(routine), Advances, ~ok',
         Now.op \in {"convert", "open", "ddi"},
         NEW x, x = Now.out, NEW ops, Live(x, ops)'
  PROVE  Last(x) = 0 /\ Live(x, ops)
<1>1. pc \in Nat \ {0} /\ Len(routine) \in Nat /\ pc \in 1 .. Len(routine)
  BY NowTyped
<1>2. ~At("check")
  BY DEF At
<1>3. Last(x)' = pc /\ Live(x, ops)
  BY <1>2, AdvanceFacts, LiveBefore
<1>4. FeedsKey(routine, pc + 1, x) /\ pc + 1 <= Len(routine)
  BY <1>1 DEF Live, FeedsKey, Advances
<1>5. routine[pc + 1].op # "check"
  <2>1. ~Failing(Last(x))'
    BY DEF Live
  <2>2. ~(At("check")')
    BY <1>1, <1>3, <2>1 DEF Failing, Advances
  <2> QED
    BY <1>4, <2>2 DEF At, Now, Advances
<1>6. \A i \in 1 .. pc - 1 : routine[i].out # x
  BY <1>1, <1>4, <1>5 DEF FailuresSeen, Now
<1>7. /\ Last(x) \in 0 .. pc - 1
      /\ Last(x) # 0 => routine[Last(x)].out = x
  BY <1>1, LastDefinitionRange DEF Last
<1> QED
  BY <1>1, <1>3, <1>6, <1>7

\* What a statement uses is live.
LEMMA UsedNow ==
  ASSUME PcInv, pc <= Len(routine), NEW v, v = Now.name \/ v = Now.root,
         Now.op \in {"copy", "convert", "attributes", "rtl"}
  PROVE  FeedsKey(routine, pc, v) /\ ~Failing(Last(v)) /\ v \in Names
<1>1. pc \in 1 .. Len(routine) /\ Len(routine) \in Nat /\ v \in Names
  BY NowTyped
<1>2. pc \in pc .. Len(routine)
  BY <1>1
<1>3. FeedsKey(routine, pc, v)
  BY <1>2 DEF FeedsKey, Now
<1>4. ~Failing(Last(v))
  BY DEF Failing, At
<1> QED
  BY <1>1, <1>3, <1>4

\* The string and the handle a statement uses.
LEMMA StringUsed ==
  ASSUME PcInv, pc <= Len(routine), StringsInv,
         Now.op \in {"copy", "convert", "attributes"}, Now.path = ""
  PROVE  StringHeld(Last(Now.name), Held(strings, Now.name, "unknown"))
<1>1. SetOnlyBy(routine, pc, Now.name, StringOps)
  BY NowTyped DEF IsStatement, Now
<1> QED
  BY <1>1, UsedNow DEF StringsInv, Live

LEMMA HandleUsed ==
  ASSUME PcInv, pc <= Len(routine), HandlesInv, NEW v,
         \/ Now.op = "attributes" /\ Now.root # "NULL" /\ v = Now.root
         \/ Now.op = "rtl" /\ Now.root = "RTL_REGISTRY_HANDLE" /\ v = Now.name
  PROVE  /\ SetOnlyBy(routine, pc, v, HandleOps)
         /\ HandleHeld(Last(v), Held(handles, v, Garbage))
<1>1. SetOnlyBy(routine, pc, v, HandleOps)
  BY NowTyped DEF IsStatement, Now
<1> QED
  BY <1>1, UsedNow DEF HandlesInv, Live

\* The constant that flows into the statement a routine is at.
LEMMA FlowNow ==
  ASSUME PcInv, pc <= Len(routine)
  PROVE  /\ Flow[0] = "none"
         /\ Now.path # "" => Flow[pc] = Now.path
         /\ /\ Now.path = "" /\ Now.op \in {"copy", "convert", "attributes"}
            /\ Now.op = "attributes" => Now.root = "NULL"
            => Flow[pc] = Flow[Last(Now.name)]
<1>1. Len(routine) \in Nat /\ pc \in 1 .. Len(routine) /\ pc # 0
  BY NowTyped
<1>2. Flow[0] = FlowStep(routine, Flow, 0) /\ Flow[pc] = FlowStep(routine, Flow, pc)
  BY <1>1, FlowEquation DEF Flow
<1>3. Flow[0] = "none"
  BY <1>2 DEF FlowStep
<1>4. ASSUME Now.path # "" PROVE Flow[pc] = Now.path
  <2>1. FlowStep(routine, Flow, pc) = Now.path
    BY <1>1, <1>4 DEF FlowStep, Now
  <2> QED
    BY <1>2, <2>1
<1>5. ASSUME Now.path = "", Now.op \in {"copy", "convert", "attributes"},
             Now.op = "attributes" => Now.root = "NULL"
      PROVE  Flow[pc] = Flow[Last(Now.name)]
  <2>1. FlowStep(routine, Flow, pc) = Flow[Last(Now.name)]
    BY <1>1, <1>5 DEF FlowStep, Now, Last
  <2> QED
    BY <1>2, <2>1
<1> QED
  BY <1>3, <1>4, <1>5

\* The keys opened before stay as they were.
LEMMA OpenedKept ==
  ASSUME OpenedInv, PcInv, routine' = routine, opened' = opened,
         pc' \in Nat, pc <= pc'
  PROVE  OpenedInv'
<1> SUFFICES ASSUME NEW o \in opened
             PROVE  /\ o.at \in 1 .. Len(routine') /\ o.at < pc'
                    /\ o = [at |-> o.at, key |-> o.key]
                    /\ routine'[o.at].op \in {"open", "rtl"}
                    /\ routine'[o.at].op = "open" => KeyHeld(o.at, o.key)'
                    /\ routine'[o.at].op = "rtl" /\ o.key.origin \in Paths =>
                         \E p \in ZwOpened' : p.at < o.at /\ p.key = o.key
  BY DEF OpenedInv
<1>1. Len(routine) \in Nat /\ pc \in Nat
  BY PcTyped
<1>2. PICK d, k : d = o.at /\ k = o.key
  OBVIOUS
<1>3. KeyHeld(d, k) => KeyHeld(d, k)'
  BY KeptHeld DEF Opens
<1>4. ZwOpened' = ZwOpened
  BY DEF ZwOpened
<1> QED
  BY <1>1, <1>2, <1>3, <1>4 DEF OpenedInv

\* A key opened now is added to them.
LEMMA OpenedGrows ==
  ASSUME OpenedInv, PcInv, pc <= Len(routine), Advances, NEW d, d = pc, NEW k,
         opened' = opened \cup {[at |-> d, key |-> k]},
         Now.op \in {"open", "rtl"},
         Now.op = "open" => KeyHeld(d, k)',
         Now.op = "rtl" /\ k.origin \in Paths =>
           \E p \in ZwOpened : p.at < d /\ p.key = k
  PROVE  OpenedInv'
<1> DEFINE Good(o) ==
             /\ o.at \in 1 .. Len(routine') /\ o.at < pc'
             /\ o = [at |-> o.at, key |-> o.key]
             /\ routine'[o.at].op \in {"open", "rtl"}
             /\ routine'[o.at].op = "open" => KeyHeld(o.at, o.key)'
             /\ routine'[o.at].op = "rtl" /\ o.key.origin \in Paths =>
                  \E p \in ZwOpened' : p.at < o.at /\ p.key = o.key
<1>1. pc \in 1 .. Len(routine) /\ Len(routine) \in Nat
  BY NowTyped
<1>2. ZwOpened \subseteq ZwOpened'
  BY DEF ZwOpened, Advances
<1>3. ASSUME NEW o \in opened PROVE Good(o)
  <2>1. PICK e, g : e = o.at /\ g = o.key
    OBVIOUS
  <2>2. KeyHeld(e, g) => KeyHeld(e, g)'
    BY KeptHeld DEF Opens, Advances
  <2> QED
    BY <1>1, <1>2, <2>1, <2>2 DEF OpenedInv, Advances
<1>4. Good([at |-> d, key |-> k])
  BY <1>1, <1>2 DEF Now, Advances
<1> QED
  BY <1>3, <1>4 DEF OpenedInv

-----------------------------------------------------------------------------
(* The steps.                                                               *)
DataInv == StringsInv /\ AttrsInv /\ HandlesInv /\ OpenedInv
Ready ==
  PcInv /\ FailuresSeen(routine) /\ pc <= Len(routine) /\ DataInv

LEMMA LiteralStep == Ready /\ SetString => DataInv'
<1> SUFFICES ASSUME Ready, SetString PROVE DataInv'
  OBVIOUS
<1> USE DEF Ready, DataInv
<1>1. /\ Now.op = "literal" /\ ~At("check") /\ Advances
      /\ strings' = Assign(strings, Now.out, Now.path)
      /\ attrs' = attrs /\ handles' = handles /\ opened' = opened
  BY DEF SetString, At, Advance, Advances
<1>2. PICK x, d : Steps(x, d)
  BY <1>1 DEF Steps
<1>3. Now.path \in Paths /\ Flow[d] = Now.path
  BY <1>1, <1>2, FlowNow, NowTyped DEF IsStatement, Now, Steps
<1>4. Held(strings', x, "unknown") = Now.path
  BY <1>1, <1>2, AssignHeld DEF Steps
<1>5. \A v : v # x => Held(strings', v, "unknown") = Held(strings, v, "unknown")
  BY <1>1, <1>2, AssignHeld DEF Steps
<1>6. StringsInv'
  BY <1>2, <1>3, <1>4, <1>5, StringsKept DEF StringHeld
<1>7. AttrsInv' /\ HandlesInv'
  BY <1>1, Untouched DEF HandleOps
<1>8. OpenedInv'
  BY <1>1, NowTyped, OpenedKept DEF Advances
<1> QED
  BY <1>6, <1>7, <1>8

\* A copied string is the string of the last definition of its source.
LEMMA CopiedString ==
  ASSUME Ready, Now.op \in {"copy", "convert"}, Advances, opened' = opened,
         strings' = Assign(strings, Now.out, Held(strings, Now.name, "unknown"))
  PROVE  StringsInv'
<1> USE DEF Ready, DataInv
<1>1. Now.path = ""
  BY NowTyped DEF IsStatement, Now
<1>2. PICK x, d, h : /\ Steps(x, d) /\ h = Held(strings, Now.name, "unknown")
  BY DEF Steps, At
<1>3. StringHeld(d, h)
  <2>1. StringHeld(Last(Now.name), h)
    BY <1>1, <1>2, StringUsed
  <2>2. Flow[d] = Flow[Last(Now.name)]
    BY <1>1, <1>2, FlowNow DEF Steps
  <2> QED
    BY <2>1, <2>2 DEF StringHeld
<1>4. Held(strings', x, "unknown") = h
  BY <1>2, AssignHeld DEF Steps
<1>5. \A v : v # x => Held(strings', v, "unknown") = Held(strings, v, "unknown")
  BY <1>2, AssignHeld DEF Steps
<1> QED
  BY <1>2, <1>3, <1>4, <1>5, StringsKept

LEMMA CopyStep == Ready /\ CopyString => DataInv'
<1> SUFFICES ASSUME Ready, CopyString PROVE DataInv'
  OBVIOUS
<1> USE DEF Ready, DataInv
<1>1. /\ Now.op = "copy" /\ ~At("check") /\ Advances
      /\ strings' = Assign(strings, Now.out, Held(strings, Now.name, "unknown"))
      /\ attrs' = attrs /\ handles' = handles /\ opened' = opened
  BY DEF CopyString, At, Advance, Advances
<1>2. StringsInv'
  BY <1>1, CopiedString
<1>3. AttrsInv' /\ HandlesInv'
  BY <1>1, Untouched DEF HandleOps
<1>4. OpenedInv'
  BY <1>1, NowTyped, OpenedKept DEF Advances
<1> QED
  BY <1>2, <1>3, <1>4

LEMMA ConvertStep == Ready /\ ConvertString => DataInv'
<1> SUFFICES ASSUME Ready, ConvertString PROVE DataInv'
  OBVIOUS
<1> USE DEF Ready, DataInv
<1>1. /\ Now.op = "convert" /\ ~At("check") /\ Advances
      /\ attrs' = attrs /\ handles' = handles /\ opened' = opened
  BY DEF ConvertString, At, Advance, Advances
<1>2. ASSUME strings' = Assign(strings, Now.out,
                                Held(strings, Now.name, "unknown"))
      PROVE  StringsInv'
  BY <1>1, <1>2, CopiedString
<1>3. ASSUME strings' = strings, ~ok'
      PROVE  StringsInv'
  <2>1. PICK x, d : Steps(x, d)
    BY <1>1 DEF Steps
  <2>2. ASSUME Live(x, StringOps)'
        PROVE  StringHeld(d, Held(strings', x, "unknown"))
    <3>1. Last(x) = 0 /\ Live(x, StringOps)
      BY <1>1, <1>3, <2>1, <2>2, FailedSet DEF Steps
    <3>2. x \in Names /\ Flow[0] = "none"
      BY <2>1, NowTyped, FlowNow DEF Steps
    <3>3. StringHeld(0, Held(strings, x, "unknown"))
      BY <3>1, <3>2 DEF StringsInv
    <3> QED
      BY <1>3, <3>2, <3>3 DEF StringHeld, Paths
  <2> QED
    BY <1>3, <2>1, <2>2, StringsKept
<1>4. StringsInv'
  BY <1>2, <1>3 DEF ConvertString
<1>5. AttrsInv' /\ HandlesInv'
  BY <1>1, Untouched DEF HandleOps
<1>6. OpenedInv'
  BY <1>1, NowTyped, OpenedKept DEF Advances
<1> QED
  BY <1>4, <1>5, <1>6

\* What InitializeObjectAttributes stores.
LEMMA AttributesStep == Ready /\ SetAttributes => DataInv'
<1> SUFFICES ASSUME Ready, SetAttributes PROVE DataInv'
  OBVIOUS
<1> USE DEF Ready, DataInv
<1> DEFINE name == IF Now.path # "" THEN Now.path
                   ELSE Held(strings, Now.name, "unknown")
           root == IF Now.root = "NULL" THEN Null
                   ELSE Held(handles, Now.root, Garbage)
<1>1. /\ Now.op = "attributes" /\ ~At("check") /\ Advances
      /\ strings' = strings /\ handles' = handles /\ opened' = opened
  BY DEF SetAttributes, At, Advance, Advances
<1>2. PICK x, d, y : Steps(x, d) /\ y = [name |-> name, root |-> root]
  BY <1>1 DEF Steps
<1>3. attrs' = Assign(attrs, x, y)
  BY <1>2 DEF SetAttributes, Steps
<1>4. name \in Paths \cup {"unknown"}
  <2>1. CASE Now.path # ""
    BY <2>1, NowTyped DEF IsStatement, Now
  <2>2. CASE Now.path = ""
    BY <1>1, <2>2, StringUsed DEF StringHeld
  <2> QED
    BY <2>1, <2>2
<1>5. ASSUME Now.root = "NULL" PROVE name \in {"unknown", Flow[d]}
  <2>1. CASE Now.path # ""
    BY <1>2, <2>1, FlowNow DEF Steps
  <2>2. CASE Now.path = ""
    <3>1. Flow[d] = Flow[Last(Now.name)]
      BY <1>1, <1>2, <1>5, <2>2, FlowNow DEF Steps
    <3>2. StringHeld(Last(Now.name), Held(strings, Now.name, "unknown"))
      BY <1>1, <2>2, StringUsed
    <3> QED
      BY <2>2, <3>1, <3>2 DEF StringHeld
  <2> QED
    BY <2>1, <2>2
<1>6. ASSUME Now.root # "NULL" PROVE HandleHeld(Last(Now.root), root)
  BY <1>1, <1>6, HandleUsed
<1>7. AttributesHeld(d, y)
  <2>1. y.name = name /\ y.root = root
    BY <1>2
  <2>2. Now = routine[d] /\ Last(Now.root) = LastDefinition(routine, d, Now.root)
    BY <1>2 DEF Steps, Now, Last
  <2> HIDE DEF name
  <2>3. CASE Now.root = "NULL"
    BY <1>4, <1>5, <2>1, <2>2, <2>3 DEF AttributesHeld
  <2>4. CASE Now.root # "NULL"
    <3> HIDE DEF root
    <3> QED
      BY <1>4, <1>6, <2>1, <2>2, <2>4 DEF AttributesHeld
  <2> QED
    BY <2>3, <2>4
<1>8. AttributesHeld(d, y)'
  BY <1>1, <1>7, KeptHeld DEF Opens, Advances
<1>9. x \in DOMAIN attrs' /\ attrs'[x] = y
  BY <1>3 DEF Assign
<1>10. \A v : v # x /\ v \in DOMAIN attrs =>
              v \in DOMAIN attrs' /\ attrs'[v] = attrs[v]
  BY <1>3, AssignHeld
<1>11. AttrsInv'
  <2> HIDE DEF Ready
  <2> QED
    BY <1>2, <1>8, <1>9, <1>10, AttrsKept DEF Ready
<1>12. StringsInv' /\ HandlesInv'
  BY <1>1, Untouched DEF HandleOps, StringOps
<1>13. OpenedInv'
  BY <1>1, NowTyped, OpenedKept DEF Advances
<1> QED
  BY <1>11, <1>12, <1>13

LEMMA KeyCases ==
  ASSUME NEW x, NEW w
  PROVE  /\ x.root = Null => Key(x, w) = [origin |-> x.name, write |-> w]
         /\ x.root = Garbage => Key(x, w) = [origin |-> "anywhere", write |-> w]
         /\ x.root # Null /\ x.root # Garbage => Key(x, w) = x.root
<1>1. Null # Garbage
  BY DEF Null, Garbage
<1> HIDE DEF Null, Garbage
<1> QED
  BY <1>1 DEF Key

\* The key ZwOpenKey opens is one its first call made.
LEMMA KeyOfOpen ==
  ASSUME Ready, Now.op = "open", NEW d, d = pc, NEW k,
         k = Key(attrs[Now.name], Now.access = "write"),
         Opens, [at |-> d, key |-> k] \in opened'
  PROVE  KeyHeld(d, k)'
<1> USE DEF Ready, DataInv
<1> DEFINE a == Last(Now.name)
           x == attrs[Now.name]
           r == routine[a].root
           e == LastDefinition(routine, a, r)
<1>1. d \in 1 .. Len(routine) /\ Len(routine) \in Nat /\ d \in Nat \ {0}
  BY NowTyped
<1>2. /\ SetOnlyBy(routine, pc, Now.name, {"attributes"})
      /\ \E j \in 1 .. d - 1 : routine[j].out = Now.name
  BY NowTyped DEF IsStatement, Now
<1>3. a \in 1 .. d - 1 /\ routine[a].op = "attributes"
  <2>1. a # 0
    BY <1>1, <1>2, LastDefinitionRange DEF Last
  <2> QED
    BY <1>1, <1>2, <2>1, LastSetOnlyBy DEF Last
<1>4. AttributesHeld(a, x)
  BY <1>2, <1>3, NowTyped DEF AttrsInv
<1>5. a = AttributesAt(routine, d) /\ a # 0
  BY <1>3 DEF AttributesAt, Last, Now
<1>6. First[d] = IF RootCall(routine, d) # 0 THEN First[RootCall(routine, d)] ELSE d
  <2>1. First[d] = FirstStep(routine, First, d)
    BY <1>1, FirstCallEquation DEF First
  <2> QED
    BY <2>1 DEF FirstStep, Now
<1>7. RootCall(routine, d) = IF r # "NULL" /\ e # 0 /\ routine[e].op \in {"open", "ddi"}
                             THEN e ELSE 0
  <2> HIDE DEF a
  <2> QED
    BY <1>5 DEF RootCall
<1>8. /\ zwWrite(routine[d]) <=> Now.access = "write"
      /\ routine[d].op = "open" /\ [at |-> d, key |-> k] \in opened'
  BY DEF zwWrite, Now
\* An open without a root call.
<1>9. ASSUME RootCall(routine, d) = 0, k.write = zwWrite(routine[d]),
             k.origin \in Paths \cup {"unknown"},
             r = "NULL" => k.origin \in {"unknown", Flow[a]}
      PROVE  KeyHeld(d, k)'
  <2>1. KeyFrom(d, k)'
    BY <1>1, <1>5, <1>8, <1>9 DEF KeyFrom, Flow, Opens
  <2>2. First' = First
    BY DEF First, Opens
  <2>3. k.origin \notin {"NULL", "garbage"}
    BY <1>9 DEF Paths
  <2> QED
    BY <1>6, <1>8, <1>9, <2>1, <2>2, <2>3 DEF KeyHeld
<1>10. ASSUME x.root = Garbage PROVE k.origin = "anywhere"
  <2>1. PICK w : k = Key(x, w)
    OBVIOUS
  <2> QED
    BY <1>10, <2>1, KeyCases
<1>11. ASSUME x.root = Null
       PROVE  k.origin = x.name /\ k.write = zwWrite(routine[d])
  <2>1. PICK w : k = Key(x, w) /\ w = zwWrite(routine[d])
    BY Zenon DEF zwWrite, Now
  <2>2. k = [origin |-> x.name, write |-> w]
    BY <1>11, <2>1, KeyCases
  <2> QED
    BY <2>1, <2>2
<1>12. CASE k.origin = "anywhere"
  BY <1>8, <1>12 DEF KeyHeld
<1>13. CASE r = "NULL"
  BY <1>4, <1>7, <1>9, <1>11, <1>13 DEF AttributesHeld
<1>14. CASE r # "NULL" /\ e = 0
  BY <1>4, <1>10, <1>12, <1>14 DEF AttributesHeld, HandleHeld
<1>15. CASE r # "NULL" /\ e # 0 /\ routine[e].op = "null"
  BY <1>4, <1>7, <1>9, <1>11, <1>15 DEF AttributesHeld, HandleHeld
<1>16. CASE r # "NULL" /\ e # 0 /\ routine[e].op # "null"
  <2>1. CASE x.root = Garbage
    BY <1>10, <1>12, <2>1
  <2>2. CASE KeyHeld(e, x.root)
    <3>1. k = x.root
      <4>1. x.root # Null /\ x.root # Garbage
        BY <2>2 DEF KeyHeld, Null, Garbage
      <4>2. PICK w : k = Key(x, w)
        OBVIOUS
      <4> QED
        BY <4>1, <4>2, KeyCases
    <3>2. RootCall(routine, d) = e
      <4>1. SetOnlyBy(routine, a, r, HandleOps)
        <5>1. IsStatement(routine, a)
          BY <1>1, <1>3, PcTyped
        <5> QED
          BY <1>3, <1>16, <5>1 DEF IsStatement
      <4>2. routine[e].op \in HandleOps
        BY <1>1, <1>3, <1>16, <4>1, LastSetOnlyBy
      <4> QED
        BY <1>7, <1>16, <4>2 DEF HandleOps
    <3>3. PICK g : g = e /\ KeyHeld(g, k)
      BY <2>2, <3>1
    <3>4. KeyHeld(g, k)'
      BY <3>3, KeptHeld
    <3>5. First' = First /\ First[d] = First[g]
      BY <1>6, <1>16, <3>2, <3>3 DEF First, Opens
    <3> QED
      BY <1>8, <3>4, <3>5 DEF KeyHeld
  <2> QED
    BY <1>4, <1>16, <2>1, <2>2 DEF AttributesHeld, HandleHeld
<1> QED
  BY <1>13, <1>14, <1>15, <1>16

\* A handle variable after a call that sets it and after one that fails.
LEMMA HandleSet ==
  ASSUME Ready, Advances, ok \/ ~At("check"), opened \subseteq opened',
         NEW d, d = pc, NEW k, HandleHeld(d, k)',
         handles' = Assign(handles, Now.out, k)
  PROVE  HandlesInv'
<1> USE DEF Ready, DataInv
<1>1. PICK x : Steps(x, d)
  BY DEF Steps
<1>2. Held(handles', x, Garbage) = k
  BY <1>1, AssignHeld DEF Steps
<1>3. \A v : v # x => Held(handles', v, Garbage) = Held(handles, v, Garbage)
  BY <1>1, AssignHeld DEF Steps
<1> QED
  BY <1>1, <1>2, <1>3, HandlesKept

LEMMA HandleNotSet ==
  ASSUME Ready, Advances, opened' = opened, handles' = handles, ~ok',
         Now.op \in {"open", "ddi"}
  PROVE  HandlesInv'
<1> USE DEF Ready, DataInv
<1>1. PICK x, d, y : Steps(x, d) /\ y = Held(handles', x, Garbage)
  BY DEF Steps, At
<1>2. ASSUME Live(x, HandleOps)' PROVE HandleHeld(d, y)'
  <2>1. Last(x) = 0 /\ Live(x, HandleOps)
    BY <1>1, <1>2, FailedSet DEF Steps
  <2>2. x \in Names /\ d \in Nat \ {0}
    BY <1>1, NowTyped DEF Steps
  <2>3. y = Garbage
    BY <1>1, <2>1, <2>2 DEF HandlesInv, HandleHeld
  <2>4. HandleHeld(d, y)
    BY <1>1, <2>2, <2>3 DEF HandleHeld, Steps, Now
  <2> QED
    BY <2>4, KeptHeld DEF Opens, Advances
<1> QED
  BY <1>1, <1>2, HandlesKept

LEMMA OpenStep == Ready /\ OpenKey => DataInv'
<1> SUFFICES ASSUME Ready, OpenKey PROVE DataInv'
  OBVIOUS
<1> USE DEF Ready, DataInv
<1>1. /\ Now.op = "open" /\ ~At("check") /\ Advances
      /\ strings' = strings /\ attrs' = attrs /\ opened \subseteq opened'
  BY DEF OpenKey, At, Advance, Advances, Fail
<1>2. PICK d, k : d = pc /\ k = Key(attrs[Now.name], Now.access = "write")
  OBVIOUS
<1>3. CASE /\ handles' = Assign(handles, Now.out, k)
           /\ opened' = opened \cup {[at |-> d, key |-> k]}
  <2>1. KeyHeld(d, k)'
    BY <1>1, <1>2, <1>3, KeyOfOpen DEF Opens, Advances
  <2>2. HandleHeld(d, k)'
    BY <1>1, <1>2, <2>1, NowTyped DEF HandleHeld, Now, Advances
  <2>3. HandlesInv'
    BY <1>1, <1>2, <1>3, <2>2, HandleSet
  <2>4. OpenedInv'
    BY <1>1, <1>2, <1>3, <2>1, OpenedGrows
  <2> QED
    BY <1>1, <2>3, <2>4, Untouched DEF StringOps
<1>4. CASE Fail
  <2>1. HandlesInv'
    BY <1>1, <1>4, HandleNotSet DEF Fail
  <2>2. OpenedInv'
    BY <1>1, <1>4, NowTyped, OpenedKept DEF Advances, Fail
  <2> QED
    BY <1>1, <2>1, <2>2, Untouched DEF StringOps
<1> QED
  BY <1>2, <1>3, <1>4 DEF OpenKey

LEMMA ObtainStep == Ready /\ ObtainHandle => DataInv'
<1> SUFFICES ASSUME Ready, ObtainHandle PROVE DataInv'
  OBVIOUS
<1> USE DEF Ready, DataInv
<1>1. /\ Now.op = "ddi" /\ ~At("check") /\ Advances
      /\ strings' = strings /\ attrs' = attrs /\ opened' = opened
  BY DEF ObtainHandle, At, Advance, Advances, Fail
<1>2. PICK d, k : d = pc /\ k = [origin |-> Now.name, write |-> FALSE]
  OBVIOUS
<1>3. OpenedInv'
  BY <1>1, NowTyped, OpenedKept DEF Advances
<1>4. CASE handles' = Assign(handles, Now.out, k)
  <2>1. d \in 1 .. Len(routine) /\ Len(routine) \in Nat /\ d # 0
    BY <1>2, NowTyped
  <2>2. First[d] = d
    BY <1>1, <1>2, <2>1, FirstCallEquation DEF First, FirstStep, Now
  <2>3. k.origin \notin {"NULL", "garbage"}
    BY <1>1, <1>2, NowTyped DEF IsStatement, Now
  <2>4. routine[d].op = "ddi" /\ KeyFrom(d, k)
    BY <1>1, <1>2, <2>1 DEF KeyFrom, Now
  <2>5. KeyHeld(d, k)
    BY <2>2, <2>3, <2>4 DEF KeyHeld
  <2>6. HandleHeld(d, k)'
    BY <1>1, <2>1, <2>4, <2>5, KeptHeld DEF HandleHeld, Opens, Advances
  <2>7. HandlesInv'
    BY <1>1, <1>2, <1>4, <2>6, HandleSet
  <2> QED
    BY <1>1, <1>3, <2>7, Untouched DEF StringOps
<1>5. CASE Fail
  <2>1. HandlesInv'
    BY <1>1, <1>5, HandleNotSet DEF Fail
  <2> QED
    BY <1>1, <1>3, <2>1, Untouched DEF StringOps
<1> QED
  BY <1>2, <1>4, <1>5 DEF ObtainHandle

LEMMA NullStep == Ready /\ NullHandle => DataInv'
<1> SUFFICES ASSUME Ready, NullHandle PROVE DataInv'
  OBVIOUS
<1> USE DEF Ready, DataInv
<1>1. /\ Now.op = "null" /\ ~At("check") /\ Advances
      /\ strings' = strings /\ attrs' = attrs /\ opened' = opened
      /\ handles' = Assign(handles, Now.out, Null)
  BY DEF NullHandle, At, Advance, Advances
<1>2. PICK d, k : d = pc /\ k = Null
  OBVIOUS
<1>3. HandleHeld(d, k)'
  BY <1>1, <1>2, NowTyped DEF HandleHeld, Now, Advances, Null
<1>4. HandlesInv'
  BY <1>1, <1>2, <1>3, HandleSet
<1>5. OpenedInv'
  BY <1>1, NowTyped, OpenedKept DEF Advances
<1> QED
  BY <1>1, <1>4, <1>5, Untouched DEF StringOps

LEMMA UseStep == Ready /\ Use => DataInv'
<1> SUFFICES ASSUME Ready, Use PROVE DataInv'
  OBVIOUS
<1> USE DEF Ready, DataInv
<1>1. /\ Now.op = "use" /\ ~At("check") /\ Advances
      /\ strings' = strings /\ attrs' = attrs /\ handles' = handles
      /\ opened' = opened
  BY DEF Use, At, Advance, Advances
<1>2. OpenedInv'
  BY <1>1, NowTyped, OpenedKept DEF Advances
<1> QED
  BY <1>1, <1>2, Untouched DEF StringOps, HandleOps

\* A routine that returns keeps the keys it has opened.
LEMMA ReturnStep ==
  Ready /\ ReturnOnFailure => (pc' <= Len(routine') => DataInv') /\ OpenedInv'
<1> SUFFICES ASSUME Ready, ReturnOnFailure
             PROVE  (pc' <= Len(routine') => DataInv') /\ OpenedInv'
  OBVIOUS
<1> USE DEF Ready, DataInv
<1>1. /\ Now.op = "check" /\ routine' = routine /\ strings' = strings
      /\ attrs' = attrs /\ handles' = handles /\ opened' = opened
      /\ pc' = IF ok THEN pc + 1 ELSE Len(routine) + 1
  BY DEF ReturnOnFailure, At
<1>2. pc \in 1 .. Len(routine) /\ Len(routine) \in Nat
  BY NowTyped
<1>3. OpenedInv'
  BY <1>1, <1>2, OpenedKept
<1>4. CASE ok
  BY <1>1, <1>3, <1>4, Untouched DEF StringOps, HandleOps, Advances
<1>5. CASE ~ok
  BY <1>1, <1>2, <1>3, <1>5
<1> QED
  BY <1>4, <1>5

\* A value is written below RelativeTo or through a handle.
LEMMA RtlStep == Ready /\ RtlWrite => DataInv'
<1> SUFFICES ASSUME Ready, RtlWrite PROVE DataInv'
  OBVIOUS
<1> USE DEF Ready, DataInv
<1>1. /\ Now.op = "rtl" /\ ~At("check") /\ Advances
      /\ strings' = strings /\ attrs' = attrs /\ handles' = handles
      /\ opened \subseteq opened'
  BY DEF RtlWrite, At, Advance, Advances
<1>2. CASE opened' = opened
  BY <1>1, <1>2, NowTyped, OpenedKept, Untouched
     DEF Advances, StringOps, HandleOps
<1>3. PICK d, k :
        /\ d = pc
        /\ k = IF Now.root = "RTL_REGISTRY_HANDLE"
               THEN Held(handles, Now.name, Garbage)
               ELSE [origin |-> Now.root, write |-> TRUE]
  OBVIOUS
<1>4. ASSUME k.origin \in Paths
      PROVE  \E p \in ZwOpened : p.at < d /\ p.key = k
  <2>1. Now.root = "RTL_REGISTRY_HANDLE"
    BY <1>1, <1>3, <1>4, NowTyped DEF IsStatement, Now
  <2>2. PICK e : e = Last(Now.name)
    OBVIOUS
  <2>3. SetOnlyBy(routine, pc, Now.name, HandleOps) /\ HandleHeld(e, k)
    BY <1>1, <1>3, <2>1, <2>2, HandleUsed
  <2>4. e # 0 /\ KeyHeld(e, k)
    BY <1>4, <2>3 DEF HandleHeld, Garbage, Null, Paths
  <2>5. e \in 1 .. d - 1 /\ routine[e].op \in HandleOps
    BY <1>3, <2>2, <2>3, <2>4, NowTyped, LastSetOnlyBy DEF Last
  <2>6. e \in 1 .. Len(routine) /\ Len(routine) \in Nat
    BY <1>3, <2>5, NowTyped
  <2>7. routine[e].op # "ddi"
    <3> SUFFICES ASSUME routine[e].op = "ddi" PROVE FALSE
      OBVIOUS
    <3>1. First[e] = e
      BY <2>6, FirstCallEquation DEF First, FirstStep
    <3>2. k.origin = routine[e].name \/ k.origin = "anywhere"
      BY <2>4, <3>1 DEF KeyHeld, KeyFrom
    <3>3. routine[e].name \notin Paths
      BY <2>6, PcTyped DEF IsStatement
    <3> QED
      BY <1>4, <3>2, <3>3 DEF Paths
  <2>8. routine[e].op # "null"
    BY <1>4, <2>3, <2>4 DEF HandleHeld, Null, Paths
  <2>9. routine[e].op = "open" /\ [at |-> e, key |-> k] \in opened
    BY <2>4, <2>5, <2>7, <2>8 DEF HandleOps, KeyHeld
  <2>10. [at |-> e, key |-> k] \in ZwOpened
    BY <2>9 DEF ZwOpened
  <2>11. e < d
    BY <1>3, <2>5, NowTyped
  <2> QED
    BY <2>10, <2>11
<1>5. CASE opened' = opened \cup {[at |-> d, key |-> k]}
  <2>1. OpenedInv'
    BY <1>1, <1>3, <1>4, <1>5, OpenedGrows
  <2> QED
    BY <1>1, <2>1, Untouched DEF StringOps, HandleOps
<1> QED
  BY <1>2, <1>3, <1>5 DEF RtlWrite

LEMMA Stutter ==
  ASSUME IsolationInv, UNCHANGED vars
  PROVE  IsolationInv'
<1>1. /\ routine' = routine /\ pc' = pc /\ strings' = strings
      /\ attrs' = attrs /\ handles' = handles /\ ok' = ok /\ opened' = opened
  BY DEF vars
<1>2. Opens
  BY <1>1 DEF Opens
<1>3. \A v : Last(v)' = Last(v)
  BY <1>1 DEF Last
<1>4. \A d : Failing(d)' <=> Failing(d)
  BY <1>1 DEF Failing, At, Now
<1>5. \A v, ops : Live(v, ops)' => Live(v, ops)
  BY <1>1, <1>3, <1>4 DEF Live
<1>6. Names' = Names
  BY <1>1 DEF Names
<1>7. StringsInv => StringsInv'
  BY <1>1, <1>2, <1>3, <1>5, <1>6, KeptHeld DEF StringsInv
<1>8. HandlesInv => HandlesInv'
  BY <1>1, <1>2, <1>3, <1>5, <1>6, KeptHeld DEF HandlesInv
<1>9. AttrsInv => AttrsInv'
  BY <1>1, <1>2, <1>3, <1>6, KeptHeld DEF AttrsInv
<1>10. OpenedInv => OpenedInv'
  <2>1. ZwOpened' = ZwOpened
    BY <1>1 DEF ZwOpened
  <2> QED
    BY <1>1, <1>2, <2>1, KeptHeld DEF OpenedInv
<1> QED
  BY <1>1, <1>7, <1>8, <1>9, <1>10 DEF IsolationInv, PcInv

-----------------------------------------------------------------------------
(* The theorems.                                                            *)

\* In every reachable state a variable holds what its last definition leaves,
\* and a key is what its first call made it.
THEOREM IsolationInvCorrect == Spec => []IsolationInv
<1>1. Init => IsolationInv
  <2> SUFFICES ASSUME Init PROVE IsolationInv
    OBVIOUS
  <2> USE DEF Init
  <2>1. PcInv
    <3>1. IsRoutine(routine)
      BY RoutinesAssumption
    <3>2. Len(routine) \in Nat
      <4> DEFINE R == [line : Int, op : Ops, out : STRING, name : STRING,
                       path : Paths \cup {""}, root : STRING, access : STRING]
      <4>1. routine \in Seq(R)
        BY <3>1 DEF IsRoutine
      <4> HIDE DEF R
      <4> QED
        BY <4>1
    <3> QED
      BY <3>2 DEF PcInv
  <2>2. \A v : Last(v) = 0
    <3>1. ASSUME NEW v PROVE LastDefinition(routine, 1, v) = 0
      <4>1. LastDefinition(routine, 1, v) \in 0 .. 1 - 1
        BY LastDefinitionRange, 1 \in Nat \ {0}
      <4> HIDE DEF Init
      <4> QED
        BY <4>1
    <3> QED
      BY <3>1 DEF Last
  <2>3. \A v, default : Held(<<>>, v, default) = default
    BY DEF Held
  <2>4. StringsInv
    BY <2>3 DEF StringsInv, StringHeld
  <2>5. HandlesInv
    BY <2>2, <2>3 DEF HandlesInv, HandleHeld
  <2>6. AttrsInv /\ OpenedInv
    BY <2>2 DEF AttrsInv, OpenedInv
  <2> QED
    BY <2>1, <2>4, <2>5, <2>6 DEF IsolationInv
<1>2. IsolationInv /\ [Next]_vars => IsolationInv'
  <2> SUFFICES ASSUME IsolationInv, [Next]_vars PROVE IsolationInv'
    OBVIOUS
  <2>1. CASE UNCHANGED vars
    BY <2>1, Stutter
  <2>2. CASE Next
    <3>1. pc <= Len(routine)
      BY <2>2 DEF Next, SetString, CopyString, ConvertString, SetAttributes,
         OpenKey, ObtainHandle, NullHandle, ReturnOnFailure, Use, RtlWrite, At
    <3>2. PcInv
      BY DEF IsolationInv
    <3>3. routine' = routine /\ pc' \in {pc + 1, Len(routine) + 1}
      BY <2>2 DEF Next, SetString, CopyString, ConvertString, SetAttributes,
         OpenKey, ObtainHandle, NullHandle, ReturnOnFailure, Use, RtlWrite,
         Advance
    <3>4. PcInv'
      BY <3>1, <3>2, <3>3, NowTyped DEF PcInv
    <3>5. ASSUME FailuresSeen(routine)
          PROVE  (pc' <= Len(routine') => DataInv') /\ OpenedInv'
      <4>1. Ready
        BY <3>1, <3>2, <3>5 DEF IsolationInv, Ready, DataInv
      <4> QED
        BY <2>2, <4>1, LiteralStep, CopyStep, ConvertStep, AttributesStep,
           OpenStep, ObtainStep, NullStep, ReturnStep, UseStep, RtlStep
           DEF Next, DataInv
    <3> QED
      BY <3>3, <3>4, <3>5 DEF IsolationInv, DataInv
  <2> QED
    BY <2>1, <2>2
<1> QED
  BY <1>1, <1>2, PTL DEF Spec

\* No constant flows through a root variable.
LEMMA NoFlow ==
  ASSUME PcInv, NEW i \in 1 .. Len(routine), routine[i].op = "open",
         routine[AttributesAt(routine, i)].root # "NULL"
  PROVE  ~NotAllowedHandleRegFuncCall(routine, i)
<1> DEFINE a == AttributesAt(routine, i)
<1>1. Len(routine) \in Nat /\ i \in Nat \ {0} /\ IsStatement(routine, i)
  BY PcTyped
<1>2. /\ SetOnlyBy(routine, i, routine[i].name, {"attributes"})
      /\ \E j \in 1 .. i - 1 : routine[j].out = routine[i].name
  BY <1>1 DEF IsStatement
<1>3. a \in 1 .. i - 1 /\ routine[a].op = "attributes"
  <2>1. a # 0
    BY <1>1, <1>2, LastDefinitionRange DEF AttributesAt
  <2>2. a \in 1 .. i - 1 /\ routine[a].op \in {"attributes"}
    <3> DEFINE v == routine[i].name
    <3>1. ASSUME LastDefinition(routine, i, v) # 0
          PROVE  /\ LastDefinition(routine, i, v) \in 1 .. i - 1
                 /\ routine[LastDefinition(routine, i, v)].op \in {"attributes"}
      <4> HIDE DEF v
      <4>1. SetOnlyBy(routine, i, v, {"attributes"})
        BY <1>2 DEF v
      <4> QED
        BY <1>1, <3>1, <4>1, LastSetOnlyBy
    <3> QED
      BY <2>1, <3>1 DEF AttributesAt
  <2> QED
    BY <2>2
<1>4. a \in 1 .. Len(routine) /\ a \in 0 .. Len(routine) /\ a # 0
  BY <1>1, <1>3
<1>5. routine[a].path = ""
  <2>1. IsStatement(routine, a)
    BY <1>4, PcTyped
  <2> QED
    BY <1>3, <2>1 DEF IsStatement
<1>6. Flow[a] = "none"
  <2>1. Flow[a] = FlowStep(routine, Flow, a)
    BY <1>1, <1>4, FlowEquation DEF Flow
  <2>2. FlowStep(routine, Flow, a) = "none"
    BY <1>3, <1>4, <1>5 DEF FlowStep
  <2> QED
    BY <2>1, <2>2
<1> QED
  BY <1>6 DEF NotAllowedHandleRegFuncCall, Flow

\* What is reported of a call is decided at the first call of its key.
Violates(f) ==
  IF routine[f].op = "ddi" THEN ~AllowedHandleDDI(routine[f].name)
  ELSE NotAllowedHandleRegFuncCall(routine, f)
LEMMA ReportedByFirst ==
  ASSUME PcInv, NEW i \in 1 .. Len(routine), routine[i].op = "open"
  PROVE  Reported(routine, i) <=> Violates(First[i])
<1>1. Len(routine) \in Nat
  BY PcTyped
<1>2. First[i] = IF RootCall(routine, i) # 0 THEN First[RootCall(routine, i)] ELSE i
  <2>1. First[i] = FirstStep(routine, First, i)
    BY <1>1, FirstCallEquation DEF First
  <2> QED
    BY <2>1 DEF FirstStep
<1>3. RootCall(routine, i) # 0 => ~NotAllowedHandleRegFuncCall(routine, i)
  BY NoFlow DEF RootCall
<1> QED
  BY <1>2, <1>3 DEF Reported, ZwViolation1, ZwViolation2, rtlViolation1,
     rtlViolation2, Violates, First

\* A key is outside if and only if its first call violates the rules, the
\* latter only if the path was looked at.
LEMMA OutsideByFirst ==
  ASSUME PcInv, NEW f, NEW k, KeyFrom(f, k), Known(k)
  PROVE  /\ Violates(f) => Outside(k)
         /\ Outside(k) /\ ~UnseenPath(k) => Violates(f)
<1> DEFINE a == AttributesAt(routine, f)
<1>1. f \in 1 .. Len(routine) /\ IsStatement(routine, f)
  BY PcTyped DEF KeyFrom
<1>2. CASE routine[f].op = "ddi"
  <2>1. k.origin = routine[f].name
    <3>1. k = [origin |-> routine[f].name, write |-> FALSE]
      BY <1>2 DEF KeyFrom
    <3> QED
      BY <3>1
  <2>2. routine[f].name \notin Paths
    <3> DEFINE n == routine[f].name
    <3>1. n \notin Paths \cup {"NULL", "garbage", "unknown", "anywhere"}
      BY <1>1, <1>2 DEF IsStatement
    <3> QED
      BY <3>1
  <2> QED
    BY <1>2, <2>1, <2>2 DEF Violates, Outside, AllowedHandleDDI
<1>3. CASE routine[f].op # "ddi" /\ routine[a].root # "NULL"
  <2>1. /\ routine[f].op = "open" /\ RootCall(routine, f) = 0
        /\ [at |-> f, key |-> k] \in opened
    BY <1>3 DEF KeyFrom
  <2>2. UnseenPath(k)
    <3> DEFINE o == [at |-> f, key |-> k]
    <3>1. o \in ZwOpened /\ o.key = k /\ o.at = f
      BY <2>1 DEF ZwOpened
    <3> HIDE DEF o
    <3> QED
      BY <1>3, <2>1, <3>1 DEF UnseenPath
  <2>3. ~Violates(f)
    BY <1>1, <1>3, <2>1, NoFlow DEF Violates
  <2> QED
    BY <2>2, <2>3
<1>4. CASE routine[f].op # "ddi" /\ routine[a].root = "NULL"
  <2>1. k.origin = Flow[a] /\ k.origin \in Paths
    BY <1>4 DEF KeyFrom, Known
  <2>2. k.write = zwWrite(routine[f])
    BY <1>4 DEF KeyFrom
  <2>3. Violates(f) <=> \/ allowedPath(k.origin) /\ ~pathWriteException(k.origin) /\ k.write
                        \/ ~allowedPath(k.origin)
    <3>1. k.origin # "none"
      BY <2>1 DEF Paths
    <3> QED
      BY <1>4, <2>1, <2>2, <3>1 DEF Violates, NotAllowedHandleRegFuncCall, Flow
  <2>4. Outside(k) <=> k.origin = "elsewhere" \/ (k.write /\ k.origin # "serialcomm")
    BY <2>1 DEF Outside
  <2> QED
    BY <2>1, <2>3, <2>4
       DEF allowedPath, pathException, pathWriteException, Paths
<1> QED
  BY <1>2, <1>3, <1>4

\* What is known of a key that was opened.
LEMMA OpenedKey ==
  ASSUME IsolationInv, FailuresSeen(routine), NEW o \in ZwOpened, Known(o.key)
  PROVE  /\ o.at \in 1 .. Len(routine) /\ routine[o.at].op = "open"
         /\ KeyFrom(First[o.at], o.key)
<1>1. KeyHeld(o.at, o.key) /\ o.at \in 1 .. Len(routine)
  BY DEF IsolationInv, OpenedInv, ZwOpened
<1> QED
  BY <1>1 DEF KeyHeld, Known, ZwOpened

\* OutsideOpenReported: for every routine that looks at the status where it
\* matters, whatever fails, no key outside is opened without an alert.
THEOREM OutsideReported == Spec => []OutsideOpenReported
<1>1. IsolationInv => OutsideOpenReported
  BY OpenedKey, ReportedByFirst, OutsideByFirst
     DEF OutsideOpenReported, IsolationInv
<1> QED
  BY <1>1, IsolationInvCorrect, PTL

\* IsolationAlertsAreReal: and no key inside is opened with one.
THEOREM AlertsOutside == Spec => []IsolationAlertsAreReal
<1>1. IsolationInv => IsolationAlertsAreReal
  BY OpenedKey, ReportedByFirst, OutsideByFirst
     DEF IsolationAlertsAreReal, IsolationInv
<1> QED
  BY <1>1, IsolationInvCorrect, PTL

\* CaughtWhenOpened: where a key outside is written to through a handle, and
\* the key descends from a path or was opened below a handle of a function, it
\* was opened with an alert before.
THEOREM WritesCaught == Spec => []CaughtWhenOpened
<1>1. IsolationInv => CaughtWhenOpened
  <2> SUFFICES ASSUME IsolationInv, FailuresSeen(routine), NEW o \in opened,
                      routine[o.at].op = "rtl", Known(o.key), Outside(o.key),
                      o.key.origin \in Paths \/ OpenedBefore(o) # {},
                      ~UnseenPath(o.key)
               PROVE  \E p \in OpenedBefore(o) : Reported(routine, p.at)
    BY DEF CaughtWhenOpened
  <2>1. PICK p \in OpenedBefore(o) : TRUE
    BY DEF IsolationInv, OpenedInv, OpenedBefore
  <2>2. p \in ZwOpened /\ p.key = o.key
    BY <2>1 DEF OpenedBefore
  <2>3. Reported(routine, p.at)
    BY <2>2, OpenedKey, ReportedByFirst, OutsideByFirst DEF IsolationInv
  <2> QED
    BY <2>1, <2>3
<1> QED
  BY <1>1, IsolationInvCorrect, PTL
=============================================================================
