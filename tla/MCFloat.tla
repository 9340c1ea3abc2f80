------------------------------- MODULE MCFloat -------------------------------
(* The snippets, and all functions with one branch and short blocks.        *)
EXTENDS FloatSnippets

RoutinesOf(s) == {s[l] : l \in DOMAIN s}
Snippets ==
  UNION {RoutinesOf(s) : s \in {FloatUnsafeExitSnippet, FloatSafeExitSnippet,
                                FloatHardwareSnippet}}

\* What a block of a branch may do.
Results == {"unused", "checked"}
Bodies ==
  {<<>>, <<Float>>}
  \cup {<<Save(x)>> : x \in Results} \cup {<<Restore(x)>> : x \in Results}
LongBodies ==
  Bodies \cup {<<Float, Save(x)>> : x \in Results}
         \cup {<<Save(x), Float, Restore(x)>> : x \in Results}
Entries(body) == {Block(body, {2, 3}), Test(body, {2}, {3})}
Branches ==
  UNION {{Routine(a, s, <<e, Block(x, {4}), Block(y, {4}), Block(z, {})>>) :
            e \in Entries(w), x \in Bodies, y \in {<<>>, <<Float>>},
            z \in LongBodies, s \in {FALSE}} :
           a \in {"none", "saved", "restored"}, w \in LongBodies}
SavedByCaller ==
  {Routine("none", TRUE, <<Block(w, {2}), Block(z, {})>>) :
     w \in LongBodies, z \in LongBodies}
SnippetsAndBranches == Snippets \cup Branches \cup SavedByCaller

FloatHardware(r) ==
  \E b \in Blocks(r) :
    Calls(r, b, "float") /\ FloatHardwareStateProtection(r, b)
Agrees(s, Query(_), lines) ==
  \A l \in DOMAIN s : s[l] = routine => (Query(routine) <=> l \in lines)

\* A function of the snippets has an alert if the baseline of its query has
\* one at its line.
MatchesBaseline ==
  /\ Agrees(FloatUnsafeExitSnippet, FloatUnsafeExit, {43, 56, 65})
  /\ Agrees(FloatSafeExitSnippet, FloatSafeExit, {19, 43, 60, 69})
  /\ Agrees(FloatHardwareSnippet, FloatHardware, {17, 35})
=============================================================================
