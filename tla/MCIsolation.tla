----------------------------- MODULE MCIsolation -----------------------------
(* The snippets, and all routines that open three keys, each from a path    *)
(* or below one of the handles there are by then.                           *)
EXTENDS IsolationSnippets

Accesses == {"read", "write"}
FromPath(l, h, p, acc) ==
  <<Literal(l, h, p), InitializeObjectAttributes(l, h \o "Attr", h, "NULL"),
    ZwOpenKey(l, h \o "Key", acc, h \o "Attr")>>
Below(l, h, root, acc) ==
  <<InitializeObjectAttributes(l, h \o "Attr", "name", root),
    ZwOpenKey(l, h \o "Key", acc, h \o "Attr")>>
FirstOpens ==
  {FromPath(1, "a", p, acc) : p \in Paths, acc \in Accesses}
  \cup {<<Obtain(1, "aKey", f)>> :
          f \in {"IoOpenDeviceRegistryKey", "OtherFunction"}}
  \cup {<<SetNull(1, "nullKey"), Literal(1, "name", "elsewhere"),
          InitializeObjectAttributes(1, "aAttr", "name", "nullKey"),
          ZwOpenKey(1, "aKey", acc, "aAttr")>> : acc \in Accesses}
SecondOpens ==
  {FromPath(2, "b", p, acc) : p \in Paths, acc \in Accesses}
  \cup {Below(2, "b", "aKey", acc) : acc \in Accesses}
ThirdOpens ==
  {Below(3, "c", r, "read") : r \in {"aKey", "bKey"}}
  \cup {<<RtlWriteToHandle(3, "bKey")>>}
Checks == {<<>>, <<CheckStatus(1)>>}
\* The second handle may be initialised to NULL.
Chains ==
  {x \o check \o null \o y \o seen \o z :
     x \in FirstOpens, check \in Checks, null \in {<<>>, <<SetNull(2, "bKey")>>},
     y \in SecondOpens, seen \in Checks, z \in ThirdOpens}
RtlWrites ==
  {<<RtlWriteRegistryValue(1, r, p)>> :
     r \in {"RTL_REGISTRY_DEVICEMAP", "RTL_REGISTRY_SERVICES"},
     p \in {"serialcomm", "elsewhere"}}

Snippets == Zw1Snippet \cup Zw2Snippet \cup RtlSnippet
AllRoutines == Snippets \cup Chains \cup RtlWrites

\* An open is an alert of a query if the baseline of the query has it.
Agrees(s, Query(_, _), lines) ==
  routine \in s =>
    \A i \in 1 .. Len(routine) :
      Query(routine, i) <=> routine[i].line \in lines
InBadCall == routine = UsingFunctionParam(277, "elsewhere", 259)
MatchesBaseline ==
  /\ Agrees(Zw1Snippet, ZwViolation1, {})
  /\ Agrees(Zw2Snippet, ZwViolation2,
            {37, 164} \cup (IF InBadCall THEN {265} ELSE {}))
  /\ Agrees(RtlSnippet, rtlViolation1, {})
  /\ Agrees(RtlSnippet, rtlViolation2, {})
=============================================================================
