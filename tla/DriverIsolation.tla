--------------------------- MODULE DriverIsolation ---------------------------
(***************************************************************************)
(* A driver routine opening registry keys, executed against a registry of  *)
(* which any call may fail, and what DriverIsolation.qll and its three     *)
(* queries say of the calls.                                               *)
(***************************************************************************)
EXTENDS Integers, Sequences, FiniteSetsExt

CONSTANT Routines   \* the routines considered: sequences of statements

\* Absolute paths, told apart as the library tells them apart: below
\* Hardware, below Hardware\DeviceMap\SerialComm, below Software or System,
\* elsewhere.
Paths == {"hardware", "serialcomm", "software", "elsewhere"}

\* A statement sets out from name or path, from the handle root, with an
\* access; fields it has no use for are empty.
Stmt(l, op, o) ==
  [line |-> l, op |-> op, out |-> o, name |-> "", path |-> "", root |-> "",
   access |-> ""]
\* RtlInitUnicodeString and RtlStringCchPrintfA with a constant.
Literal(l, v, p) == [Stmt(l, "literal", v) EXCEPT !.path = p]
\* RtlInitString.
Copy(l, v, n) == [Stmt(l, "copy", v) EXCEPT !.name = n]
\* RtlAnsiStringToUnicodeString.
Convert(l, v, n) == [Stmt(l, "convert", v) EXCEPT !.name = n]
InitializeObjectAttributes(l, a, n, r) ==
  [Stmt(l, "attributes", a) EXCEPT !.name = n, !.root = r]
\* The same with a literal in place of a UNICODE_STRING.
AttributesOf(l, a, p) ==
  [Stmt(l, "attributes", a) EXCEPT !.path = p, !.root = "NULL"]
ZwOpenKey(l, h, acc, a) ==
  [Stmt(l, "open", h) EXCEPT !.access = acc, !.name = a]
\* Any other function that returns a handle; name is the function.
Obtain(l, h, f) == [Stmt(l, "ddi", h) EXCEPT !.name = f]
IoOpenDeviceRegistryKey(l, h) == Obtain(l, h, "IoOpenDeviceRegistryKey")
SetNull(l, h) == Stmt(l, "null", h)
\* ZwQueryKey and ZwSetValueKey: they use an open key and open none.
UseKey(l, h) == [Stmt(l, "use", "") EXCEPT !.root = h]
\* if (!NT_SUCCESS(Status)) return
CheckStatus(l) == Stmt(l, "check", "")
\* RtlWriteRegistryValue(RelativeTo, Path, ...): root is RelativeTo, and name
\* the handle that stands for the path after RTL_REGISTRY_HANDLE.
RtlWriteRegistryValue(l, r, p) ==
  [Stmt(l, "rtl", "") EXCEPT !.root = r, !.path = p]
RtlWriteToHandle(l, h) ==
  [Stmt(l, "rtl", "") EXCEPT !.root = "RTL_REGISTRY_HANDLE", !.name = h]

\* C is typed: a variable is used as what it was set as, attributes are set
\* before a call is given them, and functions and paths have different names.
StringOps == {"literal", "copy", "convert"}
HandleOps == {"open", "ddi", "null"}
Ops == StringOps \cup HandleOps \cup {"attributes", "use", "check", "rtl"}
SetOnlyBy(s, i, v, ops) == \A j \in 1 .. i - 1 : s[j].out = v => s[j].op \in ops
IsStatement(s, i) ==
  LET c == s[i]
  IN  /\ c.op \in Ops /\ c.path \in Paths \cup {""}
      /\ c.op = "literal" => c.path # ""
      /\ c.op \in {"copy", "convert"} => SetOnlyBy(s, i, c.name, StringOps)
      /\ c.op = "attributes" =>
           /\ IF c.path # "" THEN c.root = "NULL"
                             ELSE SetOnlyBy(s, i, c.name, StringOps)
           /\ c.root = "NULL" \/ SetOnlyBy(s, i, c.root, HandleOps)
      /\ c.op = "open" =>
           /\ SetOnlyBy(s, i, c.name, {"attributes"})
           /\ \E j \in 1 .. i - 1 : s[j].out = c.name
      /\ c.op = "ddi" =>
           c.name \notin Paths \cup {"NULL", "garbage", "unknown", "anywhere"}
      /\ c.op = "rtl" /\ c.root = "RTL_REGISTRY_HANDLE" =>
           SetOnlyBy(s, i, c.name, HandleOps)
      /\ c.op = "rtl" => c.root \notin Paths
      /\ c.op \notin {"literal", "attributes", "rtl"} => c.path = ""
IsRoutine(s) ==
  /\ s \in Seq([line : Int, op : Ops, out : STRING, name : STRING,
               path : Paths \cup {""}, root : STRING, access : STRING])
  /\ \A i \in 1 .. Len(s) : IsStatement(s, i)

ASSUME RoutinesAssumption == \A s \in Routines : IsRoutine(s)

-----------------------------------------------------------------------------
VARIABLES routine, pc,
          strings,  \* what the string variables hold
          attrs,    \* the OBJECT_ATTRIBUTES: a path and a root handle
          handles,  \* what the handle variables hold, if anything
          ok,       \* the last status
          opened    \* the keys opened so far: by which statement, from what

vars == <<routine, pc, strings, attrs, handles, ok, opened>>

\* A handle is NULL or a key; a key keeps the absolute path or the function it
\* descends from and whether it was opened there for writing.
Null == [origin |-> "NULL", write |-> FALSE]
Garbage == [origin |-> "garbage", write |-> FALSE]
Assign(f, v, x) == [u \in DOMAIN f \cup {v} |-> IF u = v THEN x ELSE f[u]]
Held(f, v, default) == IF v \in DOMAIN f THEN f[v] ELSE default

Init ==
  /\ routine \in Routines
  /\ pc = 1 /\ ok = TRUE
  /\ strings = <<>> /\ attrs = <<>> /\ handles = <<>>
  /\ opened = {}

Now == routine[pc]
At(op) == pc <= Len(routine) /\ Now.op = op
Advance == pc' = pc + 1 /\ UNCHANGED routine

SetString ==
  /\ At("literal")
  /\ strings' = Assign(strings, Now.out, Now.path)
  /\ Advance /\ UNCHANGED <<attrs, handles, ok, opened>>

CopyString ==
  /\ At("copy")
  /\ strings' = Assign(strings, Now.out, Held(strings, Now.name, "unknown"))
  /\ Advance /\ UNCHANGED <<attrs, handles, ok, opened>>

\* A conversion that fails leaves its result alone.
ConvertString ==
  /\ At("convert")
  /\ \E done \in BOOLEAN :
       /\ strings' = IF done THEN Assign(strings, Now.out,
                                         Held(strings, Now.name, "unknown"))
                             ELSE strings
       /\ ok' = done
  /\ Advance /\ UNCHANGED <<attrs, handles, opened>>

SetAttributes ==
  /\ At("attributes")
  /\ LET name == IF Now.path # "" THEN Now.path
                                  ELSE Held(strings, Now.name, "unknown")
         root == IF Now.root = "NULL" THEN Null
                                      ELSE Held(handles, Now.root, Garbage)
     IN  attrs' = Assign(attrs, Now.out, [name |-> name, root |-> root])
  /\ Advance /\ UNCHANGED <<strings, handles, ok, opened>>

\* With a NULL root the name is absolute, otherwise it is below the root.
\* A handle that was never set may be anything.
Key(a, write) ==
  CASE a.root = Null    -> [origin |-> a.name, write |-> write]
    [] a.root = Garbage -> [origin |-> "anywhere", write |-> write]
    [] OTHER            -> a.root

Fail == ok' = FALSE /\ UNCHANGED <<handles, opened>>
OpenKey ==
  /\ At("open")
  /\ LET key == Key(attrs[Now.name], Now.access = "write")
     IN  \/ /\ handles' = Assign(handles, Now.out, key)
            /\ opened' = opened \cup {[at |-> pc, key |-> key]}
            /\ ok' = TRUE
         \/ Fail
  /\ Advance /\ UNCHANGED <<strings, attrs>>

ObtainHandle ==
  /\ At("ddi")
  /\ \/ /\ handles' = Assign(handles, Now.out,
                            [origin |-> Now.name, write |-> FALSE])
        /\ ok' = TRUE /\ UNCHANGED opened
     \/ Fail
  /\ Advance /\ UNCHANGED <<strings, attrs>>

NullHandle ==
  /\ At("null")
  /\ handles' = Assign(handles, Now.out, Null)
  /\ Advance /\ UNCHANGED <<strings, attrs, ok, opened>>

ReturnOnFailure ==
  /\ At("check")
  /\ pc' = IF ok THEN pc + 1 ELSE Len(routine) + 1
  /\ UNCHANGED <<routine, strings, attrs, handles, ok, opened>>

Use ==
  /\ At("use")
  /\ ok' \in BOOLEAN
  /\ Advance /\ UNCHANGED <<strings, attrs, handles, opened>>

\* RtlWriteRegistryValue opens the key below RelativeTo, or the key of the
\* handle, which must be one, and writes to it.
RtlWrite ==
  /\ At("rtl")
  /\ LET root == IF Now.root = "RTL_REGISTRY_HANDLE"
                 THEN Held(handles, Now.name, Garbage)
                 ELSE [origin |-> Now.root, write |-> TRUE]
     IN  \/ /\ root # Null
            /\ opened' = opened \cup {[at |-> pc, key |-> root]}
            /\ ok' = TRUE
         \/ ok' = FALSE /\ UNCHANGED opened
  /\ Advance /\ UNCHANGED <<strings, attrs, handles>>

Next ==
  \/ SetString \/ CopyString \/ ConvertString \/ SetAttributes \/ OpenKey
  \/ ObtainHandle \/ NullHandle \/ ReturnOnFailure \/ Use \/ RtlWrite

Spec == Init /\ [][Next]_vars

-----------------------------------------------------------------------------
(* DriverIsolation.qll.  Data flow in these routines is from the last       *)
(* statement that set a variable.                                           *)
Definitions(s, i, v) == {j \in 1 .. i - 1 : s[j].out = v}
LastDefinition(s, i, v) ==
  IF Definitions(s, i, v) = {} THEN 0 ELSE Max(Definitions(s, i, v))

\* The constant that flows into the string or the attributes statement i sets,
\* through RootDirectory = NULL only.
FlowNullRootDir(s) ==
  LET flow[i \in 0 .. Len(s)] ==
        IF i = 0 THEN "none"
        ELSE IF s[i].path # "" THEN s[i].path
        ELSE IF s[i].op = "attributes" /\ s[i].root # "NULL" THEN "none"
        ELSE IF s[i].op \in {"copy", "convert", "attributes"}
             THEN flow[LastDefinition(s, i, s[i].name)]
        ELSE "none"
  IN  flow

pathException(p) == p = "software"
\* Mutant: the exceptions are left out.
allowedPathStrict(p) == p \in {"hardware", "serialcomm"}
allowedPath(p) == p \in {"hardware", "serialcomm"} \/ pathException(p)
pathWriteException(p) == p = "serialcomm"
zwWrite(c) == c.access = "write"
AllowedHandleDDI(f) == f = "IoOpenDeviceRegistryKey"

\* The attributes a call of ZwOpenKey is given.
AttributesAt(s, i) == LastDefinition(s, i, s[i].name)

\* Mutant: a valid path may be opened with any access.
NotAllowedPathOnly(s, i) ==
  LET p == FlowNullRootDir(s)[AttributesAt(s, i)]
  IN  p # "none" /\ ~allowedPath(p)

NotAllowedHandleRegFuncCall(s, i) ==
  LET p == FlowNullRootDir(s)[AttributesAt(s, i)]
  IN  /\ p # "none"
      /\ \/ allowedPath(p) /\ ~pathWriteException(p) /\ zwWrite(s[i])
         \/ ~allowedPath(p)

\* The call that set the root handle a call of ZwOpenKey uses, if any.
RootCall(s, i) ==
  LET a == AttributesAt(s, i)
      j == IF a = 0 \/ s[a].root = "NULL" THEN 0
           ELSE LastDefinition(s, a, s[a].root)
  IN  IF j # 0 /\ s[j].op \in {"open", "ddi"} THEN j ELSE 0

\* Mutant: one step back only.
FirstCallOneStep(s) == [i \in 1 .. Len(s) |-> i]

nonNullRootDirFlowFirstCall(s) ==
  LET first[i \in 1 .. Len(s)] ==
        IF s[i].op = "open" /\ RootCall(s, i) # 0 THEN first[RootCall(s, i)]
                                                  ELSE i
  IN  first

ZwViolation1(s, i) ==
  /\ s[i].op = "open" /\ RootCall(s, i) # 0
  /\ LET f == nonNullRootDirFlowFirstCall(s)[RootCall(s, i)]
     IN  IF s[f].op = "ddi" THEN ~AllowedHandleDDI(s[f].name)
                            ELSE NotAllowedHandleRegFuncCall(s, f)

ZwViolation2(s, i) == s[i].op = "open" /\ NotAllowedHandleRegFuncCall(s, i)

rtlViolation1(s, i) ==
  /\ s[i].op = "rtl"
  /\ s[i].root \notin {"RTL_REGISTRY_DEVICEMAP", "RTL_REGISTRY_HANDLE"}
rtlViolation2(s, i) ==
  /\ s[i].op = "rtl" /\ s[i].root = "RTL_REGISTRY_DEVICEMAP"
  /\ s[i].path # "serialcomm"

Reported(s, i) ==
  \/ ZwViolation1(s, i) \/ ZwViolation2(s, i)
  \/ rtlViolation1(s, i) \/ rtlViolation2(s, i)

-----------------------------------------------------------------------------
\* Driver isolation: a key is reached from an absolute path that a driver may
\* read, or below a handle an approved function returned.  The access with
\* which a key is opened below another is no part of the rule.
Outside(key) ==
  IF key.origin \in Paths
  THEN key.origin = "elsewhere" \/ (key.write /\ key.origin # "serialcomm")
  ELSE key.origin # "IoOpenDeviceRegistryKey"
Known(key) == key.origin \notin {"unknown", "anywhere", "garbage"}

ZwOpened == {o \in opened : routine[o.at].op = "open"}

\* A key first opened below a root variable that held NULL: neither query
\* looks at its path.
UnseenPath(key) ==
  \E o \in ZwOpened :
    /\ o.key = key
    /\ routine[AttributesAt(routine, o.at)].root # "NULL"
    /\ RootCall(routine, o.at) = 0

\* A call that sets a variable a second time, such as a handle initialised to
\* NULL, is followed by a look at the status, or the variable is not used for
\* another key.
FeedsKey(s, i, v) ==
  \E k \in i .. Len(s) :
    /\ s[k].op \in {"copy", "convert", "attributes", "rtl"}
    /\ v \in {s[k].name, s[k].root}
FailuresSeen(s) ==
  \A j \in 1 .. Len(s) :
    /\ s[j].op \in {"convert", "open", "ddi"}
    /\ \E i \in 1 .. j - 1 : s[i].out = s[j].out
    /\ FeedsKey(s, j + 1, s[j].out)
    => s[j + 1].op = "check"

\* The two Zw queries: every key opened outside the isolated part of the
\* registry, at whatever distance from the absolute path or the function it
\* descends from and whichever opens failed before, is opened by a reported
\* call, unless a variable that holds NULL stands for the first root.
OutsideOpenReported ==
  FailuresSeen(routine) =>
  \A o \in ZwOpened :
    Known(o.key) /\ Outside(o.key) /\ ~UnseenPath(o.key) =>
      Reported(routine, o.at)

\* A reported call that succeeds has opened a key outside.
IsolationAlertsAreReal ==
  FailuresSeen(routine) =>
  \A o \in ZwOpened :
    Known(o.key) /\ Reported(routine, o.at) => Outside(o.key)

\* "These would be caught when the handle is opened"
\* (DriverIsolationRtlViolation.ql): a value written through a handle to a key
\* outside that descends from a path, or was opened below a handle of any
\* function, was preceded by a reported open of that key.  Left out is a write
\* through the very handle that a function returned: no call opens it, and no
\* query reports the write if the function is not an approved one.
OpenedBefore(o) == {p \in ZwOpened : p.at < o.at /\ p.key = o.key}
CaughtWhenOpened ==
  FailuresSeen(routine) =>
  \A o \in opened :
    /\ routine[o.at].op = "rtl" /\ Known(o.key) /\ Outside(o.key)
    /\ o.key.origin \in Paths \/ OpenedBefore(o) # {}
    /\ ~UnseenPath(o.key)
    => \E p \in OpenedBefore(o) : Reported(routine, p.at)
=============================================================================
