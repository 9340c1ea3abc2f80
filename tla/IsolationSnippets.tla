-------------------------- MODULE IsolationSnippets --------------------------
(***************************************************************************)
(* The snippets of the three driver isolation queries.  A function with a  *)
(* parameter stands in its callers; relative names are paths elsewhere.    *)
(***************************************************************************)
EXTENDS DriverIsolation

\* A literal opened for reading with a NULL root, then queried.
ReadPath(l, p, query) ==
  <<Literal(l, "FrameRateKey", p),
    InitializeObjectAttributes(l + 1, "ObjectAttributes", "FrameRateKey",
                               "NULL"),
    ZwOpenKey(l + 2, "ChildKey", "read", "ObjectAttributes"),
    UseKey(query, "ChildKey")>>

\* The attributes are used twice; the first path is a parameter.
MultipleNulls(first, param, second) ==
  <<InitializeObjectAttributes(first, "objectAttributes", "RegistryPath",
                               "NULL"),
    ZwOpenKey(first + 6, "serviceKey", "read", "objectAttributes"),
    Literal(param, "paramStr", "elsewhere"),
    AttributesOf(second, "objectAttributes", "hardware"),
    ZwOpenKey(second + 6, "parametersKey", "read", "objectAttributes")>>

\* A printed path, converted twice, then a value set under the key.
PrintedPath(print, attr, acc, value) ==
  <<SetNull(print - 1, "targetKey"),
    Literal(print, "buffer", "hardware"),
    Copy(print + 8, "string", "buffer"),
    Convert(print + 10, "unicodeRegistryPath", "string"),
    InitializeObjectAttributes(attr, "objectAttributes",
                               "unicodeRegistryPath", "NULL"),
    ZwOpenKey(attr + 6, "targetKey", acc, "objectAttributes"),
    Literal(value, "unicodeName", "elsewhere"),
    Literal(value + 2, "buffer", "elsewhere"),
    Copy(value + 4, "string", "buffer"),
    Convert(value + 5, "unicodeData", "string"),
    CheckStatus(value + 8), UseKey(value + 10, "targetKey")>>

\* A key opened below the handle of an approved function.
BelowDevice(obtain, init, attr) ==
  <<IoOpenDeviceRegistryKey(obtain, "ParentKey"),
    Literal(init, "UnicodeEnumName", "elsewhere"),
    InitializeObjectAttributes(attr, "ObjectAttributes", "UnicodeEnumName",
                               "ParentKey"),
    ZwOpenKey(attr + 6, "RootKey", "read", "ObjectAttributes"),
    CheckStatus(attr + 8)>>

\* TestUsingFunctionParam as one of its callers calls it.
UsingFunctionParam(init, p, attr) ==
  <<Literal(init, "RegistryPath", p),
    InitializeObjectAttributes(attr, "objectAttributes", "RegistryPath",
                               "NULL"),
    ZwOpenKey(attr + 6, "serviceKey", "read", "objectAttributes")>>

Zw1AbsolutePaths ==
  {ReadPath(30, "elsewhere", 33), ReadPath(46, "hardware", 50),
   MultipleNulls(64, 74, 76), PrintedPath(107, 123, "read", 133)}
Zw1Callers ==
  {BelowDevice(162, 167, 169),
   UsingFunctionParam(219, "elsewhere", 201),
   UsingFunctionParam(229, "hardware", 201)}

\* TestZwWithRelativeHandle: the second status is not checked.
Zw1RelativeHandle ==
  BelowDevice(248, 253, 255) \o
  <<InitializeObjectAttributes(270, "ObjectAttributes2", "UnicodeEnumName",
                               "RootKey"),
    ZwOpenKey(276, "RootKey2", "read", "ObjectAttributes2"),
    InitializeObjectAttributes(279, "ObjectAttributes3", "UnicodeEnumName",
                               "RootKey2"),
    ZwOpenKey(285, "RootKey3", "read", "ObjectAttributes3")>>

\* TestZwWithRelativeHandleBad: the root is a variable that holds NULL.
Zw1RelativeHandleBad ==
  <<SetNull(293, "ParentKey"),
    InitializeObjectAttributes(302, "ObjectAttributes", "UnicodeEnumName",
                               "ParentKey"),
    ZwOpenKey(309, "RootKey", "read", "ObjectAttributes"), CheckStatus(311),
    InitializeObjectAttributes(317, "ObjectAttributes2", "UnicodeEnumName",
                               "RootKey"),
    ZwOpenKey(323, "RootKey2", "read", "ObjectAttributes2")>>

Zw1Snippet ==
  Zw1AbsolutePaths \cup Zw1Callers
  \cup {Zw1RelativeHandle, Zw1RelativeHandleBad}

Zw2Reads ==
  {ReadPath(35, "elsewhere", 40), ReadPath(58, "hardware", 63),
   MultipleNulls(86, 100, 102)}
\* The statements after the open stand two lines further down in this file.
Zw2Write == {PrintedPath(139, 158, "write", 174)}
Zw2Callers ==
  {BelowDevice(206, 214, 219),
   UsingFunctionParam(277, "elsewhere", 259),
   UsingFunctionParam(287, "hardware", 259)}
Zw2Snippet == Zw2Reads \cup Zw2Write \cup Zw2Callers

\* test_rtl_violation_0: a handle that was never opened.
RtlSnippet ==
  {<<SetNull(15, "DriverKey"),
     RtlWriteToHandle(18, "DriverKey"),
     UseKey(24, "DriverKey")>>}
=============================================================================
