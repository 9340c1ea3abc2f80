-------------------------- MODULE UserBufferSamples --------------------------
(***************************************************************************)
(* The samples of UserModeMemoryOutsideTry and                             *)
(* UserModeMemoryReadMultipleTimes, as the reads their functions make.     *)
(* buf1 and buf2 are the two values the variable buf has in turn.          *)
(***************************************************************************)
EXTENDS UserBuffer

\* TestIrp, TestNestedDereference, whose Data is NULL, and TestSystemCall.
\* TestSystemBufferNestedDereference reads an undeclared variable.
OutsideTry1 ==
  {<<Read("Type3InputBuffer", "buf1"), Deref("Type3InputBuffer", "buf1"),
     Read("UserBuffer", "buf2"), Deref("UserBuffer", "buf2")>>,
   <<Deref("Null", "Data")>>,
   <<Read("Parameter", "buf"), Deref("Parameter", "buf")>>}

\* TestIrp, TestSystemBuffer, TestNestedDereference,
\* TestSystemBufferNestedDereference and TestSystemCall.
OutsideTry2 ==
  {<<Try(Deref("Type3InputBuffer", "buf1")), Try(Read("UserBuffer", "buf2"))>>,
   <<Read("SystemBuffer", "buf"), Deref("SystemBuffer", "buf")>>,
   <<Try(Deref("Type3InputBuffer", "MyStruct"))>>,
   <<Deref("SystemBuffer", "MyStruct")>>,
   <<Try(Deref("Parameter", "buf"))>>}

\* TestIrp makes one call per buffer, each taken as a routine of its own.
DoDoubleFetch(o) == <<Read(o, "buf"), Deref(o, "buf")>>
ReadMultipleTimes1 ==
  {DoDoubleFetch("Type3InputBuffer"), DoDoubleFetch("UserBuffer"),
   <<Deref("SystemBuffer", "s")>> \o DoDoubleFetch("Nested"),
   DoDoubleFetch("Mdl"), DoDoubleFetch("SystemBuffer")}

ReadMultipleTimes2 ==
  {<<Read("Type3InputBuffer", "buf1"), Read("UserBuffer", "buf2")>>,
   <<Deref("SystemBuffer", "s"), Read("Nested", "Field")>>,
   <<Read("Mdl", "input"), Read("SystemBuffer", "sb")>>}
=============================================================================
