---------------------------- MODULE MCUserBuffer ----------------------------
(* The samples, and all routines of two reads through one or two variables, *)
(* made in the routine, in two functions of the driver or in functions      *)
(* without a definition.                                                    *)
EXTENDS UserBufferSamples

Samples ==
  OutsideTry1 \cup OutsideTry2 \cup ReadMultipleTimes1 \cup ReadMultipleTimes2
ShortReads ==
  [origin : {"UserBuffer", "Nested", "Mdl", "SystemBuffer"},
   variable : {"p", "q"}, place : Places, try : BOOLEAN]
SamplesAndShort == Samples \cup [1 .. 2 -> ShortReads]
=============================================================================
