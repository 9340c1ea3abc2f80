------------------------------ MODULE IrqlKernel ------------------------------
(***************************************************************************)
(* Annotations of the functions of wdm.h the drivers call, as the analysis *)
(* sees them.  wdm.h is not part of the repository.                        *)
(***************************************************************************)
EXTENDS IrqlAnnotations

\* A function without annotations, declared only or with a body.
Bare ==
  [api |-> "none", max |-> {}, alwaysMax |-> {}, min |-> {}, alwaysMin |-> {},
   requires |-> {}, raises |-> {}, same |-> FALSE, paged |-> FALSE,
   saves |-> "none", restores |-> FALSE, savesGlobal |-> "none",
   restoresGlobal |-> "none", body |-> FALSE]
Unannotated == [Bare EXCEPT !.body = TRUE]

\* KeRaiseIrql is annotated to raise the IRQL to the value of its argument,
\* which the library does not evaluate.  KeSetEvent is limited to APC_LEVEL
\* when it waits and to DISPATCH_LEVEL when it does not.
Kernel ==
  [KeRaiseIrql |->
     [Bare EXCEPT !.api = "KeRaiseIrql", !.max = {MaxIrql},
                  !.raises = {Unparsed}, !.saves = "parameter"],
   KeLowerIrql |-> [Bare EXCEPT !.api = "KeLowerIrql", !.restores = TRUE],
   KeAcquireInStackQueuedSpinLock |->
     [Bare EXCEPT !.max = {2}, !.raises = {2}, !.savesGlobal = "QueuedSpinLock"],
   KeReleaseInStackQueuedSpinLock |->
     [Bare EXCEPT !.requires = {2}, !.restoresGlobal = "QueuedSpinLock"],
   KeAcquireSpinLockRaiseToDpc |->
     [Bare EXCEPT !.max = {2}, !.raises = {2}, !.saves = "return"],
   KeAcquireSpinLock |->
     [Bare EXCEPT !.max = {2}, !.raises = {2}, !.saves = "parameter"],
   KeReleaseSpinLock |-> [Bare EXCEPT !.requires = {2}, !.restores = TRUE],
   KeSetEvent |-> [Bare EXCEPT !.max = {1, 2}, !.same = TRUE],
   PassiveApi |-> [Bare EXCEPT !.max = {0}, !.same = TRUE],
   DispatchApi |-> [Bare EXCEPT !.min = {2}, !.same = TRUE],
   DbgPrint |-> Bare]
=============================================================================
