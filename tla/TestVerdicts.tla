---------------------------- MODULE TestVerdicts ----------------------------
(***************************************************************************)
(* What a test run promises, whatever the number of workers: every test is *)
(* judged at most once, verdicts are final, none is given after the        *)
(* process has exited, and it exits with success only if all tests passed. *)
(***************************************************************************)
CONSTANT Tests

VARIABLES verdict, exit

TypeOK ==
  /\ verdict \in [Tests -> {"pending", "passed", "failed", "raised"}]
  /\ exit \in {"running", "success", "failure"}

Init ==
  /\ verdict = [t \in Tests |-> "pending"]
  /\ exit = "running"

Judge(t) ==
  /\ exit = "running" /\ verdict[t] = "pending"
  /\ \E v \in {"passed", "failed", "raised"} :
       verdict' = [verdict EXCEPT ![t] = v]
  /\ UNCHANGED exit

Exit ==
  /\ exit = "running"
  /\ \/ exit' = "failure"
     \/ /\ \A t \in Tests : verdict[t] = "passed"
        /\ exit' = "success"
  /\ UNCHANGED verdict

Next == Exit \/ \E t \in Tests : Judge(t)

Spec == Init /\ [][Next]_<<verdict, exit>>
=============================================================================
