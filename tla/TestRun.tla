------------------------------ MODULE TestRun ------------------------------
(***************************************************************************)
(* What a load test promises its user, whatever its goroutines do: every   *)
(* transaction it executes is reported once, and the test finishes only    *)
(* when the report covers all of them.  A test that meets an error may     *)
(* abort with a partial report.                                            *)
(***************************************************************************)
EXTENDS Naturals

VARIABLES
  executed,   \* transactions that ended, in success or in failure
  reported,   \* transactions counted in the summary
  over        \* "no", "finished" or "aborted"

vars == <<executed, reported, over>>

Init ==
  /\ executed = 0
  /\ reported = 0
  /\ over = "no"

Execute ==
  /\ over = "no"
  /\ executed' = executed + 1
  /\ UNCHANGED <<reported, over>>

ReportOne ==
  /\ over = "no"
  /\ reported < executed
  /\ reported' = reported + 1
  /\ UNCHANGED <<executed, over>>

Finish ==
  /\ over = "no"
  /\ reported = executed
  /\ over' = "finished"
  /\ UNCHANGED <<executed, reported>>

Abort ==
  /\ over = "no"
  /\ over' = "aborted"
  /\ UNCHANGED <<executed, reported>>

Next == Execute \/ ReportOne \/ Finish \/ Abort

Spec == Init /\ [][Next]_vars

=============================================================================
