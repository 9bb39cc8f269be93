------------------------ MODULE MCRunnerExecution ------------------------
(* A small instance of RunnerExecution: two machines, two attempts, and two
   files: the event feed of the scan and a report, which may be oversized. *)
EXTENDS RunnerExecution

CONSTANTS m1, m2, events, report
============================================================================
