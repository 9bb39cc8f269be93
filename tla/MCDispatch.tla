---------------------------- MODULE MCDispatch ----------------------------
(* A small instance of Dispatch: one key, two intents of which one runs as a
   workflow, three invocations in flight together of four ever made. *)
EXTENDS Dispatch

CONSTANTS k1, scan, assess, s1, s2, s3
============================================================================
