-------------------------- MODULE MCControlPlane --------------------------
(* A small instance of ControlPlane: one run of each provider on one host, a
   worker for each, two invocations in flight, and two documents with the same
   bytes under different kinds. *)
EXTENDS ControlPlane, TLC

CONSTANTS r1, r2, nebu, flow, host, rev, s1, s2, log, report, bytes

MCRun == {r1, r2}
MCWorker == {nebu, flow}
MCHostOf == r1 :> host @@ r2 :> host
MCRunProvider == r1 :> "nebuchadnezzar_worker" @@ r2 :> "github_actions"
MCRunRevision == r1 :> rev @@ r2 :> rev
MCRequestedAt == r1 :> 0 @@ r2 :> 0
MCWorkerProvider == nebu :> "nebuchadnezzar_worker" @@ flow :> "github_actions"
MCWorkerRevision == nebu :> rev @@ flow :> AnyRevision
MCLeaseSeconds == {1}
MCDigestOf == log :> bytes @@ report :> bytes
============================================================================
