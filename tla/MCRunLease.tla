---------------------------- MODULE MCRunLease ----------------------------
(* A small instance of RunLease: two runs of the polling worker and one of a
   workflow, two of the three on the same host but of different providers.  Two leases of
   two instants, then time for the second to lapse, make a run exhausted. *)
EXTENDS RunLease, TLC

CONSTANTS r1, r2, r3, nebu, flow, h1, h2, old, new

MCRun == {r1, r2, r3}
MCWorker == {nebu, flow}
MCHost == {h1, h2}
MCRevision == {old, new}
MCHostOf == r1 :> h1 @@ r2 :> h1 @@ r3 :> h2
MCRunProvider == r1 :> "nebuchadnezzar_worker" @@ r2 :> "github_actions"
                   @@ r3 :> "nebuchadnezzar_worker"
MCRunRevision == r1 :> new @@ r2 :> old @@ r3 :> new
MCRequestedAt == r1 :> 0 @@ r2 :> 0 @@ r3 :> 1
MCWorkerProvider == nebu :> "nebuchadnezzar_worker" @@ flow :> "github_actions"
MCWorkerRevision == nebu :> new @@ flow :> AnyRevision
MCLeaseSeconds == {2}
============================================================================
