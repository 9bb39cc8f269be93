----------------------- MODULE RunnerExecutionProofs -----------------------
(***************************************************************************)
(* Proofs about RunnerExecution, for any machines, files and number of     *)
(* attempts, whether or not the first renewal may be slow.  The inductive  *)
(* invariant is ExecutionInv: what a runner has found, uploaded and been   *)
(* told agree at every point of its program, and an outcome once recorded  *)
(* stays honest because nothing takes an artifact or an outcome back.      *)
(***************************************************************************)
EXTENDS RunnerExecution, TLAPS

(* The heartbeat's timer is alive, and only the scan can be told to stop. *)
Beating == {"renew", "scan", "closed"}
Reporting == {"uploading", "upload", "finalizing", "finish"}

(* A runner q and the artifacts s agree: what it listed and has no more to
   upload is stored, and a signal sent to its scan is a failure it reports. *)
Agrees(q, s) ==
    /\ q.todo \subseteq q.listed
    /\ q.pc \in {"upload", "finalizing", "finish"} => q.listed \ Oversized \subseteq s \cup q.todo
    /\ q.pc \in {"finalizing", "finish"} => q.todo = {}
    /\ q.beat = "pending" => q.pc \in Beating
    /\ q.child = "running" => q.pc = "scan"
    /\ q.told => (q.pc \in Beating /\ q.lost) \/ (q.pc \in Reporting /\ q.failure)

RunnersAgree == \A m \in Machine : Agrees(machine[m], stored)

(* A run is queued once, before its first attempt. *)
QueuedOnce == row.state = "queued" => row.attempt = 0

ExecutionInv == TypeOK /\ RunnersAgree /\ QueuedOnce /\ OutcomeIsHonest

(* A machine with no runner agrees with anything. *)
LEMMA PollingAgrees ==
    ASSUME NEW s
    PROVE  Polling \in Runner /\ Agrees(Polling, s)
BY RunnerAssumption DEF Polling, Runner, Token, NoToken, Agrees, Beating, Reporting

(* Artifacts are only added, so a runner that agreed still does. *)
LEMMA OneBecomes ==
    ASSUME TypeOK, RunnersAgree, NEW m \in Machine, NEW r \in Runner, Becomes(m, r),
           stored \subseteq stored', Agrees(r, stored')
    PROVE  machine' \in [Machine -> Runner] /\ RunnersAgree'
<1>1. machine' \in [Machine -> Runner] /\ machine'[m] = r
      /\ \A n \in Machine : n # m => machine'[n] = machine[n]
    BY DEF Becomes, TypeOK
<1>2. ASSUME NEW n \in Machine PROVE Agrees(machine'[n], stored')
    <2>1. CASE n = m
        BY <1>1, <2>1
    <2>2. CASE n # m
        BY <1>1, <2>2 DEF RunnersAgree, Agrees
    <2> QED BY <2>1, <2>2
<1> QED BY <1>1, <1>2 DEF RunnersAgree

(* A step of a runner that leaves the run and its evidence alone. *)
LEMMA RunnerStep ==
    ASSUME ExecutionInv, NEW m \in Machine, NEW r \in Runner, Becomes(m, r),
           Agrees(r, stored), UNCHANGED <<row, stored, verdict>>,
           disk' \in [Machine -> SUBSET File]
    PROVE  ExecutionInv'
<1>1. machine' \in [Machine -> Runner] /\ RunnersAgree'
    BY OneBecomes DEF ExecutionInv
<1> QED BY <1>1 DEF ExecutionInv, TypeOK, QueuedOnce, OutcomeIsHonest

(* A runner that stops, for whatever reason, at that. *)
LEMMA RunnerStops ==
    ASSUME ExecutionInv, NEW m \in Machine, Becomes(m, Polling),
           UNCHANGED <<row, stored, verdict, disk>>
    PROVE  ExecutionInv'
BY PollingAgrees, RunnerStep DEF ExecutionInv, TypeOK

(* No run has been claimed, and no machine has a runner. *)
LEMMA InitOK == Init => ExecutionInv
<1> SUFFICES ASSUME Init PROVE ExecutionInv
    OBVIOUS
<1>1. TypeOK
    BY PollingAgrees, RunnerAssumption
    DEF Init, TypeOK, Row, Token, NoToken, NoVerdict
<1>2. RunnersAgree
    BY PollingAgrees DEF Init, RunnersAgree
<1> QED BY <1>1, <1>2 DEF Init, ExecutionInv, QueuedOnce, OutcomeIsHonest

(* Cancelling and lapsing touch the row alone, and record no outcome. *)
LEMMA RowSteps ==
    ASSUME ExecutionInv, Cancel \/ Lapse PROVE ExecutionInv'
<1>1. row' \in Row /\ row'.state \in {"cancelled", "running"}
      /\ UNCHANGED <<stored, verdict, machine, disk>>
    <2>1. row \in Row /\ NoToken \in Token
        BY RunnerAssumption DEF ExecutionInv, TypeOK, NoToken, Token
    <2>2. CASE Cancel
        <3>1. row' = [row EXCEPT !.state = "cancelled", !.token = NoToken, !.live = FALSE]
            BY <2>2 DEF Cancel
        <3> QED BY <2>1, <2>2, <3>1 DEF Cancel, Row
    <2>3. CASE Lapse
        BY <2>1, <2>3 DEF Lapse, Row
    <2> QED BY <2>2, <2>3
<1> QED BY <1>1 DEF ExecutionInv, TypeOK, RunnersAgree, QueuedOnce, OutcomeIsHonest

(* A claim counts an attempt within the bound and records no outcome. *)
LEMMA ClaimKeeps ==
    ASSUME ExecutionInv, NEW m \in Machine, Claim(m) PROVE ExecutionInv'
<1> DEFINE r == [Polling EXCEPT !.pc = "start", !.token = row.attempt + 1]
<1>1. row.attempt + 1 \in 0..MAX_RUN_ATTEMPTS
    BY RunnerAssumption DEF Claim, Claimable, ExecutionInv, QueuedOnce, TypeOK, Row
<1>2. row' \in Row /\ row'.state = "running"
    BY <1>1 DEF Claim, Row, Token
<1>3. r \in Runner /\ Agrees(r, stored)
    BY <1>1, PollingAgrees DEF Polling, Runner, Token, Agrees, Beating, Reporting
<1> HIDE DEF r
<1>4. machine' \in [Machine -> Runner] /\ RunnersAgree'
    <2>1. CASE Becomes(m, r)
        BY <1>3, <2>1, OneBecomes DEF Claim, ExecutionInv
    <2>2. CASE UNCHANGED machine
        BY <2>2 DEF Claim, ExecutionInv, TypeOK, RunnersAgree
    <2> QED BY <2>1, <2>2 DEF Claim, r
<1> QED BY <1>2, <1>4 DEF Claim, ExecutionInv, TypeOK, QueuedOnce, OutcomeIsHonest

(* From the start of a runner to the upload nothing is reported. *)
LEMMA StartKeeps ==
    ASSUME ExecutionInv, NEW m \in Machine, Start(m) PROVE ExecutionInv'
<1> DEFINE r == [machine[m] EXCEPT !.pc = "renew"]
<1>1. machine[m] \in Runner /\ Agrees(machine[m], stored) /\ machine[m].pc = "start"
    BY DEF Start, ExecutionInv, TypeOK, RunnersAgree
<1>2. r \in Runner /\ Agrees(r, stored)
    BY <1>1 DEF Runner, Agrees, Beating, Reporting
<1> HIDE DEF r
<1>3. CASE Becomes(m, r)
    BY <1>2, <1>3, RunnerStep DEF Start, ExecutionInv, TypeOK
<1>4. CASE Becomes(m, Polling)
    BY <1>4, RunnerStops DEF Start
<1> QED BY <1>3, <1>4 DEF Start, r

(* A scan is spawned with nothing said to it; a runner that could not renew reports a failure. *)
LEMMA FirstRenewalKeeps ==
    ASSUME ExecutionInv, NEW m \in Machine, FirstRenewal(m) PROVE ExecutionInv'
<1> DEFINE go == [machine[m] EXCEPT !.pc = "scan", !.child = "running"]
           stop == [Polling EXCEPT !.pc = "uploading", !.token = machine[m].token, !.failure = TRUE]
<1>1. machine[m] \in Runner /\ Agrees(machine[m], stored) /\ machine[m].pc = "renew"
    BY DEF FirstRenewal, ExecutionInv, TypeOK, RunnersAgree
<1>2. go \in Runner /\ Agrees(go, stored)
    BY <1>1 DEF Runner, Agrees, Beating, Reporting
<1>3. stop \in Runner /\ Agrees(stop, stored)
    BY <1>1, PollingAgrees DEF Runner, Polling, Agrees, Beating, Reporting
<1> HIDE DEF go, stop
<1>4. Becomes(m, go) \/ Becomes(m, stop)
    BY DEF FirstRenewal, go, stop
<1> QED BY <1>2, <1>3, <1>4, RunnerStep DEF FirstRenewal, ExecutionInv, TypeOK

(* A heartbeat signals the scan only with its failure kept, which is what the runner looks at. *)
LEMMA HeartbeatKeeps ==
    ASSUME ExecutionInv, NEW m \in Machine, HeartbeatFires(m) \/ HeartbeatAnswered(m)
    PROVE  ExecutionInv'
<1> DEFINE q == machine[m]
           sent == [q EXCEPT !.beat = "pending"]
           held == [q EXCEPT !.beat = "none"]
           told == q.told \/ (q.child = "running" /\ ~q.lost)
           gone == [q EXCEPT !.beat = "none", !.lost = TRUE, !.told = told]
<1>1. q \in Runner /\ Agrees(q, stored)
    BY DEF ExecutionInv, TypeOK, RunnersAgree
<1>2. CASE HeartbeatFires(m)
    <2>1. sent \in Runner /\ Agrees(sent, stored)
        BY <1>1, <1>2 DEF HeartbeatFires, TimerRuns, Runner, Agrees, Beating, Reporting
    <2> HIDE DEF sent
    <2>2. Becomes(m, sent)
        BY <1>2 DEF HeartbeatFires, sent
    <2> QED BY <1>2, <2>1, <2>2, RunnerStep DEF HeartbeatFires, ExecutionInv, TypeOK
<1>3. CASE HeartbeatAnswered(m)
    <2>1. q.pc \in Beating
        BY <1>1, <1>3 DEF HeartbeatAnswered, Agrees
    <2>2. held \in Runner /\ Agrees(held, stored)
        BY <1>1 DEF Runner, Agrees, Beating, Reporting
    <2>3. told \in BOOLEAN
        OBVIOUS
    <2> HIDE DEF told
    <2>5. gone \in Runner /\ Agrees(gone, stored)
        <3>1. /\ gone \in Runner /\ gone.pc = q.pc /\ gone.beat = "none" /\ gone.lost
              /\ gone.child = q.child /\ gone.todo = q.todo /\ gone.listed = q.listed
            BY <1>1, <2>3 DEF Runner
        <3> HIDE DEF gone
        <3> QED BY <1>1, <2>1, <3>1 DEF Agrees, Beating, Reporting
    <2> HIDE DEF held, gone
    <2>4. Becomes(m, held) \/ Becomes(m, gone)
        BY <1>3 DEF HeartbeatAnswered, held, gone, told
    <2> QED BY <1>3, <2>2, <2>5, <2>4, RunnerStep DEF HeartbeatAnswered, ExecutionInv, TypeOK
<1> QED BY <1>2, <1>3

(* The end of the scan leaves its files on the disk and the runner to judge it. *)
LEMMA ChildClosesKeeps ==
    ASSUME ExecutionInv, NEW m \in Machine, ChildCloses(m) PROVE ExecutionInv'
<1>1. machine[m] \in Runner /\ Agrees(machine[m], stored) /\ machine[m].pc = "scan"
    BY DEF ChildCloses, ExecutionInv, TypeOK, RunnersAgree, Agrees
<1>2. PICK exit \in {"succeeded", "failed"}, written \in SUBSET File :
           /\ Becomes(m, [machine[m] EXCEPT !.pc = "closed", !.child = exit])
           /\ disk' = [disk EXCEPT ![m] = @ \cup written]
    BY DEF ChildCloses
<1> DEFINE r == [machine[m] EXCEPT !.pc = "closed", !.child = exit]
<1>3. r \in Runner /\ Agrees(r, stored)
    BY <1>1 DEF Runner, Agrees, Beating, Reporting
<1> HIDE DEF r
<1>4. disk' \in [Machine -> SUBSET File] /\ Becomes(m, r)
    BY <1>2 DEF ExecutionInv, TypeOK, r
<1> QED BY <1>3, <1>4, RunnerStep DEF ChildCloses

(* What the scan was told is among the reasons to report a failure. *)
LEMMA JudgeKeeps ==
    ASSUME ExecutionInv, NEW m \in Machine, Judge(m) PROVE ExecutionInv'
<1> DEFINE q == machine[m]
           r == [Polling EXCEPT !.pc = "uploading", !.token = q.token, !.told = q.told,
                                !.failure = q.child = "failed" \/ q.lost]
<1>1. q \in Runner /\ Agrees(q, stored) /\ q.pc = "closed"
    BY DEF Judge, ExecutionInv, TypeOK, RunnersAgree
<1>2. r \in Runner
    BY <1>1, PollingAgrees DEF Runner
<1>3. r.told => r.failure
    BY <1>1 DEF Agrees, Polling, Beating, Reporting
<1>4. Agrees(r, stored)
    BY <1>1, <1>3, PollingAgrees DEF Agrees, Polling, Beating, Reporting
<1> HIDE DEF r
<1>5. Becomes(m, r)
    BY DEF Judge, r
<1> QED BY <1>2, <1>4, <1>5, RunnerStep DEF Judge, ExecutionInv, TypeOK

(* The upload works off what was listed; a file leaves the list when stored. *)
LEMMA UploadingIs ==
    ASSUME NEW q \in Runner, NEW todo \in SUBSET q.listed, NEW s \in SUBSET File,
           q.pc \in Reporting, q.beat = "none", q.child # "running",
           q.told => q.failure, q.listed \ Oversized \subseteq s \cup todo
    PROVE  Uploading(q, todo) \in Runner /\ Agrees(Uploading(q, todo), s)
<1>1. CASE todo = {}
    BY <1>1 DEF Uploading, Runner, Agrees, Beating, Reporting
<1>2. CASE todo # {}
    BY <1>2 DEF Uploading, Runner, Agrees, Beating, Reporting
<1> QED BY <1>1, <1>2

(* A runner that reports has neither a scan nor a heartbeat any more. *)
LEMMA ReportingIs ==
    ASSUME ExecutionInv, NEW m \in Machine, machine[m].pc \in Reporting
    PROVE  /\ machine[m] \in Runner /\ machine[m].beat = "none" /\ machine[m].child # "running"
           /\ machine[m].told => machine[m].failure
           /\ Agrees(machine[m], stored)
BY DEF ExecutionInv, TypeOK, RunnersAgree, Agrees, Runner, Beating, Reporting

(* The listing is what the upload works off, save what is oversized. *)
LEMMA RenewUploadingKeeps ==
    ASSUME ExecutionInv, NEW m \in Machine, RenewUploading(m) PROVE ExecutionInv'
<1> DEFINE q == [machine[m] EXCEPT !.listed = disk[m]]
           r == Uploading(q, disk[m] \ Oversized)
<1>1. machine[m].pc = "uploading" /\ machine[m].pc \in Reporting
    BY DEF RenewUploading, Reporting
<1>2. /\ q \in Runner /\ q.listed = disk[m] /\ q.pc \in Reporting /\ q.beat = "none"
      /\ q.child # "running" /\ (q.told => q.failure)
    BY <1>1, ReportingIs DEF ExecutionInv, TypeOK, Runner
<1> HIDE DEF q
<1>3. r \in Runner /\ Agrees(r, stored)
    BY <1>2, UploadingIs DEF ExecutionInv, TypeOK
<1> HIDE DEF r
<1>4. Becomes(m, r) \/ Becomes(m, Polling)
    BY DEF RenewUploading, q, r
<1> QED BY <1>3, <1>4, RunnerStep, RunnerStops DEF RenewUploading, ExecutionInv, TypeOK

(* An artifact more takes nothing away from any runner or outcome. *)
LEMMA UploadKeeps ==
    ASSUME ExecutionInv, NEW m \in Machine, Upload(m) PROVE ExecutionInv'
<1> DEFINE q == machine[m]
<1>1. q.pc = "upload" /\ q.pc \in Reporting
    BY DEF Upload, Reporting
<1>2. PICK f \in q.todo :
        \/ /\ stored' = stored \cup {f}
           /\ Becomes(m, Uploading(q, q.todo \ {f})) \/ Becomes(m, Polling)
        \/ UNCHANGED stored /\ Becomes(m, Polling)
    BY DEF Upload
<1>3. /\ q \in Runner /\ q.beat = "none" /\ q.child # "running" /\ (q.told => q.failure)
      /\ q.todo \subseteq q.listed /\ q.listed \ Oversized \subseteq stored \cup q.todo
    BY <1>1, ReportingIs DEF Agrees
<1>4. f \in File
    BY <1>3 DEF Runner
<1>5. stored \subseteq stored' /\ stored' \subseteq File
    BY <1>2, <1>4 DEF ExecutionInv, TypeOK
<1>6. UNCHANGED <<row, verdict, disk>>
    BY DEF Upload
<1>7. machine' \in [Machine -> Runner] /\ RunnersAgree'
    <2>1. CASE Becomes(m, Polling)
        BY <1>5, <2>1, PollingAgrees, OneBecomes DEF ExecutionInv
    <2>2. CASE stored' = stored \cup {f} /\ Becomes(m, Uploading(q, q.todo \ {f}))
        <3> DEFINE r == Uploading(q, q.todo \ {f})
        <3>1. q.listed \ Oversized \subseteq stored' \cup (q.todo \ {f})
            BY <1>3, <2>2
        <3>2. r \in Runner /\ Agrees(r, stored')
            BY <1>1, <1>3, <1>5, <3>1, UploadingIs
        <3> HIDE DEF r
        <3>3. Becomes(m, r)
            BY <2>2 DEF r
        <3> QED BY <1>5, <3>2, <3>3, OneBecomes DEF ExecutionInv
    <2> QED BY <1>2, <2>1, <2>2
<1> QED BY <1>5, <1>6, <1>7 DEF ExecutionInv, TypeOK, QueuedOnce, OutcomeIsHonest

(* The last renewal before the outcome follows the last upload. *)
LEMMA RenewFinalizingKeeps ==
    ASSUME ExecutionInv, NEW m \in Machine, RenewFinalizing(m) PROVE ExecutionInv'
<1> DEFINE r == [machine[m] EXCEPT !.pc = "finish"]
<1>1. machine[m] \in Runner /\ Agrees(machine[m], stored) /\ machine[m].pc = "finalizing"
    BY DEF RenewFinalizing, ExecutionInv, TypeOK, RunnersAgree
<1>2. r \in Runner /\ Agrees(r, stored)
    BY <1>1 DEF Runner, Agrees, Beating, Reporting
<1> HIDE DEF r
<1>3. Becomes(m, r) \/ Becomes(m, Polling)
    BY DEF RenewFinalizing, r
<1> QED BY <1>2, <1>3, RunnerStep, RunnerStops DEF RenewFinalizing, ExecutionInv, TypeOK

(* The outcome that is recorded is what its runner has found; an outcome that is
   on record is of a run nobody holds any more. *)
LEMMA FinishKeeps ==
    ASSUME ExecutionInv, NEW m \in Machine, Finish(m) PROVE ExecutionInv'
<1> DEFINE q == machine[m]
<1>1. q.pc = "finish" /\ Becomes(m, Polling) /\ UNCHANGED <<stored, disk>>
    BY DEF Finish
<1>2. /\ q \in Runner /\ (q.told => q.failure)
      /\ q.listed \ Oversized \subseteq stored
    BY <1>1, ReportingIs DEF Agrees, Reporting
<1>3. machine' \in [Machine -> Runner] /\ RunnersAgree'
    BY <1>1, PollingAgrees, OneBecomes DEF ExecutionInv
<1>4. CASE UNCHANGED <<row, verdict>>
    BY <1>1, <1>3, <1>4 DEF ExecutionInv, TypeOK, QueuedOnce, OutcomeIsHonest
<1>5. CASE /\ row' = [row EXCEPT !.state = Outcome(q), !.token = NoToken, !.live = FALSE]
           /\ verdict' = [told |-> q.told, listed |-> q.listed]
    <2>1. /\ Outcome(q) \in {"succeeded", "partial", "failed"}
          /\ Outcome(q) = "succeeded" => ~ q.failure
          /\ Outcome(q) = "failed" => q.listed = {}
        BY <1>2 DEF Outcome, Runner
    <2>2. row' \in Row /\ row'.state = Outcome(q)
        <3>1. row \in Row /\ NoToken \in Token
            BY RunnerAssumption DEF ExecutionInv, TypeOK, NoToken, Token
        <3> QED BY <1>5, <2>1, <3>1 DEF Row
    <2>3. /\ verdict' \in [told : BOOLEAN, listed : SUBSET File]
          /\ verdict'.told = q.told /\ verdict'.listed = q.listed
        BY <1>2, <1>5 DEF Runner
    <2>4. OutcomeIsHonest' /\ QueuedOnce'
        BY <1>1, <1>2, <2>1, <2>2, <2>3 DEF OutcomeIsHonest, QueuedOnce
    <2> QED BY <1>1, <1>3, <2>2, <2>3, <2>4 DEF ExecutionInv, TypeOK
<1> QED BY <1>4, <1>5 DEF Finish

(* Every step preserves the invariant. *)
LEMMA NextKeepsInv == ExecutionInv /\ [Next]_vars => ExecutionInv'
<1> SUFFICES ASSUME ExecutionInv, [Next]_vars PROVE ExecutionInv'
    OBVIOUS
<1>1. CASE UNCHANGED vars
    BY <1>1 DEF vars, ExecutionInv, TypeOK, RunnersAgree, QueuedOnce, OutcomeIsHonest
<1>2. CASE Cancel \/ Lapse
    BY <1>2, RowSteps
<1>3. ASSUME NEW m \in Machine, Reboot(m) PROVE ExecutionInv'
    BY <1>3, RunnerStops DEF Reboot
<1>4. ASSUME NEW m \in Machine, Runs(m) PROVE ExecutionInv'
    BY <1>4, ClaimKeeps, StartKeeps, FirstRenewalKeeps, JudgeKeeps, RenewUploadingKeeps,
       UploadKeeps, RenewFinalizingKeeps, FinishKeeps DEF Runs
<1>5. ASSUME NEW m \in Machine, ChildCloses(m) \/ HeartbeatFires(m) \/ HeartbeatAnswered(m)
      PROVE  ExecutionInv'
    BY <1>5, ChildClosesKeeps, HeartbeatKeeps
<1> QED BY <1>1, <1>2, <1>3, <1>4, <1>5 DEF Next

(* The invariant the others follow from: at every point of its program a runner
   agrees with the artifacts stored and with what its scan was told. *)
THEOREM ExecutionInvariant == Spec => []ExecutionInv
<1> QED BY InitOK, NextKeepsInv, PTL DEF Spec

(* Types, with the bound on attempts. *)
THEOREM RunnerTypes == Spec => []TypeOK
<1>1. ExecutionInv => TypeOK
    BY DEF ExecutionInv
<1> QED BY <1>1, ExecutionInvariant, PTL

(* However heartbeats, uploads, lapses, reboots and other machines interleave, a
   success was never told to stop, a success or a partial has all it found among
   its artifacts save what is oversized, and a failure found nothing. *)
THEOREM HonestOutcomes == Spec => []OutcomeIsHonest
<1>1. ExecutionInv => OutcomeIsHonest
    BY DEF ExecutionInv
<1> QED BY <1>1, ExecutionInvariant, PTL

(* An outcome on record is final: no cancellation, late answer or second machine
   changes it, what it was based on, or the artifacts stored under it. *)
THEOREM OutcomesAreFinal ==
    Spec => [][row.state \in {"succeeded", "partial", "failed"}
                   => UNCHANGED <<row, stored, verdict>>]_vars
<1>1. ASSUME ExecutionInv, [Next]_vars, row.state \in {"succeeded", "partial", "failed"}
      PROVE  UNCHANGED <<row, stored, verdict>>
    BY <1>1 DEF Next, vars, Cancel, Lapse, Reboot, Runs, Claim, Claimable, Start, FirstRenewal,
       Judge, RenewUploading, Upload, RenewFinalizing, Finish, Holds, ChildCloses,
       HeartbeatFires, HeartbeatAnswered
<1> QED BY <1>1, ExecutionInvariant, PTL DEF Spec
=============================================================================
