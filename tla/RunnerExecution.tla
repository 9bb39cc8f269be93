-------------------------- MODULE RunnerExecution --------------------------
(***************************************************************************)
(* What a worker machine does with a run: the polling loop, the runner     *)
(* process it starts for each claim, the scan that process spawns, and the *)
(* heartbeat timer that runs beside it.                                    *)
(*                                                                         *)
(* The row of one run is seen through its lease: `live` says whether       *)
(* lease_expires_at is still ahead.  A call to the control plane is        *)
(* atomic; the network may lose its request or its answer.  The runner     *)
(* counts every file of the output directory as evidence but runner.log    *)
(* and execution-policy.json, which are left out; the scan's own event     *)
(* feed, events.jsonl, is a File.                                          *)
(***************************************************************************)
EXTENDS Integers

CONSTANTS
    Machine,            \* worker hosts
    File,               \* what a scan may leave in its output directory
    Oversized,          \* the files above the 25 MiB that are uploaded
    MAX_RUN_ATTEMPTS,
    SlowFirstRenewal    \* may the first renewal outlast a heartbeat interval?

ASSUME RunnerAssumption ==
    /\ Oversized \subseteq File
    /\ MAX_RUN_ATTEMPTS \in Nat \ {0}
    /\ SlowFirstRenewal \in BOOLEAN

VARIABLES
    row,        \* the run
    stored,     \* files of the run that are artifacts
    verdict,    \* what the runner that recorded an outcome had found
    machine,    \* the worker and its runner process on each machine
    disk        \* the run's output directory on each machine: it is never emptied

vars == <<row, stored, verdict, machine, disk>>

NoToken == 0
Token == 0..MAX_RUN_ATTEMPTS

Row == [state : {"queued", "running", "succeeded", "partial", "failed", "cancelled"},
        token : Token, live : BOOLEAN, attempt : 0..MAX_RUN_ATTEMPTS]

Runner == [pc : {"poll", "start", "renew", "scan", "closed", "uploading", "upload",
                 "finalizing", "finish"},
           token : Token,
           child : {"none", "running", "succeeded", "failed"},
           beat : {"none", "pending"},          \* a heartbeat awaits its answer
           lost : BOOLEAN,                      \* heartbeatFailure is set
           told : BOOLEAN,                      \* the scan was sent SIGTERM
           failure : BOOLEAN,
           listed : SUBSET File, todo : SUBSET File]

Polling == [pc |-> "poll", token |-> NoToken, child |-> "none", beat |-> "none",
            lost |-> FALSE, told |-> FALSE, failure |-> FALSE, listed |-> {}, todo |-> {}]

NoVerdict == [told |-> FALSE, listed |-> {}]

Init ==
    /\ row = [state |-> "queued", token |-> NoToken, live |-> FALSE, attempt |-> 0]
    /\ stored = {}
    /\ verdict = NoVerdict
    /\ machine = [m \in Machine |-> Polling]
    /\ disk = [m \in Machine |-> {}]

Holds(m) == row.state = "running" /\ row.live /\ row.token = machine[m].token

Becomes(m, r) == machine' = [machine EXCEPT ![m] = r]

----------------------------------------------------------------------------
(* The operator and the passing of time. *)

Cancel ==
    /\ row.state \in {"queued", "running"}
    /\ row' = [row EXCEPT !.state = "cancelled", !.token = NoToken, !.live = FALSE]
    /\ UNCHANGED <<stored, verdict, machine, disk>>

(* The lease runs out before its holder renews it. *)
Lapse ==
    /\ row.state = "running" /\ row.live
    /\ row' = [row EXCEPT !.live = FALSE]
    /\ UNCHANGED <<stored, verdict, machine, disk>>

(* A machine goes down with everything on it but its disk. *)
Reboot(m) ==
    /\ machine[m] # Polling
    /\ Becomes(m, Polling)
    /\ UNCHANGED <<row, stored, verdict, disk>>

----------------------------------------------------------------------------
(* The worker loop and the start of a runner. *)

(* A mutated CLAIMABLE: <= where the code has <. *)
ClaimableOneMore == \/ row.state = "queued"
                    \/ row.state = "running" /\ ~row.live /\ row.attempt <= MAX_RUN_ATTEMPTS

Claimable == \/ row.state = "queued"
             \/ row.state = "running" /\ ~row.live /\ row.attempt < MAX_RUN_ATTEMPTS

(* A mutated claim: only queued runs are picked up. *)
ClaimQueued(m) ==
    /\ machine[m].pc = "poll"
    /\ row.state = "queued"
    /\ row' = [state |-> "running", token |-> row.attempt + 1, live |-> TRUE,
               attempt |-> row.attempt + 1]
    /\ Becomes(m, [Polling EXCEPT !.pc = "start", !.token = row.attempt + 1])
    /\ UNCHANGED <<stored, verdict, disk>>

(* claim, then execute; the response may be lost, and with it the token. *)
Claim(m) ==
    /\ machine[m].pc = "poll"
    /\ Claimable
    /\ row' = [state |-> "running", token |-> row.attempt + 1, live |-> TRUE,
               attempt |-> row.attempt + 1]
    /\ \/ Becomes(m, [Polling EXCEPT !.pc = "start", !.token = row.attempt + 1])
       \/ UNCHANGED machine
    /\ UNCHANGED <<stored, verdict, disk>>

(* The runner exits before it set up anything (its revision differs, its output
   directory cannot be made), or starts its timers and renews. *)
Start(m) ==
    /\ machine[m].pc = "start"
    /\ Becomes(m, Polling) \/ Becomes(m, [machine[m] EXCEPT !.pc = "renew"])
    /\ UNCHANGED <<row, stored, verdict, disk>>

(* The first renewal; once it is answered the scan is spawned.  A signal that
   was aborted before has no listener left to call: the child gets none. *)
FirstRenewal(m) ==
    /\ machine[m].pc = "renew"
    /\ \/ /\ Holds(m)
          /\ Becomes(m, [machine[m] EXCEPT !.pc = "scan", !.child = "running"])
       \/ Becomes(m, [Polling EXCEPT !.pc = "uploading", !.token = machine[m].token,
                                     !.failure = TRUE])
    /\ UNCHANGED <<row, stored, verdict, disk>>

----------------------------------------------------------------------------
(* The scan and the heartbeat beside it. *)

TimerRuns(m) == \/ machine[m].pc \in {"scan", "closed"}
                \/ machine[m].pc = "renew" /\ SlowFirstRenewal

HeartbeatFires(m) ==
    /\ TimerRuns(m)
    /\ machine[m].beat = "none"
    /\ Becomes(m, [machine[m] EXCEPT !.beat = "pending"])
    /\ UNCHANGED <<row, stored, verdict, disk>>

(* A mutated answer: the error is kept, the scan is left alone. *)
HeartbeatIgnored(m) ==
    LET q == machine[m] IN
    /\ q.beat = "pending"
    /\ \/ Holds(m) /\ Becomes(m, [q EXCEPT !.beat = "none"])
       \/ Becomes(m, [q EXCEPT !.beat = "none", !.lost = TRUE])
    /\ UNCHANGED <<row, stored, verdict, disk>>

(* Its answer.  Any failure aborts, once: the abort signals the child that
   listens when it happens, and a second abort does nothing. *)
HeartbeatAnswered(m) ==
    LET q == machine[m] IN
    /\ q.beat = "pending"
    /\ \/ Holds(m) /\ Becomes(m, [q EXCEPT !.beat = "none"])
       \/ Becomes(m, [q EXCEPT !.beat = "none", !.lost = TRUE,
                          !.told = @ \/ (q.child = "running" /\ ~q.lost)])
    /\ UNCHANGED <<row, stored, verdict, disk>>

(* The scan ends, by itself or by SIGTERM, with whatever files it wrote. *)
ChildCloses(m) ==
    /\ machine[m].child = "running"
    /\ \E exit \in {"succeeded", "failed"}, written \in SUBSET File :
           /\ Becomes(m, [machine[m] EXCEPT !.pc = "closed", !.child = exit])
           /\ disk' = [disk EXCEPT ![m] = @ \cup written]
    /\ UNCHANGED <<row, stored, verdict>>

(* The log is written, the heartbeat's failure looked at, the timers cleared.  A
   heartbeat still in flight is forgotten: nothing looks at its answer again. *)
Judge(m) ==
    LET q == machine[m] IN
    /\ q.pc = "closed"
    /\ Becomes(m, [Polling EXCEPT !.pc = "uploading", !.token = q.token, !.told = q.told,
                                  !.failure = q.child = "failed" \/ q.lost])
    /\ UNCHANGED <<row, stored, verdict, disk>>

----------------------------------------------------------------------------
(* The upload; a call that fails ends the runner and leaves the lease. *)

Uploading(q, todo) ==
    [q EXCEPT !.todo = todo, !.pc = IF todo = {} THEN "finalizing" ELSE "upload"]

(* renew("uploading"), then the listing of the directory; an oversized file
   counts as evidence and is skipped. *)
RenewUploading(m) ==
    LET q == machine[m] IN
    /\ q.pc = "uploading"
    /\ \/ Holds(m) /\ Becomes(m, Uploading([q EXCEPT !.listed = disk[m]], disk[m] \ Oversized))
       \/ Becomes(m, Polling)
    /\ UNCHANGED <<row, stored, verdict, disk>>

(* A mutated upload: a file that fails is skipped. *)
UploadLeniently(m) ==
    LET q == machine[m] IN
    /\ q.pc = "upload"
    /\ \E f \in q.todo :
        /\ Becomes(m, Uploading(q, q.todo \ {f}))
        /\ (Holds(m) /\ stored' = stored \cup {f}) \/ UNCHANGED stored
    /\ UNCHANGED <<row, verdict, disk>>

Upload(m) ==
    LET q == machine[m] IN
    /\ q.pc = "upload"
    /\ \E f \in q.todo :
        \/ /\ Holds(m)
           /\ stored' = stored \cup {f}
           /\ Becomes(m, Uploading(q, q.todo \ {f})) \/ Becomes(m, Polling)
        \/ UNCHANGED stored /\ Becomes(m, Polling)
    /\ UNCHANGED <<row, verdict, disk>>

RenewFinalizing(m) ==
    LET q == machine[m] IN
    /\ q.pc = "finalizing"
    /\ (Holds(m) /\ Becomes(m, [q EXCEPT !.pc = "finish"])) \/ Becomes(m, Polling)
    /\ UNCHANGED <<row, stored, verdict, disk>>

Outcome(q) == CASE ~q.failure -> "succeeded"
                [] q.failure /\ q.listed # {} -> "partial"
                [] q.failure /\ q.listed = {} -> "failed"

(* complete or fail, and the end of the runner. *)
Finish(m) ==
    LET q == machine[m] IN
    /\ q.pc = "finish"
    /\ Becomes(m, Polling)
    /\ \/ /\ Holds(m)
          /\ row' = [row EXCEPT !.state = Outcome(q), !.token = NoToken, !.live = FALSE]
          /\ verdict' = [told |-> q.told, listed |-> q.listed]
       \/ UNCHANGED <<row, verdict>>
    /\ UNCHANGED <<stored, disk>>

Runs(m) == \/ Claim(m) \/ Start(m) \/ FirstRenewal(m) \/ Judge(m) \/ RenewUploading(m)
           \/ Upload(m) \/ RenewFinalizing(m) \/ Finish(m)

Next ==
    \/ Cancel \/ Lapse
    \/ \E m \in Machine : \/ Reboot(m) \/ Runs(m) \/ ChildCloses(m)
                          \/ HeartbeatFires(m) \/ HeartbeatAnswered(m)

Abandoned == \A m \in Machine : machine[m].token # row.token

(* Processes and timers run, calls are answered or time out, SIGTERM ends a
   scan, and a lease nobody can renew lapses.  A scan need not end by itself. *)
Fairness ==
    /\ WF_vars(Abandoned /\ Lapse)
    /\ \A m \in Machine : /\ WF_vars(Runs(m))
                          /\ WF_vars(HeartbeatFires(m))
                          /\ WF_vars(HeartbeatAnswered(m))
                          /\ WF_vars(machine[m].told /\ ChildCloses(m))

Spec == Init /\ [][Next]_vars /\ Fairness

----------------------------------------------------------------------------
(* Properties. *)

TypeOK ==
    /\ row \in Row
    /\ stored \subseteq File
    /\ verdict \in [told : BOOLEAN, listed : SUBSET File]
    /\ machine \in [Machine -> Runner]
    /\ disk \in [Machine -> SUBSET File]

(* What an outcome says is so: a success was never told to stop, however the
   heartbeat's failure raced the scan's end; and a success or a partial has every
   file its runner found among its artifacts, save the oversized, even when an
   earlier attempt uploaded some of them and another machine the rest. *)
OutcomeIsHonest ==
    /\ row.state = "succeeded" => ~verdict.told
    /\ row.state \in {"succeeded", "partial"} => verdict.listed \ Oversized \subseteq stored
    /\ row.state = "failed" => verdict.listed = {}

(* Cancellation invalidates the lease; the runner's next heartbeat fails and it
   stops the child process: a scan whose lease is gone does not run on. *)
LostLeaseStopsScan ==
    \A m \in Machine :
        (machine[m].child = "running" /\ ~Holds(m)) ~> (machine[m].child # "running")

Settled == \/ row.state \notin {"queued", "running"}
           \/ row.state = "running" /\ ~row.live /\ row.attempt = MAX_RUN_ATTEMPTS

(* If scans end, every run reaches an outcome or uses up its attempts, whatever
   calls, responses and machines are lost on the way. *)
EveryRunSettles ==
    (\A m \in Machine : []<>(machine[m].child # "running")) => (~Settled ~> Settled)
============================================================================
