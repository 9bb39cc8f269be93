----------------------------- MODULE RunLease -----------------------------
(***************************************************************************)
(* Leases on runs: every SQL statement of the store that changes a row of  *)
(* `runs`, each one atomic, issued by workers that hold, or once held, a   *)
(* lease.                                                                  *)
(*                                                                         *)
(* A handler reads the clock, then sends its statement, so the statement   *)
(* tests and writes an instant `at` that may lie in the past when it       *)
(* executes.  MaxLag bounds how far: 0 is a statement that executes at the *)
(* instant its handler read.                                               *)
(***************************************************************************)
EXTENDS RunStore

CONSTANTS
    WorkerProvider,     \* the provider each worker authenticates as
    WorkerRevision,     \* the revision each worker names when it claims
    LeaseSeconds,       \* lease lengths a claim or a renewal may ask for
    MaxLag,             \* bound on statement instant minus handler instant
    MaxClock            \* bound on the clock

ASSUME LeaseAssumption ==
    /\ WorkerProvider \in [Worker -> Provider]
    /\ WorkerRevision \in [Worker -> Revision \cup {AnyRevision}]
    /\ LeaseSeconds \subseteq Nat \ {0}
    /\ MaxLag \in Nat
    /\ MaxClock \in Nat

VARIABLES
    runs,       \* the table: a row for each run
    clock,      \* the present instant
    minted,     \* how many lease tokens were ever stored: tokens never repeat
    grants      \* every lease ever granted, as its claim response states it

vars == <<runs, clock, minted, grants>>

Grant == [run : Run, worker : Worker, token : Nat, attempt : 1..MAX_RUN_ATTEMPTS]

(* The instants a handler whose statement executes now may have read. *)
Readable == {at \in 0..clock : clock - at <= MaxLag}

Init ==
    /\ runs = [r \in Run |-> AbsentRow]
    /\ clock = 0
    /\ minted = 0
    /\ grants = {}

(* Time passes. *)
Tick ==
    /\ clock < MaxClock
    /\ clock' = clock + 1
    /\ UNCHANGED <<runs, minted, grants>>

(* requestRun inserts a run the operator asked for, after reading requested_at. *)
RequestRun(r) ==
    /\ runs[r].state = "absent"
    /\ RequestedAt[r] <= clock
    /\ runs' = [runs EXCEPT ![r] = QueuedRow]
    /\ UNCHANGED <<clock, minted, grants>>

(* The row and the grant a successful claim leaves behind. *)
Take(r, w, at, len) ==
    LET row == Claimed(runs[r], w, minted + 1, at + len) IN
    /\ runs' = [runs EXCEPT ![r] = row]
    /\ minted' = minted + 1
    /\ grants' = grants \cup {[run |-> r, worker |-> w, token |-> minted + 1,
                               attempt |-> row.attempt]}
    /\ UNCHANGED clock

(* claimNextRun, for the polling workers: the oldest eligible run of the
   revision the worker names. *)
ClaimNextRun(w) ==
    /\ WorkerProvider[w] = "nebuchadnezzar_worker"
    /\ \E at \in Readable, len \in LeaseSeconds :
           \E r \in Oldest(Eligible(runs, WorkerProvider[w], WorkerRevision[w], at)) :
               Take(r, w, at, len)

(* claimRunById, for workflows: the run one was dispatched for, whatever its
   revision. *)
ClaimRunById(w, r) ==
    /\ WorkerProvider[w] = "github_actions"
    /\ \E at \in Readable, len \in LeaseSeconds :
           /\ r \in Eligible(runs, WorkerProvider[w], AnyRevision, at)
           /\ Take(r, w, at, len)

RenewLease(g) ==
    \E at \in Readable, len \in LeaseSeconds :
        /\ LeaseValid(runs[g.run], g.worker, g.token, at)
        /\ runs' = [runs EXCEPT ![g.run] = Renewed(@, at + len)]
        /\ UNCHANGED <<clock, minted, grants>>

FinishLeasedRun(g, outcome) ==
    \E at \in Readable :
        /\ LeaseValid(runs[g.run], g.worker, g.token, at)
        /\ runs' = [runs EXCEPT ![g.run] = Finished(@, outcome)]
        /\ UNCHANGED <<clock, minted, grants>>

(* A mutated cancel: the state test is forgotten. *)
CancelAnyRun(r) ==
    /\ runs[r].state # "absent"
    /\ runs' = [runs EXCEPT ![r] = Cancelled(@)]
    /\ UNCHANGED <<clock, minted, grants>>

CancelRun(r) ==
    /\ Cancellable(runs[r])
    /\ runs' = [runs EXCEPT ![r] = Cancelled(@)]
    /\ UNCHANGED <<clock, minted, grants>>

Next ==
    \/ Tick
    \/ \E r \in Run : RequestRun(r) \/ CancelRun(r)
    \/ \E w \in Worker : ClaimNextRun(w)
    \/ \E w \in Worker, r \in Run : ClaimRunById(w, r)
    \/ \E g \in grants : RenewLease(g)
    \/ \E g \in grants, outcome \in Outcome : FinishLeasedRun(g, outcome)

Spec == Init /\ [][Next]_vars

----------------------------------------------------------------------------
(* Properties. *)

(* Every variable holds values of its column's type. *)
TypeOK ==
    /\ runs \in [Run -> Row]
    /\ clock \in 0..MaxClock
    /\ minted \in Nat
    /\ grants \subseteq Grant

(* The lease columns are set exactly while the run runs, whichever statement
   wrote the row last; only a run that was never claimed waits in the queue.
   Every reader of `runs` relies on it: an orphaned expiry on a finished or
   cancelled row would keep its host busy or its run claimable for ever. *)
LeaseShape ==
    \A r \in Run :
        /\ (runs[r].state = "running") <=> (runs[r].token # NoToken)
        /\ (runs[r].state = "running") <=> (runs[r].expires # NoExpiry)
        /\ runs[r].state \in {"absent", "queued"} => runs[r].attempt = 0
        /\ runs[r].state = "running" => runs[r].attempt > 0 /\ runs[r].worker # NoWorker

(* The retry budget is counted honestly: the leases ever granted on a run are
   numbered 1..attempt, each number once, so the column tells how often the
   site was handed to a runner and no takeover goes uncounted. *)
AttemptAccounting ==
    /\ \A r \in Run : {g.attempt : g \in {h \in grants : h.run = r}} = 1..runs[r].attempt
    /\ \A g, h \in grants : g.run = h.run /\ g.attempt = h.attempt => g = h

Current(g) == runs[g.run].token = g.token

(* A running run obeys exactly one lease, the last one granted on it. *)
LastLeaseRules ==
    \A r \in Run : runs[r].state = "running" =>
        \E g \in grants : /\ g.run = r /\ Current(g)
                          /\ g.worker = runs[r].worker
                          /\ g.attempt = runs[r].attempt

(* Fencing: once a reclaim granted a later lease on its run, no reading of the
   clock lets an earlier one renew, complete or fail the run, so a runner that
   went silent and comes back can change nothing, however late its calls arrive. *)
FencedOut ==
    \A g, h \in grants : g.run = h.run /\ g.attempt < h.attempt =>
        \A at \in 0..MaxClock : ~LeaseValid(runs[g.run], g.worker, g.token, at)

(* At most one leased run per canonical host across all providers. *)
HostExclusive ==
    \A r, o \in Run :
        /\ Unexpired(runs[r], clock)
        /\ Unexpired(runs[o], clock)
        /\ HostOf[r] = HostOf[o]
        => r = o

Exhausted(r) ==
    /\ runs[r].state = "running"
    /\ runs[r].expires <= clock
    /\ runs[r].attempt = MAX_RUN_ATTEMPTS

(* A renewal brought a lease back to life: the lease had lapsed when the
   statement executed, but not at the instant its handler had read. *)
Revived(r) ==
    /\ runs[r].state = "running"
    /\ runs[r].expires <= clock
    /\ clock < runs[r].expires + MaxLag
    /\ runs'[r].token = runs[r].token
    /\ Unexpired(runs'[r], clock')

(* What the claim statements guarantee, however late they execute: a host that
   one leased run has to itself gets a second one only by a renewal that comes
   so late that its lease had lapsed, never by a claim, of either provider. *)
OnlyLateRenewalsOverlap ==
    [][HostExclusive => HostExclusive' \/ \E r \in Run : Revived(r)]_vars

(* A run whose last permitted lease lapsed is never claimed again: it stays as
   it is until an operator cancels it.  The one other thing that can move it is
   a call of its last holder, on its way since before the lease lapsed. *)
ExhaustedWaitsForOperator ==
    [][\A r \in Run : Exhausted(r) =>
            \/ runs'[r] = runs[r]
            \/ runs'[r].state = "cancelled"
            \/ /\ clock < runs[r].expires + MaxLag
               /\ runs'[r].attempt = runs[r].attempt
               /\ runs'[r].token \in {runs[r].token, NoToken}]_vars

Lifecycle == INSTANCE RunLifecycle WITH state <- [r \in Run |-> runs[r].state]

(* The table implements the published state machine of a run. *)
ImplementsLifecycle == Lifecycle!Spec
============================================================================
