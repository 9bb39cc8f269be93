----------------------------- MODULE RunStore -----------------------------
(***************************************************************************)
(* The `runs` table of the control plane as D1ControlCenterStore uses it:  *)
(* the predicates of its SQL statements and what each statement writes to  *)
(* a row.  Every operator is a function of a table or a row, so that the   *)
(* state machines that execute the statements share one reading of them.   *)
(*                                                                         *)
(* Left out of a row: heartbeat_at, started_at, completed_at, stage and    *)
(* progress_json, which no statement reads back, and the columns that an   *)
(* INSERT fixes for good, which are the constants below.                   *)
(***************************************************************************)
EXTENDS Integers

CONSTANTS
    Run,                \* the run ids that may ever be inserted
    Worker,             \* runner identities (worker_id)
    Host,               \* canonical hosts (digital_properties.host_key)
    Revision,           \* engine revisions
    HostOf,             \* host_key of each run's property: immutable once stored
    RunProvider,        \* execution_provider of each run
    RunRevision,        \* engine_revision of each run
    RequestedAt,        \* requested_at of each run
    MAX_RUN_ATTEMPTS,   \* retry budget of one run (3 in the code)
    NoWorker,           \* SQL NULL in worker_id
    AnyRevision         \* a claim that names no engine revision

NoToken  == 0           \* SQL NULL in lease_token_sha256
NoExpiry == -1          \* SQL NULL in lease_expires_at: less than every instant

Provider == {"nebuchadnezzar_worker", "github_actions"}

ASSUME StoreAssumption ==
    /\ HostOf \in [Run -> Host]
    /\ RunProvider \in [Run -> Provider]
    /\ RunRevision \in [Run -> Revision]
    /\ RequestedAt \in [Run -> Nat]
    /\ MAX_RUN_ATTEMPTS \in Nat \ {0}
    /\ NoWorker \notin Worker
    /\ AnyRevision \notin Revision

Outcome  == {"succeeded", "partial", "failed"}
RunState == {"queued", "running", "cancelled"} \cup Outcome
Terminal == Outcome \cup {"cancelled"}

Row == [state   : RunState \cup {"absent"},     \* "absent": not inserted yet
        worker  : Worker \cup {NoWorker},
        token   : Nat,
        expires : Nat \cup {NoExpiry},
        attempt : 0..MAX_RUN_ATTEMPTS]

AbsentRow == [state |-> "absent", worker |-> NoWorker, token |-> NoToken,
              expires |-> NoExpiry, attempt |-> 0]

----------------------------------------------------------------------------
(* What the statements test. *)

(* A mutated reading: the attempt bound is off by one. *)
ClaimableOneMore(row, at) ==
    \/ row.state = "queued"
    \/ /\ row.state = "running"
       /\ row.expires # NoExpiry
       /\ row.expires <= at
       /\ row.attempt <= MAX_RUN_ATTEMPTS

(* CLAIMABLE: queued, or leased until a past instant with attempts left. *)
Claimable(row, at) ==
    \/ row.state = "queued"
    \/ /\ row.state = "running"
       /\ row.expires # NoExpiry
       /\ row.expires <= at
       /\ row.attempt < MAX_RUN_ATTEMPTS

Unexpired(row, at) == row.state = "running" /\ row.expires > at

(* A mutated reading: each provider looks after its own runs only. *)
HostIdleWithinProvider(runs, r, at) ==
    ~ \E o \in Run \ {r} : /\ Unexpired(runs[o], at)
                           /\ HostOf[o] = HostOf[r]
                           /\ RunProvider[o] = RunProvider[r]

(* HOST_IDLE: no other run holds an unexpired lease on the same host. *)
HostIdle(runs, r, at) ==
    ~ \E o \in Run \ {r} : Unexpired(runs[o], at) /\ HostOf[o] = HostOf[r]

(* A mutated reading: the token is not compared. *)
LeaseValidAnyToken(row, w, token, at) ==
    row.state = "running" /\ row.worker = w /\ row.expires > at

(* The predicate renewLease, validLease and finishLeasedRun share. *)
LeaseValid(row, w, token, at) ==
    /\ row.state = "running"
    /\ row.worker = w
    /\ row.token = token
    /\ row.expires > at

Cancellable(row) == row.state \in {"queued", "running"}

(* The rows the subquery of claimNextRun selects from ... *)
Eligible(runs, provider, rev, at) ==
    {r \in Run : /\ RunProvider[r] = provider
                 /\ rev = AnyRevision \/ rev = RunRevision[r]
                 /\ Claimable(runs[r], at)
                 /\ HostIdle(runs, r, at)}

(* ... ORDER BY requested_at LIMIT 1: any oldest one, ties being unordered. *)
Oldest(rs) == {r \in rs : \A o \in rs : RequestedAt[r] <= RequestedAt[o]}

----------------------------------------------------------------------------
(* What the statements write. *)

(* INSERT of a freshly requested run. *)
QueuedRow == [AbsentRow EXCEPT !.state = "queued"]

(* A mutated claim: a reclaimed run keeps the token of its former lease. *)
ClaimedKeepingToken(row, w, token, until) ==
    [state |-> "running", worker |-> w, expires |-> until, attempt |-> row.attempt + 1,
     token |-> IF row.token = NoToken THEN token ELSE row.token]

(* A mutated claim: an expired lease is taken over without counting. *)
ClaimedUncounted(row, w, token, until) ==
    [state |-> "running", worker |-> w, token |-> token, expires |-> until,
     attempt |-> IF row.attempt = 0 THEN 1 ELSE row.attempt]

(* claimNextRun and claimRunById: a fresh lease, one attempt spent. *)
Claimed(row, w, token, until) ==
    [state |-> "running", worker |-> w, token |-> token, expires |-> until,
     attempt |-> row.attempt + 1]

Renewed(row, until) == [row EXCEPT !.expires = until]

Finished(row, outcome) ==
    [row EXCEPT !.state = outcome, !.token = NoToken, !.expires = NoExpiry]

Cancelled(row) ==
    [row EXCEPT !.state = "cancelled", !.token = NoToken, !.expires = NoExpiry]
============================================================================
