--------------------------- MODULE ControlPlane ---------------------------
(***************************************************************************)
(* The request handlers of the control plane around the lease statements.  *)
(*                                                                         *)
(* A handler is a chain of awaits on D1 and R2; other handlers run between *)
(* any two of them, and the platform may drop an invocation after any of   *)
(* them, which is also how its response is lost.  A request remembers      *)
(* `since`, the instant of its last await: the `new Date()` a statement    *)
(* binds was read between then and the statement.                          *)
(*                                                                         *)
(* Authentication, body schemas and response headers are left out: every   *)
(* request here is from the identity it claims and is well formed.         *)
(***************************************************************************)
EXTENDS RunStore, Bags, FiniteSets

CONSTANTS
    WorkerProvider,     \* as in RunLease
    WorkerRevision,
    LeaseSeconds,
    MaxClock,
    Slot,               \* invocations that may be in flight together
    Document,           \* what a runner uploads: a kind and its bytes
    DigestOf,           \* the SHA-256 of each document's bytes
    MaxRequests,        \* bound on the requests ever made
    Reported,           \* the types of event that runners report
    NoRun, NoDocument   \* null values

(* EventSchema, and the types among them that `events` audits too. *)
EventType == {"stage", "throttle", "backoff", "lease", "progress", "partial"}

Audited == {"throttle", "backoff", "partial"}

ASSUME ControlAssumption ==
    /\ WorkerProvider \in [Worker -> Provider]
    /\ WorkerRevision \in [Worker -> Revision \cup {AnyRevision}]
    /\ LeaseSeconds \subseteq Nat \ {0}
    /\ {MaxClock, MaxRequests} \subseteq Nat
    /\ IsFiniteSet(Slot)
    /\ Reported \subseteq EventType
    /\ NoRun \notin Run

VARIABLES
    runs, clock, minted, grants,    \* as in RunLease
    reqs,       \* the invocation in each slot
    issued,     \* how many requests were made
    events,     \* run_events of each run: a bag, for appends carry no order
    audit,      \* audit_events about each run, likewise
    theatre,    \* theatre_events of each run, likewise
    artifacts,  \* rows of `artifacts`
    bucket,     \* digests under which R2 holds an object
    acks        \* the successful responses that reached their client

leases == <<runs, minted, grants>>
logs == <<events, audit, theatre>>
evidence == <<artifacts, bucket>>
world == <<clock, issued, acks>>
vars == <<leases, logs, evidence, world, reqs>>

Op == {"claim", "renew", "finish", "cancel", "event", "theatre", "artifact"}

(* One request; the fields an operation has no use for keep their null.  `what`
   is the outcome a completion sends, or the type of an event. *)
Request == [op : Op,
            pc : {"lease", "read", "statement", "property", "event", "find", "head",
                  "put", "insert", "audit", "stage", "reply"},
            run : Run \cup {NoRun}, worker : Worker \cup {NoWorker}, token : Nat,
            what : Outcome \cup EventType \cup {"none"}, doc : Document \cup {NoDocument},
            attempt : 0..MAX_RUN_ATTEMPTS, since : 0..MaxClock]

Blank == [op |-> "claim", pc |-> "reply", run |-> NoRun, worker |-> NoWorker,
          token |-> NoToken, what |-> "none", doc |-> NoDocument, attempt |-> 0,
          since |-> 0]

Idle == [Blank EXCEPT !.op = "none"]

Init ==
    /\ runs = [r \in Run |-> AbsentRow]
    /\ clock = 0
    /\ minted = 0
    /\ grants = {}
    /\ reqs = [s \in Slot |-> Idle]
    /\ issued = 0
    /\ events = [r \in Run |-> EmptyBag]
    /\ audit = [r \in Run |-> EmptyBag]
    /\ theatre = [r \in Run |-> EmptyBag]
    /\ artifacts = {}
    /\ bucket = {}
    /\ acks = {}

----------------------------------------------------------------------------
(* The world around the handlers. *)

Tick ==
    /\ clock < MaxClock
    /\ clock' = clock + 1
    /\ UNCHANGED <<leases, logs, evidence, issued, acks, reqs>>

(* The INSERT of createRun; the dispatch module looks inside its handler. *)
CreateRun(r) ==
    /\ runs[r].state = "absent"
    /\ RequestedAt[r] <= clock
    /\ runs' = [runs EXCEPT ![r] = QueuedRow]
    /\ UNCHANGED <<minted, grants, logs, evidence, world, reqs>>

(* What a client may send: a worker claims; the holder of a claim response uses
   its token, also long after the lease is gone; an operator cancels. *)
Inserted == {r \in Run : runs[r].state # "absent"}

By(provider) == {w \in Worker : WorkerProvider[w] = provider}

Claim(w, r) == [Blank EXCEPT !.op = "claim", !.pc = "statement", !.worker = w, !.run = r]

Claims ==
    {Claim(w, NoRun) : w \in By("nebuchadnezzar_worker")}
        \cup {Claim(w, r) : w \in By("github_actions"),
                            r \in {o \in Inserted : RunProvider[o] = "github_actions"}}

Cancel(r) == [Blank EXCEPT !.op = "cancel", !.pc = "read", !.run = r]

Cancels == {Cancel(r) : r \in Inserted}

(* A call of the runner that claim response a made a lease holder. *)
Call(a, op, what, doc) ==
    [Blank EXCEPT !.op = op, !.pc = "lease", !.run = a.run, !.worker = a.worker,
                  !.token = a.token, !.what = what, !.doc = doc]

Leased ==
    LET held == {a \in acks : a.op = "claim"}
    IN  {Call(a, o, "none", NoDocument) : a \in held, o \in {"renew", "theatre"}}
            \cup {Call(a, "event", t, NoDocument) : a \in held, t \in Reported}
            \cup {Call(a, "finish", o, NoDocument) : a \in held, o \in Outcome}
            \cup {Call(a, "artifact", "none", d) : a \in held, d \in Document}

Arrive(s) ==
    /\ reqs[s] = Idle
    /\ issued < MaxRequests
    /\ issued' = issued + 1
    /\ \E q \in Claims \cup Cancels \cup Leased :
           reqs' = [reqs EXCEPT ![s] = [q EXCEPT !.since = clock]]
    /\ UNCHANGED <<leases, logs, evidence, clock, acks>>

(* An invocation is dropped: what it awaited is done, the rest never happens. *)
Drop(s) ==
    /\ reqs[s] # Idle
    /\ reqs' = [reqs EXCEPT ![s] = Idle]
    /\ UNCHANGED <<leases, logs, evidence, world>>

----------------------------------------------------------------------------
(* The handlers, one action per await. *)

At(s, ops, pc) == reqs[s].op \in ops /\ reqs[s].pc = pc

(* The instants `new Date()` can have read since the last await. *)
Now(q) == q.since..clock

Continue(s, q, pc) == reqs' = [reqs EXCEPT ![s] = [q EXCEPT !.pc = pc, !.since = clock]]

(* An error response, or 204: the client learns nothing it may rely on. *)
Refuse(s) == reqs' = [reqs EXCEPT ![s] = Idle]

Append1(log, r, entry) == [log EXCEPT ![r] = @ (+) SetToBag({entry})]

(* claimNextRun or claimRunById. *)
ClaimStatement(s) ==
    LET q == reqs[s]
        byId == q.run # NoRun
        revision == IF byId THEN AnyRevision ELSE WorkerRevision[q.worker] IN
    /\ At(s, {"claim"}, "statement")
    /\ \E at \in Now(q), len \in LeaseSeconds :
           LET eligible == Eligible(runs, WorkerProvider[q.worker], revision, at)
               picked == IF byId THEN eligible \cap {q.run} ELSE Oldest(eligible) IN
           \/ /\ picked = {}
              /\ Refuse(s)
              /\ UNCHANGED <<leases>>
           \/ \E r \in picked :
                 LET row == Claimed(runs[r], q.worker, minted + 1, at + len) IN
                 /\ runs' = [runs EXCEPT ![r] = row]
                 /\ minted' = minted + 1
                 /\ grants' = grants \cup {[run |-> r, worker |-> q.worker,
                                            token |-> row.token, attempt |-> row.attempt]}
                 /\ Continue(s, [q EXCEPT !.run = r, !.token = row.token,
                                          !.attempt = row.attempt], "property")
    /\ UNCHANGED <<logs, evidence, world>>

(* propertyForCase after a claim.  Nothing here writes digital_properties.active,
   so either value may be read; 409 leaves the lease just taken in place. *)
ReadProperty(s) ==
    /\ At(s, {"claim"}, "property")
    /\ Refuse(s) \/ Continue(s, reqs[s], "event")
    /\ UNCHANGED <<leases, logs, evidence, world>>

(* requireLease, which every call of a lease holder starts with. *)
CheckLease(s) ==
    LET q == reqs[s]
        next == CASE q.op \in {"renew", "finish"} -> "statement"
                  [] q.op = "event" -> "event"
                  [] q.op = "theatre" -> "stage"
                  [] q.op = "artifact" -> "find" IN
    /\ At(s, Op \ {"claim", "cancel"}, "lease")
    /\ \E at \in Now(q) :
           IF LeaseValid(runs[q.run], q.worker, q.token, at)
           THEN Continue(s, q, next)
           ELSE Refuse(s)
    /\ UNCHANGED <<leases, logs, evidence, world>>

RenewStatement(s) ==
    LET q == reqs[s] IN
    /\ At(s, {"renew"}, "statement")
    /\ \E at \in Now(q), len \in LeaseSeconds :
           IF LeaseValid(runs[q.run], q.worker, q.token, at)
           THEN /\ runs' = [runs EXCEPT ![q.run] = Renewed(@, at + len)]
                /\ Continue(s, q, "event")
           ELSE Refuse(s) /\ UNCHANGED runs
    /\ UNCHANGED <<minted, grants, logs, evidence, world>>

(* A mutated complete: the UPDATE relies on the check requireLease made. *)
FinishUnchecked(s) ==
    LET q == reqs[s] IN
    /\ At(s, {"finish"}, "statement")
    /\ runs' = [runs EXCEPT ![q.run] = Finished(@, q.what)]
    /\ Continue(s, q, "audit")
    /\ UNCHANGED <<minted, grants, logs, evidence, world>>

(* finishLeasedRun, for complete and fail. *)
FinishStatement(s) ==
    LET q == reqs[s] IN
    /\ At(s, {"finish"}, "statement")
    /\ \E at \in Now(q) :
           IF LeaseValid(runs[q.run], q.worker, q.token, at)
           THEN /\ runs' = [runs EXCEPT ![q.run] = Finished(@, q.what)]
                /\ Continue(s, q, "audit")
           ELSE Refuse(s) /\ UNCHANGED runs
    /\ UNCHANGED <<minted, grants, logs, evidence, world>>

(* The first read of cancel: a run already cancelled is a replay. *)
ReadRun(s) ==
    LET q == reqs[s] IN
    /\ At(s, {"cancel"}, "read")
    /\ Continue(s, q, IF runs[q.run].state = "cancelled" THEN "reply" ELSE "statement")
    /\ UNCHANGED <<leases, logs, evidence, world>>

(* A mutated cancel: the row is taken to be what ReadRun saw. *)
CancelUnchecked(s) ==
    LET q == reqs[s] IN
    /\ At(s, {"cancel"}, "statement")
    /\ runs' = [runs EXCEPT ![q.run] = Cancelled(@)]
    /\ Continue(s, q, "audit")
    /\ UNCHANGED <<minted, grants, logs, evidence, world>>

CancelStatement(s) ==
    LET q == reqs[s] IN
    /\ At(s, {"cancel"}, "statement")
    /\ IF Cancellable(runs[q.run])
       THEN /\ runs' = [runs EXCEPT ![q.run] = Cancelled(@)]
            /\ Continue(s, q, "audit")
       ELSE Refuse(s) /\ UNCHANGED runs
    /\ UNCHANGED <<minted, grants, logs, evidence, world>>

(* findArtifact: the same document of the same run is a replay. *)
FindArtifact(s) ==
    LET q == reqs[s] IN
    /\ At(s, {"artifact"}, "find")
    /\ Continue(s, q, IF [run |-> q.run, doc |-> q.doc] \in artifacts THEN "reply" ELSE "head")
    /\ UNCHANGED <<leases, logs, evidence, world>>

(* A mutated upload: the row is inserted whether or not the object is there. *)
HeadSkippingPut(s) ==
    /\ At(s, {"artifact"}, "head")
    /\ Continue(s, reqs[s], "insert")
    /\ UNCHANGED <<leases, logs, evidence, world>>

(* bucket.head: an object under this digest is not written again. *)
HeadObject(s) ==
    LET q == reqs[s] IN
    /\ At(s, {"artifact"}, "head")
    /\ Continue(s, q, IF DigestOf[q.doc] \in bucket THEN "insert" ELSE "put")
    /\ UNCHANGED <<leases, logs, evidence, world>>

(* A mutated key: the object is stored by document, not by digest. *)
PutByDocument(s) ==
    LET q == reqs[s] IN
    /\ At(s, {"artifact"}, "put")
    /\ bucket' = bucket \cup {q.doc}
    /\ Continue(s, q, "insert")
    /\ UNCHANGED <<leases, logs, artifacts, world>>

(* The create-only put.  When another upload of the same bytes came first, R2
   refuses it and the second head finds that object: nothing deletes one. *)
PutObject(s) ==
    LET q == reqs[s] IN
    /\ At(s, {"artifact"}, "put")
    /\ bucket' = bucket \cup {DigestOf[q.doc]}
    /\ Continue(s, q, "insert")
    /\ UNCHANGED <<leases, logs, artifacts, world>>

(* addArtifact: UNIQUE(run_id, kind, sha256) fails the second of two inserts. *)
InsertArtifact(s) ==
    LET q == reqs[s]
        row == [run |-> q.run, doc |-> q.doc] IN
    /\ At(s, {"artifact"}, "insert")
    /\ artifacts' = artifacts \cup {row}
    /\ IF row \in artifacts THEN Refuse(s) ELSE Continue(s, q, "audit")
    /\ UNCHANGED <<leases, logs, bucket, world>>

EventEntry(q) ==
    [what |-> CASE q.op = "claim" -> "claimed" [] q.op = "renew" -> "renewed"
                [] q.op = "event" -> q.what,
     attempt |-> q.attempt]

(* appendRunEvent. *)
AppendEvent(s) ==
    LET q == reqs[s]
        audited == q.op = "claim" \/ (q.op = "event" /\ q.what \in Audited) IN
    /\ At(s, {"claim", "renew", "event"}, "event")
    /\ events' = Append1(events, q.run, EventEntry(q))
    /\ Continue(s, q, IF audited THEN "audit" ELSE "reply")
    /\ UNCHANGED <<leases, audit, theatre, evidence, world>>

(* The action string: a completion writes run.<outcome> and an audited event
   run.<type>, so that run.partial may come from either. *)
AuditEntry(q) ==
    [what |-> CASE q.op = "claim" -> "claimed" [] q.op \in {"finish", "event"} -> q.what
                [] q.op = "cancel" -> "cancelled" [] q.op = "artifact" -> "stored",
     attempt |-> q.attempt, doc |-> q.doc]

AppendAudit(s) ==
    LET q == reqs[s] IN
    /\ At(s, {"claim", "finish", "cancel", "event", "artifact"}, "audit")
    /\ audit' = Append1(audit, q.run, AuditEntry(q))
    /\ Continue(s, q, IF q.op \in {"event", "artifact"} THEN "reply" ELSE "stage")
    /\ UNCHANGED <<leases, events, theatre, evidence, world>>

(* The verdict runStage records; "reported" stands for the runner's own events. *)
Verdict(q) ==
    CASE q.op = "claim" -> "start"
      [] q.op = "cancel" -> "cancelled"
      [] q.op = "finish" -> IF q.what = "succeeded" THEN "end" ELSE "partial"
      [] q.op = "theatre" -> "reported"

(* runStage, or the batch INSERT of a runner's theatre events. *)
AppendStage(s) ==
    LET q == reqs[s] IN
    /\ At(s, {"claim", "finish", "cancel", "theatre"}, "stage")
    /\ theatre' = Append1(theatre, q.run, Verdict(q))
    /\ Continue(s, q, "reply")
    /\ UNCHANGED <<leases, events, audit, evidence, world>>

(* The response arrives. *)
Reply(s) ==
    /\ At(s, Op, "reply")
    /\ acks' = acks \cup {[reqs[s] EXCEPT !.since = 0]}
    /\ reqs' = [reqs EXCEPT ![s] = Idle]
    /\ UNCHANGED <<leases, logs, evidence, clock, issued>>

Next ==
    \/ Tick
    \/ \E r \in Run : CreateRun(r)
    \/ \E s \in Slot :
        \/ Arrive(s) \/ Drop(s) \/ Reply(s)
        \/ ClaimStatement(s) \/ ReadProperty(s)
        \/ CheckLease(s) \/ RenewStatement(s) \/ FinishStatement(s)
        \/ ReadRun(s) \/ CancelStatement(s)
        \/ FindArtifact(s) \/ HeadObject(s) \/ PutObject(s) \/ InsertArtifact(s)
        \/ AppendEvent(s) \/ AppendAudit(s) \/ AppendStage(s)

Spec == Init /\ [][Next]_vars

----------------------------------------------------------------------------
(* Properties. *)

TypeOK ==
    /\ runs \in [Run -> Row]
    /\ clock \in 0..MaxClock
    /\ minted \in 0..MaxRequests
    /\ reqs \in [Slot -> Request \cup {Idle}]
    /\ issued \in 0..MaxRequests
    /\ \A r \in Run : IsABag(events[r]) /\ IsABag(audit[r]) /\ IsABag(theatre[r])
    /\ artifacts \subseteq [run : Run, doc : Document]
    /\ bucket \subseteq {DigestOf[d] : d \in Document}
    /\ acks \subseteq Request

Lease == INSTANCE RunLease WITH MaxLag <- MaxClock

(* However the awaits of concurrent handlers interleave, wherever invocations
   are dropped, the table changes only as single statements of RunLease may
   change it: a check made earlier in the handler is never what a write rests on. *)
ImplementsLease == Lease!Spec

(* The endings that no event is named for, and the entry that names either. *)
Ending == Terminal \ EventType

PartialAudit == [what |-> "partial", attempt |-> 0, doc |-> NoDocument]
PartialEvent == [what |-> "partial", attempt |-> 0]

Copies(entry, log) == IF BagIn(entry, log) THEN log[entry] ELSE 0

(* What the audit log says of a run's end is so, whatever completions, failures,
   cancellations and events raced.  It names at most one of succeeded, failed and
   cancelled, once, and the row's; it numbers each claim once.  `partial` is also
   an event's name, and such an entry may stand beside any row: there is one for
   each partial event at most, and one more only where the row is partial.  An
   entry can be missing (a dropped invocation), never wrong. *)
AuditAgreesWithRow ==
    \A r \in Run :
        LET named == BagToSet(audit[r])
            final == {e \in named : e.what \in Ending}
            claims == {e \in named : e.what = "claimed"} IN
        /\ final # {} => {e.what : e \in final} = {runs[r].state}
        /\ \A e \in final \cup claims : audit[r][e] = 1
        /\ \A e \in claims : e.attempt \in 1..runs[r].attempt
        /\ Copies(PartialAudit, audit[r]) <=
               Copies(PartialEvent, events[r]) + (IF runs[r].state = "partial" THEN 1 ELSE 0)

(* Every artifact row leads to bytes: R2 holds an object under its digest. *)
ArtifactBacked ==
    \A a \in artifacts : DigestOf[a.doc] \in bucket

(* What a client was told of stays so: a leaseholder's claim is on record before
   it may scan, a completion and a cancellation are final, an acknowledged
   artifact can be downloaded. *)
AcknowledgedHolds ==
    \A a \in acks :
        /\ a.op = "claim" =>
              /\ \E g \in grants : g.token = a.token /\ g.run = a.run /\ g.attempt = a.attempt
              /\ BagIn(AuditEntry(a), audit[a.run])
              /\ BagIn(EventEntry(a), events[a.run])
              /\ BagIn("start", theatre[a.run])
        /\ a.op = "finish" => runs[a.run].state = a.what /\ BagIn(AuditEntry(a), audit[a.run])
        /\ a.op = "cancel" => runs[a.run].state = "cancelled"
        /\ a.op = "artifact" => /\ [run |-> a.run, doc |-> a.doc] \in artifacts
                                /\ DigestOf[a.doc] \in bucket
============================================================================
