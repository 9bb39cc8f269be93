------------------------- MODULE ControlPlaneProofs -------------------------
(***************************************************************************)
(* Proofs about ControlPlane, for every set of runs, workers, documents    *)
(* and slots, every retry budget and every bound.                          *)
(*                                                                         *)
(* None of the properties is inductive: each speaks of what was answered   *)
(* or logged, and an answer is only as good as what the handler did some   *)
(* awaits earlier.  ControlInv says, for each await a handler can stand    *)
(* at, what it has written by then (Holds), and that the audit log owes    *)
(* one entry for each claim and outcome not yet logged (OwedOnce).  An     *)
(* outcome `partial` and an event of that type leave the same entry, so    *)
(* those are counted against their causes instead (PartialsCounted).       *)
(***************************************************************************)
EXTENDS ControlPlane, FiniteSetTheorems, TLAPS

Pc == {"lease", "read", "statement", "property", "event", "find", "head",
       "put", "insert", "audit", "stage", "reply"}

(* What ControlPlane's TypeOK leaves open: each log is kept per run, and a grant
   names a run and a worker. *)
Shape ==
    /\ TypeOK
    /\ DOMAIN events = Run /\ DOMAIN audit = Run /\ DOMAIN theatre = Run
    /\ grants \subseteq Lease!Grant

(* A run that was never claimed has spent no attempt. *)
Fresh == \A r \in Run : runs[r].state \in {"absent", "queued"} => runs[r].attempt = 0

(* n is q at a later await. *)
Same(n, q) ==
    /\ n.op = q.op /\ n.run = q.run /\ n.worker = q.worker /\ n.token = q.token
    /\ n.what = q.what /\ n.doc = q.doc /\ n.attempt = q.attempt

----------------------------------------------------------------------------
(* Requests and what they promise. *)

(* A request names what its operation is about. *)
Addressed(q) ==
    /\ q.op = "claim" /\ q.pc = "statement" =>
          /\ q.worker \in Worker
          /\ \/ q.run = NoRun /\ WorkerProvider[q.worker] = "nebuchadnezzar_worker"
             \/ q.run \in Run /\ WorkerProvider[q.worker] = "github_actions"
    /\ q.op = "cancel" => q.run \in Run
    /\ q.op = "finish" => q.what \in Outcome
    /\ q.op = "artifact" => q.doc \in Document
    /\ q.op = "event" => q.what \in EventType /\ q.attempt = 0

(* A lease holder's request carries a lease that was granted. *)
Names(q, g) == g.run = q.run /\ g.worker = q.worker /\ g.token = q.token

Granted(q) ==
    /\ q.op \in Op \ {"claim", "cancel"} => \E g \in grants : Names(q, g)
    /\ q.op = "claim" /\ q.pc # "statement" =>
          \E g \in grants : Names(q, g) /\ g.attempt = q.attempt

(* What a handler has written by the time it gets to an await ... *)
ClaimKept(q) ==
    q.op = "claim" =>
        /\ q.pc \in {"audit", "stage", "reply"} => BagIn(EventEntry(q), events[q.run])
        /\ q.pc \in {"stage", "reply"} => BagIn(AuditEntry(q), audit[q.run])
        /\ q.pc = "reply" => BagIn("start", theatre[q.run])

EndKept(q) ==
    /\ q.op = "finish" /\ q.pc \in {"audit", "stage", "reply"} => runs[q.run].state = q.what
    /\ q.op = "finish" /\ q.pc \in {"stage", "reply"} => BagIn(AuditEntry(q), audit[q.run])
    /\ q.op = "cancel" /\ q.pc \in {"audit", "stage", "reply"} => runs[q.run].state = "cancelled"

UploadKept(q) ==
    q.op = "artifact" =>
        /\ q.pc = "insert" => DigestOf[q.doc] \in bucket
        /\ q.pc \in {"audit", "reply"} => /\ [run |-> q.run, doc |-> q.doc] \in artifacts
                                          /\ DigestOf[q.doc] \in bucket

Holds(q) == Addressed(q) /\ Granted(q) /\ ClaimKept(q) /\ EndKept(q) /\ UploadKept(q)

(* ... which stays so, for the requests under way and the responses received. *)
Kept ==
    /\ \A s \in Slot : Holds(reqs[s])
    /\ \A a \in acks : Holds(a) /\ a.pc = "reply"

----------------------------------------------------------------------------
(* The audit log. *)

(* A slot that still owes the audit log an outcome, or a claim. *)
OwesEnd(s) == reqs[s].op \in {"finish", "cancel"} /\ reqs[s].pc = "audit"
OwesClaim(s) == reqs[s].op = "claim" /\ reqs[s].pc \in {"property", "event", "audit"}

(* Nothing is owed twice, nor owed and paid. *)
OwedOnce ==
    /\ \A s, t \in Slot : OwesEnd(s) /\ OwesEnd(t) /\ reqs[s].run = reqs[t].run => s = t
    /\ \A s, t \in Slot : /\ OwesClaim(s) /\ OwesClaim(t) /\ reqs[s].run = reqs[t].run
                          /\ reqs[s].attempt = reqs[t].attempt
                          => s = t
    /\ \A s \in Slot : OwesEnd(s) =>
          \A e \in DOMAIN audit[reqs[s].run] : e.what \notin Ending
    /\ \A s \in Slot : OwesClaim(s) =>
          /\ reqs[s].attempt \in 1..runs[reqs[s].run].attempt
          /\ \A e \in DOMAIN audit[reqs[s].run] :
                e.what = "claimed" => e.attempt # reqs[s].attempt

(* An entry agrees with the row, and one outcome is all a log has. *)
LogsAgree ==
    \A r \in Run : \A e \in DOMAIN audit[r] :
        /\ e.what \in Ending => e.what = runs[r].state
        /\ e.what = "claimed" => e.attempt \in 1..runs[r].attempt
        /\ e.what \in Ending \cup {"claimed"} => audit[r][e] = 1

(* An entry `partial`, written or owed, has an event or the row behind it. *)
OwesPartial(s, r) ==
    /\ reqs[s].op \in {"event", "finish"} /\ reqs[s].pc = "audit"
    /\ reqs[s].what = "partial" /\ reqs[s].run = r

Partials(r) == {s \in Slot : OwesPartial(s, r)}

IsPartial(r) == IF runs[r].state = "partial" THEN 1 ELSE 0

PartialHasCause(r) ==
    Copies(PartialAudit, audit[r]) + Cardinality(Partials(r))
        <= Copies(PartialEvent, events[r]) + IsPartial(r)

PartialsCounted == \A r \in Run : PartialHasCause(r)

----------------------------------------------------------------------------
(* Tokens: every one of them, and every claim yet to mint one, is a request. *)

Claiming == {s \in Slot : reqs[s].op = "claim" /\ reqs[s].pc = "statement"}

TokensCounted == minted + Cardinality(Claiming) <= issued

ControlInv ==
    /\ Shape /\ Fresh
    /\ Kept /\ ArtifactBacked
    /\ OwedOnce /\ LogsAgree /\ PartialsCounted
    /\ TokensCounted

----------------------------------------------------------------------------
(* How handlers move. *)

(* The slot that runs an operation holds a request. *)
LEMMA Running ==
    ASSUME TypeOK, NEW s \in Slot, reqs[s].op \in Op
    PROVE  reqs[s] \in Request
<1>1. reqs[s] \in Request \cup {Idle}
    BY DEF TypeOK
<1>2. Idle.op = "none"
    BY DEF Idle, Blank
<1> QED BY <1>1, <1>2 DEF Op

(* Continuing changes the await and the instant, in the handler's own slot. *)
LEMMA ContinueMeans ==
    ASSUME TypeOK, NEW s, NEW q \in Request, NEW pc \in Pc, Continue(s, q, pc)
    PROVE  \E n \in Request : /\ Same(n, q) /\ n.pc = pc /\ n.since = clock
                              /\ reqs' = [reqs EXCEPT ![s] = n]
<1> DEFINE n == [q EXCEPT !.pc = pc, !.since = clock]
<1>1. n \in Request /\ Same(n, q) /\ n.pc = pc /\ n.since = clock
    BY DEF Request, Same, Pc, TypeOK
<1>2. reqs' = [reqs EXCEPT ![s] = n]
    BY DEF Continue
<1> QED BY <1>1, <1>2

(* The same request, in its own words. *)
LEMMA SameEntries ==
    ASSUME NEW n, NEW q, Same(n, q)
    PROVE  AuditEntry(n) = AuditEntry(q) /\ EventEntry(n) = EventEntry(q) /\ Verdict(n) = Verdict(q)
BY DEF Same, AuditEntry, EventEntry, Verdict

(* A row that may be claimed has an attempt left. *)
LEMMA ClaimableRow ==
    ASSUME TypeOK, Fresh, NEW r \in Run, NEW at, Claimable(runs[r], at)
    PROVE  /\ runs[r].attempt + 1 \in 1..MAX_RUN_ATTEMPTS
           /\ runs[r].state \in {"queued", "running"}
BY StoreAssumption DEF TypeOK, Fresh, Claimable, Row

(* A claim that finds a run takes it, mints a token and notes the grant. *)
Claims1(s, r, at, until, n) ==
    /\ Claimable(runs[r], at)
    /\ runs' = [runs EXCEPT ![r] = Claimed(runs[r], reqs[s].worker, minted + 1, until)]
    /\ minted' = minted + 1
    /\ \E g \in Lease!Grant : /\ grants' = grants \cup {g}
                              /\ Names(n, g) /\ g.attempt = n.attempt
    /\ reqs' = [reqs EXCEPT ![s] = n]
    /\ n.op = "claim" /\ n.pc = "property" /\ n.run = r /\ n.worker = reqs[s].worker
    /\ n.token = minted + 1 /\ n.attempt = runs[r].attempt + 1

LEMMA ClaimMeans ==
    ASSUME TypeOK, Fresh, NEW s \in Slot, Addressed(reqs[s]), ClaimStatement(s)
    PROVE  \/ Refuse(s) /\ UNCHANGED leases
           \/ \E r \in Run, at \in Nat, until \in Nat, n \in Request : Claims1(s, r, at, until, n)
<1> DEFINE q == reqs[s]
           rev == IF q.run # NoRun THEN AnyRevision ELSE WorkerRevision[q.worker]
           el(at) == Eligible(runs, WorkerProvider[q.worker], rev, at)
           pick(at) == IF q.run # NoRun THEN el(at) \cap {q.run} ELSE Oldest(el(at))
<1>1. q \in Request /\ q.op = "claim" /\ q.pc = "statement" /\ q.worker \in Worker
    BY Running DEF ClaimStatement, At, Op, Addressed
<1>2. PICK at \in Now(q), len \in LeaseSeconds :
          \/ pick(at) = {} /\ Refuse(s) /\ UNCHANGED leases
          \/ \E r \in pick(at) :
                LET row == Claimed(runs[r], q.worker, minted + 1, at + len) IN
                /\ runs' = [runs EXCEPT ![r] = row]
                /\ minted' = minted + 1
                /\ grants' = grants \cup {[run |-> r, worker |-> q.worker,
                                           token |-> row.token, attempt |-> row.attempt]}
                /\ Continue(s, [q EXCEPT !.run = r, !.token = row.token,
                                         !.attempt = row.attempt], "property")
    BY DEF ClaimStatement
<1>3. at \in Nat /\ at + len \in Nat
    BY <1>1, ControlAssumption DEF Now, TypeOK, Request
<1>4. CASE pick(at) = {} /\ Refuse(s) /\ UNCHANGED leases
    BY <1>4
<1>5. ASSUME NEW r \in pick(at),
             LET row == Claimed(runs[r], q.worker, minted + 1, at + len) IN
             /\ runs' = [runs EXCEPT ![r] = row]
             /\ minted' = minted + 1
             /\ grants' = grants \cup {[run |-> r, worker |-> q.worker,
                                        token |-> row.token, attempt |-> row.attempt]}
             /\ Continue(s, [q EXCEPT !.run = r, !.token = row.token,
                                      !.attempt = row.attempt], "property")
      PROVE  \E u \in Run, n \in Request : Claims1(s, u, at, at + len, n)
    <2>1. r \in Run /\ Claimable(runs[r], at)
        BY <1>5 DEF Eligible, Oldest
    <2>2. runs[r].attempt + 1 \in 1..MAX_RUN_ATTEMPTS /\ minted + 1 \in Nat
        BY <2>1, ClaimableRow, ControlAssumption DEF TypeOK
    <2> DEFINE k == runs[r].attempt + 1
               g == [run |-> r, worker |-> q.worker, token |-> minted + 1, attempt |-> k]
               m == [q EXCEPT !.run = r, !.token = minted + 1, !.attempt = k]
    <2>3. /\ Claimed(runs[r], q.worker, minted + 1, at + len).token = minted + 1
          /\ Claimed(runs[r], q.worker, minted + 1, at + len).attempt = k
        BY DEF Claimed
    <2>4. /\ runs' = [runs EXCEPT ![r] = Claimed(runs[r], q.worker, minted + 1, at + len)]
          /\ minted' = minted + 1
          /\ grants' = grants \cup {g}
          /\ Continue(s, m, "property")
        BY <1>5, <2>3
    <2>5. k \in 0..MAX_RUN_ATTEMPTS /\ k \in 1..MAX_RUN_ATTEMPTS
        BY <2>2, StoreAssumption
    <2> HIDE DEF k
    <2>6. /\ m \in Request /\ m.run = r /\ m.token = minted + 1 /\ m.attempt = k
          /\ m.op = "claim" /\ m.worker = q.worker
        BY <1>1, <2>1, <2>2, <2>5 DEF Request
    <2>7. g \in Lease!Grant /\ g.run = r /\ g.worker = q.worker /\ g.token = minted + 1
          /\ g.attempt = k
        BY <1>1, <2>1, <2>2, <2>5 DEF Lease!Grant
    <2> HIDE DEF m, g
    <2>8. PICK n \in Request : /\ Same(n, m) /\ n.pc = "property"
                               /\ reqs' = [reqs EXCEPT ![s] = n]
        BY <2>4, <2>6, ContinueMeans DEF Pc
    <2>9. Names(n, g) /\ g.attempt = n.attempt /\ n.attempt = runs[r].attempt + 1
        BY <2>6, <2>7, <2>8 DEF Names, Same, k
    <2>10. n.op = "claim" /\ n.run = r /\ n.worker = reqs[s].worker /\ n.token = minted + 1
        BY <2>6, <2>8 DEF Same
    <2>11. Claims1(s, r, at, at + len, n)
        BY <2>1, <2>4, <2>7, <2>8, <2>9, <2>10 DEF Claims1
    <2> QED BY <2>1, <2>11
<1> QED BY <1>2, <1>3, <1>4, <1>5

(* The other handlers keep their request and go on to the next await. *)
Advance(s, pc) ==
    \E n \in Request : /\ Same(n, reqs[s]) /\ n.pc = pc
                       /\ reqs' = [reqs EXCEPT ![s] = n]

LEMMA AdvanceMeans ==
    ASSUME TypeOK, NEW s \in Slot, reqs[s].op \in Op, NEW pc \in Pc, Continue(s, reqs[s], pc)
    PROVE  Advance(s, pc)
<1>1. reqs[s] \in Request
    BY Running
<1>2. PICK n \in Request : /\ Same(n, reqs[s]) /\ n.pc = pc /\ n.since = clock
                          /\ reqs' = [reqs EXCEPT ![s] = n]
    BY <1>1, ContinueMeans
<1> QED BY <1>2 DEF Advance

(* Past the claim, a request names a run. *)
LEMMA RunIsNamed ==
    ASSUME Shape, NEW q, Addressed(q), Granted(q), q.op \in Op,
           ~(q.op = "claim" /\ q.pc = "statement")
    PROVE  q.run \in Run
BY DEF Shape, Addressed, Granted, Names, Lease!Grant, Op

(* Where an operation that a lease holder may send is about to write to its row. *)
LEMMA LeasedRow ==
    ASSUME Shape, NEW q, Granted(q), q.op \in {"renew", "finish"}
    PROVE  q.run \in Run /\ runs[q.run] \in Row
BY DEF Shape, TypeOK, Granted, Names, Lease!Grant, Op

----------------------------------------------------------------------------
(* The table. *)

(* What every statement does to a row, whoever sends it. *)
Rewrites(r, row) ==
    /\ runs' = [runs EXCEPT ![r] = row]
    /\ runs[r].state \notin Terminal
    /\ runs[r].attempt <= row.attempt
    /\ row.state \in {"absent", "queued"} => row.attempt = 0

LEMMA ClaimRewrites ==
    ASSUME Shape, Fresh, NEW s \in Slot, Addressed(reqs[s]), ClaimStatement(s)
    PROVE  UNCHANGED runs \/ \E r \in Run, row \in Row : Rewrites(r, row)
<1>1. CASE UNCHANGED leases
    BY <1>1 DEF leases
<1>2. ASSUME NEW r \in Run, NEW at \in Nat, NEW until \in Nat, NEW n \in Request,
             Claims1(s, r, at, until, n)
      PROVE  \E row \in Row : Rewrites(r, row)
    <2> DEFINE row == Claimed(runs[r], reqs[s].worker, minted + 1, until)
    <2>1. runs[r].attempt + 1 \in 1..MAX_RUN_ATTEMPTS /\ runs[r].state \in {"queued", "running"}
        BY <1>2, ClaimableRow DEF Shape, Claims1
    <2>2. minted + 1 \in Nat /\ reqs[s].worker \in Worker \cup {NoWorker}
        BY <1>2, ControlAssumption DEF Shape, TypeOK, Claims1, Request
    <2>3. runs' = [runs EXCEPT ![r] = row]
        BY <1>2 DEF Claims1
    <2>4. row \in Row /\ row.state = "running" /\ row.attempt = runs[r].attempt + 1
        BY <2>1, <2>2, StoreAssumption DEF Claimed, Row, RunState
    <2>5. runs[r].attempt <= runs[r].attempt + 1
        BY StoreAssumption DEF Shape, TypeOK, Row
    <2> HIDE DEF row
    <2> QED BY <2>1, <2>3, <2>4, <2>5 DEF Rewrites, Terminal, Outcome
<1> QED BY <1>1, <1>2, ClaimMeans DEF Shape

LEMMA RenewRewrites ==
    ASSUME Shape, NEW s \in Slot, Granted(reqs[s]), RenewStatement(s)
    PROVE  UNCHANGED runs \/ \E r \in Run, row \in Row : Rewrites(r, row)
<1> DEFINE q == reqs[s]
<1>1. q.op = "renew" /\ q \in Request /\ q.run \in Run /\ runs[q.run] \in Row
    BY Running, LeasedRow DEF RenewStatement, At, Shape, Op
<1>2. ASSUME NEW at \in Now(q), NEW len \in LeaseSeconds,
             LeaseValid(runs[q.run], q.worker, q.token, at),
             runs' = [runs EXCEPT ![q.run] = Renewed(@, at + len)]
      PROVE  \E row \in Row : Rewrites(q.run, row)
    <2> DEFINE row == Renewed(runs[q.run], at + len)
    <2>1. at + len \in Nat
        BY <1>1, ControlAssumption DEF Now, Shape, TypeOK, Request
    <2>2. row \in Row /\ row.state = runs[q.run].state /\ row.attempt = runs[q.run].attempt
        BY <1>1, <2>1 DEF Renewed, Row
    <2>3. runs' = [runs EXCEPT ![q.run] = row] /\ runs[q.run].state = "running"
        BY <1>1, <1>2 DEF LeaseValid, Shape, TypeOK
    <2>4. runs[q.run].attempt \in Nat
        BY <1>1, StoreAssumption DEF Row
    <2> HIDE DEF row
    <2>5. Rewrites(q.run, row)
        BY <2>2, <2>3, <2>4 DEF Rewrites, Terminal, Outcome
    <2> QED BY <2>2, <2>5
<1> QED BY <1>1, <1>2 DEF RenewStatement

LEMMA FinishRewrites ==
    ASSUME Shape, NEW s \in Slot, Granted(reqs[s]), Addressed(reqs[s]), FinishStatement(s)
    PROVE  UNCHANGED runs \/ \E r \in Run, row \in Row : Rewrites(r, row)
<1> DEFINE q == reqs[s]
<1>1. q.op = "finish" /\ q \in Request /\ q.run \in Run /\ runs[q.run] \in Row
    BY Running, LeasedRow DEF FinishStatement, At, Shape, Op
<1>2. q.what \in Outcome
    BY <1>1 DEF Addressed
<1>3. ASSUME NEW at \in Now(q), LeaseValid(runs[q.run], q.worker, q.token, at),
             runs' = [runs EXCEPT ![q.run] = Finished(@, q.what)]
      PROVE  \E row \in Row : Rewrites(q.run, row)
    <2> DEFINE row == Finished(runs[q.run], q.what)
    <2>1. row \in Row /\ row.state = q.what /\ row.attempt = runs[q.run].attempt
        BY <1>1, <1>2 DEF Finished, Row, RunState, NoToken, NoExpiry
    <2>2. runs' = [runs EXCEPT ![q.run] = row] /\ runs[q.run].state = "running"
        BY <1>1, <1>3 DEF LeaseValid, Shape, TypeOK
    <2>3. runs[q.run].attempt \in Nat
        BY <1>1, StoreAssumption DEF Row
    <2> HIDE DEF row
    <2>4. Rewrites(q.run, row)
        BY <1>2, <2>1, <2>2, <2>3 DEF Rewrites, Terminal, Outcome
    <2> QED BY <2>1, <2>4
<1> QED BY <1>1, <1>3 DEF FinishStatement

LEMMA CancelRewrites ==
    ASSUME Shape, NEW s \in Slot, Addressed(reqs[s]), CancelStatement(s)
    PROVE  UNCHANGED runs \/ \E r \in Run, row \in Row : Rewrites(r, row)
<1> DEFINE r == reqs[s].run
           row == Cancelled(runs[r])
<1>1. r \in Run /\ runs[r] \in Row
    BY DEF CancelStatement, At, Addressed, Shape, TypeOK
<1>2. CASE Cancellable(runs[r])
    <2>1. row \in Row /\ row.state = "cancelled" /\ row.attempt = runs[r].attempt
        BY <1>1 DEF Cancelled, Row, RunState, NoToken, NoExpiry
    <2>2. runs' = [runs EXCEPT ![r] = row] /\ runs[r].state \in {"queued", "running"}
        BY <1>1, <1>2 DEF CancelStatement, Cancellable, Shape, TypeOK
    <2>3. runs[r].attempt \in Nat
        BY <1>1, StoreAssumption DEF Row
    <2> HIDE DEF row, r
    <2>4. Rewrites(r, row)
        BY <2>1, <2>2, <2>3 DEF Rewrites, Terminal, Outcome
    <2> QED BY <1>1, <2>1, <2>4
<1>3. CASE ~Cancellable(runs[r])
    BY <1>3 DEF CancelStatement
<1> QED BY <1>2, <1>3

LEMMA CreateRewrites ==
    ASSUME Shape, Fresh, NEW r \in Run, CreateRun(r)
    PROVE  \E row \in Row : Rewrites(r, row)
<1>1. QueuedRow \in Row /\ QueuedRow.attempt = 0
    BY StoreAssumption DEF QueuedRow, AbsentRow, Row, RunState, NoToken, NoExpiry
<1>2. runs' = [runs EXCEPT ![r] = QueuedRow] /\ runs[r].state = "absent" /\ runs[r].attempt = 0
    BY DEF CreateRun, Fresh
<1>3. Rewrites(r, QueuedRow)
    BY <1>1, <1>2 DEF Rewrites, Terminal, Outcome
<1> QED BY <1>1, <1>3

(* What no row has yet lost is never lost: each row keeps a final state and
   counts attempts upwards. *)
LEMMA TableSteps ==
    ASSUME Shape, Fresh, Kept, [Next]_vars
    PROVE  UNCHANGED runs \/ \E r \in Run, row \in Row : Rewrites(r, row)
<1>1. ASSUME NEW s \in Slot PROVE Addressed(reqs[s]) /\ Granted(reqs[s])
    BY DEF Kept, Holds
<1>2. ASSUME NEW r \in Run, CreateRun(r) PROVE \E row \in Row : Rewrites(r, row)
    BY <1>2, CreateRewrites
<1>3. ASSUME NEW s \in Slot,
             \/ ClaimStatement(s) \/ RenewStatement(s)
             \/ FinishStatement(s) \/ CancelStatement(s)
      PROVE  UNCHANGED runs \/ \E r \in Run, row \in Row : Rewrites(r, row)
    BY <1>1, <1>3, ClaimRewrites, RenewRewrites, FinishRewrites, CancelRewrites
<1>4. ASSUME NEW s \in Slot,
             \/ Arrive(s) \/ Drop(s) \/ Reply(s) \/ ReadProperty(s) \/ CheckLease(s)
             \/ ReadRun(s) \/ FindArtifact(s) \/ HeadObject(s) \/ PutObject(s)
             \/ InsertArtifact(s) \/ AppendEvent(s) \/ AppendAudit(s) \/ AppendStage(s)
      PROVE  UNCHANGED runs
    BY <1>4 DEF Arrive, Drop, Reply, ReadProperty, CheckLease, ReadRun, FindArtifact, HeadObject,
       PutObject, InsertArtifact, AppendEvent, AppendAudit, AppendStage, leases
<1>5. CASE Tick \/ UNCHANGED vars
    BY <1>5 DEF Tick, vars, leases
<1> QED BY <1>2, <1>3, <1>4, <1>5 DEF Next

LEMMA RowsStayTyped ==
    ASSUME Shape, Fresh, Kept, [Next]_vars
    PROVE  runs' \in [Run -> Row] /\ Fresh'
<1>1. CASE UNCHANGED runs
    BY <1>1 DEF Shape, TypeOK, Fresh
<1>2. ASSUME NEW r \in Run, NEW row \in Row, Rewrites(r, row)
      PROVE  runs' \in [Run -> Row] /\ Fresh'
    BY <1>2 DEF Shape, TypeOK, Fresh, Rewrites
<1> QED BY <1>1, <1>2, TableSteps

LEMMA RowsOnlyAdvance ==
    ASSUME Shape, Fresh, Kept, [Next]_vars, NEW r \in Run
    PROVE  /\ runs[r].state \in Terminal => runs'[r].state = runs[r].state
           /\ runs[r].attempt <= runs'[r].attempt
<1>1. runs[r].attempt \in Nat /\ runs \in [Run -> Row]
    BY StoreAssumption DEF Shape, TypeOK, Row
<1>2. CASE UNCHANGED runs
    BY <1>1, <1>2
<1>3. ASSUME NEW o \in Run, NEW row \in Row, Rewrites(o, row)
      PROVE  /\ runs[r].state \in Terminal => runs'[r].state = runs[r].state
             /\ runs[r].attempt <= runs'[r].attempt
    BY <1>1, <1>3 DEF Rewrites
<1> QED BY <1>2, <1>3, TableSteps

----------------------------------------------------------------------------
(* The logs. *)

(* An entry appended to a bag is in it once more than before. *)
LEMMA BagWithOneMore ==
    ASSUME NEW b, IsABag(b), NEW e
    PROVE  /\ IsABag(b (+) SetToBag({e}))
           /\ DOMAIN (b (+) SetToBag({e})) = DOMAIN b \cup {e}
           /\ \A x \in DOMAIN b : x # e => (b (+) SetToBag({e}))[x] = b[x]
           /\ (b (+) SetToBag({e}))[e] = Copies(e, b) + 1
<1> DEFINE c == [x \in DOMAIN b \cup {e} |->
                    (IF x \in DOMAIN b THEN b[x] ELSE 0) + (IF x \in {e} THEN 1 ELSE 0)]
<1>1. b (+) SetToBag({e}) = c
    BY DEF (+), SetToBag
<1>2. \A x \in DOMAIN b : b[x] \in Nat /\ b[x] > 0
    BY DEF IsABag
<1>3. \A x \in DOMAIN c : c[x] \in Nat /\ c[x] > 0
    BY <1>2
<1>4. DOMAIN c = DOMAIN b \cup {e}
    OBVIOUS
<1>5. \A x \in DOMAIN b : x # e => c[x] = b[x]
    BY <1>2
<1>6. c[e] = Copies(e, b) + 1
    BY <1>2 DEF Copies, BagIn, BagToSet
<1>7. c = [x \in DOMAIN c |-> c[x]]
    OBVIOUS
<1> HIDE DEF c
<1>8. IsABag(c)
    BY <1>3, <1>7 DEF IsABag
<1> QED BY <1>1, <1>4, <1>5, <1>6, <1>8

(* Appending touches the log of one run, and loses nothing. *)
LEMMA Appended ==
    ASSUME NEW log, DOMAIN log = Run, \A o \in Run : IsABag(log[o]), NEW r \in Run, NEW e,
           NEW more, more = Append1(log, r, e)
    PROVE  /\ DOMAIN more = Run
           /\ \A o \in Run : IsABag(more[o])
           /\ \A o \in Run : o # r => more[o] = log[o]
           /\ DOMAIN more[r] = DOMAIN log[r] \cup {e}
           /\ \A x \in DOMAIN log[r] : x # e => more[r][x] = log[r][x]
           /\ more[r][e] = Copies(e, log[r]) + 1
<1> DEFINE b == log[r] (+) SetToBag({e})
<1>1. more = [log EXCEPT ![r] = b]
    BY DEF Append1
<1>2. /\ IsABag(b) /\ DOMAIN b = DOMAIN log[r] \cup {e}
      /\ \A x \in DOMAIN log[r] : x # e => b[x] = log[r][x]
      /\ b[e] = Copies(e, log[r]) + 1
    BY BagWithOneMore
<1> HIDE DEF b
<1>3. more[r] = b /\ DOMAIN more = Run /\ \A o \in Run : o # r => more[o] = log[o]
    BY <1>1
<1> QED BY <1>2, <1>3

LEMMA CopiesAppended ==
    ASSUME NEW log, DOMAIN log = Run, \A o \in Run : IsABag(log[o]), NEW r \in Run, NEW e,
           NEW more, more = Append1(log, r, e)
    PROVE  /\ \A o \in Run : Copies(e, log[o]) \in Nat
           /\ Copies(e, more[r]) = Copies(e, log[r]) + 1
           /\ \A o \in Run : \A x : o # r \/ x # e => Copies(x, more[o]) = Copies(x, log[o])
<1>1. /\ \A u \in Run : u # r => more[u] = log[u]
      /\ DOMAIN more[r] = DOMAIN log[r] \cup {e}
      /\ \A y \in DOMAIN log[r] : y # e => more[r][y] = log[r][y]
      /\ more[r][e] = Copies(e, log[r]) + 1
    BY Appended
<1>2. \A o \in Run : Copies(e, log[o]) \in Nat
    BY DEF Copies, BagIn, BagToSet, IsABag
<1>3. Copies(e, more[r]) = more[r][e]
    BY <1>1 DEF Copies, BagIn, BagToSet
<1>4. ASSUME NEW o \in Run, NEW x, o # r \/ x # e PROVE Copies(x, more[o]) = Copies(x, log[o])
    BY <1>1, <1>4 DEF Copies, BagIn, BagToSet
<1> QED BY <1>1, <1>2, <1>3, <1>4

LogsAreBags ==
    /\ DOMAIN events = Run /\ DOMAIN audit = Run /\ DOMAIN theatre = Run
    /\ \A r \in Run : IsABag(events[r]) /\ IsABag(audit[r]) /\ IsABag(theatre[r])

LogsGrow ==
    \A r \in Run : /\ DOMAIN events[r] \subseteq DOMAIN events'[r]
                   /\ DOMAIN audit[r] \subseteq DOMAIN audit'[r]
                   /\ DOMAIN theatre[r] \subseteq DOMAIN theatre'[r]

LEMMA EventStep ==
    ASSUME Shape, Kept, NEW s \in Slot, AppendEvent(s)
    PROVE  LogsAreBags' /\ LogsGrow /\ EventEntry(reqs[s]) \in DOMAIN events'[reqs[s].run]
<1> DEFINE r == reqs[s].run
           e == EventEntry(reqs[s])
<1>1. r \in Run
    <2>1. reqs[s].op \in Op /\ ~(reqs[s].op = "claim" /\ reqs[s].pc = "statement")
        BY DEF AppendEvent, At, Op
    <2> QED BY <2>1, RunIsNamed DEF Kept, Holds
<1>2. events' = Append1(events, r, e) /\ audit' = audit /\ theatre' = theatre
    BY DEF AppendEvent
<1>3. DOMAIN events = Run /\ \A o \in Run : IsABag(events[o])
    BY DEF Shape, TypeOK
<1> HIDE DEF e, r
<1>4. /\ DOMAIN events' = Run /\ \A o \in Run : IsABag(events'[o])
      /\ \A o \in Run : o # r => events'[o] = events[o]
      /\ DOMAIN events'[r] = DOMAIN events[r] \cup {e}
    BY <1>1, <1>2, <1>3, Appended
<1>5. LogsAreBags'
    BY <1>2, <1>4 DEF Shape, TypeOK, LogsAreBags
<1>6. LogsGrow
    BY <1>2, <1>4 DEF LogsGrow
<1>7. e \in DOMAIN events'[r]
    BY <1>4
<1> QED BY <1>5, <1>6, <1>7 DEF e, r

(* An audit entry is counted once if it is new; the others stay as they were. *)
LEMMA AuditStep ==
    ASSUME Shape, Kept, NEW s \in Slot, AppendAudit(s)
    PROVE  /\ LogsAreBags' /\ LogsGrow
           /\ reqs[s].run \in Run
           /\ \A o \in Run : o # reqs[s].run => audit'[o] = audit[o]
           /\ DOMAIN audit'[reqs[s].run] = DOMAIN audit[reqs[s].run] \cup {AuditEntry(reqs[s])}
           /\ \A x \in DOMAIN audit[reqs[s].run] : x # AuditEntry(reqs[s]) =>
                  audit'[reqs[s].run][x] = audit[reqs[s].run][x]
           /\ AuditEntry(reqs[s]) \notin DOMAIN audit[reqs[s].run] =>
                  audit'[reqs[s].run][AuditEntry(reqs[s])] = 1
<1> DEFINE r == reqs[s].run
           e == AuditEntry(reqs[s])
<1>1. r \in Run
    <2>1. reqs[s].op \in Op /\ ~(reqs[s].op = "claim" /\ reqs[s].pc = "statement")
        BY DEF AppendAudit, At, Op
    <2> QED BY <2>1, RunIsNamed DEF Kept, Holds
<1>2. audit' = Append1(audit, r, e) /\ events' = events /\ theatre' = theatre
    BY DEF AppendAudit
<1>3. DOMAIN audit = Run /\ \A o \in Run : IsABag(audit[o])
    BY DEF Shape, TypeOK
<1> HIDE DEF e, r
<1>4. /\ DOMAIN audit' = Run /\ \A o \in Run : IsABag(audit'[o])
      /\ \A o \in Run : o # r => audit'[o] = audit[o]
      /\ DOMAIN audit'[r] = DOMAIN audit[r] \cup {e}
      /\ \A x \in DOMAIN audit[r] : x # e => audit'[r][x] = audit[r][x]
      /\ e \notin DOMAIN audit[r] => audit'[r][e] = 1
    BY <1>1, <1>2, <1>3, Appended DEF Copies, BagIn, BagToSet
<1>5. LogsAreBags'
    BY <1>2, <1>4 DEF Shape, TypeOK, LogsAreBags
<1>6. LogsGrow
    BY <1>2, <1>4 DEF LogsGrow
<1> QED BY <1>1, <1>4, <1>5, <1>6 DEF e, r

LEMMA StageStep ==
    ASSUME Shape, Kept, NEW s \in Slot, AppendStage(s)
    PROVE  LogsAreBags' /\ LogsGrow /\ Verdict(reqs[s]) \in DOMAIN theatre'[reqs[s].run]
<1> DEFINE r == reqs[s].run
           e == Verdict(reqs[s])
<1>1. r \in Run
    <2>1. reqs[s].op \in Op /\ ~(reqs[s].op = "claim" /\ reqs[s].pc = "statement")
        BY DEF AppendStage, At, Op
    <2> QED BY <2>1, RunIsNamed DEF Kept, Holds
<1>2. theatre' = Append1(theatre, r, e) /\ audit' = audit /\ events' = events
    BY DEF AppendStage
<1>3. DOMAIN theatre = Run /\ \A o \in Run : IsABag(theatre[o])
    BY DEF Shape, TypeOK
<1> HIDE DEF e, r
<1>4. /\ DOMAIN theatre' = Run /\ \A o \in Run : IsABag(theatre'[o])
      /\ \A o \in Run : o # r => theatre'[o] = theatre[o]
      /\ DOMAIN theatre'[r] = DOMAIN theatre[r] \cup {e}
    BY <1>1, <1>2, <1>3, Appended
<1>5. LogsAreBags'
    BY <1>2, <1>4 DEF Shape, TypeOK, LogsAreBags
<1>6. LogsGrow
    BY <1>2, <1>4 DEF LogsGrow
<1>7. e \in DOMAIN theatre'[r]
    BY <1>4
<1> QED BY <1>5, <1>6, <1>7 DEF e, r

LEMMA LogSteps ==
    ASSUME Shape, Kept, [Next]_vars
    PROVE  LogsAreBags' /\ LogsGrow
<1>1. LogsAreBags
    BY DEF Shape, TypeOK, LogsAreBags
<1>2. ASSUME NEW s \in Slot, AppendEvent(s) \/ AppendAudit(s) \/ AppendStage(s)
      PROVE  LogsAreBags' /\ LogsGrow
    BY <1>2, EventStep, AuditStep, StageStep
<1>3. ASSUME UNCHANGED logs
      PROVE  LogsAreBags' /\ LogsGrow
    BY <1>1, <1>3 DEF logs, LogsAreBags, LogsGrow
<1>4. ASSUME NEW s \in Slot,
             \/ Arrive(s) \/ Drop(s) \/ Reply(s) \/ ClaimStatement(s) \/ ReadProperty(s)
             \/ CheckLease(s) \/ RenewStatement(s) \/ FinishStatement(s) \/ ReadRun(s)
             \/ CancelStatement(s) \/ FindArtifact(s) \/ HeadObject(s) \/ PutObject(s)
             \/ InsertArtifact(s)
      PROVE  UNCHANGED logs
    BY <1>4 DEF Arrive, Drop, Reply, ClaimStatement, ReadProperty, CheckLease, RenewStatement,
       FinishStatement, ReadRun, CancelStatement, FindArtifact, HeadObject, PutObject,
       InsertArtifact
<1>5. ASSUME Tick \/ (\E r \in Run : CreateRun(r)) \/ UNCHANGED vars
      PROVE  UNCHANGED logs
    BY <1>5 DEF Tick, CreateRun, vars
<1> QED BY <1>2, <1>3, <1>4, <1>5 DEF Next

----------------------------------------------------------------------------
(* What each handler does to its request: it gives up, or goes on. *)

(* A request that has just come in. *)
Arrived(n) ==
    /\ n \in Request
    /\ n.pc \in {"statement", "read", "lease"}
    /\ n.pc = "statement" <=> n.op = "claim"
    /\ Addressed(n) /\ Granted(n)

LEMMA ArriveMeans ==
    ASSUME Shape, Kept, NEW s \in Slot, Arrive(s)
    PROVE  \E n : Arrived(n) /\ reqs' = [reqs EXCEPT ![s] = n]
<1>1. Blank \in [op : {"claim"}, pc : {"reply"}, run : {NoRun}, worker : {NoWorker},
                 token : {NoToken}, what : {"none"}, doc : {NoDocument}, attempt : {0},
                 since : {0}]
    BY DEF Blank
<1> USE DEF Op
<1>2. 0 \in 0..MAX_RUN_ATTEMPTS /\ clock \in 0..MaxClock /\ NoToken \in Nat
    BY StoreAssumption DEF Shape, TypeOK, NoToken
<1>3. ASSUME NEW q \in Claims PROVE Arrived([q EXCEPT !.since = clock])
    <2>1. PICK w \in Worker, r \in Run \cup {NoRun} :
              /\ q = Claim(w, r)
              /\ \/ r = NoRun /\ WorkerProvider[w] = "nebuchadnezzar_worker"
                 \/ r \in Run /\ WorkerProvider[w] = "github_actions"
        BY DEF Claims, By, Inserted
    <2> DEFINE n == [q EXCEPT !.since = clock]
    <2>2. n \in [op : {"claim"}, pc : {"statement"}, run : {r}, worker : {w},
                 token : {NoToken}, what : {"none"}, doc : {NoDocument}, attempt : {0},
                 since : {clock}]
        BY <1>1, <2>1 DEF Claim
    <2> HIDE DEF n
    <2>3. n \in Request
        BY <1>2, <2>2 DEF Request
    <2>4. Arrived(n)
        BY <2>1, <2>2, <2>3 DEF Arrived, Addressed, Granted
    <2> QED BY <2>4 DEF n
<1>4. ASSUME NEW q \in Cancels PROVE Arrived([q EXCEPT !.since = clock])
    <2>1. PICK r \in Run : q = Cancel(r)
        BY DEF Cancels, Inserted
    <2> QED BY <1>1, <1>2, <2>1 DEF Arrived, Request, Addressed, Granted, Cancel
<1>5. ASSUME NEW q \in Leased PROVE Arrived([q EXCEPT !.since = clock])
    <2>1. PICK a \in acks, o \in Op, out \in Outcome \cup EventType \cup {"none"},
               d \in Document \cup {NoDocument} :
              /\ a.op = "claim" /\ q = Call(a, o, out, d)
              /\ o \in {"renew", "event", "theatre", "finish", "artifact"}
              /\ o = "finish" => out \in Outcome
              /\ o = "artifact" => d \in Document
              /\ o = "event" => out \in EventType
        BY ControlAssumption DEF Leased
    <2>2. a \in Request /\ Granted(a) /\ a.pc = "reply"
        BY DEF Kept, Holds, Shape, TypeOK
    <2>3. PICK g \in grants : Names(a, g)
        BY <2>1, <2>2 DEF Granted
    <2>4. a.run \in Run \cup {NoRun} /\ a.worker \in Worker \cup {NoWorker} /\ a.token \in Nat
        BY <2>2 DEF Request
    <2> DEFINE n == [q EXCEPT !.since = clock]
    <2>5. n \in [op : {o}, pc : {"lease"}, run : {a.run}, worker : {a.worker},
                 token : {a.token}, what : {out}, doc : {d}, attempt : {0}, since : {clock}]
        BY <1>1, <2>1 DEF Call
    <2> HIDE DEF n
    <2>6. n \in Request
        BY <1>2, <2>4, <2>5 DEF Request
    <2>7. Names(n, g)
        BY <2>3, <2>5 DEF Names
    <2>8. Arrived(n)
        BY <2>1, <2>5, <2>6, <2>7 DEF Arrived, Addressed, Granted
    <2> QED BY <2>8 DEF n
<1> QED BY <1>3, <1>4, <1>5 DEF Arrive

LEMMA Moves ==
    ASSUME TypeOK, NEW s \in Slot
    PROVE  /\ ReadProperty(s) => Refuse(s) \/ Advance(s, "event")
           /\ CheckLease(s) =>
                  \/ Refuse(s)
                  \/ reqs[s].op \in {"renew", "finish"} /\ Advance(s, "statement")
                  \/ reqs[s].op = "event" /\ Advance(s, "event")
                  \/ reqs[s].op = "theatre" /\ Advance(s, "stage")
                  \/ reqs[s].op = "artifact" /\ Advance(s, "find")
           /\ RenewStatement(s) => Refuse(s) \/ Advance(s, "event")
           /\ FinishStatement(s) => Refuse(s) \/ Advance(s, "audit")
           /\ ReadRun(s) => IF runs[reqs[s].run].state = "cancelled"
                            THEN Advance(s, "reply") ELSE Advance(s, "statement")
           /\ CancelStatement(s) => Refuse(s) \/ Advance(s, "audit")
           /\ FindArtifact(s) => IF [run |-> reqs[s].run, doc |-> reqs[s].doc] \in artifacts
                                 THEN Advance(s, "reply") ELSE Advance(s, "head")
           /\ HeadObject(s) => IF DigestOf[reqs[s].doc] \in bucket
                               THEN Advance(s, "insert") ELSE Advance(s, "put")
           /\ PutObject(s) => Advance(s, "insert")
           /\ InsertArtifact(s) => Refuse(s) \/ Advance(s, "audit")
           /\ AppendEvent(s) => \/ reqs[s].op \in {"claim", "event"} /\ Advance(s, "audit")
                                \/ reqs[s].op # "claim" /\ Advance(s, "reply")
           /\ AppendAudit(s) => IF reqs[s].op \in {"event", "artifact"}
                                THEN Advance(s, "reply") ELSE Advance(s, "stage")
           /\ AppendStage(s) => Advance(s, "reply")
<1> DEFINE go(pc) == reqs[s].op \in Op /\ Continue(s, reqs[s], pc)
<1>1. \A pc \in Pc : go(pc) => Advance(s, pc)
    BY AdvanceMeans
<1>2. ReadProperty(s) => Refuse(s) \/ go("event")
    BY DEF ReadProperty, At, Op
<1>3. CheckLease(s) => \/ Refuse(s)
                       \/ reqs[s].op \in {"renew", "finish"} /\ go("statement")
                       \/ reqs[s].op = "event" /\ go("event")
                       \/ reqs[s].op = "theatre" /\ go("stage")
                       \/ reqs[s].op = "artifact" /\ go("find")
    BY DEF CheckLease, At, Op
<1>4. RenewStatement(s) => Refuse(s) \/ go("event")
    BY DEF RenewStatement, At, Op
<1>5. FinishStatement(s) => Refuse(s) \/ go("audit")
    BY DEF FinishStatement, At, Op
<1>6. ReadRun(s) => IF runs[reqs[s].run].state = "cancelled" THEN go("reply") ELSE go("statement")
    BY DEF ReadRun, At, Op
<1>7. CancelStatement(s) => Refuse(s) \/ go("audit")
    BY DEF CancelStatement, At, Op
<1>8. FindArtifact(s) => IF [run |-> reqs[s].run, doc |-> reqs[s].doc] \in artifacts
                         THEN go("reply") ELSE go("head")
    BY DEF FindArtifact, At, Op
<1>9. HeadObject(s) => IF DigestOf[reqs[s].doc] \in bucket THEN go("insert") ELSE go("put")
    BY DEF HeadObject, At, Op
<1>10. PutObject(s) => go("insert")
    BY DEF PutObject, At, Op
<1>11. InsertArtifact(s) => Refuse(s) \/ go("audit")
    BY DEF InsertArtifact, At, Op
<1>12. AppendEvent(s) => \/ reqs[s].op \in {"claim", "event"} /\ go("audit")
                         \/ reqs[s].op # "claim" /\ go("reply")
    BY DEF AppendEvent, At, Op
<1>13. AppendAudit(s) => IF reqs[s].op \in {"event", "artifact"} THEN go("reply") ELSE go("stage")
    BY DEF AppendAudit, At, Op
<1>14. AppendStage(s) => go("reply")
    BY DEF AppendStage, At, Op
<1> HIDE DEF go
<1> QED BY <1>1, <1>2, <1>3, <1>4, <1>5, <1>6, <1>7, <1>8, <1>9, <1>10, <1>11, <1>12, <1>13, <1>14
        DEF Pc

----------------------------------------------------------------------------
(* What handlers promise stays so. *)

(* Grants and evidence only accumulate. *)
LEMMA NothingIsTakenBack ==
    ASSUME Shape, Fresh, Kept, [Next]_vars
    PROVE  /\ grants \subseteq grants' /\ artifacts \subseteq artifacts' /\ bucket \subseteq bucket'
           /\ grants' \subseteq Lease!Grant
<1>1. grants \subseteq Lease!Grant
    BY DEF Shape
<1>2. ASSUME NEW s \in Slot, ClaimStatement(s)
      PROVE  /\ grants \subseteq grants' /\ UNCHANGED evidence
             /\ grants' \subseteq Lease!Grant
    <2>1. UNCHANGED evidence
        BY <1>2 DEF ClaimStatement
    <2>2. CASE UNCHANGED leases
        BY <1>1, <2>1, <2>2 DEF leases
    <2>3. ASSUME NEW r \in Run, NEW at \in Nat, NEW until \in Nat, NEW n \in Request,
                 Claims1(s, r, at, until, n)
          PROVE  grants \subseteq grants' /\ grants' \subseteq Lease!Grant
        BY <1>1, <2>3 DEF Claims1
    <2> QED BY <1>2, <2>1, <2>2, <2>3, ClaimMeans DEF Shape, Kept, Holds
<1>3. ASSUME NEW s \in Slot,
             \/ Arrive(s) \/ Drop(s) \/ Reply(s) \/ ReadProperty(s) \/ CheckLease(s)
             \/ RenewStatement(s) \/ FinishStatement(s) \/ ReadRun(s) \/ CancelStatement(s)
             \/ FindArtifact(s) \/ HeadObject(s)
             \/ AppendEvent(s) \/ AppendAudit(s) \/ AppendStage(s)
      PROVE  UNCHANGED <<grants, evidence>>
    BY <1>3 DEF Arrive, Drop, Reply, ReadProperty, CheckLease, RenewStatement, FinishStatement,
       ReadRun, CancelStatement, FindArtifact, HeadObject, AppendEvent, AppendAudit, AppendStage,
       leases, evidence
<1>4. ASSUME NEW s \in Slot, PutObject(s) \/ InsertArtifact(s)
      PROVE  grants' = grants /\ artifacts \subseteq artifacts' /\ bucket \subseteq bucket'
    BY <1>4 DEF PutObject, InsertArtifact, leases
<1>5. ASSUME Tick \/ (\E r \in Run : CreateRun(r)) \/ UNCHANGED vars
      PROVE  UNCHANGED <<grants, evidence>>
    BY <1>5 DEF Tick, CreateRun, vars, leases, evidence
<1> QED BY <1>1, <1>2, <1>3, <1>4, <1>5 DEF Next, evidence

(* So a promise made before a step holds after it. *)
LEMMA PromisesStand ==
    ASSUME Shape, Fresh, Kept, [Next]_vars, NEW q, Holds(q)
    PROVE  Holds(q)'
<1>1. /\ grants \subseteq grants' /\ artifacts \subseteq artifacts' /\ bucket \subseteq bucket'
      /\ LogsGrow
    BY NothingIsTakenBack, LogSteps
<1>2. Addressed(q)' /\ Granted(q)' /\ UploadKept(q)'
    BY <1>1 DEF Holds, Addressed, Granted, UploadKept
<1>3. ClaimKept(q)'
    <2>1. ASSUME q.op = "claim", q.pc \in {"audit", "stage", "reply"}
          PROVE  q.run \in Run
        BY <2>1, RunIsNamed DEF Holds, Op
    <2> QED BY <1>1, <2>1 DEF Holds, ClaimKept, LogsGrow, BagIn, BagToSet
<1>4. EndKept(q)'
    <2>1. ASSUME q.op \in {"finish", "cancel"}
          PROVE  q.run \in Run
        BY <2>1, RunIsNamed DEF Holds, Op
    <2>2. q.op = "finish" => q.what \in Terminal
        BY DEF Holds, Addressed, Terminal
    <2>3. \A r \in Run : runs[r].state \in Terminal => runs'[r].state = runs[r].state
        BY RowsOnlyAdvance
    <2>4. "cancelled" \in Terminal
        BY DEF Terminal
    <2> QED BY <1>1, <2>1, <2>2, <2>3, <2>4 DEF Holds, EndKept, LogsGrow, BagIn, BagToSet
<1> QED BY <1>2, <1>3, <1>4 DEF Holds

(* A handler that goes on promises what it did, and what it promised before. *)
LEMMA PromisesMove ==
    ASSUME NEW q, NEW n, Same(n, q), Holds(q)',
           q.op = "claim" => q.pc # "statement" /\ n.pc # "statement",
           ClaimKept(n)', EndKept(n)', UploadKept(n)'
    PROVE  Holds(n)'
BY DEF Holds, Same, Addressed, Granted, Names

(* Nothing is promised by an empty slot, or by a request that has just come in. *)
LEMMA IdlePromisesNothing == Holds(Idle)'
<1>1. Idle.op = "none"
    BY DEF Idle, Blank
<1> QED BY <1>1 DEF Holds, Addressed, Granted, ClaimKept, EndKept, UploadKept, Op

LEMMA ArrivedHolds ==
    ASSUME NEW n, Arrived(n), UNCHANGED grants
    PROVE  Holds(n)'
BY DEF Arrived, Holds, Addressed, Granted, ClaimKept, EndKept, UploadKept

(* How the invariant on slots follows from what one slot does. *)
SlotsHold == \A s \in Slot : Holds(reqs[s])

LEMMA OneSlotMoves ==
    ASSUME Shape, Fresh, Kept, [Next]_vars, NEW s \in Slot, NEW n, Holds(n)',
           reqs' = [reqs EXCEPT ![s] = n]
    PROVE  SlotsHold'
<1>1. \A q : Holds(q) => Holds(q)'
    BY PromisesStand
<1>2. ASSUME NEW t \in Slot PROVE Holds(reqs[t])'
    <2>1. PICK q : q = reqs'[t]
        OBVIOUS
    <2>2. Holds(q)'
        <3>1. CASE t = s
            BY <2>1, <3>1 DEF Shape, TypeOK
        <3>2. CASE t # s
            BY <1>1, <2>1, <3>2 DEF Shape, TypeOK, Kept
        <3> QED BY <3>1, <3>2
    <2> QED BY <2>1, <2>2
<1> QED BY <1>2 DEF SlotsHold

Onward == Shape /\ Fresh /\ Kept /\ ArtifactBacked /\ [Next]_vars

LEMMA RefusalHolds ==
    ASSUME Onward, NEW s \in Slot, Refuse(s) PROVE SlotsHold'
<1>1. PICK n : n = Idle
    OBVIOUS
<1>2. Holds(n)'
    BY <1>1, IdlePromisesNothing
<1>3. reqs' = [reqs EXCEPT ![s] = n]
    BY <1>1 DEF Refuse
<1> QED BY <1>2, <1>3, OneSlotMoves DEF Onward

LEMMA AdvanceHolds ==
    ASSUME Onward, NEW s \in Slot, NEW pc, Advance(s, pc),
           reqs[s].op = "claim" => reqs[s].pc # "statement" /\ pc # "statement",
           \A q, n : /\ q = reqs[s] /\ Holds(q) /\ Holds(q)' /\ Same(n, q) /\ n.pc = pc
                     => ClaimKept(n)' /\ EndKept(n)' /\ UploadKept(n)'
    PROVE  SlotsHold'
<1>1. PICK n \in Request : Same(n, reqs[s]) /\ n.pc = pc /\ reqs' = [reqs EXCEPT ![s] = n]
    BY DEF Advance
<1>2. PICK q : q = reqs[s]
    OBVIOUS
<1>3. Holds(q) /\ Holds(q)'
    <2>1. Holds(q)
        BY <1>2 DEF Onward, Kept
    <2> QED BY <2>1, PromisesStand DEF Onward
<1>4. ClaimKept(n)' /\ EndKept(n)' /\ UploadKept(n)'
    BY <1>1, <1>2, <1>3
<1>5. Holds(n)'
    BY <1>1, <1>2, <1>3, <1>4, PromisesMove
<1> QED BY <1>1, <1>5, OneSlotMoves DEF Onward

(* A request is about one kind of promise only. *)
LEMMA OneKind ==
    ASSUME NEW n
    PROVE  /\ n.op \notin {"claim"} => ClaimKept(n)'
           /\ n.op \notin {"finish", "cancel"} => EndKept(n)'
           /\ n.op # "artifact" => UploadKept(n)'
BY DEF ClaimKept, EndKept, UploadKept

LEMMA ReadsHold ==
    ASSUME Onward, NEW s \in Slot, ReadProperty(s) \/ CheckLease(s) \/ RenewStatement(s)
    PROVE  SlotsHold'
<1> DEFINE ok(pc) == Advance(s, pc) => SlotsHold'
<1>1. TypeOK
    BY DEF Onward, Shape
<1>2. ASSUME reqs[s].op = "claim", reqs[s].pc = "property" PROVE ok("event")
    <2>1. ASSUME NEW q, NEW n, q = reqs[s], Same(n, q), n.pc = "event"
          PROVE  ClaimKept(n)' /\ EndKept(n)' /\ UploadKept(n)'
        BY <1>2, <2>1 DEF Same, ClaimKept, EndKept, UploadKept
    <2> QED BY <1>2, <2>1, AdvanceHolds
<1>3. ASSUME reqs[s].op \in {"renew", "finish"} PROVE ok("statement")
    <2>1. ASSUME NEW q, NEW n, q = reqs[s], Same(n, q), n.pc = "statement"
          PROVE  ClaimKept(n)' /\ EndKept(n)' /\ UploadKept(n)'
        BY <1>3, <2>1 DEF Same, ClaimKept, EndKept, UploadKept
    <2> QED BY <1>3, <2>1, AdvanceHolds
<1>4. ASSUME reqs[s].op \in {"event", "theatre", "renew"}, NEW pc PROVE ok(pc)
    <2>1. ASSUME NEW q, NEW n, q = reqs[s], Same(n, q)
          PROVE  ClaimKept(n)' /\ EndKept(n)' /\ UploadKept(n)'
        BY <1>4, <2>1 DEF Same, ClaimKept, EndKept, UploadKept
    <2> QED BY <1>4, <2>1, AdvanceHolds
<1>5. ASSUME reqs[s].op = "artifact" PROVE ok("find")
    <2>1. ASSUME NEW q, NEW n, q = reqs[s], Same(n, q), n.pc = "find"
          PROVE  ClaimKept(n)' /\ EndKept(n)' /\ UploadKept(n)'
        BY <1>5, <2>1 DEF Same, ClaimKept, EndKept, UploadKept
    <2> QED BY <1>5, <2>1, AdvanceHolds
<1>6. CASE ReadProperty(s)
    <2>1. reqs[s].op = "claim" /\ reqs[s].pc = "property"
        BY <1>6 DEF ReadProperty, At
    <2> QED BY <1>1, <1>2, <1>6, <2>1, Moves, RefusalHolds
<1>7. CASE CheckLease(s)
    BY <1>1, <1>3, <1>4, <1>5, <1>7, Moves, RefusalHolds
<1>8. CASE RenewStatement(s)
    <2>1. reqs[s].op = "renew"
        BY <1>8 DEF RenewStatement, At
    <2> QED BY <1>1, <1>4, <1>8, <2>1, Moves, RefusalHolds
<1> QED BY <1>6, <1>7, <1>8

LEMMA FinishHolds ==
    ASSUME Onward, NEW s \in Slot, FinishStatement(s) PROVE SlotsHold'
<1>1. TypeOK /\ reqs[s].op = "finish"
    BY DEF Onward, Shape, FinishStatement, At
<1>2. CASE Refuse(s)
    BY <1>2, RefusalHolds
<1>3. CASE Advance(s, "audit") /\ ~Refuse(s)
    <2>1. runs' = [runs EXCEPT ![reqs[s].run] = Finished(@, reqs[s].what)]
        BY <1>3 DEF FinishStatement
    <2>2. reqs[s].run \in Run /\ runs[reqs[s].run] \in Row
        BY <1>1, LeasedRow DEF Onward, Kept, Holds
    <2>3. runs'[reqs[s].run].state = reqs[s].what
        BY <2>1, <2>2 DEF Finished, Row, Onward, Shape, TypeOK
    <2>4. ASSUME NEW q, NEW n, q = reqs[s], Same(n, q), n.pc = "audit"
          PROVE  ClaimKept(n)' /\ EndKept(n)' /\ UploadKept(n)'
        BY <1>1, <2>3, <2>4 DEF Same, ClaimKept, EndKept, UploadKept
    <2> QED BY <1>1, <1>3, <2>4, AdvanceHolds
<1> QED BY <1>1, <1>2, <1>3, Moves

LEMMA CancelHolds ==
    ASSUME Onward, NEW s \in Slot, ReadRun(s) \/ CancelStatement(s) PROVE SlotsHold'
<1>1. TypeOK /\ reqs[s].op = "cancel"
    BY DEF Onward, Shape, ReadRun, CancelStatement, At
<1>2. reqs[s].run \in Run /\ runs[reqs[s].run] \in Row
    BY <1>1 DEF Onward, Kept, Holds, Addressed, Shape, TypeOK
<1>3. CASE Refuse(s)
    BY <1>3, RefusalHolds
<1>4. ASSUME NEW pc, Advance(s, pc), pc = "statement" \/ runs'[reqs[s].run].state = "cancelled",
             pc \in {"statement", "audit", "reply"}
      PROVE  SlotsHold'
    <2>1. ASSUME NEW q, NEW n, q = reqs[s], Same(n, q), n.pc = pc
          PROVE  ClaimKept(n)' /\ EndKept(n)' /\ UploadKept(n)'
        BY <1>1, <1>4, <2>1 DEF Same, ClaimKept, EndKept, UploadKept
    <2> QED BY <1>1, <1>4, <2>1, AdvanceHolds
<1>5. CASE ReadRun(s)
    <2>1. runs' = runs
        BY <1>5 DEF ReadRun, leases
    <2> QED BY <1>1, <1>4, <1>5, <2>1, Moves
<1>6. CASE CancelStatement(s) /\ Advance(s, "audit") /\ ~Refuse(s)
    <2>1. runs' = [runs EXCEPT ![reqs[s].run] = Cancelled(@)]
        BY <1>6 DEF CancelStatement
    <2>2. runs'[reqs[s].run].state = "cancelled"
        BY <1>2, <2>1 DEF Cancelled, Row, Onward, Shape, TypeOK
    <2> QED BY <1>4, <1>6, <2>2
<1> QED BY <1>1, <1>3, <1>5, <1>6, Moves

LEMMA UploadHolds ==
    ASSUME Onward, NEW s \in Slot,
           FindArtifact(s) \/ HeadObject(s) \/ PutObject(s) \/ InsertArtifact(s)
    PROVE  SlotsHold'
<1> DEFINE a == [run |-> reqs[s].run, doc |-> reqs[s].doc]
           d == DigestOf[reqs[s].doc]
<1>1. TypeOK /\ reqs[s].op = "artifact"
    BY DEF Onward, Shape, FindArtifact, HeadObject, PutObject, InsertArtifact, At
<1>2. ASSUME NEW pc, Advance(s, pc),
             pc = "insert" => d \in bucket',
             pc \in {"audit", "reply"} => a \in artifacts' /\ d \in bucket'
      PROVE  SlotsHold'
    <2>1. ASSUME NEW q, NEW n, q = reqs[s], Same(n, q), n.pc = pc
          PROVE  ClaimKept(n)' /\ EndKept(n)' /\ UploadKept(n)'
        BY <1>1, <1>2, <2>1 DEF Same, ClaimKept, EndKept, UploadKept
    <2> QED BY <1>1, <1>2, <2>1, AdvanceHolds
<1>3. CASE FindArtifact(s)
    <2>1. UNCHANGED evidence
        BY <1>3 DEF FindArtifact
    <2>2. a \in artifacts => d \in bucket
        BY DEF Onward, ArtifactBacked
    <2> QED BY <1>1, <1>2, <1>3, <2>1, <2>2, Moves DEF evidence
<1>4. CASE HeadObject(s)
    <2>1. UNCHANGED evidence
        BY <1>4 DEF HeadObject
    <2> QED BY <1>1, <1>2, <1>4, <2>1, Moves DEF evidence
<1>5. CASE PutObject(s)
    <2>1. d \in bucket'
        BY <1>5 DEF PutObject
    <2> QED BY <1>1, <1>2, <1>5, <2>1, Moves
<1>6. CASE InsertArtifact(s)
    <2>1. a \in artifacts' /\ bucket' = bucket /\ reqs[s].pc = "insert"
        BY <1>6 DEF InsertArtifact, At
    <2>2. d \in bucket
        BY <1>1, <2>1 DEF Onward, Kept, Holds, UploadKept
    <2> QED BY <1>1, <1>2, <1>6, <2>1, <2>2, Moves, RefusalHolds
<1> QED BY <1>3, <1>4, <1>5, <1>6

LEMMA EventHolds ==
    ASSUME Onward, NEW s \in Slot, AppendEvent(s) PROVE SlotsHold'
<1>1. TypeOK /\ reqs[s].op \in {"claim", "renew", "event"} /\ reqs[s].pc = "event"
    BY DEF Onward, Shape, AppendEvent, At
<1>2. EventEntry(reqs[s]) \in DOMAIN events'[reqs[s].run]
    BY EventStep DEF Onward
<1>3. ASSUME NEW pc, Advance(s, pc),
             \/ pc = "audit" /\ reqs[s].op \in {"claim", "event"}
             \/ pc = "reply" /\ reqs[s].op # "claim"
      PROVE  SlotsHold'
    <2>1. ASSUME NEW q, NEW n, q = reqs[s], Same(n, q), n.pc = pc
          PROVE  ClaimKept(n)' /\ EndKept(n)' /\ UploadKept(n)'
        <3>1. EventEntry(n) = EventEntry(q)
            BY <2>1, SameEntries
        <3>2. n.op = "claim" => BagIn(EventEntry(n), events[n.run])' /\ n.pc = "audit"
            BY <1>2, <1>3, <2>1, <3>1 DEF Same, BagIn, BagToSet
        <3> QED BY <1>1, <2>1, <3>2 DEF Same, ClaimKept, EndKept, UploadKept
    <2> QED BY <1>1, <1>3, <2>1, AdvanceHolds
<1> QED BY <1>1, <1>3, Moves

LEMMA AuditHolds ==
    ASSUME Onward, NEW s \in Slot, AppendAudit(s) PROVE SlotsHold'
<1>1. /\ TypeOK /\ reqs[s].op \in {"claim", "finish", "cancel", "event", "artifact"}
      /\ reqs[s].pc = "audit"
    BY DEF Onward, Shape, AppendAudit, At
<1>2. AuditEntry(reqs[s]) \in DOMAIN audit'[reqs[s].run]
    BY AuditStep DEF Onward
<1>3. ASSUME NEW pc, Advance(s, pc),
             pc = IF reqs[s].op \in {"event", "artifact"} THEN "reply" ELSE "stage"
      PROVE  SlotsHold'
    <2>1. ASSUME NEW q, NEW n, q = reqs[s], Holds(q)', Same(n, q), n.pc = pc
          PROVE  ClaimKept(n)' /\ EndKept(n)' /\ UploadKept(n)'
        <3>1. AuditEntry(n) = AuditEntry(q) /\ EventEntry(n) = EventEntry(q)
            BY <2>1, SameEntries
        <3>2. BagIn(AuditEntry(n), audit[n.run])'
            BY <1>2, <2>1, <3>1 DEF Same, BagIn, BagToSet
        <3>3. q.pc = "audit" /\ n.op = q.op /\ n.run = q.run /\ n.doc = q.doc
              /\ n.what = q.what
            BY <1>1, <2>1 DEF Same
        <3>4. ClaimKept(n)'
            BY <1>3, <2>1, <3>1, <3>2, <3>3 DEF Holds, ClaimKept
        <3>5. EndKept(n)'
            BY <1>3, <2>1, <3>1, <3>2, <3>3 DEF Holds, EndKept
        <3>6. UploadKept(n)'
            BY <1>3, <2>1, <3>3 DEF Holds, UploadKept
        <3> QED BY <3>4, <3>5, <3>6
    <2> QED BY <1>1, <1>3, <2>1, AdvanceHolds
<1> QED BY <1>1, <1>3, Moves

LEMMA StageHolds ==
    ASSUME Onward, NEW s \in Slot, AppendStage(s) PROVE SlotsHold'
<1>1. /\ TypeOK /\ reqs[s].op \in {"claim", "finish", "cancel", "theatre"}
      /\ reqs[s].pc = "stage"
    BY DEF Onward, Shape, AppendStage, At
<1>2. Verdict(reqs[s]) \in DOMAIN theatre'[reqs[s].run]
    BY StageStep DEF Onward
<1>3. ASSUME Advance(s, "reply") PROVE SlotsHold'
    <2>1. ASSUME NEW q, NEW n, q = reqs[s], Holds(q)', Same(n, q), n.pc = "reply"
          PROVE  ClaimKept(n)' /\ EndKept(n)' /\ UploadKept(n)'
        <3>1. AuditEntry(n) = AuditEntry(q) /\ EventEntry(n) = EventEntry(q)
            BY <2>1, SameEntries
        <3>2. q.pc = "stage" /\ n.op = q.op /\ n.run = q.run /\ n.what = q.what
            BY <1>1, <2>1 DEF Same
        <3>3. n.op = "claim" => BagIn("start", theatre[n.run])'
            BY <1>2, <2>1, <3>2 DEF Verdict, BagIn, BagToSet
        <3>4. ClaimKept(n)'
            BY <2>1, <3>1, <3>2, <3>3 DEF Holds, ClaimKept
        <3>5. EndKept(n)'
            BY <2>1, <3>1, <3>2 DEF Holds, EndKept
        <3>6. UploadKept(n)'
            BY <1>1, <2>1, <3>2 DEF UploadKept
        <3> QED BY <3>4, <3>5, <3>6
    <2> QED BY <1>1, <1>3, <2>1, AdvanceHolds
<1> QED BY <1>1, <1>3, Moves

LEMMA ClaimHolds ==
    ASSUME Onward, NEW s \in Slot, ClaimStatement(s) PROVE SlotsHold'
<1>1. CASE Refuse(s)
    BY <1>1, RefusalHolds
<1>2. ASSUME NEW r \in Run, NEW at \in Nat, NEW until \in Nat, NEW n \in Request,
             Claims1(s, r, at, until, n)
      PROVE  SlotsHold'
    <2>1. Granted(n)'
        BY <1>2 DEF Claims1, Granted
    <2>2. Addressed(n)' /\ ClaimKept(n)' /\ EndKept(n)' /\ UploadKept(n)'
        BY <1>2 DEF Claims1, Addressed, ClaimKept, EndKept, UploadKept
    <2>3. Holds(n)'
        BY <2>1, <2>2 DEF Holds
    <2>4. reqs' = [reqs EXCEPT ![s] = n]
        BY <1>2 DEF Claims1
    <2> QED BY <2>3, <2>4, OneSlotMoves DEF Onward
<1> QED BY <1>1, <1>2, ClaimMeans DEF Onward, Shape, Kept, Holds

LEMMA ArrivalHolds ==
    ASSUME Onward, NEW s \in Slot, Arrive(s) PROVE SlotsHold'
<1>1. PICK n : Arrived(n) /\ reqs' = [reqs EXCEPT ![s] = n]
    BY ArriveMeans DEF Onward
<1>2. UNCHANGED grants
    BY DEF Arrive, leases
<1> QED BY <1>1, <1>2, ArrivedHolds, OneSlotMoves DEF Onward

LEMMA QuietHolds ==
    ASSUME Onward, UNCHANGED reqs PROVE SlotsHold'
<1>1. \A q : Holds(q) => Holds(q)'
    BY PromisesStand DEF Onward
<1>2. ASSUME NEW t \in Slot PROVE Holds(reqs[t])'
    <2>1. PICK q : q = reqs[t]
        OBVIOUS
    <2>2. Holds(q)'
        BY <1>1, <2>1 DEF Onward, Kept
    <2> QED BY <2>1, <2>2
<1> QED BY <1>2 DEF SlotsHold

LEMMA SlotsKeepPromises ==
    ASSUME Onward PROVE SlotsHold'
<1>1. ASSUME NEW s \in Slot, Drop(s) \/ Reply(s) PROVE SlotsHold'
    <2>1. Refuse(s)
        BY <1>1 DEF Drop, Reply, Refuse
    <2> QED BY <2>1, RefusalHolds
<1>2. ASSUME Tick \/ (\E r \in Run : CreateRun(r)) \/ UNCHANGED vars PROVE SlotsHold'
    <2>1. UNCHANGED reqs
        BY <1>2 DEF Tick, CreateRun, vars
    <2> QED BY <2>1, QuietHolds
<1>3. ASSUME NEW s \in Slot,
             \/ ReadProperty(s) \/ CheckLease(s) \/ RenewStatement(s) \/ FinishStatement(s)
             \/ ReadRun(s) \/ CancelStatement(s) \/ FindArtifact(s) \/ HeadObject(s)
             \/ PutObject(s) \/ InsertArtifact(s) \/ AppendEvent(s) \/ AppendAudit(s)
             \/ AppendStage(s) \/ ClaimStatement(s) \/ Arrive(s)
      PROVE  SlotsHold'
    BY <1>3, ReadsHold, FinishHolds, CancelHolds, UploadHolds, EventHolds, AuditHolds,
       StageHolds, ClaimHolds, ArrivalHolds
<1> QED BY <1>1, <1>2, <1>3 DEF Onward, Next

(* A response repeats what its handler promised. *)
LEMMA PromisesKeep ==
    ASSUME Onward PROVE Kept'
<1>1. SlotsHold'
    BY SlotsKeepPromises
<1>2. \A q : Holds(q) => Holds(q)'
    BY PromisesStand DEF Onward
<1>3. ASSUME acks' = acks PROVE Kept'
    BY <1>1, <1>2, <1>3 DEF SlotsHold, Kept, Onward
<1>4. ASSUME NEW s \in Slot, Reply(s) PROVE Kept'
    <2>1. PICK q : q = reqs[s]
        OBVIOUS
    <2> DEFINE a == [q EXCEPT !.since = 0]
    <2>2. q \in Request /\ q.pc = "reply"
        BY <1>4, <2>1, Running DEF Reply, At, Onward, Shape
    <2>3. a \in Request /\ Same(a, q) /\ a.pc = "reply" /\ acks' = acks \cup {a}
        <3>1. 0 \in 0..MaxClock
            BY ControlAssumption
        <3> QED BY <1>4, <2>1, <2>2, <3>1 DEF Reply, Same, Request
    <2> HIDE DEF a
    <2>4. Holds(q)'
        BY <1>2, <2>1 DEF Onward, Kept
    <2>5. AuditEntry(a) = AuditEntry(q) /\ EventEntry(a) = EventEntry(q)
        BY <2>3, SameEntries
    <2>6. PICK b : b = a
        OBVIOUS
    <2>7. /\ Same(b, q) /\ b.pc = "reply" /\ acks' = acks \cup {b}
          /\ AuditEntry(b) = AuditEntry(q) /\ EventEntry(b) = EventEntry(q)
        BY <2>3, <2>5, <2>6
    <2>8. ClaimKept(b)' /\ EndKept(b)' /\ UploadKept(b)'
        BY <2>2, <2>4, <2>7 DEF Holds, Same, ClaimKept, EndKept, UploadKept
    <2>9. Holds(b)'
        BY <2>2, <2>4, <2>7, <2>8, PromisesMove
    <2> QED BY <1>1, <1>2, <2>7, <2>9 DEF SlotsHold, Kept, Onward
<1>5. ASSUME NEW s \in Slot,
             \/ ReadProperty(s) \/ CheckLease(s) \/ RenewStatement(s) \/ FinishStatement(s)
             \/ ReadRun(s) \/ CancelStatement(s) \/ FindArtifact(s) \/ HeadObject(s)
             \/ PutObject(s) \/ InsertArtifact(s) \/ AppendEvent(s) \/ AppendAudit(s)
             \/ AppendStage(s) \/ ClaimStatement(s) \/ Arrive(s) \/ Drop(s)
      PROVE  acks' = acks
    BY <1>5 DEF ReadProperty, CheckLease, RenewStatement, FinishStatement, ReadRun,
       CancelStatement, FindArtifact, HeadObject, PutObject, InsertArtifact, AppendEvent,
       AppendAudit, AppendStage, ClaimStatement, Arrive, Drop, world
<1>6. ASSUME Tick \/ (\E r \in Run : CreateRun(r)) \/ UNCHANGED vars PROVE acks' = acks
    BY <1>6 DEF Tick, CreateRun, vars, world
<1> QED BY <1>3, <1>4, <1>5, <1>6 DEF Onward, Next

----------------------------------------------------------------------------
(* What the slots owe the audit log. *)

NoNewDebt ==
    \A t \in Slot :
        /\ OwesEnd(t)' => OwesEnd(t) /\ reqs'[t].run = reqs[t].run
        /\ OwesClaim(t)' => /\ OwesClaim(t) /\ reqs'[t].run = reqs[t].run
                            /\ reqs'[t].attempt = reqs[t].attempt

(* Going on creates no debt, except where the row was just written. *)
LEMMA AdvanceOwes ==
    ASSUME TypeOK, NEW s \in Slot, NEW pc, Advance(s, pc),
           pc = "audit" => reqs[s].op \notin {"finish", "cancel"},
           reqs[s].op = "claim" => OwesClaim(s)
    PROVE  NoNewDebt
BY DEF Advance, TypeOK, NoNewDebt, OwesEnd, OwesClaim, Same

LEMMA RefusalOwes ==
    ASSUME TypeOK, NEW s \in Slot, Refuse(s) PROVE NoNewDebt
<1>1. Idle.op = "none"
    BY DEF Idle, Blank
<1>2. \A t \in Slot : reqs'[t] = IF t = s THEN Idle ELSE reqs[t]
    BY DEF Refuse, TypeOK
<1> QED BY <1>1, <1>2 DEF NoNewDebt, OwesEnd, OwesClaim

LEMMA ArrivalOwes ==
    ASSUME Shape, Kept, NEW s \in Slot, Arrive(s) PROVE NoNewDebt
<1>1. PICK n : Arrived(n) /\ reqs' = [reqs EXCEPT ![s] = n]
    BY ArriveMeans
<1>2. n.pc \notin {"audit", "property", "event"}
    BY <1>1 DEF Arrived
<1>3. \A t \in Slot : reqs'[t] = IF t = s THEN n ELSE reqs[t]
    BY <1>1 DEF Shape, TypeOK
<1> QED BY <1>2, <1>3 DEF NoNewDebt, OwesEnd, OwesClaim

LEMMA QuietOwes ==
    ASSUME Onward,
           ~ \E s \in Slot : \/ ClaimStatement(s) \/ FinishStatement(s) \/ CancelStatement(s)
                             \/ AppendAudit(s)
    PROVE  NoNewDebt /\ UNCHANGED audit
<1>1. TypeOK /\ Shape /\ Kept
    BY DEF Onward, Shape
<1>2. ASSUME NEW s \in Slot, Arrive(s) PROVE NoNewDebt /\ UNCHANGED audit
    BY <1>1, <1>2, ArrivalOwes DEF Arrive, logs
<1>3. ASSUME NEW s \in Slot, Drop(s) \/ Reply(s) PROVE NoNewDebt /\ UNCHANGED audit
    <2>1. Refuse(s) /\ UNCHANGED audit
        BY <1>3 DEF Drop, Reply, Refuse, logs
    <2> QED BY <1>1, <2>1, RefusalOwes
<1>4. ASSUME NEW s \in Slot, ReadProperty(s) PROVE NoNewDebt /\ UNCHANGED audit
    <2>1. reqs[s].op = "claim" /\ OwesClaim(s) /\ UNCHANGED audit
        BY <1>4 DEF ReadProperty, At, OwesClaim, logs
    <2> QED BY <1>1, <1>4, <2>1, Moves, RefusalOwes, AdvanceOwes
<1>5. ASSUME NEW s \in Slot, CheckLease(s) PROVE NoNewDebt /\ UNCHANGED audit
    <2>1. UNCHANGED audit
        BY <1>5 DEF CheckLease, logs
    <2> QED BY <1>1, <1>5, <2>1, Moves, RefusalOwes, AdvanceOwes
<1>6. ASSUME NEW s \in Slot, RenewStatement(s) PROVE NoNewDebt /\ UNCHANGED audit
    <2>1. UNCHANGED audit /\ reqs[s].op = "renew"
        BY <1>6 DEF RenewStatement, At, logs
    <2> QED BY <1>1, <1>6, <2>1, Moves, RefusalOwes, AdvanceOwes
<1>7. ASSUME NEW s \in Slot, ReadRun(s) PROVE NoNewDebt /\ UNCHANGED audit
    <2>1. UNCHANGED audit /\ reqs[s].op = "cancel"
        BY <1>7 DEF ReadRun, At, logs
    <2> QED BY <1>1, <1>7, <2>1, Moves, AdvanceOwes
<1>8. ASSUME NEW s \in Slot,
             FindArtifact(s) \/ HeadObject(s) \/ PutObject(s) \/ InsertArtifact(s)
      PROVE  NoNewDebt /\ UNCHANGED audit
    <2>1. UNCHANGED audit /\ reqs[s].op = "artifact"
        BY <1>8 DEF FindArtifact, HeadObject, PutObject, InsertArtifact, At, logs
    <2>2. \A pc : Advance(s, pc) => NoNewDebt
        BY <1>1, <2>1, AdvanceOwes
    <2> QED BY <1>1, <1>8, <2>1, <2>2, Moves, RefusalOwes
<1>9. ASSUME NEW s \in Slot, AppendEvent(s) PROVE NoNewDebt /\ UNCHANGED audit
    <2>1. /\ UNCHANGED audit /\ reqs[s].op \in {"claim", "renew", "event"}
          /\ reqs[s].op = "claim" => OwesClaim(s)
        BY <1>9 DEF AppendEvent, At, OwesClaim
    <2> QED BY <1>1, <1>9, <2>1, Moves, AdvanceOwes
<1>10. ASSUME NEW s \in Slot, AppendStage(s) PROVE NoNewDebt /\ UNCHANGED audit
    <2>1. UNCHANGED audit
        BY <1>10 DEF AppendStage
    <2>4. Advance(s, "reply")
        BY <1>1, <1>10, Moves
    <2>2. PICK n : Same(n, reqs[s]) /\ n.pc = "reply" /\ reqs' = [reqs EXCEPT ![s] = n]
        BY <2>4 DEF Advance
    <2>3. \A t \in Slot : reqs'[t] = IF t = s THEN n ELSE reqs[t]
        BY <1>1, <2>2 DEF TypeOK
    <2> QED BY <2>1, <2>2, <2>3 DEF NoNewDebt, OwesEnd, OwesClaim
<1>11. ASSUME Tick \/ (\E r \in Run : CreateRun(r)) \/ UNCHANGED vars
       PROVE  NoNewDebt /\ UNCHANGED audit
    BY <1>11 DEF Tick, CreateRun, vars, logs, NoNewDebt, OwesEnd, OwesClaim
<1> QED BY <1>2, <1>3, <1>4, <1>5, <1>6, <1>7, <1>8, <1>9, <1>10, <1>11 DEF Onward, Next

(* The slots that owe something name a run. *)
LEMMA DebtorsNameRuns ==
    ASSUME Shape, Kept, NEW s \in Slot, OwesEnd(s) \/ OwesClaim(s)
    PROVE  reqs[s].run \in Run
<1>1. reqs[s].op \in Op /\ ~(reqs[s].op = "claim" /\ reqs[s].pc = "statement")
    BY DEF OwesEnd, OwesClaim, Op
<1> QED BY <1>1, RunIsNamed DEF Kept, Holds

(* A log that gains no entry still agrees with its row. *)
LEMMA UntouchedLogsAgree ==
    ASSUME Onward, LogsAgree, UNCHANGED audit PROVE LogsAgree'
<1>1. SUFFICES ASSUME NEW r \in Run, NEW e \in DOMAIN audit[r]
               PROVE  /\ e.what \in Ending => e.what = runs'[r].state
                      /\ e.what = "claimed" => e.attempt \in 1..runs'[r].attempt
                      /\ e.what \in Ending \cup {"claimed"} => audit[r][e] = 1
    BY DEF LogsAgree
<1>2. /\ runs[r].state \in Terminal => runs'[r].state = runs[r].state
      /\ runs[r].attempt <= runs'[r].attempt
    BY RowsOnlyAdvance DEF Onward
<1>3. runs[r].attempt \in Nat /\ runs'[r].attempt \in Nat
    BY RowsStayTyped, StoreAssumption DEF Onward, Shape, TypeOK, Row
<1>4. /\ e.what \in Ending => e.what = runs[r].state
      /\ e.what = "claimed" => e.attempt \in 1..runs[r].attempt
      /\ e.what \in Ending \cup {"claimed"} => audit[r][e] = 1
    BY DEF LogsAgree
<1> QED BY <1>2, <1>3, <1>4 DEF Ending

LEMMA QuietKeepsOwed ==
    ASSUME Onward, OwedOnce, NoNewDebt, UNCHANGED audit PROVE OwedOnce'
<1>1. \A r \in Run : /\ runs[r].attempt \in Nat /\ runs'[r].attempt \in Nat
                     /\ runs[r].attempt <= runs'[r].attempt
    BY RowsOnlyAdvance, RowsStayTyped, StoreAssumption DEF Onward, Shape, TypeOK, Row
<1>2. \A s, t \in Slot : OwesEnd(s)' /\ OwesEnd(t)' /\ reqs'[s].run = reqs'[t].run => s = t
    BY DEF OwedOnce, NoNewDebt
<1>3. \A s, t \in Slot : /\ OwesClaim(s)' /\ OwesClaim(t)' /\ reqs'[s].run = reqs'[t].run
                         /\ reqs'[s].attempt = reqs'[t].attempt
                         => s = t
    BY DEF OwedOnce, NoNewDebt
<1>4. \A s \in Slot : OwesEnd(s)' => \A e \in DOMAIN audit'[reqs'[s].run] : e.what \notin Ending
    BY DEF OwedOnce, NoNewDebt
<1>5. ASSUME NEW s \in Slot, OwesClaim(s)'
      PROVE  /\ reqs'[s].attempt \in 1..runs'[reqs'[s].run].attempt
             /\ \A e \in DOMAIN audit'[reqs'[s].run] :
                   e.what = "claimed" => e.attempt # reqs'[s].attempt
    <2>1. /\ OwesClaim(s) /\ reqs'[s].run = reqs[s].run /\ reqs'[s].attempt = reqs[s].attempt
        BY <1>5 DEF NoNewDebt
    <2>2. reqs[s].run \in Run
        BY <2>1, DebtorsNameRuns DEF Onward
    <2>3. /\ reqs[s].attempt \in 1..runs[reqs[s].run].attempt
          /\ \A e \in DOMAIN audit[reqs[s].run] : e.what = "claimed" => e.attempt # reqs[s].attempt
        BY <2>1 DEF OwedOnce
    <2> QED BY <1>1, <2>1, <2>2, <2>3
<1> QED BY <1>2, <1>3, <1>4, <1>5 DEF OwedOnce

(* An outcome or a cancellation is owed by the one handler that wrote the row:
   whoever wrote it before would have made it final. *)
LEMMA EndingKeeps ==
    ASSUME Onward, OwedOnce, LogsAgree, NEW s \in Slot, FinishStatement(s) \/ CancelStatement(s)
    PROVE  OwedOnce' /\ LogsAgree'
<1>1. TypeOK /\ UNCHANGED audit /\ reqs[s].op \in {"finish", "cancel"} /\ reqs[s].pc = "statement"
    BY DEF Onward, Shape, FinishStatement, CancelStatement, At, logs
<1>2. LogsAgree'
    BY <1>1, UntouchedLogsAgree
<1>3. CASE Refuse(s)
    BY <1>1, <1>2, <1>3, RefusalOwes, QuietKeepsOwed
<1>4. CASE ~Refuse(s)
    <2> DEFINE r == reqs[s].run
    <2>1. r \in Run
        <3>1. reqs[s].op \in Op
            BY <1>1 DEF Op
        <3> QED BY <1>1, <3>1, RunIsNamed DEF Onward, Kept, Holds
    <2>2. runs[r].state \notin Terminal
        BY <1>4 DEF FinishStatement, CancelStatement, LeaseValid, Cancellable, Terminal, Outcome
    <2>3. \A e \in DOMAIN audit[r] : e.what \notin Ending
        BY <2>1, <2>2 DEF LogsAgree, Ending
    <2>4. \A t \in Slot : OwesEnd(t) => reqs[t].run # r
        <3>1. \A t \in Slot : Addressed(reqs[t]) /\ EndKept(reqs[t])
            BY DEF Onward, Kept, Holds
        <3> QED BY <2>2, <3>1 DEF OwesEnd, Addressed, EndKept, Terminal
    <2>5. Advance(s, "audit")
        BY <1>1, <1>4, Moves
    <2>6. PICK n : Same(n, reqs[s]) /\ n.pc = "audit" /\ reqs' = [reqs EXCEPT ![s] = n]
        BY <2>5 DEF Advance
    <2>7. \A t \in Slot : reqs'[t] = IF t = s THEN n ELSE reqs[t]
        BY <1>1, <2>6 DEF TypeOK
    <2>8. /\ n.run = r /\ n.op \in {"finish", "cancel"} /\ n.pc = "audit"
          /\ \A t \in Slot : OwesClaim(t)' => t # s /\ OwesClaim(t)
          /\ \A t \in Slot : OwesEnd(t)' => t = s \/ (t # s /\ OwesEnd(t))
        BY <1>1, <2>6, <2>7 DEF Same, OwesClaim, OwesEnd
    <2>9. \A x \in Run : /\ runs[x].attempt \in Nat /\ runs'[x].attempt \in Nat
                         /\ runs[x].attempt <= runs'[x].attempt
        BY RowsOnlyAdvance, RowsStayTyped, StoreAssumption DEF Onward, Shape, TypeOK, Row
    <2>10. \A t, u \in Slot : OwesEnd(t)' /\ OwesEnd(u)' /\ reqs'[t].run = reqs'[u].run => t = u
        BY <2>4, <2>7, <2>8 DEF OwedOnce
    <2>11. \A t, u \in Slot : /\ OwesClaim(t)' /\ OwesClaim(u)' /\ reqs'[t].run = reqs'[u].run
                              /\ reqs'[t].attempt = reqs'[u].attempt
                              => t = u
        BY <2>7, <2>8 DEF OwedOnce
    <2>12. \A t \in Slot : OwesEnd(t)' =>
               \A e \in DOMAIN audit'[reqs'[t].run] : e.what \notin Ending
        BY <1>1, <2>3, <2>7, <2>8 DEF OwedOnce
    <2>13. ASSUME NEW t \in Slot, OwesClaim(t)'
           PROVE  /\ reqs'[t].attempt \in 1..runs'[reqs'[t].run].attempt
                  /\ \A e \in DOMAIN audit'[reqs'[t].run] :
                        e.what = "claimed" => e.attempt # reqs'[t].attempt
        <3>1. OwesClaim(t) /\ reqs'[t] = reqs[t]
            BY <2>7, <2>8, <2>13
        <3>2. reqs[t].run \in Run
            BY <3>1, DebtorsNameRuns DEF Onward
        <3>3. /\ reqs[t].attempt \in 1..runs[reqs[t].run].attempt
              /\ \A e \in DOMAIN audit[reqs[t].run] :
                    e.what = "claimed" => e.attempt # reqs[t].attempt
            BY <3>1 DEF OwedOnce
        <3> QED BY <1>1, <2>9, <3>1, <3>2, <3>3
    <2>14. OwedOnce'
        BY <2>10, <2>11, <2>12, <2>13 DEF OwedOnce
    <2> QED BY <1>2, <2>14
<1> QED BY <1>3, <1>4

(* A claim is numbered above every claim before it. *)
LEMMA ClaimingKeeps ==
    ASSUME Onward, OwedOnce, LogsAgree, NEW s \in Slot, ClaimStatement(s)
    PROVE  OwedOnce' /\ LogsAgree'
<1>1. TypeOK /\ UNCHANGED audit
    BY DEF Onward, Shape, ClaimStatement, logs
<1>2. LogsAgree'
    BY <1>1, UntouchedLogsAgree
<1>3. CASE Refuse(s)
    BY <1>1, <1>2, <1>3, RefusalOwes, QuietKeepsOwed
<1>4. ASSUME NEW r \in Run, NEW at \in Nat, NEW until \in Nat, NEW n \in Request,
             Claims1(s, r, at, until, n)
      PROVE  OwedOnce'
    <2> DEFINE k == runs[r].attempt + 1
    <2>1. \A t \in Slot : reqs'[t] = IF t = s THEN n ELSE reqs[t]
        BY <1>1, <1>4 DEF TypeOK, Claims1
    <2>2. n.op = "claim" /\ n.pc = "property" /\ n.run = r /\ n.attempt = k
        BY <1>4 DEF Claims1
    <2>3. runs'[r].attempt = k /\ k \in Nat /\ 1 <= k /\ runs[r].attempt < k
        <3>1. Claimed(runs[r], reqs[s].worker, minted + 1, until).attempt = k
            BY DEF Claimed
        <3>2. runs[r].attempt \in Nat
            BY <1>1, StoreAssumption DEF TypeOK, Row
        <3>3. runs' = [runs EXCEPT ![r] = Claimed(runs[r], reqs[s].worker, minted + 1, until)]
            BY <1>4 DEF Claims1
        <3>4. runs'[r] = Claimed(runs[r], reqs[s].worker, minted + 1, until)
            BY <1>1, <3>3 DEF TypeOK
        <3> QED BY <3>1, <3>2, <3>4
    <2>4. \A x \in Run : /\ runs[x].attempt \in Nat /\ runs'[x].attempt \in Nat
                         /\ runs[x].attempt <= runs'[x].attempt
        BY RowsOnlyAdvance, RowsStayTyped, StoreAssumption DEF Onward, Shape, TypeOK, Row
    <2>5. \A e \in DOMAIN audit[r] : e.what = "claimed" => e.attempt \in 1..runs[r].attempt
        BY DEF LogsAgree
    <2>6. \A t \in Slot : OwesClaim(t) => reqs[t].attempt \in 1..runs[reqs[t].run].attempt
        BY DEF OwedOnce
    <2> HIDE DEF k
    <2>7. /\ \A t \in Slot : OwesEnd(t)' => t # s /\ OwesEnd(t)
          /\ \A t \in Slot : OwesClaim(t)' => t = s \/ (t # s /\ OwesClaim(t))
        BY <2>1, <2>2 DEF OwesEnd, OwesClaim
    <2>8. \A t, u \in Slot : OwesEnd(t)' /\ OwesEnd(u)' /\ reqs'[t].run = reqs'[u].run => t = u
        BY <2>1, <2>7 DEF OwedOnce
    <2>9. \A t \in Slot : OwesClaim(t) /\ reqs[t].run = r => reqs[t].attempt # k
        BY <2>3, <2>4, <2>6
    <2>10. \A t, u \in Slot : /\ OwesClaim(t)' /\ OwesClaim(u)' /\ reqs'[t].run = reqs'[u].run
                              /\ reqs'[t].attempt = reqs'[u].attempt
                              => t = u
        BY <2>1, <2>2, <2>7, <2>9 DEF OwedOnce
    <2>11. \A t \in Slot : OwesEnd(t)' =>
               \A e \in DOMAIN audit'[reqs'[t].run] : e.what \notin Ending
        BY <1>1, <2>1, <2>7 DEF OwedOnce
    <2>12. ASSUME NEW t \in Slot, OwesClaim(t)'
           PROVE  /\ reqs'[t].attempt \in 1..runs'[reqs'[t].run].attempt
                  /\ \A e \in DOMAIN audit'[reqs'[t].run] :
                        e.what = "claimed" => e.attempt # reqs'[t].attempt
        <3>1. CASE t = s
            <4>1. reqs'[t].run = r /\ reqs'[t].attempt = k
                BY <2>1, <2>2, <3>1
            <4>2. \A e \in DOMAIN audit[r] : e.what = "claimed" => e.attempt # k
                BY <2>3, <2>4, <2>5
            <4> QED BY <1>1, <2>3, <4>1, <4>2
        <3>2. CASE t # s
            <4>1. OwesClaim(t) /\ reqs'[t] = reqs[t]
                BY <2>1, <2>7, <2>12, <3>2
            <4>2. reqs[t].run \in Run
                BY <4>1, DebtorsNameRuns DEF Onward
            <4>3. /\ reqs[t].attempt \in 1..runs[reqs[t].run].attempt
                  /\ \A e \in DOMAIN audit[reqs[t].run] :
                        e.what = "claimed" => e.attempt # reqs[t].attempt
                BY <4>1 DEF OwedOnce
            <4> QED BY <1>1, <2>4, <4>1, <4>2, <4>3
        <3> QED BY <3>1, <3>2
    <2> QED BY <2>8, <2>10, <2>11, <2>12 DEF OwedOnce
<1> QED BY <1>1, <1>2, <1>3, <1>4, ClaimMeans DEF Onward, Shape, Kept, Holds

(* What each operation has to say to the audit log. *)
LEMMA EntryMeans ==
    ASSUME Shape, Kept, NEW s \in Slot, AppendAudit(s)
    PROVE  LET e == AuditEntry(reqs[s]) IN
           /\ OwesClaim(s) => e.what = "claimed" /\ e.attempt = reqs[s].attempt
           /\ OwesEnd(s) => e.what = runs[reqs[s].run].state /\ e.what \in Terminal
           /\ ~OwesClaim(s) /\ ~OwesEnd(s) => e.what \notin Ending \cup {"claimed"}
<1> DEFINE q == reqs[s]
           e == AuditEntry(q)
<1>1. /\ q.pc = "audit" /\ q.op \in {"claim", "finish", "cancel", "event", "artifact"}
      /\ Addressed(q) /\ EndKept(q)
    BY DEF AppendAudit, At, Kept, Holds
<1>2. e.attempt = q.attempt
    BY DEF AuditEntry
<1>3. e.what = CASE q.op = "claim" -> "claimed" [] q.op \in {"finish", "event"} -> q.what
                 [] q.op = "cancel" -> "cancelled" [] q.op = "artifact" -> "stored"
    BY DEF AuditEntry
<1> HIDE DEF e
<1>4. q.op = "finish" => q.what \in Outcome /\ runs[q.run].state = q.what
    BY <1>1 DEF Addressed, EndKept
<1>5. q.op = "cancel" => runs[q.run].state = "cancelled"
    BY <1>1 DEF EndKept
<1>6. OwesClaim(s) => e.what = "claimed" /\ e.attempt = q.attempt
    BY <1>2, <1>3 DEF OwesClaim
<1>7. OwesEnd(s) => e.what = runs[q.run].state /\ e.what \in Terminal
    BY <1>3, <1>4, <1>5 DEF OwesEnd, Terminal
<1>8. ~OwesClaim(s) /\ ~OwesEnd(s) => e.what \notin Ending \cup {"claimed"}
    BY <1>1, <1>3 DEF OwesEnd, OwesClaim, Addressed, Ending, EventType, Terminal, Outcome
<1> QED BY <1>6, <1>7, <1>8 DEF e

(* Paying a debt: the entry was not there, and nobody else owes it. *)
LEMMA PayingKeeps ==
    ASSUME Onward, OwedOnce, LogsAgree, NEW s \in Slot, AppendAudit(s)
    PROVE  OwedOnce' /\ LogsAgree'
<1> DEFINE r == reqs[s].run
           e == AuditEntry(reqs[s])
<1>1. /\ TypeOK /\ UNCHANGED runs /\ r \in Run
      /\ \A o \in Run : o # r => audit'[o] = audit[o]
      /\ DOMAIN audit'[r] = DOMAIN audit[r] \cup {e}
      /\ \A x \in DOMAIN audit[r] : x # e => audit'[r][x] = audit[r][x]
      /\ e \notin DOMAIN audit[r] => audit'[r][e] = 1
    BY AuditStep DEF Onward, Shape, AppendAudit, leases
<1>2. /\ OwesClaim(s) => e.what = "claimed" /\ e.attempt = reqs[s].attempt
      /\ OwesEnd(s) => e.what = runs[r].state /\ e.what \in Terminal
      /\ ~OwesClaim(s) /\ ~OwesEnd(s) => e.what \notin Ending \cup {"claimed"}
    BY EntryMeans DEF Onward
<1> HIDE DEF e
<1>3. e.what \in Ending => OwesEnd(s) /\ e.what # "claimed"
    BY <1>2 DEF Ending, Terminal, Outcome
<1>4. e.what = "claimed" => OwesClaim(s)
    BY <1>2, <1>3 DEF Terminal, Outcome
<1>5. e.what \in Ending \cup {"claimed"} => e \notin DOMAIN audit[r]
    BY <1>2, <1>3, <1>4 DEF OwedOnce
<1>6. LogsAgree'
    <2>1. SUFFICES ASSUME NEW o \in Run, NEW x \in DOMAIN audit'[o]
                   PROVE  /\ x.what \in Ending => x.what = runs[o].state
                          /\ x.what = "claimed" => x.attempt \in 1..runs[o].attempt
                          /\ x.what \in Ending \cup {"claimed"} => audit'[o][x] = 1
        BY <1>1 DEF LogsAgree
    <2>2. CASE o = r /\ x = e
        BY <1>1, <1>2, <1>3, <1>4, <1>5, <2>2 DEF OwedOnce
    <2>3. CASE o # r \/ x # e
        BY <1>1, <2>1, <2>3 DEF LogsAgree
    <2> QED BY <2>2, <2>3
<1>7. PICK pc \in {"reply", "stage"} : Advance(s, pc)
    BY <1>1, Moves
<1>8. PICK n : Same(n, reqs[s]) /\ n.pc \in {"reply", "stage"} /\ reqs' = [reqs EXCEPT ![s] = n]
    BY <1>7 DEF Advance
<1>9. \A t \in Slot : reqs'[t] = IF t = s THEN n ELSE reqs[t]
    BY <1>1, <1>8 DEF TypeOK
<1>10. \A t \in Slot : /\ OwesEnd(t)' => t # s /\ OwesEnd(t) /\ reqs'[t] = reqs[t]
                       /\ OwesClaim(t)' => t # s /\ OwesClaim(t) /\ reqs'[t] = reqs[t]
    BY <1>8, <1>9 DEF OwesEnd, OwesClaim
<1>11. \A t, u \in Slot : OwesEnd(t)' /\ OwesEnd(u)' /\ reqs'[t].run = reqs'[u].run => t = u
    BY <1>10 DEF OwedOnce
<1>12. \A t, u \in Slot : /\ OwesClaim(t)' /\ OwesClaim(u)' /\ reqs'[t].run = reqs'[u].run
                          /\ reqs'[t].attempt = reqs'[u].attempt
                          => t = u
    BY <1>10 DEF OwedOnce
<1>13. ASSUME NEW t \in Slot, OwesEnd(t)', NEW x \in DOMAIN audit'[reqs'[t].run]
       PROVE  x.what \notin Ending
    <2>1. t # s /\ OwesEnd(t) /\ reqs'[t].run = reqs[t].run
        BY <1>10, <1>13
    <2>2. reqs[t].run \in Run
        BY <2>1, DebtorsNameRuns DEF Onward
    <2>3. \A y \in DOMAIN audit[reqs[t].run] : y.what \notin Ending
        BY <2>1 DEF OwedOnce
    <2>4. reqs[t].run = r => ~OwesEnd(s)
        BY <2>1 DEF OwedOnce
    <2> QED BY <1>1, <1>3, <1>13, <2>1, <2>2, <2>3, <2>4
<1>14. ASSUME NEW t \in Slot, OwesClaim(t)'
       PROVE  /\ reqs'[t].attempt \in 1..runs'[reqs'[t].run].attempt
              /\ \A x \in DOMAIN audit'[reqs'[t].run] :
                    x.what = "claimed" => x.attempt # reqs'[t].attempt
    <2>1. t # s /\ OwesClaim(t) /\ reqs'[t] = reqs[t]
        BY <1>10, <1>14
    <2>2. reqs[t].run \in Run
        BY <2>1, DebtorsNameRuns DEF Onward
    <2>3. /\ reqs[t].attempt \in 1..runs[reqs[t].run].attempt
          /\ \A y \in DOMAIN audit[reqs[t].run] : y.what = "claimed" => y.attempt # reqs[t].attempt
        BY <2>1 DEF OwedOnce
    <2>4. reqs[t].run = r /\ e.what = "claimed" => e.attempt # reqs[t].attempt
        BY <1>2, <1>4, <2>1 DEF OwedOnce
    <2> QED BY <1>1, <2>1, <2>2, <2>3, <2>4
<1>15. OwedOnce'
    BY <1>11, <1>12, <1>13, <1>14 DEF OwedOnce
<1> QED BY <1>6, <1>15

LEMMA AuditStaysRight ==
    ASSUME Onward, OwedOnce, LogsAgree PROVE OwedOnce' /\ LogsAgree'
<1>1. CASE \E s \in Slot : \/ ClaimStatement(s) \/ FinishStatement(s) \/ CancelStatement(s)
                           \/ AppendAudit(s)
    BY <1>1, ClaimingKeeps, EndingKeeps, PayingKeeps
<1>2. CASE ~ \E s \in Slot : \/ ClaimStatement(s) \/ FinishStatement(s) \/ CancelStatement(s)
                             \/ AppendAudit(s)
    BY <1>2, QuietOwes, QuietKeepsOwed, UntouchedLogsAgree
<1> QED BY <1>1, <1>2

----------------------------------------------------------------------------
(* The entries `partial`. *)

(* A step of one slot moves one debt at most. *)
LEMMA DebtMoves ==
    ASSUME TypeOK, NEW s \in Slot, NEW n, reqs' = [reqs EXCEPT ![s] = n], NEW r
    PROVE  /\ Cardinality(Partials(r)) \in Nat
           /\ Cardinality(Partials(r)') = Cardinality(Partials(r))
                   - (IF OwesPartial(s, r) THEN 1 ELSE 0) + (IF OwesPartial(s, r)' THEN 1 ELSE 0)
<1> DEFINE S == Partials(r)
           T == Partials(r)'
<1>1. IsFiniteSet(S) /\ IsFiniteSet(T)
    BY ControlAssumption, FS_Subset DEF Partials
<1>2. /\ S \ {s} = T \ {s}
      /\ s \in S <=> OwesPartial(s, r)
      /\ s \in T <=> OwesPartial(s, r)'
    BY DEF Partials, OwesPartial, TypeOK
<1> HIDE DEF S, T
<1>3. /\ Cardinality(S \ {s}) = IF s \in S THEN Cardinality(S) - 1 ELSE Cardinality(S)
      /\ Cardinality(T \ {s}) = IF s \in T THEN Cardinality(T) - 1 ELSE Cardinality(T)
    BY <1>1, FS_RemoveElement
<1>4. Cardinality(S) \in Nat /\ Cardinality(T) \in Nat
    BY <1>1, FS_CardinalityType
<1>5. Cardinality(T) = Cardinality(S) - (IF s \in S THEN 1 ELSE 0) + (IF s \in T THEN 1 ELSE 0)
    BY <1>2, <1>3, <1>4
<1> QED BY <1>2, <1>4, <1>5 DEF S, T

(* A row that is partial stays so; events only accumulate. *)
LEMMA CausesStay ==
    ASSUME Onward, NEW r \in Run
    PROVE  /\ IsPartial(r) \in 0..1 /\ IsPartial(r)' \in 0..1 /\ IsPartial(r) <= IsPartial(r)'
           /\ Copies(PartialEvent, events[r]) \in Nat /\ Copies(PartialAudit, audit[r]) \in Nat
<1>1. runs[r].state \in Terminal => runs'[r].state = runs[r].state
    BY RowsOnlyAdvance DEF Onward
<1>2. IsABag(events[r]) /\ IsABag(audit[r])
    BY DEF Onward, Shape, TypeOK
<1> QED BY <1>1, <1>2 DEF IsPartial, Terminal, Outcome, Copies, BagIn, BagToSet, IsABag

(* A slot that comes to owe no `partial`. *)
OwesNoPartial(s) ==
    \E n : /\ reqs' = [reqs EXCEPT ![s] = n]
           /\ n.pc # "audit" \/ n.op \notin {"event", "finish"}

LEMMA QuietSlots ==
    ASSUME Onward, ~ \E s \in Slot : FinishStatement(s) \/ AppendEvent(s) \/ AppendAudit(s)
    PROVE  /\ UNCHANGED <<events, audit>>
           /\ UNCHANGED reqs \/ \E s \in Slot : OwesNoPartial(s)
<1>1. TypeOK /\ Shape /\ Kept
    BY DEF Onward, Shape
<1>2. ASSUME NEW s \in Slot, Refuse(s) PROVE OwesNoPartial(s)
    <2>1. Idle.op = "none" /\ reqs' = [reqs EXCEPT ![s] = Idle]
        BY <1>2 DEF Refuse, Idle, Blank
    <2> QED BY <2>1 DEF OwesNoPartial
<1>3. ASSUME NEW s \in Slot, NEW pc, Advance(s, pc),
             pc # "audit" \/ reqs[s].op \notin {"event", "finish"}
      PROVE  OwesNoPartial(s)
    BY <1>3 DEF Advance, Same, OwesNoPartial
<1>4. ASSUME NEW s \in Slot, Arrive(s) PROVE OwesNoPartial(s) /\ UNCHANGED <<events, audit>>
    BY <1>1, <1>4, ArriveMeans DEF Arrived, OwesNoPartial, Arrive, logs
<1>5. ASSUME NEW s \in Slot, Drop(s) \/ Reply(s)
      PROVE  OwesNoPartial(s) /\ UNCHANGED <<events, audit>>
    <2>1. Refuse(s) /\ UNCHANGED <<events, audit>>
        BY <1>5 DEF Drop, Reply, Refuse, logs
    <2> QED BY <1>2, <2>1
<1>6. ASSUME NEW s \in Slot, ClaimStatement(s)
      PROVE  OwesNoPartial(s) /\ UNCHANGED <<events, audit>>
    <2>1. UNCHANGED <<events, audit>>
        BY <1>6 DEF ClaimStatement, logs
    <2>2. ASSUME NEW r \in Run, NEW at \in Nat, NEW until \in Nat, NEW n \in Request,
                 Claims1(s, r, at, until, n)
          PROVE  OwesNoPartial(s)
        BY <2>2 DEF Claims1, OwesNoPartial
    <2> QED BY <1>2, <1>6, <2>1, <2>2, ClaimMeans DEF Onward, Shape, Kept, Holds
<1>7. ASSUME NEW s \in Slot,
             \/ ReadProperty(s) \/ CheckLease(s) \/ RenewStatement(s) \/ ReadRun(s)
             \/ FindArtifact(s) \/ HeadObject(s) \/ PutObject(s) \/ AppendStage(s)
      PROVE  OwesNoPartial(s) /\ UNCHANGED <<events, audit>>
    <2>1. UNCHANGED <<events, audit>>
        BY <1>7 DEF ReadProperty, CheckLease, RenewStatement, ReadRun, FindArtifact, HeadObject,
           PutObject, AppendStage, logs
    <2>2. Refuse(s) \/ \E pc \in Pc \ {"audit"} : Advance(s, pc)
        BY <1>1, <1>7, Moves DEF Pc
    <2> QED BY <1>2, <1>3, <2>1, <2>2
<1>8. ASSUME NEW s \in Slot, CancelStatement(s) \/ InsertArtifact(s)
      PROVE  OwesNoPartial(s) /\ UNCHANGED <<events, audit>>
    <2>1. UNCHANGED <<events, audit>> /\ reqs[s].op \in {"cancel", "artifact"}
        BY <1>8 DEF CancelStatement, InsertArtifact, At, logs
    <2> QED BY <1>1, <1>2, <1>3, <1>8, <2>1, Moves
<1>9. ASSUME Tick \/ (\E r \in Run : CreateRun(r)) \/ UNCHANGED vars
      PROVE  UNCHANGED <<events, audit, reqs>>
    BY <1>9 DEF Tick, CreateRun, vars, logs
<1> QED BY <1>4, <1>5, <1>6, <1>7, <1>8, <1>9 DEF Onward, Next

(* How many entries `partial` a step adds to the two logs of a run. *)
Adds(r, wrote, said) ==
    /\ wrote \in 0..1 /\ said \in 0..1
    /\ Copies(PartialAudit, audit'[r]) = Copies(PartialAudit, audit[r]) + wrote
    /\ Copies(PartialEvent, events'[r]) = Copies(PartialEvent, events[r]) + said

(* An entry that is written was owed; a debt that is taken on has a new cause. *)
Accounted(s, r, wrote, said) ==
    /\ wrote = 1 => OwesPartial(s, r)
    /\ OwesPartial(s, r)' => /\ wrote = 0
                             /\ said = 1 \/ (IsPartial(r) = 0 /\ IsPartial(r)' = 1)

LEMMA Balance ==
    ASSUME Onward, PartialsCounted, NEW s \in Slot, NEW n, reqs' = [reqs EXCEPT ![s] = n],
           NEW r \in Run, NEW wrote, NEW said, Adds(r, wrote, said), Accounted(s, r, wrote, said)
    PROVE  PartialHasCause(r)'
<1>1. TypeOK
    BY DEF Onward, Shape
<1>2. /\ Cardinality(Partials(r)) \in Nat
      /\ Cardinality(Partials(r)') = Cardinality(Partials(r))
              - (IF OwesPartial(s, r) THEN 1 ELSE 0) + (IF OwesPartial(s, r)' THEN 1 ELSE 0)
    BY <1>1, DebtMoves
<1>3. PICK c, d : c = Cardinality(Partials(r)) /\ d = Cardinality(Partials(r)')
    OBVIOUS
<1>4. PICK a, v, p, q : /\ a = Copies(PartialAudit, audit[r]) /\ v = Copies(PartialEvent, events[r])
                        /\ p = IsPartial(r) /\ q = IsPartial(r)'
    OBVIOUS
<1>5. p \in 0..1 /\ q \in 0..1 /\ p <= q /\ v \in Nat /\ a \in Nat /\ c \in Nat /\ a + c <= v + p
    BY <1>2, <1>3, <1>4, CausesStay DEF PartialsCounted, PartialHasCause
<1>7. /\ wrote \in 0..1 /\ said \in 0..1
      /\ Copies(PartialAudit, audit'[r]) = a + wrote
      /\ Copies(PartialEvent, events'[r]) = v + said
    BY <1>4 DEF Adds
<1>6. a + wrote + d <= v + said + q
    <2>1. CASE OwesPartial(s, r)'
        <3>1. d <= c + 1 /\ d \in Int
            BY <1>2, <1>3, <1>5
        <3>2. wrote = 0 /\ (said = 1 \/ (p = 0 /\ q = 1))
            BY <1>4, <2>1 DEF Accounted
        <3> QED BY <1>5, <1>7, <3>1, <3>2
    <2>2. CASE ~OwesPartial(s, r)'
        <3>1. d = c - (IF OwesPartial(s, r) THEN 1 ELSE 0)
            BY <1>2, <1>3, <1>5, <2>2
        <3>2. CASE wrote = 1
            <4>1. d = c - 1
                BY <3>1, <3>2 DEF Accounted
            <4> QED BY <1>5, <1>7, <3>2, <4>1
        <3>3. CASE wrote = 0
            <4>1. d <= c /\ d \in Int
                BY <1>5, <3>1
            <4> QED BY <1>5, <1>7, <3>3, <4>1
        <3> QED BY <1>7, <3>2, <3>3
    <2> QED BY <2>1, <2>2
<1> QED BY <1>3, <1>4, <1>6, <1>7 DEF PartialHasCause

(* What Balance asks of a step that writes to neither log. *)
LEMMA SilentBalance ==
    ASSUME Onward, PartialsCounted, UNCHANGED <<events, audit>>,
           NEW s \in Slot, NEW n, reqs' = [reqs EXCEPT ![s] = n],
           \A r \in Run : OwesPartial(s, r)' => IsPartial(r) = 0 /\ IsPartial(r)' = 1
    PROVE  PartialsCounted'
<1>1. ASSUME NEW r \in Run PROVE PartialHasCause(r)'
    <2>1. PICK none : none = 0
        OBVIOUS
    <2>2. Adds(r, none, none)
        BY <2>1, CausesStay DEF Adds
    <2>3. Accounted(s, r, none, none)
        BY <2>1 DEF Accounted
    <2> QED BY <2>2, <2>3, Balance
<1> QED BY <1>1 DEF PartialsCounted

LEMMA FinishBalances ==
    ASSUME Onward, PartialsCounted, NEW s \in Slot, FinishStatement(s)
    PROVE  PartialsCounted'
<1>1. TypeOK /\ Shape /\ Kept
    BY DEF Onward, Shape
<1>2. UNCHANGED <<events, audit>> /\ reqs[s].op = "finish"
    BY DEF FinishStatement, At, logs
<1>3. CASE Refuse(s)
    <2>1. reqs' = [reqs EXCEPT ![s] = Idle] /\ Idle.op = "none"
        BY <1>3 DEF Refuse, Idle, Blank
    <2>2. \A r \in Run : ~OwesPartial(s, r)'
        BY <1>1, <2>1 DEF OwesPartial, TypeOK
    <2> QED BY <1>2, <2>1, <2>2, SilentBalance
<1>4. CASE ~Refuse(s)
    <2>1. Advance(s, "audit")
        BY <1>1, <1>4, Moves
    <2>2. PICK n : Same(n, reqs[s]) /\ n.pc = "audit" /\ reqs' = [reqs EXCEPT ![s] = n]
        BY <2>1 DEF Advance
    <2>3. reqs[s].run \in Run
        BY <1>1, <1>2, RunIsNamed DEF Kept, Holds, Op
    <2>4. /\ runs[reqs[s].run].state = "running"
          /\ runs' = [runs EXCEPT ![reqs[s].run] = Finished(@, reqs[s].what)]
        BY <1>4 DEF FinishStatement, LeaseValid
    <2>5. runs'[reqs[s].run].state = reqs[s].what
        BY <1>1, <2>3, <2>4 DEF Finished, TypeOK, Row
    <2>6. \A r \in Run : OwesPartial(s, r)' => reqs[s].run = r /\ reqs[s].what = "partial"
        BY <1>1, <2>2 DEF OwesPartial, Same, TypeOK
    <2>7. \A r \in Run : OwesPartial(s, r)' => IsPartial(r) = 0 /\ IsPartial(r)' = 1
        BY <2>4, <2>5, <2>6 DEF IsPartial
    <2> QED BY <1>2, <2>2, <2>7, SilentBalance
<1> QED BY <1>3, <1>4

LEMMA EventBalances ==
    ASSUME Onward, PartialsCounted, NEW s \in Slot, AppendEvent(s)
    PROVE  PartialsCounted'
<1> DEFINE e == EventEntry(reqs[s])
<1>1. TypeOK /\ Shape /\ Kept
    BY DEF Onward, Shape
<1>2. /\ events' = Append1(events, reqs[s].run, e) /\ UNCHANGED audit
      /\ reqs[s].op \in {"claim", "renew", "event"} /\ reqs[s].pc = "event"
    BY DEF AppendEvent, At
<1>3. reqs[s].run \in Run /\ Addressed(reqs[s])
    BY <1>1, <1>2, RunIsNamed DEF Kept, Holds, Op
<1>4. DOMAIN events = Run /\ \A o \in Run : IsABag(events[o])
    BY <1>1 DEF Shape, TypeOK
<1>8. /\ Copies(e, events'[reqs[s].run]) = Copies(e, events[reqs[s].run]) + 1
      /\ \A o \in Run : \A x : o # reqs[s].run \/ x # e => Copies(x, events'[o]) = Copies(x, events[o])
    <2> DEFINE at == reqs[s].run
    <2>1. events' = Append1(events, at, e) /\ at \in Run
        BY <1>2, <1>3
    <2> HIDE DEF at, e
    <2>2. /\ Copies(e, events'[at]) = Copies(e, events[at]) + 1
          /\ \A o \in Run : \A x : o # at \/ x # e => Copies(x, events'[o]) = Copies(x, events[o])
        BY <1>4, <2>1, CopiesAppended
    <2> QED BY <2>2 DEF at
<1>5. PICK pc \in {"audit", "reply"} : Advance(s, pc)
    BY <1>1, Moves
<1>6. PICK n : Same(n, reqs[s]) /\ reqs' = [reqs EXCEPT ![s] = n]
    BY <1>5 DEF Advance
<1>7. ASSUME NEW r \in Run PROVE PartialHasCause(r)'
    <2>1. ASSUME OwesPartial(s, r)' PROVE r = reqs[s].run /\ PartialEvent = e
        <3>1. n.op \in {"event", "finish"} /\ n.what = "partial" /\ n.run = r
            BY <1>1, <1>6, <2>1 DEF OwesPartial, TypeOK
        <3>2. reqs[s].op = "event" /\ reqs[s].what = "partial" /\ reqs[s].run = r
            BY <1>2, <1>6, <3>1 DEF Same
        <3> QED BY <1>3, <3>2 DEF Addressed, EventEntry, PartialEvent
    <2> DEFINE said == IF r = reqs[s].run /\ PartialEvent = e THEN 1 ELSE 0
    <2>2. said \in 0..1
        OBVIOUS
    <2>3. OwesPartial(s, r)' => said = 1
        BY <2>1
    <2> HIDE DEF e
    <2>4. Copies(PartialEvent, events'[r]) = Copies(PartialEvent, events[r]) + said
        BY <1>8, CausesStay
    <2> HIDE DEF said
    <2>5. PICK none : none = 0
        OBVIOUS
    <2>6. Adds(r, none, said)
        BY <1>2, <2>2, <2>4, <2>5, CausesStay DEF Adds
    <2>7. Accounted(s, r, none, said)
        BY <2>3, <2>5 DEF Accounted
    <2> QED BY <1>6, <2>6, <2>7, Balance
<1> QED BY <1>7 DEF PartialsCounted

LEMMA AuditBalances ==
    ASSUME Onward, PartialsCounted, NEW s \in Slot, AppendAudit(s)
    PROVE  PartialsCounted'
<1> DEFINE e == AuditEntry(reqs[s])
<1>1. TypeOK /\ Shape /\ Kept
    BY DEF Onward, Shape
<1>2. /\ audit' = Append1(audit, reqs[s].run, e) /\ UNCHANGED events
      /\ reqs[s].op \in {"claim", "finish", "cancel", "event", "artifact"}
      /\ reqs[s].pc = "audit"
    BY DEF AppendAudit, At
<1>3. reqs[s].run \in Run
    BY <1>1, AuditStep
<1>4. DOMAIN audit = Run /\ \A o \in Run : IsABag(audit[o])
    BY <1>1 DEF Shape, TypeOK
<1>9. /\ Copies(e, audit'[reqs[s].run]) = Copies(e, audit[reqs[s].run]) + 1
      /\ \A o \in Run : \A x : o # reqs[s].run \/ x # e => Copies(x, audit'[o]) = Copies(x, audit[o])
    <2> DEFINE at == reqs[s].run
    <2>1. audit' = Append1(audit, at, e) /\ at \in Run
        BY <1>2, <1>3
    <2> HIDE DEF at, e
    <2>2. /\ Copies(e, audit'[at]) = Copies(e, audit[at]) + 1
          /\ \A o \in Run : \A x : o # at \/ x # e => Copies(x, audit'[o]) = Copies(x, audit[o])
        BY <1>4, <2>1, CopiesAppended
    <2> QED BY <2>2 DEF at
<1>5. PICK pc \in {"reply", "stage"} : Advance(s, pc)
    BY <1>1, Moves
<1>6. PICK n : n.pc # "audit" /\ reqs' = [reqs EXCEPT ![s] = n]
    BY <1>5 DEF Advance
<1>7. ASSUME PartialAudit = e PROVE OwesPartial(s, reqs[s].run)
    <2>1. e.what = "partial"
        BY <1>7 DEF PartialAudit
    <2> QED BY <1>2, <2>1 DEF AuditEntry, OwesPartial
<1>8. ASSUME NEW r \in Run PROVE PartialHasCause(r)'
    <2> DEFINE wrote == IF r = reqs[s].run /\ PartialAudit = e THEN 1 ELSE 0
    <2>1. wrote \in 0..1 /\ (wrote = 1 => OwesPartial(s, r))
        BY <1>7
    <2> HIDE DEF e
    <2>2. Copies(PartialAudit, audit'[r]) = Copies(PartialAudit, audit[r]) + wrote
        BY <1>9, CausesStay
    <2>3. ~OwesPartial(s, r)'
        BY <1>1, <1>6 DEF OwesPartial, TypeOK
    <2> HIDE DEF wrote
    <2>4. Adds(r, wrote, 0)
        BY <1>2, <2>1, <2>2, CausesStay DEF Adds
    <2>5. Accounted(s, r, wrote, 0)
        BY <2>1, <2>3 DEF Accounted
    <2> QED BY <1>6, <2>4, <2>5, Balance
<1> QED BY <1>8 DEF PartialsCounted

LEMMA PartialsStayCounted ==
    ASSUME Onward, PartialsCounted PROVE PartialsCounted'
<1>1. CASE \E s \in Slot : FinishStatement(s) \/ AppendEvent(s) \/ AppendAudit(s)
    BY <1>1, FinishBalances, EventBalances, AuditBalances
<1>2. CASE ~ \E s \in Slot : FinishStatement(s) \/ AppendEvent(s) \/ AppendAudit(s)
    <2>1. UNCHANGED <<events, audit>>
        BY <1>2, QuietSlots
    <2>2. ASSUME NEW s \in Slot, OwesNoPartial(s) PROVE PartialsCounted'
        <3>1. PICK n : /\ reqs' = [reqs EXCEPT ![s] = n]
                       /\ n.pc # "audit" \/ n.op \notin {"event", "finish"}
            BY <2>2 DEF OwesNoPartial
        <3>2. \A r \in Run : ~OwesPartial(s, r)'
            BY <3>1 DEF OwesPartial, Onward, Shape, TypeOK
        <3> QED BY <2>1, <3>1, <3>2, SilentBalance
    <2>3. CASE UNCHANGED reqs
        <3>1. ASSUME NEW r \in Run PROVE PartialHasCause(r)'
            <4>1. /\ Copies(PartialAudit, audit'[r]) = Copies(PartialAudit, audit[r])
                  /\ Copies(PartialEvent, events'[r]) = Copies(PartialEvent, events[r])
                  /\ Partials(r)' = Partials(r)
                BY <2>1, <2>3 DEF Partials, OwesPartial
            <4>2. PICK c : c = Cardinality(Partials(r)) /\ c \in Nat
                BY ControlAssumption, FS_Subset, FS_CardinalityType DEF Partials
            <4> QED BY <4>1, <4>2, CausesStay DEF PartialsCounted, PartialHasCause
        <3> QED BY <3>1 DEF PartialsCounted
    <2> QED BY <1>2, <2>2, <2>3, QuietSlots
<1> QED BY <1>1, <1>2

----------------------------------------------------------------------------
(* Evidence, types and tokens. *)

LEMMA RowsHaveObjects ==
    ASSUME Onward PROVE ArtifactBacked'
<1>1. bucket \subseteq bucket'
    BY NothingIsTakenBack DEF Onward
<1>2. ASSUME artifacts' = artifacts PROVE ArtifactBacked'
    BY <1>1, <1>2 DEF Onward, ArtifactBacked
<1>3. ASSUME NEW s \in Slot, InsertArtifact(s) PROVE ArtifactBacked'
    <2>1. DigestOf[reqs[s].doc] \in bucket
        BY <1>3 DEF InsertArtifact, At, Onward, Kept, Holds, UploadKept
    <2>2. artifacts' = artifacts \cup {[run |-> reqs[s].run, doc |-> reqs[s].doc]}
        BY <1>3 DEF InsertArtifact
    <2> QED BY <1>1, <2>1, <2>2 DEF Onward, ArtifactBacked
<1>4. ASSUME NEW s \in Slot,
             \/ Arrive(s) \/ Drop(s) \/ Reply(s) \/ ClaimStatement(s) \/ ReadProperty(s)
             \/ CheckLease(s) \/ RenewStatement(s) \/ FinishStatement(s) \/ ReadRun(s)
             \/ CancelStatement(s) \/ FindArtifact(s) \/ HeadObject(s) \/ PutObject(s)
             \/ AppendEvent(s) \/ AppendAudit(s) \/ AppendStage(s)
      PROVE  artifacts' = artifacts
    BY <1>4 DEF Arrive, Drop, Reply, ClaimStatement, ReadProperty, CheckLease, RenewStatement,
       FinishStatement, ReadRun, CancelStatement, FindArtifact, HeadObject, PutObject,
       AppendEvent, AppendAudit, AppendStage, evidence
<1>5. ASSUME Tick \/ (\E r \in Run : CreateRun(r)) \/ UNCHANGED vars
      PROVE  artifacts' = artifacts
    BY <1>5 DEF Tick, CreateRun, vars, evidence
<1> QED BY <1>2, <1>3, <1>4, <1>5 DEF Onward, Next

(* A slot is idle, or taken by a request that is not a claim about to be sent ... *)
Settles(n) == n \in Request \cup {Idle} /\ ~(n.op = "claim" /\ n.pc = "statement")

LEMMA SettlesWhere ==
    ASSUME Onward, NEW s \in Slot
    PROVE  /\ Refuse(s) => \E n : Settles(n) /\ reqs' = [reqs EXCEPT ![s] = n]
           /\ \A pc \in Pc : (Advance(s, pc) /\ (pc = "statement" => reqs[s].op # "claim"))
                  => \E n : Settles(n) /\ reqs' = [reqs EXCEPT ![s] = n]
<1>1. Idle.op = "none"
    BY DEF Idle, Blank
<1>2. Refuse(s) => \E n : Settles(n) /\ reqs' = [reqs EXCEPT ![s] = n]
    BY <1>1 DEF Refuse, Settles
<1>3. ASSUME NEW pc \in Pc, Advance(s, pc), pc = "statement" => reqs[s].op # "claim"
      PROVE  \E n : Settles(n) /\ reqs' = [reqs EXCEPT ![s] = n]
    <2>1. PICK n \in Request : Same(n, reqs[s]) /\ n.pc = pc /\ reqs' = [reqs EXCEPT ![s] = n]
        BY <1>3 DEF Advance
    <2>2. Settles(n)
        BY <1>3, <2>1 DEF Settles, Same
    <2> QED BY <2>1, <2>2
<1> QED BY <1>2, <1>3

LEMMA SlotOfClaim ==
    ASSUME Onward, NEW s \in Slot, ClaimStatement(s)
    PROVE  \E n : Settles(n) /\ reqs' = [reqs EXCEPT ![s] = n]
<1>1. CASE Refuse(s)
    BY <1>1, SettlesWhere
<1>2. ASSUME NEW r \in Run, NEW at \in Nat, NEW until \in Nat, NEW n \in Request,
             Claims1(s, r, at, until, n)
      PROVE  \E m : Settles(m) /\ reqs' = [reqs EXCEPT ![s] = m]
    BY <1>2 DEF Claims1, Settles
<1> QED BY <1>1, <1>2, ClaimMeans DEF Onward, Shape, Kept, Holds

(* ... unless it has just arrived. *)
LEMMA SlotSteps ==
    ASSUME Onward
    PROVE  \/ UNCHANGED reqs
           \/ \E s \in Slot : \E n : reqs' = [reqs EXCEPT ![s] = n] /\ Settles(n)
           \/ \E s \in Slot : Arrive(s)
<1> DEFINE settles(s) == \E n : Settles(n) /\ reqs' = [reqs EXCEPT ![s] = n]
<1>1. TypeOK
    BY DEF Onward, Shape
<1>2. ASSUME NEW s \in Slot
      PROVE  /\ Refuse(s) => settles(s)
             /\ \A pc \in Pc : Advance(s, pc) /\ (pc = "statement" => reqs[s].op # "claim")
                    => settles(s)
    BY SettlesWhere
<1>3. ASSUME NEW s \in Slot, Drop(s) \/ Reply(s) PROVE settles(s)
    <2>1. Refuse(s)
        BY <1>3 DEF Drop, Reply, Refuse
    <2> QED BY <1>2, <2>1
<1>4. ASSUME NEW s \in Slot,
             \/ ReadProperty(s) \/ CheckLease(s) \/ RenewStatement(s) \/ FinishStatement(s)
             \/ CancelStatement(s) \/ FindArtifact(s) \/ HeadObject(s)
             \/ PutObject(s) \/ InsertArtifact(s) \/ AppendEvent(s) \/ AppendAudit(s)
             \/ AppendStage(s)
      PROVE  settles(s)
    <2> HIDE DEF settles
    <2> QED BY <1>1, <1>2, <1>4, Moves DEF Pc
<1>5. ASSUME NEW s \in Slot, ReadRun(s) PROVE settles(s)
    <2>1. reqs[s].op = "cancel"
        BY <1>5 DEF ReadRun, At
    <2> HIDE DEF settles
    <2> QED BY <1>1, <1>2, <1>5, <2>1, Moves DEF Pc
<1>6. ASSUME NEW s \in Slot, ClaimStatement(s) PROVE settles(s)
    BY <1>6, SlotOfClaim
<1>7. ASSUME Tick \/ (\E r \in Run : CreateRun(r)) \/ UNCHANGED vars PROVE UNCHANGED reqs
    BY <1>7 DEF Tick, CreateRun, vars
<1> QED BY <1>3, <1>4, <1>5, <1>6, <1>7 DEF Onward, Next

LEMMA TypesHold ==
    ASSUME Onward, TokensCounted'
    PROVE  Shape' /\ Fresh'
<1>1. Shape /\ TypeOK
    BY DEF Onward, Shape
<1>2. runs' \in [Run -> Row] /\ Fresh' /\ LogsAreBags' /\ grants' \subseteq Lease!Grant
    BY RowsStayTyped, LogSteps, NothingIsTakenBack DEF Onward
<1>3. reqs' \in [Slot -> Request \cup {Idle}]
    <2>1. CASE UNCHANGED reqs
        BY <1>1, <2>1 DEF TypeOK
    <2>2. CASE \E s \in Slot : \E n : reqs' = [reqs EXCEPT ![s] = n] /\ Settles(n)
        BY <1>1, <2>2 DEF TypeOK, Settles
    <2>3. ASSUME NEW s \in Slot, Arrive(s)
          PROVE  reqs' \in [Slot -> Request \cup {Idle}]
        <3>1. PICK n : Arrived(n) /\ reqs' = [reqs EXCEPT ![s] = n]
            BY <2>3, ArriveMeans DEF Onward
        <3> QED BY <1>1, <3>1 DEF TypeOK, Arrived
    <2> QED BY <2>1, <2>2, <2>3, SlotSteps
<1>4. clock' \in 0..MaxClock /\ minted' \in Nat /\ issued' \in 0..MaxRequests
    <2>1. ASSUME NEW s \in Slot, ClaimStatement(s)
          PROVE  minted' \in Nat /\ UNCHANGED world
        <3>1. UNCHANGED world
            BY <2>1 DEF ClaimStatement
        <3>2. minted' \in {minted, minted + 1}
            BY <1>1, <2>1, ClaimMeans DEF Onward, Kept, Holds, Claims1, leases
        <3> QED BY <1>1, <3>1, <3>2, ControlAssumption DEF TypeOK
    <2>2. ASSUME NEW s \in Slot, Arrive(s)
          PROVE  minted' = minted /\ clock' = clock /\ issued' \in 0..MaxRequests
        BY <1>1, <2>2, ControlAssumption DEF Arrive, TypeOK, leases
    <2>3. ASSUME NEW s \in Slot,
                 \/ Drop(s) \/ Reply(s) \/ ReadProperty(s)
                 \/ CheckLease(s) \/ RenewStatement(s) \/ FinishStatement(s) \/ ReadRun(s)
                 \/ CancelStatement(s) \/ FindArtifact(s) \/ HeadObject(s) \/ PutObject(s)
                 \/ InsertArtifact(s) \/ AppendEvent(s) \/ AppendAudit(s) \/ AppendStage(s)
          PROVE  UNCHANGED <<minted, clock, issued>>
        BY <2>3 DEF Drop, Reply, ReadProperty, CheckLease, RenewStatement, FinishStatement,
           ReadRun, CancelStatement, FindArtifact, HeadObject, PutObject, InsertArtifact,
           AppendEvent, AppendAudit, AppendStage, world, leases
    <2>4. CASE Tick
        BY <1>1, <2>4, ControlAssumption DEF Tick, TypeOK, leases
    <2>5. ASSUME (\E r \in Run : CreateRun(r)) \/ UNCHANGED vars
          PROVE  UNCHANGED <<minted, clock, issued>>
        BY <2>5 DEF CreateRun, vars, world, leases
    <2>6. minted \in Nat /\ clock \in 0..MaxClock /\ issued \in 0..MaxRequests
        BY <1>1, ControlAssumption DEF TypeOK
    <2> QED BY <2>1, <2>2, <2>3, <2>4, <2>5, <2>6 DEF Onward, Next, world
<1>5. minted' \in 0..MaxRequests
    <2>1. IsFiniteSet(Claiming')
        BY ControlAssumption, FS_Subset DEF Claiming
    <2>2. Cardinality(Claiming') \in Nat
        BY <2>1, FS_CardinalityType
    <2>3. minted' + Cardinality(Claiming') <= issued'
        BY DEF TokensCounted
    <2> QED BY <1>4, <2>2, <2>3, ControlAssumption
<1>6. artifacts' \subseteq [run : Run, doc : Document] /\ bucket' \subseteq {DigestOf[d] : d \in Document}
    <2>1. ASSUME NEW s \in Slot, PutObject(s) \/ InsertArtifact(s)
          PROVE  /\ artifacts' \subseteq [run : Run, doc : Document]
                 /\ bucket' \subseteq {DigestOf[d] : d \in Document}
        <3>1. reqs[s].op = "artifact" /\ Addressed(reqs[s]) /\ Granted(reqs[s])
            BY <2>1 DEF PutObject, InsertArtifact, At, Onward, Kept, Holds
        <3>2. reqs[s].doc \in Document /\ reqs[s].run \in Run
            BY <1>1, <3>1, RunIsNamed DEF Addressed, Op
        <3> QED BY <1>1, <2>1, <3>2 DEF PutObject, InsertArtifact, TypeOK
    <2>2. ASSUME NEW s \in Slot,
                 \/ Arrive(s) \/ Drop(s) \/ Reply(s) \/ ClaimStatement(s) \/ ReadProperty(s)
                 \/ CheckLease(s) \/ RenewStatement(s) \/ FinishStatement(s) \/ ReadRun(s)
                 \/ CancelStatement(s) \/ FindArtifact(s) \/ HeadObject(s)
                 \/ AppendEvent(s) \/ AppendAudit(s) \/ AppendStage(s)
          PROVE  UNCHANGED evidence
        BY <2>2 DEF Arrive, Drop, Reply, ClaimStatement, ReadProperty, CheckLease, RenewStatement,
           FinishStatement, ReadRun, CancelStatement, FindArtifact, HeadObject,
           AppendEvent, AppendAudit, AppendStage, evidence
    <2>3. ASSUME Tick \/ (\E r \in Run : CreateRun(r)) \/ UNCHANGED vars
          PROVE  UNCHANGED evidence
        BY <2>3 DEF Tick, CreateRun, vars, evidence
    <2>4. ASSUME UNCHANGED evidence
          PROVE  /\ artifacts' \subseteq [run : Run, doc : Document]
                 /\ bucket' \subseteq {DigestOf[d] : d \in Document}
        BY <1>1, <2>4 DEF evidence, TypeOK
    <2> QED BY <2>1, <2>2, <2>3, <2>4 DEF Onward, Next
<1>7. acks' \subseteq Request
    <2>1. ASSUME NEW s \in Slot, Reply(s) PROVE acks' \subseteq Request
        <3>1. reqs[s] \in Request
            BY <1>1, <2>1, Running DEF Reply, At
        <3>2. 0 \in 0..MaxClock
            BY ControlAssumption
        <3>3. [reqs[s] EXCEPT !.since = 0] \in Request
            BY <3>1, <3>2 DEF Request
        <3> QED BY <1>1, <2>1, <3>3 DEF Reply, TypeOK
    <2>2. ASSUME NEW s \in Slot,
                 \/ ReadProperty(s) \/ CheckLease(s) \/ RenewStatement(s) \/ FinishStatement(s)
                 \/ ReadRun(s) \/ CancelStatement(s) \/ FindArtifact(s) \/ HeadObject(s)
                 \/ PutObject(s) \/ InsertArtifact(s) \/ AppendEvent(s) \/ AppendAudit(s)
                 \/ AppendStage(s) \/ ClaimStatement(s) \/ Arrive(s) \/ Drop(s)
          PROVE  acks' = acks
        BY <2>2 DEF ReadProperty, CheckLease, RenewStatement, FinishStatement, ReadRun,
           CancelStatement, FindArtifact, HeadObject, PutObject, InsertArtifact, AppendEvent,
           AppendAudit, AppendStage, ClaimStatement, Arrive, Drop, world
    <2>3. ASSUME Tick \/ (\E r \in Run : CreateRun(r)) \/ UNCHANGED vars PROVE acks' = acks
        BY <2>3 DEF Tick, CreateRun, vars, world
    <2> QED BY <1>1, <2>1, <2>2, <2>3 DEF Onward, Next, TypeOK
<1> QED BY <1>2, <1>3, <1>4, <1>5, <1>6, <1>7 DEF Shape, TypeOK, LogsAreBags

(* A claim is one request and mints at most one token. *)
LEMMA TokensStayCounted ==
    ASSUME Onward, TokensCounted PROVE TokensCounted'
<1> DEFINE S == Claiming
           T == Claiming'
<1>1. TypeOK /\ minted \in Nat /\ issued \in Nat
    BY ControlAssumption DEF Onward, Shape, TypeOK
<1>2. /\ IsFiniteSet(S) /\ Cardinality(S) \in Nat
      /\ \A X : X \subseteq S => IsFiniteSet(X) /\ Cardinality(X) \in Nat
                                 /\ Cardinality(X) <= Cardinality(S)
    <2>1. IsFiniteSet(S)
        BY ControlAssumption, FS_Subset DEF Claiming
    <2> HIDE DEF S
    <2>2. ASSUME NEW X, X \subseteq S
          PROVE  IsFiniteSet(X) /\ Cardinality(X) <= Cardinality(S)
        BY <2>1, <2>2, FS_Subset
    <2> QED BY <2>1, <2>2, FS_CardinalityType
<1>3. minted + Cardinality(S) <= issued
    BY DEF TokensCounted
<1>4. ASSUME NEW s \in Slot, NEW n, reqs' = [reqs EXCEPT ![s] = n], Settles(n)
      PROVE  T \subseteq S \ {s}
    BY <1>1, <1>4 DEF Claiming, TypeOK, Settles
<1>5. CASE UNCHANGED <<minted, issued>> /\ T \subseteq S
    <2> HIDE DEF S, T
    <2>1. Cardinality(T) \in Nat /\ Cardinality(T) <= Cardinality(S) /\ Cardinality(S) \in Nat
        BY <1>2, <1>5
    <2>2. minted' + Cardinality(T) <= issued'
        BY <1>1, <1>3, <1>5, <2>1
    <2> QED BY <2>2 DEF TokensCounted, T
<1>6. ASSUME NEW s \in Slot, Arrive(s) PROVE TokensCounted'
    <2>1. PICK n : reqs' = [reqs EXCEPT ![s] = n]
        BY <1>6, ArriveMeans DEF Onward
    <2>2. T \subseteq S \cup {s} /\ minted' = minted /\ issued' = issued + 1
        BY <1>1, <1>6, <2>1 DEF Claiming, TypeOK, Arrive, leases
    <2> HIDE DEF S, T
    <2>3. IsFiniteSet(S \cup {s}) /\ Cardinality(S \cup {s}) <= Cardinality(S) + 1
          /\ Cardinality(S \cup {s}) \in Nat /\ Cardinality(S) \in Nat
        <3>1. IsFiniteSet(S \cup {s})
              /\ Cardinality(S \cup {s}) = IF s \in S THEN Cardinality(S) ELSE Cardinality(S) + 1
            BY <1>2, FS_AddElement
        <3> QED BY <1>2, <3>1
    <2>4. Cardinality(T) \in Nat /\ Cardinality(T) <= Cardinality(S \cup {s})
        BY <2>2, <2>3, FS_Subset, FS_CardinalityType
    <2>5. minted' + Cardinality(T) <= issued'
        BY <1>1, <1>3, <2>2, <2>3, <2>4
    <2> QED BY <2>5 DEF TokensCounted, T
<1>7. ASSUME NEW s \in Slot, ClaimStatement(s) PROVE TokensCounted'
    <2>1. s \in S /\ issued' = issued
        BY <1>7 DEF ClaimStatement, At, Claiming, world
    <2>2. CASE UNCHANGED minted
        <3>1. T \subseteq S
            BY <1>1, <1>4, <1>7, <2>2, SlotOfClaim
        <3> QED BY <1>5, <2>1, <2>2, <3>1
    <2>3. CASE minted' = minted + 1
        <3>1. T \subseteq S \ {s}
            BY <1>4, <1>7, SlotOfClaim
        <3> HIDE DEF S, T
        <3>2. Cardinality(S \ {s}) = Cardinality(S) - 1 /\ IsFiniteSet(S \ {s})
            BY <1>2, <2>1, FS_RemoveElement
        <3>3. Cardinality(T) \in Nat /\ Cardinality(T) <= Cardinality(S) - 1
            BY <1>2, <3>1, <3>2, FS_Subset, FS_CardinalityType
        <3>4. minted' + Cardinality(T) <= issued'
            BY <1>1, <1>2, <1>3, <2>1, <2>3, <3>3
        <3> QED BY <3>4 DEF TokensCounted, T
    <2>4. minted' \in {minted, minted + 1}
        BY <1>1, <1>7, ClaimMeans DEF Onward, Kept, Holds, Claims1, leases
    <2> QED BY <2>2, <2>3, <2>4
<1>8. ASSUME NEW s \in Slot,
             \/ Drop(s) \/ Reply(s) \/ ReadProperty(s)
             \/ CheckLease(s) \/ RenewStatement(s) \/ FinishStatement(s) \/ ReadRun(s)
             \/ CancelStatement(s) \/ FindArtifact(s) \/ HeadObject(s) \/ PutObject(s)
             \/ InsertArtifact(s) \/ AppendEvent(s) \/ AppendAudit(s) \/ AppendStage(s)
      PROVE  UNCHANGED <<minted, issued>>
    BY <1>8 DEF Drop, Reply, ReadProperty, CheckLease, RenewStatement, FinishStatement, ReadRun,
       CancelStatement, FindArtifact, HeadObject, PutObject, InsertArtifact, AppendEvent,
       AppendAudit, AppendStage, world, leases
<1>9. ASSUME Tick \/ (\E r \in Run : CreateRun(r)) \/ UNCHANGED vars
      PROVE  UNCHANGED <<minted, issued>>
    BY <1>9 DEF Tick, CreateRun, vars, world, leases
<1>10. CASE UNCHANGED <<minted, issued>>
    <2>1. CASE \E s \in Slot : Arrive(s)
        BY <1>6, <2>1
    <2>2. CASE ~ \E s \in Slot : Arrive(s)
        <3>1. T \subseteq S
            BY <1>1, <1>4, <2>2, SlotSteps DEF Claiming
        <3> QED BY <1>5, <1>10, <3>1
    <2> QED BY <2>1, <2>2
<1> QED BY <1>6, <1>7, <1>8, <1>9, <1>10 DEF Onward, Next

----------------------------------------------------------------------------
(* The invariant, and what it says of the control plane. *)

LEMMA ControlInit == Init => ControlInv
<1> SUFFICES ASSUME Init PROVE ControlInv
    OBVIOUS
<1>1. Idle.op = "none" /\ \A s \in Slot : reqs[s] = Idle
    BY DEF Init, Idle, Blank
<1>2. /\ AbsentRow \in Row /\ AbsentRow.attempt = 0 /\ AbsentRow.state = "absent"
      /\ \A r \in Run : runs[r] = AbsentRow
    BY StoreAssumption DEF Init, AbsentRow, Row, NoToken, NoExpiry
<1>3. IsABag(EmptyBag) /\ DOMAIN EmptyBag = {}
    BY DEF IsABag, EmptyBag, SetToBag
<1>4. TypeOK
    BY <1>1, <1>2, <1>3, ControlAssumption DEF Init, TypeOK
<1>5. Shape /\ Fresh /\ ArtifactBacked
    BY <1>2, <1>4 DEF Init, Shape, Fresh, ArtifactBacked
<1>6. Kept
    BY <1>1 DEF Init, Kept, Holds, Addressed, Granted, ClaimKept, EndKept, UploadKept, Op
<1>7. OwedOnce /\ LogsAgree
    BY <1>1, <1>3 DEF Init, OwedOnce, OwesEnd, OwesClaim, LogsAgree
<1>9. PartialsCounted
    <2>1. ASSUME NEW r \in Run PROVE PartialHasCause(r)
        <3>1. Partials(r) = {}
            BY <1>1 DEF Partials, OwesPartial
        <3>2. Cardinality(Partials(r)) = 0
            BY <3>1, FS_EmptySet
        <3>3. /\ Copies(PartialAudit, audit[r]) = 0 /\ Copies(PartialEvent, events[r]) = 0
              /\ IsPartial(r) = 0
            BY <1>2, <1>3 DEF Init, Copies, BagIn, BagToSet, IsPartial
        <3> QED BY <3>2, <3>3 DEF PartialHasCause
    <2> QED BY <2>1 DEF PartialsCounted
<1>8. TokensCounted
    <2>1. Claiming = {}
        BY <1>1 DEF Claiming
    <2>2. Cardinality(Claiming) = 0
        BY <2>1, FS_EmptySet
    <2> QED BY <2>2 DEF Init, TokensCounted
<1> QED BY <1>5, <1>6, <1>7, <1>8, <1>9 DEF ControlInv

LEMMA ControlNext == ControlInv /\ [Next]_vars => ControlInv'
<1> SUFFICES ASSUME ControlInv, [Next]_vars PROVE ControlInv'
    OBVIOUS
<1>1. Onward
    BY DEF ControlInv, Onward
<1>2. TokensCounted'
    BY <1>1, TokensStayCounted DEF ControlInv
<1>3. Shape' /\ Fresh'
    BY <1>1, <1>2, TypesHold
<1>4. Kept' /\ ArtifactBacked'
    BY <1>1, PromisesKeep, RowsHaveObjects
<1>5. OwedOnce' /\ LogsAgree' /\ PartialsCounted'
    BY <1>1, AuditStaysRight, PartialsStayCounted DEF ControlInv
<1> QED BY <1>2, <1>3, <1>4, <1>5 DEF ControlInv

(* The invariant holds in every reachable state. *)
THEOREM ControlInvariant == Spec => []ControlInv
BY ControlInit, ControlNext, PTL DEF Spec

(* Every variable keeps to its type; in particular no more tokens are minted
   than requests were made. *)
THEOREM ControlTypes == Spec => []TypeOK
BY ControlInvariant, PTL DEF ControlInv, Shape

(* Whatever uploads overlap or are dropped, no artifact row is without its bytes. *)
THEOREM ArtifactsResolve == Spec => []ArtifactBacked
BY ControlInvariant, PTL DEF ControlInv

LEMMA PromisesAcknowledge == Shape /\ Kept => AcknowledgedHolds
<1> SUFFICES ASSUME Shape, Kept, NEW a \in acks
             PROVE  /\ a.op = "claim" =>
                          /\ \E g \in grants : /\ g.token = a.token /\ g.run = a.run
                                               /\ g.attempt = a.attempt
                          /\ BagIn(AuditEntry(a), audit[a.run])
                          /\ BagIn(EventEntry(a), events[a.run])
                          /\ BagIn("start", theatre[a.run])
                    /\ a.op = "finish" => /\ runs[a.run].state = a.what
                                          /\ BagIn(AuditEntry(a), audit[a.run])
                    /\ a.op = "cancel" => runs[a.run].state = "cancelled"
                    /\ a.op = "artifact" => /\ [run |-> a.run, doc |-> a.doc] \in artifacts
                                            /\ DigestOf[a.doc] \in bucket
    BY DEF AcknowledgedHolds
<1>1. Holds(a) /\ a.pc = "reply"
    BY DEF Kept
<1>2. a.op = "claim" => \E g \in grants : /\ g.token = a.token /\ g.run = a.run
                                          /\ g.attempt = a.attempt
    BY <1>1 DEF Holds, Granted, Names
<1>3. a.op = "claim" => /\ BagIn(AuditEntry(a), audit[a.run])
                        /\ BagIn(EventEntry(a), events[a.run])
                        /\ BagIn("start", theatre[a.run])
    BY <1>1 DEF Holds, ClaimKept
<1>4. /\ a.op = "finish" => /\ runs[a.run].state = a.what
                            /\ BagIn(AuditEntry(a), audit[a.run])
      /\ a.op = "cancel" => runs[a.run].state = "cancelled"
    BY <1>1 DEF Holds, EndKept
<1>5. a.op = "artifact" => /\ [run |-> a.run, doc |-> a.doc] \in artifacts
                           /\ DigestOf[a.doc] \in bucket
    BY <1>1 DEF Holds, UploadKept
<1> QED BY <1>2, <1>3, <1>4, <1>5

(* What a client was told is so for good: its claim is on record, its outcome
   or cancellation final, its artifact stored. *)
THEOREM AnswersAreKept == Spec => []AcknowledgedHolds
<1>1. ControlInv => AcknowledgedHolds
    BY PromisesAcknowledge DEF ControlInv
<1> QED BY <1>1, ControlInvariant, PTL

LEMMA AgreementOfLogs ==
    ASSUME Shape, LogsAgree, PartialsCounted PROVE AuditAgreesWithRow
<1> SUFFICES ASSUME NEW r \in Run
             PROVE  LET named == BagToSet(audit[r])
                        final == {e \in named : e.what \in Ending}
                        claims == {e \in named : e.what = "claimed"} IN
                    /\ final # {} => {e.what : e \in final} = {runs[r].state}
                    /\ \A e \in final \cup claims : audit[r][e] = 1
                    /\ \A e \in claims : e.attempt \in 1..runs[r].attempt
                    /\ Copies(PartialAudit, audit[r]) <=
                           Copies(PartialEvent, events[r])
                               + (IF runs[r].state = "partial" THEN 1 ELSE 0)
    BY DEF AuditAgreesWithRow
<1> DEFINE named == DOMAIN audit[r]
           final == {e \in named : e.what \in Ending}
           claims == {e \in named : e.what = "claimed"}
<1>1. \A e \in named : /\ e.what \in Ending => e.what = runs[r].state
                       /\ e.what = "claimed" => e.attempt \in 1..runs[r].attempt
                       /\ e.what \in Ending \cup {"claimed"} => audit[r][e] = 1
    BY DEF LogsAgree
<1>2. \A e \in final : e.what = runs[r].state
    BY <1>1
<1>3. \A e \in final \cup claims : audit[r][e] = 1
    BY <1>1
<1>4. \A e \in claims : e.attempt \in 1..runs[r].attempt
    BY <1>1
<1>5. Copies(PartialAudit, audit[r]) <= Copies(PartialEvent, events[r]) + IsPartial(r)
    <2>1. Cardinality(Partials(r)) \in Nat
        BY ControlAssumption, FS_Subset, FS_CardinalityType DEF Partials
    <2>2. IsABag(events[r]) /\ IsABag(audit[r])
        BY DEF Shape, TypeOK
    <2>3. Copies(PartialAudit, audit[r]) \in Nat /\ Copies(PartialEvent, events[r]) \in Nat
        BY <2>2 DEF Copies, BagIn, BagToSet, IsABag
    <2>4. IsPartial(r) \in 0..1
        BY DEF IsPartial
    <2> QED BY <2>1, <2>3, <2>4 DEF PartialsCounted, PartialHasCause
<1> HIDE DEF final, claims
<1>6. final # {} => {e.what : e \in final} = {runs[r].state}
    BY <1>2
<1> QED BY <1>3, <1>4, <1>5, <1>6 DEF final, claims, BagToSet, IsPartial

(* The audit log names at most one of succeeded, failed and cancelled for a run,
   once, and the row's; each claim once, by a number the row has counted; and
   `partial` as often at most as there were partial events, and once more only
   for a row that is partial. *)
THEOREM AuditNeverLies == Spec => []AuditAgreesWithRow
<1>1. ControlInv => AuditAgreesWithRow
    BY AgreementOfLogs DEF ControlInv
<1> QED BY <1>1, ControlInvariant, PTL

----------------------------------------------------------------------------
(* Refinement: what the handlers do to the table, statements of RunLease may do. *)

LeaseStep == [Lease!Next]_(Lease!vars)

(* An instant a handler read is one that a lagging statement may carry. *)
LEMMA NowIsReadable ==
    ASSUME TypeOK, NEW q \in Request, NEW at \in Now(q)
    PROVE  at \in Lease!Readable
<1>1. clock \in 0..MaxClock /\ q.since \in 0..MaxClock /\ MaxClock \in Nat
    BY ControlAssumption DEF TypeOK, Request
<1> QED BY <1>1 DEF Now, Lease!Readable

LEMMA RenewImplements ==
    ASSUME ControlInv, NEW s \in Slot, RenewStatement(s) PROVE LeaseStep
<1> DEFINE q == reqs[s]
<1>1. TypeOK /\ q \in Request /\ q.op = "renew" /\ Granted(q)
    BY Running DEF RenewStatement, At, Op, ControlInv, Shape, Kept, Holds
<1>2. UNCHANGED <<clock, minted, grants>>
    BY DEF RenewStatement, world
<1>3. PICK g \in grants : Names(q, g)
    BY <1>1 DEF Granted, Op
<1>4. ASSUME NEW at \in Now(q), NEW len \in LeaseSeconds,
             LeaseValid(runs[q.run], q.worker, q.token, at),
             runs' = [runs EXCEPT ![q.run] = Renewed(@, at + len)]
      PROVE  LeaseStep
    <2>1. at \in Lease!Readable
        BY <1>1, NowIsReadable
    <2>2. Lease!LeaseValid(runs[g.run], g.worker, g.token, at)
        BY <1>3, <1>4 DEF Names, LeaseValid, Lease!LeaseValid
    <2>3. runs' = [runs EXCEPT ![g.run] = Lease!Renewed(@, at + len)]
        BY <1>3, <1>4 DEF Names, Renewed, Lease!Renewed
    <2>4. Lease!RenewLease(g)
        BY <1>2, <2>1, <2>2, <2>3 DEF Lease!RenewLease
    <2> QED BY <2>4 DEF LeaseStep, Lease!Next
<1>5. CASE UNCHANGED runs
    BY <1>2, <1>5 DEF LeaseStep, Lease!vars
<1> QED BY <1>4, <1>5 DEF RenewStatement

LEMMA FinishImplements ==
    ASSUME ControlInv, NEW s \in Slot, FinishStatement(s) PROVE LeaseStep
<1> DEFINE q == reqs[s]
<1>1. /\ TypeOK /\ q \in Request /\ q.op = "finish" /\ Granted(q)
      /\ q.what \in Lease!Outcome
    BY Running DEF FinishStatement, At, Op, ControlInv, Shape, Kept, Holds, Addressed, Outcome,
       Lease!Outcome
<1>2. UNCHANGED <<clock, minted, grants>>
    BY DEF FinishStatement, world
<1>3. PICK g \in grants : Names(q, g)
    BY <1>1 DEF Granted, Op
<1>4. ASSUME NEW at \in Now(q), LeaseValid(runs[q.run], q.worker, q.token, at),
             runs' = [runs EXCEPT ![q.run] = Finished(@, q.what)]
      PROVE  LeaseStep
    <2>1. at \in Lease!Readable
        BY <1>1, NowIsReadable
    <2>2. Lease!LeaseValid(runs[g.run], g.worker, g.token, at)
        BY <1>3, <1>4 DEF Names, LeaseValid, Lease!LeaseValid
    <2>3. runs' = [runs EXCEPT ![g.run] = Lease!Finished(@, q.what)]
        BY <1>3, <1>4 DEF Names, Finished, Lease!Finished, NoToken, NoExpiry, Lease!NoToken,
           Lease!NoExpiry
    <2>4. Lease!FinishLeasedRun(g, q.what)
        BY <1>2, <2>1, <2>2, <2>3 DEF Lease!FinishLeasedRun
    <2> QED BY <1>1, <2>4 DEF LeaseStep, Lease!Next
<1>5. CASE UNCHANGED runs
    BY <1>2, <1>5 DEF LeaseStep, Lease!vars
<1> QED BY <1>4, <1>5 DEF FinishStatement

LEMMA CancelImplements ==
    ASSUME ControlInv, NEW s \in Slot, CancelStatement(s) PROVE LeaseStep
<1> DEFINE r == reqs[s].run
<1>1. UNCHANGED <<clock, minted, grants>> /\ r \in Run
    BY DEF CancelStatement, At, world, ControlInv, Kept, Holds, Addressed
<1>2. CASE Cancellable(runs[r])
    <2>1. Lease!Cancellable(runs[r])
        BY <1>2 DEF Cancellable, Lease!Cancellable
    <2>2. runs' = [runs EXCEPT ![r] = Lease!Cancelled(@)]
        BY <1>2 DEF CancelStatement, Cancelled, Lease!Cancelled, NoToken, NoExpiry, Lease!NoToken,
           Lease!NoExpiry
    <2>3. Lease!CancelRun(r)
        BY <1>1, <2>1, <2>2 DEF Lease!CancelRun
    <2> QED BY <1>1, <2>3 DEF LeaseStep, Lease!Next
<1>3. CASE ~Cancellable(runs[r])
    BY <1>1, <1>3 DEF CancelStatement, LeaseStep, Lease!vars
<1> QED BY <1>2, <1>3

LEMMA ClaimImplements ==
    ASSUME ControlInv, NEW s \in Slot, ClaimStatement(s) PROVE LeaseStep
<1> DEFINE q == reqs[s]
           rev == IF q.run # NoRun THEN AnyRevision ELSE WorkerRevision[q.worker]
           el(at) == Eligible(runs, WorkerProvider[q.worker], rev, at)
           pick(at) == IF q.run # NoRun THEN el(at) \cap {q.run} ELSE Oldest(el(at))
<1>1. /\ TypeOK /\ q \in Request /\ q.op = "claim" /\ q.pc = "statement" /\ q.worker \in Worker
      /\ \/ q.run = NoRun /\ WorkerProvider[q.worker] = "nebuchadnezzar_worker"
         \/ q.run \in Run /\ WorkerProvider[q.worker] = "github_actions"
    BY Running DEF ClaimStatement, At, Op, ControlInv, Shape, Kept, Holds, Addressed
<1>2. PICK at \in Now(q), len \in LeaseSeconds :
          \/ pick(at) = {} /\ UNCHANGED leases
          \/ \E r \in pick(at) :
                LET row == Claimed(runs[r], q.worker, minted + 1, at + len) IN
                /\ runs' = [runs EXCEPT ![r] = row]
                /\ minted' = minted + 1
                /\ grants' = grants \cup {[run |-> r, worker |-> q.worker,
                                           token |-> row.token, attempt |-> row.attempt]}
    BY DEF ClaimStatement
<1>3. UNCHANGED clock
    BY DEF ClaimStatement, world
<1>4. at \in Lease!Readable
    BY <1>1, NowIsReadable
<1>5. CASE UNCHANGED leases
    BY <1>3, <1>5 DEF leases, LeaseStep, Lease!vars
<1>6. ASSUME NEW r \in pick(at),
             LET row == Claimed(runs[r], q.worker, minted + 1, at + len) IN
             /\ runs' = [runs EXCEPT ![r] = row]
             /\ minted' = minted + 1
             /\ grants' = grants \cup {[run |-> r, worker |-> q.worker,
                                        token |-> row.token, attempt |-> row.attempt]}
      PROVE  LeaseStep
    <2>1. \A p, v : Lease!Eligible(runs, p, v, at) = Eligible(runs, p, v, at)
        BY DEF Eligible, Lease!Eligible, Claimable, Lease!Claimable, HostIdle, Lease!HostIdle,
           Unexpired, Lease!Unexpired, NoExpiry, Lease!NoExpiry
    <2>2. \A S : Lease!Oldest(S) = Oldest(S)
        BY DEF Oldest, Lease!Oldest
    <2>3. Lease!Take(r, q.worker, at, len)
        <3>1. /\ Claimed(runs[r], q.worker, minted + 1, at + len)
                   = Lease!Claimed(runs[r], q.worker, minted + 1, at + len)
              /\ Claimed(runs[r], q.worker, minted + 1, at + len).token = minted + 1
            BY DEF Claimed, Lease!Claimed
        <3> QED BY <1>3, <1>6, <3>1 DEF Lease!Take
    <2>4. CASE q.run = NoRun
        <3>1. Lease!ClaimNextRun(q.worker)
            <4>1. r \in Lease!Oldest(Lease!Eligible(runs, WorkerProvider[q.worker],
                                                    WorkerRevision[q.worker], at))
                BY <2>1, <2>2, <2>4
            <4>2. WorkerProvider[q.worker] = "nebuchadnezzar_worker"
                BY <1>1, <2>4, ControlAssumption
            <4> QED BY <1>4, <2>3, <4>1, <4>2 DEF Lease!ClaimNextRun
        <3> QED BY <1>1, <3>1 DEF LeaseStep, Lease!Next
    <2>5. CASE q.run # NoRun
        <3>1. r = q.run /\ r \in Run /\ WorkerProvider[q.worker] = "github_actions"
            BY <1>1, <2>5
        <3>2. r \in Lease!Eligible(runs, WorkerProvider[q.worker], AnyRevision, at)
            BY <2>1, <2>5
        <3>3. Lease!ClaimRunById(q.worker, r)
            BY <1>4, <2>3, <3>1, <3>2 DEF Lease!ClaimRunById
        <3> QED BY <1>1, <3>1, <3>3 DEF LeaseStep, Lease!Next
    <2> QED BY <2>4, <2>5
<1> QED BY <1>2, <1>5, <1>6

LEMMA StepImplements ==
    ASSUME ControlInv, [Next]_vars PROVE LeaseStep
<1>1. ASSUME NEW r \in Run, CreateRun(r) PROVE LeaseStep
    <2>1. Lease!RequestRun(r)
        BY <1>1 DEF CreateRun, Lease!RequestRun, world, QueuedRow, Lease!QueuedRow, AbsentRow,
           Lease!AbsentRow, NoToken, NoExpiry, Lease!NoToken, Lease!NoExpiry
    <2> QED BY <2>1 DEF LeaseStep, Lease!Next
<1>2. CASE Tick
    <2>1. Lease!Tick
        BY <1>2 DEF Tick, Lease!Tick, leases
    <2> QED BY <2>1 DEF LeaseStep, Lease!Next
<1>3. ASSUME NEW s \in Slot,
             \/ Arrive(s) \/ Drop(s) \/ Reply(s) \/ ReadProperty(s) \/ CheckLease(s)
             \/ ReadRun(s) \/ FindArtifact(s) \/ HeadObject(s) \/ PutObject(s)
             \/ InsertArtifact(s) \/ AppendEvent(s) \/ AppendAudit(s) \/ AppendStage(s)
      PROVE  LeaseStep
    <2>1. UNCHANGED <<leases, clock>>
        BY <1>3 DEF Arrive, Drop, Reply, ReadProperty, CheckLease, ReadRun, FindArtifact,
           HeadObject, PutObject, InsertArtifact, AppendEvent, AppendAudit, AppendStage, world
    <2> QED BY <2>1 DEF leases, LeaseStep, Lease!vars
<1>4. CASE UNCHANGED vars
    BY <1>4 DEF vars, leases, world, LeaseStep, Lease!vars
<1> QED BY <1>1, <1>2, <1>3, <1>4, ClaimImplements, RenewImplements, FinishImplements,
        CancelImplements DEF Next

(* However handlers overlap, and wherever they are dropped, the table changes
   only as the statements of RunLease change it: everything proved of RunLease
   holds of the table that the control plane keeps. *)
THEOREM HandlersImplementLease == Spec => ImplementsLease
<1>1. Init => Lease!Init
    BY DEF Init, Lease!Init, AbsentRow, Lease!AbsentRow, NoToken, NoExpiry, Lease!NoToken,
       Lease!NoExpiry
<1>2. ControlInv /\ [Next]_vars => [Lease!Next]_(Lease!vars)
    BY StepImplements DEF LeaseStep
<1> QED BY <1>1, <1>2, ControlInvariant, PTL DEF Spec, ImplementsLease, Lease!Spec

============================================================================
