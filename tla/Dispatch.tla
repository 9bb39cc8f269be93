----------------------------- MODULE Dispatch -----------------------------
(***************************************************************************)
(* POST /api/v1/runs: an operator's request for a run, made idempotent by  *)
(* its key, and the hand-over of a workflow run to GitHub.                 *)
(*                                                                         *)
(* Several invocations may carry the same key: an operator retries, two    *)
(* tabs race.  A stored run is known by its key, which is UNIQUE; what the *)
(* request asks for (case, kind, revision, provider, policy) is its        *)
(* intent.  GitHub is external: a dispatch call starts a workflow or not,  *)
(* and says so or fails, even when it did start one.                       *)
(***************************************************************************)
EXTENDS Integers, FiniteSets

CONSTANTS
    Key,            \* idempotency keys
    Intent,         \* what a run may be asked to do
    ByWorkflow,     \* the intents whose provider is github_actions
    Slot,           \* invocations that may be in flight together
    MaxRequests,    \* bound on the requests ever made
    NoIntent, NoKey \* null values

ASSUME DispatchAssumption ==
    /\ ByWorkflow \subseteq Intent
    /\ NoIntent \notin Intent
    /\ NoKey \notin Key
    /\ MaxRequests \in Nat

VARIABLES
    stored,         \* runs: the intent stored under each key
    requested,      \* audit_events: how often run.requested was appended
    dispatches,     \* workflow_dispatches: a row for each key, or none
    workflows,      \* how many workflows GitHub started for each key
    reqs,           \* the invocation in each slot
    issued,         \* how many requests were made
    dropped,        \* keys of which an invocation was dropped
    acks            \* the successful responses sent

vars == <<stored, requested, dispatches, workflows, reqs, issued, dropped, acks>>

Pc == {"idle", "find", "insert", "refind", "audit", "read", "insertDispatch",
       "retryDispatch", "call", "dispatched", "failed", "reply"}

Request == [pc : Pc, key : Key \cup {NoKey}, intent : Intent \cup {NoIntent},
            created : BOOLEAN]

Idle == [pc |-> "idle", key |-> NoKey, intent |-> NoIntent, created |-> FALSE]

NoRow == [state |-> "none", attempts |-> 0]

Init ==
    /\ stored = [k \in Key |-> NoIntent]
    /\ requested = [k \in Key |-> 0]
    /\ dispatches = [k \in Key |-> NoRow]
    /\ workflows = [k \in Key |-> 0]
    /\ reqs = [s \in Slot |-> Idle]
    /\ issued = 0
    /\ dropped = {}
    /\ acks = {}

outside == <<issued, dropped, acks>>

Goto(s, pc) == reqs' = [reqs EXCEPT ![s].pc = pc]

Arrive(s) ==
    /\ reqs[s] = Idle
    /\ issued < MaxRequests
    /\ issued' = issued + 1
    /\ \E k \in Key, i \in Intent :
           reqs' = [reqs EXCEPT ![s] = [Idle EXCEPT !.pc = "find", !.key = k, !.intent = i]]
    /\ UNCHANGED <<stored, requested, dispatches, workflows, dropped, acks>>

(* An invocation is dropped between two awaits, or its response is lost. *)
Drop(s) ==
    /\ reqs[s] # Idle
    /\ dropped' = dropped \cup {reqs[s].key}
    /\ reqs' = [reqs EXCEPT ![s] = Idle]
    /\ UNCHANGED <<stored, requested, dispatches, workflows, issued, acks>>

----------------------------------------------------------------------------
(* requestRun and the handler around it. *)

(* findRunByIdempotencyKey, for requestRun. *)
Find(s) ==
    LET q == reqs[s] IN
    /\ q.pc = "find"
    /\ Goto(s, CASE stored[q.key] = NoIntent -> "insert"
                 [] stored[q.key] = q.intent -> "audit"
                 [] OTHER -> "refind")
    /\ UNCHANGED <<stored, requested, dispatches, workflows, outside>>

(* A mutated createRun: no UNIQUE index on the key. *)
InsertOver(s) ==
    LET q == reqs[s] IN
    /\ q.pc = "insert"
    /\ stored' = [stored EXCEPT ![q.key] = q.intent]
    /\ reqs' = [reqs EXCEPT ![s].pc = "audit", ![s].created = TRUE]
    /\ UNCHANGED <<requested, dispatches, workflows, outside>>

(* createRun: the UNIQUE key lets one insert through, the others throw. *)
Insert(s) ==
    LET q == reqs[s] IN
    /\ q.pc = "insert"
    /\ IF stored[q.key] = NoIntent
       THEN /\ stored' = [stored EXCEPT ![q.key] = q.intent]
            /\ reqs' = [reqs EXCEPT ![s].pc = "audit", ![s].created = TRUE]
       ELSE Goto(s, "refind") /\ UNCHANGED stored
    /\ UNCHANGED <<requested, dispatches, workflows, outside>>

(* The handler's catch: replay the run that is there, or 409. *)
Refind(s) ==
    LET q == reqs[s] IN
    /\ q.pc = "refind"
    /\ IF stored[q.key] = q.intent
       THEN Goto(s, "audit")
       ELSE reqs' = [reqs EXCEPT ![s] = Idle]
    /\ UNCHANGED <<stored, requested, dispatches, workflows, outside>>

(* run.requested or run.request.replayed; then queueWithProvider, which has
   nothing to do for the polling workers. *)
AppendAudit(s) ==
    LET q == reqs[s] IN
    /\ q.pc = "audit"
    /\ requested' = [requested EXCEPT ![q.key] = @ + IF q.created THEN 1 ELSE 0]
    /\ Goto(s, IF q.intent \in ByWorkflow THEN "read" ELSE "reply")
    /\ UNCHANGED <<stored, dispatches, workflows, outside>>

----------------------------------------------------------------------------
(* queueWithProvider. *)

ReadDispatch(s) ==
    /\ reqs[s].pc = "read"
    /\ Goto(s, CASE dispatches[reqs[s].key].state = "none" -> "insertDispatch"
                 [] dispatches[reqs[s].key].state = "failed" -> "retryDispatch"
                 [] OTHER -> "reply")
    /\ UNCHANGED <<stored, requested, dispatches, workflows, outside>>

(* Both ways to take the row over: only the one that changes it may call. *)
TakeOver(s, from) ==
    LET k == reqs[s].key IN
    /\ IF dispatches[k].state = from
       THEN /\ dispatches' = [dispatches EXCEPT ![k] =
                   [state |-> "dispatching", attempts |-> @.attempts + 1]]
            /\ Goto(s, "call")
       ELSE Goto(s, "reply") /\ UNCHANGED dispatches
    /\ UNCHANGED <<stored, requested, workflows, outside>>

InsertDispatch(s) == reqs[s].pc = "insertDispatch" /\ TakeOver(s, "none")

(* A mutated retry: the UPDATE does not repeat the test on the state. *)
RetryDispatchBlindly(s) ==
    /\ reqs[s].pc = "retryDispatch"
    /\ TakeOver(s, dispatches[reqs[s].key].state)

RetryDispatch(s) == reqs[s].pc = "retryDispatch" /\ TakeOver(s, "failed")

(* A mutated call: a failure is tried again in the same attempt. *)
CallUntilAccepted(s) ==
    LET k == reqs[s].key IN
    /\ reqs[s].pc = "call"
    /\ \E started \in BOOLEAN, answer \in {"dispatched", "call"} :
           /\ answer = "dispatched" => started
           /\ workflows' = [workflows EXCEPT ![k] = @ + IF started THEN 1 ELSE 0]
           /\ Goto(s, answer)
    /\ UNCHANGED <<stored, requested, dispatches, outside>>

(* dispatchAssessmentRun: GitHub may start the workflow and still not say so. *)
CallGitHub(s) ==
    LET k == reqs[s].key IN
    /\ reqs[s].pc = "call"
    /\ \E started \in BOOLEAN, answer \in {"dispatched", "failed"} :
           /\ answer = "dispatched" => started
           /\ workflows' = [workflows EXCEPT ![k] = @ + IF started THEN 1 ELSE 0]
           /\ Goto(s, answer)
    /\ UNCHANGED <<stored, requested, dispatches, outside>>

(* A mutated record: the outcome is never written when the call failed. *)
RecordOnlySuccess(s) ==
    LET q == reqs[s] IN
    /\ q.pc \in {"dispatched", "failed"}
    /\ dispatches' = IF q.pc = "dispatched"
                     THEN [dispatches EXCEPT ![q.key].state = q.pc]
                     ELSE dispatches
    /\ reqs' = [reqs EXCEPT ![s] = IF q.pc = "failed" THEN Idle ELSE [@ EXCEPT !.pc = "reply"]]
    /\ UNCHANGED <<stored, requested, workflows, outside>>

(* The UPDATE that records the answer, whatever the row holds; a failed call is
   an error response. *)
RecordAnswer(s) ==
    LET q == reqs[s] IN
    /\ q.pc \in {"dispatched", "failed"}
    /\ dispatches' = [dispatches EXCEPT ![q.key].state = q.pc]
    /\ reqs' = [reqs EXCEPT ![s] = IF q.pc = "failed" THEN Idle ELSE [@ EXCEPT !.pc = "reply"]]
    /\ UNCHANGED <<stored, requested, workflows, outside>>

Reply(s) ==
    LET q == reqs[s] IN
    /\ q.pc = "reply"
    /\ acks' = acks \cup {[key |-> q.key, intent |-> q.intent, created |-> q.created]}
    /\ reqs' = [reqs EXCEPT ![s] = Idle]
    /\ UNCHANGED <<stored, requested, dispatches, workflows, issued, dropped>>

Step(s) ==
    \/ Find(s) \/ Insert(s) \/ Refind(s) \/ AppendAudit(s)
    \/ ReadDispatch(s) \/ InsertDispatch(s) \/ RetryDispatch(s)
    \/ CallGitHub(s) \/ RecordAnswer(s) \/ Reply(s)

Next == \E s \in Slot : Arrive(s) \/ Drop(s) \/ Step(s)

(* An invocation that is not dropped goes on: every await is answered. *)
Spec == Init /\ [][Next]_vars /\ \A s \in Slot : WF_vars(Step(s))

----------------------------------------------------------------------------
(* Properties. *)

TypeOK ==
    /\ stored \in [Key -> Intent \cup {NoIntent}]
    /\ requested \in [Key -> 0..MaxRequests]
    /\ dispatches \in [Key -> [state : {"none", "dispatching", "dispatched", "failed"},
                               attempts : 0..MaxRequests]]
    /\ workflows \in [Key -> 0..MaxRequests]
    /\ reqs \in [Slot -> Request]
    /\ issued \in 0..MaxRequests
    /\ dropped \subseteq Key
    /\ acks \subseteq [key : Key, intent : Intent, created : BOOLEAN]

(* A key means one run: whatever requests raced on it, every success names the
   stored intent, one request at most is told it created the run, and the audit
   log has the run requested at most once, at least once when that was told. *)
KeyMeansOneRun ==
    \A k \in Key :
        /\ \A a \in acks : a.key = k => a.intent = stored[k]
        /\ requested[k] <= 1
        /\ (\E a \in acks : a.key = k /\ a.created) => requested[k] = 1

InFlight(k) == {s \in Slot : reqs[s].key = k /\ reqs[s].pc \in {"call", "dispatched", "failed"}}

(* One call to GitHub at a time for a run: a handler is between taking the row
   over and recording the answer only while the row says "dispatching", and
   never two of them.  A row that says so with no handler lost it to a drop. *)
SingleFlight ==
    \A k \in Key :
        /\ Cardinality(InFlight(k)) <= 1
        /\ InFlight(k) # {} => dispatches[k].state = "dispatching"
        /\ dispatches[k].state = "dispatching" => InFlight(k) # {} \/ k \in dropped

(* Workflows are accounted for: a run starts at most one for each attempt, a
   dispatched run has one, and a run no request named by workflow has none. *)
WorkflowsAccounted ==
    \A k \in Key :
        /\ workflows[k] <= dispatches[k].attempts
        /\ dispatches[k].state = "dispatched" => workflows[k] >= 1
        /\ workflows[k] > 0 => stored[k] \in ByWorkflow

(* A dispatch that no drop interrupted gets an answer on record, so a replay of
   the request can retry a failed one. *)
DispatchSettles ==
    \A k \in Key :
        dispatches[k].state = "dispatching"
            ~> (dispatches[k].state # "dispatching" \/ k \in dropped)
============================================================================
