--------------------------- MODULE DispatchProofs ---------------------------
(***************************************************************************)
(* Proofs about Dispatch, for any keys, intents, slots and number of       *)
(* requests.  The inductive invariant is DispatchInv: what an invocation   *)
(* carries agrees with the table from the insert on, the invocation that   *)
(* inserted a run is the only one to say so, and one that is between       *)
(* taking the dispatch row over and recording the answer owns the row.     *)
(***************************************************************************)
EXTENDS Dispatch, FiniteSetTheorems, TLAPS

Early == {"find", "insert", "refind"}
Queueing == {"read", "insertDispatch", "retryDispatch"}
Flying == {"call", "dispatched", "failed"}

(* Invocations that may yet take the dispatch row of k over. *)
Before(k) == {s \in Slot : reqs[s].key = k /\ reqs[s].pc \in Early \cup {"audit"} \cup Queueing}

Shape ==
    /\ stored \in [Key -> Intent \cup {NoIntent}]
    /\ requested \in [Key -> Nat]
    /\ dispatches \in [Key -> [state : {"none", "dispatching", "dispatched", "failed"},
                               attempts : Nat]]
    /\ workflows \in [Key -> Nat]
    /\ reqs \in [Slot -> Request]
    /\ issued \in 0..MaxRequests
    /\ dropped \subseteq Key
    /\ acks \subseteq [key : Key, intent : Intent, created : BOOLEAN]

(* A slot is free or holds an invocation with its key and intent, some request. *)
Occupied ==
    \A s \in Slot :
        IF reqs[s].pc = "idle"
        THEN reqs[s] = Idle
        ELSE reqs[s].key \in Key /\ reqs[s].intent \in Intent /\ issued >= 1

(* From the insert or its replay on, the table holds what the invocation asked for. *)
RequestsAgree ==
    \A s \in Slot :
        /\ reqs[s].pc \notin Early \cup {"idle"} => stored[reqs[s].key] = reqs[s].intent
        /\ reqs[s].pc \in Queueing \cup Flying => reqs[s].intent \in ByWorkflow

AcksAgree == \A a \in acks : a.intent = stored[a.key]

(* The creation of a run is logged once, for a run that is stored. *)
LoggedOnce ==
    \A k \in Key :
        /\ requested[k] <= 1
        /\ requested[k] = 1 => issued >= 1
        /\ stored[k] = NoIntent => requested[k] = 0

(* The invocation that created a run logs it and then says so; no other does. *)
ClaimsAreLogged ==
    \A s \in Slot : reqs[s].created =>
        /\ reqs[s].pc \notin Early \cup {"idle"}
        /\ requested[reqs[s].key] = IF reqs[s].pc = "audit" THEN 0 ELSE 1

OneClaim ==
    \A s, t \in Slot :
        /\ reqs[s].created /\ reqs[s].pc = "audit"
        /\ reqs[t].created /\ reqs[t].pc = "audit"
        /\ reqs[s].key = reqs[t].key
        => s = t

ToldIsLogged == \A a \in acks : a.created => requested[a.key] = 1

(* An invocation in flight owns the row, alone; a row in progress has an owner or lost it. *)
FlightOwns == \A s \in Slot : reqs[s].pc \in Flying => dispatches[reqs[s].key].state = "dispatching"

OneFlight ==
    \A s, t \in Slot :
        reqs[s].pc \in Flying /\ reqs[t].pc \in Flying /\ reqs[s].key = reqs[t].key => s = t

RowHasOwner ==
    \A k \in Key : dispatches[k].state = "dispatching" =>
        (\E s \in Slot : reqs[s].key = k /\ reqs[s].pc \in Flying) \/ k \in dropped

(* An attempt whose call is still to come has started no workflow; one that was
   answered has. *)
CallsPending ==
    \A s \in Slot :
        /\ reqs[s].pc = "call" => workflows[reqs[s].key] < dispatches[reqs[s].key].attempts
        /\ reqs[s].pc = "dispatched" => workflows[reqs[s].key] >= 1

(* Each request takes the row over once at most. *)
AttemptsCounted ==
    \A k \in Key :
        /\ IsFiniteSet(Before(k))
        /\ dispatches[k].attempts + Cardinality(Before(k)) <= issued

DispatchInv ==
    /\ Shape /\ Occupied
    /\ RequestsAgree /\ AcksAgree
    /\ LoggedOnce /\ ClaimsAreLogged /\ OneClaim /\ ToldIsLogged
    /\ FlightOwns /\ OneFlight /\ RowHasOwner
    /\ CallsPending /\ WorkflowsAccounted
    /\ AttemptsCounted

----------------------------------------------------------------------------
(* The ways a step can go: the two branches of an IF are ways of their own. *)

Rests == <<stored, requested, workflows, issued, dropped, acks>>

(* Only the invocation moves on. *)
Moves(s, pc) ==
    /\ reqs' = [reqs EXCEPT ![s] = [reqs[s] EXCEPT !.pc = pc]]
    /\ dispatches' = dispatches /\ UNCHANGED Rests

(* The insert that went through. *)
Creates(s) ==
    /\ reqs[s].pc = "insert"
    /\ stored[reqs[s].key] = NoIntent
    /\ stored' = [stored EXCEPT ![reqs[s].key] = reqs[s].intent]
    /\ reqs' = [reqs EXCEPT ![s] = [reqs[s] EXCEPT !.pc = "audit", !.created = TRUE]]
    /\ UNCHANGED <<requested, dispatches, workflows, outside>>

(* The dispatch row is taken over, from a state in which nobody works on it. *)
Takes(s) ==
    /\ reqs[s].pc \in Queueing
    /\ dispatches[reqs[s].key].state \in {"none", "failed"}
    /\ dispatches' = [dispatches EXCEPT ![reqs[s].key] =
           [state |-> "dispatching", attempts |-> dispatches[reqs[s].key].attempts + 1]]
    /\ reqs' = [reqs EXCEPT ![s] = [reqs[s] EXCEPT !.pc = "call"]]
    /\ UNCHANGED Rests

(* 409: the key is another run's. *)
Conflicts(s) ==
    /\ reqs[s].pc = "refind"
    /\ reqs' = [reqs EXCEPT ![s] = Idle]
    /\ dispatches' = dispatches /\ UNCHANGED Rests

(* What is found moves an invocation on. *)
FindsOut(s) ==
    \/ reqs[s].pc = "find" /\ Moves(s, "insert")
    \/ reqs[s].pc \in {"find", "insert"} /\ Moves(s, "refind")
    \/ reqs[s].pc \in {"find", "refind"} /\ stored[reqs[s].key] = reqs[s].intent /\ Moves(s, "audit")
    \/ reqs[s].pc = "read" /\ (Moves(s, "insertDispatch") \/ Moves(s, "retryDispatch"))
    \/ reqs[s].pc \in Queueing /\ Moves(s, "reply")

Way(s) ==
    \/ Arrive(s) \/ Drop(s) \/ FindsOut(s) \/ Creates(s) \/ Conflicts(s) \/ AppendAudit(s)
    \/ Takes(s) \/ CallGitHub(s) \/ RecordAnswer(s) \/ Reply(s)

(* Every step of the handler goes one of these ways. *)
LEMMA StepIsWay ==
    ASSUME Shape, Occupied, NEW s \in Slot, Arrive(s) \/ Drop(s) \/ Step(s)
    PROVE  Way(s)
<1> USE DEF Shape, Goto, outside, Moves, FindsOut, Rests
<1>1. CASE Arrive(s) \/ Drop(s) \/ AppendAudit(s) \/ CallGitHub(s) \/ RecordAnswer(s) \/ Reply(s)
    BY <1>1 DEF Way
<1>2. CASE Find(s)
    <2>1. CASE stored[reqs[s].key] = NoIntent
        BY <1>2, <2>1, DispatchAssumption DEF Find, Way, Occupied
    <2>2. CASE stored[reqs[s].key] # NoIntent /\ stored[reqs[s].key] = reqs[s].intent
        BY <1>2, <2>2 DEF Find, Way
    <2>3. CASE stored[reqs[s].key] # NoIntent /\ stored[reqs[s].key] # reqs[s].intent
        BY <1>2, <2>3 DEF Find, Way
    <2> QED BY <2>1, <2>2, <2>3
<1>3. CASE Insert(s)
    BY <1>3 DEF Insert, Creates, Way
<1>4. CASE Refind(s)
    BY <1>4 DEF Refind, Conflicts, Way
<1>5. CASE ReadDispatch(s)
    BY <1>5 DEF ReadDispatch, Queueing, Way
<1>6. ASSUME NEW from \in {"none", "failed"}, reqs[s].pc \in Queueing, TakeOver(s, from) PROVE Way(s)
    <2>1. CASE dispatches[reqs[s].key].state = from
        <3>1. Takes(s)
            BY <1>6, <2>1 DEF TakeOver, Takes
        <3> QED BY <3>1 DEF Way
    <2>2. CASE dispatches[reqs[s].key].state # from
        BY <1>6, <2>2 DEF TakeOver, Way
    <2> QED BY <2>1, <2>2
<1>7. CASE InsertDispatch(s) \/ RetryDispatch(s)
    BY <1>6, <1>7 DEF InsertDispatch, RetryDispatch, Queueing
<1> QED BY <1>1, <1>2, <1>3, <1>4, <1>5, <1>7 DEF Step

(* An invocation that moves on is what it was, elsewhere; nothing else changes. *)
LEMMA MovesOn ==
    ASSUME Shape, NEW s \in Slot, NEW pc \in Pc, Moves(s, pc)
    PROVE  /\ reqs' \in [Slot -> Request]
           /\ reqs'[s].pc = pc /\ reqs'[s].key = reqs[s].key
           /\ reqs'[s].intent = reqs[s].intent /\ reqs'[s].created = reqs[s].created
           /\ \A t \in Slot : t # s => reqs'[t] = reqs[t]
<1>1. reqs[s] \in Request /\ [reqs[s] EXCEPT !.pc = pc] \in Request
    BY DEF Shape, Request
<1> QED BY <1>1 DEF Shape, Moves, Request

(* What an invocation finds moves it on and leaves the tables alone. *)
LEMMA FindingOut ==
    ASSUME Shape, NEW s \in Slot, FindsOut(s)
    PROVE  /\ dispatches' = dispatches /\ UNCHANGED Rests
           /\ reqs' \in [Slot -> Request]
           /\ \A t \in Slot : t # s => reqs'[t] = reqs[t]
           /\ reqs'[s].key = reqs[s].key
           /\ reqs'[s].intent = reqs[s].intent /\ reqs'[s].created = reqs[s].created
           /\ \/ reqs[s].pc \in Early /\ reqs'[s].pc \in Early
              \/ reqs[s].pc \in Early /\ reqs'[s].pc = "audit" /\ stored[reqs[s].key] = reqs[s].intent
              \/ reqs[s].pc \in Queueing /\ reqs'[s].pc \in Queueing \cup {"reply"}
<1>1. PICK pc \in Early \cup {"audit", "reply"} \cup Queueing : Moves(s, pc) /\
           \/ reqs[s].pc \in Early /\ pc \in Early
           \/ reqs[s].pc \in Early /\ pc = "audit" /\ stored[reqs[s].key] = reqs[s].intent
           \/ reqs[s].pc \in Queueing /\ pc \in Queueing \cup {"reply"}
    BY DEF FindsOut, Early, Queueing
<1>2. pc \in Pc
    BY DEF Pc, Early, Queueing
<1> QED BY <1>1, <1>2, MovesOn DEF Moves

(* A free slot. *)
LEMMA IdleIs ==
    /\ Idle \in Request
    /\ Idle.pc = "idle" /\ Idle.key = NoKey /\ Idle.intent = NoIntent /\ ~ Idle.created
BY DEF Idle, Request, Pc

(* What a request that arrives looks like. *)
LEMMA Arriving ==
    ASSUME Shape, NEW s \in Slot, Arrive(s)
    PROVE  /\ UNCHANGED <<stored, requested, dispatches, workflows, dropped, acks>>
           /\ issued' = issued + 1 /\ issued' \in 0..MaxRequests
           /\ reqs' \in [Slot -> Request]
           /\ \A t \in Slot : t # s => reqs'[t] = reqs[t]
           /\ reqs[s] = Idle
           /\ reqs'[s].pc = "find" /\ ~ reqs'[s].created
           /\ reqs'[s].key \in Key /\ reqs'[s].intent \in Intent
<1>1. PICK k \in Key, i \in Intent :
          reqs' = [reqs EXCEPT ![s] = [Idle EXCEPT !.pc = "find", !.key = k, !.intent = i]]
    BY DEF Arrive
<1> DEFINE r == [Idle EXCEPT !.pc = "find", !.key = k, !.intent = i]
<1>3. /\ r \in Request /\ r.pc = "find" /\ ~ r.created
      /\ r.key = k /\ r.intent = i
    BY IdleIs DEF Request, Pc
<1> HIDE DEF r
<1>4. reqs' = [reqs EXCEPT ![s] = r]
    BY <1>1 DEF r
<1>5. issued' = issued + 1 /\ issued' \in 0..MaxRequests
    BY DispatchAssumption DEF Arrive, Shape
<1> QED BY <1>3, <1>4, <1>5 DEF Arrive, Shape

(* What the insert that went through leaves. *)
LEMMA Creating ==
    ASSUME Shape, Occupied, NEW s \in Slot, Creates(s)
    PROVE  /\ UNCHANGED <<requested, dispatches, workflows, outside>>
           /\ reqs[s].pc = "insert" /\ reqs[s].key \in Key /\ reqs[s].intent \in Intent
           /\ stored[reqs[s].key] = NoIntent
           /\ stored' \in [Key -> Intent \cup {NoIntent}]
           /\ stored'[reqs[s].key] = reqs[s].intent
           /\ \A k \in Key : k # reqs[s].key => stored'[k] = stored[k]
           /\ reqs' \in [Slot -> Request]
           /\ \A t \in Slot : t # s => reqs'[t] = reqs[t]
           /\ reqs'[s].pc = "audit" /\ reqs'[s].created
           /\ reqs'[s].key = reqs[s].key /\ reqs'[s].intent = reqs[s].intent
<1>1. reqs[s] \in Request /\ [reqs[s] EXCEPT !.pc = "audit", !.created = TRUE] \in Request
    BY DEF Shape, Request, Pc
<1>2. reqs[s].key \in Key /\ reqs[s].intent \in Intent
    BY DEF Creates, Occupied
<1> QED BY <1>1, <1>2 DEF Creates, Shape, Request

(* What a call to GitHub leaves. *)
LEMMA Calling ==
    ASSUME Shape, Occupied, NEW s \in Slot, CallGitHub(s)
    PROVE  /\ UNCHANGED <<stored, requested, dispatches, outside>>
           /\ reqs[s].pc = "call" /\ reqs[s].key \in Key
           /\ workflows' \in [Key -> Nat]
           /\ \A k \in Key : k # reqs[s].key => workflows'[k] = workflows[k]
           /\ workflows'[reqs[s].key] \in {workflows[reqs[s].key], workflows[reqs[s].key] + 1}
           /\ reqs' \in [Slot -> Request]
           /\ \A t \in Slot : t # s => reqs'[t] = reqs[t]
           /\ reqs'[s].pc \in {"dispatched", "failed"}
           /\ reqs'[s].pc = "dispatched" => workflows'[reqs[s].key] = workflows[reqs[s].key] + 1
           /\ reqs'[s].key = reqs[s].key /\ reqs'[s].intent = reqs[s].intent
           /\ reqs'[s].created = reqs[s].created
<1>1. PICK started \in BOOLEAN, answer \in {"dispatched", "failed"} :
           /\ answer = "dispatched" => started
           /\ workflows' = [workflows EXCEPT ![reqs[s].key] = @ + IF started THEN 1 ELSE 0]
           /\ reqs' = [reqs EXCEPT ![s].pc = answer]
    BY DEF CallGitHub, Goto
<1>2. reqs[s] \in Request /\ [reqs[s] EXCEPT !.pc = answer] \in Request
    BY DEF Shape, Request, Pc
<1>3. reqs[s].key \in Key
    BY DEF CallGitHub, Occupied
<1>4. /\ reqs' \in [Slot -> Request]
      /\ \A t \in Slot : t # s => reqs'[t] = reqs[t]
      /\ reqs'[s].pc = answer
      /\ reqs'[s].key = reqs[s].key /\ reqs'[s].intent = reqs[s].intent
      /\ reqs'[s].created = reqs[s].created
    BY <1>1, <1>2 DEF Shape, Request
<1>5. /\ workflows' \in [Key -> Nat]
      /\ \A k \in Key : k # reqs[s].key => workflows'[k] = workflows[k]
      /\ workflows'[reqs[s].key] = workflows[reqs[s].key] + IF started THEN 1 ELSE 0
    BY <1>1, <1>3 DEF Shape
<1> QED BY <1>1, <1>3, <1>4, <1>5 DEF CallGitHub, Shape

(* Each way preserves the shapes of the tables and of the invocations. *)
LEMMA ShapeKept == ASSUME DispatchInv, NEW s \in Slot, Way(s) PROVE Shape'
<1> USE DispatchAssumption, IdleIs DEF DispatchInv, Shape, Occupied, LoggedOnce,
        Request, Pc, Early, Queueing, Flying, Goto, outside, NoRow
<1>1. CASE Arrive(s)
    BY <1>1, Arriving
<1>2. CASE Drop(s)
    BY <1>2 DEF Drop
<1>3. CASE FindsOut(s)
    BY <1>3, FindingOut DEF Rests
<1>4. CASE Creates(s)
    BY <1>4, Creating
<1>5. CASE Conflicts(s)
    BY <1>5 DEF Conflicts, Rests
<1>6. CASE AppendAudit(s)
    BY <1>6 DEF AppendAudit
<1>7. CASE Takes(s)
    BY <1>7 DEF Takes, Rests
<1>8. CASE CallGitHub(s)
    BY <1>8, Calling
<1>9. CASE RecordAnswer(s)
    <2>1. reqs[s].key \in Key /\ reqs[s] \in Request /\ reqs[s].pc \in {"dispatched", "failed"}
        BY <1>9 DEF RecordAnswer
    <2>2. dispatches' = [dispatches EXCEPT ![reqs[s].key].state = reqs[s].pc]
        BY <1>9 DEF RecordAnswer
    <2>3. dispatches' \in [Key -> [state : {"none", "dispatching", "dispatched", "failed"},
                                   attempts : Nat]]
        BY <2>1, <2>2
    <2>4. reqs' \in [Slot -> Request]
        BY <1>9, <2>1 DEF RecordAnswer
    <2> QED BY <1>9, <2>3, <2>4 DEF RecordAnswer
<1>10. CASE Reply(s)
    BY <1>10 DEF Reply
<1> QED BY <1>1, <1>2, <1>3, <1>4, <1>5, <1>6, <1>7, <1>8, <1>9, <1>10 DEF Way

(* Each way leaves a slot free, or holding an invocation of some request. *)
LEMMA OccupiedKept == ASSUME DispatchInv, NEW s \in Slot, Way(s) PROVE Occupied'
<1> USE DispatchAssumption, IdleIs DEF DispatchInv, Shape, Occupied,
        Request, Pc, Early, Queueing, Flying, Goto, outside, NoRow
<1>1. CASE Arrive(s)
    BY <1>1, Arriving
<1>2. CASE Drop(s)
    BY <1>2 DEF Drop
<1>3. CASE FindsOut(s)
    BY <1>3, FindingOut DEF Rests
<1>4. CASE Creates(s)
    BY <1>4, Creating
<1>5. CASE Conflicts(s)
    BY <1>5 DEF Conflicts, Rests
<1>6. CASE AppendAudit(s)
    BY <1>6 DEF AppendAudit
<1>7. CASE Takes(s)
    BY <1>7 DEF Takes, Rests
<1>8. CASE CallGitHub(s)
    BY <1>8, Calling
<1>9. CASE RecordAnswer(s)
    BY <1>9 DEF RecordAnswer
<1>10. CASE Reply(s)
    BY <1>10 DEF Reply
<1> QED BY <1>1, <1>2, <1>3, <1>4, <1>5, <1>6, <1>7, <1>8, <1>9, <1>10 DEF Way

(* An invocation past the insert agrees with a table whose rows never change. *)
LEMMA RequestsAgreeKept == ASSUME DispatchInv, NEW s \in Slot, Way(s) PROVE RequestsAgree'
<1> USE DispatchAssumption, IdleIs DEF DispatchInv, Shape, Occupied, RequestsAgree,
        Request, Pc, Early, Queueing, Flying, Goto, outside, NoRow
<1>1. CASE Arrive(s)
    BY <1>1, Arriving
<1>2. CASE Drop(s)
    BY <1>2 DEF Drop
<1>3. CASE FindsOut(s)
    BY <1>3, FindingOut DEF Rests
<1>4. CASE Creates(s)
    BY <1>4, Creating
<1>5. CASE Conflicts(s)
    BY <1>5 DEF Conflicts, Rests
<1>6. CASE AppendAudit(s)
    BY <1>6 DEF AppendAudit
<1>7. CASE Takes(s)
    BY <1>7 DEF Takes, Rests
<1>8. CASE CallGitHub(s)
    BY <1>8, Calling
<1>9. CASE RecordAnswer(s)
    BY <1>9 DEF RecordAnswer
<1>10. CASE Reply(s)
    BY <1>10 DEF Reply
<1> QED BY <1>1, <1>2, <1>3, <1>4, <1>5, <1>6, <1>7, <1>8, <1>9, <1>10 DEF Way

(* A success names the intent stored under its key. *)
LEMMA AcksAgreeKept == ASSUME DispatchInv, NEW s \in Slot, Way(s) PROVE AcksAgree'
<1> USE DispatchAssumption, IdleIs DEF DispatchInv, Shape, Occupied, RequestsAgree, AcksAgree,
        Request, Pc, Early, Queueing, Flying, Goto, outside, NoRow
<1>1. CASE Arrive(s)
    BY <1>1, Arriving
<1>2. CASE Drop(s)
    BY <1>2 DEF Drop
<1>3. CASE FindsOut(s)
    BY <1>3, FindingOut DEF Rests
<1>4. CASE Creates(s)
    BY <1>4, Creating
<1>5. CASE Conflicts(s)
    BY <1>5 DEF Conflicts, Rests
<1>6. CASE AppendAudit(s)
    BY <1>6 DEF AppendAudit
<1>7. CASE Takes(s)
    BY <1>7 DEF Takes, Rests
<1>8. CASE CallGitHub(s)
    BY <1>8, Calling
<1>9. CASE RecordAnswer(s)
    BY <1>9 DEF RecordAnswer
<1>10. CASE Reply(s)
    BY <1>10 DEF Reply
<1> QED BY <1>1, <1>2, <1>3, <1>4, <1>5, <1>6, <1>7, <1>8, <1>9, <1>10 DEF Way

(* Only the invocation that created the run logs it, before which it was not logged. *)
LEMMA LoggedOnceKept == ASSUME DispatchInv, NEW s \in Slot, Way(s) PROVE LoggedOnce'
<1> USE DispatchAssumption, IdleIs DEF DispatchInv, Shape, Occupied, RequestsAgree, LoggedOnce, ClaimsAreLogged,
        Request, Pc, Early, Queueing, Flying, Goto, outside, NoRow
<1>1. CASE Arrive(s)
    BY <1>1, Arriving
<1>2. CASE Drop(s)
    BY <1>2 DEF Drop
<1>3. CASE FindsOut(s)
    BY <1>3, FindingOut DEF Rests
<1>4. CASE Creates(s)
    BY <1>4, Creating
<1>5. CASE Conflicts(s)
    BY <1>5 DEF Conflicts, Rests
<1>6. CASE AppendAudit(s)
    BY <1>6 DEF AppendAudit
<1>7. CASE Takes(s)
    BY <1>7 DEF Takes, Rests
<1>8. CASE CallGitHub(s)
    BY <1>8, Calling
<1>9. CASE RecordAnswer(s)
    BY <1>9 DEF RecordAnswer
<1>10. CASE Reply(s)
    BY <1>10 DEF Reply
<1> QED BY <1>1, <1>2, <1>3, <1>4, <1>5, <1>6, <1>7, <1>8, <1>9, <1>10 DEF Way

(* Whoever claims the creation logs it on its way out of the audit. *)
LEMMA ClaimsAreLoggedKept == ASSUME DispatchInv, NEW s \in Slot, Way(s) PROVE ClaimsAreLogged'
<1> USE DispatchAssumption, IdleIs DEF DispatchInv, Shape, Occupied, LoggedOnce, ClaimsAreLogged, OneClaim,
        Request, Pc, Early, Queueing, Flying, Goto, outside, NoRow
<1>1. CASE Arrive(s)
    BY <1>1, Arriving
<1>2. CASE Drop(s)
    BY <1>2 DEF Drop
<1>3. CASE FindsOut(s)
    <2>1. ASSUME NEW t \in Slot, reqs'[t].created, t # s
          PROVE  /\ reqs'[t].pc \notin Early \cup {"idle"}
                 /\ requested'[reqs'[t].key] = IF reqs'[t].pc = "audit" THEN 0 ELSE 1
        BY <1>3, <2>1, FindingOut DEF Rests
    <2>2. ASSUME reqs'[s].created
          PROVE  /\ reqs'[s].pc \notin Early \cup {"idle"}
                 /\ requested'[reqs'[s].key] = IF reqs'[s].pc = "audit" THEN 0 ELSE 1
        <3>1. reqs[s].created /\ reqs[s].pc \in Queueing /\ reqs'[s].pc \in Queueing \cup {"reply"}
            BY <1>3, <2>2, FindingOut
        <3> QED BY <1>3, <3>1, FindingOut DEF Rests
    <2> QED BY <2>1, <2>2
<1>4. CASE Creates(s)
    BY <1>4, Creating
<1>5. CASE Conflicts(s)
    BY <1>5 DEF Conflicts, Rests
<1>6. CASE AppendAudit(s)
    BY <1>6 DEF AppendAudit
<1>7. CASE Takes(s)
    BY <1>7 DEF Takes, Rests
<1>8. CASE CallGitHub(s)
    BY <1>8, Calling
<1>9. CASE RecordAnswer(s)
    BY <1>9 DEF RecordAnswer
<1>10. CASE Reply(s)
    BY <1>10 DEF Reply
<1> QED BY <1>1, <1>2, <1>3, <1>4, <1>5, <1>6, <1>7, <1>8, <1>9, <1>10 DEF Way

(* A second insert under the key does not go through, so a second claim has none to come from. *)
LEMMA OneClaimKept == ASSUME DispatchInv, NEW s \in Slot, Way(s) PROVE OneClaim'
<1> USE DispatchAssumption, IdleIs DEF DispatchInv, Shape, Occupied, RequestsAgree, ClaimsAreLogged, OneClaim,
        Request, Pc, Early, Queueing, Flying, Goto, outside, NoRow
<1>1. CASE Arrive(s)
    BY <1>1, Arriving
<1>2. CASE Drop(s)
    BY <1>2 DEF Drop
<1>3. CASE FindsOut(s)
    BY <1>3, FindingOut DEF Rests
<1>4. CASE Creates(s)
    <2>1. \A t \in Slot : t # s /\ reqs'[t].created /\ reqs'[t].pc = "audit"
              => reqs'[t].key # reqs'[s].key
        BY <1>4, Creating
    <2>2. \A t \in Slot : t # s => reqs'[t] = reqs[t]
        BY <1>4, Creating
    <2> QED BY <2>1, <2>2
<1>5. CASE Conflicts(s)
    BY <1>5 DEF Conflicts, Rests
<1>6. CASE AppendAudit(s)
    BY <1>6 DEF AppendAudit
<1>7. CASE Takes(s)
    BY <1>7 DEF Takes, Rests
<1>8. CASE CallGitHub(s)
    <2>1. \A t \in Slot : reqs'[t].pc = "audit" => reqs'[t] = reqs[t]
        BY <1>8, Calling
    <2> QED BY <2>1
<1>9. CASE RecordAnswer(s)
    BY <1>9 DEF RecordAnswer
<1>10. CASE Reply(s)
    BY <1>10 DEF Reply
<1> QED BY <1>1, <1>2, <1>3, <1>4, <1>5, <1>6, <1>7, <1>8, <1>9, <1>10 DEF Way

(* A success that claims the creation is sent after it was logged. *)
LEMMA ToldIsLoggedKept == ASSUME DispatchInv, NEW s \in Slot, Way(s) PROVE ToldIsLogged'
<1> USE DispatchAssumption, IdleIs DEF DispatchInv, Shape, Occupied, ClaimsAreLogged, ToldIsLogged, LoggedOnce,
        Request, Pc, Early, Queueing, Flying, Goto, outside, NoRow
<1>1. CASE Arrive(s)
    BY <1>1, Arriving
<1>2. CASE Drop(s)
    BY <1>2 DEF Drop
<1>3. CASE FindsOut(s)
    BY <1>3, FindingOut DEF Rests
<1>4. CASE Creates(s)
    BY <1>4, Creating
<1>5. CASE Conflicts(s)
    BY <1>5 DEF Conflicts, Rests
<1>6. CASE AppendAudit(s)
    BY <1>6 DEF AppendAudit
<1>7. CASE Takes(s)
    BY <1>7 DEF Takes, Rests
<1>8. CASE CallGitHub(s)
    BY <1>8, Calling
<1>9. CASE RecordAnswer(s)
    BY <1>9 DEF RecordAnswer
<1>10. CASE Reply(s)
    BY <1>10 DEF Reply
<1> QED BY <1>1, <1>2, <1>3, <1>4, <1>5, <1>6, <1>7, <1>8, <1>9, <1>10 DEF Way

(* Taking the row over marks it in progress, and only its owner takes the mark away. *)
LEMMA FlightOwnsKept == ASSUME DispatchInv, NEW s \in Slot, Way(s) PROVE FlightOwns'
<1> USE DispatchAssumption, IdleIs DEF DispatchInv, Shape, Occupied, FlightOwns, OneFlight,
        Request, Pc, Early, Queueing, Flying, Goto, outside, NoRow
<1>1. CASE Arrive(s)
    BY <1>1, Arriving
<1>2. CASE Drop(s)
    BY <1>2 DEF Drop
<1>3. CASE FindsOut(s)
    BY <1>3, FindingOut DEF Rests
<1>4. CASE Creates(s)
    BY <1>4, Creating
<1>5. CASE Conflicts(s)
    BY <1>5 DEF Conflicts, Rests
<1>6. CASE AppendAudit(s)
    BY <1>6 DEF AppendAudit
<1>7. CASE Takes(s)
    BY <1>7 DEF Takes, Rests
<1>8. CASE CallGitHub(s)
    BY <1>8, Calling
<1>9. CASE RecordAnswer(s)
    BY <1>9 DEF RecordAnswer
<1>10. CASE Reply(s)
    BY <1>10 DEF Reply
<1> QED BY <1>1, <1>2, <1>3, <1>4, <1>5, <1>6, <1>7, <1>8, <1>9, <1>10 DEF Way

(* The row of an invocation in flight is in progress: nobody else can take it. *)
LEMMA OneFlightKept == ASSUME DispatchInv, NEW s \in Slot, Way(s) PROVE OneFlight'
<1> USE DispatchAssumption, IdleIs DEF DispatchInv, Shape, Occupied, FlightOwns, OneFlight,
        Request, Pc, Early, Queueing, Flying, Goto, outside, NoRow
<1>1. CASE Arrive(s)
    BY <1>1, Arriving
<1>2. CASE Drop(s)
    BY <1>2 DEF Drop
<1>3. CASE FindsOut(s)
    BY <1>3, FindingOut DEF Rests
<1>4. CASE Creates(s)
    BY <1>4, Creating
<1>5. CASE Conflicts(s)
    BY <1>5 DEF Conflicts, Rests
<1>6. CASE AppendAudit(s)
    BY <1>6 DEF AppendAudit
<1>7. CASE Takes(s)
    BY <1>7 DEF Takes, Rests
<1>8. CASE CallGitHub(s)
    BY <1>8, Calling
<1>9. CASE RecordAnswer(s)
    BY <1>9 DEF RecordAnswer
<1>10. CASE Reply(s)
    BY <1>10 DEF Reply
<1> QED BY <1>1, <1>2, <1>3, <1>4, <1>5, <1>6, <1>7, <1>8, <1>9, <1>10 DEF Way

(* An owner leaves its row by recording the answer, or by being dropped. *)
LEMMA RowHasOwnerKept == ASSUME DispatchInv, NEW s \in Slot, Way(s) PROVE RowHasOwner'
<1> USE DispatchAssumption, IdleIs DEF DispatchInv, Shape, Occupied, FlightOwns, OneFlight, RowHasOwner,
        Request, Pc, Early, Queueing, Flying, Goto, outside, NoRow
<1>1. CASE Arrive(s)
    BY <1>1, Arriving
<1>2. CASE Drop(s)
    BY <1>2 DEF Drop
<1>3. CASE FindsOut(s)
    BY <1>3, FindingOut DEF Rests
<1>4. CASE Creates(s)
    BY <1>4, Creating
<1>5. CASE Conflicts(s)
    BY <1>5 DEF Conflicts, Rests
<1>6. CASE AppendAudit(s)
    BY <1>6 DEF AppendAudit
<1>7. CASE Takes(s)
    BY <1>7 DEF Takes, Rests
<1>8. CASE CallGitHub(s)
    BY <1>8, Calling
<1>9. CASE RecordAnswer(s)
    BY <1>9 DEF RecordAnswer
<1>10. CASE Reply(s)
    BY <1>10 DEF Reply
<1> QED BY <1>1, <1>2, <1>3, <1>4, <1>5, <1>6, <1>7, <1>8, <1>9, <1>10 DEF Way

(* An attempt is counted when the row is taken, before the call that may start a workflow. *)
LEMMA CallsPendingKept == ASSUME DispatchInv, NEW s \in Slot, Way(s) PROVE CallsPending'
<1> USE DispatchAssumption, IdleIs DEF DispatchInv, Shape, Occupied, FlightOwns, OneFlight, CallsPending, WorkflowsAccounted,
        Request, Pc, Early, Queueing, Flying, Goto, outside, NoRow
<1>1. CASE Arrive(s)
    BY <1>1, Arriving
<1>2. CASE Drop(s)
    BY <1>2 DEF Drop
<1>3. CASE FindsOut(s)
    BY <1>3, FindingOut DEF Rests
<1>4. CASE Creates(s)
    BY <1>4, Creating
<1>5. CASE Conflicts(s)
    BY <1>5 DEF Conflicts, Rests
<1>6. CASE AppendAudit(s)
    BY <1>6 DEF AppendAudit
<1>7. CASE Takes(s)
    BY <1>7 DEF Takes, Rests
<1>8. CASE CallGitHub(s)
    BY <1>8, Calling
<1>9. CASE RecordAnswer(s)
    BY <1>9 DEF RecordAnswer
<1>10. CASE Reply(s)
    BY <1>10 DEF Reply
<1> QED BY <1>1, <1>2, <1>3, <1>4, <1>5, <1>6, <1>7, <1>8, <1>9, <1>10 DEF Way

(* A call starts one workflow at most, for an attempt that had started none. *)
LEMMA WorkflowsAccountedKept == ASSUME DispatchInv, NEW s \in Slot, Way(s) PROVE WorkflowsAccounted'
<1> USE DispatchAssumption, IdleIs DEF DispatchInv, Shape, Occupied, RequestsAgree, CallsPending, WorkflowsAccounted,
        Request, Pc, Early, Queueing, Flying, Goto, outside, NoRow
<1>1. CASE Arrive(s)
    BY <1>1, Arriving
<1>2. CASE Drop(s)
    BY <1>2 DEF Drop
<1>3. CASE FindsOut(s)
    BY <1>3, FindingOut DEF Rests
<1>4. CASE Creates(s)
    BY <1>4, Creating
<1>5. CASE Conflicts(s)
    BY <1>5 DEF Conflicts, Rests
<1>6. CASE AppendAudit(s)
    BY <1>6 DEF AppendAudit
<1>7. CASE Takes(s)
    BY <1>7 DEF Takes, Rests
<1>8. CASE CallGitHub(s)
    <2> TAKE k \in Key
    <2>1. CASE k = reqs[s].key
        <3>1. stored[k] \in ByWorkflow /\ workflows[k] < dispatches[k].attempts
            BY <1>8, <2>1, Calling
        <3>2. workflows'[k] \in Nat /\ workflows[k] <= workflows'[k] /\ workflows'[k] <= workflows[k] + 1
            BY <1>8, <2>1, Calling
        <3>3. dispatches' = dispatches /\ stored' = stored
            BY <1>8, Calling
        <3> QED BY <3>1, <3>2, <3>3
    <2>2. CASE k # reqs[s].key
        BY <1>8, <2>2, Calling
    <2> QED BY <2>1, <2>2
<1>9. CASE RecordAnswer(s)
    BY <1>9 DEF RecordAnswer
<1>10. CASE Reply(s)
    BY <1>10 DEF Reply
<1> QED BY <1>1, <1>2, <1>3, <1>4, <1>5, <1>6, <1>7, <1>8, <1>9, <1>10 DEF Way

(* An invocation that may yet take a row over does so once, or never. *)
LEMMA FewerBefore ==
    ASSUME NEW k \in Key, IsFiniteSet(Before(k)), Before(k)' \subseteq Before(k),
           dispatches'[k].attempts = dispatches[k].attempts, issued' = issued,
           dispatches[k].attempts \in Nat, issued \in Nat,
           dispatches[k].attempts + Cardinality(Before(k)) <= issued
    PROVE  /\ IsFiniteSet(Before(k)')
           /\ dispatches'[k].attempts + Cardinality(Before(k)') <= issued'
<1>1. IsFiniteSet(Before(k)') /\ Cardinality(Before(k)') <= Cardinality(Before(k))
    BY FS_Subset
<1>2. Cardinality(Before(k)) \in Nat /\ Cardinality(Before(k)') \in Nat
    BY <1>1, FS_CardinalityType
<1> QED BY <1>1, <1>2

(* An invocation that takes a row over was waiting to, and is not any more. *)
LEMMA AttemptsCountedKept == ASSUME DispatchInv, NEW s \in Slot, Way(s) PROVE AttemptsCounted'
<1> SUFFICES ASSUME NEW k \in Key
             PROVE  /\ IsFiniteSet(Before(k)')
                    /\ dispatches'[k].attempts + Cardinality(Before(k)') <= issued'
    BY DEF AttemptsCounted
<1>1. /\ IsFiniteSet(Before(k)) /\ dispatches[k].attempts + Cardinality(Before(k)) <= issued
      /\ dispatches[k].attempts \in Nat /\ issued \in Nat /\ Cardinality(Before(k)) \in Nat
    BY FS_CardinalityType DEF DispatchInv, AttemptsCounted, Shape
<1> USE DispatchAssumption, IdleIs DEF DispatchInv, Shape, Occupied,
        Request, Pc, Early, Queueing, Flying, Goto, outside
<1>2. CASE Arrive(s)
    <2>1. s \notin Before(k) /\ Before(k)' \subseteq Before(k) \cup {s}
        BY <1>2, Arriving DEF Before
    <2>2. /\ IsFiniteSet(Before(k) \cup {s})
          /\ Cardinality(Before(k) \cup {s}) = Cardinality(Before(k)) + 1
        BY <1>1, <2>1, FS_AddElement
    <2>3. /\ IsFiniteSet(Before(k)') /\ Cardinality(Before(k)') <= Cardinality(Before(k)) + 1
          /\ Cardinality(Before(k)') \in Nat
        BY <2>1, <2>2, FS_Subset, FS_CardinalityType
    <2>4. dispatches' = dispatches /\ issued' = issued + 1
        BY <1>2, Arriving
    <2> QED BY <1>1, <2>3, <2>4
<1>3. CASE Takes(s)
    <2>1. CASE reqs[s].key = k
        <3>1. s \in Before(k) /\ Before(k)' = Before(k) \ {s}
            BY <1>3, <2>1 DEF Takes, Before
        <3>2. /\ IsFiniteSet(Before(k) \ {s})
              /\ Cardinality(Before(k) \ {s}) = Cardinality(Before(k)) - 1
            BY <1>1, <3>1, FS_RemoveElement
        <3>3. dispatches'[k].attempts = dispatches[k].attempts + 1 /\ issued' = issued
            BY <1>3, <2>1 DEF Takes, Rests
        <3> QED BY <1>1, <3>1, <3>2, <3>3
    <2>2. CASE reqs[s].key # k
        <3>1. Before(k)' \subseteq Before(k) /\ dispatches'[k] = dispatches[k] /\ issued' = issued
            BY <1>3, <2>2 DEF Takes, Rests, Before
        <3> QED BY <1>1, <3>1, FewerBefore
    <2> QED BY <2>1, <2>2
<1>4. ASSUME Drop(s) \/ FindsOut(s) \/ Creates(s) \/ Conflicts(s) \/ AppendAudit(s)
             \/ CallGitHub(s) \/ RecordAnswer(s) \/ Reply(s)
      PROVE  /\ Before(k)' \subseteq Before(k) /\ issued' = issued
             /\ dispatches'[k].attempts = dispatches[k].attempts
    <2>1. CASE Drop(s)
        BY <2>1 DEF Drop, Before
    <2>2. CASE FindsOut(s)
        BY <2>2, FindingOut DEF Rests, Before
    <2>3. CASE Creates(s)
        BY <2>3, Creating DEF Before
    <2>4. CASE Conflicts(s)
        BY <2>4 DEF Conflicts, Rests, Before
    <2>5. CASE AppendAudit(s)
        BY <2>5 DEF AppendAudit, Before
    <2>6. CASE CallGitHub(s)
        BY <2>6, Calling DEF Before
    <2>7. CASE RecordAnswer(s)
        BY <2>7 DEF RecordAnswer, Before
    <2>8. CASE Reply(s)
        BY <2>8 DEF Reply, Before
    <2> QED BY <1>4, <2>1, <2>2, <2>3, <2>4, <2>5, <2>6, <2>7, <2>8
<1>5. CASE ~ (Arrive(s) \/ Takes(s))
    <2>1. /\ Before(k)' \subseteq Before(k) /\ issued' = issued
          /\ dispatches'[k].attempts = dispatches[k].attempts
        BY <1>4, <1>5 DEF Way
    <2> QED BY <1>1, <2>1, FewerBefore
<1> QED BY <1>2, <1>3, <1>5

(* No table has a row yet, and no invocation is there. *)
LEMMA InitOK == Init => DispatchInv
<1> SUFFICES ASSUME Init PROVE DispatchInv
    OBVIOUS
<1> USE DispatchAssumption, IdleIs DEF Init, NoRow
<1>1. Shape
    BY DEF Shape
<1>2. Occupied /\ RequestsAgree /\ AcksAgree
    BY DEF Occupied, RequestsAgree, AcksAgree, Early, Queueing, Flying
<1>3. LoggedOnce /\ ClaimsAreLogged /\ OneClaim /\ ToldIsLogged
    BY DEF LoggedOnce, ClaimsAreLogged, OneClaim, ToldIsLogged
<1>4. FlightOwns /\ OneFlight /\ RowHasOwner /\ CallsPending /\ WorkflowsAccounted
    BY DEF FlightOwns, OneFlight, RowHasOwner, CallsPending, WorkflowsAccounted, Flying
<1>5. AttemptsCounted
    <2>1. ASSUME NEW k \in Key PROVE Before(k) = {}
        BY DEF Before, Early, Queueing
    <2> QED BY <2>1, FS_EmptySet DEF AttemptsCounted
<1> QED BY <1>1, <1>2, <1>3, <1>4, <1>5 DEF DispatchInv

(* Every step preserves the invariant, whichever way it goes. *)
LEMMA NextKeepsInv == DispatchInv /\ [Next]_vars => DispatchInv'
<1> SUFFICES ASSUME DispatchInv, [Next]_vars PROVE DispatchInv'
    OBVIOUS
<1>1. CASE UNCHANGED vars
    BY <1>1 DEF vars, DispatchInv, Shape, Occupied, RequestsAgree, AcksAgree, LoggedOnce,
        ClaimsAreLogged, OneClaim, ToldIsLogged, FlightOwns, OneFlight, RowHasOwner,
        CallsPending, WorkflowsAccounted, AttemptsCounted, Before
<1>2. CASE Next
    <2>1. PICK s \in Slot : Arrive(s) \/ Drop(s) \/ Step(s)
        BY <1>2 DEF Next
    <2>2. Way(s)
        BY <2>1, StepIsWay DEF DispatchInv
    <2> QED BY <2>2, ShapeKept, OccupiedKept, RequestsAgreeKept, AcksAgreeKept, LoggedOnceKept,
        ClaimsAreLoggedKept, OneClaimKept, ToldIsLoggedKept, FlightOwnsKept, OneFlightKept,
        RowHasOwnerKept, CallsPendingKept, WorkflowsAccountedKept, AttemptsCountedKept
        DEF DispatchInv
<1> QED BY <1>1, <1>2

(* The invariant the others follow from: at every moment each invocation agrees
   with the table, the creation of each run is claimed and logged once, and the
   row of each dispatch in progress has one owner or lost it to a drop. *)
THEOREM DispatchInvariant == Spec => []DispatchInv
<1> QED BY InitOK, NextKeepsInv, PTL DEF Spec

(* No two invocations are in flight for one key. *)
LEMMA OneInFlight ==
    ASSUME DispatchInv, NEW k \in Key
    PROVE  Cardinality(InFlight(k)) <= 1
<1>1. CASE InFlight(k) = {}
    BY <1>1, FS_EmptySet
<1>2. CASE InFlight(k) # {}
    <2>1. PICK s \in Slot : s \in InFlight(k)
        BY <1>2 DEF InFlight
    <2>2. InFlight(k) = {s}
        BY <2>1 DEF InFlight, DispatchInv, OneFlight, Flying
    <2> QED BY <2>2, FS_Singleton
<1> QED BY <1>1, <1>2

(* Types, with the bounds: no row is tried more often than requests were made,
   and no run is requested or started more often than that. *)
THEOREM DispatchTypes == Spec => []TypeOK
<1>1. DispatchInv => TypeOK
    <2> SUFFICES ASSUME DispatchInv PROVE TypeOK
        OBVIOUS
    <2>1. issued \in 0..MaxRequests /\ MaxRequests \in Nat /\ issued \in Nat
        BY DispatchAssumption DEF DispatchInv, Shape
    <2>2. ASSUME NEW k \in Key
          PROVE  /\ requested[k] \in 0..MaxRequests
                 /\ dispatches[k].attempts \in 0..MaxRequests
                 /\ workflows[k] \in 0..MaxRequests
        <3>1. dispatches[k].attempts \in Nat /\ workflows[k] \in Nat /\ requested[k] \in Nat
            BY DEF DispatchInv, Shape
        <3>2. Cardinality(Before(k)) \in Nat /\ dispatches[k].attempts + Cardinality(Before(k)) <= issued
            BY FS_CardinalityType DEF DispatchInv, AttemptsCounted
        <3>3. workflows[k] <= dispatches[k].attempts
            BY DEF DispatchInv, WorkflowsAccounted
        <3>4. requested[k] <= 1 /\ (requested[k] = 1 => issued >= 1)
            BY DEF DispatchInv, LoggedOnce
        <3> QED BY <2>1, <3>1, <3>2, <3>3, <3>4
    <2>3. /\ requested \in [Key -> 0..MaxRequests]
          /\ workflows \in [Key -> 0..MaxRequests]
        BY <2>2 DEF DispatchInv, Shape
    <2>4. dispatches \in [Key -> [state : {"none", "dispatching", "dispatched", "failed"},
                                  attempts : 0..MaxRequests]]
        BY <2>2 DEF DispatchInv, Shape
    <2> QED BY <2>1, <2>3, <2>4 DEF TypeOK, DispatchInv, Shape
<1> QED BY <1>1, DispatchInvariant, PTL

(* A key means one run, however many requests raced on it: every success names
   the stored intent, and the run is logged as requested once at most, and once
   as soon as somebody was told to have created it. *)
THEOREM OneRunPerKey == Spec => []KeyMeansOneRun
<1>1. DispatchInv => KeyMeansOneRun
    BY DEF DispatchInv, KeyMeansOneRun, Shape, AcksAgree, LoggedOnce, ToldIsLogged
<1> QED BY <1>1, DispatchInvariant, PTL

(* One call to GitHub at a time for a run, and a row in progress has its caller
   unless that was dropped. *)
THEOREM OneCallAtATime == Spec => []SingleFlight
<1>1. DispatchInv => SingleFlight
    <2> SUFFICES ASSUME DispatchInv, NEW k \in Key
                 PROVE  /\ InFlight(k) # {} => dispatches[k].state = "dispatching"
                        /\ dispatches[k].state = "dispatching" => InFlight(k) # {} \/ k \in dropped
        BY OneInFlight DEF SingleFlight
    <2> QED BY DEF DispatchInv, FlightOwns, RowHasOwner, InFlight, Flying
<1> QED BY <1>1, DispatchInvariant, PTL

(* A run starts at most one workflow for each attempt, a dispatched run has one,
   and a run that no request named by workflow has none. *)
THEOREM EveryWorkflowCounted == Spec => []WorkflowsAccounted
<1>1. DispatchInv => WorkflowsAccounted
    BY DEF DispatchInv
<1> QED BY <1>1, DispatchInvariant, PTL
=============================================================================
