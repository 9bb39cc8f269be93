----------------------- MODULE AdaptiveSessionProofs -----------------------
EXTENDS AdaptiveSession, FiniteSetTheorems, SequenceTheorems, WellFoundedInduction, TLAPS

Early == {"open", "turn", "ask", "act", "record"}
Late == Flush \cup {"write_result", "done"}

(* The count of unknown actions is one the trace t accounts for. *)
Accounts(t, n) == n = 0 \/ GaveUpAfter(t, n)

(* What entitles a session to its initial status. *)
Earned == proposal # None \/ GaveUpAfter(trace, MaxUnknown)

IsTurn(t) ==
    /\ t = [final |-> t.final, action |-> t.action, denial |-> t.denial, refusedNow |-> t.refusedNow,
            before |-> t.before, outcome |-> t.outcome, keep |-> t.keep]
    /\ t.keep \in BOOLEAN

Shapes ==
    /\ phase \in Phases /\ status \in Statuses
    /\ cause \in Causes \cup {None} /\ proposal \in Verdicts \cup {None}
    /\ memo = [ids |-> memo.ids, unknown |-> memo.unknown] /\ memo.unknown \in Nat
    /\ trace \in Seq(ToSet(trace))
    /\ disk = [evidence |-> disk.evidence, candidates |-> disk.candidates, frontier |-> disk.frontier,
               begun |-> disk.begun]
    /\ disk.begun \subseteq Flush

(* A session is finished with a verdict. *)
Verdict(a) == a.type = "finish" => a.verdict \in Verdicts

(* The action of a turn is counted, and the trace does not hold it yet. *)
Counted ==
    IF turn.action.type = "unknown"
    THEN memo.unknown >= 1 /\ Accounts(trace, memo.unknown - 1)
    ELSE memo.unknown = 0

Accepted ==
    /\ Counted
    /\ ~turn.keep => proposal # None \/ memo.unknown >= MaxUnknown

Refused ==
    /\ turn.outcome = "denied" /\ turn.keep
    /\ Accounts(trace, memo.unknown)

Running ==
    /\ phase \in Early => result = None /\ status = "completed"
    /\ phase \in {"ask", "act", "record"} => IsTurn(turn)
    /\ phase \in {"open", "turn", "ask"} => Accounts(trace, memo.unknown)
    /\ phase = "ask" => turn.denial = NoDenial /\ turn.keep
    /\ phase = "act" => turn.denial = NoDenial /\ turn.keep /\ Counted /\ Verdict(turn.action)
    /\ phase = "record" => IF turn.denial = NoDenial THEN Accepted ELSE Refused

Flushing ==
    phase \in Flush /\ result = None =>
        /\ IsTurn(turn) /\ status = "completed"
        /\ IF turn.keep THEN Accounts(trace, memo.unknown) ELSE Earned

Ended ==
    phase = "end" => result = None /\ (status = "completed" /\ cause = None => Earned)

Settling ==
    result # None =>
        /\ phase \in Late /\ result \in Results
        /\ result.status = "completed" => cause = None /\ Earned
        /\ cause # None => result.status = cause

(* How far the last flush has come. *)
Flushed ==
    result # None =>
        /\ phase \in Late \ {"write_evidence"} =>
             disk.evidence = Len(evidence) /\ "write_evidence" \notin disk.begun
        /\ phase \in Late \ {"write_evidence", "write_candidates"} =>
             disk.candidates = candidates /\ "write_candidates" \notin disk.begun
        /\ phase \in {"write_result", "done"} => disk.frontier = ledger /\ "write_frontier" \notin disk.begun

(* As long as nothing failed, no write was left half done. *)
Tearing == status # "error" /\ cause = None => disk.begun \subseteq {phase}

Written == phase \in {"write_result", "done"} => result # None

SessionInv == Shapes /\ Running /\ Flushing /\ Ended /\ Settling /\ Flushed /\ Tearing /\ Written

LEMMA CompletionIsOne ==
    ASSUME NEW L, NEW s, NEW c, NEW n PROVE Completion(L, s, c, n) \in Completions
BY DEF Completion, Completions

LEMMA DecideFinishes ==
    ASSUME NEW s, NEW o, NEW v, NEW L, NEW n, Decide(s, o, v, L, n).action.type = "finish"
    PROVE  Decide(s, o, v, L, n).action.verdict \in Verdicts
BY DEF Decide, NextStep, Finish, Plain, Verdicts, To, On, Reporting, Finishing

LEMMA ModelFinishes ==
    ASSUME NEW a \in ModelActions, a.type = "finish" PROVE a.verdict \in Verdicts
<1> DEFINE cited == [category |-> "any", refs |-> {Len(evidence)} \ {0}]
           forged == [category |-> "any", refs |-> {Len(evidence) + 1}]
<1>1. \/ \E t \in {"inspect_semantics", "escape", "unknown", "malformed"} : a = Plain(t)
      \/ \E u \in discovered \cup {Made} : a = To(u)
      \/ \E c \in ToSet(Observation(turn.final).controls) : a = On("activate", c.subject)
      \/ a = On("capture_evidence", Made) \/ a = Reporting(cited)
      \/ \E v \in Verdicts : a = Finishing(v, <<cited, forged>>)
  BY Zenon DEF ModelActions
<1>2. \A t : Plain(t).type = t
  BY DEF Plain
<1>3. \A u : To(u).type = "navigate"
  BY DEF Plain, To
<1>4. \A t, u : On(t, u).type = t
  BY DEF Plain, On
<1>5. \A c : Reporting(c).type = "report_candidate"
  BY DEF Plain, Reporting
<1>6. \A v, cs : Finishing(v, cs).verdict = v
  BY DEF Plain, Finishing
<1> QED
  BY <1>1, <1>2, <1>3, <1>4, <1>5, <1>6

-----------------------------------------------------------------------------
(* The trace. *)

UnknownsFrom(t, k) == {j \in k..Len(t) : t[j].type = "unknown"}

LEMMA UnknownsFinite ==
    ASSUME NEW t, Len(t) \in Nat, NEW k \in Nat
    PROVE  IsFiniteSet(UnknownsFrom(t, k)) /\ Cardinality(UnknownsFrom(t, k)) \in Nat
<1>1. IsFiniteSet(k..Len(t))
    BY FS_Interval
<1>2. UnknownsFrom(t, k) \subseteq k..Len(t)
    BY DEF UnknownsFrom
<1> QED BY <1>1, <1>2, FS_Subset, FS_CardinalityType

(* Giving up after n unknown actions is giving up after fewer. *)
LEMMA FewerUnknowns ==
    ASSUME NEW S, NEW t \in Seq(S), NEW n \in Nat, GaveUpAfter(t, n), NEW m \in Nat, m <= n
    PROVE  GaveUpAfter(t, m)
<1>1. PICK k \in DOMAIN t : /\ Cardinality(UnknownsFrom(t, k)) >= n
                            /\ \A j \in k..Len(t) : t[j].type = "unknown" \/ t[j].outcome = "denied"
    BY DEF GaveUpAfter, UnknownsFrom
<1>2. Cardinality(UnknownsFrom(t, k)) \in Nat
    BY UnknownsFinite
<1>3. Cardinality(UnknownsFrom(t, k)) >= m
    BY <1>1, <1>2
<1> QED BY <1>1, <1>3 DEF GaveUpAfter, UnknownsFrom

(* A refused action in between does not change what the trace accounts for. *)
LEMMA AppendDenied ==
    ASSUME NEW S, NEW t \in Seq(S), NEW e, e.outcome = "denied", NEW n \in Nat, Accounts(t, n)
    PROVE  Accounts(Append(t, e), n)
<1> DEFINE u == Append(t, e)
<1>1. /\ Len(u) = Len(t) + 1 /\ Len(t) \in Nat /\ DOMAIN t = 1..Len(t) /\ DOMAIN u = 1..Len(u)
      /\ \A j \in 1..Len(t) : u[j] = t[j]
      /\ u[Len(u)] = e
    OBVIOUS
<1> HIDE DEF u
<1>2. CASE n = 0
    BY <1>2 DEF Accounts, u
<1>3. CASE n # 0
    <2>1. PICK k \in DOMAIN t : /\ Cardinality(UnknownsFrom(t, k)) >= n
                                /\ \A j \in k..Len(t) : t[j].type = "unknown" \/ t[j].outcome = "denied"
        BY <1>3 DEF Accounts, GaveUpAfter, UnknownsFrom
    <2>2. k \in DOMAIN u /\ UnknownsFrom(t, k) \subseteq UnknownsFrom(u, k)
        BY <1>1 DEF UnknownsFrom
    <2>a. IsFiniteSet(UnknownsFrom(u, k)) /\ Cardinality(UnknownsFrom(u, k)) \in Nat
          /\ Cardinality(UnknownsFrom(t, k)) \in Nat
        BY <1>1, <2>2, UnknownsFinite
    <2>3. Cardinality(UnknownsFrom(t, k)) <= Cardinality(UnknownsFrom(u, k))
        BY <2>2, <2>a, FS_Subset
    <2>4. Cardinality(UnknownsFrom(u, k)) >= n
        BY <2>1, <2>3, <2>a
    <2>5. \A j \in k..Len(u) : u[j].type = "unknown" \/ u[j].outcome = "denied"
        BY <1>1, <2>1
    <2>6. GaveUpAfter(u, n)
        BY <2>2, <2>4, <2>5 DEF GaveUpAfter, UnknownsFrom
    <2> QED BY <2>6 DEF Accounts, u
<1> QED BY <1>2, <1>3

(* An unknown action that is recorded is one more. *)
LEMMA AppendUnknown ==
    ASSUME NEW S, NEW t \in Seq(S), NEW e, e.type = "unknown", NEW n \in Nat, n >= 1, Accounts(t, n - 1)
    PROVE  Accounts(Append(t, e), n)
<1> DEFINE u == Append(t, e)
<1>1. /\ Len(u) = Len(t) + 1 /\ Len(t) \in Nat /\ DOMAIN t = 1..Len(t) /\ DOMAIN u = 1..Len(u)
      /\ \A j \in 1..Len(t) : u[j] = t[j]
      /\ u[Len(u)] = e
    OBVIOUS
<1> HIDE DEF u
<1>2. CASE n = 1
    <2>1. UnknownsFrom(u, Len(u)) = {Len(u)}
        BY <1>1 DEF UnknownsFrom
    <2>2. Cardinality(UnknownsFrom(u, Len(u))) >= n
        BY <1>2, <2>1, FS_Singleton
    <2>3. Len(u) \in DOMAIN u /\ \A j \in Len(u)..Len(u) : u[j].type = "unknown" \/ u[j].outcome = "denied"
        BY <1>1
    <2>4. GaveUpAfter(u, n)
        BY <2>2, <2>3 DEF GaveUpAfter, UnknownsFrom
    <2> QED BY <2>4 DEF Accounts, u
<1>3. CASE n # 1
    <2>a. GaveUpAfter(t, n - 1)
        BY <1>3 DEF Accounts
    <2>1. PICK k \in DOMAIN t : /\ Cardinality(UnknownsFrom(t, k)) >= n - 1
                                /\ \A j \in k..Len(t) : t[j].type = "unknown" \/ t[j].outcome = "denied"
        BY <2>a DEF GaveUpAfter, UnknownsFrom
    <2>2. k \in DOMAIN u /\ UnknownsFrom(u, k) = UnknownsFrom(t, k) \cup {Len(u)} /\ Len(u) \notin UnknownsFrom(t, k)
        BY <1>1 DEF UnknownsFrom
    <2>3. IsFiniteSet(UnknownsFrom(t, k)) /\ Cardinality(UnknownsFrom(t, k)) \in Nat
        BY <1>1, UnknownsFinite
    <2>4. Cardinality(UnknownsFrom(u, k)) = Cardinality(UnknownsFrom(t, k)) + 1
        BY <2>2, <2>3, FS_AddElement
    <2>5. Cardinality(UnknownsFrom(u, k)) >= n
        BY <2>1, <2>3, <2>4
    <2>6. \A j \in k..Len(u) : u[j].type = "unknown" \/ u[j].outcome = "denied"
        BY <1>1, <2>1
    <2>7. GaveUpAfter(u, n)
        BY <2>2, <2>5, <2>6 DEF GaveUpAfter, UnknownsFrom
    <2> QED BY <2>7 DEF Accounts, u
<1> QED BY <1>2, <1>3

-----------------------------------------------------------------------------
(* The invariant. *)

LEMMA InitOK == Init => SessionInv
<1> SUFFICES ASSUME Init PROVE SessionInv
    OBVIOUS
<1> USE SessionAssumption DEF Init
<1>1. Shapes
    BY DEF Shapes, Phases, Statuses, Causes, Verdicts
<1>2. Running
    BY DEF Running, Accounts
<1> QED BY <1>1, <1>2
    DEF SessionInv, Flushing, Ended, Settling, Flushed, Tearing, Written, Flush, Late

(* Before the flush of a turn there is no write to be left, and a failure may leave one. *)
LEMMA TearingOnward ==
    ASSUME SessionInv, UNCHANGED <<disk, cause>>, phase \in Early \/ status' = "error" \/ cause # None
    PROVE  Tearing'
<1>1. phase \in Early => disk.begun = {} \/ cause # None
    BY DEF SessionInv, Shapes, Running, Tearing, Flush, Early
<1> QED BY <1>1 DEF Tearing

(* Steps before the record of a turn that leave the trace alone, and stay there. *)
LEMMA EarlyStep ==
    ASSUME SessionInv, phase \in Early, phase' \in Early, status' = "completed",
           UNCHANGED <<cause, result, trace, disk>>,
           proposal' \in Verdicts \cup {None},
           memo' = [ids |-> memo'.ids, unknown |-> memo'.unknown], memo'.unknown \in Nat,
           Running'
    PROVE  SessionInv'
<1>1. result = None
    BY DEF SessionInv, Running
<1>2. Shapes'
    BY DEF SessionInv, Shapes, Early, Phases, Statuses
<1> QED BY <1>1, <1>2, TearingOnward
    DEF SessionInv, Flushing, Ended, Settling, Flushed, Written, Flush, Late, Early

(* The loop is left without the status that must be earned, or after an abort. *)
LEMMA LeaveStep ==
    ASSUME SessionInv, phase \notin Late \/ result = None, phase' = "end", status' \in Statuses,
           status' # "completed" \/ cause # None \/ Earned,
           phase \in Early \/ status' = "error" \/ cause # None,
           UNCHANGED <<cause, result, trace, proposal, memo, disk>>
    PROVE  SessionInv'
<1>1. result = None
    BY DEF SessionInv, Settling
<1>2. Shapes'
    BY DEF SessionInv, Shapes, Phases
<1>3. Ended'
    BY <1>1 DEF Ended, Earned
<1> QED BY <1>1, <1>2, <1>3, TearingOnward
    DEF SessionInv, Running, Flushing, Settling, Flushed, Written, Flush, Late, Early

LEMMA OpenOK == SessionInv /\ Open => SessionInv'
<1> SUFFICES ASSUME SessionInv, Open PROVE SessionInv'
    OBVIOUS
<1>1. Running'
    BY DEF SessionInv, Open, outVars, endVars, Running, Early, Accounts
<1> QED BY <1>1, EarlyStep DEF SessionInv, Open, outVars, endVars, Early, Running, Shapes

LEMMA TurnLimitedOK == SessionInv /\ TurnLimited => SessionInv'
<1> SUFFICES ASSUME SessionInv, TurnLimited PROVE SessionInv'
    OBVIOUS
<1>1. phase' = "end" /\ phase = "turn" /\ status' \in {"budget_exhausted", "denial_limit"}
    BY DEF TurnLimited, LimitReached, Leave
<1> QED BY <1>1, LeaveStep DEF TurnLimited, outVars, endVars, Early, Late, Flush, Statuses

LEMMA ObserveTurnOK == SessionInv /\ ObserveTurn => SessionInv'
<1> SUFFICES ASSUME SessionInv, ObserveTurn PROVE SessionInv'
    OBVIOUS
<1>0. phase = "turn" /\ UNCHANGED <<cause, proposal, trace, memo, disk, result>>
    BY DEF ObserveTurn, outVars
<1>1. CASE Leave("budget_exhausted")
    BY <1>0, <1>1, LeaveStep DEF Leave, Early, Late, Flush, Statuses
<1>2. CASE /\ phase' = "ask" /\ UNCHANGED status
           /\ turn' = [final |-> FinalCall, action |-> None, denial |-> NoDenial, refusedNow |-> FALSE,
                       before |-> Len(evidence), outcome |-> "no_model_call", keep |-> TRUE]
    <2>1. Running'
        BY <1>0, <1>2 DEF SessionInv, Running, Early, IsTurn, Accounts
    <2> QED BY <1>0, <1>2, <2>1, EarlyStep DEF SessionInv, Early, Running, Shapes
<1> QED BY <1>1, <1>2 DEF ObserveTurn

LEMMA DecidedOK ==
    ASSUME SessionInv, phase = "ask", NEW a, Decided(a), Verdict(a)
    PROVE  SessionInv'
<1> DEFINE d == Refusal(a, Observation(turn.final))
<1>0. UNCHANGED <<status, cause, proposal, trace, disk, result>> /\ result = None /\ status = "completed"
    BY DEF Decided, outVars, endVars, SessionInv, Running, Early
<1>1. CASE d # NoDenial
    <2>1. /\ phase' = "record"
          /\ turn' = [turn EXCEPT !.action = a, !.denial = d, !.outcome = "denied"]
          /\ memo' = [memo EXCEPT !.ids = {}]
        BY <1>1 DEF Decided
    <2> HIDE DEF d
    <2>2. IsTurn(turn') /\ turn'.denial # NoDenial /\ turn'.outcome = "denied" /\ turn'.keep
        BY <1>1, <2>1 DEF SessionInv, Running, IsTurn
    <2>3. memo' = [ids |-> memo'.ids, unknown |-> memo'.unknown] /\ memo'.unknown = memo.unknown
          /\ memo.unknown \in Nat
        BY <2>1 DEF SessionInv, Shapes
    <2>4. Running'
        BY <1>0, <2>1, <2>2, <2>3 DEF SessionInv, Running, Refused, Accounts
    <2> QED BY <1>0, <2>1, <2>3, <2>4, EarlyStep DEF SessionInv, Early, Shapes
<1>2. CASE d = NoDenial
    <2>1. /\ phase' = "act" /\ turn' = [turn EXCEPT !.action = a]
          /\ memo' = [memo EXCEPT !.unknown = IF a.type = "unknown" THEN @ + 1 ELSE 0]
        BY <1>2 DEF Decided
    <2> HIDE DEF d
    <2>2. IsTurn(turn') /\ turn'.denial = NoDenial /\ turn'.keep /\ turn'.action = a
        BY <1>2, <2>1 DEF SessionInv, Running, IsTurn
    <2>3. memo' = [ids |-> memo'.ids, unknown |-> memo'.unknown] /\ memo.unknown \in Nat
          /\ memo'.unknown = IF a.type = "unknown" THEN memo.unknown + 1 ELSE 0
        BY <2>1 DEF SessionInv, Shapes
    <2>4. Counted'
        BY <1>0, <2>2, <2>3 DEF SessionInv, Running, Counted, Accounts
    <2>5. Running'
        BY <1>0, <2>1, <2>2, <2>4 DEF SessionInv, Running, Verdict
    <2> QED BY <1>0, <2>1, <2>3, <2>5, EarlyStep DEF SessionInv, Early, Shapes
<1> QED BY <1>1, <1>2

LEMMA ModelAnswersOK == SessionInv /\ ModelAnswers => SessionInv'
BY DecidedOK, ModelFinishes DEF ModelAnswers, Verdict

LEMMA SchedulerAnswersOK == SessionInv /\ SchedulerAnswers => SessionInv'
BY DecidedOK, DecideFinishes DEF SchedulerAnswers, Verdict

LEMMA ProviderFailsOK == SessionInv /\ ProviderFails => SessionInv'
BY LeaveStep DEF ProviderFails, Leave, outVars, endVars, Early, Late, Flush, Statuses

LEMMA SettledOK ==
    ASSUME SessionInv, phase = "act", NEW stored, NEW ids, Settled(stored, ids),
           UNCHANGED <<cause, proposal, trace, disk, result>>
    PROVE  SessionInv'
<1>0. result = None /\ status = "completed" /\ status' = "completed" /\ phase' = "record"
    BY DEF SessionInv, Running, Early, Settled
<1>1. turn' = [turn EXCEPT !.refusedNow = turn.refusedNow \/ stored, !.keep = ~(memo.unknown >= MaxUnknown),
                           !.outcome = IF turn.refusedNow \/ stored THEN "denied" ELSE "executed"]
      /\ memo' = [memo EXCEPT !.ids = ids]
    BY DEF Settled
<1>2. memo' = [ids |-> memo'.ids, unknown |-> memo'.unknown] /\ memo'.unknown = memo.unknown
      /\ memo.unknown \in Nat
    BY <1>1 DEF SessionInv, Shapes
<1>3. IsTurn(turn') /\ turn'.denial = NoDenial /\ turn'.action = turn.action
      /\ (~turn'.keep => memo.unknown >= MaxUnknown)
    BY <1>1 DEF SessionInv, Running, IsTurn
<1>4. Accepted'
    BY <1>2, <1>3 DEF SessionInv, Running, Accepted, Counted, Accounts
<1>5. Running'
    BY <1>0, <1>3, <1>4 DEF Running
<1> QED BY <1>0, <1>2, <1>5, EarlyStep DEF SessionInv, Early, Shapes

LEMMA FinishSessionOK == SessionInv /\ FinishSession => SessionInv'
<1> SUFFICES ASSUME SessionInv, FinishSession PROVE SessionInv'
    OBVIOUS
<1>0. /\ phase = "act" /\ phase' = "record" /\ status' = "completed" /\ result = None
      /\ turn.action.type = "finish" /\ proposal' = turn.action.verdict
      /\ turn' = [turn EXCEPT !.outcome = "finished", !.keep = FALSE]
      /\ memo' = [memo EXCEPT !.ids = {}]
      /\ UNCHANGED <<cause, trace, disk, result>>
    BY DEF FinishSession, Performing, endVars, SessionInv, Running, Early
<1>1. proposal' \in Verdicts /\ proposal' # None
    BY <1>0, SessionAssumption DEF SessionInv, Running, Verdict
<1>2. memo' = [ids |-> memo'.ids, unknown |-> memo'.unknown] /\ memo'.unknown = memo.unknown
      /\ memo.unknown \in Nat
    BY <1>0 DEF SessionInv, Shapes
<1>3. IsTurn(turn') /\ turn'.denial = NoDenial /\ turn'.action = turn.action
    BY <1>0 DEF SessionInv, Running, IsTurn
<1>4. Accepted'
    BY <1>0, <1>1, <1>2, <1>3 DEF SessionInv, Running, Accepted, Counted
<1>5. Running'
    BY <1>0, <1>3, <1>4 DEF Running
<1> QED BY <1>0, <1>1, <1>2, <1>5, EarlyStep DEF Early

LEMMA Execute1OK == SessionInv /\ Execute1 => SessionInv'
<1> SUFFICES ASSUME SessionInv, Execute1 PROVE SessionInv'
    OBVIOUS
<1> USE SettledOK DEF Performing, outVars, endVars
<1>1. CASE Probe
    BY <1>1 DEF Probe
<1>2. CASE Navigate
    BY <1>2 DEF Navigate
<1>3. CASE NavigateBlocked
    BY <1>3 DEF NavigateBlocked
<1>4. CASE Activate
    BY <1>4 DEF Activate
<1>5. CASE ActivateRefused
    BY <1>5 DEF ActivateRefused
<1>6. CASE ActionThrows
    BY <1>6 DEF ActionThrows
<1>7. CASE Report
    BY <1>7 DEF Report
<1> QED BY <1>1, <1>2, <1>3, <1>4, <1>5, <1>6, <1>7, FinishSessionOK DEF Execute1

(* The entry of a turn brings the trace up to the count of unknown actions. *)
LEMMA RecordOK == SessionInv /\ Record => SessionInv'
<1> SUFFICES ASSUME SessionInv, Record PROVE SessionInv'
    OBVIOUS
<1> DEFINE e == [type |-> turn.action.type, url |-> turn.action.url, outcome |-> turn.outcome]
<1>0. /\ phase = "record" /\ phase' = "write_evidence" /\ trace' = Append(trace, e)
      /\ UNCHANGED <<status, cause, proposal, evidence, candidates, turn, memo, disk, result>>
      /\ result = None /\ status = "completed"
    BY DEF Record, endVars, SessionInv, Running, Early
<1>1. e.type = turn.action.type /\ e.outcome = turn.outcome
    OBVIOUS
<1> HIDE DEF e
<1>2. trace \in Seq(ToSet(trace)) /\ memo.unknown \in Nat
    BY DEF SessionInv, Shapes
<1>3. trace' \in Seq(ToSet(trace'))
    BY <1>0, <1>2 DEF ToSet
<1>4. Shapes'
    BY <1>0, <1>3 DEF SessionInv, Shapes, Phases, Flush
<1>5. Accounts(trace', memo.unknown)
    <2>1. CASE turn.denial # NoDenial
        BY <1>0, <1>1, <1>2, <2>1, AppendDenied DEF SessionInv, Running, Refused
    <2>2. CASE turn.denial = NoDenial /\ turn.action.type = "unknown"
        BY <1>0, <1>1, <1>2, <2>2, AppendUnknown DEF SessionInv, Running, Accepted, Counted
    <2>3. CASE turn.denial = NoDenial /\ turn.action.type # "unknown"
        BY <1>0, <2>3 DEF SessionInv, Running, Accepted, Counted, Accounts
    <2> QED BY <2>1, <2>2, <2>3
<1>6. ~turn.keep => Earned'
    <2> SUFFICES ASSUME ~turn.keep, proposal = None PROVE GaveUpAfter(trace', MaxUnknown)
        BY <1>0 DEF Earned
    <2>1. memo.unknown >= MaxUnknown
        BY <1>0 DEF SessionInv, Running, Accepted, Refused
    <2>2. GaveUpAfter(trace', memo.unknown)
        BY <1>2, <1>5, <2>1, SessionAssumption DEF Accounts
    <2> QED BY <1>2, <1>3, <2>1, <2>2, FewerUnknowns, SessionAssumption
<1>7. Flushing'
    BY <1>0, <1>5, <1>6 DEF SessionInv, Running, Flushing, Accounts, IsTurn
<1> QED BY <1>0, <1>4, <1>7, TearingOnward
    DEF SessionInv, Running, Ended, Settling, Flushed, Written, Flush, Late, Early

(* A step of the flush writes a file and moves on. *)
LEMMA FlushStep ==
    ASSUME SessionInv, phase \in Flush, phase' \in Flush,
           UNCHANGED <<status, cause, proposal, trace, memo, turn, result>>,
           disk' = [evidence |-> disk'.evidence, candidates |-> disk'.candidates, frontier |-> disk'.frontier,
                    begun |-> disk'.begun],
           disk'.begun \subseteq Flush, Flushed', Tearing'
    PROVE  SessionInv'
<1>1. Shapes'
    BY DEF SessionInv, Shapes, Flush, Phases
<1>2. Flushing'
    BY DEF SessionInv, Flushing, Accounts, Earned, IsTurn
<1>3. Settling'
    BY DEF SessionInv, Settling, Earned, Late
<1> QED BY <1>1, <1>2, <1>3 DEF SessionInv, Running, Ended, Written, Flush, Early

(* A write that ends leaves none behind, unless an earlier flush failed. *)
LEMMA WriteEnds ==
    ASSUME SessionInv, phase \in Flush, disk'.begun = disk.begun \ {phase}, cause' = cause,
           cause = None /\ status' # "error" => status # "error"
    PROVE  disk'.begun \subseteq Flush /\ Tearing'
BY DEF SessionInv, Shapes, Tearing

LEMMA TruncateOK == SessionInv /\ Truncate => SessionInv'
<1> SUFFICES ASSUME SessionInv, Truncate PROVE SessionInv'
    OBVIOUS
<1>1. /\ phase \in Flush /\ phase' = phase /\ disk' = [disk EXCEPT !.begun = @ \cup {phase}]
      /\ UNCHANGED <<status, cause, proposal, trace, memo, turn, result, evidence, candidates, ledger>>
    BY DEF Truncate, outVars
<1>2. disk' = [evidence |-> disk.evidence, candidates |-> disk.candidates, frontier |-> disk.frontier,
               begun |-> disk.begun \cup {phase}]
    BY <1>1 DEF SessionInv, Shapes
<1>3. disk'.begun \subseteq Flush /\ Tearing'
    BY <1>1, <1>2 DEF SessionInv, Shapes, Tearing
<1>4. Flushed'
    BY <1>1, <1>2 DEF SessionInv, Flushed, Late, Flush
<1> QED BY <1>1, <1>2, <1>3, <1>4, FlushStep

LEMMA WriteEvidenceOK == SessionInv /\ WriteEvidence => SessionInv'
<1> SUFFICES ASSUME SessionInv, WriteEvidence PROVE SessionInv'
    OBVIOUS
<1>1. /\ phase = "write_evidence" /\ phase' = "write_candidates"
      /\ disk' = [disk EXCEPT !.evidence = Len(evidence), !.begun = @ \ {phase}]
      /\ UNCHANGED <<status, cause, proposal, trace, memo, turn, result, evidence>>
    BY DEF WriteEvidence, outVars
<1>2. disk' = [evidence |-> Len(evidence), candidates |-> disk.candidates, frontier |-> disk.frontier,
               begun |-> disk.begun \ {phase}]
    BY <1>1 DEF SessionInv, Shapes
<1>3. Flushed'
    BY <1>1, <1>2 DEF Flushed
<1>4. disk'.begun \subseteq Flush /\ Tearing'
    BY <1>1, <1>2, WriteEnds DEF Flush
<1> QED BY <1>1, <1>2, <1>3, <1>4, FlushStep DEF Flush

LEMMA WriteCandidatesOK == SessionInv /\ WriteCandidates => SessionInv'
<1> SUFFICES ASSUME SessionInv, WriteCandidates PROVE SessionInv'
    OBVIOUS
<1>1. /\ phase = "write_candidates" /\ phase' = "write_frontier"
      /\ disk' = [disk EXCEPT !.candidates = candidates, !.begun = @ \ {phase}]
      /\ UNCHANGED <<status, cause, proposal, trace, memo, turn, result, evidence, candidates>>
    BY DEF WriteCandidates, outVars
<1>2. disk' = [evidence |-> disk.evidence, candidates |-> candidates, frontier |-> disk.frontier,
               begun |-> disk.begun \ {phase}]
    BY <1>1 DEF SessionInv, Shapes
<1>3. Flushed'
    BY <1>1, <1>2 DEF SessionInv, Flushed, Late, Flush
<1>4. disk'.begun \subseteq Flush /\ Tearing'
    BY <1>1, <1>2, WriteEnds DEF Flush
<1> QED BY <1>1, <1>2, <1>3, <1>4, FlushStep DEF Flush

(* The flush of a turn leads to the next turn or to the end, the last flush to the result. *)
LEMMA WriteFrontierOK == SessionInv /\ WriteFrontier => SessionInv'
<1> SUFFICES ASSUME SessionInv, WriteFrontier PROVE SessionInv'
    OBVIOUS
<1>0. /\ phase = "write_frontier" /\ disk' = [disk EXCEPT !.frontier = ledger, !.begun = @ \ {phase}]
      /\ UNCHANGED <<cause, proposal, trace, memo, turn, result, evidence, candidates, ledger>>
    BY DEF WriteFrontier, outVars
<1>1. disk' = [evidence |-> disk.evidence, candidates |-> disk.candidates, frontier |-> ledger,
               begun |-> disk.begun \ {phase}]
    BY <1>0 DEF SessionInv, Shapes
<1>a. UNCHANGED status \/ result = None
    BY DEF WriteFrontier
<1>b. result = None => status = "completed"
    BY <1>0 DEF SessionInv, Flushing, Flush
<1>c. disk'.begun \subseteq Flush /\ Tearing'
    BY <1>0, <1>1, <1>a, <1>b, WriteEnds DEF Flush
<1>2. CASE result # None
    <2>1. phase' = "write_result" /\ UNCHANGED status
        BY <1>2 DEF WriteFrontier
    <2>2. Shapes'
        BY <1>0, <1>1, <1>c, <2>1 DEF SessionInv, Shapes, Phases
    <2>3. Settling' /\ Flushed'
        BY <1>0, <1>1, <1>2, <2>1 DEF SessionInv, Settling, Flushed, Earned, Late, Flush
    <2> QED BY <1>0, <1>2, <1>c, <2>1, <2>2, <2>3
        DEF SessionInv, Running, Flushing, Ended, Written, Flush, Early
<1>3. CASE result = None
    <2>0. IsTurn(turn) /\ status = "completed" /\ (IF turn.keep THEN Accounts(trace, memo.unknown) ELSE Earned)
        BY <1>0, <1>3 DEF SessionInv, Flushing, Flush
    <2>1. \/ phase' = "end" /\ UNCHANGED status /\ ~turn.keep
          \/ phase' = "end" /\ status' = "budget_exhausted"
          \/ phase' = "turn" /\ UNCHANGED status /\ turn.keep
        BY <1>3 DEF WriteFrontier, Leave
    <2>2. Shapes'
        BY <1>0, <1>1, <1>c, <2>1 DEF SessionInv, Shapes, Phases, Statuses
    <2>3. Running'
        BY <1>0, <1>3, <2>0, <2>1 DEF SessionInv, Running, Early, Accounts
    <2>4. Ended'
        BY <1>0, <1>3, <2>0, <2>1 DEF Ended, Earned
    <2> QED BY <1>0, <1>3, <1>c, <2>1, <2>2, <2>3, <2>4
        DEF SessionInv, Flushing, Settling, Flushed, Written, Flush
<1> QED BY <1>2, <1>3

(* The result takes the cause of an abort, or the status that was earned. *)
LEMMA CloseOK == SessionInv /\ Close => SessionInv'
<1> SUFFICES ASSUME SessionInv, Close PROVE SessionInv'
    OBVIOUS
<1> DEFINE final == IF cause # None THEN cause ELSE status
<1>0. PICK outcome \in Completions \cup {None} :
        /\ phase = "end" /\ phase' = "write_evidence" /\ status' = final
        /\ result' = [status |-> final, proposal |-> proposal, outcome |-> outcome]
        /\ UNCHANGED <<cause, proposal, trace, memo, disk>>
    BY CompletionIsOne DEF Close, outVars
<1>1. final \in Statuses
    BY DEF SessionInv, Shapes, Causes, Statuses
<1>2. result' \in Results /\ result'.status = final
    BY <1>0, <1>1 DEF SessionInv, Shapes, Results
<1>3. result' # None
    BY <1>2, SessionAssumption
<1>4. Shapes'
    BY <1>0, <1>1 DEF SessionInv, Shapes, Phases, Flush
<1>5. Settling'
    BY <1>0, <1>2 DEF SessionInv, Shapes, Causes, Ended, Settling, Earned, Late, Flush
<1>6. Tearing'
    BY <1>0 DEF SessionInv, Shapes, Tearing, Flush
<1> QED BY <1>0, <1>3, <1>4, <1>5, <1>6
    DEF SessionInv, Running, Flushing, Ended, Flushed, Written, Flush, Late, Early

LEMMA WriteResultOK == SessionInv /\ WriteResult => SessionInv'
<1> SUFFICES ASSUME SessionInv, WriteResult PROVE SessionInv'
    OBVIOUS
<1>0. /\ phase = "write_result" /\ phase' = "done"
      /\ UNCHANGED <<status, cause, proposal, trace, memo, turn, disk, result, evidence, candidates, ledger>>
    BY DEF WriteResult, outVars, endVars
<1>1. Shapes'
    BY <1>0 DEF SessionInv, Shapes, Phases
<1>2. Settling' /\ Flushed' /\ Written'
    BY <1>0 DEF SessionInv, Settling, Flushed, Written, Earned, Late, Flush
<1>3. Tearing'
    BY <1>0 DEF SessionInv, Shapes, Tearing, Flush
<1> QED BY <1>0, <1>1, <1>2, <1>3
    DEF SessionInv, Running, Flushing, Ended, Flush, Early

LEMMA AbortOK == ASSUME NEW why \in Causes PROVE SessionInv /\ Abort(why) => SessionInv'
<1> SUFFICES ASSUME SessionInv, Abort(why) PROVE SessionInv'
    OBVIOUS
<1>0. /\ cause' = why /\ result = None /\ phase # "end"
      /\ UNCHANGED <<phase, status, proposal, trace, memo, turn, disk, result>>
    BY DEF Abort, outVars, endVars
<1>1. Shapes'
    BY <1>0 DEF SessionInv, Shapes
<1>2. Running' /\ Flushing'
    BY <1>0 DEF SessionInv, Running, Flushing, Accounts, IsTurn, Counted, Accepted, Refused, Earned, Verdict
<1>3. Tearing'
    BY <1>0, SessionAssumption DEF Tearing, Causes, Statuses
<1> QED BY <1>0, <1>1, <1>2, <1>3 DEF SessionInv, Ended, Settling, Flushed, Written

LEMMA AbortBitesOK == SessionInv /\ AbortBites => SessionInv'
BY LeaveStep DEF AbortBites, endVars, Early, Late, Flush, SessionInv, Shapes

LEMMA RunFailsOK == SessionInv /\ RunFails => SessionInv'
BY LeaveStep DEF RunFails, Leave, outVars, endVars, SessionInv, Shapes, Statuses

LEMMA BeaconOK == SessionInv /\ Beacon => SessionInv'
<1> SUFFICES ASSUME SessionInv, Beacon PROVE SessionInv'
    OBVIOUS
<1>0. /\ phase \in {"ask", "act"} /\ turn' = [turn EXCEPT !.refusedNow = TRUE]
      /\ UNCHANGED <<phase, status, cause, proposal, trace, memo, disk, result>>
    BY DEF Beacon, outVars, endVars
<1>1. IsTurn(turn') /\ UNCHANGED <<turn.denial, turn.action, turn.keep>>
    BY <1>0 DEF SessionInv, Running, IsTurn
<1>2. Running'
    BY <1>0, <1>1 DEF SessionInv, Running, Counted, Accounts, Verdict
<1> QED BY <1>0, <1>2, EarlyStep DEF SessionInv, Shapes, Running, Early

LEMMA StepOK == SessionInv /\ [Next]_vars => SessionInv'
<1> SUFFICES ASSUME SessionInv, [Next]_vars PROVE SessionInv'
    OBVIOUS
<1>1. CASE UNCHANGED vars
    BY <1>1
    DEF vars, SessionInv, Shapes, Running, Flushing, Ended, Settling, Flushed, Tearing, Written, IsTurn,
        Counted, Accepted, Refused, Accounts, Earned, Verdict
<1> QED
    BY <1>1, OpenOK, TurnLimitedOK, ObserveTurnOK, ModelAnswersOK, SchedulerAnswersOK, ProviderFailsOK,
       Execute1OK, RecordOK, TruncateOK, WriteEvidenceOK, WriteCandidatesOK, WriteFrontierOK, CloseOK,
       WriteResultOK, AbortOK, AbortBitesOK, RunFailsOK, BeaconOK
    DEF Next

(* The phases, the counts and the files of a session agree in every state
   (executor.ts runSession, run, turn). *)
THEOREM SessionAgrees == Spec => []SessionInv
BY InitOK, StepOK, PTL DEF Spec

(* A session is reported completed only when its provider finished it or gave
   up, and never when it was aborted first (executor.ts turn, runSession). *)
THEOREM CompletedOnlyWhenEarned == Spec => []CompletedIsEarned
<1>1. SessionInv => CompletedIsEarned
    BY DEF SessionInv, Settling, Earned, CompletedIsEarned
<1> QED BY <1>1, SessionAgrees, PTL

(* The first cause of an abort is what the result reports, whatever the turn
   it cut short had decided (executor.ts runSession). *)
AbortIsReported == result # None /\ cause # None => result.status = cause
THEOREM AbortReported == Spec => []AbortIsReported
<1>1. SessionInv => AbortIsReported
    BY DEF SessionInv, Settling, AbortIsReported
<1> QED BY <1>1, SessionAgrees, PTL

(* However a session ended, the files it leaves hold all it had: its result,
   every record, every candidate and the ledger (executor.ts runSession, the
   last flush). *)
FilesAreWhole ==
    phase = "done" =>
        /\ result \in Results
        /\ disk = [evidence |-> Len(evidence), candidates |-> candidates, frontier |-> ledger, begun |-> {}]
THEOREM FinalFilesWhole == Spec => []FilesAreWhole
<1>1. SessionInv => FilesAreWhole
    BY DEF SessionInv, Shapes, Settling, Flushed, Written, FilesAreWhole, Late, Flush
<1> QED BY <1>1, SessionAgrees, PTL

-----------------------------------------------------------------------------
(* Folds. FoldLeft is defined by a recursive choice over sets of positions; it
   has the value of a chain of steps, one per element, since every set of
   positions has a greatest member and the numbers are well founded. *)

(* One element of each of the folds of the model, named by c. *)
Apply(c, acc, x) ==
  CASE c.kind = "store" -> StoreCandidate(acc, x)
    [] c.kind = "record" -> RecordEvidence(acc, c.before + x, c.new[x])
    [] c.kind = "page" -> IF x = c.url THEN acc ELSE AddPage(acc, x, c.page)
    [] c.kind = "control" -> IF x.probe = None THEN acc ELSE AddObligation(acc, c.page, x.probe, x.subject)
    [] c.kind = "links" -> IF x.subject \in c.expanded THEN acc \o x.reveals ELSE acc
    [] c.kind = "enqueue" -> (LET key == <<x.category, c.page, x.target>>
                             IN  IF key \in acc.reported THEN acc ELSE Queued(acc, key, x))
    [] c.kind = "picked" -> IF x \in c.from THEN Append(acc, x) ELSE acc
    [] OTHER -> acc

(* The function a fold computes by recursion, on the sets of positions of s. *)
Folds(f, c, base, s, n) ==
  f = [P \in SUBSET (1..n) |-> IF P = {} THEN base ELSE Apply(c, f[P \ {Max(P)}], s[Max(P)])]

(* Its value after each element. *)
Chain(g, c, base, s) ==
  g[0] = base /\ \A k \in 1..Len(s) : g[k] = Apply(c, g[k-1], s[k])

FoldsTo(v, c, base, s) == \E g : Chain(g, c, base, s) /\ v = g[Len(s)]

LEMMA NatLess == IsWellFoundedOn({ss \in Nat \X Nat : ss[1] < ss[2]}, Nat)
BY NatLessThanWellFounded DEF OpToRel

LEMMA LeastOf == ASSUME NEW T, T \subseteq Nat, T # {} PROVE \E x \in T : \A y \in T : x <= y
<1>1. PICK x \in T : \A y \in T : ~ (<<y, x>> \in {ss \in Nat \X Nat : ss[1] < ss[2]})
  BY NatLess, WFMin
<1>2. ASSUME NEW y \in T PROVE x <= y
  <2>1. x \in Nat /\ y \in Nat OBVIOUS
  <2>2. ~ (y < x)
    <3>1. <<y, x>> \in Nat \X Nat /\ <<y, x>>[1] = y /\ <<y, x>>[2] = x
      BY <2>1
    <3>2. y < x => <<y, x>> \in {ss \in Nat \X Nat : ss[1] < ss[2]}
      BY <3>1
    <3> QED BY <1>1, <3>2
  <2> QED BY <2>1, <2>2
<1> QED BY <1>1, <1>2

(* Induction up to n, for a property given as the set of numbers that have it. *)
LEMMA UpTo ==
    ASSUME NEW n \in Nat, NEW T, 0 \in T, \A k \in 1..n : k - 1 \in T => k \in T
    PROVE  n \in T
<1> SUFFICES ASSUME n \notin T PROVE FALSE
    OBVIOUS
<1> DEFINE B == {k \in 0..n : k \notin T}
<1>1. PICK k \in B : \A y \in B : k <= y
  <2>1. B \subseteq Nat /\ n \in B OBVIOUS
  <2> QED BY <2>1, LeastOf
<1>2. k \in 1..n /\ k - 1 \in 0..n /\ k-1 \notin B
  BY <1>1
<1> QED BY <1>1, <1>2

LEMMA MaxOf ==
    ASSUME NEW n \in Nat, NEW P \in SUBSET (1..n), P # {}
    PROVE  Max(P) \in P /\ \A y \in P : Max(P) >= y
<1> DEFINE T == {n - y : y \in P}
<1>1. T \subseteq Nat /\ T # {}
  OBVIOUS
<1>2. PICK x \in T : \A y \in T : x <= y
  BY <1>1, LeastOf
<1>3. PICK z \in P : x = n - z
  BY <1>2
<1>4. ASSUME NEW y \in P PROVE z >= y
  <2>1. n - y \in T OBVIOUS
  <2> QED BY <1>2, <1>3, <2>1
<1>5. \E x1 \in P : \A y \in P : x1 >= y
  BY <1>4
<1> QED BY <1>5 DEF Max

LEMMA FoldExists ==
    ASSUME NEW c, NEW base, NEW s, NEW n \in Nat
    PROVE  \E f : Folds(f, c, base, s, n)
<1> DEFINE T == {k \in Nat : \E f : Folds(f, c, base, s, k)}
<1>1. 0 \in T
  <2> DEFINE f == [P \in SUBSET (1..0) |-> base]
  <2>1. \A P \in SUBSET (1..0) : P = {}
    OBVIOUS
  <2>2. Folds(f, c, base, s, 0)
    BY <2>1 DEF Folds
  <2> QED BY <2>2
<1>2. ASSUME NEW k \in 1..n, k - 1 \in T PROVE k \in T
  <2>1. PICK f : Folds(f, c, base, s, k-1)
    BY <1>2
  <2> DEFINE h == [P \in SUBSET (1..k) |-> IF k \in P THEN Apply(c, f[P \ {k}], s[k]) ELSE f[P]]
             body(P) == IF P = {} THEN base ELSE Apply(c, h[P \ {Max(P)}], s[Max(P)])
  <2>2. ASSUME NEW P \in SUBSET (1..k) PROVE h[P] = body(P)
    <3>1. CASE k \in P
      <4>0. k \in Nat /\ P # {}
        BY <3>1
      <4>a. Max(P) \in P /\ \A y \in P : Max(P) >= y
        BY <4>0, MaxOf
      <4>b. Max(P) \in 1..k /\ Max(P) >= k
        BY <3>1, <4>a
      <4>1. Max(P) = k
        BY <4>0, <4>b
      <4>2. P \ {k} \in SUBSET (1..k) /\ k \notin P \ {k}
        OBVIOUS
      <4>3. h[P \ {k}] = f[P \ {k}]
        BY <4>2
      <4> QED BY <3>1, <4>1, <4>3
    <3>2. CASE k \notin P
      <4>1. P \in SUBSET (1..(k-1))
        BY <3>2
      <4>2. f[P] = IF P = {} THEN base ELSE Apply(c, f[P \ {Max(P)}], s[Max(P)])
        BY <2>1, <4>1 DEF Folds
      <4>3. CASE P # {}
        <5>1. P \ {Max(P)} \in SUBSET (1..k) /\ k \notin P \ {Max(P)}
          BY <3>2
        <5>2. h[P \ {Max(P)}] = f[P \ {Max(P)}]
          BY <5>1
        <5> QED BY <3>2, <4>2, <4>3, <5>2
      <4>4. CASE P = {}
        BY <3>2, <4>2, <4>4
      <4> QED BY <4>3, <4>4
    <3> QED BY <3>1, <3>2
  <2>3. h = [P \in SUBSET (1..k) |-> body(P)]
    BY <2>2
  <2>4. Folds(h, c, base, s, k)
    BY <2>3 DEF Folds
  <2> QED BY <2>4
<1> QED BY <1>1, <1>2, UpTo

LEMMA FoldChain ==
    ASSUME NEW c, NEW base, NEW S, NEW s \in Seq(S), NEW f, Folds(f, c, base, s, Len(s))
    PROVE  \E g : Chain(g, c, base, s) /\ f[1..Len(s)] = g[Len(s)]
<1> DEFINE g == [k \in 0..Len(s) |-> f[1..k]]
<1>1. 1..0 = {} OBVIOUS
<1>2. g[0] = base
  BY <1>1 DEF Folds
<1>3. ASSUME NEW k \in 1..Len(s) PROVE g[k] = Apply(c, g[k-1], s[k])
  <2>0. Len(s) \in Nat
    OBVIOUS
  <2>1. 1..k \in SUBSET (1..Len(s)) /\ k \in 1..k /\ k-1 \in 0..Len(s) /\ k \in 0..Len(s)
    BY <2>0
  <2>a. Max(1..k) \in 1..k /\ \A y \in 1..k : Max(1..k) >= y
    BY <2>0, <2>1, MaxOf
  <2>2. Max(1..k) = k
    BY <2>0, <2>1, <2>a
  <2>3. (1..k) \ {k} = 1..(k-1)
    OBVIOUS
  <2>4. f[1..k] = Apply(c, f[(1..k) \ {Max(1..k)}], s[Max(1..k)])
    BY <2>1 DEF Folds
  <2> QED BY <2>1, <2>2, <2>3, <2>4
<1>4. Chain(g, c, base, s)
  BY <1>2, <1>3 DEF Chain
<1>5. f[1..Len(s)] = g[Len(s)]
  OBVIOUS
<1> QED BY <1>4, <1>5


LEMMA FoldValue ==
    ASSUME NEW c, NEW base, NEW S, NEW s \in Seq(S), NEW h,
           (\E f : Folds(f, c, base, s, Len(s))) => Folds(h, c, base, s, Len(s))
    PROVE  FoldsTo(h[1..Len(s)], c, base, s)
<1>1. Len(s) \in Nat
  OBVIOUS
<1>2. Folds(h, c, base, s, Len(s))
  BY <1>1, FoldExists
<1> QED BY <1>2, FoldChain DEF FoldsTo

LEMMA StoreFold ==
    ASSUME NEW S, NEW s \in Seq(S), NEW base
    PROVE  FoldsTo(FoldLeft(StoreCandidate, base, s),
                   [kind |-> "store"], base, s)
<1> DEFINE c == [kind |-> "store"]
           Eq(f) == f = [P \in SUBSET (1..Len(s)) |->
                           IF P = {} THEN base ELSE LET i == Max(P) IN StoreCandidate(f[P \ {i}], s[i])]
           h == CHOOSE f : Eq(f)
<1>1. FoldLeft(StoreCandidate, base, s) = h[1..Len(s)]
  <2>1. DOMAIN s = 1..Len(s)
    OBVIOUS
  <2> QED BY <2>1, Zenon DEF FoldLeft, MapThenFoldSet, Max
<1>2. \A f : Eq(f) <=> Folds(f, c, base, s, Len(s))
  BY DEF Folds, Apply
<1>3. (\E f : Folds(f, c, base, s, Len(s))) => Folds(h, c, base, s, Len(s))
  BY <1>2
<1> HIDE DEF c, Eq, h
<1> QED BY <1>1, <1>3, FoldValue DEF c

LEMMA RecordFold ==
    ASSUME NEW base, NEW before, NEW S, NEW new \in Seq(S)
    PROVE  FoldsTo(RecordAll(base, before, new),
                   [kind |-> "record", before |-> before, new |-> new], base, [k \in DOMAIN new |-> k])
<1> DEFINE s == [k \in DOMAIN new |-> k]
           c == [kind |-> "record", before |-> before, new |-> new]
           Eq(f) == f = [P \in SUBSET (1..Len(s)) |->
                           IF P = {} THEN base ELSE LET i == Max(P) IN RecordEvidence(f[P \ {i}], before + s[i], new[s[i]])]
           h == CHOOSE f : Eq(f)
<1>0. s \in Seq(Nat)
  OBVIOUS
<1>1. RecordAll(base, before, new) = h[1..Len(s)]
  <2>1. DOMAIN s = 1..Len(s)
    OBVIOUS
  <2> QED BY <2>1, Zenon DEF RecordAll, FoldLeft, MapThenFoldSet, Max
<1>2. \A f : Eq(f) <=> Folds(f, c, base, s, Len(s))
  BY DEF Folds, Apply
<1>3. (\E f : Folds(f, c, base, s, Len(s))) => Folds(h, c, base, s, Len(s))
  BY <1>2
<1> HIDE DEF c, Eq, h, s
<1> QED BY <1>0, <1>1, <1>3, FoldValue DEF c, s

LEMMA PageFold ==
    ASSUME NEW S, NEW s \in Seq(S), NEW base, NEW u, NEW p
    PROVE  FoldsTo(AddLinked(base, p, u, s),
                   [kind |-> "page", url |-> u, page |-> p], base, s)
<1> DEFINE c == [kind |-> "page", url |-> u, page |-> p]
           Eq(f) == f = [P \in SUBSET (1..Len(s)) |->
                           IF P = {} THEN base ELSE LET i == Max(P) IN IF s[i] = u THEN f[P \ {i}] ELSE AddPage(f[P \ {i}], s[i], p)]
           h == CHOOSE f : Eq(f)
<1>1. AddLinked(base, p, u, s) = h[1..Len(s)]
  <2>1. DOMAIN s = 1..Len(s)
    OBVIOUS
  <2> QED BY <2>1, Zenon DEF AddLinked, FoldLeft, MapThenFoldSet, Max
<1>2. \A f : Eq(f) <=> Folds(f, c, base, s, Len(s))
  BY DEF Folds, Apply
<1>3. (\E f : Folds(f, c, base, s, Len(s))) => Folds(h, c, base, s, Len(s))
  BY <1>2
<1> HIDE DEF c, Eq, h
<1> QED BY <1>1, <1>3, FoldValue DEF c

LEMMA ControlFold ==
    ASSUME NEW S, NEW s \in Seq(S), NEW base, NEW p
    PROVE  FoldsTo(AddControls(base, p, s),
                   [kind |-> "control", page |-> p], base, s)
<1> DEFINE c == [kind |-> "control", page |-> p]
           Eq(f) == f = [P \in SUBSET (1..Len(s)) |->
                           IF P = {} THEN base ELSE LET i == Max(P) IN IF s[i].probe = None THEN f[P \ {i}] ELSE AddObligation(f[P \ {i}], p, s[i].probe, s[i].subject)]
           h == CHOOSE f : Eq(f)
<1>1. AddControls(base, p, s) = h[1..Len(s)]
  <2>1. DOMAIN s = 1..Len(s)
    OBVIOUS
  <2> QED BY <2>1, Zenon DEF AddControls, FoldLeft, MapThenFoldSet, Max
<1>2. \A f : Eq(f) <=> Folds(f, c, base, s, Len(s))
  BY DEF Folds, Apply
<1>3. (\E f : Folds(f, c, base, s, Len(s))) => Folds(h, c, base, s, Len(s))
  BY <1>2
<1> HIDE DEF c, Eq, h
<1> QED BY <1>1, <1>3, FoldValue DEF c

LEMMA LinksFold ==
    ASSUME NEW S, NEW s \in Seq(S), NEW base, NEW e
    PROVE  FoldsTo(Revealed(base, s, e),
                   [kind |-> "links", expanded |-> e], base, s)
<1> DEFINE c == [kind |-> "links", expanded |-> e]
           Eq(f) == f = [P \in SUBSET (1..Len(s)) |->
                           IF P = {} THEN base ELSE LET i == Max(P) IN IF s[i].subject \in e THEN f[P \ {i}] \o s[i].reveals ELSE f[P \ {i}]]
           h == CHOOSE f : Eq(f)
<1>1. Revealed(base, s, e) = h[1..Len(s)]
  <2>1. DOMAIN s = 1..Len(s)
    OBVIOUS
  <2> QED BY <2>1, Zenon DEF Revealed, FoldLeft, MapThenFoldSet, Max
<1>2. \A f : Eq(f) <=> Folds(f, c, base, s, Len(s))
  BY DEF Folds, Apply
<1>3. (\E f : Folds(f, c, base, s, Len(s))) => Folds(h, c, base, s, Len(s))
  BY <1>2
<1> HIDE DEF c, Eq, h
<1> QED BY <1>1, <1>3, FoldValue DEF c

LEMMA EnqueueFold ==
    ASSUME NEW S, NEW s \in Seq(S), NEW base, NEW p
    PROVE  FoldsTo(Enqueue(base, p, s),
                   [kind |-> "enqueue", page |-> p], base, s)
<1> DEFINE c == [kind |-> "enqueue", page |-> p]
           Eq(f) == f = [P \in SUBSET (1..Len(s)) |->
                           IF P = {} THEN base ELSE LET i == Max(P) IN LET key == <<s[i].category, p, s[i].target>> IN IF key \in f[P \ {i}].reported THEN f[P \ {i}] ELSE Queued(f[P \ {i}], key, s[i])]
           h == CHOOSE f : Eq(f)
<1>1. Enqueue(base, p, s) = h[1..Len(s)]
  <2>1. DOMAIN s = 1..Len(s)
    OBVIOUS
  <2> QED BY <2>1, Zenon DEF Enqueue, FoldLeft, MapThenFoldSet, Max
<1>2. \A f : Eq(f) <=> Folds(f, c, base, s, Len(s))
  BY DEF Folds, Apply
<1>3. (\E f : Folds(f, c, base, s, Len(s))) => Folds(h, c, base, s, Len(s))
  BY <1>2
<1> HIDE DEF c, Eq, h
<1> QED BY <1>1, <1>3, FoldValue DEF c

LEMMA PickedFold ==
    ASSUME NEW S, NEW s \in Seq(S), NEW F
    PROVE  FoldsTo(Picked(s, F), [kind |-> "picked", from |-> F], <<>>, s)
<1> DEFINE c == [kind |-> "picked", from |-> F]
           Eq(f) == f = [P \in SUBSET (1..Len(s)) |->
                           IF P = {} THEN <<>> ELSE LET i == Max(P) IN IF s[i] \in F THEN Append(f[P \ {i}], s[i]) ELSE f[P \ {i}]]
           h == CHOOSE f : Eq(f)
<1>1. Picked(s, F) = h[1..Len(s)]
  <2>1. DOMAIN s = 1..Len(s)
    OBVIOUS
  <2> QED BY <2>1, Zenon DEF Picked, FoldLeft, MapThenFoldSet, Max
<1>2. \A f : Eq(f) <=> Folds(f, c, <<>>, s, Len(s))
  BY DEF Folds, Apply
<1>3. (\E f : Folds(f, c, <<>>, s, Len(s))) => Folds(h, c, <<>>, s, Len(s))
  BY <1>2
<1> HIDE DEF c, Eq, h
<1> QED BY <1>1, <1>3, FoldValue DEF c

-----------------------------------------------------------------------------
(* The ledger: its shape, what its entries cite, and what it never takes back. *)

Marks == {"pending", "executed", "blocked", "deferred"}

IsPage(p) == p = [url |-> p.url, source |-> p.source, modelVisible |-> p.modelVisible, visited |-> p.visited]

IsObligation(ob) ==
    ob = [page |-> ob.page, probe |-> ob.probe, subject |-> ob.subject, status |-> ob.status,
          reason |-> ob.reason, cites |-> ob.cites]

(* The shape of a ledger: a page has one entry, an obligation a page. *)
HasFields(L) ==
    L = [pages |-> L.pages, obligations |-> L.obligations, states |-> L.states, truncated |-> L.truncated,
         last |-> L.last, skipRefs |-> L.skipRefs, openDialog |-> L.openDialog, capped |-> L.capped]

IsLedger(L) ==
    /\ HasFields(L)
    /\ IsSeq(L.pages) /\ IsSeq(L.obligations) /\ Len(L.pages) <= MaxPages
    /\ \A p \in DOMAIN L.pages : IsPage(L.pages[p])
    /\ \A p, q \in DOMAIN L.pages : L.pages[p].url = L.pages[q].url => p = q
    /\ \A i \in DOMAIN L.obligations :
         /\ IsObligation(L.obligations[i])
         /\ L.obligations[i].page \in DOMAIN L.pages /\ L.obligations[i].status \in Marks
         /\ L.obligations[i].status = "deferred" => L.obligations[i].probe = "skip_link"

(* What is executed cites a probe that ran, among the first n records. *)
Proven(ev, ob, url, n) ==
    /\ ob.cites \subseteq 1..n
    /\ IF ob.status = "executed" THEN Probed(ev, ob.cites, url, ob.probe, ob.subject) ELSE ob.cites = {}

(* The activation that opened a dialog, among the first n records. *)
Opening(ev, d, url, n) ==
    /\ d.activated \in 1..n /\ ev[d.activated].before = url
    /\ ev[d.activated].kind = "activate" /\ ev[d.activated].target = d.subject

Filed(ev, L, n) ==
    /\ IsLedger(L)
    /\ \A i \in DOMAIN L.obligations : Proven(ev, L.obligations[i], L.pages[L.obligations[i].page].url, n)
    /\ L.openDialog # None =>
         L.openDialog.page \in DOMAIN L.pages /\ Opening(ev, L.openDialog, L.pages[L.openDialog.page].url, n)

(* A page was told of its skip link, or the ledger was cut. *)
Owes(L) == \A p \in DOMAIN L.pages : Keyed(L, p, "skip_link", None) # {} \/ "obligations" \in L.truncated

Skips(url) == {c.subject : c \in {d \in ToSet(Site[url].controls) : d.skip # "no"}}

(* What a ledger never takes back. *)
Grows(L, M) ==
    /\ Len(L.pages) <= Len(M.pages) /\ Len(L.obligations) <= Len(M.obligations)
    /\ \A p \in DOMAIN L.pages : /\ M.pages[p].url = L.pages[p].url
                                 /\ L.pages[p].visited => M.pages[p].visited
    /\ \A i \in DOMAIN L.obligations :
         /\ M.obligations[i].page = L.obligations[i].page
         /\ M.obligations[i].probe = L.obligations[i].probe
         /\ M.obligations[i].subject = L.obligations[i].subject
         /\ L.obligations[i].status = "executed" => M.obligations[i].status = "executed"
         /\ M.obligations[i].status = "deferred" =>
              L.obligations[i].status = "deferred" \/ Skips(L.pages[L.obligations[i].page].url) = {}
    /\ \A i \in DOMAIN M.obligations \ DOMAIN L.obligations :
         M.obligations[i].probe = "semantics" => M.obligations[i].page \notin DOMAIN L.pages
    /\ L.truncated \subseteq M.truncated

(* The ledger knows a URL, or is full. *)
Known(L, url) == PageNo(L, url) # 0 \/ Len(L.pages) >= MaxPages

(* An inspected page that the ledger knows owes no semantics. *)
Inspected0(L, url) ==
    /\ Known(L, url)
    /\ PageNo(L, url) # 0 =>
         \A i \in Keyed(L, PageNo(L, url), "semantics", None) : L.obligations[i].status = "executed"

(* What was seen on a page is an obligation of it, or the ledger was cut. *)
Covered(L, t) ==
    \/ L.truncated \cap {"pages", "obligations"} # {}
    \/ \E p \in DOMAIN L.pages :
         /\ L.pages[p].url = t[1] /\ L.pages[p].visited
         /\ \E i \in Keyed(L, p, t[2], t[3]) : L.obligations[i].status # "deferred"

-----------------------------------------------------------------------------
LEMMA SeqFacts ==
    ASSUME NEW s, IsSeq(s)
    PROVE  /\ Len(s) \in Nat /\ DOMAIN s = 1..Len(s) /\ s \in Seq(ToSet(s))
           /\ \A x : /\ IsSeq(Append(s, x)) /\ Len(Append(s, x)) = Len(s) + 1
                     /\ DOMAIN Append(s, x) = 1..(Len(s) + 1)
                     /\ \A i \in 1..Len(s) : Append(s, x)[i] = s[i]
                     /\ Append(s, x)[Len(s) + 1] = x
<1>1. s \in Seq(ToSet(s)) /\ Len(s) \in Nat /\ DOMAIN s = 1..Len(s)
    BY DEF IsSeq
<1>2. ASSUME NEW x
      PROVE  /\ IsSeq(Append(s, x)) /\ Len(Append(s, x)) = Len(s) + 1
             /\ DOMAIN Append(s, x) = 1..(Len(s) + 1)
             /\ \A i \in 1..Len(s) : Append(s, x)[i] = s[i]
             /\ Append(s, x)[Len(s) + 1] = x
    <2>1. /\ Len(Append(s, x)) = Len(s) + 1 /\ DOMAIN Append(s, x) = 1..(Len(s) + 1)
          /\ \A i \in 1..Len(s) : Append(s, x)[i] = s[i]
          /\ Append(s, x)[Len(s) + 1] = x
        BY <1>1
    <2>2. ToSet(Append(s, x)) = ToSet(s) \cup {x}
        BY <1>1, <2>1 DEF ToSet
    <2>3. Append(s, x) \in Seq(ToSet(s) \cup {x})
        BY <1>1
    <2> QED BY <2>1, <2>2, <2>3 DEF IsSeq
<1> QED BY <1>1, <1>2

LEMMA SeqIsSeq == ASSUME NEW S, NEW s \in Seq(S) PROVE IsSeq(s)
<1>1. s \in [1..Len(s) -> ToSet(s)] /\ Len(s) \in Nat
    BY DEF ToSet
<1> QED BY <1>1 DEF IsSeq

LEMMA MapIsSeq ==
    ASSUME NEW s, IsSeq(s), NEW t, t = [i \in DOMAIN s |-> t[i]]
    PROVE  IsSeq(t) /\ Len(t) = Len(s) /\ DOMAIN t = DOMAIN s
<1>1. Len(s) \in Nat /\ DOMAIN s = 1..Len(s)
    BY SeqFacts
<1>2. t \in [1..Len(s) -> ToSet(t)]
    BY <1>1 DEF ToSet
<1>3. t \in Seq(ToSet(t))
    BY <1>1, <1>2
<1> QED BY <1>1, <1>2, <1>3 DEF IsSeq

LEMMA PageNoIs ==
    ASSUME NEW L, IsLedger(L), NEW url
    PROVE  /\ PageNo(L, url) # 0 => PageNo(L, url) \in DOMAIN L.pages /\ L.pages[PageNo(L, url)].url = url
           /\ \A p \in DOMAIN L.pages : L.pages[p].url = url => PageNo(L, url) = p
           /\ PageNo(L, url) = 0 => \A p \in DOMAIN L.pages : L.pages[p].url # url
<1>1. DOMAIN L.pages = 1..Len(L.pages) /\ Len(L.pages) \in Nat
    BY SeqFacts DEF IsLedger
<1>2. \A p, q \in DOMAIN L.pages : L.pages[p].url = L.pages[q].url => p = q
    BY DEF IsLedger
<1> DEFINE known == {p \in DOMAIN L.pages : L.pages[p].url = url}
<1>3. CASE known = {}
    <2>1. PageNo(L, url) = 0
        BY <1>3 DEF PageNo
    <2> QED BY <1>1, <1>3, <2>1
<1>4. CASE known # {}
    <2>1. PageNo(L, url) = CHOOSE p \in known : TRUE
        BY <1>4 DEF PageNo
    <2>2. PageNo(L, url) \in known
        BY <1>4, <2>1
    <2>3. PageNo(L, url) # 0
        BY <1>1, <2>2
    <2> QED BY <1>2, <2>2, <2>3
<1> QED BY <1>3, <1>4
-----------------------------------------------------------------------------
LEMMA GrowsSame == ASSUME NEW L, IsLedger(L) PROVE Grows(L, L)
<1>1. Len(L.pages) \in Nat /\ Len(L.obligations) \in Nat
    BY SeqFacts DEF IsLedger
<1> QED BY <1>1 DEF Grows

LEMMA GrowsFurther ==
    ASSUME NEW L, NEW M, NEW N, IsLedger(L), IsLedger(M), IsLedger(N), Grows(L, M), Grows(M, N)
    PROVE  Grows(L, N)
<1>1. /\ Len(L.pages) \in Nat /\ Len(L.obligations) \in Nat /\ DOMAIN L.pages = 1..Len(L.pages) /\ DOMAIN L.obligations = 1..Len(L.obligations)
      /\ Len(M.pages) \in Nat /\ Len(M.obligations) \in Nat /\ DOMAIN M.pages = 1..Len(M.pages) /\ DOMAIN M.obligations = 1..Len(M.obligations)
      /\ Len(N.pages) \in Nat /\ Len(N.obligations) \in Nat /\ DOMAIN N.pages = 1..Len(N.pages) /\ DOMAIN N.obligations = 1..Len(N.obligations)
    BY SeqFacts DEF IsLedger
<1>2. DOMAIN L.pages \subseteq DOMAIN M.pages /\ DOMAIN L.obligations \subseteq DOMAIN M.obligations
      /\ DOMAIN M.pages \subseteq DOMAIN N.pages /\ DOMAIN M.obligations \subseteq DOMAIN N.obligations
    BY <1>1 DEF Grows
<1>3. Len(L.pages) <= Len(N.pages) /\ Len(L.obligations) <= Len(N.obligations) /\ L.truncated \subseteq N.truncated
    BY <1>1 DEF Grows
<1>4. ASSUME NEW p \in DOMAIN L.pages
      PROVE  N.pages[p].url = L.pages[p].url /\ (L.pages[p].visited => N.pages[p].visited)
    BY <1>2 DEF Grows
<1>5. ASSUME NEW i \in DOMAIN L.obligations
      PROVE  /\ N.obligations[i].page = L.obligations[i].page
             /\ N.obligations[i].probe = L.obligations[i].probe
             /\ N.obligations[i].subject = L.obligations[i].subject
             /\ L.obligations[i].status = "executed" => N.obligations[i].status = "executed"
             /\ N.obligations[i].status = "deferred" =>
                  L.obligations[i].status = "deferred" \/ Skips(L.pages[L.obligations[i].page].url) = {}
    <2>1. i \in DOMAIN M.obligations /\ L.obligations[i].page \in DOMAIN L.pages
        BY <1>2 DEF IsLedger
    <2>2. M.pages[L.obligations[i].page].url = L.pages[L.obligations[i].page].url
        BY <2>1 DEF Grows
    <2>3. /\ M.obligations[i].page = L.obligations[i].page
          /\ M.obligations[i].probe = L.obligations[i].probe
          /\ M.obligations[i].subject = L.obligations[i].subject
          /\ L.obligations[i].status = "executed" => M.obligations[i].status = "executed"
          /\ M.obligations[i].status = "deferred" =>
               L.obligations[i].status = "deferred" \/ Skips(L.pages[L.obligations[i].page].url) = {}
        BY DEF Grows
    <2>4. /\ N.obligations[i].page = M.obligations[i].page
          /\ N.obligations[i].probe = M.obligations[i].probe
          /\ N.obligations[i].subject = M.obligations[i].subject
          /\ M.obligations[i].status = "executed" => N.obligations[i].status = "executed"
          /\ N.obligations[i].status = "deferred" =>
               M.obligations[i].status = "deferred" \/ Skips(M.pages[M.obligations[i].page].url) = {}
        BY <2>1 DEF Grows
    <2> QED BY <2>2, <2>3, <2>4
<1>6. ASSUME NEW i \in DOMAIN N.obligations \ DOMAIN L.obligations, N.obligations[i].probe = "semantics"
      PROVE  N.obligations[i].page \notin DOMAIN L.pages
    <2>1. CASE i \in DOMAIN M.obligations
        BY <1>6, <2>1 DEF Grows
    <2>2. CASE i \notin DOMAIN M.obligations
        BY <1>2, <1>6, <2>2 DEF Grows
    <2> QED BY <2>1, <2>2
<1> QED BY <1>3, <1>4, <1>5, <1>6 DEF Grows

(* What a ledger knows of a page it keeps knowing. *)
LEMMA GrowsKeeps ==
    ASSUME NEW L, NEW M, IsLedger(L), IsLedger(M), Grows(L, M)
    PROVE  /\ DOMAIN L.pages \subseteq DOMAIN M.pages
           /\ \A url : /\ PageNo(L, url) # 0 => PageNo(M, url) = PageNo(L, url)
                       /\ Known(L, url) => Known(M, url)
           /\ \A p \in DOMAIN L.pages : \A probe, subject :
                Keyed(L, p, probe, subject) \subseteq Keyed(M, p, probe, subject)
           /\ Owes(L) => \A p \in DOMAIN L.pages : Keyed(M, p, "skip_link", None) # {} \/ "obligations" \in M.truncated
<1>1. /\ Len(L.pages) \in Nat /\ Len(L.obligations) \in Nat /\ DOMAIN L.pages = 1..Len(L.pages) /\ DOMAIN L.obligations = 1..Len(L.obligations)
      /\ Len(M.pages) \in Nat /\ Len(M.obligations) \in Nat /\ DOMAIN M.pages = 1..Len(M.pages) /\ DOMAIN M.obligations = 1..Len(M.obligations)
    BY SeqFacts DEF IsLedger
<1>2. DOMAIN L.pages \subseteq DOMAIN M.pages /\ DOMAIN L.obligations \subseteq DOMAIN M.obligations
    BY <1>1 DEF Grows
<1>3. ASSUME NEW url, PageNo(L, url) # 0 PROVE PageNo(M, url) = PageNo(L, url)
    <2>1. PageNo(L, url) \in DOMAIN L.pages /\ L.pages[PageNo(L, url)].url = url
        BY <1>3, PageNoIs
    <2>2. PageNo(L, url) \in DOMAIN M.pages /\ M.pages[PageNo(L, url)].url = url
        BY <1>2, <2>1 DEF Grows
    <2> QED BY <2>2, PageNoIs
<1>4. ASSUME NEW url, Known(L, url) PROVE Known(M, url)
    BY <1>1, <1>3, <1>4, BoundsAssumption DEF Known, Grows
<1>5. ASSUME NEW p, NEW probe, NEW subject, NEW i \in Keyed(L, p, probe, subject)
      PROVE  i \in Keyed(M, p, probe, subject)
    BY <1>2 DEF Keyed, Grows
<1>6. ASSUME NEW p \in DOMAIN L.pages, Owes(L) PROVE Keyed(M, p, "skip_link", None) # {} \/ "obligations" \in M.truncated
    BY <1>5, <1>6 DEF Owes, Grows
<1> QED BY <1>2, <1>3, <1>4, <1>5, <1>6

LEMMA InspectedStays ==
    ASSUME NEW L, NEW M, IsLedger(L), IsLedger(M), Grows(L, M), NEW url, Inspected0(L, url)
    PROVE  Inspected0(M, url)
<1>1. Known(M, url)
    BY GrowsKeeps DEF Inspected0
<1>0. /\ Len(L.pages) \in Nat /\ Len(M.pages) \in Nat /\ DOMAIN L.pages = 1..Len(L.pages) /\ DOMAIN M.pages = 1..Len(M.pages)
      /\ Len(L.pages) <= MaxPages /\ Len(M.pages) <= MaxPages /\ Len(L.pages) <= Len(M.pages)
    BY SeqFacts DEF IsLedger, Grows
<1>2. ASSUME PageNo(M, url) # 0, NEW i \in Keyed(M, PageNo(M, url), "semantics", None)
      PROVE  M.obligations[i].status = "executed"
    <2> DEFINE p == PageNo(M, url)
    <2>1. p \in DOMAIN M.pages /\ M.pages[p].url = url
        BY <1>2, PageNoIs
    <2>2. PageNo(L, url) # 0
        <3> SUFFICES ASSUME PageNo(L, url) = 0 PROVE FALSE
            OBVIOUS
        <3>1. DOMAIN L.pages = DOMAIN M.pages
            BY <1>0, BoundsAssumption DEF Inspected0, Known
        <3>2. L.pages[p].url = url
            BY <2>1, <3>1 DEF Grows
        <3> QED BY <2>1, <3>1, <3>2, PageNoIs
    <2>3. PageNo(L, url) = p /\ p \in DOMAIN L.pages
        BY <2>2, GrowsKeeps, PageNoIs
    <2>4. i \in DOMAIN M.obligations /\ M.obligations[i].page = p /\ M.obligations[i].probe = "semantics"
          /\ M.obligations[i].subject = None
        BY <1>2 DEF Keyed
    <2>5. i \in DOMAIN L.obligations
        BY <2>3, <2>4 DEF Grows
    <2>6. i \in Keyed(L, p, "semantics", None)
        BY <2>4, <2>5 DEF Keyed, Grows
    <2>7. L.obligations[i].status = "executed"
        BY <2>2, <2>3, <2>6 DEF Inspected0
    <2> QED BY <2>5, <2>7 DEF Grows
<1> QED BY <1>1, <1>2 DEF Inspected0

(* What is covered stays covered, when a skip link that was seen is there. *)
LEMMA CoveredStays ==
    ASSUME NEW L, NEW M, IsLedger(L), IsLedger(M), Grows(L, M), NEW t, Covered(L, t),
           t[2] = "skip_link" => Skips(t[1]) # {}
    PROVE  Covered(M, t)
<1>1. CASE L.truncated \cap {"pages", "obligations"} # {}
    BY <1>1 DEF Covered, Grows
<1>2. CASE \E p \in DOMAIN L.pages :
             /\ L.pages[p].url = t[1] /\ L.pages[p].visited
             /\ \E i \in Keyed(L, p, t[2], t[3]) : L.obligations[i].status # "deferred"
    <2>a. PICK p \in DOMAIN L.pages :
             /\ L.pages[p].url = t[1] /\ L.pages[p].visited
             /\ \E i \in Keyed(L, p, t[2], t[3]) : L.obligations[i].status # "deferred"
        BY <1>2
    <2>1. PICK i \in Keyed(L, p, t[2], t[3]) : L.obligations[i].status # "deferred"
        BY <2>a
    <2>2. p \in DOMAIN M.pages /\ i \in Keyed(M, p, t[2], t[3])
        BY GrowsKeeps
    <2>3. M.pages[p].url = t[1] /\ M.pages[p].visited
        BY <2>a DEF Grows
    <2>4. i \in DOMAIN L.obligations /\ L.obligations[i].page = p /\ i \in DOMAIN M.obligations
          /\ M.obligations[i].probe = t[2]
        BY <2>2 DEF Keyed
    <2>5. M.obligations[i].status # "deferred"
        BY <2>a, <2>1, <2>4 DEF Grows, IsLedger
    <2> QED BY <2>2, <2>3, <2>5 DEF Covered
<1> QED BY <1>1, <1>2 DEF Covered

-----------------------------------------------------------------------------
(* The operators of the ledger keep it in order and only add to it. *)

LEMMA DropOK ==
    ASSUME NEW ev, NEW L, NEW n, Filed(ev, L, n), NEW kind
    PROVE  LET M == Drop(L, kind)
           IN  /\ Filed(ev, M, n) /\ Grows(L, M) /\ kind \in M.truncated
               /\ M.pages = L.pages /\ M.obligations = L.obligations /\ M.skipRefs = L.skipRefs
<1> DEFINE M == Drop(L, kind)
<1>a. IsLedger(L) /\ HasFields(L)
    BY DEF Filed, IsLedger
<1>1. /\ M = [pages |-> L.pages, obligations |-> L.obligations, states |-> L.states, truncated |-> L.truncated \cup {kind},
              last |-> L.last, skipRefs |-> L.skipRefs, openDialog |-> L.openDialog, capped |-> L.capped]
    BY <1>a DEF Drop, HasFields
<1> HIDE DEF M
<1>2. M.pages = L.pages /\ M.obligations = L.obligations /\ M.skipRefs = L.skipRefs /\ M.openDialog = L.openDialog
      /\ M.truncated = L.truncated \cup {kind}
    BY <1>1
<1>3. IsLedger(M)
    BY <1>1, <1>2 DEF Filed, IsLedger, HasFields
<1>4. Filed(ev, M, n)
    BY <1>2, <1>3 DEF Filed
<1>5. Len(L.pages) \in Nat /\ Len(L.obligations) \in Nat
    BY SeqFacts DEF Filed, IsLedger
<1>6. Grows(L, M)
    BY <1>2, <1>5 DEF Grows
<1> QED BY <1>2, <1>4, <1>6 DEF M

LEMMA AddObligationOK ==
    ASSUME NEW ev, NEW L, NEW n, Filed(ev, L, n), NEW p \in DOMAIN L.pages, NEW probe, NEW subject
    PROVE  LET M == AddObligation(L, p, probe, subject)
           IN  /\ Filed(ev, M, n) /\ M.pages = L.pages /\ M.skipRefs = L.skipRefs
               /\ L.truncated \subseteq M.truncated
               /\ probe # "semantics" => Grows(L, M)
               /\ "obligations" \in M.truncated \/ Keyed(M, p, probe, subject) # {}
               /\ Len(L.obligations) <= Len(M.obligations)
               /\ \A i \in DOMAIN L.obligations : M.obligations[i] = L.obligations[i]
               /\ \A i \in DOMAIN M.obligations \ DOMAIN L.obligations : M.obligations[i].page = p
<1> DEFINE M == AddObligation(L, p, probe, subject)
           ob == [page |-> p, probe |-> probe, subject |-> subject, status |-> "pending", reason |-> "none", cites |-> {}]
<1>a. IsLedger(L) /\ Len(L.obligations) \in Nat /\ DOMAIN L.obligations = 1..Len(L.obligations) /\ Len(L.pages) \in Nat
    BY SeqFacts DEF Filed, IsLedger
<1>1. CASE Keyed(L, p, probe, subject) # {}
    <2>1. M = L
        BY <1>1 DEF AddObligation
    <2> HIDE DEF M
    <2> QED BY <1>a, <1>1, <2>1, GrowsSame DEF M
<1>2. CASE Keyed(L, p, probe, subject) = {} /\ Len(L.obligations) >= MaxObligations
    <2>1. M = Drop(L, "obligations")
        BY <1>2 DEF AddObligation
    <2> HIDE DEF M
    <2> QED BY <1>a, <2>1, DropOK DEF M, Grows
<1>3. CASE Keyed(L, p, probe, subject) = {} /\ ~ (Len(L.obligations) >= MaxObligations)
    <2>1. M = [L EXCEPT !.obligations = Append(@, ob)]
        BY <1>3 DEF AddObligation
    <2>2. M = [pages |-> L.pages, obligations |-> Append(L.obligations, ob), states |-> L.states, truncated |-> L.truncated,
              last |-> L.last, skipRefs |-> L.skipRefs, openDialog |-> L.openDialog, capped |-> L.capped]
        BY <1>a, <2>1 DEF IsLedger, HasFields
    <2> HIDE DEF M
    <2>3. M.pages = L.pages /\ M.obligations = Append(L.obligations, ob) /\ M.skipRefs = L.skipRefs
          /\ M.openDialog = L.openDialog /\ M.truncated = L.truncated
        BY <2>2
    <2>4. /\ IsSeq(M.obligations) /\ DOMAIN M.obligations = 1..(Len(L.obligations) + 1)
          /\ Len(M.obligations) = Len(L.obligations) + 1
          /\ \A i \in 1..Len(L.obligations) : M.obligations[i] = L.obligations[i]
          /\ M.obligations[Len(L.obligations) + 1] = ob
        BY <1>a, <2>3, SeqFacts DEF IsLedger
    <2>5. IsObligation(ob) /\ ob.page = p /\ ob.probe = probe /\ ob.subject = subject /\ ob.status = "pending" /\ ob.cites = {}
        BY DEF IsObligation
    <2> HIDE DEF ob
    <2>6. \A i \in DOMAIN M.obligations : i \in DOMAIN L.obligations \/ i = Len(L.obligations) + 1
        BY <1>a, <2>4
    <2>7. IsLedger(M)
        <3>1. \A i \in DOMAIN M.obligations :
                 /\ IsObligation(M.obligations[i])
                 /\ M.obligations[i].page \in DOMAIN M.pages /\ M.obligations[i].status \in Marks
                 /\ M.obligations[i].status = "deferred" => M.obligations[i].probe = "skip_link"
            BY <1>a, <2>3, <2>4, <2>5, <2>6 DEF IsLedger, Marks
        <3> QED BY <1>a, <2>2, <2>3, <2>4, <3>1 DEF IsLedger, HasFields
    <2>8. Filed(ev, M, n)
        <3>1. \A i \in DOMAIN M.obligations : Proven(ev, M.obligations[i], M.pages[M.obligations[i].page].url, n)
            BY <1>a, <2>3, <2>4, <2>5, <2>6 DEF Filed, Proven
        <3> QED BY <2>3, <2>7, <3>1 DEF Filed
    <2>9. probe # "semantics" => Grows(L, M)
        BY <1>a, <2>3, <2>4, <2>5, <2>6 DEF Grows
    <2>10. Len(L.obligations) + 1 \in Keyed(M, p, probe, subject)
        BY <1>a, <2>4, <2>5 DEF Keyed
    <2> QED BY <1>a, <2>3, <2>4, <2>5, <2>6, <2>8, <2>9, <2>10 DEF M
<1> QED BY <1>1, <1>2, <1>3

(* A page is added with its two static obligations. *)
LEMMA AddPageOK ==
    ASSUME NEW ev, NEW L, NEW n, Filed(ev, L, n), Owes(L), NEW url, NEW source
    PROVE  LET M == AddPage(L, url, source)
           IN  /\ Filed(ev, M, n) /\ Grows(L, M) /\ Owes(M) /\ M.skipRefs = L.skipRefs
               /\ Known(M, url) /\ (PageNo(M, url) = 0 => "pages" \in M.truncated)
<1> DEFINE M == AddPage(L, url, source)
           p == Len(L.pages) + 1
           new == [url |-> url, source |-> source, modelVisible |-> FALSE, visited |-> FALSE]
           N == [L EXCEPT !.pages = Append(@, new)]
           O == AddObligation(N, p, "semantics", None)
<1>a. /\ IsLedger(L) /\ Len(L.obligations) \in Nat /\ DOMAIN L.obligations = 1..Len(L.obligations)
      /\ Len(L.pages) \in Nat /\ DOMAIN L.pages = 1..Len(L.pages)
    BY SeqFacts DEF Filed, IsLedger
<1>b. HasFields(L)
    BY <1>a DEF IsLedger
<1>1. CASE PageNo(L, url) # 0
    <2>1. M = L
        BY <1>1 DEF AddPage
    <2> HIDE DEF M
    <2> QED BY <1>a, <1>1, <2>1, GrowsSame DEF M, Known
<1>2. CASE PageNo(L, url) = 0 /\ Len(L.pages) >= MaxPages
    <2>1. M = Drop(L, "pages")
        BY <1>2 DEF AddPage
    <2> HIDE DEF M
    <2>2. /\ Filed(ev, M, n) /\ Grows(L, M) /\ "pages" \in M.truncated
          /\ M.pages = L.pages /\ M.obligations = L.obligations /\ M.skipRefs = L.skipRefs
        BY <2>1, DropOK
    <2>3. Owes(M)
        BY <2>2 DEF Owes, Keyed, Grows
    <2> QED BY <1>2, <2>2, <2>3 DEF M, Known
<1>3. CASE PageNo(L, url) = 0 /\ ~ (Len(L.pages) >= MaxPages)
    <2>1. M = AddObligation(O, p, "skip_link", None)
        BY <1>3 DEF AddPage
    <2> HIDE DEF new
    <2>2. N = [pages |-> Append(L.pages, new), obligations |-> L.obligations, states |-> L.states, truncated |-> L.truncated,
              last |-> L.last, skipRefs |-> L.skipRefs, openDialog |-> L.openDialog, capped |-> L.capped]
        BY <1>b DEF HasFields
    <2> HIDE DEF M, O, N
    <2>3. N.pages = Append(L.pages, new) /\ N.obligations = L.obligations /\ N.skipRefs = L.skipRefs
          /\ N.openDialog = L.openDialog /\ N.truncated = L.truncated
        BY <2>2
    <2>4. /\ IsSeq(N.pages) /\ DOMAIN N.pages = 1..p /\ Len(N.pages) = p
          /\ \A q \in DOMAIN L.pages : N.pages[q] = L.pages[q]
          /\ N.pages[p] = new
        BY <1>a, <2>3, SeqFacts DEF IsLedger
    <2>5. IsPage(new) /\ new.url = url
        BY DEF IsPage, new
    <2>6. \A q \in DOMAIN N.pages : q \in DOMAIN L.pages \/ q = p
        BY <1>a, <2>4
    <2>7. \A q \in DOMAIN L.pages : L.pages[q].url # url
        BY <1>a, <1>3, PageNoIs
    <2>8. IsLedger(N)
        <3>1. \A q \in DOMAIN N.pages : IsPage(N.pages[q])
            BY <1>a, <2>4, <2>5, <2>6 DEF IsLedger
        <3>2. \A q, r \in DOMAIN N.pages : N.pages[q].url = N.pages[r].url => q = r
            BY <1>a, <2>4, <2>5, <2>6, <2>7 DEF IsLedger
        <3>3. p <= MaxPages
            BY <1>a, <1>3, BoundsAssumption
        <3>4. DOMAIN L.pages \subseteq DOMAIN N.pages
            BY <1>a, <2>4
        <3> QED BY <1>a, <2>2, <2>3, <2>4, <3>1, <3>2, <3>3, <3>4 DEF IsLedger, HasFields
    <2>9. Filed(ev, N, n)
        <3>1. \A i \in DOMAIN N.obligations : Proven(ev, N.obligations[i], N.pages[N.obligations[i].page].url, n)
            BY <1>a, <2>3, <2>4 DEF Filed, IsLedger
        <3>2. L.openDialog # None => L.openDialog.page \in DOMAIN N.pages /\ Opening(ev, L.openDialog, N.pages[L.openDialog.page].url, n)
            BY <1>a, <2>4 DEF Filed
        <3> QED BY <2>3, <2>8, <3>1, <3>2 DEF Filed
    <2>p. p \in DOMAIN N.pages
        BY <1>a, <2>4
    <2>10. /\ Filed(ev, O, n) /\ O.pages = N.pages /\ O.skipRefs = N.skipRefs /\ N.truncated \subseteq O.truncated
           /\ Len(N.obligations) <= Len(O.obligations)
           /\ \A i \in DOMAIN N.obligations : O.obligations[i] = N.obligations[i]
           /\ \A i \in DOMAIN O.obligations \ DOMAIN N.obligations : O.obligations[i].page = p
        BY <2>9, <2>p, AddObligationOK DEF O
    <2>11. /\ Filed(ev, M, n) /\ M.pages = O.pages /\ M.skipRefs = O.skipRefs /\ O.truncated \subseteq M.truncated
           /\ "obligations" \in M.truncated \/ Keyed(M, p, "skip_link", None) # {}
           /\ Len(O.obligations) <= Len(M.obligations)
           /\ \A i \in DOMAIN O.obligations : M.obligations[i] = O.obligations[i]
           /\ \A i \in DOMAIN M.obligations \ DOMAIN O.obligations : M.obligations[i].page = p
        BY <2>1, <2>10, <2>p, AddObligationOK
    <2>12. Len(O.obligations) \in Nat /\ DOMAIN O.obligations = 1..Len(O.obligations) /\ Len(M.obligations) \in Nat
        BY <2>10, <2>11, SeqFacts DEF Filed, IsLedger
    <2>13. DOMAIN L.obligations \subseteq DOMAIN O.obligations /\ \A i \in DOMAIN L.obligations : M.obligations[i] = L.obligations[i]
        BY <1>a, <2>3, <2>10, <2>11, <2>12
    <2>14. \A i \in DOMAIN M.obligations \ DOMAIN L.obligations : M.obligations[i].page = p
        BY <2>3, <2>10, <2>11
    <2>15. p \notin DOMAIN L.pages
        BY <1>a
    <2>16. Len(L.obligations) <= Len(M.obligations) /\ Len(L.pages) <= Len(M.pages) /\ L.truncated \subseteq M.truncated
        BY <1>a, <2>3, <2>4, <2>10, <2>11, <2>12
    <2>17. \A q \in DOMAIN L.pages : M.pages[q] = L.pages[q]
        BY <2>4, <2>10, <2>11
    <2>18. Grows(L, M)
        BY <2>13, <2>14, <2>15, <2>16, <2>17 DEF Grows
    <2>19. Owes(M)
        <3> SUFFICES ASSUME NEW q \in DOMAIN M.pages PROVE Keyed(M, q, "skip_link", None) # {} \/ "obligations" \in M.truncated
            BY DEF Owes
        <3>1. IsLedger(M)
            BY <2>11 DEF Filed
        <3>2. CASE q = p
            BY <2>11, <3>2
        <3>3. CASE q \in DOMAIN L.pages
            BY <1>a, <2>18, <3>1, <3>3, GrowsKeeps
        <3> QED BY <2>6, <2>10, <2>11, <3>2, <3>3
    <2>20. PageNo(M, url) # 0
        <3>1. IsLedger(M) /\ p \in DOMAIN M.pages /\ M.pages[p].url = url
            BY <2>4, <2>5, <2>p, <2>10, <2>11 DEF Filed
        <3>2. PageNo(M, url) = p
            BY <3>1, PageNoIs
        <3> QED BY <1>a, <3>2
    <2> QED BY <2>3, <2>10, <2>11, <2>18, <2>19, <2>20 DEF M, Known
<1> QED BY <1>1, <1>2, <1>3

(* An obligation may be marked anew, not forgotten. *)
Remarked(ev, a, b, url, n) ==
    /\ IsObligation(b) /\ b.page = a.page /\ b.probe = a.probe /\ b.subject = a.subject
    /\ b.status \in Marks /\ Proven(ev, b, url, n)
    /\ a.status = "executed" => b.status = "executed"
    /\ b.status = "deferred" => b.probe = "skip_link" /\ (a.status = "deferred" \/ Skips(url) = {})

Refiled(L, f) ==
    [pages |-> L.pages, obligations |-> f, states |-> L.states, truncated |-> L.truncated,
     last |-> L.last, skipRefs |-> L.skipRefs, openDialog |-> L.openDialog, capped |-> L.capped]

LEMMA RefiledIs ==
    ASSUME NEW ev, NEW L, NEW n, Filed(ev, L, n), NEW f, NEW M, M = [L EXCEPT !.obligations = f]
    PROVE  M = Refiled(L, f)
<1>1. HasFields(L)
    BY DEF Filed, IsLedger
<1> QED BY <1>1 DEF HasFields, Refiled

LEMMA RemarksOK ==
    ASSUME NEW ev, NEW L, NEW n, Filed(ev, L, n), NEW f, f = [i \in DOMAIN L.obligations |-> f[i]],
           \A i \in DOMAIN L.obligations : Remarked(ev, L.obligations[i], f[i], L.pages[L.obligations[i].page].url, n)
    PROVE  LET M == Refiled(L, f)
           IN  /\ Filed(ev, M, n) /\ Grows(L, M) /\ M.pages = L.pages /\ M.obligations = f
               /\ M.skipRefs = L.skipRefs /\ M.openDialog = L.openDialog /\ M.truncated = L.truncated
<1> DEFINE M == Refiled(L, f)
<1>a. IsLedger(L) /\ HasFields(L) /\ Len(L.pages) \in Nat /\ Len(L.obligations) \in Nat
    BY SeqFacts DEF Filed, IsLedger
<1>1. M = [pages |-> L.pages, obligations |-> f, states |-> L.states, truncated |-> L.truncated,
           last |-> L.last, skipRefs |-> L.skipRefs, openDialog |-> L.openDialog, capped |-> L.capped]
    BY DEF Refiled
<1> HIDE DEF M
<1>2. M.pages = L.pages /\ M.obligations = f /\ M.skipRefs = L.skipRefs /\ M.openDialog = L.openDialog
      /\ M.truncated = L.truncated /\ HasFields(M)
    BY <1>1 DEF HasFields
<1>3. IsSeq(f) /\ Len(f) = Len(L.obligations) /\ DOMAIN f = DOMAIN L.obligations
    BY <1>a, MapIsSeq DEF IsLedger
<1>4. IsLedger(M)
    <2>1. \A i \in DOMAIN M.obligations :
             /\ IsObligation(M.obligations[i])
             /\ M.obligations[i].page \in DOMAIN M.pages /\ M.obligations[i].status \in Marks
             /\ M.obligations[i].status = "deferred" => M.obligations[i].probe = "skip_link"
        BY <1>a, <1>2, <1>3 DEF IsLedger, Remarked
    <2> QED BY <1>a, <1>2, <1>3, <2>1 DEF IsLedger
<1>5. Filed(ev, M, n)
    <2>1. \A i \in DOMAIN M.obligations : Proven(ev, M.obligations[i], M.pages[M.obligations[i].page].url, n)
        BY <1>2, <1>3 DEF Remarked
    <2> QED BY <1>2, <1>4, <2>1 DEF Filed
<1>6. Grows(L, M)
    <2>1. DOMAIN M.obligations = DOMAIN L.obligations /\ Len(M.obligations) = Len(L.obligations)
        BY <1>2, <1>3
    <2>2. \A i \in DOMAIN L.obligations :
             /\ M.obligations[i].page = L.obligations[i].page
             /\ M.obligations[i].probe = L.obligations[i].probe
             /\ M.obligations[i].subject = L.obligations[i].subject
             /\ L.obligations[i].status = "executed" => M.obligations[i].status = "executed"
             /\ M.obligations[i].status = "deferred" =>
                  L.obligations[i].status = "deferred" \/ Skips(L.pages[L.obligations[i].page].url) = {}
        BY <1>2 DEF Remarked
    <2>3. DOMAIN M.obligations \ DOMAIN L.obligations = {}
        BY <2>1
    <2>4. Len(L.obligations) <= Len(M.obligations) /\ Len(L.pages) <= Len(M.pages)
        BY <1>a, <1>2, <2>1
    <2> QED BY <1>2, <2>2, <2>3, <2>4 DEF Grows
<1> QED BY <1>2, <1>5, <1>6 DEF M

LEMMA SameMark ==
    ASSUME NEW ev, NEW L, NEW n, Filed(ev, L, n), NEW i \in DOMAIN L.obligations
    PROVE  Remarked(ev, L.obligations[i], L.obligations[i], L.pages[L.obligations[i].page].url, n)
BY DEF Filed, IsLedger, Remarked

LEMMA ExecutedIs ==
    ASSUME NEW o, IsObligation(o), NEW ids, NEW b, b = Executed(o, ids)
    PROVE  b =
             [page |-> o.page, probe |-> o.probe, subject |-> o.subject, status |-> "executed", reason |-> "none",
              cites |-> o.cites \cup ids]
BY DEF IsObligation, Executed

LEMMA ExecuteOK ==
    ASSUME NEW ev, NEW L, NEW n, Filed(ev, L, n), NEW p \in DOMAIN L.pages, NEW probe, NEW subject, NEW ids \in SUBSET (1..n),
           Probed(ev, ids, L.pages[p].url, probe, subject)
    PROVE  LET M == Execute(L, p, probe, subject, ids)
           IN  /\ Filed(ev, M, n) /\ Grows(L, M) /\ M.pages = L.pages
               /\ M.skipRefs = L.skipRefs /\ M.openDialog = L.openDialog /\ M.truncated = L.truncated
               /\ \A i \in Keyed(M, p, probe, subject) : M.obligations[i].status = "executed"
<1> DEFINE ob(i) == L.obligations[i]
           new(i) == IF i \in Keyed(L, p, probe, subject) /\ ob(i).status # "executed" THEN Executed(ob(i), ids) ELSE ob(i)
           f == [i \in DOMAIN L.obligations |-> new(i)]
           M == [L EXCEPT !.obligations = f]
<1>1. Execute(L, p, probe, subject, ids) = M
    BY Zenon DEF Execute
<1>2. ASSUME NEW i \in DOMAIN L.obligations, i \in Keyed(L, p, probe, subject), ob(i).status # "executed"
      PROVE  /\ Remarked(ev, ob(i), Executed(ob(i), ids), L.pages[ob(i).page].url, n)
             /\ Executed(ob(i), ids).status = "executed"
    <2> DEFINE o == L.obligations[i]
               b == Executed(o, ids)
    <2>1. IsObligation(o) /\ o.cites = {} /\ o.page = p /\ o.probe = probe /\ o.subject = subject
        BY <1>2 DEF Filed, IsLedger, Proven, Keyed
    <2> HIDE DEF o
    <2>2. b = [page |-> o.page, probe |-> o.probe, subject |-> o.subject, status |-> "executed", reason |-> "none",
               cites |-> o.cites \cup ids]
        BY <2>1, ExecutedIs
    <2> HIDE DEF b
    <2>3. Proven(ev, b, L.pages[p].url, n)
        BY <2>1, <2>2 DEF Proven
    <2>4. Remarked(ev, o, b, L.pages[p].url, n) /\ b.status = "executed"
        BY <2>1, <2>2, <2>3 DEF Remarked, IsObligation, Marks
    <2> QED BY <2>1, <2>4 DEF b, o
<1>3. ASSUME NEW i \in DOMAIN L.obligations
      PROVE  Remarked(ev, ob(i), new(i), L.pages[ob(i).page].url, n)
    BY <1>2, SameMark
<1>4. \A i \in DOMAIN L.obligations : Remarked(ev, L.obligations[i], f[i], L.pages[L.obligations[i].page].url, n)
    BY <1>3
<1>e. \A i \in DOMAIN f : i \in Keyed(L, p, probe, subject) => f[i].status = "executed"
    BY <1>2
<1>f. f = [i \in DOMAIN L.obligations |-> f[i]] /\ M = Refiled(L, f)
    <2> HIDE DEF f
    <2> QED BY RefiledIs DEF f
<1> HIDE DEF M, f, new, ob
<1>5. /\ Filed(ev, M, n) /\ Grows(L, M) /\ M.pages = L.pages /\ M.obligations = f
      /\ M.skipRefs = L.skipRefs /\ M.openDialog = L.openDialog /\ M.truncated = L.truncated
    BY <1>4, <1>f, RemarksOK
<1> HIDE DEF M
<1>6. ASSUME NEW i \in Keyed(M, p, probe, subject) PROVE M.obligations[i].status = "executed"
    <2>1. i \in DOMAIN f /\ f[i].page = p /\ f[i].probe = probe /\ f[i].subject = subject
        BY <1>5 DEF Keyed
    <2>2. i \in DOMAIN L.obligations
        BY <1>f, <2>1
    <2>3. i \in Keyed(L, p, probe, subject)
        BY <1>4, <2>1, <2>2 DEF Keyed, Remarked
    <2> QED BY <1>5, <1>e, <2>1, <2>3
<1> QED BY <1>1, <1>5, <1>6

(* A mark other than executed, on an obligation that is not executed. *)
LEMMA OtherMark ==
    ASSUME NEW ev, NEW o, IsObligation(o), o.status # "executed", NEW url, NEW n, Proven(ev, o, url, n),
           NEW mark, mark \in Marks \ {"executed"}, NEW reason, NEW b,
           b = Marked(o, mark, reason),
           mark = "deferred" => o.probe = "skip_link" /\ Skips(url) = {}
    PROVE  Remarked(ev, o, b, url, n) /\ b.status = mark
<1>1. b = [page |-> o.page, probe |-> o.probe, subject |-> o.subject, status |-> mark, reason |-> reason,
           cites |-> o.cites]
    BY DEF IsObligation, Marked
<1>2. o.cites = {}
    BY DEF Proven
<1> HIDE DEF IsObligation
<1>3. Proven(ev, b, url, n)
    BY <1>1, <1>2 DEF Proven
<1> QED BY <1>1, <1>3 DEF Remarked, IsObligation

LEMMA SkipLinkSeenOK ==
    ASSUME NEW ev, NEW L, NEW n, Filed(ev, L, n), NEW p \in DOMAIN L.pages, NEW seen \in BOOLEAN,
           seen \/ Skips(L.pages[p].url) = {}
    PROVE  LET M == SkipLinkSeen(L, p, seen)
           IN  /\ Filed(ev, M, n) /\ Grows(L, M) /\ M.pages = L.pages
               /\ M.skipRefs = L.skipRefs /\ M.openDialog = L.openDialog /\ M.truncated = L.truncated
               /\ seen => \A i \in Keyed(M, p, "skip_link", None) : M.obligations[i].status # "deferred"
<1> DEFINE ob(i) == L.obligations[i]
           taken(i) == Marked(ob(i), "pending", "none")
           left(i) == Marked(ob(i), "deferred", "not_applicable")
           new(i) == IF i \notin Keyed(L, p, "skip_link", None) THEN ob(i)
                     ELSE IF seen /\ ob(i).status = "deferred" THEN taken(i)
                     ELSE IF ~seen /\ ob(i).status = "pending" THEN left(i)
                     ELSE ob(i)
           f == [i \in DOMAIN L.obligations |-> new(i)]
           M == [L EXCEPT !.obligations = f]
           url(i) == L.pages[ob(i).page].url
<1>1. SkipLinkSeen(L, p, seen) = M
    BY Zenon DEF SkipLinkSeen
<1>2. ASSUME NEW i \in DOMAIN L.obligations
      PROVE  /\ Remarked(ev, ob(i), new(i), url(i), n)
             /\ i \in Keyed(L, p, "skip_link", None) /\ seen => new(i).status # "deferred"
    <2>1. IsObligation(ob(i)) /\ Proven(ev, ob(i), url(i), n)
        BY DEF Filed, IsLedger
    <2>2. i \in Keyed(L, p, "skip_link", None) => ob(i).page = p /\ ob(i).probe = "skip_link"
        BY DEF Keyed
    <2>3. CASE i \in Keyed(L, p, "skip_link", None) /\ seen /\ ob(i).status = "deferred"
        <3>1. Remarked(ev, ob(i), taken(i), url(i), n) /\ taken(i).status = "pending"
            BY <2>1, <2>3, OtherMark DEF Marks
        <3> QED BY <2>3, <3>1
    <2>4. CASE i \in Keyed(L, p, "skip_link", None) /\ ~seen /\ ob(i).status = "pending"
        <3>1. Remarked(ev, ob(i), left(i), url(i), n)
            BY <2>1, <2>2, <2>4, OtherMark DEF Marks
        <3> QED BY <2>4, <3>1
    <2>5. CASE \/ i \notin Keyed(L, p, "skip_link", None)
               \/ ~(seen /\ ob(i).status = "deferred") /\ ~(~seen /\ ob(i).status = "pending")
        <3>1. Remarked(ev, ob(i), ob(i), url(i), n)
            BY SameMark
        <3>2. new(i) = ob(i)
            BY <2>5
        <3> QED BY <2>5, <3>1, <3>2
    <2> QED BY <2>3, <2>4, <2>5
<1>3. \A i \in DOMAIN L.obligations : Remarked(ev, L.obligations[i], f[i], L.pages[L.obligations[i].page].url, n)
    BY <1>2
<1>4. seen => \A i \in DOMAIN L.obligations : i \in Keyed(L, p, "skip_link", None) => f[i].status # "deferred"
    BY <1>2
<1>f. f = [i \in DOMAIN L.obligations |-> f[i]] /\ M = Refiled(L, f)
    <2> HIDE DEF f
    <2> QED BY RefiledIs DEF f
<1> HIDE DEF M, f, new, ob, taken, left, url
<1>5. /\ Filed(ev, M, n) /\ Grows(L, M) /\ M.pages = L.pages /\ M.obligations = f
      /\ M.skipRefs = L.skipRefs /\ M.openDialog = L.openDialog /\ M.truncated = L.truncated
    BY <1>3, <1>f, RemarksOK
<1> HIDE DEF M
<1>6. ASSUME seen, NEW i \in Keyed(M, p, "skip_link", None) PROVE M.obligations[i].status # "deferred"
    <2>1. i \in DOMAIN f /\ f[i].page = p /\ f[i].probe = "skip_link" /\ f[i].subject = None
        BY <1>5 DEF Keyed
    <2>2. i \in DOMAIN L.obligations
        BY <1>f, <2>1
    <2>3. i \in Keyed(L, p, "skip_link", None)
        BY <1>3, <2>1, <2>2 DEF Keyed, Remarked
    <2> QED BY <1>4, <1>5, <1>6, <2>2, <2>3
<1> QED BY <1>1, <1>5, <1>6

LEMMA RecordDenialOK ==
    ASSUME NEW ev, NEW L, NEW n, Filed(ev, L, n), NEW url, NEW reason
    PROVE  LET M == RecordDenial(L, url, reason)
           IN  /\ Filed(ev, M, n) /\ Grows(L, M) /\ M.pages = L.pages
               /\ M.skipRefs = L.skipRefs /\ M.openDialog = L.openDialog /\ M.truncated = L.truncated
<1> DEFINE ob(i) == L.obligations[i]
           blocked(i) == Marked(ob(i), "blocked", reason)
           new(i) == IF PageNo(L, url) # 0 /\ ob(i).page = PageNo(L, url) /\ ob(i).status = "pending"
                     THEN blocked(i) ELSE ob(i)
           f == [i \in DOMAIN L.obligations |-> new(i)]
           M == [L EXCEPT !.obligations = f]
<1>1. RecordDenial(L, url, reason) = M
    BY Zenon DEF RecordDenial
<1>2. ASSUME NEW i \in DOMAIN L.obligations PROVE Remarked(ev, ob(i), new(i), L.pages[ob(i).page].url, n)
    <2>1. IsObligation(ob(i)) /\ Proven(ev, ob(i), L.pages[ob(i).page].url, n)
        BY DEF Filed, IsLedger
    <2>2. CASE ob(i).status = "pending"
        <3>1. Remarked(ev, ob(i), blocked(i), L.pages[ob(i).page].url, n)
            BY <2>1, <2>2, OtherMark DEF Marks
        <3> QED BY <3>1, SameMark
    <2>3. CASE ob(i).status # "pending"
        BY <2>3, SameMark
    <2> QED BY <2>2, <2>3
<1>3. \A i \in DOMAIN L.obligations : Remarked(ev, L.obligations[i], f[i], L.pages[L.obligations[i].page].url, n)
    BY <1>2
<1>f. f = [i \in DOMAIN L.obligations |-> f[i]] /\ M = Refiled(L, f)
    <2> HIDE DEF f
    <2> QED BY RefiledIs DEF f
<1> HIDE DEF M, f, new, ob, blocked
<1>5. /\ Filed(ev, M, n) /\ Grows(L, M) /\ M.pages = L.pages /\ M.obligations = f
      /\ M.skipRefs = L.skipRefs /\ M.openDialog = L.openDialog /\ M.truncated = L.truncated
    BY <1>3, <1>f, RemarksOK
<1> QED BY <1>1, <1>5

LEMMA FiledMore ==
    ASSUME NEW ev, NEW L, NEW n \in Nat, Filed(ev, L, n), NEW m \in Nat, n <= m
    PROVE  Filed(ev, L, m)
<1>1. 1..n \subseteq 1..m
    OBVIOUS
<1> QED BY <1>1 DEF Filed, Proven, Opening

(* The dialog under test is another, or none. *)
LEMMA DialogOK ==
    ASSUME NEW ev, NEW L, NEW n, Filed(ev, L, n), NEW d,
           d # None => d.page \in DOMAIN L.pages /\ Opening(ev, d, L.pages[d.page].url, n)
    PROVE  LET M == [L EXCEPT !.openDialog = d]
           IN  Filed(ev, M, n) /\ Grows(L, M) /\ M.skipRefs = L.skipRefs /\ M.pages = L.pages
<1> DEFINE M == [L EXCEPT !.openDialog = d]
<1>a. IsLedger(L) /\ HasFields(L) /\ Len(L.pages) \in Nat /\ Len(L.obligations) \in Nat
    BY SeqFacts DEF Filed, IsLedger
<1>1. M = [pages |-> L.pages, obligations |-> L.obligations, states |-> L.states, truncated |-> L.truncated,
           last |-> L.last, skipRefs |-> L.skipRefs, openDialog |-> d, capped |-> L.capped]
    BY <1>a DEF HasFields
<1> HIDE DEF M
<1>2. M.pages = L.pages /\ M.obligations = L.obligations /\ M.skipRefs = L.skipRefs /\ M.openDialog = d
      /\ M.truncated = L.truncated /\ HasFields(M)
    BY <1>1 DEF HasFields
<1>3. IsLedger(M)
    BY <1>a, <1>2 DEF IsLedger
<1>4. Filed(ev, M, n)
    BY <1>2, <1>3 DEF Filed
<1>5. Grows(L, M)
    BY <1>a, <1>2 DEF Grows
<1> QED BY <1>2, <1>4, <1>5 DEF M

(* An evidence record executes what it shows. *)
LEMMA RecordEvidenceOK ==
    ASSUME NEW ev, NEW L, NEW n \in Nat, Filed(ev, L, n), n + 1 \in DOMAIN ev,
           L.skipRefs = Skips(ev[n + 1].before), Known(L, ev[n + 1].before)
    PROVE  LET e == ev[n + 1]
               M == RecordEvidence(L, n + 1, e)
           IN  /\ Filed(ev, M, n + 1) /\ Grows(L, M) /\ M.skipRefs = L.skipRefs /\ M.pages = L.pages
               /\ e.kind \in {"inspect_semantics", "capture_evidence"} => Inspected0(M, e.before)
<1> DEFINE e == ev[n + 1]
           M == RecordEvidence(L, n + 1, e)
           p == PageNo(L, e.before)
           here == {n + 1}
           semantics == Execute(L, p, "semantics", None, here)
           skip == IF e.target \in L.skipRefs THEN Execute(L, p, "skip_link", None, here) ELSE L
           toggled == Execute(skip, p, "disclosure_toggle", e.target, here)
<1>0. Filed(ev, L, n + 1) /\ IsLedger(L) /\ Grows(L, L)
    <2>1. n + 1 \in Nat /\ n <= n + 1
        OBVIOUS
    <2> QED BY <2>1, FiledMore, GrowsSame DEF Filed
<1>1. CASE p = 0
    <2>1. M = L
        BY <1>1 DEF RecordEvidence
    <2> HIDE DEF M
    <2> QED BY <1>0, <1>1, <2>1 DEF M, Inspected0
<1>2. ASSUME p # 0 PROVE p \in DOMAIN L.pages /\ L.pages[p].url = e.before
    BY <1>0, <1>2, PageNoIs
<1>3. here \in SUBSET (1..(n + 1)) /\ n + 1 \in here
    OBVIOUS
<1>4. CASE p # 0 /\ e.kind \in {"inspect_semantics", "capture_evidence"}
    <2>1. Probed(ev, here, L.pages[p].url, "semantics", None)
        BY <1>2, <1>3, <1>4 DEF Probed
    <2>2. /\ Filed(ev, semantics, n + 1) /\ Grows(L, semantics) /\ semantics.pages = L.pages
          /\ semantics.skipRefs = L.skipRefs
          /\ \A i \in Keyed(semantics, p, "semantics", None) : semantics.obligations[i].status = "executed"
        BY <1>0, <1>2, <1>3, <1>4, <2>1, ExecuteOK
    <2>3. Inspected0(semantics, e.before)
        <3>1. PageNo(semantics, e.before) = p /\ IsLedger(semantics)
            BY <1>0, <1>4, <2>2, GrowsKeeps DEF Filed
        <3> HIDE DEF semantics, here, p, e
        <3> QED BY <1>4, <2>2, <3>1 DEF Inspected0, Known
    <2>4. CASE e.skipFacts
        <3>1. M = Execute(semantics, p, "skip_link", None, here)
            BY <1>4, <2>4 DEF RecordEvidence
        <3> HIDE DEF M, semantics, here, p
        <3>2. Probed(ev, here, semantics.pages[p].url, "skip_link", None)
            BY <1>2, <1>3, <1>4, <2>2, <2>4 DEF Probed
        <3>3. Filed(ev, M, n + 1) /\ Grows(semantics, M) /\ M.skipRefs = semantics.skipRefs /\ M.pages = semantics.pages
            BY <1>2, <1>3, <1>4, <2>2, <3>1, <3>2, ExecuteOK
        <3> QED BY <1>0, <2>2, <2>3, <3>3, GrowsFurther, InspectedStays DEF M, Filed
    <2>5. CASE ~e.skipFacts
        <3>1. M = semantics
            BY <1>4, <2>5 DEF RecordEvidence
        <3> QED BY <2>2, <2>3, <3>1
    <2> QED BY <2>4, <2>5
<1>5. CASE p # 0 /\ e.kind = "activate"
    <2> DEFINE d == IF Keyed(L, p, "dialog_focus_return", e.target) = {} THEN None
                    ELSE [page |-> p, subject |-> e.target, activated |-> n + 1]
    <2>1. M = [toggled EXCEPT !.openDialog = d]
        BY <1>5 DEF RecordEvidence
    <2>2. e.target \in L.skipRefs => Probed(ev, here, L.pages[p].url, "skip_link", None)
        BY <1>2, <1>3, <1>5 DEF Probed, Skips
    <2>3. Filed(ev, skip, n + 1) /\ Grows(L, skip) /\ skip.pages = L.pages /\ skip.skipRefs = L.skipRefs
        BY <1>0, <1>2, <1>3, <1>5, <2>2, ExecuteOK
    <2>4. Probed(ev, here, L.pages[p].url, "disclosure_toggle", e.target)
        BY <1>2, <1>3, <1>5 DEF Probed
    <2> HIDE DEF skip, here
    <2>5. Filed(ev, toggled, n + 1) /\ Grows(skip, toggled) /\ toggled.pages = L.pages /\ toggled.skipRefs = L.skipRefs
        BY <1>2, <1>3, <1>5, <2>3, <2>4, ExecuteOK
    <2> HIDE DEF toggled, M, p
    <2>6. d # None => d.page \in DOMAIN toggled.pages /\ Opening(ev, d, toggled.pages[d.page].url, n + 1)
        BY <1>2, <1>5, <2>5 DEF Opening
    <2> HIDE DEF d
    <2>7. Filed(ev, M, n + 1) /\ Grows(toggled, M) /\ M.skipRefs = toggled.skipRefs /\ M.pages = toggled.pages
        BY <2>1, <2>5, <2>6, DialogOK
    <2>8. Grows(L, M)
        BY <1>0, <2>3, <2>5, <2>7, GrowsFurther DEF Filed
    <2> QED BY <1>5, <2>5, <2>7, <2>8 DEF M
<1>6. CASE p # 0 /\ e.kind = "escape"
    <2> DEFINE d == L.openDialog
               ran == Execute(L, p, "dialog_focus_return", d.subject, {d.activated, n + 1})
    <2>1. CASE d # None /\ d.page = p
        <3>1. M = [ran EXCEPT !.openDialog = None]
            BY <1>6, <2>1 DEF RecordEvidence
        <3>2. d.activated \in 1..n /\ ev[d.activated].before = e.before
              /\ ev[d.activated].kind = "activate" /\ ev[d.activated].target = d.subject
            BY <1>2, <1>6, <2>1 DEF Filed, Opening
        <3>3. {d.activated, n + 1} \in SUBSET (1..(n + 1)) /\ d.activated < n + 1
            BY <3>2
        <3>4. Probed(ev, {d.activated, n + 1}, L.pages[p].url, "dialog_focus_return", d.subject)
            BY <1>2, <1>6, <3>2, <3>3 DEF Probed
        <3>5. Filed(ev, ran, n + 1) /\ Grows(L, ran) /\ ran.skipRefs = L.skipRefs /\ ran.pages = L.pages
            BY <1>0, <1>2, <1>6, <3>3, <3>4, ExecuteOK
        <3> HIDE DEF ran, M
        <3>6. Filed(ev, M, n + 1) /\ Grows(ran, M) /\ M.skipRefs = ran.skipRefs /\ M.pages = ran.pages
            BY <3>1, <3>5, DialogOK
        <3>7. Grows(L, M)
            BY <1>0, <3>5, <3>6, GrowsFurther DEF Filed
        <3> QED BY <1>6, <3>5, <3>6, <3>7 DEF M
    <2>2. CASE ~ (d # None /\ d.page = p)
        <3>1. M = L
            BY <1>6, <2>2 DEF RecordEvidence
        <3> HIDE DEF M
        <3> QED BY <1>0, <1>6, <3>1 DEF M
    <2> QED BY <2>1, <2>2
<1>7. CASE p # 0 /\ e.kind \notin {"inspect_semantics", "capture_evidence", "activate", "escape"}
    <2>1. M = L
        BY <1>7 DEF RecordEvidence
    <2> HIDE DEF M
    <2> QED BY <1>0, <1>7, <2>1 DEF M
<1> QED BY <1>1, <1>4, <1>5, <1>6, <1>7

(* A page keeps its URL and what was seen of it; the rest of a ledger, but its obligations, may change. *)
LEMMA PagesOK ==
    ASSUME NEW ev, NEW L, NEW n, Filed(ev, L, n), NEW M, HasFields(M), M.obligations = L.obligations, M.openDialog = L.openDialog,
           L.truncated \subseteq M.truncated, M.pages = [p \in DOMAIN L.pages |-> M.pages[p]],
           \A p \in DOMAIN L.pages : /\ IsPage(M.pages[p]) /\ M.pages[p].url = L.pages[p].url
                                     /\ L.pages[p].visited => M.pages[p].visited
    PROVE  Filed(ev, M, n) /\ Grows(L, M) /\ DOMAIN M.pages = DOMAIN L.pages /\ Len(M.pages) = Len(L.pages)
<1>1. IsLedger(L) /\ Len(L.pages) \in Nat /\ Len(L.obligations) \in Nat
    BY SeqFacts DEF Filed, IsLedger
<1>2. IsSeq(M.pages) /\ Len(M.pages) = Len(L.pages) /\ DOMAIN M.pages = DOMAIN L.pages
    BY <1>1, MapIsSeq DEF IsLedger
<1>3. IsLedger(M)
    <2>1. \A p, q \in DOMAIN M.pages : M.pages[p].url = M.pages[q].url => p = q
        BY <1>1, <1>2 DEF IsLedger
    <2>2. \A p \in DOMAIN M.pages : IsPage(M.pages[p])
        BY <1>2
    <2>3. IsSeq(M.pages) /\ Len(M.pages) <= MaxPages /\ DOMAIN M.pages = DOMAIN L.pages
        BY <1>1, <1>2 DEF IsLedger
    <2> QED BY <1>1, <2>1, <2>2, <2>3 DEF IsLedger
<1>4. Filed(ev, M, n)
    <2>1. ASSUME NEW i \in DOMAIN M.obligations
          PROVE  Proven(ev, M.obligations[i], M.pages[M.obligations[i].page].url, n)
        <3>1. L.obligations[i].page \in DOMAIN L.pages
            BY <1>1 DEF IsLedger
        <3> QED BY <3>1 DEF Filed
    <2>2. M.openDialog # None =>
             M.openDialog.page \in DOMAIN M.pages /\ Opening(ev, M.openDialog, M.pages[M.openDialog.page].url, n)
        BY <1>2 DEF Filed
    <2> QED BY <1>3, <2>1, <2>2 DEF Filed
<1>5. Grows(L, M)
    BY <1>1, <1>2 DEF Grows
<1> QED BY <1>2, <1>4, <1>5

Repaged(L, f) ==
    [pages |-> f, obligations |-> L.obligations, states |-> L.states, truncated |-> L.truncated,
     last |-> L.last, skipRefs |-> L.skipRefs, openDialog |-> L.openDialog, capped |-> L.capped]

LEMMA RepagedIs ==
    ASSUME NEW ev, NEW L, NEW n, Filed(ev, L, n), NEW f, NEW M, M = [L EXCEPT !.pages = f]
    PROVE  M = Repaged(L, f)
<1>1. HasFields(L)
    BY DEF Filed, IsLedger
<1> QED BY <1>1 DEF HasFields, Repaged

(* What the model has seen of a page. *)
LEMMA VisibleOK ==
    ASSUME NEW ev, NEW L, NEW n, Filed(ev, L, n), NEW f, f = [p \in DOMAIN L.pages |-> f[p]],
           \A p \in DOMAIN L.pages : \E now : f[p] = Visible(L.pages[p], now),
           NEW M, M = Repaged(L, f)
    PROVE  /\ Filed(ev, M, n) /\ Grows(L, M) /\ M.obligations = L.obligations /\ M.skipRefs = L.skipRefs
           /\ M.truncated = L.truncated /\ DOMAIN M.pages = DOMAIN L.pages /\ Len(M.pages) = Len(L.pages)
           /\ \A p \in DOMAIN L.pages : M.pages[p].url = L.pages[p].url
<1>a. IsLedger(L) /\ HasFields(L)
    BY DEF Filed, IsLedger
<1>2. M.pages = f /\ M.obligations = L.obligations /\ M.skipRefs = L.skipRefs /\ M.openDialog = L.openDialog
      /\ M.truncated = L.truncated /\ HasFields(M)
    BY DEF HasFields, Repaged
<1>3. ASSUME NEW p \in DOMAIN L.pages
      PROVE  IsPage(M.pages[p]) /\ M.pages[p].url = L.pages[p].url /\ M.pages[p].visited = L.pages[p].visited
    <2>1. PICK now : f[p] = Visible(L.pages[p], now)
        OBVIOUS
    <2>2. IsPage(L.pages[p])
        BY <1>a DEF IsLedger
    <2>3. IsPage(f[p]) /\ f[p].url = L.pages[p].url /\ f[p].visited = L.pages[p].visited
        BY <2>1, <2>2 DEF Visible, IsPage
    <2> QED BY <1>2, <2>3
<1>4. M.pages = [p \in DOMAIN L.pages |-> M.pages[p]]
    BY <1>2
<1>5. Filed(ev, M, n) /\ Grows(L, M) /\ DOMAIN M.pages = DOMAIN L.pages /\ Len(M.pages) = Len(L.pages)
    BY <1>2, <1>3, <1>4, PagesOK
<1> QED BY <1>2, <1>3, <1>5

LEMMA CompactOK ==
    ASSUME NEW ev, NEW L, NEW n, Filed(ev, L, n), NEW o, NEW k
    PROVE  LET M == Compact(L, o, k)
           IN  /\ Filed(ev, M, n) /\ Grows(L, M) /\ M.obligations = L.obligations /\ M.skipRefs = L.skipRefs
               /\ M.truncated = L.truncated /\ DOMAIN M.pages = DOMAIN L.pages /\ Len(M.pages) = Len(L.pages)
<1> DEFINE f == [p \in DOMAIN L.pages |-> Visible(L.pages[p], p \in ToSet(View(L, o, k).pages))]
<1>1. Compact(L, o, k) = [L EXCEPT !.pages = f]
    BY Zenon DEF Compact
<1>2. f = [p \in DOMAIN L.pages |-> f[p]] /\ \A p \in DOMAIN L.pages : \E now : f[p] = Visible(L.pages[p], now)
    BY Zenon
<1> HIDE DEF f
<1>3. [L EXCEPT !.pages = f] = Repaged(L, f)
    BY RepagedIs
<1>4. Compact(L, o, k) = Repaged(L, f)
    BY <1>1, <1>3
<1> QED BY <1>2, <1>4, VisibleOK

-----------------------------------------------------------------------------
(* An observation, step by step. *)

LEMMA SkipRefsOK ==
    ASSUME NEW ev, NEW L, NEW n, Filed(ev, L, n), NEW o, NEW M, M = Noted(L, o)
    PROVE  /\ Filed(ev, M, n) /\ Grows(L, M) /\ M.obligations = L.obligations /\ M.pages = L.pages
           /\ M.truncated = L.truncated /\ M.skipRefs = o.skipLinks
<1>a. IsLedger(L) /\ HasFields(L)
    BY DEF Filed, IsLedger
<1>1. M = [pages |-> L.pages, obligations |-> L.obligations, states |-> L.states, truncated |-> L.truncated,
           last |-> L.last, skipRefs |-> o.skipLinks, openDialog |-> L.openDialog,
           capped |-> L.capped \/ o.surfacesLeft <= 0]
    BY <1>a DEF HasFields, Noted
<1>2. M.pages = L.pages /\ M.obligations = L.obligations /\ M.skipRefs = o.skipLinks /\ M.openDialog = L.openDialog
      /\ M.truncated = L.truncated /\ HasFields(M)
    BY <1>1 DEF HasFields
<1>3. M.pages = [p \in DOMAIN L.pages |-> M.pages[p]] /\ \A p \in DOMAIN L.pages : IsPage(M.pages[p])
    BY <1>a, <1>2 DEF IsLedger, IsSeq
<1> QED BY <1>2, <1>3, PagesOK

LEMMA VisitOK ==
    ASSUME NEW ev, NEW L, NEW n, Filed(ev, L, n), NEW p \in DOMAIN L.pages, NEW M,
           M = Visit(L, p)
    PROVE  /\ Filed(ev, M, n) /\ Grows(L, M) /\ M.obligations = L.obligations /\ M.skipRefs = L.skipRefs
           /\ M.truncated = L.truncated /\ DOMAIN M.pages = DOMAIN L.pages /\ M.pages[p].visited
           /\ \A q \in DOMAIN L.pages : M.pages[q].url = L.pages[q].url
<1>a. IsLedger(L) /\ HasFields(L)
    BY DEF Filed, IsLedger
<1> DEFINE f == [L.pages EXCEPT ![p].visited = TRUE]
<1>1. M = [pages |-> f, obligations |-> L.obligations, states |-> L.states, truncated |-> L.truncated,
           last |-> p, skipRefs |-> L.skipRefs, openDialog |-> L.openDialog, capped |-> L.capped]
    BY <1>a DEF HasFields, Visit
<1>d. ASSUME NEW q \in DOMAIN L.pages, q # p PROVE f[q] = L.pages[q]
    BY <1>d
<1>e. f[p] = [L.pages[p] EXCEPT !.visited = TRUE]
    OBVIOUS
<1>g. IsPage(f[p]) /\ f[p].url = L.pages[p].url /\ f[p].visited
    <2> HIDE DEF f
    <2>1. IsPage(L.pages[p])
        BY <1>a DEF IsLedger
    <2> QED BY <1>e, <2>1 DEF IsPage
<1>b. ASSUME NEW q \in DOMAIN L.pages
      PROVE  IsPage(f[q]) /\ f[q].url = L.pages[q].url /\ (L.pages[q].visited => f[q].visited) /\ f[p].visited
    <2> HIDE DEF f
    <2> QED BY <1>a, <1>d, <1>g DEF IsLedger
<1>c. f = [q \in DOMAIN L.pages |-> f[q]] /\ DOMAIN f = DOMAIN L.pages
    OBVIOUS
<1> HIDE DEF f
<1>2. M.pages = f /\ M.obligations = L.obligations /\ M.skipRefs = L.skipRefs /\ M.openDialog = L.openDialog
      /\ M.truncated = L.truncated /\ HasFields(M)
    BY <1>1 DEF HasFields
<1> QED BY <1>2, <1>b, <1>c, PagesOK

LEMMA StateOK ==
    ASSUME NEW ev, NEW L, NEW n, Filed(ev, L, n), NEW states
    PROVE  LET M == [L EXCEPT !.states = states]
           IN  /\ Filed(ev, M, n) /\ Grows(L, M) /\ M.obligations = L.obligations /\ M.pages = L.pages
               /\ M.truncated = L.truncated /\ M.skipRefs = L.skipRefs
<1> DEFINE M == [L EXCEPT !.states = states]
<1>a. IsLedger(L) /\ HasFields(L)
    BY DEF Filed, IsLedger
<1>1. M = [pages |-> L.pages, obligations |-> L.obligations, states |-> states, truncated |-> L.truncated,
           last |-> L.last, skipRefs |-> L.skipRefs, openDialog |-> L.openDialog, capped |-> L.capped]
    BY <1>a DEF HasFields
<1> HIDE DEF M
<1>2. M.pages = L.pages /\ M.obligations = L.obligations /\ M.skipRefs = L.skipRefs /\ M.openDialog = L.openDialog
      /\ M.truncated = L.truncated /\ HasFields(M)
    BY <1>1 DEF HasFields
<1>3. M.pages = [p \in DOMAIN L.pages |-> M.pages[p]] /\ \A p \in DOMAIN L.pages : IsPage(M.pages[p])
    BY <1>a, <1>2 DEF IsLedger, IsSeq
<1>4. Filed(ev, M, n) /\ Grows(L, M)
    BY <1>2, <1>3, PagesOK
<1> QED BY <1>2, <1>4 DEF M

(* Same obligations and pages, or more of what a ledger was cut of: it still owes what it owed. *)
LEMMA OwesStill ==
    ASSUME NEW L, NEW M, IsLedger(L), IsLedger(M), Owes(L), Grows(L, M), DOMAIN M.pages = DOMAIN L.pages
    PROVE  Owes(M)
BY GrowsKeeps DEF Owes

-----------------------------------------------------------------------------
(* An observation, and the records of a turn. *)

(* A ledger goes on from another: the same records prove it, and it still owes what it owed. *)
Onward(ev, L, M, n) == Filed(ev, M, n) /\ Owes(M) /\ Grows(L, M) /\ M.skipRefs = L.skipRefs

LEMMA OnwardFurther ==
    ASSUME NEW ev, NEW L, NEW M, NEW N, NEW n, Filed(ev, L, n), Onward(ev, L, M, n), Onward(ev, M, N, n)
    PROVE  Onward(ev, L, N, n)
BY GrowsFurther DEF Onward, Filed

LEMMA FoundPages ==
    ASSUME NEW ev, NEW L, NEW n, Filed(ev, L, n), Owes(L), NEW s, IsSeq(s), NEW u, NEW p
    PROVE  Onward(ev, L, AddLinked(L, p, u, s), n)
<1> DEFINE c == [kind |-> "page", url |-> u, page |-> p]
           v == AddLinked(L, p, u, s)
<1>1. FoldsTo(v, c, L, s)
    BY PageFold DEF IsSeq
<1> HIDE DEF v, c
<1>2. PICK g : Chain(g, c, L, s) /\ v = g[Len(s)]
    BY <1>1 DEF FoldsTo
<1> DEFINE T == {k \in 0..Len(s) : Onward(ev, L, g[k], n)}
<1>3. Len(s) \in Nat
    BY SeqFacts
<1>4. 0 \in T
    BY <1>2, <1>3, GrowsSame DEF Chain, Onward, Filed
<1>5. ASSUME NEW k \in 1..Len(s), k - 1 \in T PROVE k \in T
    <2>1. g[k] = IF s[k] = u THEN g[k - 1] ELSE AddPage(g[k - 1], s[k], p)
        BY <1>2, <1>3 DEF Chain, Apply, c
    <2>2. Onward(ev, L, g[k - 1], n)
        BY <1>5
    <2>3. CASE s[k] = u
        BY <1>3, <2>1, <2>2, <2>3
    <2>4. CASE s[k] # u
        <3>1. Onward(ev, g[k - 1], g[k], n)
            BY <2>1, <2>2, <2>4, AddPageOK DEF Onward
        <3> QED BY <1>3, <2>2, <3>1, OnwardFurther
    <2> QED BY <2>3, <2>4
<1> HIDE DEF T
<1>6. Len(s) \in T
    BY <1>3, <1>4, <1>5, UpTo
<1> QED BY <1>2, <1>6 DEF T, v

(* The obligations of the controls up to the k-th are there, or the ledger was cut. *)
Told(M, p, s, k) ==
    \A i \in 1..k : s[i].probe # None => "obligations" \in M.truncated \/ Keyed(M, p, s[i].probe, s[i].subject) # {}

Listing(ev, L, M, n, p, s, k) ==
    Filed(ev, M, n) /\ Grows(L, M) /\ M.pages = L.pages /\ M.skipRefs = L.skipRefs /\ Told(M, p, s, k)

LEMMA FoundControls ==
    ASSUME NEW ev, NEW L, NEW n, Filed(ev, L, n), NEW p \in DOMAIN L.pages, NEW s, IsSeq(s),
           \A c \in ToSet(s) : c.probe \in {None, "disclosure_toggle", "dialog_focus_return"}
    PROVE  Listing(ev, L, AddControls(L, p, s), n, p, s, Len(s))
<1> DEFINE c == [kind |-> "control", page |-> p]
           v == AddControls(L, p, s)
<1>1. FoldsTo(v, c, L, s)
    BY ControlFold DEF IsSeq
<1> HIDE DEF v, c
<1>2. PICK g : Chain(g, c, L, s) /\ v = g[Len(s)]
    BY <1>1 DEF FoldsTo
<1> DEFINE T == {k \in 0..Len(s) : Listing(ev, L, g[k], n, p, s, k)}
<1>3. Len(s) \in Nat
    BY SeqFacts
<1>4. 0 \in T
    BY <1>2, <1>3, GrowsSame DEF Chain, Listing, Told, Filed
<1>5. ASSUME NEW k \in 1..Len(s), k - 1 \in T PROVE k \in T
    <2> DEFINE K == g[k - 1]
               M == g[k]
    <2>1. M = IF s[k].probe = None THEN K ELSE AddObligation(K, p, s[k].probe, s[k].subject)
        BY <1>2, <1>3 DEF Chain, Apply, c
    <2>2. Listing(ev, L, K, n, p, s, k - 1)
        BY <1>5
    <2> HIDE DEF K, M
    <2>3. CASE s[k].probe = None
        <3>1. Told(K, p, s, k)
            BY <2>2, <2>3 DEF Listing, Told
        <3> QED BY <1>3, <2>1, <2>2, <2>3, <3>1 DEF Listing, K, M
    <2>4. CASE s[k].probe # None
        <3>1. s[k].probe # "semantics"
            <4>1. s[k] \in ToSet(s)
                BY SeqFacts DEF ToSet
            <4> QED BY <2>4, <4>1
        <3>2. /\ Filed(ev, M, n) /\ M.pages = K.pages /\ M.skipRefs = K.skipRefs
              /\ K.truncated \subseteq M.truncated /\ Grows(K, M)
              /\ "obligations" \in M.truncated \/ Keyed(M, p, s[k].probe, s[k].subject) # {}
            BY <2>1, <2>2, <2>4, <3>1, AddObligationOK DEF Listing
        <3>3. Grows(L, M)
            BY <2>2, <3>2, GrowsFurther DEF Listing, Filed
        <3>4. ASSUME NEW i \in 1..k, s[i].probe # None
              PROVE  "obligations" \in M.truncated \/ Keyed(M, p, s[i].probe, s[i].subject) # {}
            <4>1. CASE i = k
                BY <3>2, <4>1
            <4>2. CASE i # k
                <5>1. "obligations" \in K.truncated \/ Keyed(K, p, s[i].probe, s[i].subject) # {}
                    BY <2>2, <3>4, <4>2 DEF Listing, Told
                <5>2. p \in DOMAIN K.pages
                    BY <2>2 DEF Listing
                <5>3. Keyed(K, p, s[i].probe, s[i].subject) \subseteq Keyed(M, p, s[i].probe, s[i].subject)
                    BY <2>2, <3>2, <5>2, GrowsKeeps DEF Listing, Filed
                <5> QED BY <3>2, <5>1, <5>3
            <4> QED BY <4>1, <4>2
        <3>5. Told(M, p, s, k)
            BY <3>4 DEF Told
        <3> QED BY <1>3, <2>2, <3>2, <3>3, <3>5 DEF Listing, M
    <2> QED BY <2>3, <2>4
<1> HIDE DEF T
<1>6. Len(s) \in T
    BY <1>3, <1>4, <1>5, UpTo
<1> QED BY <1>2, <1>6 DEF T, v

(* What an observation shows is known to the ledger afterwards, as far as its bounds allow. *)
LEMMA ObserveOK ==
    ASSUME NEW ev, NEW L, NEW n, Filed(ev, L, n), Owes(L), NEW o, IsSeq(o.discoveredNow), IsSeq(o.controls),
           o.controls = Site[o.url].controls, o.skipLinks = Skips(o.url),
           \A c \in ToSet(o.controls) : c.probe \in {None, "disclosure_toggle", "dialog_focus_return"}
    PROVE  LET M == Observe(L, o)
           IN  /\ Filed(ev, M, n) /\ Owes(M) /\ Grows(L, M) /\ Known(M, o.url) /\ M.skipRefs = o.skipLinks
               /\ \A t \in Targets(o) : Covered(M, t)
<1> DEFINE L0 == AddPage(L, o.url, L.last)
           L1 == Noted(L0, o)
           p == PageNo(L1, o.url)
           L2 == IF p = 0 THEN L1 ELSE SkipLinkSeen(Visit(L1, p), p, o.skipLinks # {})
           L3 == IF p = 0 THEN L2 ELSE AddLinked(L2, p, o.url, o.discoveredNow)
           f == [q \in DOMAIN L3.pages |-> Visible(L3.pages[q], L3.pages[q].url \in o.legalNavigate)]
           L4 == [L3 EXCEPT !.pages = f]
           states == L4.states \cup {StateKey(o)}
           L5 == IF StateKey(o) \in L4.states THEN L4
                 ELSE IF Cardinality(L4.states) >= MaxStates THEN Drop(L4, "states")
                 ELSE [L4 EXCEPT !.states = states]
           M == IF p = 0 THEN L4 ELSE AddControls(L5, p, o.controls)
<1>0. Observe(L, o) = M
    BY Zenon DEF Observe
<1>1. /\ Filed(ev, L0, n) /\ Grows(L, L0) /\ Owes(L0) /\ Known(L0, o.url)
      /\ PageNo(L0, o.url) = 0 => "pages" \in L0.truncated
    BY AddPageOK
<1> HIDE DEF L0
<1>2. /\ Filed(ev, L1, n) /\ Grows(L0, L1) /\ L1.obligations = L0.obligations /\ L1.pages = L0.pages
      /\ L1.truncated = L0.truncated /\ L1.skipRefs = o.skipLinks
    BY <1>1, SkipRefsOK
<1> HIDE DEF L1
<1>3. Owes(L1) /\ Known(L1, o.url) /\ (p = 0 => "pages" \in L1.truncated)
    BY <1>1, <1>2, OwesStill, GrowsKeeps DEF Filed, PageNo
<1>p. p # 0 => p \in DOMAIN L1.pages /\ L1.pages[p].url = o.url
    BY <1>2, PageNoIs DEF Filed
<1> HIDE DEF p
<1>4. /\ Filed(ev, L2, n) /\ Owes(L2) /\ Grows(L1, L2) /\ L2.skipRefs = o.skipLinks /\ DOMAIN L2.pages = DOMAIN L1.pages
      /\ p # 0 => /\ L2.pages[p].url = o.url /\ L2.pages[p].visited
                  /\ o.skipLinks # {} => \A i \in Keyed(L2, p, "skip_link", None) : L2.obligations[i].status # "deferred"
    <2>1. CASE p = 0
        BY <1>2, <1>3, <2>1, GrowsSame DEF Filed
    <2>2. CASE p # 0
        <3> DEFINE V == Visit(L1, p)
        <3>1. /\ Filed(ev, V, n) /\ Grows(L1, V) /\ V.skipRefs = L1.skipRefs /\ DOMAIN V.pages = DOMAIN L1.pages
              /\ V.pages[p].visited /\ V.pages[p].url = o.url
            BY <1>2, <1>p, <2>2, VisitOK
        <3> HIDE DEF V
        <3>2. L2 = SkipLinkSeen(V, p, o.skipLinks # {})
            BY <2>2 DEF V
        <3>3. p \in DOMAIN V.pages /\ (o.skipLinks # {}) \in BOOLEAN /\ (o.skipLinks # {} \/ Skips(V.pages[p].url) = {})
            BY <1>p, <2>2, <3>1
        <3> HIDE DEF L2
        <3> DEFINE seen == o.skipLinks # {}
        <3>a. /\ L2 = SkipLinkSeen(V, p, seen) /\ p \in DOMAIN V.pages /\ seen \in BOOLEAN /\ Filed(ev, V, n)
              /\ seen \/ Skips(V.pages[p].url) = {}
            BY <3>1, <3>2, <3>3
        <3> HIDE DEF seen
        <3>b. /\ Filed(ev, L2, n) /\ Grows(V, L2) /\ L2.pages = V.pages /\ L2.skipRefs = V.skipRefs
              /\ seen => \A i \in Keyed(L2, p, "skip_link", None) : L2.obligations[i].status # "deferred"
            BY <3>a, SkipLinkSeenOK
        <3>4. /\ Filed(ev, L2, n) /\ Grows(V, L2) /\ L2.pages = V.pages /\ L2.skipRefs = V.skipRefs
              /\ o.skipLinks # {} => \A i \in Keyed(L2, p, "skip_link", None) : L2.obligations[i].status # "deferred"
            BY <3>b DEF seen
        <3>5. Grows(L1, L2)
            BY <1>2, <3>1, <3>4, GrowsFurther DEF Filed
        <3>6. Owes(L2)
            BY <1>2, <1>3, <3>1, <3>4, <3>5, OwesStill DEF Filed
        <3> QED BY <1>2, <3>1, <3>4, <3>5, <3>6
    <2> QED BY <2>1, <2>2
<1> HIDE DEF L2
<1>5. Onward(ev, L2, L3, n)
    BY <1>4, FoundPages, GrowsSame DEF Onward, Filed
<1> HIDE DEF L3
<1>6. /\ Filed(ev, L4, n) /\ Grows(L3, L4) /\ L4.skipRefs = L3.skipRefs /\ DOMAIN L4.pages = DOMAIN L3.pages
    <2>1. f = [q \in DOMAIN L3.pages |-> f[q]] /\ \A q \in DOMAIN L3.pages : \E now : f[q] = Visible(L3.pages[q], now)
        BY Zenon
    <2> HIDE DEF f
    <2>2. L4 = Repaged(L3, f)
        BY <1>5, RepagedIs DEF Onward
    <2> HIDE DEF L4
    <2> QED BY <1>5, <2>1, <2>2, VisibleOK DEF Onward
<1> HIDE DEF L4
<1>7. /\ Filed(ev, L5, n) /\ Grows(L4, L5) /\ L5.skipRefs = L4.skipRefs /\ L5.pages = L4.pages
    <2>1. CASE StateKey(o) \in L4.states
        BY <1>6, <2>1, GrowsSame DEF Filed
    <2>2. CASE StateKey(o) \notin L4.states /\ Cardinality(L4.states) >= MaxStates
        <3>1. L5 = Drop(L4, "states")
            BY <2>2
        <3> HIDE DEF L5
        <3> QED BY <1>6, <3>1, DropOK
    <2>3. CASE StateKey(o) \notin L4.states /\ ~ (Cardinality(L4.states) >= MaxStates)
        <3>1. L5 = [L4 EXCEPT !.states = states]
            BY <2>3
        <3> HIDE DEF L5, states
        <3> QED BY <1>6, <3>1, StateOK
    <2> QED BY <2>1, <2>2, <2>3
<1> HIDE DEF L5
<1>8. Owes(L4) /\ Owes(L5)
    BY <1>5, <1>6, <1>7, OwesStill DEF Onward, Filed
<1>9. DOMAIN L1.pages \subseteq DOMAIN L5.pages
    <2>1. DOMAIN L2.pages \subseteq DOMAIN L3.pages
        BY <1>4, <1>5, GrowsKeeps DEF Onward, Filed
    <2> QED BY <1>4, <1>6, <1>7, <2>1
<1>10. CASE p = 0
    <2>1. M = L4
        BY <1>10
    <2> HIDE DEF M
    <2>2. Grows(L1, M)
        BY <1>2, <1>4, <1>5, <1>6, <2>1, GrowsFurther DEF Onward, Filed
    <2>3. Grows(L, M) /\ Known(M, o.url) /\ Filed(ev, M, n)
        BY <1>1, <1>2, <1>3, <1>6, <2>1, <2>2, GrowsFurther, GrowsKeeps DEF Filed
    <2>4. "pages" \in M.truncated
        BY <1>3, <1>10, <2>2 DEF Grows
    <2>5. M.skipRefs = o.skipLinks
        BY <1>4, <1>5, <1>6, <2>1 DEF Onward
    <2>6. \A t \in Targets(o) : Covered(M, t)
        BY <2>4 DEF Covered
    <2> QED BY <1>0, <1>8, <2>1, <2>3, <2>5, <2>6
<1>11. CASE p # 0
    <2>1. M = AddControls(L5, p, o.controls)
        BY <1>11
    <2> HIDE DEF M
    <2>2. Listing(ev, L5, M, n, p, o.controls, Len(o.controls))
        BY <1>7, <1>9, <1>11, <1>p, <2>1, FoundControls
    <2>3. Filed(ev, M, n) /\ Grows(L5, M) /\ M.pages = L5.pages /\ M.skipRefs = L5.skipRefs
        BY <2>2 DEF Listing
    <2>4. Owes(M)
        BY <1>7, <1>8, <2>3, OwesStill DEF Filed
    <2>5. Grows(L3, M)
        BY <1>5, <1>6, <1>7, <2>3, GrowsFurther DEF Onward, Filed
    <2>6. Grows(L2, M)
        BY <1>4, <1>5, <2>3, <2>5, GrowsFurther DEF Onward, Filed
    <2>7. Grows(L, M) /\ Known(M, o.url)
        <3>1. Grows(L1, M)
            BY <1>2, <1>4, <2>3, <2>6, GrowsFurther DEF Filed
        <3>2. Grows(L0, M)
            BY <1>1, <1>2, <2>3, <3>1, GrowsFurther DEF Filed
        <3>3. Grows(L, M)
            BY <1>1, <2>3, <3>2, GrowsFurther DEF Filed
        <3> QED BY <1>2, <1>3, <2>3, <3>1, <3>3, GrowsKeeps DEF Filed
    <2>8. M.skipRefs = o.skipLinks
        BY <1>4, <1>5, <1>6, <1>7, <2>3 DEF Onward
    <2>9. p \in DOMAIN M.pages /\ M.pages[p].url = o.url /\ M.pages[p].visited
        BY <1>4, <1>9, <1>11, <1>p, <2>3, <2>6 DEF Grows
    <2>10. ASSUME NEW c \in ToSet(o.controls), c.probe # None
           PROVE  Covered(M, <<o.url, c.probe, c.subject>>)
        <3>1. PICK k \in 1..Len(o.controls) : o.controls[k] = c
            BY SeqFacts DEF ToSet
        <3>2. "obligations" \in M.truncated \/ Keyed(M, p, c.probe, c.subject) # {}
            BY <2>2, <2>10, <3>1 DEF Listing, Told
        <3>3. ASSUME NEW i \in Keyed(M, p, c.probe, c.subject) PROVE M.obligations[i].status # "deferred"
            <4>1. i \in DOMAIN M.obligations /\ M.obligations[i].probe = c.probe /\ c.probe # "skip_link"
                BY <2>10 DEF Keyed
            <4> QED BY <2>3, <4>1 DEF Filed, IsLedger
        <3> QED BY <2>9, <3>2, <3>3 DEF Covered
    <2>11. ASSUME o.skipLinks # {} PROVE Covered(M, <<o.url, "skip_link", None>>)
        <3> DEFINE t == <<o.url, "skip_link", None>>
        <3>0. t[1] = o.url /\ t[2] = "skip_link" /\ t[3] = None
            OBVIOUS
        <3> HIDE DEF t
        <3>1. p \in DOMAIN L2.pages
            BY <1>4, <1>11, <1>p
        <3>2. Covered(L2, t)
            BY <1>4, <1>11, <2>11, <3>0, <3>1 DEF Covered, Owes
        <3>3. Covered(M, t)
            BY <1>4, <2>3, <2>6, <2>11, <3>0, <3>2, CoveredStays DEF Filed
        <3> QED BY <3>3 DEF t
    <2>12. \A t \in Targets(o) : Covered(M, t)
        BY <2>10, <2>11 DEF Targets
    <2> QED BY <1>0, <2>3, <2>4, <2>7, <2>8, <2>12
<1> QED BY <1>10, <1>11

-----------------------------------------------------------------------------
(* The records of a turn, one after the other. *)
Inspects(e) == e.kind \in {"inspect_semantics", "capture_evidence"}

Filing(ev, L, M, n) ==
    /\ Filed(ev, M, n) /\ Grows(L, M) /\ M.skipRefs = L.skipRefs /\ M.pages = L.pages

LEMMA RecordAllOK ==
    ASSUME NEW ev, NEW L, NEW before \in Nat, Filed(ev, L, before), IsSeq(ev), before <= Len(ev),
           \A id \in (before + 1)..Len(ev) : L.skipRefs = Skips(ev[id].before) /\ Known(L, ev[id].before)
    PROVE  LET M == RecordAll(L, before, SubSeq(ev, before + 1, Len(ev)))
           IN  /\ Filed(ev, M, Len(ev)) /\ Grows(L, M) /\ M.skipRefs = L.skipRefs /\ M.pages = L.pages
               /\ \A id \in (before + 1)..Len(ev) : Inspects(ev[id]) => Inspected0(M, ev[id].before)
<1> DEFINE new == SubSeq(ev, before + 1, Len(ev))
           ks == [k \in DOMAIN new |-> k]
           c == [kind |-> "record", before |-> before, new |-> new]
           v == RecordAll(L, before, new)
           m == Len(ev) - before
<1>1. ev \in Seq(ToSet(ev)) /\ Len(ev) \in Nat /\ DOMAIN ev = 1..Len(ev)
    BY SeqFacts DEF IsSeq
<1>2. m \in Nat /\ before + m = Len(ev)
    BY <1>1
<1>3. new \in Seq(ToSet(ev)) /\ Len(new) = m /\ DOMAIN new = 1..m /\ \A k \in 1..m : new[k] = ev[before + k]
    <2> DEFINE b == before + 1
               e == Len(ev)
    <2>1. b \in Int /\ e \in Int /\ \A k \in b..e : ev[k] \in ToSet(ev)
        BY <1>1
    <2> HIDE DEF b, e, m
    <2>2. /\ new \in Seq(ToSet(ev)) /\ Len(new) = (IF b <= e THEN e - b + 1 ELSE 0)
          /\ \A i \in 1..(e - b + 1) : new[i] = ev[b + i - 1]
        BY <2>1, SubSeqProperties DEF b, e
    <2> HIDE DEF new
    <2>a. e \in Nat /\ before <= e /\ b = before + 1 /\ m = e - before
        BY <1>1 DEF b, e, m
    <2>3. e - b + 1 = m /\ Len(new) = m
        <3>1. e - b + 1 = m
            BY <2>a
        <3>2. Len(new) = IF b <= e THEN m ELSE 0
            BY <2>2, <3>1
        <3>3. b <= e \/ m = 0
            BY <2>a
        <3> QED BY <3>1, <3>2, <3>3
    <2>4. DOMAIN new = 1..m
        BY <2>2, <2>3
    <2>5. ASSUME NEW k \in 1..m PROVE new[k] = ev[before + k]
        <3>1. b + k - 1 = before + k
            BY <1>2 DEF b
        <3> QED BY <2>2, <2>3, <3>1
    <2> QED BY <2>2, <2>3, <2>4, <2>5
<1> HIDE DEF new, m
<1>4. FoldsTo(v, c, L, ks)
    BY <1>3, RecordFold
<1>5. Len(ks) = m /\ \A k \in 1..m : ks[k] = k
    BY <1>2, <1>3
<1> HIDE DEF v, c, ks
<1>6. PICK g : Chain(g, c, L, ks) /\ v = g[m]
    BY <1>4, <1>5 DEF FoldsTo
<1> DEFINE Done(k) == \A id \in (before + 1)..(before + k) : Inspects(ev[id]) => Inspected0(g[k], ev[id].before)
           T == {k \in 0..m : Filing(ev, L, g[k], before + k) /\ Done(k)}
<1>7. 0 \in T
    <2>1. g[0] = L
        BY <1>6 DEF Chain
    <2>2. Filing(ev, L, g[0], before + 0)
        BY <2>1, GrowsSame DEF Filing, Filed
    <2>3. Done(0)
        OBVIOUS
    <2> QED BY <1>2, <2>2, <2>3
<1>8. ASSUME NEW k \in 1..m, k - 1 \in T PROVE k \in T
    <2> DEFINE K == g[k - 1]
               N == g[k]
               n == before + k - 1
    <2>1. n \in Nat /\ n + 1 = before + k /\ n + 1 \in DOMAIN ev /\ n + 1 \in (before + 1)..Len(ev)
          /\ n = before + (k - 1)
        BY <1>1, <1>2
    <2>2. N = RecordEvidence(K, n + 1, ev[n + 1])
        <3>1. N = RecordEvidence(K, before + ks[k], new[ks[k]])
            BY <1>5, <1>6 DEF Chain, Apply, c
        <3> QED BY <1>3, <1>5, <2>1, <3>1
    <2>3. Filing(ev, L, K, n) /\ Done(k - 1)
        BY <1>8, <2>1
    <2> HIDE DEF K, N, n
    <2>4. K.skipRefs = Skips(ev[n + 1].before) /\ Known(K, ev[n + 1].before)
        BY <2>1, <2>3, GrowsKeeps DEF Filing, Filed
    <2>5. /\ Filed(ev, N, n + 1) /\ Grows(K, N) /\ N.skipRefs = K.skipRefs /\ N.pages = K.pages
          /\ Inspects(ev[n + 1]) => Inspected0(N, ev[n + 1].before)
        BY <2>1, <2>2, <2>3, <2>4, RecordEvidenceOK DEF Filing, Inspects
    <2>6. Filing(ev, L, N, n + 1)
        BY <2>3, <2>5, GrowsFurther DEF Filing, Filed
    <2>7. ASSUME NEW id \in (before + 1)..(before + k), Inspects(ev[id])
          PROVE  Inspected0(N, ev[id].before)
        <3>1. CASE id = n + 1
            BY <2>5, <2>7, <3>1
        <3>2. CASE id # n + 1
            <4>1. id \in (before + 1)..(before + (k - 1))
                BY <1>2, <2>1, <3>2
            <4>2. Inspected0(K, ev[id].before)
                BY <2>3, <2>7, <4>1 DEF K
            <4> QED BY <2>3, <2>5, <4>2, InspectedStays DEF Filing, Filed
        <3> QED BY <3>1, <3>2
    <2>8. Done(k)
        BY <2>7 DEF N
    <2> QED BY <1>2, <2>1, <2>6, <2>8 DEF N
<1> HIDE DEF T
<1>9. m \in T
    BY <1>2, <1>7, <1>8, UpTo
<1>10. Filing(ev, L, v, Len(ev)) /\ Done(m)
    BY <1>2, <1>6, <1>9 DEF T
<1>11. \A id \in (before + 1)..Len(ev) : Inspects(ev[id]) => Inspected0(v, ev[id].before)
    BY <1>2, <1>6, <1>10
<1> QED BY <1>10, <1>11 DEF Filing, v, new

-----------------------------------------------------------------------------
(* Sequences, and the scheduler's state. *)

(* The scheduler's state: its queue is a sequence, in a record that keeps its fields. *)
IsSched(s) ==
    /\ s = [skipped |-> s.skipped, attempted |-> s.attempted, reported |-> s.reported, queue |-> s.queue,
            capturing |-> s.capturing, inspecting |-> s.inspecting, dialog |-> s.dialog, goingTo |-> s.goingTo]
    /\ IsSeq(s.queue)

LEMMA EmptyIsSeq == IsSeq(<<>>)
<1>1. <<>> \in Seq({})
    OBVIOUS
<1> QED BY <1>1, SeqIsSeq

LEMMA OneIsSeq == ASSUME NEW x PROVE IsSeq(<<x>>)
<1>1. <<x>> \in Seq({x})
    OBVIOUS
<1> QED BY <1>1, SeqIsSeq

LEMMA ConcatIsSeq == ASSUME NEW s, NEW t, IsSeq(s), IsSeq(t) PROVE IsSeq(s \o t)
<1> DEFINE S == ToSet(s) \cup ToSet(t)
<1>1. s \in Seq(ToSet(s)) /\ t \in Seq(ToSet(t))
    BY DEF IsSeq
<1>a. s \in Seq(S) /\ t \in Seq(S)
    <2> HIDE DEF S
    <2>1. ToSet(s) \subseteq S /\ ToSet(t) \subseteq S
        BY DEF S
    <2> QED BY <1>1, <2>1
<1>2. s \o t \in Seq(S)
    <2> HIDE DEF S
    <2> QED BY <1>a
<1> QED BY <1>2, SeqIsSeq

LEMMA FirstIsSeq == ASSUME NEW s, IsSeq(s), NEW n \in Nat PROVE IsSeq(FirstOf(s, n))
<1>1. Len(s) \in Nat /\ DOMAIN s = 1..Len(s)
    BY SeqFacts
<1> DEFINE m == IF Len(s) < n THEN Len(s) ELSE n
<1>2. m \in Nat /\ m <= Len(s)
    BY <1>1
<1> HIDE DEF m
<1>3. 1 \in Int /\ m \in Int /\ \A i \in 1..m : s[i] \in ToSet(s)
    BY <1>1, <1>2 DEF ToSet
<1>4. SubSeq(s, 1, m) \in Seq(ToSet(s))
    BY <1>3, SubSeqProperties
<1> QED BY <1>4, SeqIsSeq DEF FirstOf, m

LEMMA PickedIsSeq == ASSUME NEW s, IsSeq(s), NEW F PROVE IsSeq(Picked(s, F))
<1> DEFINE c == [kind |-> "picked", from |-> F]
<1>1. FoldsTo(Picked(s, F), c, <<>>, s)
    BY PickedFold DEF IsSeq
<1> HIDE DEF c
<1>2. PICK g : Chain(g, c, <<>>, s) /\ Picked(s, F) = g[Len(s)]
    BY <1>1 DEF FoldsTo
<1> DEFINE T == {k \in 0..Len(s) : IsSeq(g[k])}
<1>3. Len(s) \in Nat
    BY SeqFacts
<1>4. 0 \in T
    BY <1>2, <1>3, EmptyIsSeq DEF Chain
<1>5. ASSUME NEW k \in 1..Len(s), k - 1 \in T PROVE k \in T
    <2>1. g[k] = IF s[k] \in F THEN Append(g[k - 1], s[k]) ELSE g[k - 1]
        BY <1>2, <1>3 DEF Chain, Apply, c
    <2>2. IsSeq(g[k - 1])
        BY <1>5
    <2>3. IsSeq(g[k])
        BY <2>1, <2>2, SeqFacts
    <2> QED BY <1>3, <2>3
<1> HIDE DEF T
<1>6. Len(s) \in T
    BY <1>3, <1>4, <1>5, UpTo
<1> QED BY <1>2, <1>6 DEF T

LEMMA RevealedIsSeq ==
    ASSUME NEW links, IsSeq(links), NEW s, IsSeq(s), \A x \in ToSet(s) : IsSeq(x.reveals), NEW e
    PROVE  IsSeq(Revealed(links, s, e))
<1> DEFINE c == [kind |-> "links", expanded |-> e]
<1>1. FoldsTo(Revealed(links, s, e), c, links, s)
    BY LinksFold DEF IsSeq
<1> HIDE DEF c
<1>2. PICK g : Chain(g, c, links, s) /\ Revealed(links, s, e) = g[Len(s)]
    BY <1>1 DEF FoldsTo
<1> DEFINE T == {k \in 0..Len(s) : IsSeq(g[k])}
<1>3. Len(s) \in Nat
    BY SeqFacts
<1>4. 0 \in T
    BY <1>2, <1>3 DEF Chain
<1>5. ASSUME NEW k \in 1..Len(s), k - 1 \in T PROVE k \in T
    <2>1. g[k] = IF s[k].subject \in e THEN g[k - 1] \o s[k].reveals ELSE g[k - 1]
        BY <1>2, <1>3 DEF Chain, Apply, c
    <2>2. IsSeq(g[k - 1])
        BY <1>5
    <2>3. s[k] \in ToSet(s)
        BY SeqFacts DEF ToSet
    <2>4. IsSeq(g[k])
        BY <2>1, <2>2, <2>3, ConcatIsSeq
    <2> QED BY <1>3, <2>4
<1> HIDE DEF T
<1>6. Len(s) \in T
    BY <1>3, <1>4, <1>5, UpTo
<1> QED BY <1>2, <1>6 DEF T

-----------------------------------------------------------------------------
LEMMA QueuedOK == ASSUME NEW s, IsSched(s), NEW key, NEW f, NEW t, t = Queued(s, key, f) PROVE IsSched(t)
<1>1. t = [skipped |-> s.skipped, attempted |-> s.attempted, reported |-> s.reported \cup {key}, queue |-> Append(s.queue, f),
           capturing |-> s.capturing, inspecting |-> s.inspecting, dialog |-> s.dialog, goingTo |-> s.goingTo]
    BY DEF IsSched, Queued
<1>2. IsSeq(Append(s.queue, f))
    BY SeqFacts DEF IsSched
<1> QED BY <1>1, <1>2 DEF IsSched

LEMMA EnqueueOK == ASSUME NEW s, IsSched(s), NEW p, NEW fs, IsSeq(fs) PROVE IsSched(Enqueue(s, p, fs))
<1> DEFINE c == [kind |-> "enqueue", page |-> p]
<1>1. FoldsTo(Enqueue(s, p, fs), c, s, fs)
    BY EnqueueFold DEF IsSeq
<1> HIDE DEF c
<1>2. PICK g : Chain(g, c, s, fs) /\ Enqueue(s, p, fs) = g[Len(fs)]
    BY <1>1 DEF FoldsTo
<1> DEFINE T == {k \in 0..Len(fs) : IsSched(g[k])}
<1>3. Len(fs) \in Nat
    BY SeqFacts
<1>4. 0 \in T
    BY <1>2, <1>3 DEF Chain
<1>5. ASSUME NEW k \in 1..Len(fs), k - 1 \in T PROVE k \in T
    <2> DEFINE key == <<fs[k].category, p, fs[k].target>>
    <2>1. g[k] = IF key \in g[k - 1].reported THEN g[k - 1] ELSE Queued(g[k - 1], key, fs[k])
        BY <1>2, <1>3 DEF Chain, Apply, c
    <2> HIDE DEF key
    <2>2. IsSched(g[k - 1])
        BY <1>5
    <2>3. IsSched(g[k])
        BY <2>1, <2>2, QueuedOK
    <2> QED BY <1>3, <2>3
<1> HIDE DEF T
<1>6. Len(fs) \in T
    BY <1>3, <1>4, <1>5, UpTo
<1> QED BY <1>2, <1>6 DEF T

LEMMA ArrivedOK == ASSUME NEW s, IsSched(s), NEW v, NEW t, t = Arrived(s, v) PROVE IsSched(t)
<1> DEFINE missed == IF s.goingTo \notin {0, v.current} THEN {s.goingTo} ELSE {}
<1>1. t = [skipped |-> s.skipped \cup missed, attempted |-> s.attempted, reported |-> s.reported, queue |-> s.queue,
           capturing |-> s.capturing, inspecting |-> s.inspecting, dialog |-> s.dialog, goingTo |-> 0]
    BY DEF IsSched, Arrived
<1> QED BY <1>1 DEF IsSched

LEMMA TakenOK == ASSUME NEW s, IsSched(s), s.queue # <<>>, NEW t, t = Taken(s) PROVE IsSched(t)
<1>1. t = [skipped |-> s.skipped, attempted |-> s.attempted, reported |-> s.reported, queue |-> Tail(s.queue),
           capturing |-> Head(s.queue), inspecting |-> s.inspecting, dialog |-> s.dialog, goingTo |-> s.goingTo]
    BY DEF IsSched, Taken
<1>2. s.queue \in Seq(ToSet(s.queue))
    BY DEF IsSched, IsSeq
<1>3. IsSeq(Tail(s.queue))
    <2>1. Tail(s.queue) \in Seq(ToSet(s.queue))
        BY <1>2, HeadTailProperties
    <2> QED BY <2>1, SeqIsSeq
<1> QED BY <1>1, <1>3 DEF IsSched

LEMMA EmptiedOK == ASSUME NEW s, IsSched(s), NEW t, t = Emptied(s) PROVE IsSched(t)
<1>1. t = [skipped |-> s.skipped, attempted |-> s.attempted, reported |-> s.reported, queue |-> <<>>,
           capturing |-> None, inspecting |-> s.inspecting, dialog |-> s.dialog, goingTo |-> s.goingTo]
    BY DEF IsSched, Emptied
<1> QED BY <1>1, EmptyIsSeq DEF IsSched

LEMMA InspectingOK == ASSUME NEW s, IsSched(s), NEW is, NEW p, NEW t, t = Inspecting(s, is, p) PROVE IsSched(t)
<1>1. t = [skipped |-> s.skipped, attempted |-> s.attempted \cup is, reported |-> s.reported, queue |-> s.queue,
           capturing |-> s.capturing, inspecting |-> p, dialog |-> s.dialog, goingTo |-> s.goingTo]
    BY DEF IsSched, Inspecting
<1> QED BY <1>1 DEF IsSched

LEMMA CapturingOK == ASSUME NEW s, IsSched(s), NEW x, NEW t, t = [s EXCEPT !.capturing = x] PROVE IsSched(t) /\ t.queue = s.queue
<1>1. t = [skipped |-> s.skipped, attempted |-> s.attempted, reported |-> s.reported, queue |-> s.queue, capturing |-> x, inspecting |-> s.inspecting, dialog |-> s.dialog, goingTo |-> s.goingTo]
    BY DEF IsSched
<1> QED BY <1>1 DEF IsSched

LEMMA NotInspectingOK == ASSUME NEW s, IsSched(s), NEW x, NEW t, t = [s EXCEPT !.inspecting = x] PROVE IsSched(t) /\ t.queue = s.queue
<1>1. t = [skipped |-> s.skipped, attempted |-> s.attempted, reported |-> s.reported, queue |-> s.queue, capturing |-> s.capturing, inspecting |-> x, dialog |-> s.dialog, goingTo |-> s.goingTo]
    BY DEF IsSched
<1> QED BY <1>1 DEF IsSched

LEMMA DialogFieldOK == ASSUME NEW s, IsSched(s), NEW x, NEW t, t = [s EXCEPT !.dialog = x] PROVE IsSched(t) /\ t.queue = s.queue
<1>1. t = [skipped |-> s.skipped, attempted |-> s.attempted, reported |-> s.reported, queue |-> s.queue, capturing |-> s.capturing, inspecting |-> s.inspecting, dialog |-> x, goingTo |-> s.goingTo]
    BY DEF IsSched
<1> QED BY <1>1 DEF IsSched

LEMMA GoingOK == ASSUME NEW s, IsSched(s), NEW x, NEW t, t = [s EXCEPT !.goingTo = x] PROVE IsSched(t) /\ t.queue = s.queue
<1>1. t = [skipped |-> s.skipped, attempted |-> s.attempted, reported |-> s.reported, queue |-> s.queue, capturing |-> s.capturing, inspecting |-> s.inspecting, dialog |-> s.dialog, goingTo |-> x]
    BY DEF IsSched
<1> QED BY <1>1 DEF IsSched

LEMMA TriedOK == ASSUME NEW s, IsSched(s), NEW x, NEW t, t = [s EXCEPT !.attempted = @ \cup x] PROVE IsSched(t) /\ t.queue = s.queue
<1>1. t = [skipped |-> s.skipped, attempted |-> s.attempted \cup x, reported |-> s.reported, queue |-> s.queue, capturing |-> s.capturing, inspecting |-> s.inspecting, dialog |-> s.dialog, goingTo |-> s.goingTo]
    BY DEF IsSched
<1> QED BY <1>1 DEF IsSched

LEMMA PageFindingsIsSeq == ASSUME NEW o, IsSeq(o.controls), NEW ids PROVE IsSeq(PageFindings(o, ids))
<1> DEFINE unnamed == Picked(o.controls, {c \in ToSet(o.controls) : ~c.named})
           broken == Picked(o.controls, {c \in ToSet(o.controls) : c.subject \in o.brokenSkips})
           a == [i \in DOMAIN unnamed |-> Finding("missing_accessible_name", unnamed[i].subject, ids)]
           b == [i \in DOMAIN broken |-> Finding("skip_link_broken", broken[i].subject, ids)]
<1>1. IsSeq(unnamed) /\ IsSeq(broken)
    BY PickedIsSeq
<1>2. PageFindings(o, ids) = FirstOf(a \o b, MaxFindings)
    BY Zenon DEF PageFindings
<1> HIDE DEF unnamed, broken
<1>3. a = [i \in DOMAIN unnamed |-> a[i]] /\ b = [i \in DOMAIN broken |-> b[i]]
    OBVIOUS
<1> HIDE DEF a, b
<1>4. IsSeq(a) /\ IsSeq(b)
    BY <1>1, <1>3, MapIsSeq
<1>5. MaxFindings \in Nat
    BY SessionAssumption
<1> QED BY <1>2, <1>4, <1>5, ConcatIsSeq, FirstIsSeq

LEMMA InspectedOK ==
    ASSUME NEW s, IsSched(s), NEW o, IsSeq(o.controls), NEW v PROVE IsSched(Inspected(s, o, v))
<1> DEFINE s1 == [s EXCEPT !.inspecting = 0]
<1>1. IsSched(s1)
    BY NotInspectingOK
<1>2. IsSched(Enqueue(s1, v.current, PageFindings(o, o.lastEvidence)))
    BY <1>1, PageFindingsIsSeq, EnqueueOK
<1> QED BY <1>1, <1>2 DEF Inspected

LEMMA DialogStepOK ==
    ASSUME NEW s, IsSched(s), NEW o, NEW v PROVE IsSched(DialogStep(s, o, v))
<1>1. CASE s.dialog = None
    BY <1>1 DEF DialogStep
<1>2. CASE s.dialog # None /\ s.dialog.stage = "opened"
    <2> DEFINE t == Enqueue(s, v.current, DialogOpenedFindings(o, s.dialog.trigger, o.lastEvidence))
               d == IF o.finalCall THEN None
                    ELSE [trigger |-> s.dialog.trigger, stage |-> "escaped", activated |-> o.lastEvidence]
    <2>1. IsSeq(DialogOpenedFindings(o, s.dialog.trigger, o.lastEvidence))
        BY EmptyIsSeq, OneIsSeq DEF DialogOpenedFindings
    <2>2. IsSched(t)
        BY <2>1, EnqueueOK
    <2>3. DialogStep(s, o, v) = [t EXCEPT !.dialog = d]
        BY <1>2 DEF DialogStep
    <2> HIDE DEF t, d
    <2> QED BY <2>2, <2>3, DialogFieldOK
<1>3. CASE s.dialog # None /\ s.dialog.stage # "opened"
    <2> DEFINE t == [s EXCEPT !.dialog = None]
               fs == DialogClosedFindings(o, s.dialog.trigger, s.dialog.activated \cup o.lastEvidence)
    <2>1. IsSeq(fs)
        BY EmptyIsSeq, OneIsSeq DEF DialogClosedFindings
    <2>2. IsSched(t)
        BY DialogFieldOK
    <2>3. DialogStep(s, o, v) = Enqueue(t, v.current, fs)
        BY <1>3 DEF DialogStep
    <2> HIDE DEF t, fs
    <2> QED BY <2>1, <2>2, <2>3, EnqueueOK
<1> QED BY <1>1, <1>2, <1>3

(* A decision of the scheduler: its next state, and an action that can be carried out. *)
IsDecision(d) == IsSched(d.state) /\ IsSeq(d.action.candidates)

LEMMA ActionsAreSeq ==
    /\ \A t : IsSeq(Plain(t).candidates)
    /\ \A u : IsSeq(To(u).candidates)
    /\ \A t, x : IsSeq(On(t, x).candidates)
    /\ \A c : Reporting(c).candidates = <<c>>
    /\ \A v, cs : Finishing(v, cs).candidates = cs
BY EmptyIsSeq DEF Plain, To, On, Reporting, Finishing

LEMMA FinishOK ==
    ASSUME NEW s, IsSched(s), NEW o, NEW v, NEW ids PROVE IsDecision(Finish(s, o, v, ids))
<1> DEFINE captured == IF s.capturing # None /\ ids # {} THEN <<Candidate(s.capturing, ids)>> ELSE <<>>
           probed == Picked(s.queue, {f \in ToSet(s.queue) : f.probed # {}})
           done == v.outstanding = <<>> /\ v.remaining = 0
           told == [i \in DOMAIN probed |-> Candidate(probed[i], {})]
           d == [state |-> Emptied(s), action |-> Finishing(IF done THEN "complete" ELSE "inconclusive", captured \o told)]
<1>1. Finish(s, o, v, ids) = d
    BY Zenon DEF Finish
<1>2. IsSeq(captured)
    BY EmptyIsSeq, OneIsSeq
<1>3. IsSeq(probed)
    BY PickedIsSeq DEF IsSched
<1> HIDE DEF captured, probed, done
<1>4. told = [i \in DOMAIN probed |-> told[i]]
    OBVIOUS
<1> HIDE DEF told
<1>5. IsSeq(captured \o told)
    BY <1>2, <1>3, <1>4, MapIsSeq, ConcatIsSeq
<1>6. d.state = Emptied(s) /\ d.action.candidates = captured \o told
    BY ActionsAreSeq
<1> HIDE DEF d
<1> QED BY <1>1, <1>5, <1>6, EmptiedOK DEF IsDecision

LEMMA NextStepOK ==
    ASSUME NEW s, IsSched(s), NEW o, NEW v, NEW L, NEW n PROVE IsDecision(NextStep(s, o, v, L, n))
<1> DEFINE todo == Todo(s, v, L.obligations)
           Runnable(i) == \/ L.obligations[i].probe \in Static
                          \/ L.obligations[i].subject \in o.legalActivate
           ready == {k \in DOMAIN todo : Runnable(todo[k])}
           k == CHOOSE k \in ready : \A j \in ready : k <= j
           passed == ToSet(IF ready = {} THEN todo ELSE FirstOf(todo, k))
           siblings == {i \in ToSet(todo) : L.obligations[i].probe \in Static}
           next == L.obligations[todo[k]]
           tried == [s EXCEPT !.attempted = @ \cup passed]
           Rank(p) == Cardinality({q \in ToSet(v.pages) : q < p /\ L.pages[q].source = L.pages[p].source})
           fresh == {p \in DOMAIN L.pages :
                       /\ p \in ToSet(v.pages) \ {v.current}
                       /\ ~L.pages[p].visited /\ p \notin s.skipped /\ Rank(p) < n}
           target == CHOOSE p \in fresh : \A q \in fresh : p <= q
           under == [trigger |-> next.subject, stage |-> "opened", activated |-> {}]
           d1 == [state |-> Inspecting(tried, siblings, v.current), action |-> Plain("inspect_semantics")]
           d2 == [state |-> tried, action |-> On("activate", next.subject)]
           d3 == [state |-> [tried EXCEPT !.dialog = under], action |-> On("activate", next.subject)]
           d4 == [state |-> [tried EXCEPT !.goingTo = target], action |-> To(L.pages[target].url)]
           d == IF ready # {}
                THEN IF next.probe \in Static THEN d1
                     ELSE [state |-> IF next.probe # "dialog_focus_return" THEN tried ELSE [tried EXCEPT !.dialog = under],
                           action |-> On("activate", next.subject)]
                ELSE IF o.surfacesLeft > 0 /\ fresh # {} THEN d4
                ELSE Finish(tried, o, v, {})
<1>1. NextStep(s, o, v, L, n) = d
    BY Zenon DEF NextStep
<1> HIDE DEF passed, siblings, next, fresh, target, ready, under
<1>2. IsSched(tried)
    BY TriedOK
<1> HIDE DEF tried
<1>3. IsDecision(d1)
    BY <1>2, InspectingOK, ActionsAreSeq DEF IsDecision
<1>4. IsDecision(d2)
    BY <1>2, ActionsAreSeq DEF IsDecision
<1>5. IsDecision(d3)
    BY <1>2, DialogFieldOK, ActionsAreSeq DEF IsDecision
<1>6. IsDecision(d4)
    BY <1>2, GoingOK, ActionsAreSeq DEF IsDecision
<1>7. IsDecision(Finish(tried, o, v, {}))
    BY <1>2, FinishOK
<1>8. d \in {d1, d2, d3, d4, Finish(tried, o, v, {})}
    BY Zenon
<1> HIDE DEF d, d1, d2, d3, d4
<1> QED BY <1>1, <1>3, <1>4, <1>5, <1>6, <1>7, <1>8

LEMMA DecideOK ==
    ASSUME NEW s0, IsSched(s0), NEW o, IsSeq(o.controls), NEW v, NEW L, NEW n
    PROVE  IsDecision(Decide(s0, o, v, L, n))
<1> DEFINE s1 == Inspected(Arrived(s0, v), o, v)
           s == DialogStep(s1, o, v)
           waiting == [s EXCEPT !.capturing = None]
           d1 == [state |-> s, action |-> Plain("escape")]
           d2 == Finish(s, o, v, o.lastEvidence)
           d3 == [state |-> waiting, action |-> Reporting(Candidate(s.capturing, o.lastEvidence))]
           d4 == [state |-> Taken(waiting), action |-> On("capture_evidence", Head(s.queue).target)]
           d5 == NextStep(waiting, o, v, L, n)
           d == IF s1.dialog # None /\ s1.dialog.stage = "opened" /\ ~o.finalCall THEN d1
                ELSE IF o.finalCall THEN d2
                ELSE IF s.capturing # None /\ o.lastEvidence # {} THEN d3
                ELSE IF s.queue # <<>> THEN d4
                ELSE d5
<1>1. Decide(s0, o, v, L, n) = d
    BY Zenon DEF Decide
<1>2. IsSched(s)
    BY ArrivedOK, InspectedOK, DialogStepOK
<1> HIDE DEF s, s1
<1>3. IsSched(waiting) /\ waiting.queue = s.queue
    BY <1>2, CapturingOK
<1> HIDE DEF waiting
<1>4. IsDecision(d1)
    BY <1>2, ActionsAreSeq DEF IsDecision
<1>5. IsDecision(d2)
    BY <1>2, FinishOK
<1>6. IsDecision(d3)
    <2>1. d3.state = waiting /\ d3.action.candidates = <<Candidate(s.capturing, o.lastEvidence)>>
        BY ActionsAreSeq
    <2> HIDE DEF d3
    <2> QED BY <1>3, <2>1, OneIsSeq DEF IsDecision
<1>7. s.queue # <<>> => IsDecision(d4)
    BY <1>3, TakenOK, ActionsAreSeq DEF IsDecision
<1>8. IsDecision(d5)
    BY <1>3, NextStepOK
<1> HIDE DEF d1, d2, d3, d4, d5
<1> QED BY <1>1, <1>4, <1>5, <1>6, <1>7, <1>8

-----------------------------------------------------------------------------
(* The session and its ledger. *)

Limits ==
    /\ cfg \in Sessions /\ step \in 0..cfg.maxSteps /\ calls \in 0..cfg.maxCalls
    /\ phase \in {"ask", "act", "record"} \cup Flush /\ result = None => step < cfg.maxSteps
    /\ refused \in 0..MaxDenials /\ browser \in 0..MaxBrowserDenials
    /\ phase \in {"ask", "act"} => refused < MaxDenials

Places ==
    /\ page = [at |-> page.at, expanded |-> page.expanded, dialog |-> page.dialog, returned |-> page.returned]
    /\ page.at \in DOMAIN Site /\ surfaces \subseteq DOMAIN Site
    /\ IsSeq(evidence) /\ IsSeq(candidates) /\ IsSched(sched)
    /\ phase = "act" => /\ IsSeq(turn.action.candidates)
                        /\ turn.action.type = "navigate" => Navigable(turn.action.url)

(* The records the ledger has learnt of. *)
Learnt == IF phase = "record" THEN turn.before ELSE Len(evidence)

Kept ==
    /\ phase \in {"ask", "act"} => turn.before = Len(evidence)
    /\ phase = "record" => turn.before \in 0..Len(evidence)
    /\ Filed(evidence, ledger, Learnt) /\ Owes(ledger)
    /\ \A id \in 1..Learnt : Inspects(evidence[id]) => Inspected0(ledger, evidence[id].before)
    /\ phase \in {"ask", "act"} => ledger.skipRefs = Skips(page.at) /\ Known(ledger, page.at)
    /\ phase = "record" =>
         \A id \in (turn.before + 1)..Len(evidence) :
           ledger.skipRefs = Skips(evidence[id].before) /\ Known(ledger, evidence[id].before)
    /\ \A t \in shown : Covered(ledger, t) /\ (t[2] = "skip_link" => Skips(t[1]) # {})

Cites(stored, n) == \A k \in DOMAIN stored : stored[k].status # "rejected" => stored[k].refs \subseteq 1..n

Filings ==
    /\ Cites(candidates, Len(evidence))
    /\ disk.evidence \in 0..Len(evidence)
    /\ Cites(disk.candidates, disk.evidence)
    /\ \A i \in DOMAIN disk.frontier.obligations : disk.frontier.obligations[i].cites \subseteq 1..disk.evidence
    /\ phase \in {"write_candidates", "write_frontier"} => disk.evidence = Len(evidence)

LedgerInv == Limits /\ Places /\ Kept /\ Filings /\ CompleteCoversShown
-----------------------------------------------------------------------------
LEMMA SameRecords ==
    ASSUME NEW ev, NEW L, NEW n \in Nat, Filed(ev, L, n), NEW ev2, \A id \in 1..n : ev2[id] = ev[id]
    PROVE  Filed(ev2, L, n)
<1>1. ASSUME NEW ob, NEW url, Proven(ev, ob, url, n) PROVE Proven(ev2, ob, url, n)
    <2>1. ASSUME ob.status = "executed" PROVE Probed(ev2, ob.cites, url, ob.probe, ob.subject)
        <3>1. Probed(ev, ob.cites, url, ob.probe, ob.subject) /\ \A id \in ob.cites : ev2[id] = ev[id]
            BY <1>1, <2>1 DEF Proven
        <3> QED BY <3>1 DEF Probed
    <2> QED BY <1>1, <2>1 DEF Proven
<1>2. ASSUME NEW d, NEW url, Opening(ev, d, url, n) PROVE Opening(ev2, d, url, n)
    BY <1>2 DEF Opening
<1> QED BY <1>1, <1>2 DEF Filed

LEMMA EmptyLedgerOK == ASSUME NEW ev PROVE Filed(ev, EmptyLedger, 0) /\ Owes(EmptyLedger)
<1> DEFINE L == EmptyLedger
<1>1. L.pages = <<>> /\ L.obligations = <<>> /\ L.openDialog = None /\ HasFields(L)
    BY DEF EmptyLedger, HasFields
<1>2. DOMAIN L.pages = {} /\ DOMAIN L.obligations = {} /\ Len(L.pages) = 0
    BY <1>1
<1> HIDE DEF L
<1>3. IsLedger(L)
    BY <1>1, <1>2, EmptyIsSeq, BoundsAssumption DEF IsLedger
<1> QED BY <1>1, <1>2, <1>3 DEF Filed, Owes, L

LEMMA ObservationIs ==
    ASSUME Places, NEW final
    PROVE  LET o == Observation(final)
           IN  /\ o.url = page.at /\ o.controls = Site[page.at].controls /\ IsSeq(o.controls)
               /\ o.skipLinks = Skips(page.at) /\ IsSeq(o.discoveredNow)
               /\ \A c \in ToSet(o.controls) : c.probe \in {None, "disclosure_toggle", "dialog_focus_return"}
<1> DEFINE o == Observation(final)
<1>1. /\ o.url = page.at /\ o.controls = Controls /\ o.discoveredNow = Picked(Links, DOMAIN Site \ {ErrorPage})
      /\ o.skipLinks = {c.subject : c \in {d \in ToSet(Controls) : d.skip # "no"}}
    BY DEF Observation
<1> HIDE DEF o
<1>2. /\ IsSeq(Controls) /\ IsSeq(Site[page.at].links)
      /\ \A c \in ToSet(Controls) : IsSeq(c.reveals) /\ c.probe \in {None, "disclosure_toggle", "dialog_focus_return"}
    BY SessionAssumption DEF Places, Controls
<1>3. IsSeq(Revealed(Site[page.at].links, Controls, page.expanded))
    BY <1>2, RevealedIsSeq
<1>4. MaxLinks \in Nat
    BY SessionAssumption
<1>5. IsSeq(Picked(Links, DOMAIN Site \ {ErrorPage}))
    BY <1>3, <1>4, FirstIsSeq, PickedIsSeq DEF Links
<1> QED BY <1>1, <1>2, <1>5 DEF Skips, Controls, o

(* What a turn sees of skip links is there. *)
LEMMA TargetsAreThere ==
    ASSUME Places, NEW final, NEW t \in Targets(Observation(final)), t[2] = "skip_link"
    PROVE  Skips(t[1]) # {}
<1> DEFINE o == Observation(final)
<1>1. /\ o.url = page.at /\ o.skipLinks = Skips(page.at)
      /\ \A c \in ToSet(o.controls) : c.probe \in {None, "disclosure_toggle", "dialog_focus_return"}
    BY ObservationIs
<1>2. \/ \E c \in ToSet(o.controls) : c.probe # None /\ t = <<o.url, c.probe, c.subject>>
      \/ o.skipLinks # {} /\ t = <<o.url, "skip_link", None>>
    BY DEF Targets
<1> HIDE DEF o
<1> QED BY <1>1, <1>2

LEMMA ReportsOK ==
    ASSUME Places, Cites(candidates, Len(evidence)), NEW s, IsSeq(s)
    PROVE  LET stored == FoldLeft(StoreCandidate, candidates, s)
           IN  IsSeq(stored) /\ Cites(stored, Len(evidence))
<1> DEFINE c == [kind |-> "store"]
           stored == FoldLeft(StoreCandidate, candidates, s)
<1>1. FoldsTo(stored, c, candidates, s)
    BY StoreFold DEF IsSeq
<1> HIDE DEF c, stored
<1>2. PICK g : Chain(g, c, candidates, s) /\ stored = g[Len(s)]
    BY <1>1 DEF FoldsTo
<1> DEFINE T == {k \in 0..Len(s) : IsSeq(g[k]) /\ Cites(g[k], Len(evidence))}
<1>3. Len(s) \in Nat /\ DOMAIN evidence = 1..Len(evidence)
    BY SeqFacts DEF Places
<1>4. 0 \in T
    BY <1>2, <1>3 DEF Chain, Places
<1>5. ASSUME NEW k \in 1..Len(s), k - 1 \in T PROVE k \in T
    <2>1. g[k] = StoreCandidate(g[k - 1], s[k])
        BY <1>2, <1>3 DEF Chain, Apply, c
    <2>2. PICK verdict \in {"rejected", "duplicate", "candidate"} :
            /\ g[k] = Append(g[k - 1], [status |-> verdict, category |-> s[k].category, refs |-> s[k].refs])
            /\ verdict # "rejected" => s[k].refs \subseteq DOMAIN evidence
        BY <2>1 DEF StoreCandidate
    <2>3. IsSeq(g[k - 1]) /\ Cites(g[k - 1], Len(evidence))
        BY <1>5
    <2> DEFINE e == [status |-> verdict, category |-> s[k].category, refs |-> s[k].refs]
               h == g[k - 1]
               w == Append(h, e)
    <2>4. e.status = verdict /\ e.refs = s[k].refs
        OBVIOUS
    <2> HIDE DEF e, h
    <2>5. /\ IsSeq(w) /\ DOMAIN w = 1..(Len(h) + 1) /\ DOMAIN h = 1..Len(h) /\ Len(h) \in Nat
          /\ \A i \in 1..Len(h) : w[i] = h[i]
          /\ w[Len(h) + 1] = e
        BY <2>3, SeqFacts DEF h
    <2>6. g[k] = w
        BY <2>2 DEF h, e
    <2> HIDE DEF w
    <2>7. Cites(w, Len(evidence))
        <3> SUFFICES ASSUME NEW i \in DOMAIN w, w[i].status # "rejected"
                     PROVE  w[i].refs \subseteq 1..Len(evidence)
            BY DEF Cites
        <3>1. CASE i \in 1..Len(h)
            BY <2>3, <2>5, <3>1 DEF Cites, h
        <3>2. CASE i = Len(h) + 1
            BY <1>3, <2>2, <2>4, <2>5, <3>2
        <3>3. i \in 1..Len(h) \/ i = Len(h) + 1
            BY <2>5
        <3> QED BY <3>1, <3>2, <3>3
    <2> QED BY <1>3, <2>5, <2>6, <2>7
<1> HIDE DEF T
<1>6. Len(s) \in T
    BY <1>3, <1>4, <1>5, UpTo
<1> QED BY <1>2, <1>6 DEF T, stored

(* A completion within scope is earned, probe by probe. *)
LEMMA CompletionIsTrue ==
    ASSUME Kept, phase # "record", IsSeq(evidence), NEW s, NEW cancelled,
           Completion(ledger, s, cancelled, cfg.perSource) = "complete_within_scope",
           NEW t \in shown, NEW p \in SamplingScope(ledger, cfg.perSource), ledger.pages[p].url = t[1]
    PROVE  Probed(evidence, DOMAIN evidence, t[1], t[2], t[3])
<1> DEFINE n == Len(evidence)
<1>1. n \in Nat /\ DOMAIN evidence = 1..n
    BY SeqFacts
<1>2. Filed(evidence, ledger, n) /\ Covered(ledger, t)
    BY DEF Kept, Learnt
<1> HIDE DEF n
<1>3. /\ RelevantPending(ledger, cfg.perSource) = {} /\ ledger.truncated = {}
      /\ SurfaceCapped(ledger, cfg.perSource) = {} /\ Blocked(ledger) = {}
    BY DEF Completion
<1>a. PICK q \in DOMAIN ledger.pages :
         /\ ledger.pages[q].url = t[1] /\ ledger.pages[q].visited
         /\ \E i \in Keyed(ledger, q, t[2], t[3]) : ledger.obligations[i].status # "deferred"
    BY <1>2, <1>3 DEF Covered
<1>4. PICK i \in Keyed(ledger, q, t[2], t[3]) : ledger.obligations[i].status # "deferred"
    BY <1>a
<1>5. p \in DOMAIN ledger.pages
    BY DEF SamplingScope
<1>6. q = p
    BY <1>2, <1>a, <1>5 DEF Filed, IsLedger
<1> DEFINE ob == ledger.obligations[i]
<1>7. i \in DOMAIN ledger.obligations /\ ob.page = p /\ ob.probe = t[2] /\ ob.subject = t[3]
    BY <1>4, <1>6 DEF Keyed
<1>8. ob.status \in Marks
    BY <1>2, <1>7 DEF Filed, IsLedger
<1>9. ob.status # "pending"
    BY <1>3, <1>a, <1>6, <1>7 DEF RelevantPending
<1>10. ob.status # "blocked"
    BY <1>3, <1>7 DEF SurfaceCapped, Blocked
<1>11. ob.status = "executed"
    BY <1>4, <1>8, <1>9, <1>10 DEF Marks
<1>12. ob.cites \subseteq 1..n /\ Probed(evidence, ob.cites, t[1], t[2], t[3])
    BY <1>2, <1>7, <1>11 DEF Filed, Proven
<1> HIDE DEF ob
<1> QED BY <1>1, <1>12 DEF Probed

-----------------------------------------------------------------------------
(* The invariant. *)
LEMMA LedgerInit == Init => LedgerInv
<1> SUFFICES ASSUME Init PROVE LedgerInv
    OBVIOUS
<1>0. /\ cfg \in Sessions /\ phase = "open" /\ step = 0 /\ calls = 0 /\ refused = 0 /\ browser = 0
      /\ page = Fresh(Start) /\ surfaces = {} /\ evidence = <<>> /\ candidates = <<>>
      /\ ledger = EmptyLedger /\ sched = Idle /\ result = None /\ shown = {}
      /\ disk = [evidence |-> 0, candidates |-> <<>>, frontier |-> EmptyLedger, begun |-> {}]
    BY DEF Init
<1>1. Limits
    BY <1>0, SessionAssumption DEF Limits, Flush
<1>2. Places
    <2>1. IsSched(Idle)
        BY EmptyIsSeq DEF IsSched, Idle
    <2>2. Start \in DOMAIN Site
        BY SessionAssumption
    <2> QED BY <1>0, <2>1, <2>2, EmptyIsSeq DEF Places, Fresh
<1>3. Kept
    <2>1. Len(<<>>) = 0 /\ Learnt = 0 /\ 1..0 = {}
        BY <1>0 DEF Learnt
    <2> QED BY <1>0, <2>1, EmptyLedgerOK DEF Kept
<1>4. Filings
    <2>1. DOMAIN EmptyLedger.obligations = {} /\ DOMAIN <<>> = {} /\ Len(<<>>) = 0
        BY DEF EmptyLedger
    <2> QED BY <1>0, <2>1 DEF Filings, Cites
<1>5. CompleteCoversShown
    BY <1>0 DEF CompleteCoversShown
<1> QED BY <1>1, <1>2, <1>3, <1>4, <1>5 DEF LedgerInv

(* Steps that leave alone what the ledger is about, to a phase without a turn in it. *)
LEMMA KeptSame ==
    ASSUME Kept, UNCHANGED <<ledger, evidence, shown>>, phase # "record", phase' \notin {"ask", "act", "record"}
    PROVE  Kept'
BY DEF Kept, Learnt

LEMMA PlacesSame ==
    ASSUME Places, UNCHANGED <<page, surfaces, evidence, candidates, sched>>, phase' # "act"
    PROVE  Places'
BY DEF Places

LEMMA FilingsSame ==
    ASSUME Filings, UNCHANGED <<evidence, candidates, disk>>, phase' \notin {"write_candidates", "write_frontier"}
    PROVE  Filings'
BY DEF Filings

LEMMA CoversEarly == ASSUME result' = None PROVE CompleteCoversShown'
BY DEF CompleteCoversShown

LEMMA CoversSame ==
    ASSUME CompleteCoversShown, UNCHANGED <<cfg, result, ledger, shown, evidence>> PROVE CompleteCoversShown'
BY DEF CompleteCoversShown

(* The loop is left, and nothing it had is touched. *)
LEMMA LeavesLedger ==
    ASSUME LedgerInv, phase # "record", phase' = "end", result' = None,
           UNCHANGED <<cfg, step, calls, refused, browser, page, surfaces, evidence, candidates, sched, ledger, shown, disk>>
    PROVE  LedgerInv'
<1>1. Limits'
    BY DEF LedgerInv, Limits, Flush
<1> QED BY <1>1, PlacesSame, KeptSame, FilingsSame, CoversEarly DEF LedgerInv

LEMMA OpenKeeps == SessionInv /\ LedgerInv /\ Open => LedgerInv'
<1> SUFFICES ASSUME SessionInv, LedgerInv, Open PROVE LedgerInv'
    OBVIOUS
<1>0. PICK url \in Lands[Start] :
        /\ page' = Fresh(url) /\ surfaces' = {url} /\ phase = "open" /\ phase' = "turn"
        /\ UNCHANGED <<cfg, step, calls, refused, browser, evidence, candidates, sched, ledger, shown, disk, result>>
    BY DEF Open, denialVars, outVars, endVars
<1>1. Limits'
    BY <1>0 DEF LedgerInv, Limits, Flush
<1>2. url \in DOMAIN Site
    BY SessionAssumption
<1>3. Places'
    BY <1>0, <1>2 DEF LedgerInv, Places, Fresh
<1>4. result' = None
    BY <1>0 DEF SessionInv, Running, Early
<1> QED BY <1>0, <1>1, <1>3, <1>4, KeptSame, FilingsSame, CoversEarly DEF LedgerInv

LEMMA TurnLimitedKeeps == SessionInv /\ LedgerInv /\ TurnLimited => LedgerInv'
<1> SUFFICES ASSUME SessionInv, LedgerInv, TurnLimited PROVE LedgerInv'
    OBVIOUS
<1>1. /\ phase = "turn" /\ phase' = "end"
      /\ UNCHANGED <<cfg, step, calls, refused, browser, page, surfaces, evidence, candidates, sched, ledger, shown, disk, result>>
    BY DEF TurnLimited, Leave, pageVars, denialVars, outVars, endVars
<1>2. result' = None
    BY <1>1 DEF SessionInv, Running, Early
<1> QED BY <1>1, <1>2, LeavesLedger

LEMMA ProviderFailsKeeps == SessionInv /\ LedgerInv /\ ProviderFails => LedgerInv'
<1> SUFFICES ASSUME SessionInv, LedgerInv, ProviderFails PROVE LedgerInv'
    OBVIOUS
<1>1. /\ phase = "ask" /\ phase' = "end"
      /\ UNCHANGED <<cfg, step, calls, refused, browser, page, surfaces, evidence, candidates, sched, ledger, shown, disk, result>>
    BY DEF ProviderFails, Leave, pageVars, denialVars, outVars, endVars
<1>2. result' = None
    BY <1>1 DEF SessionInv, Running, Early
<1> QED BY <1>1, <1>2, LeavesLedger

LEMMA RunFailsKeeps == SessionInv /\ LedgerInv /\ RunFails => LedgerInv'
<1> SUFFICES ASSUME SessionInv, LedgerInv, RunFails PROVE LedgerInv'
    OBVIOUS
<1>1. /\ phase # "record" /\ phase' = "end" /\ result' = None
      /\ UNCHANGED <<cfg, step, calls, refused, browser, page, surfaces, evidence, candidates, sched, ledger, shown, disk>>
    BY DEF RunFails, Flush, Leave, pageVars, denialVars, outVars, endVars
<1> QED BY <1>1, LeavesLedger

(* An observation is registered, whether or not the provider is asked. *)
LEMMA ObserveTurnKeeps == SessionInv /\ LedgerInv /\ ObserveTurn => LedgerInv'
<1> SUFFICES ASSUME SessionInv, LedgerInv, ObserveTurn PROVE LedgerInv'
    OBVIOUS
<1> DEFINE o == Observation(FinalCall)
           L == Observe(ledger, o)
           n == Len(evidence)
<1>0. /\ phase = "turn" /\ LimitReached = None
      /\ ledger' = (IF cfg.ledgerVisible THEN Compact(L, o, cfg.perSource) ELSE L)
      /\ shown' = shown \cup Targets(o)
      /\ UNCHANGED <<cfg, step, page, surfaces, refused, browser, evidence, candidates, sched, disk, result>>
    BY Zenon DEF ObserveTurn, denialVars, outVars
<1>a. \/ phase' = "end" /\ calls' = calls
      \/ phase' = "ask" /\ calls' = calls + 1 /\ turn'.before = n
    BY DEF ObserveTurn, Leave
<1>1. Limits'
    <2>1. step < cfg.maxSteps /\ calls < cfg.maxCalls /\ refused < MaxDenials
        <3>1. cfg.maxSteps \in Nat /\ cfg.maxCalls \in Nat /\ MaxDenials \in Nat
            BY SessionAssumption DEF LedgerInv, Limits
        <3>2. None # "budget_exhausted" /\ None # "denial_limit"
            BY SessionAssumption DEF Statuses
        <3> QED BY <1>0, <3>1, <3>2 DEF LimitReached, LedgerInv, Limits
    <2>2. cfg.maxSteps \in Nat /\ cfg.maxCalls \in Nat /\ MaxDenials \in Nat
        BY SessionAssumption DEF LedgerInv, Limits
    <2> QED BY <1>0, <1>a, <2>1, <2>2 DEF LedgerInv, Limits, Flush
<1>2. Places'
    BY <1>0, <1>a, PlacesSame DEF LedgerInv
<1>3. Kept'
    <2>1. /\ Places /\ Filed(evidence, ledger, n) /\ Owes(ledger) /\ IsLedger(ledger)
          /\ \A id \in 1..n : Inspects(evidence[id]) => Inspected0(ledger, evidence[id].before)
          /\ \A t \in shown : Covered(ledger, t) /\ (t[2] = "skip_link" => Skips(t[1]) # {})
        BY <1>0 DEF LedgerInv, Kept, Learnt, Filed
    <2>2. /\ o.url = page.at /\ o.controls = Site[page.at].controls /\ IsSeq(o.controls)
          /\ o.skipLinks = Skips(page.at) /\ IsSeq(o.discoveredNow)
          /\ \A c \in ToSet(o.controls) : c.probe \in {None, "disclosure_toggle", "dialog_focus_return"}
        BY <2>1, ObservationIs
    <2>3. \A t \in Targets(o) : t[2] = "skip_link" => Skips(t[1]) # {}
        BY <2>1, TargetsAreThere
    <2> HIDE DEF o
    <2>4. /\ Filed(evidence, L, n) /\ Owes(L) /\ Grows(ledger, L) /\ Known(L, o.url) /\ L.skipRefs = o.skipLinks
          /\ \A t \in Targets(o) : Covered(L, t)
        BY <2>1, <2>2, ObserveOK
    <2> HIDE DEF L
    <2> DEFINE M == IF cfg.ledgerVisible THEN Compact(L, o, cfg.perSource) ELSE L
    <2>5. /\ Filed(evidence, M, n) /\ Grows(L, M) /\ M.skipRefs = L.skipRefs /\ DOMAIN M.pages = DOMAIN L.pages
        <3>1. CASE cfg.ledgerVisible
            <4>1. M = Compact(L, o, cfg.perSource)
                BY <3>1
            <4> HIDE DEF M
            <4> QED BY <2>4, <4>1, CompactOK
        <3>2. CASE ~cfg.ledgerVisible
            <4>1. M = L
                BY <3>2
            <4> HIDE DEF M
            <4> QED BY <2>4, <4>1, GrowsSame DEF Filed
        <3> QED BY <3>1, <3>2
    <2>6. ledger' = M
        BY <1>0
    <2> HIDE DEF M
    <2>7. Owes(M) /\ Grows(ledger, M) /\ Known(M, page.at) /\ M.skipRefs = Skips(page.at) /\ IsLedger(M) /\ IsLedger(L)
        BY <2>1, <2>2, <2>4, <2>5, OwesStill, GrowsFurther, GrowsKeeps DEF Filed
    <2>8. \A id \in 1..n : Inspects(evidence[id]) => Inspected0(M, evidence[id].before)
        BY <2>1, <2>7, InspectedStays
    <2>9. \A t \in shown \cup Targets(o) : Covered(M, t) /\ (t[2] = "skip_link" => Skips(t[1]) # {})
        BY <2>1, <2>3, <2>4, <2>5, <2>7, CoveredStays
    <2>10. Learnt' = n
        BY <1>0, <1>a DEF Learnt
    <2> QED BY <1>0, <1>a, <2>5, <2>6, <2>7, <2>8, <2>9, <2>10 DEF Kept
<1>4. Filings'
    BY <1>0, <1>a, FilingsSame DEF LedgerInv
<1>5. result' = None
    BY <1>0 DEF SessionInv, Running, Early
<1> QED BY <1>1, <1>2, <1>3, <1>4, <1>5, CoversEarly DEF LedgerInv

LEMMA DecidedKeeps ==
    ASSUME SessionInv, LedgerInv, phase = "ask", NEW a, Decided(a), IsSeq(a.candidates), IsSched(sched')
    PROVE  LedgerInv'
<1> DEFINE d == Refusal(a, Observation(turn.final))
<1>0. /\ UNCHANGED <<cfg, step, calls, page, surfaces, browser, evidence, candidates, ledger, disk, result, shown>>
      /\ result = None /\ IsTurn(turn)
    BY DEF Decided, pageVars, outVars, endVars, SessionInv, Running, Early
<1>1. \/ /\ phase' = "record" /\ refused' = refused + 1
         /\ turn' = [turn EXCEPT !.action = a, !.denial = d, !.outcome = "denied"]
      \/ /\ phase' = "act" /\ turn' = [turn EXCEPT !.action = a] /\ refused' = refused
         /\ a.type = "navigate" => Navigable(a.url)
    <2>1. CASE d # NoDenial
        BY <2>1 DEF Decided
    <2>2. CASE d = NoDenial
        <3>1. ASSUME a.type = "navigate", ~Navigable(a.url) PROVE FALSE
            <4>1. d.reason \in {"finish_required", "forbidden_action_type", "origin_not_allowed"}
                BY <3>1 DEF Refusal
            <4> HIDE DEF d
            <4> QED BY <2>2, <4>1 DEF NoDenial
        <3> QED BY <2>2, <3>1 DEF Decided
    <2> QED BY <2>1, <2>2
<1> HIDE DEF d
<1>2. turn'.before = turn.before /\ turn'.action = a
    BY <1>0, <1>1 DEF IsTurn
<1>3. Limits'
    <2>1. MaxDenials \in Nat
        BY SessionAssumption
    <2> QED BY <1>0, <1>1, <2>1 DEF LedgerInv, Limits, Flush
<1>4. Places'
    BY <1>0, <1>1, <1>2 DEF LedgerInv, Places
<1>5. Kept'
    <2>1. turn.before = Len(evidence) /\ Learnt = Len(evidence) /\ Learnt' = Len(evidence)
        BY <1>0, <1>1, <1>2 DEF LedgerInv, Kept, Learnt
    <2>2. Len(evidence) \in Nat
        BY SeqFacts DEF LedgerInv, Places
    <2>3. turn'.before \in 0..Len(evidence) /\ (turn'.before + 1)..Len(evidence) = {}
        BY <1>2, <2>1, <2>2
    <2> QED BY <1>0, <1>1, <1>2, <2>1, <2>3 DEF LedgerInv, Kept
<1>6. Filings'
    BY <1>0, <1>1, FilingsSame DEF LedgerInv
<1> QED BY <1>0, <1>3, <1>4, <1>5, <1>6, CoversEarly DEF LedgerInv

LEMMA ModelActionsAreSeq == ASSUME NEW a \in ModelActions PROVE IsSeq(a.candidates)
<1> DEFINE cited == [category |-> "any", refs |-> {Len(evidence)} \ {0}]
           forged == [category |-> "any", refs |-> {Len(evidence) + 1}]
<1>1. \/ \E t \in {"inspect_semantics", "escape", "unknown", "malformed"} : a = Plain(t)
      \/ \E u \in discovered \cup {Made} : a = To(u)
      \/ \E c \in ToSet(Observation(turn.final).controls) : a = On("activate", c.subject)
      \/ a = On("capture_evidence", Made) \/ a = Reporting(cited)
      \/ \E v \in Verdicts : a = Finishing(v, <<cited, forged>>)
    BY Zenon DEF ModelActions
<1> HIDE DEF cited, forged
<1>2. IsSeq(<<cited>>) /\ IsSeq(<<cited, forged>>)
    <2>1. <<cited, forged>> \in Seq({cited, forged})
        OBVIOUS
    <2> QED BY <2>1, OneIsSeq, SeqIsSeq
<1> QED BY <1>1, <1>2, ActionsAreSeq

LEMMA ModelAnswersKeeps == SessionInv /\ LedgerInv /\ ModelAnswers => LedgerInv'
<1> SUFFICES ASSUME SessionInv, LedgerInv, ModelAnswers PROVE LedgerInv'
    OBVIOUS
<1>1. IsSched(sched')
    BY DEF ModelAnswers, LedgerInv, Places
<1> QED BY <1>1, DecidedKeeps, ModelActionsAreSeq DEF ModelAnswers

LEMMA SchedulerAnswersKeeps == SessionInv /\ LedgerInv /\ SchedulerAnswers => LedgerInv'
<1> SUFFICES ASSUME SessionInv, LedgerInv, SchedulerAnswers PROVE LedgerInv'
    OBVIOUS
<1> DEFINE o == Observation(turn.final)
           d == Decide(sched, o, View(ledger, o, cfg.perSource), ledger, cfg.perSource)
<1>1. phase = "ask" /\ Decided(d.action) /\ sched' = d.state
    BY DEF SchedulerAnswers
<1>2. IsSeq(o.controls) /\ IsSched(sched)
    BY ObservationIs DEF LedgerInv, Places
<1> HIDE DEF o
<1>3. IsDecision(d)
    BY <1>2, DecideOK
<1> HIDE DEF d
<1> QED BY <1>1, <1>3, DecidedKeeps DEF IsDecision

(* An action is carried out, with at most one record of the page it started on. *)
LEMMA ActStep ==
    ASSUME SessionInv, LedgerInv, phase = "act", phase' = "record", turn'.before = turn.before,
           UNCHANGED <<cfg, step, calls, ledger, sched, disk, result, shown>>,
           refused' \in {refused, refused + 1}, browser' \in 0..MaxBrowserDenials,
           page' = [at |-> page'.at, expanded |-> page'.expanded, dialog |-> page'.dialog, returned |-> page'.returned],
           page'.at \in DOMAIN Site, surfaces' \subseteq DOMAIN Site,
           IsSeq(candidates'), Cites(candidates', Len(evidence)),
           NEW e, e.before = page.at, evidence' \in {evidence, Append(evidence, e)}
    PROVE  LedgerInv'
<1> DEFINE n == Len(evidence)
<1>1. result = None /\ turn.before = n /\ IsSeq(evidence)
    BY DEF SessionInv, Running, Early, LedgerInv, Kept, Places
<1> DEFINE w == Append(evidence, e)
<1>a. /\ n \in Nat /\ DOMAIN evidence = 1..n /\ IsSeq(w) /\ Len(w) = n + 1
      /\ \A id \in 1..n : w[id] = evidence[id]
      /\ w[n + 1] = e
    BY <1>1, SeqFacts
<1>b. evidence' = evidence \/ evidence' = w
    OBVIOUS
<1> HIDE DEF w, n
<1>2. /\ n \in Nat /\ DOMAIN evidence = 1..n /\ IsSeq(evidence')
      /\ Len(evidence') \in {n, n + 1} /\ \A id \in 1..n : evidence'[id] = evidence[id]
      /\ Len(evidence') = n + 1 => evidence'[n + 1] = e
    <2>1. CASE evidence' = evidence
        <3>1. Len(evidence') = n
            BY <2>1 DEF n
        <3> QED BY <1>1, <1>a, <2>1, <3>1
    <2>2. CASE evidence' = w
        BY <1>a, <2>2
    <2> QED BY <1>b, <2>1, <2>2
<1> HIDE DEF n
<1>3. Limits'
    <2>1. MaxDenials \in Nat
        BY SessionAssumption
    <2> QED BY <2>1 DEF LedgerInv, Limits, Flush
<1>4. Places'
    BY <1>2 DEF LedgerInv, Places
<1>5. Kept'
    <2>1. /\ Filed(evidence, ledger, n) /\ Owes(ledger)
          /\ \A id \in 1..n : Inspects(evidence[id]) => Inspected0(ledger, evidence[id].before)
          /\ ledger.skipRefs = Skips(page.at) /\ Known(ledger, page.at)
          /\ \A t \in shown : Covered(ledger, t) /\ (t[2] = "skip_link" => Skips(t[1]) # {})
        BY DEF LedgerInv, Kept, Learnt, n
    <2>2. Filed(evidence', ledger, n)
        BY <1>2, <2>1, SameRecords
    <2>3. Learnt' = n /\ turn'.before = n /\ n \in 0..Len(evidence')
        BY <1>1, <1>2 DEF Learnt
    <2>4. ASSUME NEW id \in (n + 1)..Len(evidence')
          PROVE  ledger.skipRefs = Skips(evidence'[id].before) /\ Known(ledger, evidence'[id].before)
        <3>1. id = n + 1 /\ Len(evidence') = n + 1
            BY <1>2
        <3> QED BY <1>2, <2>1, <3>1
    <2>5. \A id \in 1..n : Inspects(evidence'[id]) => Inspected0(ledger, evidence'[id].before)
        BY <1>2, <2>1
    <2> QED BY <2>1, <2>2, <2>3, <2>4, <2>5 DEF Kept
<1>6. Filings'
    <2>1. n <= Len(evidence') /\ 1..n \subseteq 1..Len(evidence') /\ Len(evidence') \in Nat
        BY <1>2
    <2>2. Cites(candidates', Len(evidence'))
        BY <2>1 DEF Cites, n
    <2>3. disk'.evidence \in 0..Len(evidence')
        BY <1>2, <2>1 DEF LedgerInv, Filings, n
    <2> QED BY <2>2, <2>3 DEF LedgerInv, Filings
<1> QED BY <1>1, <1>3, <1>4, <1>5, <1>6, CoversEarly DEF LedgerInv

LEMMA SettledIs ==
    ASSUME SessionInv, phase = "act", NEW stored, NEW ids, Settled(stored, ids)
    PROVE  phase' = "record" /\ turn'.before = turn.before
<1>1. /\ phase' = "record"
      /\ turn' = [turn EXCEPT !.refusedNow = turn.refusedNow \/ stored, !.keep = ~(memo.unknown >= MaxUnknown),
                              !.outcome = IF turn.refusedNow \/ stored THEN "denied" ELSE "executed"]
    BY DEF Settled
<1>2. IsTurn(turn)
    BY DEF SessionInv, Running
<1> QED BY <1>1, <1>2 DEF IsTurn

(* Before an action nothing cites what is not there, and the counts are within their caps. *)
LEMMA ActFacts ==
    ASSUME LedgerInv
    PROVE  /\ IsSeq(candidates) /\ Cites(candidates, Len(evidence)) /\ surfaces \subseteq DOMAIN Site
           /\ page = [at |-> page.at, expanded |-> page.expanded, dialog |-> page.dialog, returned |-> page.returned]
           /\ page.at \in DOMAIN Site
           /\ browser \in 0..MaxBrowserDenials /\ (Stores => browser + 1 \in 0..MaxBrowserDenials)
           /\ \A kind : Evidence(kind).before = page.at
           /\ \A u : Fresh(u).at = u /\ Fresh(u) = [at |-> Fresh(u).at, expanded |-> Fresh(u).expanded,
                                                    dialog |-> Fresh(u).dialog, returned |-> Fresh(u).returned]
<1>1. \A kind : Evidence(kind).before = page.at
    BY DEF Evidence
<1>2. \A u : Fresh(u).at = u /\ Fresh(u) = [at |-> Fresh(u).at, expanded |-> Fresh(u).expanded,
                                            dialog |-> Fresh(u).dialog, returned |-> Fresh(u).returned]
    BY DEF Fresh
<1>3. browser \in 0..MaxBrowserDenials /\ (Stores => browser + 1 \in 0..MaxBrowserDenials)
    <2>1. MaxBrowserDenials \in Nat
        BY SessionAssumption
    <2> QED BY <2>1 DEF LedgerInv, Limits, Stores
<1> QED BY <1>1, <1>2, <1>3 DEF LedgerInv, Places, Filings

IsPlace(p) ==
    /\ p = [at |-> p.at, expanded |-> p.expanded, dialog |-> p.dialog, returned |-> p.returned]
    /\ p.at \in DOMAIN Site

(* A click leaves the tab on a page of the site. *)
LEMMA ClickedIsPlace == ASSUME LedgerInv, NEW c, NEW p, p = Clicked(c) PROVE IsPlace(p)
<1>1. IsPlace(page) /\ ErrorPage \in DOMAIN Site
    BY SessionAssumption DEF LedgerInv, Places, IsPlace
<1>2. CASE c.goes # None
    BY <1>1, <1>2 DEF Clicked, Fresh, Navigable, IsPlace
<1>3. CASE c.goes = None /\ c.probe = "dialog_focus_return"
    <2>1. p = [page EXCEPT !.dialog = c.subject, !.returned = FALSE]
        BY <1>3 DEF Clicked
    <2>2. p = [at |-> page.at, expanded |-> page.expanded, dialog |-> c.subject, returned |-> FALSE]
        BY <1>1, <2>1 DEF IsPlace
    <2> QED BY <1>1, <2>2 DEF IsPlace
<1>4. CASE c.goes = None /\ c.probe # "dialog_focus_return" /\ c.probe = "disclosure_toggle"
    <2>1. p = [page EXCEPT !.expanded = IF c.subject \in page.expanded THEN page.expanded \ {c.subject}
                                        ELSE page.expanded \cup {c.subject}]
        BY <1>4 DEF Clicked
    <2> DEFINE x == IF c.subject \in page.expanded THEN page.expanded \ {c.subject} ELSE page.expanded \cup {c.subject}
    <2>a. p = [page EXCEPT !.expanded = x]
        BY <2>1
    <2> HIDE DEF x
    <2>2. p = [at |-> page.at, expanded |-> x, dialog |-> page.dialog, returned |-> page.returned]
        BY <1>1, <2>a DEF IsPlace
    <2> QED BY <1>1, <2>2 DEF IsPlace
<1>5. CASE c.goes = None /\ c.probe # "dialog_focus_return" /\ c.probe # "disclosure_toggle"
    BY <1>1, <1>5 DEF Clicked
<1> QED BY <1>2, <1>3, <1>4, <1>5

(* Whatever an action does, it keeps the rest of the session as it is. *)
LEMMA ProbeKeeps == SessionInv /\ LedgerInv /\ Probe => LedgerInv'
<1> SUFFICES ASSUME SessionInv, LedgerInv, Probe PROVE LedgerInv'
    OBVIOUS
<1> DEFINE e == Evidence(turn.action.type)
           back == ControlOf(page.dialog).focusBack
<1>0. /\ phase = "act" /\ Settled(FALSE, NewId) /\ evidence' = Append(evidence, e)
      /\ page' = page \/ page' = [page EXCEPT !.dialog = None, !.returned = back]
      /\ UNCHANGED <<cfg, step, calls, surfaces, refused, browser, candidates, ledger, sched, disk, result, shown>>
    BY DEF Probe, Performing, denialVars, endVars
<1>1. phase' = "record" /\ turn'.before = turn.before
    BY <1>0, SettledIs
<1>2. /\ IsSeq(candidates) /\ Cites(candidates, Len(evidence)) /\ surfaces \subseteq DOMAIN Site
      /\ IsPlace(page) /\ browser \in 0..MaxBrowserDenials /\ e.before = page.at
    BY ActFacts DEF IsPlace
<1> HIDE DEF e, back
<1>3. IsPlace(page')
    <2>1. CASE page' = page
        BY <1>2, <2>1 DEF IsPlace
    <2>2. CASE page' = [page EXCEPT !.dialog = None, !.returned = back]
        <3>1. page' = [at |-> page.at, expanded |-> page.expanded, dialog |-> None, returned |-> back]
            BY <1>2, <2>2 DEF IsPlace
        <3> QED BY <1>2, <3>1 DEF IsPlace
    <2> QED BY <1>0, <2>1, <2>2
<1> QED BY <1>0, <1>1, <1>2, <1>3, ActStep DEF IsPlace

LEMMA NavigateKeeps == SessionInv /\ LedgerInv /\ Navigate => LedgerInv'
<1> SUFFICES ASSUME SessionInv, LedgerInv, Navigate PROVE LedgerInv'
    OBVIOUS
<1> DEFINE e == Evidence("navigate")
<1>0. PICK url \in Lands[turn.action.url] :
        /\ phase = "act" /\ Settled(FALSE, NewId) /\ evidence' = Append(evidence, e)
        /\ page' = Fresh(url) /\ surfaces' = surfaces \cup {url} /\ turn.action.type = "navigate"
        /\ UNCHANGED <<cfg, step, calls, refused, browser, candidates, ledger, sched, disk, result, shown>>
    BY DEF Navigate, Performing, denialVars, endVars
<1>1. phase' = "record" /\ turn'.before = turn.before
    BY <1>0, SettledIs
<1>2. /\ IsSeq(candidates) /\ Cites(candidates, Len(evidence)) /\ surfaces \subseteq DOMAIN Site
      /\ browser \in 0..MaxBrowserDenials /\ e.before = page.at
    BY ActFacts
<1> HIDE DEF e
<1>3. turn.action.url \in DOMAIN Site \ {ErrorPage}
    BY <1>0 DEF LedgerInv, Places, Navigable
<1>4. url \in DOMAIN Site
    BY <1>0, <1>3, SessionAssumption
<1>5. IsPlace(page')
    BY <1>0, <1>4 DEF IsPlace, Fresh
<1> QED BY <1>0, <1>1, <1>2, <1>4, <1>5, ActStep DEF IsPlace

LEMMA NavigateBlockedKeeps == SessionInv /\ LedgerInv /\ NavigateBlocked => LedgerInv'
<1> SUFFICES ASSUME SessionInv, LedgerInv, NavigateBlocked PROVE LedgerInv'
    OBVIOUS
<1>0. /\ phase = "act" /\ Settled(Stores, {}) /\ Refuse
      /\ page' = page \/ page' = Fresh(IF Stores THEN page.at ELSE ErrorPage)
      /\ UNCHANGED <<cfg, step, calls, surfaces, refused, evidence, candidates, ledger, sched, disk, result, shown>>
    BY DEF NavigateBlocked, Performing, outVars, endVars
<1>1. phase' = "record" /\ turn'.before = turn.before
    BY <1>0, SettledIs
<1>2. /\ IsSeq(candidates) /\ Cites(candidates, Len(evidence)) /\ surfaces \subseteq DOMAIN Site
      /\ IsPlace(page) /\ Evidence("none").before = page.at
    BY ActFacts DEF IsPlace
<1>3. browser' \in 0..MaxBrowserDenials
    BY <1>0, ActFacts DEF Refuse
<1>4. IsPlace(page')
    <2>1. ErrorPage \in DOMAIN Site /\ page.at \in DOMAIN Site
        BY <1>2, SessionAssumption DEF IsPlace
    <2> QED BY <1>0, <1>2, <2>1 DEF IsPlace, Fresh
<1> QED BY <1>0, <1>1, <1>2, <1>3, <1>4, ActStep DEF IsPlace

LEMMA ActivateKeeps == SessionInv /\ LedgerInv /\ Activate => LedgerInv'
<1> SUFFICES ASSUME SessionInv, LedgerInv, Activate PROVE LedgerInv'
    OBVIOUS
<1> DEFINE e == Evidence("activate")
           c == ControlOf(turn.action.target)
<1>0. /\ phase = "act" /\ evidence' = Append(evidence, e)
      /\ UNCHANGED <<cfg, step, calls, surfaces, refused, candidates, ledger, sched, disk, result, shown>>
    BY DEF Activate, Performing, endVars
<1>a. \/ Refuse /\ page' = page /\ Settled(Stores, NewId)
      \/ Refuse /\ page' = Fresh(ErrorPage) /\ Settled(Stores, {})
      \/ page' = Clicked(c) /\ Settled(FALSE, NewId) /\ browser' = browser
    BY DEF Activate
<1>1. phase' = "record" /\ turn'.before = turn.before
    BY <1>0, <1>a, SettledIs
<1>2. /\ IsSeq(candidates) /\ Cites(candidates, Len(evidence)) /\ surfaces \subseteq DOMAIN Site
      /\ IsPlace(page) /\ e.before = page.at
    BY ActFacts DEF IsPlace
<1> HIDE DEF e, c
<1>3. browser' \in 0..MaxBrowserDenials
    BY <1>a, ActFacts DEF Refuse
<1>4. IsPlace(page')
    <2>1. IsPlace(Fresh(ErrorPage))
        BY SessionAssumption DEF IsPlace, Fresh
    <2>2. IsPlace(Clicked(c))
        BY ClickedIsPlace
    <2> QED BY <1>a, <1>2, <2>1, <2>2
<1> QED BY <1>0, <1>1, <1>2, <1>3, <1>4, ActStep DEF IsPlace

LEMMA ActivateRefusedKeeps == SessionInv /\ LedgerInv /\ ActivateRefused => LedgerInv'
<1> SUFFICES ASSUME SessionInv, LedgerInv, ActivateRefused PROVE LedgerInv'
    OBVIOUS
<1>0. /\ phase = "act" /\ Settled(TRUE, {}) /\ refused' = refused + 1
      /\ UNCHANGED <<cfg, step, calls, page, surfaces, browser, evidence, candidates, ledger, sched, disk, result, shown>>
    BY DEF ActivateRefused, Performing, pageVars, outVars, endVars
<1>1. phase' = "record" /\ turn'.before = turn.before
    BY <1>0, SettledIs
<1>2. /\ IsSeq(candidates) /\ Cites(candidates, Len(evidence)) /\ surfaces \subseteq DOMAIN Site
      /\ IsPlace(page) /\ browser \in 0..MaxBrowserDenials /\ Evidence("none").before = page.at
    BY ActFacts DEF IsPlace
<1> QED BY <1>0, <1>1, <1>2, ActStep DEF IsPlace

LEMMA ActionThrowsKeeps == SessionInv /\ LedgerInv /\ ActionThrows => LedgerInv'
<1> SUFFICES ASSUME SessionInv, LedgerInv, ActionThrows PROVE LedgerInv'
    OBVIOUS
<1> DEFINE c == ControlOf(turn.action.target)
<1>0. /\ phase = "act" /\ Settled(FALSE, {})
      /\ UNCHANGED <<cfg, step, calls, surfaces, refused, browser, evidence, candidates, ledger, sched, disk, result, shown>>
    BY DEF ActionThrows, Performing, denialVars, outVars, endVars
<1>a. \/ page' = page \/ page' = Clicked(c)
      \/ turn.action.type = "navigate" /\ \E u \in Lands[turn.action.url] : page' = Fresh(u)
    BY Zenon DEF ActionThrows
<1>1. phase' = "record" /\ turn'.before = turn.before
    BY <1>0, SettledIs
<1>2. /\ IsSeq(candidates) /\ Cites(candidates, Len(evidence)) /\ surfaces \subseteq DOMAIN Site
      /\ IsPlace(page) /\ browser \in 0..MaxBrowserDenials /\ Evidence("none").before = page.at
    BY ActFacts DEF IsPlace
<1> HIDE DEF c
<1>3. IsPlace(page')
    <2>1. IsPlace(Clicked(c))
        BY ClickedIsPlace
    <2>2. ASSUME turn.action.type = "navigate", NEW u \in Lands[turn.action.url], page' = Fresh(u)
          PROVE  IsPlace(page')
        <3>1. turn.action.url \in DOMAIN Site \ {ErrorPage}
            BY <1>0, <2>2 DEF LedgerInv, Places, Navigable
        <3>2. u \in DOMAIN Site
            BY <3>1, <2>2, SessionAssumption
        <3> QED BY <2>2, <3>2 DEF IsPlace, Fresh
    <2> QED BY <1>a, <1>2, <2>1, <2>2
<1> QED BY <1>0, <1>1, <1>2, <1>3, ActStep DEF IsPlace

LEMMA ReportKeeps == SessionInv /\ LedgerInv /\ Report => LedgerInv'
<1> SUFFICES ASSUME SessionInv, LedgerInv, Report PROVE LedgerInv'
    OBVIOUS
<1> DEFINE stored == FoldLeft(StoreCandidate, candidates, turn.action.candidates)
<1>0. /\ phase = "act" /\ Settled(FALSE, {}) /\ candidates' = stored
      /\ UNCHANGED <<cfg, step, calls, page, surfaces, refused, browser, evidence, ledger, sched, disk, result, shown>>
    BY DEF Report, Performing, pageVars, denialVars, endVars
<1>1. phase' = "record" /\ turn'.before = turn.before
    BY <1>0, SettledIs
<1>2. /\ Cites(candidates, Len(evidence)) /\ surfaces \subseteq DOMAIN Site
      /\ IsPlace(page) /\ browser \in 0..MaxBrowserDenials /\ Evidence("none").before = page.at
    BY ActFacts DEF IsPlace
<1>3. Places /\ IsSeq(turn.action.candidates)
    BY <1>0 DEF LedgerInv, Places
<1>4. IsSeq(stored) /\ Cites(stored, Len(evidence))
    BY <1>2, <1>3, ReportsOK
<1> HIDE DEF stored
<1> QED BY <1>0, <1>1, <1>2, <1>4, ActStep DEF IsPlace

LEMMA FinishSessionKeeps == SessionInv /\ LedgerInv /\ FinishSession => LedgerInv'
<1> SUFFICES ASSUME SessionInv, LedgerInv, FinishSession PROVE LedgerInv'
    OBVIOUS
<1> DEFINE stored == FoldLeft(StoreCandidate, candidates, turn.action.candidates)
<1>0. /\ phase = "act" /\ phase' = "record" /\ candidates' = stored
      /\ turn' = [turn EXCEPT !.outcome = "finished", !.keep = FALSE]
      /\ UNCHANGED <<cfg, step, calls, page, surfaces, refused, browser, evidence, ledger, sched, disk, result, shown>>
    BY DEF FinishSession, Performing, pageVars, denialVars, endVars
<1>1. turn'.before = turn.before
    BY <1>0 DEF SessionInv, Running, IsTurn
<1>2. /\ Cites(candidates, Len(evidence)) /\ surfaces \subseteq DOMAIN Site
      /\ IsPlace(page) /\ browser \in 0..MaxBrowserDenials /\ Evidence("none").before = page.at
    BY ActFacts DEF IsPlace
<1>3. Places /\ IsSeq(turn.action.candidates)
    BY <1>0 DEF LedgerInv, Places
<1>4. IsSeq(stored) /\ Cites(stored, Len(evidence))
    BY <1>2, <1>3, ReportsOK
<1> HIDE DEF stored
<1> QED BY <1>0, <1>1, <1>2, <1>4, ActStep DEF IsPlace

LEMMA ExecuteKeeps == SessionInv /\ LedgerInv /\ Execute1 => LedgerInv'
BY ProbeKeeps, NavigateKeeps, NavigateBlockedKeeps, ActivateKeeps, ActivateRefusedKeeps, ActionThrowsKeeps,
   ReportKeeps, FinishSessionKeeps DEF Execute1

(* The turn's records are told to the ledger, all of them, whatever came of the action. *)
LEMMA RecordKeeps == SessionInv /\ LedgerInv /\ Record => LedgerInv'
<1> SUFFICES ASSUME SessionInv, LedgerInv, Record PROVE LedgerInv'
    OBVIOUS
<1> DEFINE n == Len(evidence)
           M == RecordAll(ledger, turn.before, SubSeq(evidence, turn.before + 1, Len(evidence)))
           N == IF turn.denial.url = None THEN M ELSE RecordDenial(M, turn.denial.url, turn.denial.reason)
<1>0. /\ phase = "record" /\ phase' = "write_evidence" /\ ledger' = N
      /\ UNCHANGED <<cfg, step, calls, page, surfaces, refused, browser, evidence, candidates, sched, disk, result, shown>>
    BY DEF Record, pageVars, denialVars, endVars
<1>1. /\ result = None /\ IsSeq(evidence) /\ turn.before \in 0..n /\ n \in Nat
      /\ Filed(evidence, ledger, turn.before) /\ Owes(ledger) /\ IsLedger(ledger)
      /\ \A id \in 1..turn.before : Inspects(evidence[id]) => Inspected0(ledger, evidence[id].before)
      /\ \A id \in (turn.before + 1)..n :
           ledger.skipRefs = Skips(evidence[id].before) /\ Known(ledger, evidence[id].before)
      /\ \A t \in shown : Covered(ledger, t) /\ (t[2] = "skip_link" => Skips(t[1]) # {})
    BY <1>0, SeqFacts DEF SessionInv, Running, Early, LedgerInv, Places, Kept, Learnt, Filed
<1>2. turn.before \in Nat /\ turn.before <= n
    BY <1>1
<1>3. /\ Filed(evidence, M, n) /\ Grows(ledger, M) /\ M.pages = ledger.pages /\ IsLedger(M)
      /\ \A id \in (turn.before + 1)..n : Inspects(evidence[id]) => Inspected0(M, evidence[id].before)
    BY <1>1, <1>2, RecordAllOK DEF Filed
<1> HIDE DEF M
<1>4. Filed(evidence, N, n) /\ Grows(M, N) /\ N.pages = M.pages /\ IsLedger(N)
    <2>1. CASE turn.denial.url = None
        <3>1. N = M
            BY <2>1
        <3> HIDE DEF N
        <3> QED BY <1>3, <3>1, GrowsSame
    <2>2. CASE turn.denial.url # None
        <3> DEFINE R == RecordDenial(M, turn.denial.url, turn.denial.reason)
        <3>1. N = R
            BY <2>2
        <3> HIDE DEF N
        <3>2. Filed(evidence, R, n) /\ Grows(M, R) /\ R.pages = M.pages
            BY <1>3, RecordDenialOK
        <3> HIDE DEF R
        <3> QED BY <3>1, <3>2 DEF Filed
    <2> QED BY <2>1, <2>2
<1> HIDE DEF N
<1>5. Grows(ledger, N)
    BY <1>1, <1>3, <1>4, GrowsFurther
<1>6. Owes(N)
    <2>1. DOMAIN N.pages = DOMAIN ledger.pages
        BY <1>3, <1>4
    <2> QED BY <1>1, <1>4, <1>5, <2>1, OwesStill
<1>7. \A id \in 1..n : Inspects(evidence[id]) => Inspected0(N, evidence[id].before)
    <2> SUFFICES ASSUME NEW id \in 1..n, Inspects(evidence[id]) PROVE Inspected0(N, evidence[id].before)
        OBVIOUS
    <2>1. id \in 1..turn.before \/ id \in (turn.before + 1)..n
        BY <1>2
    <2>2. CASE id \in 1..turn.before
        <3>1. Inspected0(ledger, evidence[id].before)
            BY <1>1, <2>2
        <3> QED BY <1>1, <1>4, <1>5, <3>1, InspectedStays
    <2>3. CASE id \in (turn.before + 1)..n
        <3>1. Inspected0(M, evidence[id].before)
            BY <1>3, <2>3
        <3> QED BY <1>3, <1>4, <3>1, InspectedStays
    <2> QED BY <2>1, <2>2, <2>3
<1>8. \A t \in shown : Covered(N, t) /\ (t[2] = "skip_link" => Skips(t[1]) # {})
    BY <1>1, <1>4, <1>5, CoveredStays
<1>9. Learnt' = n
    BY <1>0 DEF Learnt
<1>10. Kept'
    BY <1>0, <1>4, <1>6, <1>7, <1>8, <1>9 DEF Kept
<1>11. Limits'
    BY <1>0, <1>1 DEF LedgerInv, Limits, Flush
<1>12. Places'
    BY <1>0, PlacesSame DEF LedgerInv
<1>13. Filings'
    BY <1>0, FilingsSame DEF LedgerInv
<1> QED BY <1>0, <1>1, <1>10, <1>11, <1>12, <1>13, CoversEarly DEF LedgerInv

(* What a ledger cites is there. *)
LEMMA FiledCites ==
    ASSUME NEW ev, NEW L, NEW n, Filed(ev, L, n) PROVE \A i \in DOMAIN L.obligations : L.obligations[i].cites \subseteq 1..n
BY DEF Filed, Proven

LEMMA CitesMore == ASSUME NEW c, NEW n \in Nat, Cites(c, n), NEW m \in Nat, n <= m PROVE Cites(c, m)
<1>1. 1..n \subseteq 1..m
    OBVIOUS
<1> QED BY <1>1 DEF Cites

LEMMA TruncateKeeps == SessionInv /\ LedgerInv /\ Truncate => LedgerInv'
<1> SUFFICES ASSUME SessionInv, LedgerInv, Truncate PROVE LedgerInv'
    OBVIOUS
<1>0. /\ phase \in Flush /\ disk' = [disk EXCEPT !.begun = @ \cup {phase}]
      /\ UNCHANGED <<cfg, phase, step, calls, page, surfaces, refused, browser, evidence, candidates, sched, ledger, result, shown>>
    BY DEF Truncate, pageVars, denialVars, outVars
<1>1. UNCHANGED <<disk.evidence, disk.candidates, disk.frontier>>
    BY <1>0 DEF SessionInv, Shapes
<1>2. Filings'
    BY <1>0, <1>1 DEF LedgerInv, Filings
<1>3. Limits'
    BY <1>0 DEF LedgerInv, Limits, Flush
<1> QED BY <1>0, <1>2, <1>3, PlacesSame, KeptSame, CoversSame DEF LedgerInv, Flush

LEMMA WriteEvidenceKeeps == SessionInv /\ LedgerInv /\ WriteEvidence => LedgerInv'
<1> SUFFICES ASSUME SessionInv, LedgerInv, WriteEvidence PROVE LedgerInv'
    OBVIOUS
<1> DEFINE n == Len(evidence)
<1>0. /\ phase = "write_evidence" /\ phase' = "write_candidates" /\ disk' = [disk EXCEPT !.evidence = n, !.begun = @ \ {phase}]
      /\ UNCHANGED <<cfg, step, calls, page, surfaces, refused, browser, evidence, candidates, sched, ledger, result, shown>>
    BY DEF WriteEvidence, pageVars, denialVars, outVars
<1>1. disk'.evidence = n /\ disk'.candidates = disk.candidates /\ disk'.frontier = disk.frontier
    BY <1>0 DEF SessionInv, Shapes
<1>2. n \in Nat /\ disk.evidence \in Nat /\ disk.evidence <= n
    BY SeqFacts DEF LedgerInv, Places, Filings
<1>3. 1..disk.evidence \subseteq 1..n
    BY <1>2
<1>4. Filings'
    <2>1. Cites(disk.candidates, n)
        BY <1>2, CitesMore DEF LedgerInv, Filings
    <2> QED BY <1>0, <1>1, <1>2, <1>3, <2>1 DEF LedgerInv, Filings
<1>5. Limits'
    BY <1>0 DEF LedgerInv, Limits, Flush
<1> QED BY <1>0, <1>4, <1>5, PlacesSame, KeptSame, CoversSame DEF LedgerInv

LEMMA WriteCandidatesKeeps == SessionInv /\ LedgerInv /\ WriteCandidates => LedgerInv'
<1> SUFFICES ASSUME SessionInv, LedgerInv, WriteCandidates PROVE LedgerInv'
    OBVIOUS
<1>0. /\ phase = "write_candidates" /\ phase' = "write_frontier"
      /\ disk' = [disk EXCEPT !.candidates = candidates, !.begun = @ \ {phase}]
      /\ UNCHANGED <<cfg, step, calls, page, surfaces, refused, browser, evidence, candidates, sched, ledger, result, shown>>
    BY DEF WriteCandidates, pageVars, denialVars, outVars
<1>1. disk'.evidence = disk.evidence /\ disk'.candidates = candidates /\ disk'.frontier = disk.frontier
    BY <1>0 DEF SessionInv, Shapes
<1>2. Filings'
    BY <1>0, <1>1 DEF LedgerInv, Filings
<1>3. Limits'
    BY <1>0 DEF LedgerInv, Limits, Flush
<1> QED BY <1>0, <1>2, <1>3, PlacesSame, KeptSame, CoversSame DEF LedgerInv

LEMMA WriteFrontierKeeps == SessionInv /\ LedgerInv /\ WriteFrontier => LedgerInv'
<1> SUFFICES ASSUME SessionInv, LedgerInv, WriteFrontier PROVE LedgerInv'
    OBVIOUS
<1>0. /\ phase = "write_frontier" /\ disk' = [disk EXCEPT !.frontier = ledger, !.begun = @ \ {phase}]
      /\ UNCHANGED <<cfg, calls, page, surfaces, refused, browser, evidence, candidates, sched, ledger, result, shown>>
    BY DEF WriteFrontier, pageVars, denialVars, outVars
<1>a. \/ phase' \in {"write_result", "end"} /\ step' = step
      \/ result = None /\ phase' = "turn" /\ step' = step + 1
    BY DEF WriteFrontier, Leave
<1>1. disk'.evidence = disk.evidence /\ disk'.candidates = disk.candidates /\ disk'.frontier = ledger
    BY <1>0 DEF SessionInv, Shapes
<1>2. Filings'
    <2>1. Filed(evidence, ledger, Len(evidence)) /\ disk.evidence = Len(evidence)
        BY <1>0 DEF LedgerInv, Kept, Learnt, Filings
    <2>2. \A i \in DOMAIN ledger.obligations : ledger.obligations[i].cites \subseteq 1..disk.evidence
        BY <2>1, FiledCites
    <2> QED BY <1>0, <1>a, <1>1, <2>2 DEF LedgerInv, Filings
<1>3. Limits'
    <2>1. cfg.maxSteps \in Nat
        BY SessionAssumption DEF LedgerInv, Limits
    <2> QED BY <1>0, <1>a, <2>1 DEF LedgerInv, Limits, Flush
<1> QED BY <1>0, <1>a, <1>2, <1>3, PlacesSame, KeptSame, CoversSame DEF LedgerInv

LEMMA CloseKeeps == SessionInv /\ LedgerInv /\ Close => LedgerInv'
<1> SUFFICES ASSUME SessionInv, LedgerInv, Close PROVE LedgerInv'
    OBVIOUS
<1> DEFINE final == IF cause # None THEN cause ELSE status
           cancelled == cause = "cancelled"
           outcome == IF ~cfg.accounting THEN None ELSE Completion(ledger, final, cancelled, cfg.perSource)
<1>0. /\ phase = "end" /\ phase' = "write_evidence"
      /\ result' = [status |-> final, proposal |-> proposal, outcome |-> outcome]
      /\ UNCHANGED <<cfg, step, calls, page, surfaces, refused, browser, evidence, candidates, sched, ledger, disk, shown>>
    BY DEF Close, pageVars, denialVars, outVars
<1>1. result' # None
    <2>1. final \in Statuses /\ proposal \in Verdicts \cup {None}
        BY DEF SessionInv, Shapes, Causes, Statuses
    <2>2. outcome \in Completions \cup {None}
        BY CompletionIsOne
    <2> HIDE DEF final, outcome
    <2>3. result' \in Results
        BY <1>0, <2>1, <2>2 DEF Results
    <2> QED BY <2>3, SessionAssumption
<1>2. CompleteCoversShown'
    <2> SUFFICES ASSUME result'.outcome = "complete_within_scope",
                        NEW t \in shown, NEW p \in SamplingScope(ledger, cfg.perSource), ledger.pages[p].url = t[1]
                 PROVE  Probed(evidence, DOMAIN evidence, t[1], t[2], t[3])
        BY <1>0 DEF CompleteCoversShown
    <2>1. outcome = "complete_within_scope"
        BY <1>0
    <2>2. None # "complete_within_scope"
        BY SessionAssumption DEF Completions
    <2>3. Completion(ledger, final, cancelled, cfg.perSource) = "complete_within_scope"
        BY <2>1, <2>2
    <2>4. Kept /\ IsSeq(evidence)
        BY DEF LedgerInv, Places
    <2> HIDE DEF final, cancelled, outcome
    <2> QED BY <1>0, <2>3, <2>4, CompletionIsTrue
<1>3. Limits'
    BY <1>0, <1>1 DEF LedgerInv, Limits, Flush
<1> QED BY <1>0, <1>2, <1>3, PlacesSame, KeptSame, FilingsSame DEF LedgerInv

LEMMA WriteResultKeeps == SessionInv /\ LedgerInv /\ WriteResult => LedgerInv'
<1> SUFFICES ASSUME SessionInv, LedgerInv, WriteResult PROVE LedgerInv'
    OBVIOUS
<1>0. /\ phase = "write_result" /\ phase' = "done"
      /\ UNCHANGED <<cfg, step, calls, page, surfaces, refused, browser, evidence, candidates, sched, ledger, disk, result, shown>>
    BY DEF WriteResult, pageVars, denialVars, outVars, endVars
<1>1. Limits'
    BY <1>0 DEF LedgerInv, Limits, Flush
<1> QED BY <1>0, <1>1, PlacesSame, KeptSame, FilingsSame, CoversSame DEF LedgerInv

(* Steps that touch nothing the invariant is about. *)
LEMMA LedgerSame ==
    ASSUME LedgerInv, UNCHANGED <<cfg, phase, step, calls, refused, browser, page, surfaces, evidence, candidates, sched,
                                  turn, ledger, disk, result, shown>>
    PROVE  LedgerInv'
<1>1. Limits'
    BY DEF LedgerInv, Limits
<1>2. Places'
    BY DEF LedgerInv, Places
<1>3. Kept'
    BY DEF LedgerInv, Kept, Learnt
<1>4. Filings'
    BY DEF LedgerInv, Filings
<1> QED BY <1>1, <1>2, <1>3, <1>4, CoversSame DEF LedgerInv

LEMMA AbortKeeps == ASSUME LedgerInv, NEW why, Abort(why) PROVE LedgerInv'
BY LedgerSame DEF Abort, pageVars, denialVars, outVars, endVars

LEMMA AbortBitesKeeps == SessionInv /\ LedgerInv /\ AbortBites => LedgerInv'
<1> SUFFICES ASSUME SessionInv, LedgerInv, AbortBites PROVE LedgerInv'
    OBVIOUS
<1> DEFINE n == Len(evidence)
           e == Evidence("activate")
           w == Append(evidence, e)
<1>0. /\ phase \in {"open", "turn", "act", "ask"} /\ phase' = "end"
      /\ UNCHANGED <<cfg, step, calls, page, surfaces, refused, browser, candidates, sched, ledger, disk, result, shown>>
    BY DEF AbortBites, pageVars, denialVars, endVars
<1>a. evidence' = evidence \/ evidence' = w
    BY Zenon DEF AbortBites
<1>1. result' = None
    BY <1>0 DEF SessionInv, Running, Early
<1>2. CASE evidence' = evidence
    BY <1>0, <1>1, <1>2, LeavesLedger
<1>3. CASE evidence' = w
    <2>1. IsSeq(evidence) /\ ~Inspects(e) /\ DOMAIN evidence = 1..n
        BY SeqFacts DEF LedgerInv, Places, Inspects, Evidence
    <2> HIDE DEF e
    <2>2. /\ n \in Nat /\ IsSeq(w) /\ Len(w) = n + 1 /\ \A id \in 1..n : w[id] = evidence[id]
          /\ w[n + 1] = e
        BY <2>1, SeqFacts
    <2> HIDE DEF w, n
    <2>3. Limits'
        BY <1>0 DEF LedgerInv, Limits, Flush
    <2>4. Places'
        BY <1>0, <1>3, <2>2 DEF LedgerInv, Places
    <2>5. Kept'
        <3>1. /\ Filed(evidence, ledger, n) /\ Owes(ledger)
              /\ \A id \in 1..n : Inspects(evidence[id]) => Inspected0(ledger, evidence[id].before)
              /\ \A t \in shown : Covered(ledger, t) /\ (t[2] = "skip_link" => Skips(t[1]) # {})
            BY <1>0 DEF LedgerInv, Kept, Learnt, n
        <3>2. n + 1 \in Nat /\ n <= n + 1
            BY <2>2
        <3>3. Filed(w, ledger, n + 1)
            BY <2>2, <3>1, <3>2, SameRecords, FiledMore
        <3>4. Learnt' = n + 1
            BY <1>0, <1>3, <2>2 DEF Learnt
        <3>5. \A id \in 1..(n + 1) : Inspects(w[id]) => Inspected0(ledger, w[id].before)
            <4>1. \A id \in 1..(n + 1) : id \in 1..n \/ id = n + 1
                BY <2>2
            <4> QED BY <2>1, <2>2, <3>1, <4>1
        <3> QED BY <1>0, <1>3, <3>1, <3>3, <3>4, <3>5 DEF Kept
    <2>6. Filings'
        <3>1. n + 1 \in Nat /\ n <= n + 1 /\ 0..n \subseteq 0..(n + 1)
            BY <2>2
        <3>2. Cites(candidates, n + 1)
            BY <2>2, <3>1, CitesMore DEF LedgerInv, Filings, n
        <3> QED BY <1>0, <1>3, <2>2, <3>1, <3>2 DEF LedgerInv, Filings, n
    <2> QED BY <1>1, <2>3, <2>4, <2>5, <2>6, CoversEarly DEF LedgerInv
<1> QED BY <1>a, <1>2, <1>3

LEMMA BeaconKeeps == SessionInv /\ LedgerInv /\ Beacon => LedgerInv'
<1> SUFFICES ASSUME SessionInv, LedgerInv, Beacon PROVE LedgerInv'
    OBVIOUS
<1>0. /\ phase \in {"ask", "act"} /\ Stores /\ browser' = browser + 1 /\ turn' = [turn EXCEPT !.refusedNow = TRUE]
      /\ UNCHANGED <<cfg, phase, step, calls, page, surfaces, refused, evidence, candidates, sched, ledger, disk, result, shown>>
    BY DEF Beacon, pageVars, outVars, endVars
<1>1. IsTurn(turn) /\ result = None
    BY <1>0 DEF SessionInv, Running, Early
<1>2. turn'.before = turn.before /\ turn'.action = turn.action
    BY <1>0, <1>1 DEF IsTurn
<1>3. browser' \in 0..MaxBrowserDenials
    BY <1>0, ActFacts
<1>4. Limits'
    BY <1>0, <1>3 DEF LedgerInv, Limits
<1>5. Places'
    BY <1>0, <1>2 DEF LedgerInv, Places
<1>6. Kept'
    BY <1>0, <1>2 DEF LedgerInv, Kept, Learnt
<1>7. Filings'
    BY <1>0 DEF LedgerInv, Filings
<1> QED BY <1>0, <1>1, <1>4, <1>5, <1>6, <1>7, CoversEarly DEF LedgerInv

LEMMA LedgerStep == SessionInv /\ LedgerInv /\ [Next]_vars => LedgerInv'
<1>1. SessionInv /\ LedgerInv /\ UNCHANGED vars => LedgerInv'
    BY LedgerSame DEF vars
<1> QED
    BY <1>1, OpenKeeps, TurnLimitedKeeps, ObserveTurnKeeps, ModelAnswersKeeps, SchedulerAnswersKeeps, ProviderFailsKeeps,
       ExecuteKeeps, RecordKeeps, TruncateKeeps, WriteEvidenceKeeps, WriteCandidatesKeeps, WriteFrontierKeeps, CloseKeeps,
       WriteResultKeeps, AbortKeeps, AbortBitesKeeps, RunFailsKeeps, BeaconKeeps DEF Next

(* What the ledger, the evidence, the candidates and the files of a session say of each other, and the counts within their
   limits (executor.ts turn, record, flush; frontier.ts). *)
THEOREM LedgerIsTrue == Spec => [](SessionInv /\ LedgerInv)
BY InitOK, StepOK, LedgerInit, LedgerStep, PTL DEF Spec

(* The types, that no entry of the ledger names a page or a record that is not there, and the caps of the denial counters
   (executor.ts deny, frontier.ts). *)
THEOREM AdaptiveTypes == Spec => []TypeOK
<1>1. SessionInv /\ LedgerInv => TypeOK
    <2> SUFFICES ASSUME SessionInv, LedgerInv PROVE TypeOK
        OBVIOUS
    <2>1. IsSeq(evidence) /\ DOMAIN evidence = 1..Len(evidence) /\ Len(evidence) \in Nat
        BY SeqFacts DEF LedgerInv, Places
    <2>2. Learnt \in 0..Len(evidence) /\ Filed(evidence, ledger, Learnt)
        BY <2>1 DEF LedgerInv, Kept, Learnt
    <2>3. 1..Learnt \subseteq DOMAIN evidence
        BY <2>1, <2>2
    <2>4. \A i \in DOMAIN ledger.obligations :
            /\ ledger.obligations[i].page \in DOMAIN ledger.pages
            /\ ledger.obligations[i].cites \subseteq DOMAIN evidence
            /\ ledger.obligations[i].status \in Marks
        BY <2>2, <2>3, FiledCites DEF Filed, IsLedger
    <2>5. result \in Results \cup {None}
        BY DEF SessionInv, Settling
    <2> QED BY <2>4, <2>5 DEF TypeOK, SessionInv, Shapes, LedgerInv, Limits, Places, Filings, Marks
<1> QED BY <1>1, LedgerIsTrue, PTL

(* A crash cuts at most the file short that was being written; what is whole cites nothing that evidence.json, where that is
   whole, does not have; and at the end all are whole, whatever an earlier flush left (executor.ts flush). *)
THEOREM DiskResolves == Spec => []DiskRefsResolve
<1>1. SessionInv => FilesAreWhole
    BY DEF SessionInv, Shapes, Settling, Flushed, Written, FilesAreWhole, Late, Flush
<1>2. SessionInv /\ LedgerInv => DiskRefsResolve
    BY <1>1 DEF SessionInv, Tearing, LedgerInv, Filings, Cites, DiskRefsResolve, FilesAreWhole
<1> QED BY <1>2, LedgerIsTrue, PTL

(* An obligation is executed exactly when the records it cites show its probe on its own page, and between turns an inspected
   page the ledger knows owes no semantics (frontier.ts recordEvidence, markExecuted). *)
THEOREM LedgerMatchesEvidence == Spec => []LedgerAgreesWithEvidence
<1>1. SessionInv /\ LedgerInv => LedgerAgreesWithEvidence
    <2> SUFFICES ASSUME LedgerInv PROVE LedgerAgreesWithEvidence
        OBVIOUS
    <2>1. Filed(evidence, ledger, Learnt)
        BY DEF LedgerInv, Kept
    <2>2. ASSUME NEW i \in DOMAIN ledger.obligations
          PROVE  LET ob == ledger.obligations[i]
                 IN  ob.status = "executed" <=> Probed(evidence, ob.cites, ledger.pages[ob.page].url, ob.probe, ob.subject)
        <3> DEFINE ob == ledger.obligations[i]
                   url == ledger.pages[ob.page].url
        <3>1. Proven(evidence, ob, url, Learnt)
            BY <2>1 DEF Filed
        <3> HIDE DEF ob, url
        <3>2. ~Probed(evidence, {}, url, ob.probe, ob.subject)
            BY DEF Probed
        <3>3. ob.status = "executed" <=> Probed(evidence, ob.cites, url, ob.probe, ob.subject)
            BY <3>1, <3>2 DEF Proven
        <3> QED BY <3>3 DEF ob, url
    <2>3. ASSUME phase \in {"turn", "done"}, NEW id \in DOMAIN evidence, Inspects(evidence[id]),
                 PageNo(ledger, evidence[id].before) # 0,
                 NEW i \in Keyed(ledger, PageNo(ledger, evidence[id].before), "semantics", None)
          PROVE  ledger.obligations[i].status = "executed"
        <3>1. Learnt = Len(evidence) /\ DOMAIN evidence = 1..Len(evidence)
            BY <2>3, SeqFacts DEF Learnt, LedgerInv, Places
        <3>2. Inspected0(ledger, evidence[id].before)
            BY <2>3, <3>1 DEF LedgerInv, Kept
        <3> QED BY <2>3, <3>2 DEF Inspected0
    <2> QED BY <2>2, <2>3 DEF LedgerAgreesWithEvidence, Inspects
<1> QED BY <1>1, LedgerIsTrue, PTL

(* A completion within scope is true of what any turn was shown (frontier.ts classifyCompletion). *)
THEOREM CompletionIsHonest == Spec => []CompleteCoversShown
<1>1. LedgerInv => CompleteCoversShown
    BY DEF LedgerInv
<1> QED BY <1>1, LedgerIsTrue, PTL

-----------------------------------------------------------------------------
(* A scheduler's session: nothing is ever blocked, so that a ledger with nothing pending is complete. *)

(* In a ledger where nothing is blocked, a page is visited or its URL among those found. *)
Free(L, found) ==
    /\ HasFields(L) /\ IsSeq(L.pages) /\ IsSeq(L.obligations)
    /\ \A p \in DOMAIN L.pages : IsPage(L.pages[p]) /\ (L.pages[p].visited \/ L.pages[p].url \in found)
    /\ \A p, q \in DOMAIN L.pages : L.pages[p].url = L.pages[q].url => p = q
    /\ \A i \in DOMAIN L.obligations : IsObligation(L.obligations[i]) /\ L.obligations[i].status # "blocked"

NothingPending(L) == \A i \in DOMAIN L.obligations : L.obligations[i].status # "pending"

Goals == {u \in discovered : Navigable(u)}

ProposesComplete(a) == a.type = "finish" /\ a.verdict = "complete"

(* The tab only goes where a session may go, and no refusal names a page. *)
Roaming ==
    /\ IsFiniteSet(surfaces) /\ Free(ledger, Goals)
    /\ phase \in {"ask", "act", "record"} => turn.denial.url = None

(* Once it is proposed, completion is true of the ledger, which does not change any more. *)
Proposing ==
    /\ phase = "act" /\ ProposesComplete(turn.action) => NothingPending(ledger)
    /\ proposal = "complete" => NothingPending(ledger)
    /\ phase = "record" /\ proposal # None => turn.before = Len(evidence)
    /\ proposal # None => phase \notin {"open", "turn", "ask", "act"}
    /\ phase \in {"record"} \cup Flush /\ proposal # None /\ result = None => ~turn.keep

Patient == Roaming /\ Proposing /\ SchedulerNeverPremature

SchedInv == cfg.selector = "scheduler" => Patient

-----------------------------------------------------------------------------
LEMMA FreePageNo ==
    ASSUME NEW L, NEW F, Free(L, F), NEW url
    PROVE  /\ PageNo(L, url) # 0 => PageNo(L, url) \in DOMAIN L.pages /\ L.pages[PageNo(L, url)].url = url
           /\ PageNo(L, url) = 0 => \A p \in DOMAIN L.pages : L.pages[p].url # url
<1>1. DOMAIN L.pages = 1..Len(L.pages) /\ Len(L.pages) \in Nat
    BY SeqFacts DEF Free
<1> DEFINE known == {p \in DOMAIN L.pages : L.pages[p].url = url}
<1>2. CASE known = {}
    <2>1. PageNo(L, url) = 0
        BY <1>2 DEF PageNo
    <2> QED BY <1>2, <2>1
<1>3. CASE known # {}
    <2>1. PageNo(L, url) = CHOOSE p \in known : TRUE
        BY <1>3 DEF PageNo
    <2>2. PageNo(L, url) \in known /\ PageNo(L, url) # 0
        BY <1>1, <1>3, <2>1
    <2> QED BY <2>2
<1> QED BY <1>2, <1>3

(* A ledger that differs in neither pages nor obligations. *)
LEMMA FreeSame ==
    ASSUME NEW L, NEW F, Free(L, F), NEW M, HasFields(M), M.pages = L.pages, M.obligations = L.obligations
    PROVE  Free(M, F)
BY DEF Free

LEMMA RepagedFree ==
    ASSUME NEW L, NEW F, NEW G, Free(L, F), NEW f, f = [p \in DOMAIN L.pages |-> f[p]],
           \A p \in DOMAIN L.pages : IsPage(f[p]) /\ f[p].url = L.pages[p].url /\ (f[p].visited \/ f[p].url \in G),
           NEW M, M = Repaged(L, f)
    PROVE  Free(M, G)
<1>1. M.pages = f /\ M.obligations = L.obligations /\ HasFields(M)
    BY DEF Repaged, HasFields
<1>2. IsSeq(L.pages)
    BY DEF Free
<1>3. IsSeq(f) /\ DOMAIN f = DOMAIN L.pages
    BY <1>2, MapIsSeq
<1>4. \A p, q \in DOMAIN f : f[p].url = f[q].url => p = q
    BY <1>3 DEF Free
<1> QED BY <1>1, <1>3, <1>4 DEF Free

LEMMA RefiledFree ==
    ASSUME NEW L, NEW F, Free(L, F), NEW f, f = [i \in DOMAIN L.obligations |-> f[i]],
           \A i \in DOMAIN L.obligations : IsObligation(f[i]) /\ f[i].status # "blocked",
           NEW M, M = Refiled(L, f)
    PROVE  Free(M, F)
<1>1. M.pages = L.pages /\ M.obligations = f /\ HasFields(M)
    BY DEF Refiled, HasFields
<1>2. IsSeq(f) /\ DOMAIN f = DOMAIN L.obligations
    BY MapIsSeq DEF Free
<1> QED BY <1>1, <1>2 DEF Free

LEMMA FreeRecords ==
    ASSUME NEW L, NEW F, Free(L, F), NEW f
    PROVE  [L EXCEPT !.pages = f] = Repaged(L, f) /\ [L EXCEPT !.obligations = f] = Refiled(L, f)
<1>1. HasFields(L)
    BY DEF Free
<1> QED BY <1>1 DEF HasFields, Repaged, Refiled

LEMMA DropFree == ASSUME NEW L, NEW F, Free(L, F), NEW kind PROVE Free(Drop(L, kind), F)
<1> DEFINE M == Drop(L, kind)
<1>1. HasFields(L)
    BY DEF Free
<1>2. M = [pages |-> L.pages, obligations |-> L.obligations, states |-> L.states, truncated |-> L.truncated \cup {kind},
           last |-> L.last, skipRefs |-> L.skipRefs, openDialog |-> L.openDialog, capped |-> L.capped]
    BY <1>1 DEF Drop, HasFields
<1> HIDE DEF M
<1>3. M.pages = L.pages /\ M.obligations = L.obligations /\ HasFields(M)
    BY <1>2 DEF HasFields
<1> QED BY <1>3, FreeSame DEF M

LEMMA AddObligationFree ==
    ASSUME NEW L, NEW F, Free(L, F), NEW p, NEW probe, NEW subject
    PROVE  Free(AddObligation(L, p, probe, subject), F)
<1> DEFINE M == AddObligation(L, p, probe, subject)
           ob == [page |-> p, probe |-> probe, subject |-> subject, status |-> "pending", reason |-> "none", cites |-> {}]
           f == Append(L.obligations, ob)
<1>1. M \in {L, Drop(L, "obligations"), [L EXCEPT !.obligations = f]}
    BY DEF AddObligation
<1>2. IsObligation(ob) /\ ob.status # "blocked"
    BY DEF IsObligation
<1> HIDE DEF ob
<1>3. /\ IsSeq(f) /\ DOMAIN f = 1..(Len(L.obligations) + 1) /\ DOMAIN L.obligations = 1..Len(L.obligations)
      /\ \A i \in 1..Len(L.obligations) : f[i] = L.obligations[i]
      /\ f[Len(L.obligations) + 1] = ob /\ Len(L.obligations) \in Nat
    BY SeqFacts DEF Free
<1>4. [L EXCEPT !.obligations = f] = Refiled(L, f)
    BY FreeRecords
<1> HIDE DEF f
<1>5. \A i \in DOMAIN f : i \in DOMAIN L.obligations \/ i = Len(L.obligations) + 1
    BY <1>3
<1>6. \A i \in DOMAIN f : IsObligation(f[i]) /\ f[i].status # "blocked"
    BY <1>2, <1>3, <1>5 DEF Free
<1>7. Free(Refiled(L, f), F)
    <2> DEFINE N == Refiled(L, f)
    <2>1. N.pages = L.pages /\ N.obligations = f /\ HasFields(N)
        BY DEF Refiled, HasFields
    <2> HIDE DEF N
    <2>2. Free(N, F)
        BY <1>3, <1>6, <2>1 DEF Free
    <2> QED BY <2>2 DEF N
<1> HIDE DEF M
<1> QED BY <1>1, <1>4, <1>7, DropFree DEF M

LEMMA AddPageFree ==
    ASSUME NEW L, NEW F, Free(L, F), NEW url, NEW source
    PROVE  Free(AddPage(L, url, source), F \cup {url})
<1> DEFINE M == AddPage(L, url, source)
           new == [url |-> url, source |-> source, modelVisible |-> FALSE, visited |-> FALSE]
           f == Append(L.pages, new)
           N == [L EXCEPT !.pages = f]
           G == F \cup {url}
           O == AddObligation(AddObligation(N, Len(L.pages) + 1, "semantics", None), Len(L.pages) + 1, "skip_link", None)
<1>1. M \in {L, Drop(L, "pages")} \/ (PageNo(L, url) = 0 /\ M = O)
    BY DEF AddPage
<1>2. Free(L, G)
    BY DEF Free
<1>3. ASSUME PageNo(L, url) = 0 PROVE Free(N, G)
    <2>1. IsPage(new) /\ new.url = url
        BY DEF IsPage
    <2> HIDE DEF new
    <2>2. /\ IsSeq(f) /\ DOMAIN f = 1..(Len(L.pages) + 1) /\ DOMAIN L.pages = 1..Len(L.pages)
          /\ \A p \in 1..Len(L.pages) : f[p] = L.pages[p]
          /\ f[Len(L.pages) + 1] = new /\ Len(L.pages) \in Nat
        BY SeqFacts DEF Free
    <2>3. N = Repaged(L, f)
        BY FreeRecords
    <2> HIDE DEF f, N
    <2>4. N.pages = f /\ N.obligations = L.obligations /\ HasFields(N)
        BY <2>3 DEF Repaged, HasFields
    <2>5. \A p \in DOMAIN f : p \in DOMAIN L.pages \/ p = Len(L.pages) + 1
        BY <2>2
    <2>6. \A p \in DOMAIN L.pages : L.pages[p].url # url
        BY <1>3, FreePageNo
    <2>7. \A p \in DOMAIN f : IsPage(f[p]) /\ (f[p].visited \/ f[p].url \in G)
        BY <1>2, <2>1, <2>2, <2>5 DEF Free
    <2>8. \A p, q \in DOMAIN f : f[p].url = f[q].url => p = q
        BY <2>1, <2>2, <2>5, <2>6 DEF Free
    <2> QED BY <2>2, <2>4, <2>7, <2>8 DEF Free
<1> HIDE DEF N, G
<1>4. PageNo(L, url) = 0 => Free(O, G)
    BY <1>3, AddObligationFree
<1> HIDE DEF O, M
<1>5. Free(M, G)
    BY <1>1, <1>2, <1>4, DropFree
<1> QED BY <1>5 DEF M, G

LEMMA AddLinkedFree ==
    ASSUME NEW L, NEW F, Free(L, F), NEW s, IsSeq(s), ToSet(s) \subseteq F, NEW u, NEW p
    PROVE  Free(AddLinked(L, p, u, s), F)
<1> DEFINE c == [kind |-> "page", url |-> u, page |-> p]
           v == AddLinked(L, p, u, s)
<1>1. FoldsTo(v, c, L, s)
    BY PageFold DEF IsSeq
<1> HIDE DEF v, c
<1>2. PICK g : Chain(g, c, L, s) /\ v = g[Len(s)]
    BY <1>1 DEF FoldsTo
<1> DEFINE T == {k \in 0..Len(s) : Free(g[k], F)}
<1>3. Len(s) \in Nat /\ DOMAIN s = 1..Len(s)
    BY SeqFacts
<1>4. 0 \in T
    BY <1>2, <1>3 DEF Chain
<1>5. ASSUME NEW k \in 1..Len(s), k - 1 \in T PROVE k \in T
    <2>1. g[k] = IF s[k] = u THEN g[k - 1] ELSE AddPage(g[k - 1], s[k], p)
        BY <1>2, <1>3 DEF Chain, Apply, c
    <2>2. F \cup {s[k]} = F
        BY <1>3 DEF ToSet
    <2>3. Free(AddPage(g[k - 1], s[k], p), F)
        BY <1>5, <2>2, AddPageFree
    <2> QED BY <1>3, <1>5, <2>1, <2>3
<1> HIDE DEF T
<1>6. Len(s) \in T
    BY <1>3, <1>4, <1>5, UpTo
<1> QED BY <1>2, <1>6 DEF T, v

LEMMA AddControlsFree ==
    ASSUME NEW L, NEW F, Free(L, F), NEW s, IsSeq(s), NEW p
    PROVE  Free(AddControls(L, p, s), F)
<1> DEFINE c == [kind |-> "control", page |-> p]
           v == AddControls(L, p, s)
<1>1. FoldsTo(v, c, L, s)
    BY ControlFold DEF IsSeq
<1> HIDE DEF v, c
<1>2. PICK g : Chain(g, c, L, s) /\ v = g[Len(s)]
    BY <1>1 DEF FoldsTo
<1> DEFINE T == {k \in 0..Len(s) : Free(g[k], F)}
<1>3. Len(s) \in Nat
    BY SeqFacts
<1>4. 0 \in T
    BY <1>2, <1>3 DEF Chain
<1>5. ASSUME NEW k \in 1..Len(s), k - 1 \in T PROVE k \in T
    <2>1. g[k] = IF s[k].probe = None THEN g[k - 1] ELSE AddObligation(g[k - 1], p, s[k].probe, s[k].subject)
        BY <1>2, <1>3 DEF Chain, Apply, c
    <2> QED BY <1>3, <1>5, <2>1, AddObligationFree
<1> HIDE DEF T
<1>6. Len(s) \in T
    BY <1>3, <1>4, <1>5, UpTo
<1> QED BY <1>2, <1>6 DEF T, v

LEMMA MarkedIs ==
    ASSUME NEW o, IsObligation(o), NEW mark, NEW reason, NEW b, b = Marked(o, mark, reason)
    PROVE  IsObligation(b) /\ b.status = mark
<1>1. b = [page |-> o.page, probe |-> o.probe, subject |-> o.subject, status |-> mark, reason |-> reason,
           cites |-> o.cites]
    BY DEF IsObligation, Marked
<1> QED BY <1>1 DEF IsObligation

LEMMA SkipLinkSeenFree ==
    ASSUME NEW L, NEW F, Free(L, F), NEW p, NEW seen PROVE Free(SkipLinkSeen(L, p, seen), F)
<1> DEFINE ob(i) == L.obligations[i]
           new(i) == IF i \notin Keyed(L, p, "skip_link", None) THEN ob(i)
                     ELSE IF seen /\ ob(i).status = "deferred" THEN Marked(ob(i), "pending", "none")
                     ELSE IF ~seen /\ ob(i).status = "pending" THEN Marked(ob(i), "deferred", "not_applicable")
                     ELSE ob(i)
           f == [i \in DOMAIN L.obligations |-> new(i)]
<1>1. SkipLinkSeen(L, p, seen) = [L EXCEPT !.obligations = f]
    BY Zenon DEF SkipLinkSeen
<1>2. ASSUME NEW i \in DOMAIN L.obligations PROVE IsObligation(new(i)) /\ new(i).status # "blocked"
    <2>1. IsObligation(ob(i)) /\ ob(i).status # "blocked"
        BY DEF Free
    <2> HIDE DEF ob
    <2>2. new(i) \in {ob(i), Marked(ob(i), "pending", "none"), Marked(ob(i), "deferred", "not_applicable")}
        OBVIOUS
    <2> HIDE DEF new
    <2>3. /\ IsObligation(Marked(ob(i), "pending", "none")) /\ Marked(ob(i), "pending", "none").status = "pending"
          /\ IsObligation(Marked(ob(i), "deferred", "not_applicable"))
          /\ Marked(ob(i), "deferred", "not_applicable").status = "deferred"
        BY <2>1, MarkedIs
    <2> QED BY <2>1, <2>2, <2>3
<1>3. f = [i \in DOMAIN L.obligations |-> f[i]] /\ \A i \in DOMAIN L.obligations : IsObligation(f[i]) /\ f[i].status # "blocked"
    BY <1>2
<1> HIDE DEF f
<1>4. [L EXCEPT !.obligations = f] = Refiled(L, f)
    BY FreeRecords
<1> QED BY <1>1, <1>3, <1>4, RefiledFree

LEMMA ExecuteFree ==
    ASSUME NEW L, NEW F, Free(L, F), NEW p, NEW probe, NEW subject, NEW ids
    PROVE  Free(Execute(L, p, probe, subject, ids), F)
<1> DEFINE ob(i) == L.obligations[i]
           new(i) == IF i \in Keyed(L, p, probe, subject) /\ ob(i).status # "executed" THEN Executed(ob(i), ids) ELSE ob(i)
           f == [i \in DOMAIN L.obligations |-> new(i)]
<1>1. Execute(L, p, probe, subject, ids) = [L EXCEPT !.obligations = f]
    BY Zenon DEF Execute
<1>2. ASSUME NEW i \in DOMAIN L.obligations PROVE IsObligation(new(i)) /\ new(i).status # "blocked"
    <2>1. IsObligation(ob(i)) /\ ob(i).status # "blocked"
        BY DEF Free
    <2> HIDE DEF ob
    <2>2. new(i) \in {ob(i), Executed(ob(i), ids)}
        OBVIOUS
    <2> HIDE DEF new
    <2>3. LET b == Executed(ob(i), ids) IN IsObligation(b) /\ b.status = "executed"
        <3> DEFINE b == Executed(ob(i), ids)
                   o == ob(i)
        <3>1. b = [page |-> o.page, probe |-> o.probe, subject |-> o.subject, status |-> "executed", reason |-> "none",
                   cites |-> o.cites \cup ids]
            BY <2>1, ExecutedIs
        <3> HIDE DEF b, o
        <3>2. IsObligation(b) /\ b.status = "executed"
            BY <3>1 DEF IsObligation
        <3> QED BY <3>2 DEF b
    <2> QED BY <2>1, <2>2, <2>3
<1>3. f = [i \in DOMAIN L.obligations |-> f[i]] /\ \A i \in DOMAIN L.obligations : IsObligation(f[i]) /\ f[i].status # "blocked"
    BY <1>2
<1> HIDE DEF f
<1>4. [L EXCEPT !.obligations = f] = Refiled(L, f)
    BY FreeRecords
<1> QED BY <1>1, <1>3, <1>4, RefiledFree

LEMMA VisibleFree ==
    ASSUME NEW L, NEW F, Free(L, F), NEW f, f = [p \in DOMAIN L.pages |-> f[p]],
           \A p \in DOMAIN L.pages : \E now : f[p] = Visible(L.pages[p], now)
    PROVE  Free([L EXCEPT !.pages = f], F)
<1>1. ASSUME NEW p \in DOMAIN L.pages PROVE IsPage(f[p]) /\ f[p].url = L.pages[p].url /\ f[p].visited = L.pages[p].visited
    <2>1. PICK now : f[p] = Visible(L.pages[p], now)
        OBVIOUS
    <2>2. IsPage(L.pages[p])
        BY DEF Free
    <2> QED BY <2>1, <2>2 DEF Visible, IsPage
<1>2. \A p \in DOMAIN L.pages : IsPage(f[p]) /\ f[p].url = L.pages[p].url /\ (f[p].visited \/ f[p].url \in F)
    BY <1>1 DEF Free
<1>3. [L EXCEPT !.pages = f] = Repaged(L, f)
    BY FreeRecords
<1> QED BY <1>2, <1>3, RepagedFree

LEMMA CompactFree == ASSUME NEW L, NEW F, Free(L, F), NEW o, NEW k PROVE Free(Compact(L, o, k), F)
<1> DEFINE f == [p \in DOMAIN L.pages |-> Visible(L.pages[p], p \in ToSet(View(L, o, k).pages))]
<1>1. Compact(L, o, k) = [L EXCEPT !.pages = f]
    BY Zenon DEF Compact
<1>2. f = [p \in DOMAIN L.pages |-> f[p]] /\ \A p \in DOMAIN L.pages : \E now : f[p] = Visible(L.pages[p], now)
    BY Zenon
<1> HIDE DEF f
<1> QED BY <1>1, <1>2, VisibleFree

(* The page the browser shows is visited; whatever else waits has been found. *)
LEMMA VisitFree ==
    ASSUME NEW L, NEW F, NEW url, Free(L, F \cup {url}), NEW p, p = PageNo(L, url), p # 0,
           NEW M, M = Visit(L, p)
    PROVE  Free(M, F)
<1> DEFINE f == [L.pages EXCEPT ![p].visited = TRUE]
<1>1. p \in DOMAIN L.pages /\ L.pages[p].url = url
    BY FreePageNo
<1>2. HasFields(L) /\ IsSeq(L.pages)
    BY DEF Free
<1>3. M = [pages |-> f, obligations |-> L.obligations, states |-> L.states, truncated |-> L.truncated,
           last |-> p, skipRefs |-> L.skipRefs, openDialog |-> L.openDialog, capped |-> L.capped]
    BY <1>2 DEF HasFields, Visit
<1>4. M.pages = f /\ M.obligations = L.obligations /\ HasFields(M)
    BY <1>3 DEF HasFields
<1>5. f = [q \in DOMAIN L.pages |-> f[q]] /\ \A q \in DOMAIN L.pages : q # p => f[q] = L.pages[q]
    OBVIOUS
<1>6. f[p] = [L.pages[p] EXCEPT !.visited = TRUE]
    BY <1>1
<1> HIDE DEF f
<1>7. IsPage(f[p]) /\ f[p].url = url /\ f[p].visited
    <2>1. IsPage(L.pages[p])
        BY <1>1 DEF Free
    <2> QED BY <1>1, <1>6, <2>1 DEF IsPage
<1>8. ASSUME NEW q \in DOMAIN L.pages
      PROVE  IsPage(f[q]) /\ f[q].url = L.pages[q].url /\ (f[q].visited \/ f[q].url \in F)
    <2>1. CASE q = p
        BY <1>1, <1>7, <2>1
    <2>2. CASE q # p
        <3>1. L.pages[q].url # url
            BY <1>1, <2>2 DEF Free
        <3> QED BY <1>5, <2>2, <3>1 DEF Free
    <2> QED BY <2>1, <2>2
<1>9. Free(Repaged(L, f), F)
    BY <1>5, <1>8, RepagedFree
<1> DEFINE N == Repaged(L, f)
<1>10. N.pages = f /\ N.obligations = L.obligations
    BY DEF Repaged
<1> HIDE DEF N
<1> QED BY <1>4, <1>9, <1>10, FreeSame DEF N

LEMMA NotedFree == ASSUME NEW L, NEW F, Free(L, F), NEW o, NEW M, M = Noted(L, o) PROVE Free(M, F)
<1> DEFINE capped == L.capped \/ o.surfacesLeft <= 0
<1>1. HasFields(L)
    BY DEF Free
<1>2. M = [pages |-> L.pages, obligations |-> L.obligations, states |-> L.states, truncated |-> L.truncated,
           last |-> L.last, skipRefs |-> o.skipLinks, openDialog |-> L.openDialog, capped |-> capped]
    BY <1>1 DEF Noted, HasFields
<1> HIDE DEF capped
<1>3. M.pages = L.pages /\ M.obligations = L.obligations /\ HasFields(M)
    BY <1>2 DEF HasFields
<1> QED BY <1>3, FreeSame

LEMMA DialogFree == ASSUME NEW L, NEW F, Free(L, F), NEW d PROVE Free([L EXCEPT !.openDialog = d], F)
<1> DEFINE M == [L EXCEPT !.openDialog = d]
<1>1. HasFields(L)
    BY DEF Free
<1>2. M = [pages |-> L.pages, obligations |-> L.obligations, states |-> L.states, truncated |-> L.truncated,
           last |-> L.last, skipRefs |-> L.skipRefs, openDialog |-> d, capped |-> L.capped]
    BY <1>1 DEF HasFields
<1> HIDE DEF M
<1>3. M.pages = L.pages /\ M.obligations = L.obligations /\ HasFields(M)
    BY <1>2 DEF HasFields
<1> QED BY <1>3, FreeSame DEF M

LEMMA StateFree == ASSUME NEW L, NEW F, Free(L, F), NEW states PROVE Free([L EXCEPT !.states = states], F)
<1> DEFINE M == [L EXCEPT !.states = states]
<1>1. HasFields(L)
    BY DEF Free
<1>2. M = [pages |-> L.pages, obligations |-> L.obligations, states |-> states, truncated |-> L.truncated,
           last |-> L.last, skipRefs |-> L.skipRefs, openDialog |-> L.openDialog, capped |-> L.capped]
    BY <1>1 DEF HasFields
<1> HIDE DEF M
<1>3. M.pages = L.pages /\ M.obligations = L.obligations /\ HasFields(M)
    BY <1>2 DEF HasFields
<1> QED BY <1>3, FreeSame DEF M

LEMMA RecordEvidenceFree ==
    ASSUME NEW L, NEW F, Free(L, F), NEW id, NEW e PROVE Free(RecordEvidence(L, id, e), F)
<1> DEFINE M == RecordEvidence(L, id, e)
           p == PageNo(L, e.before)
           semantics == Execute(L, p, "semantics", None, {id})
           both == Execute(semantics, p, "skip_link", None, {id})
           skip == IF e.target \in L.skipRefs THEN Execute(L, p, "skip_link", None, {id}) ELSE L
           toggled == Execute(skip, p, "disclosure_toggle", e.target, {id})
           d == IF Keyed(L, p, "dialog_focus_return", e.target) = {} THEN None
                ELSE [page |-> p, subject |-> e.target, activated |-> id]
           ran == Execute(L, p, "dialog_focus_return", L.openDialog.subject, {L.openDialog.activated, id})
           opened == [toggled EXCEPT !.openDialog = d]
           closed == [ran EXCEPT !.openDialog = None]
<1>1. M \in {L, semantics, both, opened, closed}
    <2> HIDE DEF semantics, both, toggled, ran, d, p
    <2>1. M = IF p = 0 THEN L
              ELSE IF e.kind \in {"inspect_semantics", "capture_evidence"} THEN IF e.skipFacts THEN both ELSE semantics
              ELSE IF e.kind = "activate" THEN opened
              ELSE IF e.kind = "escape" /\ L.openDialog # None /\ L.openDialog.page = p THEN closed
              ELSE L
        BY Zenon DEF RecordEvidence, semantics, both, skip, toggled, ran, d, p
    <2> HIDE DEF M, opened, closed
    <2> QED BY <2>1
<1> HIDE DEF M, d, p
<1>2. Free(semantics, F) /\ Free(ran, F)
    BY ExecuteFree
<1> HIDE DEF semantics, ran
<1>3. Free(both, F) /\ Free(closed, F)
    BY <1>2, ExecuteFree, DialogFree
<1>4. Free(skip, F)
    BY ExecuteFree
<1> HIDE DEF skip
<1>5. Free(opened, F)
    BY <1>4, ExecuteFree, DialogFree
<1> HIDE DEF both, opened, closed
<1> QED BY <1>1, <1>2, <1>3, <1>5 DEF M

LEMMA RecordAllFree ==
    ASSUME NEW L, NEW F, Free(L, F), NEW before, NEW S, NEW new \in Seq(S)
    PROVE  /\ Free(RecordAll(L, before, new), F)
           /\ Len(new) = 0 => RecordAll(L, before, new) = L
<1> DEFINE ks == [k \in DOMAIN new |-> k]
           c == [kind |-> "record", before |-> before, new |-> new]
           v == RecordAll(L, before, new)
<1>1. FoldsTo(v, c, L, ks)
    BY RecordFold
<1>2. Len(new) \in Nat /\ DOMAIN new = 1..Len(new)
    OBVIOUS
<1>3. Len(ks) = Len(new)
    BY <1>2
<1> HIDE DEF v, c, ks
<1>4. PICK g : Chain(g, c, L, ks) /\ v = g[Len(new)]
    BY <1>1, <1>3 DEF FoldsTo
<1> DEFINE T == {k \in 0..Len(new) : Free(g[k], F)}
<1>5. 0 \in T /\ g[0] = L
    BY <1>2, <1>4 DEF Chain
<1>6. ASSUME NEW k \in 1..Len(new), k - 1 \in T PROVE k \in T
    <2>1. g[k] = RecordEvidence(g[k - 1], before + ks[k], new[ks[k]])
        BY <1>3, <1>4 DEF Chain, Apply, c
    <2> QED BY <1>2, <1>6, <2>1, RecordEvidenceFree
<1> HIDE DEF T
<1>7. Len(new) \in T
    BY <1>2, <1>5, <1>6, UpTo
<1> QED BY <1>4, <1>5, <1>7 DEF T, v

LEMMA ObserveFree ==
    ASSUME NEW L, NEW F, Free(L, F), NEW o, IsSeq(o.discoveredNow), ToSet(o.discoveredNow) \subseteq F, IsSeq(o.controls)
    PROVE  Free(Observe(L, o), F)
<1> DEFINE L0 == AddPage(L, o.url, L.last)
           L1 == Noted(L0, o)
           p == PageNo(L1, o.url)
           V == Visit(L1, p)
           L2 == IF p = 0 THEN L1 ELSE SkipLinkSeen(V, p, o.skipLinks # {})
           L3 == IF p = 0 THEN L2 ELSE AddLinked(L2, p, o.url, o.discoveredNow)
           f == [q \in DOMAIN L3.pages |-> Visible(L3.pages[q], L3.pages[q].url \in o.legalNavigate)]
           L4 == [L3 EXCEPT !.pages = f]
           states == L4.states \cup {StateKey(o)}
           L5 == IF StateKey(o) \in L4.states THEN L4
                 ELSE IF Cardinality(L4.states) >= MaxStates THEN Drop(L4, "states")
                 ELSE [L4 EXCEPT !.states = states]
           M == IF p = 0 THEN L4 ELSE AddControls(L5, p, o.controls)
<1>0. Observe(L, o) = M
    BY Zenon DEF Observe
<1>1. Free(L0, F \cup {o.url})
    BY AddPageFree
<1> HIDE DEF L0
<1>2. Free(L1, F \cup {o.url})
    BY <1>1, NotedFree
<1> HIDE DEF L1
<1>3. Free(L2, F)
    <2>1. CASE p = 0
        <3>1. \A q \in DOMAIN L1.pages : L1.pages[q].url # o.url
            BY <1>2, <2>1, FreePageNo
        <3>2. Free(L1, F)
            BY <1>2, <3>1 DEF Free
        <3> QED BY <2>1, <3>2
    <2>2. CASE p # 0
        <3>1. Free(V, F)
            BY <1>2, <2>2, VisitFree
        <3> HIDE DEF V
        <3> QED BY <2>2, <3>1, SkipLinkSeenFree
    <2> QED BY <2>1, <2>2
<1> HIDE DEF L2, p
<1>4. Free(L3, F)
    BY <1>3, AddLinkedFree
<1> HIDE DEF L3
<1>5. Free(L4, F)
    <2>1. f = [q \in DOMAIN L3.pages |-> f[q]] /\ \A q \in DOMAIN L3.pages : \E now : f[q] = Visible(L3.pages[q], now)
        BY Zenon
    <2> HIDE DEF f
    <2> QED BY <1>4, <2>1, VisibleFree
<1> HIDE DEF L4
<1>6. Free(L5, F)
    <2>1. Free(Drop(L4, "states"), F) /\ Free([L4 EXCEPT !.states = states], F)
        BY <1>5, DropFree, StateFree
    <2> QED BY <1>5, <2>1
<1> HIDE DEF L5
<1>7. Free(AddControls(L5, p, o.controls), F)
    BY <1>6, AddControlsFree
<1> QED BY <1>0, <1>5, <1>7

LEMMA PickedIsFrom == ASSUME NEW s, IsSeq(s), NEW F PROVE ToSet(Picked(s, F)) \subseteq ToSet(s) \cap F
<1> DEFINE c == [kind |-> "picked", from |-> F]
<1>1. FoldsTo(Picked(s, F), c, <<>>, s)
    BY PickedFold DEF IsSeq
<1> HIDE DEF c
<1>2. PICK g : Chain(g, c, <<>>, s) /\ Picked(s, F) = g[Len(s)]
    BY <1>1 DEF FoldsTo
<1> DEFINE T == {k \in 0..Len(s) : IsSeq(g[k]) /\ ToSet(g[k]) \subseteq ToSet(s) \cap F}
<1>3. Len(s) \in Nat /\ DOMAIN s = 1..Len(s)
    BY SeqFacts
<1>4. 0 \in T
    BY <1>2, <1>3, EmptyIsSeq DEF Chain, ToSet
<1>5. ASSUME NEW k \in 1..Len(s), k - 1 \in T PROVE k \in T
    <2> DEFINE a == g[k - 1]
    <2>1. g[k] = IF s[k] \in F THEN Append(a, s[k]) ELSE a
        BY <1>2, <1>3 DEF Chain, Apply, c
    <2>2. IsSeq(a) /\ ToSet(a) \subseteq ToSet(s) \cap F
        BY <1>5
    <2> HIDE DEF a
    <2>3. CASE s[k] \in F
        <3>1. IsSeq(Append(a, s[k])) /\ DOMAIN Append(a, s[k]) = 1..(Len(a) + 1) /\ DOMAIN a = 1..Len(a) /\ Len(a) \in Nat
              /\ \A i \in 1..Len(a) : Append(a, s[k])[i] = a[i]
              /\ Append(a, s[k])[Len(a) + 1] = s[k]
            BY <2>2, SeqFacts
        <3>2. s[k] \in ToSet(s)
            BY <1>3 DEF ToSet
        <3>3. ToSet(Append(a, s[k])) \subseteq ToSet(a) \cup {s[k]}
            BY <3>1 DEF ToSet
        <3>4. ToSet(Append(a, s[k])) \subseteq ToSet(s) \cap F
            BY <2>2, <2>3, <3>2, <3>3
        <3>5. g[k] = Append(a, s[k])
            BY <2>1, <2>3
        <3>6. k \in 0..Len(s)
            BY <1>3
        <3> QED BY <3>1, <3>4, <3>5, <3>6
    <2>4. CASE s[k] \notin F
        BY <1>3, <2>1, <2>2, <2>4
    <2> QED BY <2>3, <2>4
<1> HIDE DEF T
<1>6. Len(s) \in T
    BY <1>3, <1>4, <1>5, UpTo
<1> QED BY <1>2, <1>6 DEF T

LEMMA RemainingIs ==
    ASSUME NEW L, NEW o, NEW n
    PROVE  View(L, o, n).remaining = Cardinality({i \in DOMAIN L.obligations : L.obligations[i].status = "pending"})
BY DEF View

(* The scheduler navigates to a page not yet visited below the surface cap, and finishes with complete when nothing remains. *)
Goes(a, o, L) ==
    o.surfacesLeft > 0 /\ \E p \in DOMAIN L.pages : ~L.pages[p].visited /\ a.url = L.pages[p].url

Steers(d, o, v, L) ==
    /\ d.action.type = "navigate" => Goes(d.action, o, L)
    /\ ProposesComplete(d.action) => v.remaining = 0

LEMMA ActionTypesAre ==
    /\ \A t : Plain(t).type = t
    /\ \A u : To(u).type = "navigate" /\ To(u).url = u
    /\ \A t, x : On(t, x).type = t
    /\ \A c : Reporting(c).type = "report_candidate"
    /\ \A v, cs : Finishing(v, cs).type = "finish" /\ Finishing(v, cs).verdict = v
BY DEF Plain, To, On, Reporting, Finishing

LEMMA FinishSteers == ASSUME NEW s, NEW o, NEW v, NEW L, NEW ids PROVE Steers(Finish(s, o, v, ids), o, v, L)
<1> DEFINE captured == IF s.capturing # None /\ ids # {} THEN <<Candidate(s.capturing, ids)>> ELSE <<>>
           probed == Picked(s.queue, {f \in ToSet(s.queue) : f.probed # {}})
           done == v.outstanding = <<>> /\ v.remaining = 0
           told == captured \o [i \in DOMAIN probed |-> Candidate(probed[i], {})]
           verdict == IF done THEN "complete" ELSE "inconclusive"
           d == [state |-> Emptied(s), action |-> Finishing(verdict, told)]
<1>1. Finish(s, o, v, ids) = d
    BY Zenon DEF Finish
<1> HIDE DEF told
<1>2. d.action = Finishing(verdict, told)
    OBVIOUS
<1> HIDE DEF d
<1>3. d.action.type = "finish" /\ d.action.verdict = verdict
    BY <1>2, ActionTypesAre
<1> QED BY <1>1, <1>3 DEF Steers, ProposesComplete

LEMMA NextSteers ==
    ASSUME NEW s, NEW o, NEW v, NEW L, IsSeq(L.pages), NEW n PROVE Steers(NextStep(s, o, v, L, n), o, v, L)
<1> DEFINE todo == Todo(s, v, L.obligations)
           Runnable(i) == \/ L.obligations[i].probe \in Static
                          \/ L.obligations[i].subject \in o.legalActivate
           ready == {k \in DOMAIN todo : Runnable(todo[k])}
           k == CHOOSE k \in ready : \A j \in ready : k <= j
           passed == ToSet(IF ready = {} THEN todo ELSE FirstOf(todo, k))
           siblings == {i \in ToSet(todo) : L.obligations[i].probe \in Static}
           next == L.obligations[todo[k]]
           tried == [s EXCEPT !.attempted = @ \cup passed]
           Rank(p) == Cardinality({q \in ToSet(v.pages) : q < p /\ L.pages[q].source = L.pages[p].source})
           fresh == {p \in DOMAIN L.pages :
                       /\ p \in ToSet(v.pages) \ {v.current}
                       /\ ~L.pages[p].visited /\ p \notin s.skipped /\ Rank(p) < n}
           target == CHOOSE p \in fresh : \A q \in fresh : p <= q
           under == [trigger |-> next.subject, stage |-> "opened", activated |-> {}]
           after == IF next.probe # "dialog_focus_return" THEN tried ELSE [tried EXCEPT !.dialog = under]
           d1 == [state |-> Inspecting(tried, siblings, v.current), action |-> Plain("inspect_semantics")]
           d2 == [state |-> after, action |-> On("activate", next.subject)]
           d3 == [state |-> [tried EXCEPT !.goingTo = target], action |-> To(L.pages[target].url)]
           d4 == Finish(tried, o, v, {})
           d == IF ready # {} THEN IF next.probe \in Static THEN d1 ELSE d2
                ELSE IF o.surfacesLeft > 0 /\ fresh # {} THEN d3
                ELSE d4
<1>1. NextStep(s, o, v, L, n) = d
    BY Zenon DEF NextStep
<1>2. DOMAIN L.pages \subseteq Nat
    BY SeqFacts
<1>3. fresh \subseteq Nat
    BY <1>2
<1>4. \A p \in fresh : p \in DOMAIN L.pages /\ ~L.pages[p].visited
    OBVIOUS
<1> HIDE DEF fresh, after, tried, siblings, next, ready
<1>5. fresh # {} => target \in fresh
    BY <1>3, LeastOf
<1> HIDE DEF target
<1>6. d1.action.type = "inspect_semantics" /\ d2.action.type = "activate"
    BY ActionTypesAre
<1>7. d3.action.type = "navigate" /\ d3.action.url = L.pages[target].url
    BY ActionTypesAre
<1>8. Steers(d4, o, v, L)
    BY FinishSteers
<1>9. d \in {d1, d2, d4} \/ (o.surfacesLeft > 0 /\ fresh # {} /\ d = d3)
    BY Zenon
<1> HIDE DEF d, d1, d2, d3, d4
<1>10. Steers(d1, o, v, L) /\ Steers(d2, o, v, L)
    BY <1>6 DEF Steers, ProposesComplete
<1>11. o.surfacesLeft > 0 /\ fresh # {} => Steers(d3, o, v, L)
    BY <1>4, <1>5, <1>7 DEF Steers, ProposesComplete, Goes
<1> QED BY <1>1, <1>8, <1>9, <1>10, <1>11

LEMMA DecideSteers ==
    ASSUME NEW s0, NEW o, NEW v, NEW L, IsSeq(L.pages), NEW n PROVE Steers(Decide(s0, o, v, L, n), o, v, L)
<1> DEFINE s1 == Inspected(Arrived(s0, v), o, v)
           s == DialogStep(s1, o, v)
           waiting == [s EXCEPT !.capturing = None]
           d1 == [state |-> s, action |-> Plain("escape")]
           d2 == Finish(s, o, v, o.lastEvidence)
           d3 == [state |-> waiting, action |-> Reporting(Candidate(s.capturing, o.lastEvidence))]
           d4 == [state |-> Taken(waiting), action |-> On("capture_evidence", Head(s.queue).target)]
           d5 == NextStep(waiting, o, v, L, n)
           d == IF s1.dialog # None /\ s1.dialog.stage = "opened" /\ ~o.finalCall THEN d1
                ELSE IF o.finalCall THEN d2
                ELSE IF s.capturing # None /\ o.lastEvidence # {} THEN d3
                ELSE IF s.queue # <<>> THEN d4
                ELSE d5
<1>1. Decide(s0, o, v, L, n) = d
    BY Zenon DEF Decide
<1> HIDE DEF s, s1, waiting
<1>2. d1.action.type = "escape" /\ d3.action.type = "report_candidate" /\ d4.action.type = "capture_evidence"
    BY ActionTypesAre
<1>3. Steers(d2, o, v, L) /\ Steers(d5, o, v, L)
    BY FinishSteers, NextSteers
<1>4. d \in {d1, d2, d3, d4, d5}
    BY Zenon
<1> HIDE DEF d, d1, d2, d3, d4, d5
<1>5. Steers(d1, o, v, L) /\ Steers(d3, o, v, L) /\ Steers(d4, o, v, L)
    BY <1>2 DEF Steers, ProposesComplete
<1> QED BY <1>1, <1>3, <1>4, <1>5

LEMMA FreeMore == ASSUME NEW L, NEW F, NEW G, Free(L, F), F \subseteq G PROVE Free(L, G)
BY DEF Free

LEMMA EmptyFree == ASSUME NEW F PROVE Free(EmptyLedger, F)
<1>1. EmptyLedger.pages = <<>> /\ EmptyLedger.obligations = <<>> /\ HasFields(EmptyLedger)
    BY DEF EmptyLedger, HasFields
<1>2. DOMAIN <<>> = {}
    OBVIOUS
<1> QED BY <1>1, <1>2, EmptyIsSeq DEF Free

(* A ledger whose view has nothing remaining has nothing pending. *)
LEMMA NoneRemains ==
    ASSUME NEW L, IsSeq(L.obligations), NEW o, NEW n, View(L, o, n).remaining = 0
    PROVE  NothingPending(L)
<1> DEFINE owed == {i \in DOMAIN L.obligations : L.obligations[i].status = "pending"}
<1>1. DOMAIN L.obligations = 1..Len(L.obligations) /\ Len(L.obligations) \in Nat
    BY SeqFacts
<1>2. IsFiniteSet(1..Len(L.obligations))
    BY <1>1, FS_Interval
<1>3. owed \subseteq 1..Len(L.obligations)
    BY <1>1
<1>4. IsFiniteSet(owed)
    BY <1>2, <1>3, FS_Subset
<1>5. Cardinality(owed) = 0
    BY RemainingIs
<1>6. owed = {}
    BY <1>4, <1>5, FS_EmptySet
<1> QED BY <1>6 DEF NothingPending

LEMMA RefusalNamesNothing ==
    ASSUME NEW a, NEW o, a.type = "navigate" => a.url \in Goals /\ ~(Cardinality(surfaces) >= cfg.maxSurfaces)
    PROVE  Refusal(a, o).url = None
BY DEF Refusal, NoDenial, Goals

(* Steps out of the turn that leave the ledger as it is. *)
LEMMA PatientOnward ==
    ASSUME Patient, UNCHANGED <<cfg, ledger, discovered, surfaces, proposal, result>>,
           phase' \notin {"ask", "act", "record"},
           proposal # None => phase' \notin {"open", "turn"} /\ (phase' \in Flush /\ result = None => ~turn'.keep)
    PROVE  Patient'
<1>1. Goals' = Goals
    BY DEF Goals, Navigable
<1>2. Roaming'
    BY <1>1 DEF Patient, Roaming
<1>3. Proposing'
    BY DEF Patient, Proposing
<1>4. SchedulerNeverPremature'
    BY DEF Patient, SchedulerNeverPremature
<1> QED BY <1>2, <1>3, <1>4 DEF Patient

(* Steps of the environment. *)
LEMMA PatientStill ==
    ASSUME Patient, UNCHANGED <<cfg, phase, ledger, discovered, surfaces, proposal, result, evidence>>,
           \/ turn' = turn
           \/ phase \in {"ask", "act"} /\ turn'.denial = turn.denial /\ turn'.action = turn.action
    PROVE  Patient'
<1>1. Goals' = Goals
    BY DEF Goals, Navigable
<1>2. Roaming'
    BY <1>1 DEF Patient, Roaming
<1>3. Proposing'
    BY DEF Patient, Proposing, Flush
<1>4. SchedulerNeverPremature'
    BY DEF Patient, SchedulerNeverPremature
<1> QED BY <1>2, <1>3, <1>4 DEF Patient

(* An action that is carried out without an end of the session. *)
LEMMA PatientActs ==
    ASSUME SessionInv, Patient, phase = "act", phase' = "record", turn'.denial = turn.denial,
           UNCHANGED <<cfg, ledger, discovered, proposal, result>>, IsFiniteSet(surfaces')
    PROVE  Patient'
<1>1. Goals' = Goals /\ proposal = None /\ result = None /\ turn.denial.url = None
    BY DEF Goals, Navigable, Patient, Proposing, Roaming, SessionInv, Running, Early
<1>2. Roaming'
    BY <1>1 DEF Patient, Roaming
<1>3. Proposing'
    BY <1>1, SessionAssumption DEF Proposing, Verdicts
<1>4. SchedulerNeverPremature'
    BY <1>1 DEF SchedulerNeverPremature
<1> QED BY <1>2, <1>3, <1>4 DEF Patient

LEMMA InitPatient == Init => SchedInv
<1> SUFFICES ASSUME Init PROVE Patient
    BY DEF SchedInv
<1>1. IsFiniteSet({})
    BY FS_EmptySet
<1>2. Roaming
    BY <1>1, EmptyFree DEF Init, Roaming
<1>3. Proposing
    BY SessionAssumption DEF Init, Proposing, Verdicts, Flush
<1>4. SchedulerNeverPremature
    BY DEF Init, SchedulerNeverPremature
<1> QED BY <1>2, <1>3, <1>4 DEF Patient

LEMMA OpenPatient == ASSUME SessionInv, Patient, Open PROVE Patient'
<1>0. PICK url \in Lands[Start] :
        /\ surfaces' = {url} /\ phase = "open" /\ phase' = "turn"
        /\ UNCHANGED <<cfg, proposal, discovered, ledger, result>>
    BY DEF Open, endVars
<1>1. Goals' = Goals /\ proposal = None /\ result = None
    BY <1>0 DEF Goals, Navigable, Patient, Proposing, SessionInv, Running, Early
<1>2. IsFiniteSet({url})
    BY FS_Singleton
<1>3. Roaming'
    BY <1>0, <1>1, <1>2 DEF Patient, Roaming
<1>4. Proposing'
    BY <1>0, <1>1, SessionAssumption DEF Proposing, Verdicts, Flush
<1>5. SchedulerNeverPremature'
    BY <1>0, <1>1 DEF SchedulerNeverPremature
<1> QED BY <1>3, <1>4, <1>5 DEF Patient

LEMMA ObservePatient == ASSUME SessionInv, LedgerInv, Patient, ObserveTurn PROVE Patient'
<1> DEFINE o == Observation(FinalCall)
           L == Observe(ledger, o)
           M == Compact(L, o, cfg.perSource)
<1>0. /\ phase = "turn" /\ ledger' = (IF cfg.ledgerVisible THEN M ELSE L)
      /\ discovered' = discovered \cup ToSet(Links)
      /\ UNCHANGED <<cfg, proposal, surfaces, result>>
    BY Zenon DEF ObserveTurn
<1>1. phase' = "end" \/ (phase' = "ask" /\ turn'.denial = NoDenial)
    BY DEF ObserveTurn, Leave
<1>2. proposal = None /\ result = None
    BY <1>0 DEF Patient, Proposing, SessionInv, Running, Early
<1>3. o.discoveredNow = Picked(Links, DOMAIN Site \ {ErrorPage}) /\ IsSeq(o.controls) /\ IsSeq(o.discoveredNow)
    <2>1. o.discoveredNow = Picked(Links, DOMAIN Site \ {ErrorPage})
        BY DEF Observation
    <2>2. IsSeq(o.controls) /\ IsSeq(o.discoveredNow)
        BY ObservationIs DEF LedgerInv
    <2> QED BY <2>1, <2>2
<1>4. IsSeq(Links)
    <2>1. /\ IsSeq(Controls) /\ IsSeq(Site[page.at].links) /\ \A c \in ToSet(Controls) : IsSeq(c.reveals)
        BY SessionAssumption DEF LedgerInv, Places, Controls
    <2>2. IsSeq(Revealed(Site[page.at].links, Controls, page.expanded))
        BY <2>1, RevealedIsSeq
    <2>3. MaxLinks \in Nat
        BY SessionAssumption
    <2> QED BY <2>2, <2>3, FirstIsSeq DEF Links
<1> HIDE DEF o
<1>5. ToSet(o.discoveredNow) \subseteq ToSet(Links) \cap (DOMAIN Site \ {ErrorPage})
    BY <1>3, <1>4, PickedIsFrom
<1>6. Goals \subseteq Goals' /\ ToSet(o.discoveredNow) \subseteq Goals'
    BY <1>0, <1>5 DEF Goals, Navigable
<1>7. Free(ledger, Goals')
    BY <1>6, FreeMore DEF Patient, Roaming
<1>8. Free(L, Goals')
    BY <1>3, <1>6, <1>7, ObserveFree
<1> HIDE DEF L
<1>9. Free(M, Goals')
    BY <1>8, CompactFree
<1> HIDE DEF M
<1>10. Free(ledger', Goals')
    BY <1>0, <1>8, <1>9
<1>11. Roaming'
    BY <1>0, <1>1, <1>10 DEF Patient, Roaming, NoDenial
<1>12. Proposing'
    BY <1>0, <1>1, <1>2, SessionAssumption DEF Proposing, Verdicts, Flush
<1>13. SchedulerNeverPremature'
    BY <1>0, <1>2 DEF SchedulerNeverPremature
<1> QED BY <1>11, <1>12, <1>13 DEF Patient

LEMMA AnswerPatient == ASSUME SessionInv, LedgerInv, Patient, SchedulerAnswers PROVE Patient'
<1> DEFINE o == Observation(turn.final)
           v == View(ledger, o, cfg.perSource)
           d == Decide(sched, o, v, ledger, cfg.perSource)
           a == d.action
           no == Refusal(a, o)
<1>1. phase = "ask" /\ Decided(a)
    BY DEF SchedulerAnswers
<1>2. UNCHANGED <<cfg, proposal, surfaces, discovered, ledger, result>> /\ IsTurn(turn) /\ turn.denial = NoDenial
      /\ result = None /\ proposal = None
    BY <1>1 DEF Decided, pageVars, endVars, SessionInv, Running, Early, Patient, Proposing
<1>3. \/ phase' = "record" /\ turn' = [turn EXCEPT !.action = a, !.denial = no, !.outcome = "denied"]
      \/ phase' = "act" /\ turn' = [turn EXCEPT !.action = a]
    BY <1>1 DEF Decided
<1>4. Free(ledger, Goals) /\ IsSeq(ledger.pages) /\ IsSeq(ledger.obligations)
    BY DEF Patient, Roaming, Free
<1>5. o.surfacesLeft = cfg.maxSurfaces - Cardinality(surfaces)
    BY DEF Observation
<1> HIDE DEF o
<1>6. Steers(d, o, v, ledger)
    BY <1>4, DecideSteers
<1>7. v.remaining = 0 => NothingPending(ledger)
    BY <1>4, NoneRemains
<1> HIDE DEF d, v
<1>8. a.type = "navigate" => a.url \in Goals /\ ~(Cardinality(surfaces) >= cfg.maxSurfaces)
    <2>1. cfg.maxSurfaces \in Nat
        BY SessionAssumption DEF LedgerInv, Limits
    <2>2. Cardinality(surfaces) \in Nat
        BY FS_CardinalityType DEF Patient, Roaming
    <2>3. a.type = "navigate" => Goes(a, o, ledger)
        BY <1>6 DEF Steers
    <2> QED BY <1>4, <1>5, <2>1, <2>2, <2>3 DEF Goes, Free
<1>9. ProposesComplete(a) => NothingPending(ledger)
    BY <1>6, <1>7 DEF Steers
<1> HIDE DEF a
<1>10. no.url = None
    BY <1>8, RefusalNamesNothing
<1> HIDE DEF no
<1>11. Goals' = Goals
    BY <1>2 DEF Goals, Navigable
<1>12. turn'.denial.url = None /\ turn'.action = a
    <2>1. NoDenial.url = None
        BY DEF NoDenial
    <2>2. turn = [final |-> turn.final, action |-> turn.action, denial |-> turn.denial, refusedNow |-> turn.refusedNow,
                  before |-> turn.before, outcome |-> turn.outcome, keep |-> turn.keep]
        BY <1>2 DEF IsTurn
    <2>3. turn'.denial \in {no, turn.denial} /\ turn'.action = a
        BY <1>3, <2>2
    <2> QED BY <1>2, <1>10, <2>1, <2>3
<1>13. Roaming'
    BY <1>2, <1>4, <1>11, <1>12 DEF Patient, Roaming
<1>14. Proposing'
    BY <1>2, <1>3, <1>9, <1>12, SessionAssumption DEF Proposing, Verdicts
<1>15. SchedulerNeverPremature'
    BY <1>2 DEF SchedulerNeverPremature
<1> QED BY <1>13, <1>14, <1>15 DEF Patient

LEMMA SettledDenial ==
    ASSUME SessionInv, phase = "act", NEW stored, NEW ids, Settled(stored, ids)
    PROVE  phase' = "record" /\ turn'.denial = turn.denial
<1>1. /\ phase' = "record"
      /\ turn' = [turn EXCEPT !.refusedNow = turn.refusedNow \/ stored, !.keep = ~(memo.unknown >= MaxUnknown),
                              !.outcome = IF turn.refusedNow \/ stored THEN "denied" ELSE "executed"]
    BY DEF Settled
<1>2. IsTurn(turn)
    BY DEF SessionInv, Running
<1> QED BY <1>1, <1>2 DEF IsTurn

(* Only a navigation that arrives adds a surface. *)
LEMMA ExecutePatient == ASSUME SessionInv, LedgerInv, Patient, Execute1 PROVE Patient'
<1>0. IsFiniteSet(surfaces)
    BY DEF Patient, Roaming
<1> USE DEF Performing, pageVars, outVars, endVars
<1>1. CASE Probe
    <2>1. phase = "act" /\ Settled(FALSE, NewId) /\ UNCHANGED <<cfg, proposal, surfaces, discovered, ledger, result>>
        BY <1>1 DEF Probe
    <2> QED BY <1>0, <2>1, SettledDenial, PatientActs
<1>2. CASE Navigate
    <2>1. PICK url \in Lands[turn.action.url] :
            /\ phase = "act" /\ Settled(FALSE, NewId) /\ surfaces' = surfaces \cup {url}
            /\ UNCHANGED <<cfg, proposal, discovered, ledger, result>>
        BY <1>2 DEF Navigate
    <2>2. IsFiniteSet(surfaces \cup {url})
        BY <1>0, FS_AddElement
    <2> QED BY <2>1, <2>2, SettledDenial, PatientActs
<1>3. CASE NavigateBlocked
    <2>1. phase = "act" /\ Settled(Stores, {}) /\ UNCHANGED <<cfg, proposal, surfaces, discovered, ledger, result>>
        BY <1>3 DEF NavigateBlocked
    <2> QED BY <1>0, <2>1, SettledDenial, PatientActs
<1>4. CASE Activate
    <2>1. phase = "act" /\ UNCHANGED <<cfg, proposal, surfaces, discovered, ledger, result>>
        BY <1>4 DEF Activate
    <2>2. \E stored, ids : Settled(stored, ids)
        BY <1>4 DEF Activate
    <2> QED BY <1>0, <2>1, <2>2, SettledDenial, PatientActs
<1>5. CASE ActivateRefused
    <2>1. phase = "act" /\ Settled(TRUE, {}) /\ UNCHANGED <<cfg, proposal, surfaces, discovered, ledger, result>>
        BY <1>5 DEF ActivateRefused
    <2> QED BY <1>0, <2>1, SettledDenial, PatientActs
<1>6. CASE ActionThrows
    <2>1. phase = "act" /\ Settled(FALSE, {}) /\ UNCHANGED <<cfg, proposal, surfaces, discovered, ledger, result>>
        BY <1>6 DEF ActionThrows
    <2> QED BY <1>0, <2>1, SettledDenial, PatientActs
<1>7. CASE Report
    <2>1. phase = "act" /\ Settled(FALSE, {}) /\ UNCHANGED <<cfg, proposal, surfaces, discovered, ledger, result>>
        BY <1>7 DEF Report
    <2> QED BY <1>0, <2>1, SettledDenial, PatientActs
<1>8. CASE FinishSession
    <2>1. /\ phase = "act" /\ phase' = "record" /\ proposal' = turn.action.verdict /\ turn.action.type = "finish"
          /\ turn' = [turn EXCEPT !.outcome = "finished", !.keep = FALSE]
          /\ UNCHANGED <<cfg, surfaces, discovered, ledger, result, evidence>>
        BY <1>8 DEF FinishSession
    <2>2. turn'.denial = turn.denial /\ turn'.before = turn.before /\ turn'.keep = FALSE /\ result = None
        BY <2>1 DEF SessionInv, Running, Early, IsTurn
    <2>3. turn.denial.url = None /\ turn.before = Len(evidence) /\ (ProposesComplete(turn.action) => NothingPending(ledger))
        BY <2>1 DEF LedgerInv, Kept, Patient, Roaming, Proposing
    <2>4. Goals' = Goals
        BY <2>1 DEF Goals, Navigable
    <2>5. Roaming'
        BY <2>1, <2>2, <2>3, <2>4 DEF Patient, Roaming
    <2>6. Proposing'
        BY <2>1, <2>2, <2>3 DEF Proposing, ProposesComplete
    <2>7. SchedulerNeverPremature'
        BY <2>1, <2>2 DEF SchedulerNeverPremature
    <2> QED BY <2>5, <2>6, <2>7 DEF Patient
<1> QED BY <1>1, <1>2, <1>3, <1>4, <1>5, <1>6, <1>7, <1>8 DEF Execute1

(* The turn that finishes has no record to tell of. *)
LEMMA RecordPatient == ASSUME SessionInv, LedgerInv, Patient, Record PROVE Patient'
<1> DEFINE new == SubSeq(evidence, turn.before + 1, Len(evidence))
           M == RecordAll(ledger, turn.before, new)
<1>0. /\ phase = "record" /\ phase' = "write_evidence"
      /\ ledger' = (IF turn.denial.url = None THEN M ELSE RecordDenial(M, turn.denial.url, turn.denial.reason))
      /\ UNCHANGED <<cfg, proposal, surfaces, discovered, result, turn>>
    BY DEF Record, pageVars, endVars
<1>1. turn.denial.url = None /\ Free(ledger, Goals) /\ IsFiniteSet(surfaces)
      /\ (proposal # None => turn.before = Len(evidence)) /\ (proposal # None => ~turn.keep)
      /\ (proposal = "complete" => NothingPending(ledger)) /\ result = None
    BY <1>0 DEF Patient, Roaming, Proposing, SessionInv, Running, Early
<1>2. IsSeq(evidence) /\ turn.before \in 0..Len(evidence)
    BY <1>0 DEF LedgerInv, Places, Kept
<1>3. evidence \in Seq(ToSet(evidence)) /\ Len(evidence) \in Nat
    BY <1>2, SeqFacts DEF IsSeq
<1>4. new \in Seq(ToSet(evidence))
    BY <1>2, <1>3
<1>5. turn.before = Len(evidence) => Len(new) = 0
    BY <1>3
<1> HIDE DEF new
<1>6. Free(M, Goals) /\ (Len(new) = 0 => M = ledger)
    BY <1>1, <1>4, RecordAllFree
<1> HIDE DEF M
<1>7. Goals' = Goals
    BY <1>0 DEF Goals, Navigable
<1>8. Roaming'
    BY <1>0, <1>1, <1>6, <1>7 DEF Roaming
<1>9. proposal = "complete" => NothingPending(ledger')
    BY <1>0, <1>1, <1>5, <1>6, SessionAssumption DEF Verdicts
<1>10. Proposing'
    BY <1>0, <1>1, <1>9 DEF Proposing
<1>11. SchedulerNeverPremature'
    BY <1>0, <1>1 DEF SchedulerNeverPremature
<1> QED BY <1>8, <1>10, <1>11 DEF Patient

LEMMA FlushPatient ==
    ASSUME SessionInv, Patient, Truncate \/ WriteEvidence \/ WriteCandidates \/ WriteFrontier \/ WriteResult
    PROVE  Patient'
<1> USE DEF pageVars, endVars, Flush
<1>1. CASE WriteEvidence
    BY <1>1, PatientOnward DEF WriteEvidence, Patient, Proposing
<1>2. CASE WriteCandidates
    BY <1>2, PatientOnward DEF WriteCandidates, Patient, Proposing
<1>3. CASE WriteFrontier
    <2>1. phase = "write_frontier" /\ UNCHANGED <<cfg, ledger, discovered, surfaces, proposal, result, turn>>
        BY <1>3 DEF WriteFrontier
    <2>2. \/ phase' \in {"write_result", "end"}
          \/ phase' = "turn" /\ result = None /\ turn.keep
        BY <1>3 DEF WriteFrontier, Leave
    <2> QED BY <2>1, <2>2, PatientOnward DEF Patient, Proposing
<1>4. CASE WriteResult
    BY <1>4, PatientOnward DEF WriteResult
<1>5. CASE Truncate
    BY <1>5, PatientOnward DEF Truncate, Patient, Proposing
<1> QED BY <1>1, <1>2, <1>3, <1>4, <1>5

(* With nothing pending and nothing blocked there is nothing between a completed session and complete_within_scope. *)
LEMMA NothingPendingCompletes ==
    ASSUME NEW L, NEW F, Free(L, F), NothingPending(L), L.truncated = {}, NEW n
    PROVE  Completion(L, "completed", FALSE, n) = "complete_within_scope"
<1>1. RelevantPending(L, n) = {}
    BY DEF RelevantPending, NothingPending
<1>2. SurfaceCapped(L, n) = {}
    BY DEF SurfaceCapped, NothingPending, Free
<1>3. Blocked(L) = {}
    BY DEF Blocked, Free
<1> QED BY <1>1, <1>2, <1>3 DEF Completion

LEMMA ClosePatient == ASSUME SessionInv, Patient, Close PROVE Patient'
<1> DEFINE final == IF cause # None THEN cause ELSE status
           cancelled == cause = "cancelled"
           outcome == IF ~cfg.accounting THEN None ELSE Completion(ledger, final, cancelled, cfg.perSource)
<1>0. /\ phase = "end" /\ phase' = "write_evidence"
      /\ result' = [status |-> final, proposal |-> proposal, outcome |-> outcome]
      /\ UNCHANGED <<cfg, surfaces, discovered, ledger, proposal>>
    BY DEF Close, pageVars
<1>1. result' # None
    <2>1. final \in Statuses /\ proposal \in Verdicts \cup {None}
        BY DEF SessionInv, Shapes, Causes, Statuses
    <2>2. outcome \in Completions \cup {None}
        BY CompletionIsOne
    <2> HIDE DEF final, outcome
    <2>3. result' \in Results
        BY <1>0, <2>1, <2>2 DEF Results
    <2> QED BY <2>3, SessionAssumption
<1>2. final = "completed" => ~cancelled
    BY SessionAssumption DEF SessionInv, Shapes, Causes, Statuses
<1>3. Goals' = Goals
    BY <1>0 DEF Goals, Navigable
<1>4. Roaming'
    BY <1>0, <1>3 DEF Patient, Roaming
<1>5. Proposing'
    BY <1>0, <1>1 DEF Patient, Proposing
<1>6. SchedulerNeverPremature'
    <2> SUFFICES ASSUME cfg.accounting, final = "completed", proposal = "complete", ledger.truncated = {}
                 PROVE  outcome = "complete_within_scope"
        BY <1>0 DEF SchedulerNeverPremature
    <2>1. NothingPending(ledger) /\ Free(ledger, Goals)
        BY DEF Patient, Proposing, Roaming
    <2>2. Completion(ledger, "completed", FALSE, cfg.perSource) = "complete_within_scope"
        BY <2>1, NothingPendingCompletes
    <2>3. cancelled = FALSE
        BY <1>2
    <2> HIDE DEF final, cancelled
    <2> QED BY <2>2, <2>3
<1> QED BY <1>4, <1>5, <1>6 DEF Patient

LEMMA EnvironmentPatient ==
    ASSUME SessionInv, Patient, (\E why \in Causes : Abort(why)) \/ Beacon \/ UNCHANGED vars
    PROVE  Patient'
<1>1. CASE \E why \in Causes : Abort(why)
    BY <1>1, PatientStill DEF Abort, pageVars, outVars, endVars
<1>2. CASE Beacon
    <2>1. /\ phase \in {"ask", "act"} /\ turn' = [turn EXCEPT !.refusedNow = TRUE]
          /\ UNCHANGED <<cfg, phase, ledger, discovered, surfaces, proposal, result, evidence>>
        BY <1>2 DEF Beacon, pageVars, outVars, endVars
    <2>2. turn'.denial = turn.denial /\ turn'.action = turn.action
        BY <2>1 DEF SessionInv, Running, IsTurn
    <2> QED BY <2>1, <2>2, PatientStill
<1>3. CASE UNCHANGED vars
    BY <1>3, PatientStill DEF vars
<1> QED BY <1>1, <1>2, <1>3

LEMMA EndPatient ==
    ASSUME Patient, TurnLimited \/ AbortBites \/ RunFails
    PROVE  Patient'
<1>1. phase' = "end" /\ UNCHANGED <<cfg, ledger, discovered, surfaces, proposal, result>>
    BY DEF TurnLimited, AbortBites, RunFails, Leave, pageVars, endVars
<1> QED BY <1>1, PatientOnward DEF Flush

LEMMA PatientStep == SessionInv /\ LedgerInv /\ SchedInv /\ [Next]_vars => SchedInv'
<1> SUFFICES ASSUME SessionInv, LedgerInv, SchedInv, [Next]_vars PROVE SchedInv'
    OBVIOUS
<1>1. cfg' = cfg
    BY DEF vars, Next, Open, TurnLimited, ObserveTurn, ModelAnswers, SchedulerAnswers, Decided, ProviderFails, Execute1,
       Probe, Navigate, NavigateBlocked, Activate, ActivateRefused, ActionThrows, Report, FinishSession, Record,
       Truncate, WriteEvidence, WriteCandidates, WriteFrontier, Close, WriteResult, Abort, AbortBites, RunFails, Beacon
<1> SUFFICES ASSUME cfg.selector = "scheduler" PROVE Patient'
    BY <1>1 DEF SchedInv
<1>2. Patient
    BY DEF SchedInv
<1>3. ~ModelAnswers /\ ~ProviderFails
    BY DEF ModelAnswers, ProviderFails
<1> QED BY <1>2, <1>3, OpenPatient, EndPatient, ObservePatient, AnswerPatient, ExecutePatient, RecordPatient, FlushPatient,
           ClosePatient, EnvironmentPatient DEF Next

(* The scheduler is never premature (docs/experiments/FRONTIER_BENCHMARK.md:110, "its premature-completion rate is about 0 by
   construction"): a session that it ends with complete is complete_within_scope, where completion is accounted for and the ledger
   was not cut. It goes only to pages the browser has shown a link to, below the surface cap, so that no refusal of validate()
   (executor.ts) ever blocks an obligation, and nothing is recorded after it has finished. *)
THEOREM SchedulerIsPatient == Spec => []SchedulerNeverPremature
<1>1. SchedInv => SchedulerNeverPremature
    BY DEF SchedInv, Patient, SchedulerNeverPremature
<1> QED BY <1>1, InitPatient, PatientStep, LedgerIsTrue, PTL DEF Spec
=============================================================================
