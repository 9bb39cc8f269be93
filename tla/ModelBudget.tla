---------------------------- MODULE ModelBudget ----------------------------
(***************************************************************************)
(* BudgetedProvider: the hard budget of a trial around a model provider.   *)
(*                                                                         *)
(* Requests are chained: each waits for the promise of the one before it,  *)
(* in the order complete() was called, so a request is known by its        *)
(* place in that order.  A request whose worst case could break a cap is   *)
(* refused, and the first refusal stops the trial.  Otherwise its worst    *)
(* case is reserved, and the reservation is replaced by the usage the      *)
(* provider reports.  The provider is external: it bills what it likes up  *)
(* to the requested output and up to Overshoot above the estimated input,  *)
(* and says so, keeps it to itself, or fails.  The ledger started at 0.    *)
(***************************************************************************)
EXTENDS Integers

CONSTANTS
    MaxRequests,        \* bound on the calls of complete()
    Chars,              \* the lengths a request's messages may have together
    OutputCap,          \* the values of maxOutputTokens in a request
    MaxCalls, MaxInput, MaxOutput, MaxSpend, MaxWall,   \* TrialBudget
    MinCallInterval,
    PriceIn, PriceOut,  \* of one token
    Overshoot,          \* what the real input may have above its estimate
    MaxClock            \* the clock stops there, unless a call sleeps

ASSUME BudgetAssumption ==
    /\ Chars \subseteq Nat
    /\ OutputCap \subseteq Nat
    /\ {MaxRequests, MaxCalls, MaxInput, MaxOutput, MaxSpend, MaxWall,
        MinCallInterval, PriceIn, PriceOut, Overshoot, MaxClock} \subseteq Nat

Requests == 1..MaxRequests

Previous(t) == {t - 1} \cap Requests

VARIABLES
    clock,      \* Date.now
    ledger,     \* BudgetLedger: inputTokens, outputTokens and spend
    calls, refused, estimated, stopped,     \* and its counters and stopReason
    lastCall,   \* lastCallAtMs
    reqs,       \* the state of each request, in the order of the chain
    billed,     \* what the provider billed
    blind       \* how many calls ended with no usage reported

counters == <<calls, refused, estimated, stopped>>

vars == <<clock, ledger, counters, lastCall, reqs, billed, blind>>

Settled == {"answered", "failed", "refused"}
Active == {"asleep", "inflight"}
Begun == Settled \cup Active

CostOf(input, output) == input * PriceIn + output * PriceOut

(* ceil(ceil(chars / 4) * 1.5) *)
InputWorst(chars) == (3 * ((chars + 3) \div 4) + 1) \div 2

NoRequest == [pc |-> "none", input |-> 0, output |-> 0, until |-> 0]

(* lastCallAtMs is minus infinity: early enough for no call to wait. *)
Init ==
    /\ clock = 0
    /\ ledger = [input |-> 0, output |-> 0, spend |-> 0]
    /\ calls = 0 /\ refused = 0 /\ estimated = 0 /\ stopped = FALSE
    /\ lastCall = -MinCallInterval
    /\ reqs = [t \in Requests |-> NoRequest]
    /\ billed = [input |-> 0, output |-> 0]
    /\ blind = 0

Tick ==
    /\ \/ clock < MaxClock
       \/ \E t \in Requests : reqs[t].pc = "asleep" /\ clock < reqs[t].until
    /\ clock' = clock + 1
    /\ UNCHANGED <<ledger, counters, lastCall, reqs, billed, blind>>

(* complete: the request joins the chain. *)
Complete(t) ==
    /\ reqs[t].pc = "none"
    /\ \A p \in Previous(t) : reqs[p].pc # "none"
    /\ \E chars \in Chars, output \in OutputCap :
           reqs' = [reqs EXCEPT ![t] = [pc |-> "queued", input |-> InputWorst(chars),
                                        output |-> output, until |-> 0]]
    /\ UNCHANGED <<clock, ledger, counters, lastCall, billed, blind>>

----------------------------------------------------------------------------
(* one(): the checks, the wait, the reservation and the call. *)

(* Mutated chains: none at all, and one that a rejection breaks. *)
Unchained(t) == reqs[t].pc = "queued"
ChainBreaks(t) == reqs[t].pc = "queued" /\ \A p \in Previous(t) : reqs[p].pc = "answered"

(* The chain: the promise of the request before has settled, either way. *)
InTurn(t) == reqs[t].pc = "queued" /\ \A p \in Previous(t) : reqs[p].pc \in Settled

(* The promise settles; what the request asked for no longer matters. *)
Settle(t, pc) == reqs' = [reqs EXCEPT ![t] = [NoRequest EXCEPT !.pc = pc]]

(* Mutated checks: a call too many; a trial that forgets its first refusal. *)
RefusedLate(t) ==
    \/ stopped
    \/ calls > MaxCalls
    \/ ledger.input + reqs[t].input > MaxInput
    \/ ledger.output + reqs[t].output > MaxOutput
    \/ ledger.spend + CostOf(reqs[t].input, reqs[t].output) > MaxSpend
    \/ clock >= MaxWall

RefusedAfresh(t) ==
    \/ calls + 1 > MaxCalls
    \/ ledger.input + reqs[t].input > MaxInput
    \/ ledger.output + reqs[t].output > MaxOutput
    \/ ledger.spend + CostOf(reqs[t].input, reqs[t].output) > MaxSpend
    \/ clock >= MaxWall

Refused(t) ==
    \/ stopped
    \/ calls + 1 > MaxCalls
    \/ ledger.input + reqs[t].input > MaxInput
    \/ ledger.output + reqs[t].output > MaxOutput
    \/ ledger.spend + CostOf(reqs[t].input, reqs[t].output) > MaxSpend
    \/ clock >= MaxWall

Refuse(t) ==
    /\ InTurn(t) /\ Refused(t)
    /\ refused' = refused + 1 /\ stopped' = TRUE
    /\ Settle(t, "refused")
    /\ UNCHANGED <<clock, ledger, calls, estimated, lastCall, billed, blind>>

MustWait == lastCall + MinCallInterval > clock

Sleep(t) ==
    /\ InTurn(t) /\ ~Refused(t) /\ MustWait
    /\ reqs' = [reqs EXCEPT ![t] = [pc |-> "asleep", input |-> @.input, output |-> @.output,
                                    until |-> lastCall + MinCallInterval]]
    /\ UNCHANGED <<clock, ledger, counters, lastCall, billed, blind>>

Reserved(t) ==
    [input |-> ledger.input + reqs[t].input,
     output |-> ledger.output + reqs[t].output,
     spend |-> ledger.spend + CostOf(reqs[t].input, reqs[t].output)]

(* Reserve the worst case and call the provider. *)
Send(t) ==
    /\ lastCall' = clock
    /\ calls' = calls + 1
    /\ ledger' = Reserved(t)
    /\ reqs' = [reqs EXCEPT ![t].pc = "inflight"]
    /\ UNCHANGED <<clock, refused, estimated, stopped, billed, blind>>

SendAtOnce(t) == InTurn(t) /\ ~Refused(t) /\ ~MustWait /\ Send(t)

(* The sleep ends, now or later; nothing is checked again. *)
Wake(t) == reqs[t].pc = "asleep" /\ clock >= reqs[t].until /\ Send(t)

(* The reported usage in the place of the reservation. *)
Replaced(t, input, output) ==
    [input |-> ledger.input + (input - reqs[t].input),
     output |-> ledger.output + (output - reqs[t].output),
     spend |-> ledger.spend + (CostOf(input, output) - CostOf(reqs[t].input, reqs[t].output))]

AnswerWithUsage(t, input, output) ==
    /\ ledger' = Replaced(t, input, output)
    /\ Settle(t, "answered")
    /\ UNCHANGED <<estimated, blind>>

(* A mutated answer: the reservation is given back when no usage is reported. *)
AnswerForFree(t) ==
    /\ ledger' = Replaced(t, 0, 0)
    /\ estimated' = estimated + 1
    /\ Settle(t, "answered")
    /\ blind' = blind + 1

(* No usage: the reservation stands. *)
AnswerWithout(t) ==
    /\ estimated' = estimated + 1
    /\ Settle(t, "answered")
    /\ blind' = blind + 1
    /\ UNCHANGED ledger

(* A rejection: inner.complete threw or timed out. *)
Fail(t) ==
    /\ Settle(t, "failed")
    /\ blind' = blind + 1
    /\ UNCHANGED <<ledger, estimated>>

(* Whatever the provider answers, it billed some input and some output. *)
Answer(t) ==
    /\ reqs[t].pc = "inflight"
    /\ \E input \in 0..(reqs[t].input + Overshoot), output \in 0..reqs[t].output :
           /\ billed' = [input |-> billed.input + input, output |-> billed.output + output]
           /\ AnswerWithUsage(t, input, output) \/ AnswerWithout(t) \/ Fail(t)
    /\ UNCHANGED <<clock, calls, refused, stopped, lastCall>>

Step(t) == Refuse(t) \/ Sleep(t) \/ SendAtOnce(t) \/ Wake(t) \/ Answer(t)

Next == Tick \/ \E t \in Requests : Complete(t) \/ Step(t)

(* Timers fire, and the adapter's own timeout answers for a silent provider. *)
Spec == Init /\ [][Next]_vars /\ WF_vars(Tick) /\ \A t \in Requests : WF_vars(Step(t))

----------------------------------------------------------------------------
(* Properties. *)

Request == [pc : {"none", "queued"} \cup Begun, input : Nat, output : Nat, until : Int]

TypeOK ==
    /\ clock \in Nat
    /\ ledger \in [input : Int, output : Int, spend : Int]
    /\ calls \in 0..MaxCalls /\ refused \in Nat /\ estimated \in Nat /\ stopped \in BOOLEAN
    /\ lastCall \in Int
    /\ reqs \in [Requests -> Request]
    /\ billed \in [input : Nat, output : Nat]
    /\ blind \in Nat

(* What the provider really billed stays within the caps, whatever it reports
   and however many requests are chained: beyond them goes only the error of
   the input estimate, of the last call and of each that reported no usage. *)
BudgetHolds ==
    /\ billed.output <= MaxOutput
    /\ billed.input <= MaxInput + Overshoot * (blind + 1)
    /\ CostOf(billed.input, billed.output) <= MaxSpend + PriceIn * (Overshoot * (blind + 1))

(* After the first refusal no call is sent, not even one that would fit: the
   request that was checked before it cannot still be waiting to be sent. *)
StopIsFinal == [][stopped => calls' = calls /\ stopped']_vars

(* Calls are sent one at a time, the interval apart, also when several requests
   were waiting and a timer is late. *)
CallsSpaced ==
    [][calls' # calls =>
           /\ clock >= lastCall + MinCallInterval
           /\ \A t \in Requests : reqs[t].pc # "inflight"]_vars

(* A request is answered, fails or is refused whatever became of those before
   it: a rejection does not break the chain. *)
EveryCallSettles ==
    \A t \in Requests : reqs[t].pc = "queued" ~> reqs[t].pc \in Settled
============================================================================
