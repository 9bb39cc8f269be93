------------------------- MODULE ModelBudgetProofs -------------------------
(***************************************************************************)
(* Proofs about ModelBudget, for every budget, price and length of the     *)
(* chain.  The inductive invariant is BudgetInv: the chain lets one        *)
(* request at a time past the checks, so what was checked still holds when *)
(* the request wakes and reserves, and the bill is behind the ledger by    *)
(* the whole reservation while the call is in flight.                      *)
(***************************************************************************)
EXTENDS ModelBudget, TLAPS

ChainOrdered ==
    \A s, t \in Requests :
        s < t /\ reqs[t].pc \in Begun => reqs[s].pc \in Settled

ActiveNotStopped == \A t \in Requests : reqs[t].pc \in Active => ~stopped

SpendCounted == ledger.spend = CostOf(ledger.input, ledger.output)

AsleepFits ==
    \A t \in Requests : reqs[t].pc = "asleep" =>
        /\ calls + 1 <= MaxCalls
        /\ ledger.input + reqs[t].input <= MaxInput
        /\ ledger.output + reqs[t].output <= MaxOutput
        /\ ledger.spend + CostOf(reqs[t].input, reqs[t].output) <= MaxSpend
        /\ reqs[t].until = lastCall + MinCallInterval

InflightFits ==
    \A t \in Requests : reqs[t].pc = "inflight" =>
        /\ ledger.input <= MaxInput
        /\ ledger.output <= MaxOutput
        /\ ledger.spend <= MaxSpend
        /\ billed.input + reqs[t].input <= ledger.input + Overshoot * blind
        /\ billed.output + reqs[t].output <= ledger.output

LedgerFits ==
    /\ ledger.input <= MaxInput + Overshoot
    /\ ledger.output <= MaxOutput
    /\ ledger.spend <= MaxSpend + PriceIn * Overshoot

BillCovered ==
    /\ billed.input <= ledger.input + Overshoot * blind
    /\ billed.output <= ledger.output

BudgetInv ==
    /\ TypeOK /\ ChainOrdered /\ ActiveNotStopped /\ SpendCounted
    /\ AsleepFits /\ InflightFits /\ LedgerFits /\ BillCovered

----------------------------------------------------------------------------
(* The cost is linear and grows with the tokens. *)

(* The constants a proof computes with are natural numbers. *)
LEMMA ConstantsAreNaturals ==
    /\ MaxRequests \in Nat /\ MaxCalls \in Nat /\ MaxInput \in Nat /\ MaxOutput \in Nat
    /\ MaxSpend \in Nat /\ MaxWall \in Nat /\ MinCallInterval \in Nat
    /\ PriceIn \in Nat /\ PriceOut \in Nat /\ Overshoot \in Nat /\ MaxClock \in Nat
BY BudgetAssumption

(* The cost is a whole number. *)
LEMMA CostType ==
    ASSUME NEW a \in Int, NEW b \in Int PROVE CostOf(a, b) \in Int
BY ConstantsAreNaturals DEF CostOf

(* More input costs its price. *)
LEMMA CostOfMoreInput ==
    ASSUME NEW a \in Int, NEW b \in Int, NEW c \in Int, NEW x \in Int, x = a + c
    PROVE  CostOf(x, b) = CostOf(a, b) + PriceIn * c
BY ConstantsAreNaturals DEF CostOf

(* More tokens never cost less. *)
LEMMA CostMonotone ==
    ASSUME NEW a \in Int, NEW b \in Int, NEW c \in Int, NEW d \in Int, a <= c, b <= d
    PROVE  CostOf(a, b) <= CostOf(c, d)
<1>1. ASSUME NEW p \in Nat, NEW x \in Int, NEW y \in Int, x <= y PROVE x * p <= y * p
    <2>1. ASSUME NEW n \in Nat PROVE n * p >= 0
        OBVIOUS
    <2>2. (y - x) * p >= 0
        BY <1>1, <2>1
    <2> QED BY <2>2
<1>2. a * PriceIn <= c * PriceIn
    BY <1>1, ConstantsAreNaturals
<1>3. b * PriceOut <= d * PriceOut
    BY <1>1, ConstantsAreNaturals
<1> QED BY <1>2, <1>3, ConstantsAreNaturals DEF CostOf

(* A call bills at most the cost of its reservation and of the overshoot. *)
LEMMA CostOfAnswer ==
    ASSUME NEW i \in Nat, NEW o \in Nat, NEW input \in 0..(i + Overshoot), NEW output \in 0..o
    PROVE  CostOf(input, output) <= CostOf(i, o) + PriceIn * Overshoot
<1>1. CostOf(input, output) <= CostOf(i + Overshoot, o)
    BY CostMonotone, ConstantsAreNaturals
<1>2. CostOf(i + Overshoot, o) = CostOf(i, o) + PriceIn * Overshoot
    BY CostOfMoreInput, ConstantsAreNaturals
<1> QED BY <1>1, <1>2

(* The estimate of a request is a natural number. *)
LEMMA InputWorstType ==
    ASSUME NEW chars \in Chars PROVE InputWorst(chars) \in Nat
BY BudgetAssumption DEF InputWorst

----------------------------------------------------------------------------
(* What the chain gives. *)

(* While a request is asleep or in flight no other one is. *)
LEMMA OneActive ==
    ASSUME BudgetInv, NEW t \in Requests, NEW s \in Requests,
           reqs[t].pc \in Active, reqs[s].pc \in Active
    PROVE  s = t
<1>1. t \in Int /\ s \in Int
    BY DEF Requests
<1>2. reqs[t].pc \in Begun \ Settled /\ reqs[s].pc \in Begun \ Settled
    BY DEF Active, Begun, Settled
<1>3. ~(s < t) /\ ~(t < s)
    BY <1>2 DEF BudgetInv, ChainOrdered
<1> QED BY <1>1, <1>3

(* When it is a request's turn all before it have settled and none is active. *)
LEMMA TurnMeans ==
    ASSUME BudgetInv, NEW t \in Requests, InTurn(t)
    PROVE  /\ \A s \in Requests : s < t => reqs[s].pc \in Settled
           /\ \A s \in Requests : reqs[s].pc \notin Active
           /\ reqs[t].pc = "queued"
<1>1. reqs[t].pc = "queued" /\ \A p \in Previous(t) : reqs[p].pc \in Settled
    BY DEF InTurn
<1>2. ASSUME NEW s \in Requests, s < t PROVE reqs[s].pc \in Settled
    <2>1. t - 1 \in Previous(t) /\ t - 1 \in Requests /\ s <= t - 1
        BY <1>2, ConstantsAreNaturals DEF Requests, Previous
    <2>2. reqs[t - 1].pc \in Settled
        BY <1>1, <2>1
    <2>3. CASE s = t - 1
        BY <2>2, <2>3
    <2>4. CASE s < t - 1
        BY <2>1, <2>2, <2>4 DEF BudgetInv, ChainOrdered, Begun
    <2> QED BY <2>1, <2>3, <2>4 DEF Requests
<1>3. ASSUME NEW s \in Requests, reqs[s].pc \in Active PROVE FALSE
    <2>1. reqs[s].pc \in Begun \ Settled
        BY <1>3 DEF Active, Begun, Settled
    <2>2. ~(s < t)
        BY <1>2, <2>1
    <2>3. s # t
        BY <1>1, <1>3 DEF Active
    <2>4. t < s
        BY <2>2, <2>3 DEF Requests
    <2>5. reqs[t].pc \in Settled
        BY <2>1, <2>4 DEF BudgetInv, ChainOrdered
    <2> QED BY <1>1, <2>5 DEF Settled
<1> QED BY <1>1, <1>2, <1>3

(* A request that begins or settles in its turn keeps the chain in order. *)
LEMMA MoveKeepsOrder ==
    ASSUME TypeOK, ChainOrdered, NEW t \in Requests, NEW rec \in Request,
           reqs' = [reqs EXCEPT ![t] = rec],
           rec.pc \in Begun => \A s \in Requests : s < t => reqs[s].pc \in Settled,
           reqs[t].pc \in Settled => rec.pc \in Settled
    PROVE  ChainOrdered'
<1>1. reqs \in [Requests -> Request]
    BY DEF TypeOK
<1>2. SUFFICES ASSUME NEW r \in Requests, NEW q \in Requests, r < q, reqs'[q].pc \in Begun
      PROVE reqs'[r].pc \in Settled
    BY DEF ChainOrdered
<1>3. r # q
    BY <1>2 DEF Requests
<1>4. CASE q = t
    BY <1>1, <1>2, <1>3, <1>4
<1>5. CASE q # t
    <2>1. reqs'[q] = reqs[q]
        BY <1>1, <1>5
    <2>2. reqs[r].pc \in Settled
        BY <1>2, <2>1 DEF ChainOrdered
    <2> QED BY <1>1, <2>2
<1> QED BY <1>4, <1>5

----------------------------------------------------------------------------
(* The steps. *)

(* The clock matters to no part of the invariant. *)
LEMMA TickKeepsInv == ASSUME BudgetInv, Tick PROVE BudgetInv'
BY DEF counters, BudgetInv, Tick, TypeOK, ChainOrdered, ActiveNotStopped, SpendCounted,
       AsleepFits, InflightFits, LedgerFits, BillCovered

(* A request that is neither asleep nor in flight adds nothing to a fit. *)
LEMMA QuietMoveKeepsFits ==
    ASSUME BudgetInv, NEW t \in Requests, NEW rec \in Request, rec.pc \notin Active,
           reqs' = [reqs EXCEPT ![t] = rec],
           UNCHANGED <<ledger, counters, lastCall, billed, blind>>
    PROVE  /\ ActiveNotStopped' /\ SpendCounted' /\ AsleepFits' /\ InflightFits'
           /\ LedgerFits' /\ BillCovered'
<1>1. reqs \in [Requests -> Request]
    BY DEF BudgetInv, TypeOK
<1>2. \A s \in Requests : reqs'[s].pc \in Active => reqs'[s] = reqs[s]
    BY <1>1
<1>3. \A s \in Requests : reqs'[s].pc = "asleep" => reqs'[s] = reqs[s]
    BY <1>2 DEF Active
<1>4. \A s \in Requests : reqs'[s].pc = "inflight" => reqs'[s] = reqs[s]
    BY <1>2 DEF Active
<1>5. ActiveNotStopped'
    BY <1>2 DEF BudgetInv, ActiveNotStopped, counters
<1>6. AsleepFits'
    BY <1>3 DEF BudgetInv, AsleepFits, counters
<1>7. InflightFits'
    BY <1>4 DEF BudgetInv, InflightFits
<1>8. SpendCounted' /\ LedgerFits' /\ BillCovered'
    BY DEF BudgetInv, SpendCounted, LedgerFits, BillCovered
<1> QED BY <1>5, <1>6, <1>7, <1>8

(* A request that joins the chain has not begun. *)
LEMMA CompleteKeepsInv ==
    ASSUME BudgetInv, NEW t \in Requests, Complete(t) PROVE BudgetInv'
<1>1. PICK chars \in Chars, output \in OutputCap :
          reqs' = [reqs EXCEPT ![t] = [pc |-> "queued", input |-> InputWorst(chars),
                                       output |-> output, until |-> 0]]
    BY DEF Complete
<1> DEFINE rec == [pc |-> "queued", input |-> InputWorst(chars), output |-> output, until |-> 0]
<1>2. rec \in Request /\ rec.pc \notin Begun
    BY InputWorstType, BudgetAssumption DEF Request, Begun, Settled, Active
<1>3. reqs[t].pc = "none" /\ UNCHANGED <<clock, ledger, counters, lastCall, billed, blind>>
    BY DEF Complete
<1>4. TypeOK'
    BY <1>1, <1>2, <1>3 DEF BudgetInv, TypeOK, counters
<1>5. ChainOrdered'
    BY <1>1, <1>2, <1>3, MoveKeepsOrder DEF BudgetInv, Settled
<1>6. rec.pc \notin Active
    BY <1>2 DEF Begun
<1> HIDE DEF rec
<1>7. reqs' = [reqs EXCEPT ![t] = rec]
    BY <1>1 DEF rec
<1>8. /\ ActiveNotStopped' /\ SpendCounted' /\ AsleepFits' /\ InflightFits'
      /\ LedgerFits' /\ BillCovered'
    BY <1>2, <1>3, <1>6, <1>7, QuietMoveKeepsFits
<1> QED BY <1>4, <1>5, <1>8 DEF BudgetInv

(* A refusal stops the trial while no other request is under way. *)
LEMMA RefuseKeepsInv ==
    ASSUME BudgetInv, NEW t \in Requests, Refuse(t) PROVE BudgetInv'
<1> DEFINE rec == [NoRequest EXCEPT !.pc = "refused"]
<1>1. rec \in Request /\ rec.pc \in Settled /\ rec.pc \notin Active
    BY DEF NoRequest, Request, Begun, Settled, Active
<1>2. /\ reqs' = [reqs EXCEPT ![t] = rec]
      /\ refused' = refused + 1 /\ stopped' = TRUE
      /\ UNCHANGED <<clock, ledger, calls, estimated, lastCall, billed, blind>>
      /\ InTurn(t)
    BY DEF Refuse, Settle
<1> HIDE DEF rec
<1>3. TypeOK'
    BY <1>1, <1>2 DEF BudgetInv, TypeOK, counters
<1>4. ChainOrdered'
    BY <1>1, <1>2, TurnMeans, MoveKeepsOrder DEF BudgetInv
<1>5. \A s \in Requests : reqs'[s].pc \notin Active
    BY <1>1, <1>2, TurnMeans DEF BudgetInv, TypeOK
<1>6. ActiveNotStopped' /\ AsleepFits' /\ InflightFits'
    BY <1>5 DEF ActiveNotStopped, AsleepFits, InflightFits, Active
<1>7. SpendCounted' /\ LedgerFits' /\ BillCovered'
    BY <1>2 DEF BudgetInv, SpendCounted, LedgerFits, BillCovered
<1> QED BY <1>3, <1>4, <1>6, <1>7 DEF BudgetInv

(* A request falls asleep with its worst case within the caps. *)
LEMMA SleepKeepsInv ==
    ASSUME BudgetInv, NEW t \in Requests, Sleep(t) PROVE BudgetInv'
<1> DEFINE rec == [pc |-> "asleep", input |-> reqs[t].input, output |-> reqs[t].output,
                   until |-> lastCall + MinCallInterval]
<1>1. reqs' = [reqs EXCEPT ![t] = rec] /\ UNCHANGED <<clock, ledger, counters, lastCall, billed, blind>>
      /\ InTurn(t) /\ ~Refused(t)
    BY DEF Sleep
<1>2. reqs \in [Requests -> Request] /\ reqs[t] \in Request /\ lastCall \in Int
    BY DEF BudgetInv, TypeOK
<1>3. /\ rec \in Request /\ rec.pc = "asleep"
      /\ rec.input = reqs[t].input /\ rec.output = reqs[t].output
      /\ rec.until = lastCall + MinCallInterval
    BY <1>2, ConstantsAreNaturals DEF Request, Begun, Active
<1> HIDE DEF rec
<1>4. TypeOK'
    BY <1>1, <1>3 DEF BudgetInv, TypeOK, counters
<1>5. ChainOrdered'
    BY <1>1, <1>3, TurnMeans, MoveKeepsOrder DEF BudgetInv, Settled
<1>6. \A s \in Requests : reqs'[s].pc \in Active => s = t
    BY <1>1, <1>2, TurnMeans
<1>7. reqs'[t] = rec
    BY <1>1, <1>2
<1>8. ActiveNotStopped'
    BY <1>1, <1>6 DEF ActiveNotStopped, Refused, counters
<1>9. AsleepFits'
    <2>1. \A s \in Requests : reqs'[s].pc = "asleep" => s = t
        BY <1>6 DEF Active
    <2>2. /\ calls + 1 <= MaxCalls
          /\ ledger.input + reqs[t].input <= MaxInput
          /\ ledger.output + reqs[t].output <= MaxOutput
          /\ ledger.spend + CostOf(reqs[t].input, reqs[t].output) <= MaxSpend
        <3>1. /\ calls \in Int /\ ledger.input \in Int /\ ledger.output \in Int
              /\ ledger.spend \in Int /\ reqs[t].input \in Int /\ reqs[t].output \in Int
            BY <1>2 DEF BudgetInv, TypeOK, Request
        <3>2. CostOf(reqs[t].input, reqs[t].output) \in Int
            BY <3>1, CostType
        <3> QED BY <1>1, <3>1, <3>2, ConstantsAreNaturals DEF Refused
    <2> QED BY <1>1, <1>3, <1>7, <2>1, <2>2 DEF AsleepFits, counters
<1>10. InflightFits'
    BY <1>3, <1>6, <1>7 DEF InflightFits, Active
<1>11. SpendCounted' /\ LedgerFits' /\ BillCovered'
    BY <1>1 DEF BudgetInv, SpendCounted, LedgerFits, BillCovered
<1> QED BY <1>4, <1>5, <1>8, <1>9, <1>10, <1>11 DEF BudgetInv

(* A request that is sent reserves its worst case, which fits. *)
LEMMA SendKeepsInv ==
    ASSUME BudgetInv, NEW t \in Requests, Send(t), ~stopped,
           \A s \in Requests : s < t => reqs[s].pc \in Settled,
           \A s \in Requests : s # t => reqs[s].pc \notin Active,
           reqs[t].pc \notin Settled,
           calls + 1 <= MaxCalls,
           ledger.input + reqs[t].input <= MaxInput,
           ledger.output + reqs[t].output <= MaxOutput,
           ledger.spend + CostOf(reqs[t].input, reqs[t].output) <= MaxSpend
    PROVE  BudgetInv'
<1> DEFINE i == reqs[t].input
           o == reqs[t].output
           rec == [reqs[t] EXCEPT !.pc = "inflight"]
<1>1. /\ reqs \in [Requests -> Request] /\ reqs[t] \in Request /\ i \in Nat /\ o \in Nat
      /\ i \in Int /\ o \in Int /\ ledger.input \in Int /\ ledger.output \in Int /\ ledger.spend \in Int
      /\ calls \in Nat /\ blind \in Nat /\ clock \in Nat
      /\ billed.input \in Nat /\ billed.output \in Nat
    BY ConstantsAreNaturals DEF BudgetInv, TypeOK, Request
<1> HIDE DEF i, o
<1>2. CostOf(i, o) \in Int
    BY <1>1, CostType
<1>3. /\ reqs' = [reqs EXCEPT ![t] = rec]
      /\ lastCall' = clock /\ calls' = calls + 1
      /\ ledger' = [input |-> ledger.input + i, output |-> ledger.output + o,
                    spend |-> ledger.spend + CostOf(i, o)]
      /\ UNCHANGED <<clock, refused, estimated, stopped, billed, blind>>
    BY DEF Send, Reserved, i, o
<1>4. rec \in Request /\ rec.pc = "inflight" /\ rec.input = i /\ rec.output = o
    BY <1>1 DEF Request, Begun, Active, i, o
<1>5. reqs' \in [Requests -> Request] /\ reqs'[t] = rec
      /\ \A s \in Requests : s # t => reqs'[s] = reqs[s]
    BY <1>1, <1>3, <1>4
<1> HIDE DEF rec
<1>6. ledger' \in [input : Int, output : Int, spend : Int]
    BY <1>1, <1>2, <1>3
<1>7. TypeOK'
    BY <1>1, <1>3, <1>5, <1>6, ConstantsAreNaturals DEF BudgetInv, TypeOK
<1>8. ChainOrdered'
    BY <1>3, <1>4, MoveKeepsOrder DEF BudgetInv
<1>9. \A s \in Requests : reqs'[s].pc \in Active => s = t
    BY <1>5
<1>10. ActiveNotStopped' /\ AsleepFits'
    BY <1>3, <1>4, <1>5, <1>9 DEF ActiveNotStopped, AsleepFits, Active
<1>11. SpendCounted'
    <2>1. /\ ledger'.input \in Int /\ ledger'.input = ledger.input + i
          /\ ledger'.output \in Int /\ ledger'.output = ledger.output + o
          /\ ledger'.spend = ledger.spend + CostOf(i, o)
        BY <1>3, <1>6
    <2>2. CostOf(ledger'.input, ledger'.output)
              = CostOf(ledger.input, ledger.output) + CostOf(i, o)
        BY <1>1, <2>1, ConstantsAreNaturals DEF CostOf
    <2>3. CostOf(ledger'.input, ledger'.output) = ledger'.spend
        BY <2>1, <2>2 DEF BudgetInv, SpendCounted
    <2> QED BY <2>3 DEF SpendCounted, CostOf
<1>12. /\ ledger'.input <= MaxInput /\ ledger'.output <= MaxOutput
       /\ ledger'.spend <= MaxSpend
    BY <1>3 DEF i, o
<1>13. /\ billed'.input + i <= ledger'.input + Overshoot * blind'
       /\ billed'.output + o <= ledger'.output
    <2>1. Overshoot * blind \in Int
        BY <1>1, ConstantsAreNaturals
    <2> QED BY <1>1, <1>3, <2>1 DEF BudgetInv, BillCovered
<1>14. InflightFits'
    <2>1. \A s \in Requests : reqs'[s].pc = "inflight" => s = t
        BY <1>9 DEF Active
    <2> QED BY <1>4, <1>5, <1>12, <1>13, <2>1 DEF InflightFits
<1>15. LedgerFits' /\ BillCovered'
    <2>1. /\ Overshoot * blind' \in Int /\ PriceIn * Overshoot \in Nat
          /\ ledger'.input \in Int /\ ledger'.output \in Int /\ ledger'.spend \in Int
          /\ billed'.input \in Int /\ billed'.output \in Int
        BY <1>1, <1>3, <1>6, ConstantsAreNaturals
    <2> QED BY <1>1, <1>12, <1>13, <2>1, ConstantsAreNaturals DEF LedgerFits, BillCovered
<1> QED BY <1>7, <1>8, <1>10, <1>11, <1>14, <1>15 DEF BudgetInv

(* Sending at once: the checks have just passed and no other request is active. *)
LEMMA SendAtOnceKeepsInv ==
    ASSUME BudgetInv, NEW t \in Requests, SendAtOnce(t) PROVE BudgetInv'
<1>1. InTurn(t) /\ ~Refused(t) /\ Send(t)
    BY DEF SendAtOnce
<1>2. /\ calls \in Int /\ ledger.input \in Int /\ ledger.output \in Int
      /\ ledger.spend \in Int /\ reqs[t].input \in Int /\ reqs[t].output \in Int
    BY DEF BudgetInv, TypeOK, Request
<1>3. CostOf(reqs[t].input, reqs[t].output) \in Int
    BY <1>2, CostType
<1>4. /\ calls + 1 <= MaxCalls
      /\ ledger.input + reqs[t].input <= MaxInput
      /\ ledger.output + reqs[t].output <= MaxOutput
      /\ ledger.spend + CostOf(reqs[t].input, reqs[t].output) <= MaxSpend
      /\ ~stopped
    BY <1>1, <1>2, <1>3, ConstantsAreNaturals DEF Refused
<1>5. reqs[t].pc \notin Settled
    BY <1>1, TurnMeans DEF Settled
<1> QED BY <1>1, <1>4, <1>5, TurnMeans, SendKeepsInv

(* Waking: what was checked before the sleep still holds. *)
LEMMA WakeKeepsInv ==
    ASSUME BudgetInv, NEW t \in Requests, Wake(t) PROVE BudgetInv'
<1>1. reqs[t].pc = "asleep" /\ Send(t)
    BY DEF Wake
<1>2. reqs[t].pc \in Active /\ reqs[t].pc \in Begun /\ reqs[t].pc \notin Settled
    BY <1>1 DEF Active, Begun, Settled
<1>3. \A s \in Requests : s < t => reqs[s].pc \in Settled
    BY <1>2 DEF BudgetInv, ChainOrdered
<1>4. \A s \in Requests : s # t => reqs[s].pc \notin Active
    BY <1>2, OneActive
<1>5. /\ calls + 1 <= MaxCalls
      /\ ledger.input + reqs[t].input <= MaxInput
      /\ ledger.output + reqs[t].output <= MaxOutput
      /\ ledger.spend + CostOf(reqs[t].input, reqs[t].output) <= MaxSpend
    BY <1>1 DEF BudgetInv, AsleepFits
<1>6. ~stopped
    BY <1>2 DEF BudgetInv, ActiveNotStopped
<1> QED BY <1>1, <1>2, <1>3, <1>4, <1>5, <1>6, SendKeepsInv

(* Whatever is answered, the bill grows by no more than the reservation, which
   the ledger keeps or replaces by that bill, and the overshoot. *)
LEMMA AnswerKeepsInv ==
    ASSUME BudgetInv, NEW t \in Requests, Answer(t) PROVE BudgetInv'
<1> DEFINE i == reqs[t].input
           o == reqs[t].output
<1>1. PICK input \in 0..(reqs[t].input + Overshoot), output \in 0..reqs[t].output :
          /\ billed' = [input |-> billed.input + input, output |-> billed.output + output]
          /\ AnswerWithUsage(t, input, output) \/ AnswerWithout(t) \/ Fail(t)
    BY DEF Answer
<1>2. /\ reqs[t].pc = "inflight"
      /\ UNCHANGED <<clock, calls, refused, stopped, lastCall>>
    BY DEF Answer
<1>3. /\ reqs \in [Requests -> Request] /\ i \in Nat /\ o \in Nat
      /\ ledger.input \in Int /\ ledger.output \in Int /\ ledger.spend \in Int
      /\ blind \in Nat /\ estimated \in Nat /\ billed.input \in Nat /\ billed.output \in Nat
    BY DEF BudgetInv, TypeOK, Request
<1>4. /\ ledger.input <= MaxInput /\ ledger.output <= MaxOutput /\ ledger.spend <= MaxSpend
      /\ billed.input + i <= ledger.input + Overshoot * blind
      /\ billed.output + o <= ledger.output
    BY <1>2 DEF BudgetInv, InflightFits
<1>5. input \in Nat /\ output \in Nat /\ input <= i + Overshoot /\ output <= o
    BY <1>1, <1>3, ConstantsAreNaturals
<1>6. /\ CostOf(input, output) \in Int /\ CostOf(i, o) \in Int
      /\ CostOf(input, output) <= CostOf(i, o) + PriceIn * Overshoot
    <2> HIDE DEF i, o
    <2>1. input \in Int /\ output \in Int /\ i \in Int /\ o \in Int
        BY <1>3, <1>5
    <2>2. input \in 0..(i + Overshoot) /\ output \in 0..o
        BY <1>3, <1>5, ConstantsAreNaturals
    <2>3. CostOf(input, output) \in Int /\ CostOf(i, o) \in Int
        BY <2>1, CostType
    <2>4. CostOf(input, output) <= CostOf(i, o) + PriceIn * Overshoot
        BY <1>3, <2>2, CostOfAnswer
    <2> QED BY <2>3, <2>4
<1>7. billed' \in [input : Nat, output : Nat]
    BY <1>1, <1>3, <1>5
<1>8. PICK pc \in {"answered", "failed"} : Settle(t, pc)
    BY <1>1 DEF AnswerWithUsage, AnswerWithout, Fail
<1> DEFINE rec == [NoRequest EXCEPT !.pc = pc]
<1>9. /\ rec \in Request /\ rec.pc \in Settled /\ rec.pc \notin Active
      /\ reqs' = [reqs EXCEPT ![t] = rec]
    BY <1>8 DEF NoRequest, Request, Begun, Settled, Active, Settle
<1> HIDE DEF rec, i, o
<1>10. reqs' \in [Requests -> Request]
    BY <1>3, <1>9
<1>11. ChainOrdered'
    <2>1. \A s \in Requests : s < t => reqs[s].pc \in Settled
        BY <1>2 DEF BudgetInv, ChainOrdered, Begun, Active
    <2> QED BY <1>9, <2>1, MoveKeepsOrder DEF BudgetInv
<1>12. \A s \in Requests : reqs'[s].pc \notin Active
    <2>1. \A s \in Requests : s # t => reqs[s].pc \notin Active
        BY <1>2, OneActive DEF Active
    <2> QED BY <1>3, <1>9, <2>1
<1>13. ActiveNotStopped' /\ AsleepFits' /\ InflightFits'
    BY <1>12 DEF ActiveNotStopped, AsleepFits, InflightFits, Active
<1>14. Overshoot * (blind + 1) = Overshoot * blind + Overshoot
       /\ Overshoot * blind \in Int /\ Overshoot \in Nat /\ PriceIn * Overshoot \in Nat
    BY <1>3, ConstantsAreNaturals
<1>15. CASE AnswerWithUsage(t, input, output)
    <2>1. /\ ledger' = [input |-> ledger.input + (input - i),
                        output |-> ledger.output + (output - o),
                        spend |-> ledger.spend + (CostOf(input, output) - CostOf(i, o))]
          /\ UNCHANGED <<estimated, blind>>
        BY <1>15 DEF AnswerWithUsage, Replaced, i, o
    <2>2. ledger' \in [input : Int, output : Int, spend : Int]
        BY <1>3, <1>5, <1>6, <2>1
    <2>3. /\ ledger'.input = ledger.input + (input - i) /\ ledger'.input \in Int
          /\ ledger'.output = ledger.output + (output - o) /\ ledger'.output \in Int
          /\ ledger'.spend = ledger.spend + (CostOf(input, output) - CostOf(i, o))
        BY <2>1, <2>2
    <2>4. TypeOK'
        BY <1>2, <1>7, <1>10, <2>1, <2>2 DEF BudgetInv, TypeOK
    <2>5. SpendCounted'
        <3>1. CostOf(ledger'.input, ledger'.output)
                  = CostOf(ledger.input, ledger.output) + (CostOf(input, output) - CostOf(i, o))
            BY <1>3, <1>5, <2>3, ConstantsAreNaturals DEF CostOf
        <3> QED BY <2>3, <3>1 DEF BudgetInv, SpendCounted, CostOf
    <2>6. LedgerFits'
        BY <1>3, <1>4, <1>5, <1>6, <1>14, <2>3, ConstantsAreNaturals DEF LedgerFits
    <2>7. BillCovered'
        BY <1>1, <1>3, <1>4, <1>5, <1>14, <2>1, <2>3 DEF BillCovered
    <2> QED BY <1>11, <1>13, <2>4, <2>5, <2>6, <2>7 DEF BudgetInv
<1>16. CASE AnswerWithout(t) \/ Fail(t)
    <2>1. /\ UNCHANGED ledger /\ blind' = blind + 1
          /\ estimated' \in {estimated, estimated + 1}
        BY <1>16 DEF AnswerWithout, Fail
    <2>2. TypeOK'
        BY <1>2, <1>3, <1>7, <1>10, <2>1 DEF BudgetInv, TypeOK
    <2>3. SpendCounted' /\ LedgerFits'
        BY <2>1 DEF BudgetInv, SpendCounted, LedgerFits
    <2>4. BillCovered'
        BY <1>1, <1>3, <1>4, <1>5, <1>14, <2>1 DEF BillCovered
    <2> QED BY <1>11, <1>13, <2>2, <2>3, <2>4 DEF BudgetInv
<1> QED BY <1>1, <1>15, <1>16

----------------------------------------------------------------------------
(* The theorems. *)

(* At the start nothing is reserved, billed or under way. *)
LEMMA InitEstablishesInv == ASSUME Init PROVE BudgetInv
<1>1. TypeOK
    <2>1. NoRequest \in Request
        BY DEF NoRequest, Request
    <2>2. reqs \in [Requests -> Request]
        BY <2>1 DEF Init
    <2>3. lastCall \in Int /\ calls \in 0..MaxCalls
        BY ConstantsAreNaturals DEF Init
    <2>4. ledger \in [input : Int, output : Int, spend : Int] /\ billed \in [input : Nat, output : Nat]
        BY DEF Init
    <2> QED BY <2>2, <2>3, <2>4 DEF Init, TypeOK
<1>2. \A t \in Requests : reqs[t].pc = "none"
    BY DEF Init, NoRequest
<1>3. ChainOrdered /\ ActiveNotStopped /\ AsleepFits /\ InflightFits
    BY <1>2 DEF ChainOrdered, ActiveNotStopped, AsleepFits, InflightFits, Begun, Settled, Active
<1>4. SpendCounted
    BY ConstantsAreNaturals DEF Init, SpendCounted, CostOf
<1>5. LedgerFits /\ BillCovered
    <2>1. PriceIn * Overshoot \in Nat /\ Overshoot * blind = 0
        BY ConstantsAreNaturals DEF Init
    <2> QED BY <2>1, ConstantsAreNaturals DEF Init, LedgerFits, BillCovered
<1> QED BY <1>1, <1>3, <1>4, <1>5 DEF BudgetInv

(* Every step of the provider's wrapper keeps BudgetInv. *)
LEMMA NextKeepsInv == ASSUME BudgetInv, [Next]_vars PROVE BudgetInv'
<1>1. CASE Tick
    BY <1>1, TickKeepsInv
<1>2. ASSUME NEW t \in Requests, Complete(t) PROVE BudgetInv'
    BY <1>2, CompleteKeepsInv
<1>3. ASSUME NEW t \in Requests, Step(t) PROVE BudgetInv'
    BY <1>3, RefuseKeepsInv, SleepKeepsInv, SendAtOnceKeepsInv, WakeKeepsInv, AnswerKeepsInv DEF Step
<1>4. CASE UNCHANGED vars
    BY <1>4 DEF vars, counters, BudgetInv, TypeOK, ChainOrdered, ActiveNotStopped, SpendCounted,
                AsleepFits, InflightFits, LedgerFits, BillCovered
<1> QED BY <1>1, <1>2, <1>3, <1>4 DEF Next

(* BudgetInv holds throughout a trial, whatever its budget. *)
THEOREM BudgetInvariant == Spec => []BudgetInv
<1>1. Init => BudgetInv
    BY InitEstablishesInv
<1>2. BudgetInv /\ [Next]_vars => BudgetInv'
    BY NextKeepsInv
<1> QED BY <1>1, <1>2, PTL DEF Spec

(* Type correctness of BudgetedProvider, with at most maxCalls calls sent. *)
THEOREM BudgetTypes == Spec => []TypeOK
<1>1. BudgetInv => TypeOK
    BY DEF BudgetInv
<1> QED BY <1>1, BudgetInvariant, PTL

(* The caps hold for the bill, up to the error of the estimates: what
   BudgetedProvider promises of every trial. *)
THEOREM BillStaysWithinBudget == Spec => []BudgetHolds
<1>1. ASSUME BudgetInv PROVE BudgetHolds
    <2> DEFINE extra == Overshoot * blind
               x == ledger.input + extra
    <2>1. /\ ledger.input \in Int /\ ledger.output \in Int /\ ledger.spend \in Int
          /\ billed.input \in Int /\ billed.output \in Int /\ blind \in Nat
        BY <1>1 DEF BudgetInv, TypeOK
    <2>2. /\ billed.input <= x /\ billed.output <= ledger.output
          /\ ledger.input <= MaxInput + Overshoot /\ ledger.output <= MaxOutput
          /\ ledger.spend <= MaxSpend + PriceIn * Overshoot
          /\ ledger.spend = CostOf(ledger.input, ledger.output)
        BY <1>1 DEF BudgetInv, LedgerFits, BillCovered, SpendCounted
    <2>3. extra \in Int /\ x \in Int /\ Overshoot * (blind + 1) = Overshoot + extra
        BY <2>1, ConstantsAreNaturals
    <2>4. PriceIn * (Overshoot * (blind + 1)) = PriceIn * Overshoot + PriceIn * extra
        BY <2>3, ConstantsAreNaturals
    <2> HIDE DEF extra
    <2>5. CostOf(x, ledger.output) = CostOf(ledger.input, ledger.output) + PriceIn * extra
        BY <2>1, <2>3, ConstantsAreNaturals DEF CostOf
    <2> HIDE DEF x
    <2>6. CostOf(billed.input, billed.output) <= CostOf(x, ledger.output)
        BY <2>1, <2>2, <2>3, CostMonotone
    <2>7. /\ CostOf(billed.input, billed.output) \in Int /\ CostOf(x, ledger.output) \in Int
          /\ PriceIn * extra \in Int /\ PriceIn * Overshoot \in Int
        <3>1. CostOf(billed.input, billed.output) \in Int /\ CostOf(x, ledger.output) \in Int
            BY <2>1, <2>3, CostType
        <3>2. PriceIn * extra \in Int /\ PriceIn * Overshoot \in Int
            BY <2>3, ConstantsAreNaturals
        <3> QED BY <3>1, <3>2
    <2>8. CostOf(billed.input, billed.output) <= MaxSpend + PriceIn * (Overshoot * (blind + 1))
        BY <2>1, <2>2, <2>4, <2>5, <2>6, <2>7, ConstantsAreNaturals
    <2>9. billed.input <= MaxInput + Overshoot * (blind + 1)
        BY <2>1, <2>2, <2>3, ConstantsAreNaturals DEF x
    <2> QED BY <2>1, <2>2, <2>8, <2>9, ConstantsAreNaturals DEF BudgetHolds
<1> QED BY <1>1, BudgetInvariant, PTL

(* No call after the first refusal, of a request that waited meanwhile either. *)
THEOREM NothingSentAfterStop == Spec => StopIsFinal
<1>1. ASSUME BudgetInv, [Next]_vars, stopped PROVE calls' = calls /\ stopped'
    <2>1. ASSUME NEW t \in Requests, Step(t) PROVE calls' = calls /\ stopped'
        <3>1. CASE Refuse(t)
            BY <1>1, <3>1 DEF Refuse
        <3>2. CASE Sleep(t) \/ SendAtOnce(t)
            BY <1>1, <3>2 DEF Sleep, SendAtOnce, Refused
        <3>3. CASE Wake(t)
            BY <1>1, <3>3 DEF Wake, BudgetInv, ActiveNotStopped, Active
        <3>4. CASE Answer(t)
            BY <1>1, <3>4 DEF Answer
        <3> QED BY <2>1, <3>1, <3>2, <3>3, <3>4 DEF Step
    <2>2. CASE Tick
        BY <1>1, <2>2 DEF Tick, counters
    <2>3. ASSUME NEW t \in Requests, Complete(t) PROVE calls' = calls /\ stopped'
        BY <1>1, <2>3 DEF Complete, counters
    <2>4. CASE UNCHANGED vars
        BY <1>1, <2>4 DEF vars, counters
    <2> QED BY <1>1, <2>1, <2>2, <2>3, <2>4 DEF Next
<1> QED BY <1>1, BudgetInvariant, PTL DEF Spec, StopIsFinal

(* Calls go out one at a time and the interval apart, however late the timers. *)
THEOREM CallsAreSpaced == Spec => CallsSpaced
<1>1. ASSUME BudgetInv, [Next]_vars, calls' # calls
      PROVE  /\ clock >= lastCall + MinCallInterval
             /\ \A t \in Requests : reqs[t].pc # "inflight"
    <2>1. PICK t \in Requests : SendAtOnce(t) \/ Wake(t)
        BY <1>1 DEF Next, Step, Tick, Complete, Refuse, Sleep, Answer, vars, counters
    <2>2. clock \in Int /\ lastCall \in Int
        BY <1>1 DEF BudgetInv, TypeOK
    <2>3. CASE SendAtOnce(t)
        <3>1. clock >= lastCall + MinCallInterval
            BY <2>2, <2>3, ConstantsAreNaturals DEF SendAtOnce, MustWait
        <3>2. \A s \in Requests : reqs[s].pc # "inflight"
            BY <1>1, <2>3, TurnMeans DEF SendAtOnce, Active
        <3> QED BY <3>1, <3>2
    <2>4. CASE Wake(t)
        <3>1. reqs[t].pc = "asleep" /\ clock >= reqs[t].until
            BY <2>4 DEF Wake
        <3>2. reqs[t].until = lastCall + MinCallInterval
            BY <1>1, <3>1 DEF BudgetInv, AsleepFits
        <3>3. \A s \in Requests : reqs[s].pc # "inflight"
            BY <1>1, <3>1, OneActive DEF Active
        <3> QED BY <3>1, <3>2, <3>3
    <2> QED BY <2>1, <2>3, <2>4
<1> QED BY <1>1, BudgetInvariant, PTL DEF Spec, CallsSpaced
============================================================================
