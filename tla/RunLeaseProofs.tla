-------------------------- MODULE RunLeaseProofs --------------------------
(***************************************************************************)
(* Proofs about RunLease, for every set of runs, workers and hosts, every  *)
(* retry budget, every bound on the clock and every lag of a statement     *)
(* behind its handler.                                                     *)
(*                                                                         *)
(* The lease properties are not inductive alone: that a claim keeps within *)
(* the retry budget needs LeaseShape (a queued run has spent nothing), and *)
(* that an old token never matches again needs every stored and granted    *)
(* token to be at most `minted`.  LeaseInv collects what is inductive.     *)
(***************************************************************************)
EXTENDS RunLease, TLAPS

(* Tokens stay below the mint and name one grant each; a run that was granted
   has left the queue, within the attempts its row counts. *)
GrantShape ==
    /\ \A r \in Run : runs[r].token <= minted
    /\ \A g \in grants : /\ 0 < g.token /\ g.token <= minted
                         /\ g.attempt <= runs[g.run].attempt
    /\ \A g, h \in grants : g.token = h.token => g = h

LeaseInv ==
    /\ TypeOK
    /\ LeaseShape
    /\ GrantShape
    /\ AttemptAccounting
    /\ LastLeaseRules

----------------------------------------------------------------------------
(* A row accepted by CLAIMABLE has an attempt left, whichever disjunct it
   satisfies: the guard of the bounded retry in claimNextRun and claimRunById. *)
LEMMA ClaimableHasAttemptLeft ==
    ASSUME LeaseInv, NEW r \in Run, NEW at \in Nat, Claimable(runs[r], at)
    PROVE  /\ runs[r] \in Row
           /\ runs[r].attempt < MAX_RUN_ATTEMPTS
           /\ runs[r].state \in {"queued", "running"}
BY StoreAssumption DEF LeaseInv, TypeOK, LeaseShape, Claimable, Row

(* An eligible run is claimable and its host idle at the claimer's instant. *)
LEMMA EligibleMeans ==
    ASSUME NEW p, NEW rev, NEW at, NEW r \in Eligible(runs, p, rev, at)
    PROVE  r \in Run /\ Claimable(runs[r], at) /\ HostIdle(runs, r, at)
BY DEF Eligible

(* Oldest only selects. *)
LEMMA OldestMeans ==
    ASSUME NEW S, NEW r \in Oldest(S)
    PROVE  r \in S
BY DEF Oldest

(* Every claim, by whichever handler, is a Take of a claimable run on an idle
   host, at an instant its handler may have read. *)
LEMMA ClaimIsTake ==
    ASSUME NEW w \in Worker, ClaimNextRun(w) \/ \E r \in Run : ClaimRunById(w, r)
    PROVE  \E r \in Run, at \in Readable, len \in LeaseSeconds :
               Claimable(runs[r], at) /\ HostIdle(runs, r, at) /\ Take(r, w, at, len)
<1>1. CASE ClaimNextRun(w)
    <2>1. PICK at \in Readable, len \in LeaseSeconds :
              \E r \in Oldest(Eligible(runs, WorkerProvider[w], WorkerRevision[w], at)) :
                  Take(r, w, at, len)
        BY <1>1 DEF ClaimNextRun
    <2>2. PICK r \in Oldest(Eligible(runs, WorkerProvider[w], WorkerRevision[w], at)) :
              Take(r, w, at, len)
        BY <2>1
    <2>3. r \in Eligible(runs, WorkerProvider[w], WorkerRevision[w], at)
        BY <2>2, OldestMeans
    <2>. QED
        BY <2>2, <2>3, EligibleMeans
<1>2. CASE \E r \in Run : ClaimRunById(w, r)
    <2>1. PICK r \in Run, at \in Readable, len \in LeaseSeconds :
              /\ r \in Eligible(runs, WorkerProvider[w], AnyRevision, at)
              /\ Take(r, w, at, len)
        BY <1>2 DEF ClaimRunById
    <2>. QED
        BY <2>1, EligibleMeans
<1>. QED
    BY <1>1, <1>2

(* The steps of Next by what they do to the table: the form in which the
   theorems below take a step apart. *)
LEMMA StepCases ==
    ASSUME [Next]_vars
    PROVE  \/ \E r \in Run, w \in Worker, at \in Readable, len \in LeaseSeconds :
                  Claimable(runs[r], at) /\ HostIdle(runs, r, at) /\ Take(r, w, at, len)
           \/ \E g \in grants : RenewLease(g)
           \/ \E g \in grants, outcome \in Outcome : FinishLeasedRun(g, outcome)
           \/ \E r \in Run : RequestRun(r)
           \/ \E r \in Run : CancelRun(r)
           \/ Tick
           \/ UNCHANGED vars
BY ClaimIsTake DEF Next

----------------------------------------------------------------------------
(* Granting a lease keeps the invariant. *)
LEMMA TakeKeepsInv ==
    ASSUME LeaseInv, NEW r \in Run, NEW w \in Worker, NEW at \in Readable,
           NEW len \in LeaseSeconds, Claimable(runs[r], at), Take(r, w, at, len)
    PROVE  LeaseInv'
<1> DEFINE until == at + len
           n == runs[r].attempt + 1
           g0 == [run |-> r, worker |-> w, token |-> minted + 1, attempt |-> n]
           row == [state |-> "running", worker |-> w, token |-> minted + 1,
                   expires |-> until, attempt |-> n]
<1>1. at \in Nat /\ clock \in Nat /\ minted \in Nat /\ until \in Nat
    BY LeaseAssumption DEF Readable, LeaseInv, TypeOK
<1>2. /\ runs[r] \in Row
      /\ runs[r].attempt < MAX_RUN_ATTEMPTS
      /\ runs[r].state \in {"queued", "running"}
    BY <1>1, ClaimableHasAttemptLeft
<1>3. n \in 1..MAX_RUN_ATTEMPTS
    BY <1>2, StoreAssumption DEF Row
<1>4. /\ runs' = [runs EXCEPT ![r] = row]
      /\ minted' = minted + 1
      /\ grants' = grants \cup {g0}
      /\ UNCHANGED clock
    <2>1. Claimed(runs[r], w, minted + 1, at + len) = row
        BY DEF Claimed
    <2>2. row.attempt = n
        OBVIOUS
    <2>3. [run |-> r, worker |-> w, token |-> minted + 1, attempt |-> row.attempt] = g0
        BY <2>2
    <2> HIDE DEF row, g0, n
    <2>4. /\ runs' = [runs EXCEPT ![r] = row]
          /\ minted' = minted + 1
          /\ UNCHANGED clock
        BY <2>1 DEF Take
    <2>5. grants' = grants \cup {[run |-> r, worker |-> w, token |-> minted + 1,
                                  attempt |-> row.attempt]}
        BY <2>1 DEF Take
    <2>. QED
        BY <2>3, <2>4, <2>5
<1> HIDE DEF until, n
<1>5. row \in Row
    BY <1>1, <1>3 DEF Row, RunState
<1>6. TypeOK'
    BY <1>1, <1>3, <1>4, <1>5 DEF LeaseInv, TypeOK, Grant
<1>7. /\ runs'[r] = row
      /\ \A o \in Run : o # r => runs'[o] = runs[o]
    BY <1>4 DEF LeaseInv, TypeOK
<1>8. LeaseShape'
    BY <1>1, <1>3, <1>7, StoreAssumption DEF LeaseInv, LeaseShape, NoToken, NoExpiry
<1>9. \A g \in grants : g \in Grant
    BY DEF LeaseInv, TypeOK
<1>10. GrantShape'
    <2>1. \A o \in Run : (runs[o].token <= minted)'
        BY <1>1, <1>4, <1>7 DEF LeaseInv, GrantShape, TypeOK, Row
    <2>2. \A g \in grants' : (/\ 0 < g.token /\ g.token <= minted
                              /\ g.attempt <= runs[g.run].attempt)'
        BY <1>1, <1>2, <1>3, <1>4, <1>7, <1>9 DEF LeaseInv, GrantShape, Grant, Row, n
    <2>3. \A g, h \in grants' : g.token = h.token => g = h
        BY <1>1, <1>4, <1>9 DEF LeaseInv, GrantShape, Grant
    <2>. QED
        BY <2>1, <2>2, <2>3 DEF GrantShape
<1>11. AttemptAccounting'
    <2>1. \A o \in Run : ({g.attempt : g \in {h \in grants : h.run = o}}
                              = 1..runs[o].attempt)'
        <3>1. SUFFICES ASSUME NEW o \in Run
                       PROVE  {g.attempt : g \in {h \in grants' : h.run = o}}
                                  = 1..runs'[o].attempt
            OBVIOUS
        <3>2. {g.attempt : g \in {h \in grants : h.run = o}} = 1..runs[o].attempt
            BY DEF LeaseInv, AttemptAccounting
        <3>3. CASE o # r
            <4>1. {h \in grants' : h.run = o} = {h \in grants : h.run = o}
                BY <1>4, <3>3
            <4>. QED
                BY <1>7, <3>2, <3>3, <4>1
        <3>4. CASE o = r
            <4>1. {h \in grants' : h.run = o} = {h \in grants : h.run = o} \cup {g0}
                BY <1>4, <3>4
            <4>2. {g.attempt : g \in {h \in grants' : h.run = o}}
                      = {g.attempt : g \in {h \in grants : h.run = o}} \cup {n}
                <5>1. g0.attempt = n
                    OBVIOUS
                <5> HIDE DEF g0
                <5>2. \A S : {g.attempt : g \in S \cup {g0}}
                                = {g.attempt : g \in S} \cup {g0.attempt}
                    OBVIOUS
                <5>. QED
                    BY <4>1, <5>1, <5>2
            <4>3. runs'[o].attempt = n /\ runs[o].attempt = n - 1 /\ n \in Nat
                BY <1>2, <1>3, <1>7, <3>4 DEF Row, n
            <4>4. n \in Nat \ {0}
                BY <1>3
            <4>5. 1..n = (1..(n - 1)) \cup {n}
                <5>1. \A m : m \in Nat \ {0} => 1..m = (1..(m - 1)) \cup {m}
                    OBVIOUS
                <5>. QED
                    BY <4>4, <5>1
            <4>. QED
                BY <3>2, <4>2, <4>3, <4>5
        <3>. QED
            BY <3>3, <3>4
    <2>2. \A g, h \in grants' : g.run = h.run /\ g.attempt = h.attempt => g = h
        <3>1. \A g \in grants : g.run = r => g.attempt < n
            BY <1>2, <1>9 DEF LeaseInv, GrantShape, Row, Grant, n
        <3>2. \A g, h \in grants : g.run = h.run /\ g.attempt = h.attempt => g = h
            BY DEF LeaseInv, AttemptAccounting
        <3>. QED
            BY <1>3, <1>4, <1>9, <3>1, <3>2 DEF Grant
    <2>. QED
        BY <2>1, <2>2 DEF AttemptAccounting
<1>12. LastLeaseRules'
    <2>1. SUFFICES ASSUME NEW o \in Run, runs'[o].state = "running"
                   PROVE  \E g \in grants' : /\ g.run = o
                                             /\ runs'[g.run].token = g.token
                                             /\ g.worker = runs'[o].worker
                                             /\ g.attempt = runs'[o].attempt
        BY DEF LastLeaseRules, Current
    <2>2. CASE o = r
        <3>1. /\ g0 \in grants' /\ g0.run = o /\ g0.worker = w
              /\ g0.token = minted + 1 /\ g0.attempt = n
            BY <1>4, <2>2
        <3>2. runs'[o].token = minted + 1 /\ runs'[o].worker = w /\ runs'[o].attempt = n
            BY <1>7, <2>2
        <3> HIDE DEF g0, row
        <3>. QED
            BY <3>1, <3>2
    <2>3. CASE o # r
        BY <1>4, <1>7, <2>1, <2>3 DEF LeaseInv, LastLeaseRules, Current
    <2>. QED
        BY <2>2, <2>3
<1>. QED
    BY <1>6, <1>8, <1>10, <1>11, <1>12 DEF LeaseInv

(* A statement that rewrites one row without granting anything: the row it
   writes has the shape its state calls for, keeps its attempt count and either
   keeps or drops its lease. *)
KeepsLease(r, row) ==
    /\ row.state = "running" /\ runs[r].state = "running"
    /\ row.token = runs[r].token /\ row.worker = runs[r].worker
    /\ row.expires # NoExpiry

DropsLease(row) ==
    /\ row.state \in {"queued"} \cup Terminal
    /\ row.state = "queued" => row.attempt = 0
    /\ row.token = NoToken /\ row.expires = NoExpiry

Rewrites(r, row) ==
    /\ row \in Row
    /\ runs' = [runs EXCEPT ![r] = row]
    /\ clock' = clock /\ minted' = minted /\ grants' = grants
    /\ row.attempt = runs[r].attempt
    /\ KeepsLease(r, row) \/ DropsLease(row)

(* Such a statement keeps the invariant. *)
LEMMA RewriteKeepsInv ==
    ASSUME LeaseInv, NEW r \in Run, NEW row, Rewrites(r, row)
    PROVE  LeaseInv'
<1>1. /\ runs'[r] = row
      /\ \A o \in Run : o # r => runs'[o] = runs[o]
    BY DEF LeaseInv, TypeOK, Rewrites
<1>2. TypeOK'
    BY DEF LeaseInv, TypeOK, Rewrites
<1>3. LeaseShape'
    BY <1>1 DEF LeaseInv, LeaseShape, Terminal, Outcome, NoToken, NoExpiry, Rewrites, KeepsLease, DropsLease
<1>4. \A o \in Run : runs'[o].attempt = runs[o].attempt
    BY <1>1 DEF Rewrites
<1>5. GrantShape'
    BY <1>1, <1>4 DEF LeaseInv, GrantShape, TypeOK, NoToken, Grant, Rewrites, KeepsLease, DropsLease
<1>6. AttemptAccounting'
    BY <1>4 DEF LeaseInv, AttemptAccounting, Rewrites
<1>7. LastLeaseRules'
    BY <1>1 DEF LeaseInv, LastLeaseRules, Current, Terminal, Outcome, Rewrites, KeepsLease, DropsLease
<1>. QED
    BY <1>2, <1>3, <1>5, <1>6, <1>7 DEF LeaseInv

(* The initial table satisfies the invariant. *)
LEMMA InitInv == Init => LeaseInv
<1> SUFFICES ASSUME Init PROVE LeaseInv
    OBVIOUS
<1>1. TypeOK
    BY StoreAssumption, LeaseAssumption
    DEF Init, TypeOK, Row, AbsentRow, RunState, NoToken, NoExpiry
<1>2. LeaseShape /\ GrantShape /\ LastLeaseRules
    BY DEF Init, LeaseShape, GrantShape, LastLeaseRules, AbsentRow, NoToken, NoExpiry
<1>3. AttemptAccounting
    BY DEF Init, AttemptAccounting, AbsentRow
<1>. QED
    BY <1>1, <1>2, <1>3 DEF LeaseInv

(* Every step of the store keeps the invariant. *)
LEMMA NextInv == LeaseInv /\ [Next]_vars => LeaseInv'
<1> SUFFICES ASSUME LeaseInv, [Next]_vars PROVE LeaseInv'
    OBVIOUS
<1>1. ASSUME NEW r \in Run, NEW w \in Worker, NEW at \in Readable, NEW len \in LeaseSeconds,
             Claimable(runs[r], at), Take(r, w, at, len)
      PROVE  LeaseInv'
    BY <1>1, TakeKeepsInv
<1>2. ASSUME NEW g \in grants, RenewLease(g)
      PROVE  LeaseInv'
    <2>1. PICK at \in Readable, len \in LeaseSeconds :
              /\ LeaseValid(runs[g.run], g.worker, g.token, at)
              /\ runs' = [runs EXCEPT ![g.run] = Renewed(@, at + len)]
              /\ UNCHANGED <<clock, minted, grants>>
        BY <1>2 DEF RenewLease
    <2>2. g.run \in Run /\ runs[g.run] \in Row /\ at + len \in Nat
        BY LeaseAssumption DEF LeaseInv, TypeOK, Grant, Readable
    <2>3. DEFINE row == Renewed(runs[g.run], at + len)
    <2>4. /\ row \in Row /\ row.state = runs[g.run].state /\ row.token = runs[g.run].token
          /\ row.worker = runs[g.run].worker /\ row.expires = at + len
          /\ row.attempt = runs[g.run].attempt
        BY <2>2 DEF Renewed, Row
    <2>5. runs[g.run].state = "running" /\ row.expires # NoExpiry
        BY <2>1, <2>2, <2>4 DEF LeaseValid, NoExpiry
    <2>6. runs' = [runs EXCEPT ![g.run] = row]
        BY <2>1, <2>2
    <2> HIDE DEF row
    <2>7. Rewrites(g.run, row)
        BY <2>1, <2>4, <2>5, <2>6 DEF Rewrites, KeepsLease
    <2>. QED
        BY <2>2, <2>7, RewriteKeepsInv
<1>3. ASSUME NEW g \in grants, NEW outcome \in Outcome, FinishLeasedRun(g, outcome)
      PROVE  LeaseInv'
    <2>1. /\ runs' = [runs EXCEPT ![g.run] = Finished(@, outcome)]
          /\ UNCHANGED <<clock, minted, grants>>
        BY <1>3 DEF FinishLeasedRun
    <2>2. g.run \in Run /\ runs[g.run] \in Row
        BY DEF LeaseInv, TypeOK, Grant
    <2>3. DEFINE row == Finished(runs[g.run], outcome)
    <2>4. /\ row \in Row /\ row.state = outcome /\ row.token = NoToken
          /\ row.expires = NoExpiry /\ row.attempt = runs[g.run].attempt
        BY <2>2 DEF Finished, Row, RunState, NoToken, NoExpiry
    <2>5. runs' = [runs EXCEPT ![g.run] = row]
        BY <2>1, <2>2
    <2>6. outcome \in Terminal /\ outcome # "queued"
        BY DEF Terminal, Outcome
    <2> HIDE DEF row
    <2>7. Rewrites(g.run, row)
        BY <2>1, <2>4, <2>5, <2>6 DEF Rewrites, DropsLease
    <2>. QED
        BY <2>2, <2>7, RewriteKeepsInv
<1>4. ASSUME NEW r \in Run, RequestRun(r)
      PROVE  LeaseInv'
    <2>1. /\ runs' = [runs EXCEPT ![r] = QueuedRow]
          /\ UNCHANGED <<clock, minted, grants>>
          /\ runs[r].state = "absent"
        BY <1>4 DEF RequestRun
    <2>2. /\ QueuedRow \in Row /\ QueuedRow.state = "queued" /\ QueuedRow.attempt = 0
          /\ QueuedRow.token = NoToken /\ QueuedRow.expires = NoExpiry
        BY StoreAssumption DEF QueuedRow, AbsentRow, Row, RunState, NoToken, NoExpiry
    <2>3. runs[r].attempt = 0
        BY <2>1 DEF LeaseInv, LeaseShape
    <2>4. Rewrites(r, QueuedRow)
        BY <2>1, <2>2, <2>3 DEF Rewrites, DropsLease
    <2>. QED
        BY <2>4, RewriteKeepsInv
<1>5. ASSUME NEW r \in Run, CancelRun(r)
      PROVE  LeaseInv'
    <2>1. /\ runs' = [runs EXCEPT ![r] = Cancelled(@)]
          /\ UNCHANGED <<clock, minted, grants>>
        BY <1>5 DEF CancelRun
    <2>2. runs[r] \in Row
        BY DEF LeaseInv, TypeOK
    <2>3. DEFINE row == Cancelled(runs[r])
    <2>4. /\ row \in Row /\ row.state = "cancelled" /\ row.token = NoToken
          /\ row.expires = NoExpiry /\ row.attempt = runs[r].attempt
        BY <2>2 DEF Cancelled, Row, RunState, NoToken, NoExpiry
    <2>5. runs' = [runs EXCEPT ![r] = row]
        BY <2>1, <2>2
    <2>6. row.state \in Terminal /\ row.state # "queued"
        BY <2>4 DEF Terminal
    <2> HIDE DEF row
    <2>7. Rewrites(r, row)
        BY <2>1, <2>4, <2>5, <2>6 DEF Rewrites, DropsLease
    <2>. QED
        BY <2>7, RewriteKeepsInv
<1>6. CASE Tick
    BY <1>6, LeaseAssumption
    DEF Tick, LeaseInv, TypeOK, LeaseShape, GrantShape, AttemptAccounting, LastLeaseRules, Current
<1>7. CASE UNCHANGED vars
    BY <1>7
    DEF vars, LeaseInv, TypeOK, LeaseShape, GrantShape, AttemptAccounting, LastLeaseRules, Current
<1>. QED
    BY <1>1, <1>2, <1>3, <1>4, <1>5, <1>6, <1>7, StepCases

(* The invariant holds in every reachable state. *)
THEOREM LeaseInvariant == Spec => []LeaseInv
BY InitInv, NextInv, PTL DEF Spec

(* Every variable keeps to its column's type; in particular no run is handed
   out more than MAX_RUN_ATTEMPTS times. *)
THEOREM LeaseTypes == Spec => []TypeOK
BY LeaseInvariant, PTL DEF LeaseInv

(* The lease columns of a row are set exactly while its run runs. *)
THEOREM LeaseColumns == Spec => []LeaseShape
BY LeaseInvariant, PTL DEF LeaseInv

(* The attempt column counts the leases ever granted on a run. *)
THEOREM AttemptsCounted == Spec => []AttemptAccounting
BY LeaseInvariant, PTL DEF LeaseInv

(* A running run obeys the last lease granted on it and no other. *)
THEOREM OneLeaseRules == Spec => []LastLeaseRules
BY LeaseInvariant, PTL DEF LeaseInv

----------------------------------------------------------------------------
(* Fencing: what a replaced lease can never regain. *)

LEMMA FencingStep ==
    ASSUME LeaseInv, [Next]_vars, NEW g \in grants, ~Current(g)
    PROVE  ~Current(g)'
<1>1. /\ g \in Grant /\ g.run \in Run /\ 0 < g.token /\ g.token <= minted
      /\ minted \in Nat
    BY DEF LeaseInv, TypeOK, GrantShape, Grant
<1>2. ASSUME NEW r \in Run, NEW w \in Worker, NEW at \in Readable, NEW len \in LeaseSeconds,
             Take(r, w, at, len)
      PROVE  ~Current(g)'
    <2>1. runs' = [runs EXCEPT ![r] = Claimed(runs[r], w, minted + 1, at + len)]
        BY <1>2 DEF Take
    <2>2. CASE g.run = r
        <3>1. runs'[g.run].token = minted + 1
            BY <1>1, <2>1, <2>2 DEF LeaseInv, TypeOK, Claimed
        <3>. QED
            BY <1>1, <3>1 DEF Current
    <2>3. CASE g.run # r
        BY <1>1, <2>1, <2>3 DEF LeaseInv, TypeOK, Current
    <2>. QED
        BY <2>2, <2>3
<1>3. ASSUME NEW r \in Run, NEW row, runs' = [runs EXCEPT ![r] = row],
             row.token \in {runs[r].token, NoToken}
      PROVE  ~Current(g)'
    BY <1>1, <1>3 DEF LeaseInv, TypeOK, Current, NoToken
<1>4. ASSUME NEW h \in grants, RenewLease(h)
      PROVE  ~Current(g)'
    <2>1. PICK until : runs' = [runs EXCEPT ![h.run] = Renewed(@, until)]
        BY <1>4 DEF RenewLease
    <2>2. h.run \in Run /\ Renewed(runs[h.run], until).token = runs[h.run].token
        BY DEF LeaseInv, TypeOK, Grant, Row, Renewed
    <2>. QED
        BY <1>3, <2>1, <2>2
<1>5. ASSUME NEW h \in grants, NEW outcome \in Outcome, FinishLeasedRun(h, outcome)
      PROVE  ~Current(g)'
    <2>1. runs' = [runs EXCEPT ![h.run] = Finished(@, outcome)]
        BY <1>5 DEF FinishLeasedRun
    <2>2. h.run \in Run /\ Finished(runs[h.run], outcome).token = NoToken
        BY DEF LeaseInv, TypeOK, Grant, Row, Finished
    <2>. QED
        BY <1>3, <2>1, <2>2
<1>6. ASSUME NEW r \in Run, RequestRun(r)
      PROVE  ~Current(g)'
    BY <1>3, <1>6 DEF RequestRun, QueuedRow, AbsentRow
<1>7. ASSUME NEW r \in Run, CancelRun(r)
      PROVE  ~Current(g)'
    <2>1. runs' = [runs EXCEPT ![r] = Cancelled(@)]
        BY <1>7 DEF CancelRun
    <2>2. Cancelled(runs[r]).token = NoToken
        BY DEF LeaseInv, TypeOK, Row, Cancelled
    <2>. QED
        BY <1>3, <2>1, <2>2
<1>8. CASE Tick \/ UNCHANGED vars
    BY <1>8 DEF Tick, vars, Current
<1>. QED
    BY <1>2, <1>4, <1>5, <1>6, <1>7, <1>8, StepCases

(* A lease that a reclaim, an outcome or a cancellation took off its run never
   returns to it, at any lag. *)
THEOREM ReplacedLeaseStaysDead ==
    Spec => [][\A g \in grants : ~Current(g) => ~Current(g)']_vars
<1>1. LeaseInv /\ [Next]_vars => [\A g \in grants : ~Current(g) => ~Current(g)']_vars
    BY FencingStep
<1>. QED
    BY <1>1, LeaseInvariant, PTL DEF Spec

(* Only the latest lease granted on a run passes the test that renewals and
   outcomes make, whatever instant their handlers read. *)
LEMMA InvFences == LeaseInv => FencedOut
<1> SUFFICES ASSUME LeaseInv, NEW g \in grants, NEW h \in grants, NEW at \in 0..MaxClock,
                    g.run = h.run, g.attempt < h.attempt,
                    LeaseValid(runs[g.run], g.worker, g.token, at)
             PROVE  FALSE
    BY DEF FencedOut
<1>1. g.run \in Run /\ g.attempt \in Nat /\ h.attempt \in Nat /\ runs[g.run].attempt \in Nat
    BY StoreAssumption DEF LeaseInv, TypeOK, Grant, Row
<1>2. PICK c \in grants : Current(c) /\ c.run = g.run /\ c.attempt = runs[g.run].attempt
    BY <1>1 DEF LeaseInv, LastLeaseRules, LeaseValid
<1>3. c = g
    BY <1>2 DEF LeaseInv, GrantShape, Current, LeaseValid
<1>4. h.attempt <= runs[g.run].attempt
    BY DEF LeaseInv, GrantShape
<1>. QED
    BY <1>1, <1>2, <1>3, <1>4

(* Fencing holds in every reachable state, at any lag. *)
THEOREM LateCallsAreFenced == Spec => []FencedOut
BY LeaseInvariant, InvFences, PTL

----------------------------------------------------------------------------
(* Host exclusion, at any lag. *)

(* An instant a handler may have read is a past one, at most MaxLag ago. *)
LEMMA ReadableMeans ==
    ASSUME LeaseInv, NEW at \in Readable
    PROVE  clock \in Nat /\ at \in Nat /\ at <= clock /\ clock <= at + MaxLag
<1>1. clock \in Nat /\ MaxLag \in Nat
    BY LeaseAssumption DEF LeaseInv, TypeOK
<1>. QED
    BY <1>1 DEF Readable

LEMMA HostExclusiveStep ==
    ASSUME LeaseInv, HostExclusive, [Next]_vars
    PROVE  HostExclusive' \/ \E r \in Run : Revived(r)
<1>2. clock \in Nat /\ MaxLag \in Nat /\ runs \in [Run -> Row]
    BY LeaseAssumption DEF LeaseInv, TypeOK
<1>0. \A o \in Run : runs[o].expires \in Int
    BY <1>2 DEF Row, NoExpiry
(* A step that makes no run unexpired that was not keeps the property. *)
<1>3. ASSUME \A o \in Run : Unexpired(runs[o], clock)' => Unexpired(runs[o], clock)
      PROVE  HostExclusive'
    BY <1>3 DEF HostExclusive
<1>4. ASSUME NEW r \in Run, NEW row, runs' = [runs EXCEPT ![r] = row], clock' = clock,
             Unexpired(row, clock) => Unexpired(runs[r], clock)
      PROVE  HostExclusive'
    <2>1. \A o \in Run : Unexpired(runs'[o], clock) => Unexpired(runs[o], clock)
        BY <1>2, <1>4
    <2>. QED
        BY <1>3, <1>4, <2>1 DEF Unexpired
(* A claim tests an instant that is not later than the present: whatever is
   unexpired now was unexpired then. *)
<1>5. ASSUME NEW r \in Run, NEW w \in Worker, NEW at \in Readable, NEW len \in LeaseSeconds,
             HostIdle(runs, r, at), Take(r, w, at, len)
      PROVE  HostExclusive'
    <2>1. \A o \in Run : o # r => runs'[o] = runs[o]
        BY <1>2, <1>5 DEF Take
    <2>2. clock' = clock
        BY <1>5 DEF Take
    <2>5. at \in Nat /\ at <= clock
        BY <1>5, ReadableMeans
    <2>6. \A o \in Run : Unexpired(runs[o], clock) => Unexpired(runs[o], at)
        BY <1>0, <1>2, <2>5 DEF Unexpired
    <2>3. \A o \in Run : o # r /\ Unexpired(runs[o], clock) => HostOf[o] # HostOf[r]
        BY <1>5, <2>6 DEF HostIdle
    <2>4. \A o \in Run : o # r /\ Unexpired(runs'[o], clock') => Unexpired(runs[o], clock)
        BY <2>1, <2>2
    <2>. QED
        BY <2>1, <2>2, <2>3, <2>4 DEF HostExclusive, Unexpired
(* A renewal either finds its lease unexpired, or revives it. *)
<1>6. ASSUME NEW g \in grants, RenewLease(g)
      PROVE  HostExclusive' \/ Revived(g.run)
    <2>1. PICK at \in Readable, len \in LeaseSeconds :
              /\ LeaseValid(runs[g.run], g.worker, g.token, at)
              /\ runs' = [runs EXCEPT ![g.run] = Renewed(@, at + len)]
              /\ clock' = clock
        BY <1>6 DEF RenewLease
    <2>2. g.run \in Run
        BY DEF LeaseInv, TypeOK, Grant
    <2>3. /\ runs[g.run].state = "running" /\ runs[g.run].expires \in Int
          /\ at < runs[g.run].expires
        BY <1>0, <2>1, <2>2 DEF LeaseValid
    <2>4. at \in Nat /\ clock <= at + MaxLag
        BY ReadableMeans
    <2>5. CASE Unexpired(runs[g.run], clock) \/ ~Unexpired(Renewed(runs[g.run], at + len), clock)
        BY <1>4, <2>1, <2>2, <2>5
    <2>6. CASE /\ ~Unexpired(runs[g.run], clock)
               /\ Unexpired(Renewed(runs[g.run], at + len), clock)
        <3>1. runs[g.run].expires <= clock /\ clock < runs[g.run].expires + MaxLag
            BY <1>2, <2>3, <2>4, <2>6 DEF Unexpired
        <3>2. runs'[g.run] = Renewed(runs[g.run], at + len)
            BY <1>2, <2>1, <2>2
        <3>3. runs'[g.run].token = runs[g.run].token
            BY <1>2, <2>2, <3>2 DEF Renewed, Row
        <3>. QED
            BY <2>1, <2>3, <2>6, <3>1, <3>2, <3>3 DEF Revived
    <2>. QED
        BY <2>5, <2>6
<1>7. ASSUME NEW g \in grants, NEW outcome \in Outcome, FinishLeasedRun(g, outcome)
      PROVE  HostExclusive'
    <2>1. /\ runs' = [runs EXCEPT ![g.run] = Finished(@, outcome)]
          /\ clock' = clock
        BY <1>7 DEF FinishLeasedRun
    <2>2. g.run \in Run /\ ~Unexpired(Finished(runs[g.run], outcome), clock)
        BY <1>2 DEF LeaseInv, TypeOK, Grant, Row, Finished, Unexpired, Outcome
    <2>. QED
        BY <1>4, <2>1, <2>2
<1>8. ASSUME NEW r \in Run, RequestRun(r)
      PROVE  HostExclusive'
    BY <1>4, <1>8 DEF RequestRun, QueuedRow, AbsentRow, Unexpired
<1>9. ASSUME NEW r \in Run, CancelRun(r)
      PROVE  HostExclusive'
    <2>1. /\ runs' = [runs EXCEPT ![r] = Cancelled(@)]
          /\ clock' = clock
        BY <1>9 DEF CancelRun
    <2>2. ~Unexpired(Cancelled(runs[r]), clock)
        BY <1>2 DEF Row, Cancelled, Unexpired
    <2>. QED
        BY <1>4, <2>1, <2>2
<1>10. CASE Tick
    <2>2. \A o \in Run : Unexpired(runs'[o], clock') => Unexpired(runs[o], clock)
        BY <1>0, <1>2, <1>10 DEF Tick, Unexpired
    <2>. QED
        BY <1>3, <2>2 DEF Unexpired
<1>11. CASE UNCHANGED vars
    BY <1>11 DEF vars, HostExclusive, Unexpired
<1>12. \A g \in grants : g.run \in Run
    BY DEF LeaseInv, TypeOK, Grant
<1>. QED
    BY <1>5, <1>6, <1>7, <1>8, <1>9, <1>10, <1>11, <1>12, StepCases

(* Whatever the number of runs and workers of either provider, and however
   late statements execute: no claim puts a second unexpired lease on a host.
   Two overlap only after a renewal that executed past its lease's expiry. *)
THEOREM ClaimsNeverOverlap == Spec => OnlyLateRenewalsOverlap
<1>1. LeaseInv /\ [Next]_vars =>
          [HostExclusive => HostExclusive' \/ \E r \in Run : Revived(r)]_vars
    BY HostExclusiveStep
<1>. QED
    BY <1>1, LeaseInvariant, PTL DEF Spec, OnlyLateRenewalsOverlap

(* At any lag no claim moves an exhausted run: it waits for the operator's
   cancellation, unless a call its last holder sent in time still arrives. *)
THEOREM ExhaustionIsFinal == Spec => ExhaustedWaitsForOperator
<1> DEFINE InTransit(r) == /\ clock < runs[r].expires + MaxLag
                           /\ runs'[r].attempt = runs[r].attempt
                           /\ runs'[r].token \in {runs[r].token, NoToken}
<1>1. ASSUME LeaseInv, [Next]_vars, NEW r \in Run, Exhausted(r)
      PROVE  runs'[r] = runs[r] \/ runs'[r].state = "cancelled" \/ InTransit(r)
    <2>2. /\ runs \in [Run -> Row] /\ clock \in Int /\ MaxLag \in Nat
          /\ runs[r] \in Row /\ runs[r].expires \in Int /\ runs[r].attempt \in Nat
        BY <1>1, StoreAssumption, LeaseAssumption DEF LeaseInv, TypeOK, Row, NoExpiry
    <2>3. \A at \in Readable : ~Claimable(runs[r], at)
        BY <1>1, <2>2, StoreAssumption DEF Exhausted, Claimable
    <2>4. ASSUME NEW o \in Run, NEW w \in Worker, NEW at \in Readable, NEW len \in LeaseSeconds,
                 Claimable(runs[o], at), Take(o, w, at, len)
          PROVE  runs'[r] = runs[r]
        <3>1. o # r
            BY <2>3, <2>4
        <3>. QED
            BY <2>2, <2>4, <3>1 DEF Take
    <2>10. ASSUME NEW g \in grants, NEW at \in Readable, g.run = r,
                  LeaseValid(runs[r], g.worker, g.token, at)
           PROVE  clock < runs[r].expires + MaxLag
        <3>1. at \in Nat /\ clock <= at + MaxLag
            BY <1>1, ReadableMeans
        <3>. QED
            BY <2>2, <2>10, <3>1 DEF LeaseValid
    <2>5. ASSUME NEW g \in grants, RenewLease(g)
          PROVE  runs'[r] = runs[r] \/ InTransit(r)
        <3>1. PICK at \in Readable, len \in LeaseSeconds :
                  /\ LeaseValid(runs[g.run], g.worker, g.token, at)
                  /\ runs' = [runs EXCEPT ![g.run] = Renewed(@, at + len)]
            BY <2>5 DEF RenewLease
        <3>2. CASE g.run = r
            BY <2>2, <2>10, <3>1, <3>2 DEF Renewed, Row
        <3>3. CASE g.run # r
            BY <2>2, <3>1, <3>3
        <3>. QED
            BY <3>2, <3>3
    <2>6. ASSUME NEW g \in grants, NEW outcome \in Outcome, FinishLeasedRun(g, outcome)
          PROVE  runs'[r] = runs[r] \/ InTransit(r)
        <3>1. PICK at \in Readable :
                  /\ LeaseValid(runs[g.run], g.worker, g.token, at)
                  /\ runs' = [runs EXCEPT ![g.run] = Finished(@, outcome)]
            BY <2>6 DEF FinishLeasedRun
        <3>2. CASE g.run = r
            BY <2>2, <2>10, <3>1, <3>2 DEF Finished, Row
        <3>3. CASE g.run # r
            BY <2>2, <3>1, <3>3
        <3>. QED
            BY <3>2, <3>3
    <2>7. ASSUME NEW o \in Run, RequestRun(o)
          PROVE  runs'[r] = runs[r]
        BY <1>1, <2>2, <2>7 DEF RequestRun, Exhausted
    <2>8. ASSUME NEW o \in Run, CancelRun(o)
          PROVE  runs'[r] = runs[r] \/ runs'[r].state = "cancelled"
        <3>1. CASE o = r
            BY <2>2, <2>8, <3>1 DEF CancelRun, Cancelled, Row
        <3>2. CASE o # r
            BY <2>2, <2>8, <3>2 DEF CancelRun
        <3>. QED
            BY <3>1, <3>2
    <2>9. CASE Tick \/ UNCHANGED vars
        BY <2>9 DEF Tick, vars
    <2>. HIDE DEF InTransit
    <2>. QED
        BY <1>1, <2>4, <2>5, <2>6, <2>7, <2>8, <2>9, StepCases
<1>2. LeaseInv /\ [Next]_vars =>
          [\A r \in Run : Exhausted(r) =>
               \/ runs'[r] = runs[r]
               \/ runs'[r].state = "cancelled"
               \/ InTransit(r)]_vars
    BY <1>1
<1>. QED
    BY <1>2, LeaseInvariant, PTL DEF Spec, ExhaustedWaitsForOperator

----------------------------------------------------------------------------
(* The table implements the state machine of a run. *)

LEMMA LifecycleStep ==
    ASSUME LeaseInv, [Next]_vars
    PROVE  [Lifecycle!Next]_([r \in Run |-> runs[r].state])
<1> DEFINE state == [r \in Run |-> runs[r].state]
<1>1. runs \in [Run -> Row]
    BY DEF LeaseInv, TypeOK
<1>2. ASSUME NEW r \in Run, NEW row, runs' = [runs EXCEPT ![r] = row],
             \/ row.state = runs[r].state
             \/ /\ row.state \in {"queued", "running"} \cup Lifecycle!Final
                /\ <<runs[r].state, row.state>> \in Lifecycle!Allowed
      PROVE  [Lifecycle!Next]_state
    <2>1. state' = [state EXCEPT ![r] = row.state]
        BY <1>1, <1>2
    <2>3. CASE row.state = runs[r].state
        <3>1. \A q \in Run : runs'[q].state = runs[q].state
            BY <1>1, <1>2, <2>3
        <3>2. state' = state
            BY <3>1
        <3>. QED
            BY <3>2
    <2>4. CASE /\ row.state \in {"queued", "running"} \cup Lifecycle!Final
               /\ <<runs[r].state, row.state>> \in Lifecycle!Allowed
        <3>1. Lifecycle!Transition(r, row.state)
            BY <2>1, <2>4 DEF Lifecycle!Transition
        <3>. QED
            BY <2>4, <3>1 DEF Lifecycle!Next
    <2>. QED
        <3>1. \/ row.state = runs[r].state
              \/ /\ row.state \in {"queued", "running"} \cup Lifecycle!Final
                 /\ <<runs[r].state, row.state>> \in Lifecycle!Allowed
            BY <1>2
        <3>. HIDE DEF state
        <3>. QED
            BY <2>3, <2>4, <3>1
<1>3. ASSUME NEW r \in Run, NEW w \in Worker, NEW at \in Readable, NEW len \in LeaseSeconds,
             Claimable(runs[r], at), Take(r, w, at, len)
      PROVE  [Lifecycle!Next]_state
    <2>1. runs' = [runs EXCEPT ![r] = Claimed(runs[r], w, minted + 1, at + len)]
        BY <1>3 DEF Take
    <2>2. /\ Claimed(runs[r], w, minted + 1, at + len).state = "running"
          /\ runs[r].state \in {"queued", "running"}
        BY <1>3 DEF Claimed, Claimable
    <2>. QED
        BY <1>2, <2>1, <2>2 DEF Lifecycle!Allowed
<1>4. ASSUME NEW g \in grants, RenewLease(g)
      PROVE  [Lifecycle!Next]_state
    <2>1. PICK until : runs' = [runs EXCEPT ![g.run] = Renewed(@, until)]
        BY <1>4 DEF RenewLease
    <2>2. g.run \in Run /\ Renewed(runs[g.run], until).state = runs[g.run].state
        BY <1>1 DEF LeaseInv, TypeOK, Grant, Row, Renewed
    <2>. QED
        BY <1>2, <2>1, <2>2
<1>5. ASSUME NEW g \in grants, NEW outcome \in Outcome, FinishLeasedRun(g, outcome)
      PROVE  [Lifecycle!Next]_state
    <2>1. /\ runs' = [runs EXCEPT ![g.run] = Finished(@, outcome)]
          /\ runs[g.run].state = "running"
        BY <1>5 DEF FinishLeasedRun, LeaseValid
    <2>2. g.run \in Run /\ Finished(runs[g.run], outcome).state = outcome
        BY <1>1 DEF LeaseInv, TypeOK, Grant, Row, Finished
    <2>. QED
        BY <1>2, <2>1, <2>2 DEF Outcome, Lifecycle!Allowed, Lifecycle!Final
<1>6. ASSUME NEW r \in Run, RequestRun(r)
      PROVE  [Lifecycle!Next]_state
    BY <1>2, <1>6 DEF RequestRun, QueuedRow, AbsentRow, Lifecycle!Allowed
<1>7. ASSUME NEW r \in Run, CancelRun(r)
      PROVE  [Lifecycle!Next]_state
    <2>1. /\ runs' = [runs EXCEPT ![r] = Cancelled(@)]
          /\ runs[r].state \in {"queued", "running"}
        BY <1>7 DEF CancelRun, Cancellable
    <2>2. Cancelled(runs[r]).state = "cancelled"
        BY <1>1 DEF Row, Cancelled
    <2>. QED
        BY <1>2, <2>1, <2>2 DEF Lifecycle!Allowed, Lifecycle!Final
<1>8. CASE Tick \/ UNCHANGED vars
    BY <1>8 DEF Tick, vars
<1>. QED
    BY <1>3, <1>4, <1>5, <1>6, <1>7, <1>8, StepCases

(* Whatever the workers do and however late their statements run, a watcher of
   run states sees only the transitions of `allowed`. *)
THEOREM StoreImplementsLifecycle == Spec => ImplementsLifecycle
<1>1. Init => Lifecycle!Init
    BY DEF Init, Lifecycle!Init, AbsentRow
<1>2. LeaseInv /\ [Next]_vars => [Lifecycle!Next]_([r \in Run |-> runs[r].state])
    BY LifecycleStep
<1>. QED
    BY <1>1, <1>2, LeaseInvariant, PTL DEF Spec, ImplementsLifecycle, Lifecycle!Spec
============================================================================
