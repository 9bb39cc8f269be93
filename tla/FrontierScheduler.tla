-------------------------- MODULE FrontierScheduler -------------------------
(* The deterministic scheduler of condition D (src/experimental/adaptive/    *)
(* scheduler.ts) and its rule table (frontier-rules.ts): what it decides on  *)
(* an observation o and the compact view v of it, as an operator from its    *)
(* state to its next state and its action. An element is named by the        *)
(* subject it has in every observation, so looking a ref up again by its     *)
(* selector hint finds the element itself.                                   *)
EXTENDS Frontier

CONSTANT MaxFindings       \* MAX_FINDINGS_PER_PAGE

Plain(type) == [type |-> type, url |-> None, target |-> None, verdict |-> None, candidates |-> <<>>]
To(url) == [Plain("navigate") EXCEPT !.url = url]
On(type, target) == [Plain(type) EXCEPT !.target = target]
Reporting(candidate) == [Plain("report_candidate") EXCEPT !.candidates = <<candidate>>]
Finishing(verdict, candidates) == [Plain("finish") EXCEPT !.verdict = verdict, !.candidates = candidates]

Idle ==
  [skipped |-> {}, attempted |-> {}, reported |-> {}, queue |-> <<>>,
   capturing |-> None, inspecting |-> 0, dialog |-> None, goingTo |-> 0]

Finding(category, target, probed) == [category |-> category, target |-> target, probed |-> probed]

\* R1 and R2: unnamed elements, then broken skip links, capped per page.
PageFindings(o, ids) ==
  LET unnamed == Picked(o.controls, {c \in ToSet(o.controls) : ~c.named})
      broken  == Picked(o.controls, {c \in ToSet(o.controls) : c.subject \in o.brokenSkips})
  IN  FirstOf([i \in DOMAIN unnamed |-> Finding("missing_accessible_name", unnamed[i].subject, ids)]
              \o [i \in DOMAIN broken |-> Finding("skip_link_broken", broken[i].subject, ids)], MaxFindings)

\* R3: a dialog is open and none of them holds the focus.
DialogOpenedFindings(o, trigger, ids) ==
  IF o.dialogs = {} \/ o.focusInDialog THEN <<>>
  ELSE <<Finding("focus_not_moved_to_dialog", trigger, ids)>>

\* R4: after Escape the focus is not back on the control activated last.
DialogClosedFindings(o, trigger, ids) ==
  IF o.focusReturned THEN <<>> ELSE <<Finding("dialog_focus_not_returned", trigger, ids)>>

\* A finding is queued under its key.
Queued(s, key, f) == [s EXCEPT !.reported = @ \cup {key}, !.queue = Append(@, f)]

\* A finding is queued at most once in a session.
Enqueue(s, page, findings) ==
  FoldLeft(LAMBDA acc, f : LET key == <<f.category, page, f.target>>
                           IN  IF key \in acc.reported THEN acc ELSE Queued(acc, key, f),
           s, findings)

\* The next finding is captured; finish empties the queue; an inspection is both static probes at once.
Taken(s) == [s EXCEPT !.capturing = Head(s.queue), !.queue = Tail(@)]
Emptied(s) == [s EXCEPT !.capturing = None, !.queue = <<>>]
Inspecting(s, obligations, page) == [s EXCEPT !.attempted = @ \cup obligations, !.inspecting = page]

Candidate(f, captured) ==
  [category |-> f.category, refs |-> f.probed \cup captured]

\* Where the navigation under way ended: a page it did not reach is not tried again.
Arrived(s, v) ==
  [s EXCEPT !.skipped = @ \cup (IF s.goingTo \notin {0, v.current} THEN {s.goingTo} ELSE {}),
            !.goingTo = 0]

Inspected(s, o, v) ==
  IF s.inspecting = 0 \/ s.inspecting # v.current THEN s
  ELSE LET s1 == [s EXCEPT !.inspecting = 0]
       IN  IF o.lastEvidence = {} THEN s1 ELSE Enqueue(s1, v.current, PageFindings(o, o.lastEvidence))

\* The dialog under test: what its opening showed, then what its closing showed.
DialogStep(s, o, v) ==
  IF s.dialog = None THEN s
  ELSE IF s.dialog.stage = "opened"
  THEN [Enqueue(s, v.current, DialogOpenedFindings(o, s.dialog.trigger, o.lastEvidence))
          EXCEPT !.dialog = IF o.finalCall THEN None
                            ELSE [trigger |-> s.dialog.trigger, stage |-> "escaped",
                                  activated |-> o.lastEvidence]]
  ELSE Enqueue([s EXCEPT !.dialog = None], v.current,
               DialogClosedFindings(o, s.dialog.trigger, s.dialog.activated \cup o.lastEvidence))

\* Findings not yet reported go into the finish; it proposes complete when nothing is open in the view or the ledger.
Finish(s, o, v, ids) ==
  LET captured == IF s.capturing # None /\ ids # {} THEN <<Candidate(s.capturing, ids)>> ELSE <<>>
      probed == Picked(s.queue, {f \in ToSet(s.queue) : f.probed # {}})
      done == v.outstanding = <<>> /\ v.remaining = 0
  IN  [state |-> Emptied(s),
       action |-> Finishing(IF done THEN "complete" ELSE "inconclusive",
                            captured \o [i \in DOMAIN probed |-> Candidate(probed[i], {})])]

ProbeOrder(probe) ==
  CASE probe = "semantics" -> 1 [] probe = "skip_link" -> 2
    [] probe = "disclosure_toggle" -> 3 [] OTHER -> 4

\* The probes still to be tried on the current page, in the frozen order.
Todo(s, v, obligations) ==
  LET open == {i \in ToSet(v.outstanding) : /\ obligations[i].page = v.current
                                            /\ obligations[i].status = "pending"
                                            /\ i \notin s.attempted}
      Before(i, j) == LET a == ProbeOrder(obligations[i].probe)
                          b == ProbeOrder(obligations[j].probe)
                      IN  a < b \/ (a = b /\ i < j)
  IN  SetToSortSeq(open, Before)

Static == {"semantics", "skip_link"}

\* The next probe on this page, else the lowest unvisited page in scope, else finish.
NextStep(s, o, v, L, perSource) ==
  LET todo == Todo(s, v, L.obligations)
      Runnable(i) == \/ L.obligations[i].probe \in Static
                     \/ L.obligations[i].subject \in o.legalActivate
      ready == {k \in DOMAIN todo : Runnable(todo[k])}
      k == CHOOSE k \in ready : \A j \in ready : k <= j
      passed == ToSet(IF ready = {} THEN todo ELSE FirstOf(todo, k))
      siblings == {i \in ToSet(todo) : L.obligations[i].probe \in Static}
      next == L.obligations[todo[k]]
      tried == [s EXCEPT !.attempted = @ \cup passed]
      Rank(p) == Cardinality({q \in ToSet(v.pages) : q < p /\ L.pages[q].source = L.pages[p].source})
      fresh == {p \in DOMAIN L.pages :
                  /\ p \in ToSet(v.pages) \ {v.current}
                  /\ ~L.pages[p].visited /\ p \notin s.skipped /\ Rank(p) < perSource}
      target == CHOOSE p \in fresh : \A q \in fresh : p <= q
  IN  IF ready # {}
      THEN IF next.probe \in Static
           THEN [state |-> Inspecting(tried, siblings, v.current),
                 action |-> Plain("inspect_semantics")]
           ELSE [state |-> IF next.probe # "dialog_focus_return" THEN tried
                           ELSE [tried EXCEPT !.dialog = [trigger |-> next.subject, stage |-> "opened",
                                                          activated |-> {}]],
                 action |-> On("activate", next.subject)]
      ELSE IF o.surfacesLeft > 0 /\ fresh # {}
      THEN [state |-> [tried EXCEPT !.goingTo = target],
            action |-> To(L.pages[target].url)]
      ELSE Finish(tried, o, v, {})

\* decide(): the dialog under test and the captures and reports of findings come before the next probe.
Decide(s0, o, v, L, perSource) ==
  LET s1 == Inspected(Arrived(s0, v), o, v)
      s == DialogStep(s1, o, v)
      waiting == [s EXCEPT !.capturing = None]
  IN  IF s1.dialog # None /\ s1.dialog.stage = "opened" /\ ~o.finalCall
      THEN [state |-> s, action |-> Plain("escape")]
      ELSE IF o.finalCall THEN Finish(s, o, v, o.lastEvidence)
      ELSE IF s.capturing # None /\ o.lastEvidence # {}
      THEN [state |-> waiting,
            action |-> Reporting(Candidate(s.capturing, o.lastEvidence))]
      ELSE IF s.queue # <<>>
      THEN [state |-> Taken(waiting),
            action |-> On("capture_evidence", Head(s.queue).target)]
      ELSE NextStep(waiting, o, v, L, perSource)
=============================================================================
