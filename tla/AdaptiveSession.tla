--------------------------- MODULE AdaptiveSession ---------------------------
(* One session of the adaptive harness (src/experimental/adaptive/           *)
(* executor.ts): observe, decide, validate, execute, record, write, with the *)
(* frontier ledger and either a model or the scheduler as the provider. The  *)
(* page, the provider, the caller and the wall clock are the environment:    *)
(* they act between any two awaits of the turn.                              *)
EXTENDS FrontierScheduler

CONSTANTS Start,             \* config.startUrl
          Site,              \* what each allowed URL shows
          Lands,             \* where a GET of a URL may end
          ErrorPage,         \* the tab after a refused main-frame navigation
          Sessions,          \* the conditions and limits that are run
          Made,              \* a URL the model makes up
          MaxLinks,          \* MAX_LINKS
          MaxDenials,        \* MAX_DENIALS
          MaxBrowserDenials, \* MAX_BROWSER_DENIAL_RECORDS
          MaxUnknown         \* MAX_CONSECUTIVE_UNKNOWN

Flush == {"write_evidence", "write_candidates", "write_frontier"}
Phases == {"open", "turn", "ask", "act", "record"} \cup Flush \cup {"end", "write_result", "done"}
Statuses == {"completed", "budget_exhausted", "timeout", "cancelled", "denial_limit",
             "invalid_model_output", "provider_error", "error"}
Causes == {"cancelled", "timeout"}
Verdicts == {"complete", "inconclusive"}
Results == [status : Statuses, proposal : Verdicts \cup {None}, outcome : Completions \cup {None}]

\* Nothing that may stand where null does is null; sessions have a limit for each count, pages show links and controls in
\* some order, and a GET of an allowed URL ends on a page.
ASSUME SessionAssumption ==
  /\ None \notin Statuses \cup Verdicts \cup Results \cup Completions
  /\ {MaxUnknown, MaxLinks, MaxDenials, MaxBrowserDenials, MaxFindings} \subseteq Nat \ {0}
  /\ \A c \in Sessions : {c.maxSteps, c.maxCalls, c.maxSurfaces} \subseteq Nat
  /\ \A u \in DOMAIN Site : /\ IsSeq(Site[u].links) /\ IsSeq(Site[u].controls)
                            /\ \A c \in ToSet(Site[u].controls) :
                                 IsSeq(c.reveals) /\ c.probe \in {None, "disclosure_toggle", "dialog_focus_return"}
  /\ {Start, ErrorPage} \subseteq DOMAIN Site /\ Start # ErrorPage
  /\ Lands \in [DOMAIN Site \ {ErrorPage} -> SUBSET DOMAIN Site]

VARIABLES
  cfg,         \* this session's condition and limits
  phase,       \* the await the session is at
  step, calls, \* turns taken, model calls made
  status, cause, proposal,
  page,        \* the tab: URL, expanded controls, open dialog, where the focus is
  surfaces, discovered,
  refused,     \* stored denials of source executor_validation
  browser,     \* stored denials of source browser_policy
  evidence, candidates, trace,
  ledger, sched,
  turn,        \* the locals of turn()
  memo,        \* the last history entry's evidence, consecutive unknown actions
  disk,        \* evidence.json, candidates.json, frontier.json: what was last in each, and the writes begun but not done
  result,      \* result.json once it is computed
  shown,       \* history: every probe target the browser showed
  faults       \* browser faults so far, bounded by cfg.maxFaults

vars == <<cfg, phase, step, calls, status, cause, proposal, page, surfaces, discovered, refused,
          browser, evidence, candidates, trace, ledger, sched, turn, memo, disk, result, shown, faults>>

-----------------------------------------------------------------------------
(* What an observation holds. *)

Navigable(url) == url \in DOMAIN Site \ {ErrorPage}

Fresh(url) == [at |-> url, expanded |-> {}, dialog |-> None, returned |-> FALSE]

Controls == Site[page.at].controls
ControlOf(subject) == CHOOSE c \in ToSet(Controls) : c.subject = subject

\* Links in element order: the page's own, then what expanded controls reveal; cut at the observer's cap.
Revealed(links, controls, expanded) ==
  FoldLeft(LAMBDA acc, c : IF c.subject \in expanded THEN acc \o c.reveals ELSE acc, links, controls)
Links == FirstOf(Revealed(Site[page.at].links, Controls, page.expanded), MaxLinks)

Observation(final) ==
  LET skips == {c \in ToSet(Controls) : c.skip # "no"}
      open == ToSet(Links) \ {page.at}
      left == cfg.maxSurfaces - Cardinality(surfaces)
  IN  [url |-> page.at, controls |-> Controls, expanded |-> page.expanded,
       discoveredNow |-> Picked(Links, DOMAIN Site \ {ErrorPage}),
       skipLinks |-> {c.subject : c \in skips},
       brokenSkips |-> {c.subject : c \in {s \in skips : s.skip = "broken"}},
       dialogs |-> IF page.dialog = None THEN {} ELSE {page.dialog},
       focusInDialog |-> page.dialog # None /\ ControlOf(page.dialog).focusIn,
       focusReturned |-> page.returned,
       surfacesLeft |-> left, finalCall |-> final, lastEvidence |-> memo.ids,
       legalNavigate |-> IF final THEN {}
                         ELSE {u \in open : Navigable(u) /\ (u \in surfaces \/ left > 0)},
       legalActivate |-> IF final THEN {}
                         ELSE {c.subject : c \in {d \in ToSet(Controls) : d.safe}}]

\* The probe targets an observation shows, as the history keeps them.
Targets(o) ==
  {<<o.url, c.probe, c.subject>> : c \in {d \in ToSet(o.controls) : d.probe # None}}
    \cup (IF o.skipLinks = {} THEN {} ELSE {<<o.url, "skip_link", None>>})

ActionTypes ==
  {"inspect_semantics", "navigate", "focus_next", "activate", "escape", "capture_evidence",
   "finish", "unknown"} \cup (IF cfg.incremental THEN {"report_candidate"} ELSE {})

NoDenial == [reason |-> "none", url |-> None]

\* Why an action is refused, and the URL the denial names; NoDenial when it may run.
Refusal(a, o) ==
  LET no(reason) == [reason |-> reason, url |-> None]
      at(reason) == [reason |-> reason, url |-> a.url]
      known == {c.subject : c \in ToSet(o.controls)}
  IN  IF o.finalCall /\ a.type # "finish" THEN no("finish_required")
      ELSE IF a.type \notin ActionTypes THEN no("forbidden_action_type")
      ELSE IF a.type = "navigate"
      THEN IF ~Navigable(a.url) THEN at("origin_not_allowed")
           ELSE IF a.url \notin discovered THEN at("url_not_discovered")
           ELSE IF a.url \notin surfaces /\ Cardinality(surfaces) >= cfg.maxSurfaces
           THEN at("surface_limit") ELSE NoDenial
      ELSE IF a.type \in {"activate", "capture_evidence"} /\ a.target # None /\ a.target \notin known
      THEN no("unknown_target_ref")
      ELSE IF a.type = "activate" /\ a.target \notin o.legalActivate THEN no("activation_not_safe")
      ELSE NoDenial

\* A candidate's key for duplicates: category and cited targets, none when a cited record has no target.
CandidateKey(c) ==
  IF \E id \in c.refs : evidence[id].target = None THEN None
  ELSE <<c.category, {evidence[id].target : id \in c.refs}>>

StoreCandidate(stored, c) ==
  LET resolved == c.refs \subseteq DOMAIN evidence
      same == {k \in DOMAIN stored : /\ stored[k].status = "candidate"
                                     /\ CandidateKey(stored[k]) = CandidateKey(c)}
      verdict == IF ~resolved THEN "rejected"
                 ELSE IF cfg.incremental /\ CandidateKey(c) # None /\ same # {} THEN "duplicate"
                 ELSE "candidate"
  IN  Append(stored, [status |-> verdict, category |-> c.category, refs |-> c.refs])

-----------------------------------------------------------------------------
Init ==
  /\ cfg \in Sessions
  /\ phase = "open" /\ step = 0 /\ calls = 0
  /\ status = "completed" /\ cause = None /\ proposal = None
  /\ page = Fresh(Start) /\ surfaces = {} /\ discovered = {}
  /\ refused = 0 /\ browser = 0
  /\ evidence = <<>> /\ candidates = <<>> /\ trace = <<>>
  /\ ledger = EmptyLedger /\ sched = Idle
  /\ turn = None /\ memo = [ids |-> {}, unknown |-> 0]
  /\ disk = [evidence |-> 0, candidates |-> <<>>, frontier |-> EmptyLedger, begun |-> {}]
  /\ result = None /\ shown = {} /\ faults = 0

pageVars == <<page, surfaces, discovered>>
denialVars == <<refused, browser>>
outVars == <<evidence, candidates, trace>>
endVars == <<disk, result, shown>>
Fault == faults < cfg.maxFaults /\ faults' = faults + 1

\* end(status): the loop is left with a status.
Leave(s) == phase' = "end" /\ status' = s

\* run(): the first page. Where it lands is the first surface.
Open ==
  /\ phase = "open" /\ cause = None
  /\ \E url \in Lands[Start] :
       /\ page' = Fresh(url) /\ surfaces' = {url}
       /\ phase' = "turn"
  /\ UNCHANGED <<cfg, step, calls, status, cause, proposal, discovered, denialVars, outVars, ledger,
                 sched, turn, memo, endVars, faults>>

LimitReached ==
  IF step >= cfg.maxSteps \/ calls >= cfg.maxCalls THEN "budget_exhausted"
  ELSE IF refused >= MaxDenials THEN "denial_limit" ELSE None

\* The turn's own limits; response bytes may be used up at any turn.
TurnLimited ==
  /\ phase = "turn" /\ cause = None
  /\ \/ LimitReached # None /\ Leave(LimitReached)
     \/ LimitReached \in {None, "denial_limit"} /\ Leave("budget_exhausted")
  /\ UNCHANGED <<cfg, step, calls, cause, proposal, pageVars, denialVars, outVars, ledger, sched,
                 turn, memo, endVars, faults>>

FinalCall == cfg.maxCalls - calls = 1 \/ cfg.maxSteps - step = 1

\* Observe, tell the ledger, and ask the provider unless its tokens are used up.
ObserveTurn ==
  /\ phase = "turn" /\ cause = None /\ LimitReached = None
  /\ LET o == Observation(FinalCall)
         L == Observe(ledger, o)
     IN  /\ ledger' = IF cfg.ledgerVisible THEN Compact(L, o, cfg.perSource) ELSE L
         /\ discovered' = discovered \cup ToSet(Links)
         /\ shown' = shown \cup Targets(o)
  /\ \/ Leave("budget_exhausted") /\ UNCHANGED <<calls, turn>>
     \/ /\ calls' = calls + 1 /\ phase' = "ask"
        /\ turn' = [final |-> FinalCall, action |-> None, denial |-> NoDenial, refusedNow |-> FALSE,
                    before |-> Len(evidence), outcome |-> "no_model_call", keep |-> TRUE]
        /\ UNCHANGED status
  /\ UNCHANGED <<cfg, step, cause, proposal, page, surfaces, denialVars, outVars, sched, memo, disk, result, faults>>

\* validate(): a refused action is a denial and ends the turn, any other is executed.
Decided(a) ==
  LET d == Refusal(a, Observation(turn.final))
  IN  /\ IF d # NoDenial
         THEN /\ phase' = "record" /\ refused' = refused + 1
              /\ turn' = [turn EXCEPT !.action = a, !.denial = d, !.outcome = "denied"]
              /\ memo' = [memo EXCEPT !.ids = {}]
         ELSE /\ phase' = "act" /\ turn' = [turn EXCEPT !.action = a]
              /\ memo' = [memo EXCEPT !.unknown = IF a.type = "unknown" THEN @ + 1 ELSE 0]
              /\ UNCHANGED refused
      /\ UNCHANGED <<cfg, step, calls, status, cause, proposal, pageVars, browser, outVars, ledger,
                     endVars, faults>>

\* A model may choose anything the reply format can express.
ModelActions ==
  LET o == Observation(turn.final)
      cited == [category |-> "any", refs |-> {Len(evidence)} \ {0}]
      forged == [category |-> "any", refs |-> {Len(evidence) + 1}]
  IN  {Plain(t) : t \in {"inspect_semantics", "escape", "unknown", "malformed"}}
      \cup {To(u) : u \in discovered \cup {Made}}
      \cup {On("activate", c.subject) : c \in ToSet(o.controls)}
      \cup {On("capture_evidence", Made), Reporting(cited)}
      \cup {Finishing(v, <<cited, forged>>) : v \in Verdicts}

ModelAnswers ==
  /\ phase = "ask" /\ cfg.selector = "model"
  /\ \E a \in ModelActions : Decided(a)
  /\ UNCHANGED sched

SchedulerAnswers ==
  /\ phase = "ask" /\ cfg.selector = "scheduler"
  /\ LET o == Observation(turn.final)
         d == Decide(sched, o, View(ledger, o, cfg.perSource), ledger, cfg.perSource)
     IN  Decided(d.action) /\ sched' = d.state

\* A reply that is no decision, or a provider that fails: logged, not flushed, and the session ends.
ProviderFails ==
  /\ phase = "ask" /\ cfg.selector = "model" /\ cause = None
  /\ \E s \in {"invalid_model_output", "timeout", "budget_exhausted", "provider_error"} : Leave(s)
  /\ UNCHANGED <<cfg, step, calls, cause, proposal, pageVars, denialVars, outVars, ledger, sched, turn,
                 memo, endVars, faults>>

-----------------------------------------------------------------------------
(* execute(): one action in the browser. *)

Evidence(kind) ==
  [kind |-> kind, before |-> page.at, target |-> turn.action.target, requested |-> turn.action.url,
   skipFacts |-> /\ kind \in {"inspect_semantics", "capture_evidence"}
                 /\ Observation(turn.final).skipLinks # {}]

\* The outcome of an action that returned or threw: denied when a denial was stored meanwhile.
Settled(stored, ids) ==
  LET two == memo.unknown >= MaxUnknown
  IN  /\ phase' = "record"
      /\ turn' = [turn EXCEPT !.refusedNow = @ \/ stored, !.keep = ~two,
                              !.outcome = IF turn.refusedNow \/ stored THEN "denied" ELSE "executed"]
      /\ memo' = [memo EXCEPT !.ids = ids]
      /\ status' = IF two THEN "completed" ELSE status

NewId == {Len(evidence) + 1}
Performing(types) == phase = "act" /\ turn.action.type \in types
Stores == browser < MaxBrowserDenials        \* deny(): a browser denial beyond the cap is only counted
RefuseUncapped == browser' = browser + 1
Refuse == browser' = IF Stores THEN browser + 1 ELSE browser

\* Inspect, capture, move the focus or press Escape: one record.
Probe ==
  /\ Performing({"inspect_semantics", "capture_evidence", "focus_next", "escape"})
  /\ evidence' = Append(evidence, Evidence(turn.action.type))
  /\ page' = IF turn.action.type # "escape" \/ page.dialog = None THEN page
             ELSE [page EXCEPT !.dialog = None, !.returned = ControlOf(page.dialog).focusBack]
  /\ Settled(FALSE, NewId)
  /\ UNCHANGED <<cfg, step, calls, cause, proposal, surfaces, discovered, denialVars, candidates, trace,
                 ledger, sched, endVars, faults>>

Navigate ==
  /\ Performing({"navigate"})
  /\ \E url \in Lands[turn.action.url] :
       /\ page' = Fresh(url) /\ surfaces' = surfaces \cup {url}
       /\ evidence' = Append(evidence, Evidence("navigate"))
  /\ Settled(FALSE, NewId)
  /\ UNCHANGED <<cfg, step, calls, cause, proposal, discovered, denialVars, candidates, trace, ledger,
                 sched, endVars, faults>>

\* The browser policy refuses the navigation: back to the last page, or an exception when the denial was not stored.
NavigateBlocked ==
  /\ Performing({"navigate"})
  /\ Fault
  /\ page' \in {page, Fresh(IF Stores THEN page.at ELSE ErrorPage)}
  /\ Refuse /\ Settled(Stores, {})
  /\ UNCHANGED <<cfg, step, calls, cause, proposal, surfaces, discovered, refused, outVars, ledger, sched,
                 endVars>>

\* What a click does: a toggle, a dialog, or a script that leaves the page.
Clicked(c) ==
  IF c.goes # None THEN Fresh(IF Navigable(c.goes) THEN c.goes ELSE ErrorPage)
  ELSE IF c.probe = "dialog_focus_return"
  THEN [page EXCEPT !.dialog = c.subject, !.returned = FALSE]
  ELSE IF c.probe = "disclosure_toggle"
  THEN [page EXCEPT !.expanded = IF c.subject \in @ THEN @ \ {c.subject} ELSE @ \cup {c.subject}]
  ELSE page

LeavesSite(subject) == ControlOf(subject).goes # None /\ ~Navigable(ControlOf(subject).goes)

\* A click that the browser policy stops may leave the tab on an error page, which fails the action after its record.
Activate ==
  /\ Performing({"activate"})
  /\ evidence' = Append(evidence, Evidence("activate"))
  /\ IF LeavesSite(turn.action.target)
     THEN /\ Refuse
          /\ \/ page' = page /\ Settled(Stores, NewId)
             \/ page' = Fresh(ErrorPage) /\ Settled(Stores, {})
     ELSE /\ page' = Clicked(ControlOf(turn.action.target))
          /\ Settled(FALSE, NewId) /\ UNCHANGED browser
  /\ UNCHANGED <<cfg, step, calls, cause, proposal, surfaces, discovered, refused, candidates, trace,
                 ledger, sched, endVars, faults>>

\* The re-check before the click refuses.
ActivateRefused ==
  /\ Performing({"activate"})
  /\ Fault
  /\ refused' = refused + 1 /\ Settled(TRUE, {})
  /\ UNCHANGED <<cfg, step, calls, cause, proposal, pageVars, browser, outVars, ledger, sched, endVars>>

\* An exception in the browser. A navigation or a click may have had its effect by then.
ActionThrows ==
  /\ Performing({"navigate", "activate", "inspect_semantics"}) /\ cause = None
  /\ Fault
  /\ page' \in {page} \cup
       CASE turn.action.type = "navigate" -> {Fresh(u) : u \in Lands[turn.action.url]}
         [] turn.action.type = "activate" -> {Clicked(ControlOf(turn.action.target))}
         [] OTHER -> {}
  /\ Settled(FALSE, {})
  /\ UNCHANGED <<cfg, step, calls, cause, proposal, surfaces, discovered, denialVars, outVars, ledger,
                 sched, endVars>>

Report ==
  /\ Performing({"report_candidate", "unknown"})
  /\ candidates' = FoldLeft(StoreCandidate, candidates, turn.action.candidates)
  /\ Settled(FALSE, {})
  /\ UNCHANGED <<cfg, step, calls, cause, proposal, pageVars, denialVars, evidence, trace, ledger, sched,
                 endVars, faults>>

FinishSession ==
  /\ Performing({"finish"})
  /\ status' = "completed" /\ proposal' = turn.action.verdict
  /\ candidates' = FoldLeft(StoreCandidate, candidates, turn.action.candidates)
  /\ turn' = [turn EXCEPT !.outcome = "finished", !.keep = FALSE]
  /\ memo' = [memo EXCEPT !.ids = {}]
  /\ phase' = "record"
  /\ UNCHANGED <<cfg, step, calls, cause, pageVars, denialVars, evidence, trace, ledger, sched, endVars, faults>>

-----------------------------------------------------------------------------
(* After the action: the ledger, the trace and the files. *)

Record ==
  /\ phase = "record"
  /\ LET L == RecordAll(ledger, turn.before, SubSeq(evidence, turn.before + 1, Len(evidence)))
     IN  ledger' = IF turn.denial.url = None THEN L
                   ELSE RecordDenial(L, turn.denial.url, turn.denial.reason)
  /\ trace' = Append(trace, [type |-> turn.action.type, url |-> turn.action.url, outcome |-> turn.outcome])
  /\ phase' = "write_evidence"
  /\ UNCHANGED <<cfg, step, calls, status, cause, proposal, pageVars, denialVars, evidence, candidates,
                 sched, turn, memo, endVars, faults>>

\* flush(): writeFile() empties the file, and there is no JSON in it until it is done.
Truncate ==
  /\ phase \in Flush \ disk.begun
  /\ disk' = [disk EXCEPT !.begun = @ \cup {phase}]
  /\ UNCHANGED <<cfg, phase, step, calls, status, cause, proposal, pageVars, denialVars, outVars, ledger, sched,
                 turn, memo, result, shown, faults>>

WriteEvidence ==
  /\ phase = "write_evidence" /\ phase \in disk.begun
  /\ disk' = [disk EXCEPT !.evidence = Len(evidence), !.begun = @ \ {phase}]
  /\ phase' = "write_candidates"
  /\ UNCHANGED <<cfg, step, calls, status, cause, proposal, pageVars, denialVars, outVars, ledger, sched,
                 turn, memo, result, shown, faults>>

WriteCandidates ==
  /\ phase = "write_candidates" /\ phase \in disk.begun
  /\ disk' = [disk EXCEPT !.candidates = candidates, !.begun = @ \ {phase}]
  /\ phase' = "write_frontier"
  /\ UNCHANGED <<cfg, step, calls, status, cause, proposal, pageVars, denialVars, outVars, ledger, sched,
                 turn, memo, result, shown, faults>>

\* The last file of a flush, then the end of the turn or of the session.
WriteFrontier ==
  /\ phase = "write_frontier" /\ phase \in disk.begun
  /\ disk' = [disk EXCEPT !.frontier = ledger, !.begun = @ \ {phase}]
  /\ IF result # None THEN phase' = "write_result" /\ UNCHANGED <<status, step>>
     ELSE IF ~turn.keep THEN phase' = "end" /\ UNCHANGED <<status, step>>
     ELSE IF turn.final THEN Leave("budget_exhausted") /\ UNCHANGED step
     ELSE phase' = "turn" /\ step' = step + 1 /\ UNCHANGED status
  /\ UNCHANGED <<cfg, calls, cause, proposal, pageVars, denialVars, outVars, ledger, sched, turn, memo,
                 result, shown, faults>>

CloseKeepsStatus ==
  /\ phase = "end"
  /\ result' = [status |-> status, proposal |-> proposal,
                outcome |-> IF ~cfg.accounting THEN None
                            ELSE Completion(ledger, status, cause = "cancelled", cfg.perSource)]
  /\ phase' = "write_evidence"
  /\ UNCHANGED <<cfg, step, calls, status, cause, proposal, pageVars, denialVars, outVars, ledger, sched, turn,
                 memo, disk, shown, faults>>

CloseWithoutFlush ==
  /\ phase = "end"
  /\ LET final == IF cause # None THEN cause ELSE status
     IN  /\ status' = final
         /\ result' = [status |-> final, proposal |-> proposal, outcome |-> None]
  /\ phase' = "write_result"
  /\ UNCHANGED <<cfg, step, calls, cause, proposal, pageVars, denialVars, outVars, ledger, sched, turn,
                 memo, disk, shown, faults>>

\* runSession(): the cause of an abort replaces the status; then completion, the last flush and the result.
Close ==
  /\ phase = "end"
  /\ LET final == IF cause # None THEN cause ELSE status
     IN  /\ status' = final
         /\ result' = [status |-> final, proposal |-> proposal,
                       outcome |-> IF ~cfg.accounting THEN None
                                   ELSE Completion(ledger, final, cause = "cancelled", cfg.perSource)]
  /\ phase' = "write_evidence"
  /\ UNCHANGED <<cfg, step, calls, cause, proposal, pageVars, denialVars, outVars, ledger, sched, turn,
                 memo, disk, shown, faults>>

WriteResult ==
  /\ phase = "write_result"
  /\ phase' = "done"
  /\ UNCHANGED <<cfg, step, calls, status, cause, proposal, pageVars, denialVars, outVars, ledger, sched,
                 turn, memo, endVars, faults>>

-----------------------------------------------------------------------------
(* The environment. *)

\* The caller cancels, or the wall-clock timer fires; the first cause stays.
Abort(why) ==
  /\ cause = None /\ result = None /\ phase # "end"
  /\ cause' = why
  /\ UNCHANGED <<cfg, phase, step, calls, status, proposal, pageVars, denialVars, outVars, ledger, sched,
                 turn, memo, endVars, faults>>

AbortBitesBetweenTurns ==
  /\ cause # None /\ phase \in {"open", "turn"} /\ phase' = "end"
  /\ UNCHANGED <<cfg, step, calls, status, cause, proposal, pageVars, denialVars, outVars, ledger, sched, turn,
                 memo, endVars, faults>>

\* An abort closes the context: the await at hand throws and the session ends without its status. A click that
\* left the allowed sites may have its record already; the ledger never learns of that one.
AbortBites ==
  /\ cause # None
  /\ phase \in {"open", "turn", "act"} \/ (phase = "ask" /\ cfg.selector = "model")
  /\ phase' = "end"
  /\ evidence' \in {evidence} \cup
       IF Performing({"activate"}) /\ LeavesSite(turn.action.target)
       THEN {Append(evidence, Evidence("activate"))} ELSE {}
  /\ UNCHANGED <<cfg, step, calls, status, cause, proposal, pageVars, denialVars, candidates, trace, ledger,
                 sched, turn, memo, endVars, faults>>

\* The first page, the observation or a file of a turn's flush fails, before the file is opened or after.
RunFails ==
  /\ phase \in {"open", "turn"} \cup Flush /\ result = None
  /\ Leave(IF cause = None THEN "error" ELSE status)
  /\ UNCHANGED <<cfg, step, calls, cause, proposal, pageVars, denialVars, outVars, ledger, sched, turn,
                 memo, endVars, faults>>

\* The page does something of its own that the browser policy refuses: a beacon, a popup.
Beacon ==
  /\ phase \in {"ask", "act"} /\ ~turn.refusedNow /\ Stores
  /\ Fault
  /\ browser' = browser + 1 /\ turn' = [turn EXCEPT !.refusedNow = TRUE]
  /\ UNCHANGED <<cfg, phase, step, calls, status, cause, proposal, pageVars, refused, outVars, ledger,
                 sched, memo, endVars>>

Execute1 ==
  \/ Probe \/ Navigate \/ NavigateBlocked \/ Activate \/ ActivateRefused \/ ActionThrows
  \/ Report \/ FinishSession

Next ==
  \/ Open \/ TurnLimited \/ ObserveTurn \/ ModelAnswers \/ SchedulerAnswers \/ ProviderFails
  \/ Execute1 \/ Record \/ Truncate \/ WriteEvidence \/ WriteCandidates \/ WriteFrontier \/ Close \/ WriteResult
  \/ \E why \in Causes : Abort(why)
  \/ AbortBites \/ RunFails \/ Beacon

\* The session's own steps, its timer and the effect of an abort happen, and the scheduler, which computes its answer,
\* does not leave a question open for ever; the browser and a model may stay silent.
Fairness ==
  /\ WF_vars(Record \/ Truncate \/ WriteEvidence \/ WriteCandidates \/ WriteFrontier \/ Close \/ WriteResult)
  /\ []<>(phase # "ask" \/ cfg.selector # "scheduler")
  /\ WF_vars(Abort("timeout"))
  /\ WF_vars(AbortBites)

Spec == Init /\ [][Next]_vars /\ Fairness

-----------------------------------------------------------------------------
(* Correctness. *)

\* Types: ledger entries name pages and evidence that exist, and the denial counters keep their caps.
TypeOK ==
  /\ cfg \in Sessions /\ phase \in Phases /\ status \in Statuses
  /\ step \in 0..cfg.maxSteps /\ calls \in 0..cfg.maxCalls
  /\ cause \in Causes \cup {None} /\ proposal \in Verdicts \cup {None}
  /\ refused \in 0..MaxDenials /\ browser \in 0..MaxBrowserDenials
  /\ page.at \in DOMAIN Site /\ surfaces \subseteq DOMAIN Site
  /\ disk.evidence \in 0..Len(evidence) /\ disk.begun \subseteq Flush
  /\ \A i \in DOMAIN ledger.obligations :
       /\ ledger.obligations[i].page \in DOMAIN ledger.pages
       /\ ledger.obligations[i].cites \subseteq DOMAIN evidence
       /\ ledger.obligations[i].status \in {"pending", "executed", "blocked", "deferred"}
  /\ result \in Results \cup {None}

\* The records among ids that show a probe really ran on the page at a URL.
Probed(ev, ids, url, probe, subject) ==
  LET here == {id \in ids : ev[id].before = url}
      Opened(id) == ev[id].kind = "activate" /\ ev[id].target = subject
      skips == {c.subject : c \in {d \in ToSet(Site[url].controls) : d.skip # "no"}}
  IN  CASE probe = "semantics" ->
             \E id \in here : ev[id].kind \in {"inspect_semantics", "capture_evidence"}
        [] probe = "skip_link" ->
             \E id \in here : ev[id].skipFacts \/ (ev[id].kind = "activate" /\ ev[id].target \in skips)
        [] probe = "disclosure_toggle" -> \E id \in here : Opened(id)
        [] OTHER -> \E id, later \in here : Opened(id) /\ ev[later].kind = "escape" /\ id < later

\* The ledger and the evidence tell the same story (frontier.ts "the only path to executed"): an executed obligation cites records of
\* a probe of its own page and subject, and between turns an inspected page that the ledger knows owes no semantics, whatever
\* failed, was refused or was aborted in between.
LedgerAgreesWithEvidence ==
  /\ \A i \in DOMAIN ledger.obligations :
       LET ob == ledger.obligations[i]
       IN  ob.status = "executed" <=> Probed(evidence, ob.cites, ledger.pages[ob.page].url, ob.probe, ob.subject)
  /\ phase \in {"turn", "done"} =>
       \A id \in DOMAIN evidence :
         LET p == PageNo(ledger, evidence[id].before)
         IN  evidence[id].kind \in {"inspect_semantics", "capture_evidence"} /\ p # 0 =>
               \A i \in Keyed(ledger, p, "semantics", None) : ledger.obligations[i].status = "executed"

\* A completion of complete_within_scope (classifyCompletion) is true of the site: every control, dialog and skip link any turn
\* saw on a page in the sampling scope was really probed, across ledger bounds, compact-view bounds, refusals and redirects.
CompleteCoversShown ==
  result # None /\ result.outcome = "complete_within_scope" =>
    \A t \in shown : \A p \in SamplingScope(ledger, cfg.perSource) :
      ledger.pages[p].url = t[1] => Probed(evidence, DOMAIN evidence, t[1], t[2], t[3])

\* When the scheduler proposes "complete" and the session ends as it asked, the controller, where completion is accounted for,
\* agrees unless the ledger was truncated (docs/experiments/FRONTIER_BENCHMARK.md:110: about 0 by construction). The two judge by
\* different data: the compact view, which is clipped, and the whole ledger.
SchedulerNeverPremature ==
  result # None /\ cfg.selector = "scheduler" /\ cfg.accounting /\ result.status = "completed"
    /\ result.proposal = "complete" /\ ledger.truncated = {} =>
      result.outcome = "complete_within_scope"

\* The last actions of a trace are n times unknown, with nothing but refusals in between.
GaveUpAfter(t, n) ==
  \E k \in DOMAIN t : /\ Cardinality({j \in k..Len(t) : t[j].type = "unknown"}) >= n
                     /\ \A j \in k..Len(t) : t[j].type = "unknown" \/ t[j].outcome = "denied"

\* A status of "completed" - the initial value of the field - is reported only when the provider finished or gave up, never for
\* a session that was aborted, timed out or failed before or while it finished.
CompletedIsEarned ==
  result # None /\ result.status = "completed" => cause = None /\ (proposal # None \/ GaveUpAfter(trace, MaxUnknown))

\* What a crash at any instant leaves. A session that did not fail has at most the file it was writing cut short; where
\* evidence.json is whole, all that candidates.json and frontier.json cite is in it, unless they are cut short themselves; and once
\* the session is over, however it ended and whatever an earlier flush left, the files are whole and hold everything it had.
DiskRefsResolve ==
  /\ status # "error" /\ cause = None => disk.begun \subseteq {phase}
  /\ {"write_evidence", "write_candidates"} \cap disk.begun = {} =>
       \A k \in DOMAIN disk.candidates : disk.candidates[k].status # "rejected" => disk.candidates[k].refs \subseteq 1..disk.evidence
  /\ {"write_evidence", "write_frontier"} \cap disk.begun = {} =>
       \A i \in DOMAIN disk.frontier.obligations : disk.frontier.obligations[i].cites \subseteq 1..disk.evidence
  /\ phase = "done" =>
       disk = [evidence |-> Len(evidence), candidates |-> candidates, frontier |-> ledger, begun |-> {}]

\* Every session ends with a written result, though the browser and the model may stay silent for ever.
SessionSettles == <>(phase = "done")

\* What the benchmark counts as selected: a navigation the trace calls executed was carried out by the executor.
SelectedIsCarriedOut ==
  \A k \in DOMAIN trace :
    trace[k].type = "navigate" /\ trace[k].outcome = "executed" =>
      \E id \in DOMAIN evidence : evidence[id].kind = "navigate" /\ evidence[id].requested = trace[k].url
=============================================================================
