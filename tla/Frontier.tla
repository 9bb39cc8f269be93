------------------------------ MODULE Frontier ------------------------------
(* The frontier ledger of the adaptive harness (src/experimental/adaptive/   *)
(* frontier.ts): which pages and probe obligations exist and which of them   *)
(* ran, as operators from a ledger to a ledger. Page and obligation ids are  *)
(* the positions in the two sequences. Kinds of discovery, applicability,    *)
(* step numbers and the wording of reasons are left out; a reason is kept as *)
(* the class that completion tells apart.                                    *)
EXTENDS Integers, Sequences, FiniteSets, SequencesExt

CONSTANTS None,             \* null
          MaxPages, MaxStates, MaxObligations,   \* DEFAULT_FRONTIER_BOUNDS
          CompactPages, CompactOutstanding       \* DEFAULT_COMPACT_BOUNDS

ASSUME BoundsAssumption ==
  {MaxPages, MaxStates, MaxObligations, CompactPages, CompactOutstanding} \subseteq Nat \ {0}

IsSeq(s) == s \in Seq(ToSet(s))

\* The elements of a sequence that are in a set, in order.
Picked(s, S) == FoldLeft(LAMBDA acc, x : IF x \in S THEN Append(acc, x) ELSE acc, <<>>, s)

Probes == {"semantics", "skip_link", "disclosure_toggle", "dialog_focus_return"}

EmptyLedger ==
  [pages |-> <<>>, obligations |-> <<>>, states |-> {}, truncated |-> {},
   last |-> 0, skipRefs |-> {}, openDialog |-> None, capped |-> FALSE]

\* The position of a page, 0 when the ledger does not know the URL.
PageNo(L, url) == LET known == {p \in DOMAIN L.pages : L.pages[p].url = url}
                  IN  IF known = {} THEN 0 ELSE CHOOSE p \in known : TRUE

KeyedAnywhere(L, p, probe, subject) ==
  {i \in DOMAIN L.obligations : L.obligations[i].probe = probe /\ L.obligations[i].subject = subject}

\* The obligations with a key (at most one).
Keyed(L, p, probe, subject) ==
  {i \in DOMAIN L.obligations : /\ L.obligations[i].page = p
                                /\ L.obligations[i].probe = probe
                                /\ L.obligations[i].subject = subject}

Drop(L, kind) == [L EXCEPT !.truncated = @ \cup {kind}]

AddObligation(L, p, probe, subject) ==
  IF Keyed(L, p, probe, subject) # {} THEN L
  ELSE IF Len(L.obligations) >= MaxObligations THEN Drop(L, "obligations")
  ELSE [L EXCEPT !.obligations =
          Append(@, [page |-> p, probe |-> probe, subject |-> subject,
                     status |-> "pending", reason |-> "none", cites |-> {}])]

AddPage(L, url, source) ==
  LET p == Len(L.pages) + 1
      new == [url |-> url, source |-> source, modelVisible |-> FALSE, visited |-> FALSE]
  IN  IF PageNo(L, url) # 0 THEN L
      ELSE IF Len(L.pages) >= MaxPages THEN Drop(L, "pages")
      ELSE AddObligation(AddObligation([L EXCEPT !.pages = Append(@, new)],
                                       p, "semantics", None), p, "skip_link", None)

Marked(ob, status, reason) == [ob EXCEPT !.status = status, !.reason = reason]

Executed(ob, ids) == [ob EXCEPT !.status = "executed", !.reason = "none", !.cites = @ \cup ids]

Execute(L, p, probe, subject, ids) ==
  [L EXCEPT !.obligations = [i \in DOMAIN @ |->
     IF i \in Keyed(L, p, probe, subject) /\ @[i].status # "executed"
     THEN Executed(@[i], ids) ELSE @[i]]]

\* A page without a skip link defers that obligation, and one that shows it later takes it up again.
SkipLinkSeen(L, p, shown) ==
  [L EXCEPT !.obligations = [i \in DOMAIN @ |->
     IF i \notin Keyed(L, p, "skip_link", None) THEN @[i]
     ELSE IF shown /\ @[i].status = "deferred"
     THEN Marked(@[i], "pending", "none")
     ELSE IF ~shown /\ @[i].status = "pending"
     THEN Marked(@[i], "deferred", "not_applicable")
     ELSE @[i]]]

\* The state key of an observation: the page, what is expanded and how many dialogs are open.
StateKey(o) == <<o.url, o.expanded, Cardinality(o.dialogs)>>

\* A page the model may choose stays one it has seen.
Visible(page, now) == [page EXCEPT !.modelVisible = @ \/ now]

\* The page the browser shows; what is discovered from now on comes from it.
Visit(L, p) == [L EXCEPT !.pages[p].visited = TRUE, !.last = p]

\* What is noted of any observation: whether the surface cap is reached, and which targets are skip links.
Noted(L, o) == [L EXCEPT !.capped = @ \/ o.surfacesLeft <= 0, !.skipRefs = o.skipLinks]

\* The pages that page p, at a URL, links to, and the obligations of its controls.
AddLinked(L, p, url, urls) ==
  FoldLeft(LAMBDA acc, u : IF u = url THEN acc ELSE AddPage(acc, u, p), L, urls)

AddControls(L, p, controls) ==
  FoldLeft(LAMBDA acc, c : IF c.probe = None THEN acc ELSE AddObligation(acc, p, c.probe, c.subject), L, controls)

\* Registers what the browser showed. Execution is never learned here.
Observe(L, o) ==
  LET L1 == Noted(AddPage(L, o.url, L.last), o)
      p  == PageNo(L1, o.url)
      L2 == IF p = 0 THEN L1
            ELSE SkipLinkSeen(Visit(L1, p), p, o.skipLinks # {})
      L3 == IF p = 0 THEN L2 ELSE AddLinked(L2, p, o.url, o.discoveredNow)
      L4 == [L3 EXCEPT !.pages = [q \in DOMAIN @ |->
               Visible(@[q], @[q].url \in o.legalNavigate)]]
      L5 == IF StateKey(o) \in L4.states THEN L4
            ELSE IF Cardinality(L4.states) >= MaxStates THEN Drop(L4, "states")
            ELSE [L4 EXCEPT !.states = @ \cup {StateKey(o)}]
  IN  IF p = 0 THEN L4 ELSE AddControls(L5, p, o.controls)

\* One evidence record of the executor. The page is the one the action started on.
RecordEvidence(L, id, e) ==
  LET p == PageNo(L, e.before)
      semantics == Execute(L, p, "semantics", None, {id})
      skip == IF e.target \in L.skipRefs THEN Execute(L, p, "skip_link", None, {id}) ELSE L
      toggled == Execute(skip, p, "disclosure_toggle", e.target, {id})
  IN  IF p = 0 THEN L
      ELSE IF e.kind \in {"inspect_semantics", "capture_evidence"}
      THEN IF e.skipFacts THEN Execute(semantics, p, "skip_link", None, {id}) ELSE semantics
      ELSE IF e.kind = "activate"
      THEN [toggled EXCEPT !.openDialog =
              IF Keyed(L, p, "dialog_focus_return", e.target) = {} THEN None
              ELSE [page |-> p, subject |-> e.target, activated |-> id]]
      ELSE IF e.kind = "escape" /\ L.openDialog # None /\ L.openDialog.page = p
      THEN [Execute(L, p, "dialog_focus_return", L.openDialog.subject,
                    {L.openDialog.activated, id}) EXCEPT !.openDialog = None]
      ELSE L

\* The records of a turn, the first of which follows number before.
RecordAll(L, before, new) ==
  FoldLeft(LAMBDA acc, k : RecordEvidence(acc, before + k, new[k]), L, [k \in DOMAIN new |-> k])

\* A refused navigation to a known page blocks what is pending on it.
RecordDenial(L, url, reason) ==
  LET p == PageNo(L, url)
  IN  [L EXCEPT !.obligations = [i \in DOMAIN @ |->
         IF p # 0 /\ @[i].page = p /\ @[i].status = "pending"
         THEN Marked(@[i], "blocked", reason) ELSE @[i]]]

\* The first N pages of each discovery source, in discovery order.
SamplingScope(L, n) ==
  {p \in DOMAIN L.pages : Cardinality({q \in 1..(p - 1) : L.pages[q].source = L.pages[p].source}) < n}

FirstOf(s, n) == SubSeq(s, 1, IF Len(s) < n THEN Len(s) ELSE n)

ViewCountsShown(L, o, n) ==
  LET shown == {p \in DOMAIN L.pages : L.pages[p].visited \/ L.pages[p].url \in o.legalNavigate}
      owed == {i \in DOMAIN L.obligations : L.obligations[i].status = "pending" /\ L.obligations[i].page \in shown}
  IN  [pages |-> SetToSortSeq(shown, <), current |-> PageNo(L, o.url),
       outstanding |-> SetToSortSeq(owed, <), remaining |-> Cardinality(owed)]

\* The compact view of a turn: current page, then unvisited, then visited ones.
View(L, o, n) ==
  LET eligible == {p \in DOMAIN L.pages :
                     \/ L.pages[p].visited
                     \/ L.pages[p].url \in o.legalNavigate
                     \/ o.surfacesLeft > 0 /\ p \in SamplingScope(L, n)}
      Rank(p) == IF L.pages[p].url = o.url THEN 0 ELSE IF L.pages[p].visited THEN 2 ELSE 1
      Before(p, q) == Rank(p) < Rank(q) \/ (Rank(p) = Rank(q) /\ p < q)
      shown == FirstOf(SetToSortSeq(eligible, Before), CompactPages)
      owed == {i \in DOMAIN L.obligations : /\ L.obligations[i].status \in {"pending", "blocked"}
                                            /\ L.obligations[i].page \in ToSet(shown)}
      Sooner(i, j) == LET p == L.obligations[i].page
                          q == L.obligations[j].page
                      IN  Before(p, q) \/ (p = q /\ i < j)
  IN  [pages |-> shown,
       current |-> IF PageNo(L, o.url) \in ToSet(shown) THEN PageNo(L, o.url) ELSE 0,
       outstanding |-> FirstOf(SetToSortSeq(owed, Sooner), CompactOutstanding),
       remaining |-> Cardinality({i \in DOMAIN L.obligations : L.obligations[i].status = "pending"})]

\* Showing the compact view makes its pages visible to the model.
Compact(L, o, n) ==
  [L EXCEPT !.pages = [p \in DOMAIN @ |->
     Visible(@[p], p \in ToSet(View(L, o, n).pages))]]

RelevantUnlessCapped(L, n) ==
  {i \in DOMAIN L.obligations :
     LET p == L.obligations[i].page
     IN  /\ L.obligations[i].status = "pending" /\ p \in SamplingScope(L, n)
         /\ ~L.capped /\ (L.pages[p].visited \/ L.pages[p].modelVisible)}

\* What a ledger leaves open: the relevant reachable obligations that are pending.
RelevantPending(L, n) ==
  {i \in DOMAIN L.obligations :
     LET p == L.obligations[i].page
     IN  /\ L.obligations[i].status = "pending"
         /\ p \in SamplingScope(L, n)
         /\ L.pages[p].visited \/ (~L.capped /\ L.pages[p].modelVisible)}

\* What the surface cap kept out of reach: refused at the cap, or never visited once it was reached.
SurfaceCapped(L, n) ==
  {i \in DOMAIN L.obligations :
     LET ob == L.obligations[i]
     IN  \/ ob.status = "blocked" /\ ob.reason = "surface_limit"
         \/ /\ ob.status = "pending" /\ ob.page \in SamplingScope(L, n)
            /\ L.capped /\ ~L.pages[ob.page].visited}

Blocked(L) == {i \in DOMAIN L.obligations : /\ L.obligations[i].status = "blocked"
                                            /\ L.obligations[i].reason # "surface_limit"}

Completions == {"cancelled", "exhausted", "partial", "blocked", "complete_within_scope"}

\* The controller's completion; the finish verdict is only a proposal and is not read.
Completion(L, status, cancelled, n) ==
  IF cancelled THEN "cancelled"
  ELSE IF status \in {"budget_exhausted", "timeout"} THEN "exhausted"
  ELSE IF RelevantPending(L, n) # {} \/ L.truncated # {} THEN "partial"
  ELSE IF SurfaceCapped(L, n) # {} THEN "exhausted"
  ELSE IF Blocked(L) # {} THEN "blocked"
  ELSE IF status = "completed" THEN "complete_within_scope"
  ELSE "partial"
=============================================================================
