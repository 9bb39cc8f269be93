------------------------------- MODULE Journeys -------------------------------
(* The bounded keyboard journeys over one loaded page: journeys/engine.ts,   *)
(* skip-link.ts, safety.ts and focus-evidence.ts. They share the page, its   *)
(* focus and its widgets, in the order of runSafeJourneys. The page is a     *)
(* sequence of elements in DOM order; focus 0 is the body. What a browser    *)
(* does with Tab, Enter and focus() is modelled from outside.                *)
(*                                                                           *)
(* An element: kind "button" (type=button), "submit", "link" (to a page),    *)
(* "fragment" (href="#...") or "widget" (role=button); whether it sits in a  *)
(* form, takes the focus, shows it; aria-expanded ("none" without one) and   *)
(* whether Enter toggles it; where the focus goes when it is activated (0:   *)
(* nowhere else); the dialog it announces ("none", "missing", "silent" or    *)
(* "managed"); what its fragment leads to ("none" when it is no skip link).  *)
EXTENDS Naturals, FiniteSets, SequencesExt, FiniteSetsExt

CONSTANTS
  MaxTabs,         \* 12: Tab presses of the focus trace
  MaxSkipLinks,    \* 20
  MaxExpandables,  \* 8
  MaxTriggers      \* 12

Kinds == {"button", "submit", "link", "fragment", "widget"}
Outcomes == {"pass", "violation", "incomplete", "inapplicable"}

Elements(dom, Test(_)) == SelectSeq([i \in 1..Len(dom) |-> i], LAMBDA i : Test(dom[i]))
UpTo(s, n) == SubSeq(s, 1, IF Len(s) < n THEN Len(s) ELSE n)

\* isSafeActivationTarget
Safe(e) == ~e.form /\ e.kind \in {"button", "fragment", "widget"}

Fresh(dom) == [focus |-> 0, expanded |-> [i \in 1..Len(dom) |-> dom[i].expanded], acted |-> {}]

\* locator.focus(): an element that cannot take the focus leaves it where it was.
FocusOn(dom, st, i) == IF dom[i].focusable THEN [st EXCEPT !.focus = i] ELSE st

Flip(value) == IF value = "true" THEN "false" ELSE "true"

\* Enter goes to whatever has the focus.
PressEnter(dom, st) ==
  LET f == st.focus
  IN IF f = 0 THEN st
     ELSE [st EXCEPT !.acted = @ \cup {f},
                     !.expanded[f] = IF dom[f].toggles THEN Flip(@) ELSE @,
                     !.focus = IF dom[f].to = 0 THEN f ELSE dom[f].to]

-----------------------------------------------------------------------------
(* keyboardFocusJourney: the trace ends at the body or after MaxTabs. *)

Tabbed(dom) == Elements(dom, LAMBDA e : e.focusable)
Traced(dom) == UpTo(Tabbed(dom), MaxTabs)

FocusOutcome(dom) ==
  IF Traced(dom) # <<>> /\ \A i \in ToSet(Traced(dom)) : dom[i].shows THEN "pass" ELSE "incomplete"

AfterTrace(dom, st) ==
  [st EXCEPT !.focus = IF Len(Tabbed(dom)) >= MaxTabs THEN Tabbed(dom)[MaxTabs] ELSE 0]

(* skipLinkJourney: the first recognizable skip link with a fragment decides. *)
SkipLinks(dom) ==
  SelectSeq(UpTo(Elements(dom, LAMBDA e : e.kind = "fragment"), MaxSkipLinks),
            LAMBDA i : dom[i].target \notin {"none", "empty"})

SkipLinkOutcome(dom) ==
  IF SkipLinks(dom) = <<>> THEN "inapplicable"
  ELSE LET target == dom[SkipLinks(dom)[1]].target
       IN CASE target = "main" -> "pass"
            [] target = "absent" -> "violation"
            [] OTHER -> "incomplete"    \* a malformed fragment, or a target that is no landmark

-----------------------------------------------------------------------------
(* expandableJourney: each control is activated and, when it reacted, again. *)

Stateful == {"true", "false"}

TryExpandable(dom, acc, i) ==
  IF ~Safe(dom[i]) \/ acc.st.expanded[i] \notin Stateful THEN acc
  ELSE LET opened == PressEnter(dom, FocusOn(dom, acc.st, i))
           reacted == opened.expanded[i] # acc.st.expanded[i]
       IN [st |-> IF reacted THEN PressEnter(dom, opened) ELSE opened,
           tested |-> acc.tested + 1,
           toggled |-> acc.toggled + (IF reacted THEN 1 ELSE 0)]

Expandables(dom, st) ==
  FoldLeft(LAMBDA acc, i : TryExpandable(dom, acc, i), [st |-> st, tested |-> 0, toggled |-> 0],
           UpTo(Elements(dom, LAMBDA e : e.expanded # "none"), MaxExpandables))

ExpandableOutcome(r) ==
  IF r.tested = 0 THEN "inapplicable" ELSE IF r.toggled = r.tested THEN "pass" ELSE "incomplete"

(* dialogJourney: the first safe trigger decides. Where the focus went is asked of the *)
(* first dialog of the page, whichever was opened; dialogs lie in their triggers' order. *)
Triggers(dom) ==
  SelectSeq(UpTo(Elements(dom, LAMBDA e : e.dialog # "none"), MaxTriggers), LAMBDA i : Safe(dom[i]))

OnTrigger(dom, st) == FocusOn(dom, st, Triggers(dom)[1])
AfterDialog(dom, st) == IF Triggers(dom) = <<>> THEN st ELSE PressEnter(dom, OnTrigger(dom, st))

HasDialog(e) == e.dialog \in {"silent", "managed"}

\* The focus must go into that dialog and come back to the trigger itself.
DialogOutcome(dom, st) ==
  LET t == Triggers(dom)[1]
  IN IF Triggers(dom) = <<>> THEN "inapplicable"
     ELSE IF /\ OnTrigger(dom, st).focus = t /\ dom[t].dialog = "managed"
             /\ ~\E i \in 1..(t - 1) : HasDialog(dom[i]) THEN "pass" ELSE "incomplete"

-----------------------------------------------------------------------------
(* The four journeys one after the other on one page. *)
RunSafeJourneys(dom) ==
  LET traced == AfterTrace(dom, Fresh(dom))
      expanded == Expandables(dom, traced)
      done == AfterDialog(dom, expanded.st)
  IN [results |-> [keyboard_focus |-> FocusOutcome(dom),
                   skip_link |-> SkipLinkOutcome(dom),
                   expandable |-> ExpandableOutcome(expanded),
                   dialog |-> DialogOutcome(dom, expanded.st)],
      acted |-> done.acted,
      left |-> \E i \in done.acted : dom[i].kind = "link"]
=============================================================================
