------------------------- MODULE MCAdaptiveSession -------------------------
(* A small site for AdaptiveSession: u1 has a skip link and a menu that      *)
(* reveals u3, u2 a dialog that mishandles the focus, u3 a button without a  *)
(* name whose script leaves the allowed sites; u3 may redirect to u2, and u2 *)
(* to u4. The ledger holds five states, so a session that also sees the      *)
(* browser's error page goes beyond it. Models take two to four turns over   *)
(* it, the scheduler as many as it needs.                                    *)
EXTENDS AdaptiveSession, TLC

CONSTANTS u1, u2, u3, u4, err, off, made, jump, menu, trigger, go

Control(subject) ==
  [subject |-> subject, probe |-> None, safe |-> TRUE, named |-> TRUE, skip |-> "no",
   reveals |-> <<>>, goes |-> None, focusIn |-> FALSE, focusBack |-> FALSE]

MCSite ==
  u1 :> [links |-> <<u2>>,
         controls |-> <<[Control(jump) EXCEPT !.skip = "broken", !.safe = FALSE],
                        [Control(menu) EXCEPT !.probe = "disclosure_toggle", !.reveals = <<u3>>]>>]
  @@ u2 :> [links |-> <<u1>>, controls |-> <<[Control(trigger) EXCEPT !.probe = "dialog_focus_return"]>>]
  @@ u3 :> [links |-> <<off>>,
            controls |-> <<[Control(go) EXCEPT !.probe = "disclosure_toggle", !.goes = off, !.named = FALSE]>>]
  @@ u4 :> [links |-> <<u2>>, controls |-> <<>>]
  @@ err :> [links |-> <<>>, controls |-> <<>>]

MCLands == u1 :> {u1} @@ u2 :> {u2, u4} @@ u3 :> {u2, u3} @@ u4 :> {u4}

Session(selector, accounting, incremental, steps, callLimit, surfaceLimit, faultLimit) ==
  [selector |-> selector, ledgerVisible |-> selector = "scheduler", accounting |-> accounting,
   incremental |-> incremental, perSource |-> 2,
   maxSteps |-> steps, maxCalls |-> callLimit, maxSurfaces |-> surfaceLimit,
   maxFaults |-> faultLimit]

MCSessions ==
  {Session("scheduler", TRUE, TRUE, 22, 23, 3, 1), Session("scheduler", TRUE, TRUE, 14, 15, 2, 1),
   Session("scheduler", TRUE, TRUE, 9, 7, 3, 1),
   [Session("model", TRUE, TRUE, 3, 4, 1, 0) EXCEPT !.ledgerVisible = TRUE],
   Session("model", FALSE, FALSE, 2, 3, 2, 1), Session("model", FALSE, FALSE, 4, 5, 1, 0)}
=============================================================================
