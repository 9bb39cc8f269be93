--------------------------- MODULE RunLifecycle ---------------------------
(***************************************************************************)
(* What a run promises to whoever watches it: its state only ever moves    *)
(* along the table `allowed` of the control centre's state module, and the *)
(* four outcomes are final.  A reclaim of an expired lease is not a        *)
(* transition: the run was running and still is.                           *)
(***************************************************************************)
CONSTANT Run
VARIABLE state

Final == {"succeeded", "partial", "failed", "cancelled"}

(* `allowed`, with the insertion of the row as the move out of "absent". *)
Allowed ==
    {<<"absent", "queued">>, <<"queued", "running">>, <<"queued", "cancelled">>}
        \cup ({"running"} \X Final)

Init == state = [r \in Run |-> "absent"]

Transition(r, to) ==
    /\ <<state[r], to>> \in Allowed
    /\ state' = [state EXCEPT ![r] = to]

Next == \E r \in Run : \E to \in {"queued", "running"} \cup Final : Transition(r, to)

Spec == Init /\ [][Next]_state
============================================================================
