--------------------------- MODULE MCModelBudget ---------------------------
(* A small instance of ModelBudget: the constants are numbers and are given
   values by the configurations. *)
EXTENDS ModelBudget

(* The caps of a configuration can be reached, each by some requests. *)
ASSUME CapsBite ==
    /\ MaxCalls < MaxRequests
    /\ \E chars \in Chars : MaxRequests * InputWorst(chars) > MaxInput
    /\ \E output \in OutputCap : MaxRequests * output > MaxOutput
    /\ MaxClock > MaxWall
============================================================================
