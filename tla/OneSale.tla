------------------------------ MODULE OneSale ------------------------------
(***************************************************************************)
(* What one exit call promises, whatever ladder of slippages, chain of     *)
(* routers and failover of nodes it goes through: it sells its share at    *)
(* most once.  A transaction is signed only while no earlier one has sold  *)
(* or can still sell, a call that reports an executed sale has sold, a     *)
(* call that reports none (a failure, or an outcome it has no signature    *)
(* for) neither sold nor left a transaction behind that can, and every     *)
(* call ends.                                                              *)
(***************************************************************************)
EXTENDS Naturals

VARIABLES
    sold,     \* how many transactions of the call have landed
    live,     \* a transaction of the call can still land
    outcome   \* how the call ended

vars == <<sold, live, outcome>>

Outcomes == {"executed", "submitted", "failed", "unresolved"}

Init == sold = 0 /\ live = FALSE /\ outcome = "none"

\* The call hands a transaction to the network.
Send ==
    /\ outcome = "none" /\ sold = 0 /\ ~live
    /\ live' = TRUE
    /\ UNCHANGED <<sold, outcome>>

Land ==
    /\ live
    /\ sold' = sold + 1
    /\ live' = FALSE
    /\ UNCHANGED outcome

\* The transaction is reverted, or the block it was valid for has passed.
Die ==
    /\ live
    /\ live' = FALSE
    /\ UNCHANGED <<sold, outcome>>

End(o) ==
    /\ outcome = "none"
    /\ o = "executed" => sold = 1
    /\ o \in {"failed", "unresolved"} => sold = 0 /\ ~live
    /\ outcome' = o
    /\ UNCHANGED <<sold, live>>

Next == Send \/ Land \/ Die \/ \E o \in Outcomes : End(o)

Spec == Init /\ [][Next]_vars

FairSpec == Spec /\ WF_vars(\E o \in Outcomes : End(o))
============================================================================
