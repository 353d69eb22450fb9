--------------------------- MODULE AlertProtocol ----------------------------
(***************************************************************************)
(* What airspace.alerts.v1 promises to a consumer that keeps the latest    *)
(* state of each alert key (contracts.py, AlertState): an alert is raised  *)
(* as NEW, published again as SUSTAINED while it lasts, and closed as      *)
(* CLEARED, over and over.  The one licence is a restart of the producer   *)
(* (ADR 0005): it orphans the alerts that are open, which may be raised a  *)
(* second time or never be heard of again.                                 *)
(***************************************************************************)
EXTENDS Naturals

CONSTANTS Condition

VARIABLES
    announced,  \* the latest state published for each condition
    orphaned,   \* open alerts their producer has forgotten
    restarts

vars == <<announced, orphaned, restarts>>

Open == {c \in Condition : announced[c] \in {"NEW", "SUSTAINED"}}

Init ==
    /\ announced = [c \in Condition |-> "NONE"]
    /\ orphaned = {}
    /\ restarts = 0

Raise(c) ==
    /\ c \notin Open \ orphaned
    /\ announced' = [announced EXCEPT ![c] = "NEW"]
    /\ orphaned' = orphaned \ {c}
    /\ UNCHANGED restarts

Sustain(c) ==
    /\ c \in Open \ orphaned
    /\ announced' = [announced EXCEPT ![c] = "SUSTAINED"]
    /\ UNCHANGED <<orphaned, restarts>>

Clear(c) ==
    /\ c \in Open \ orphaned
    /\ announced' = [announced EXCEPT ![c] = "CLEARED"]
    /\ UNCHANGED <<orphaned, restarts>>

Restart ==
    /\ restarts' = restarts + 1
    /\ orphaned' = Open
    /\ UNCHANGED announced

Next ==
    \/ \E c \in Condition : Raise(c) \/ Sustain(c) \/ Clear(c)
    \/ Restart

Spec == Init /\ [][Next]_vars

=============================================================================
