--------------------------- MODULE AlertLifecycle ---------------------------
(***************************************************************************)
(* AlertManager (services/conformance/alerts.py) as operators: what one    *)
(* scan's detections, and the tracks that are gone, do to the active       *)
(* alerts, and which state changes they return to be published.            *)
(*                                                                         *)
(* A condition is what the code calls an alert key.  Its kind, severity,   *)
(* wording and evidence are left out.  Instead of the instant it was last  *)
(* published, an active alert keeps the time since, up to the interval     *)
(* after which it is due again.                                            *)
(***************************************************************************)
EXTENDS Naturals

CONSTANTS
    Track,
    Condition,        \* alert keys
    About,            \* the tracks a condition is about
    ClearAfter,       \* scans without a detection that clear an alert
    SustainInterval   \* time after which an active alert is published again

ASSUME AlertAssumption ==
    /\ About \in [Condition -> SUBSET Track]
    /\ ClearAfter \in Nat \ {0}
    /\ SustainInterval \in Nat \ {0}

AlertState == {"NEW", "SUSTAINED", "CLEARED"}

Alert == [key : Condition, state : AlertState]

Active == [missed : 0..(ClearAfter - 1), since : 0..SustainInterval]

\* An alert that is not active has no record; this stands for its absence.
NotActive == [missed |-> ClearAfter, since |-> 0]

Manager == [Condition -> Active \cup {NotActive}]

ActiveKeys(active) == {c \in Condition : active[c] # NotActive}

-----------------------------------------------------------------------------
(* reconcile: the detections of one scan. *)

Raised(active, current) == current \ ActiveKeys(active)

NeverDue(active, current) == {}
Due(active, current) ==
    {c \in current \cap ActiveKeys(active) : active[c].since >= SustainInterval}

Missed(active, current) == ActiveKeys(active) \ current

OverOneLater(active, current) ==
    {c \in Missed(active, current) : active[c].missed >= ClearAfter}
Over(active, current) ==
    {c \in Missed(active, current) : active[c].missed + 1 >= ClearAfter}

Reconciled(active, current) ==
    [c \in Condition |->
        IF c \in Raised(active, current) \cup Due(active, current)
        THEN [missed |-> 0, since |-> 0]
        ELSE IF c \in current THEN [active[c] EXCEPT !.missed = 0]
        ELSE IF c \in Missed(active, current) \ Over(active, current)
        THEN [active[c] EXCEPT !.missed = @ + 1]
        ELSE NotActive]

Alerts(keys, state) == [key : keys, state : {state}]

ReconcileAlerts(active, current) ==
    Alerts(Raised(active, current), "NEW")
        \cup Alerts(Due(active, current), "SUSTAINED")
        \cup Alerts(Over(active, current), "CLEARED")

-----------------------------------------------------------------------------
(* forget: the tracks that are gone. *)

Concerned(active, gone) ==
    {c \in ActiveKeys(active) : About[c] \cap gone # {}}

Forgotten(active, gone) ==
    [c \in Condition |-> IF c \in Concerned(active, gone) THEN NotActive ELSE active[c]]

ForgetSilently(active, gone) == {}
ForgetAlerts(active, gone) == Alerts(Concerned(active, gone), "CLEARED")

-----------------------------------------------------------------------------
(* Time passes for the manager by the scanner's clock. *)

Older(active, by) ==
    [c \in Condition |->
        IF active[c] = NotActive THEN NotActive
        ELSE [active[c] EXCEPT !.since =
                 IF @ + by < SustainInterval THEN @ + by ELSE SustainInterval]]

=============================================================================
