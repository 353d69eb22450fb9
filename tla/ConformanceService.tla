------------------------- MODULE ConformanceService -------------------------
(***************************************************************************)
(* The conformance service (services/conformance/runner.py): the airspace  *)
(* picture it keeps from track updates, the scan that turns the picture    *)
(* into alerts, the alert topic and the Redis set of active alerts.        *)
(*                                                                         *)
(* The consumer and the scanner are two tasks of one event loop and share  *)
(* no lock: a scan computes its alerts between two awaits and then         *)
(* publishes them one await at a time, while updates go on changing the    *)
(* picture.                                                                *)
(*                                                                         *)
(* Time is counted in scan periods and kept as ages, so that it need not   *)
(* be bounded.  The scanner's clock is the wall clock or the newest        *)
(* timestamp seen, whichever is later: lead is how far it is ahead.        *)
(* An update may itself be ahead of that clock: its age is negative.       *)
(***************************************************************************)
EXTENDS AlertLifecycle, Integers, FiniteSets, SequencesExt

CONSTANTS
    Measured,     \* conditions found by ConformanceMonitor.observe, not by a scan
    StaleAfter,   \* age at which a track leaves the picture
    TTL,          \* life of a Redis entry, on the wall clock
    MaxLead,      \* MAX_DATA_CLOCK_LEAD
    MaxSkew,      \* bound: how far a timestamp is ahead of the scanner's clock
    MaxCrashes, MaxFaults   \* bounds

ASSUME ServiceAssumption ==
    /\ IsFiniteSet(Condition)
    /\ Measured \subseteq Condition
    /\ \A c \in Measured : \E t \in Track : About[c] = {t}
    /\ StaleAfter \in Nat /\ TTL \in Nat \ {0}
    /\ MaxLead \in Nat /\ MaxSkew \in Nat
    /\ MaxCrashes \in Nat /\ MaxFaults \in Nat

VARIABLES
    picture,     \* _picture: the age of each track's last update
    terminated,  \* _terminated
    findings,    \* _pending_conformance
    lead,        \* _latest_seen, as its lead over the wall clock
    active,      \* the manager's _active
    stage,       \* what the scanner awaits
    outbox,      \* alerts the scan has still to publish
    batch,       \* all alerts of the scan
    scanned,     \* whether the scanner's timer fired since time last passed
    announced,   \* airspace.alerts.v1: the latest state of each key
    store,       \* Redis: the age of each key's entry
    crashes, faults

scanVars == <<stage, outbox, batch, scanned>>
viewVars == <<picture, terminated, findings, lead>>
vars == <<viewVars, active, scanVars, announced, store, crashes, faults>>

\* Beyond StaleAfter ages make no difference.
Age == (-MaxSkew)..(StaleAfter + 1)
Unseen == StaleAfter + 2
NoEntry == TTL

Stage == {"down", "idle", "publishing", "applying"}

Known(view) == {t \in Track : view[t] # Unseen}

-----------------------------------------------------------------------------
(* The consumer: absorb. *)

\* A finding is about the aircraft whose update it was, and not every update
\* has one.
Observe(t) ==
    \E found \in SUBSET {c \in Measured : About[c] = {t}} :
        findings' = findings \cup found

Advanced(view, by) ==
    [t \in Track |->
        IF view[t] = Unseen THEN Unseen
        ELSE IF view[t] + by <= StaleAfter THEN view[t] + by ELSE StaleAfter + 1]

\* An update from the future moves the clock to it, unless it is too far ahead
\* of the wall clock; then its age stays negative.
Absorb(t, age) ==
    LET by == IF age < 0 /\ lead - age <= MaxLead THEN -age ELSE 0
    IN  /\ stage # "down"
        /\ t \in Known(picture) => age <= picture[t]
        /\ picture' = [Advanced(picture, by) EXCEPT ![t] = age + by]
        /\ lead' = lead + by
        /\ active' = Older(active, by)
        /\ Observe(t)
        /\ UNCHANGED <<terminated, scanVars, announced, store, crashes, faults>>

\* Whatever the time of the message.
AbsorbTerminatedForgetful(t) ==
    /\ stage # "down"
    /\ picture' = [picture EXCEPT ![t] = Unseen]
    /\ UNCHANGED terminated
    /\ UNCHANGED <<findings, lead, active, scanVars, announced, store, crashes, faults>>

AbsorbTerminated(t) ==
    /\ stage # "down"
    /\ picture' = [picture EXCEPT ![t] = Unseen]
    /\ terminated' = terminated \cup {t}
    /\ UNCHANGED <<findings, lead, active, scanVars, announced, store, crashes, faults>>

-----------------------------------------------------------------------------
(* The scanner: scan_now. *)

Stale(view) == {t \in Known(view) : view[t] > StaleAfter}

Fresh(view) == [t \in Track |-> IF t \in Stale(view) THEN Unseen ELSE view[t]]

\* The geometry and the rules speak of the tracks in the picture.
Detectable(view) == {c \in Condition \ Measured : About[c] \subseteq Known(view)}

Await(alerts) ==
    /\ outbox' = alerts /\ batch' = alerts
    /\ stage' = IF alerts = <<>> THEN "idle" ELSE "publishing"

\* reconcile returns its alerts in the order of the detections and forget adds
\* its own: here any order of each.
ScanWith(current, gone) ==
    LET reconciled == Reconciled(active, current)
    IN  /\ active' = Forgotten(reconciled, gone)
        /\ \E first \in SetToSeqs(ReconcileAlerts(active, current)),
              second \in SetToSeqs(ForgetAlerts(reconciled, gone)) : Await(first \o second)

Scan ==
    /\ stage = "idle" /\ ~scanned
    /\ picture' = Fresh(picture)
    /\ terminated' = {} /\ findings' = {}
    /\ scanned' = TRUE
    /\ \E detected \in SUBSET Detectable(Fresh(picture)) :
          ScanWith(detected \cup findings, Stale(picture) \cup terminated)
    /\ UNCHANGED <<lead, announced, store, crashes, faults>>

Announce == announced' = [announced EXCEPT ![Head(outbox).key] = Head(outbox).state]

PublishAlert ==
    /\ stage = "publishing"
    /\ Announce
    /\ outbox' = Tail(outbox)
    /\ stage' = IF Len(outbox) = 1 THEN "applying" ELSE "publishing"
    /\ UNCHANGED <<viewVars, active, batch, scanned, store, crashes, faults>>

\* LiveAlertStore.apply: later alerts of a batch overwrite earlier ones.
Mentions(alerts, c) == {i \in DOMAIN alerts : alerts[i].key = c}

AppliedKeepingCleared(alerts) ==
    [c \in Condition |-> IF Mentions(alerts, c) # {} THEN 0 ELSE store[c]]
Applied(alerts) ==
    [c \in Condition |->
        IF Mentions(alerts, c) = {} THEN store[c]
        ELSE IF alerts[Max(Mentions(alerts, c))].state = "CLEARED" THEN NoEntry ELSE 0]

FinishScan ==
    /\ stage' = "idle"
    /\ outbox' = <<>> /\ batch' = <<>>

Apply ==
    /\ stage = "applying"
    /\ store' = Applied(batch)
    /\ FinishScan
    /\ UNCHANGED <<viewVars, active, scanned, announced, crashes, faults>>

-----------------------------------------------------------------------------
(* Time, failures, restarts. *)

ExpireNever == UNCHANGED store
Expire ==
    store' = [c \in Condition |-> IF store[c] + 1 < TTL THEN store[c] + 1 ELSE NoEntry]

\* The wall clock.  A publish or a Redis call takes less than a scan period.
Tick ==
    /\ stage = "down" \/ (stage = "idle" /\ scanned)
    /\ Expire
    /\ scanned' = FALSE
    /\ IF lead > 0
       THEN lead' = lead - 1 /\ UNCHANGED <<picture, active>>
       ELSE /\ picture' = Advanced(picture, 1)
            /\ active' = Older(active, 1)
            /\ UNCHANGED lead
    /\ UNCHANGED <<terminated, findings, stage, outbox, batch, announced, crashes, faults>>

\* _scan_forever catches what the scan raises; the alert may have gone out.
PublishFails ==
    /\ stage = "publishing" /\ faults < MaxFaults
    /\ faults' = faults + 1
    /\ Announce \/ UNCHANGED announced
    /\ FinishScan
    /\ UNCHANGED <<viewVars, active, scanned, store, crashes>>

\* The pipeline is no transaction: what came before the failure is done.
ApplyFails ==
    /\ stage = "applying" /\ faults < MaxFaults
    /\ faults' = faults + 1
    /\ \E n \in 0..Len(batch) : store' = Applied(SubSeq(batch, 1, n))
    /\ FinishScan
    /\ UNCHANGED <<viewVars, active, scanned, announced, crashes>>

\* Killed or shut down: nothing is flushed and memory is gone.
Crash ==
    /\ stage # "down" /\ crashes < MaxCrashes
    /\ crashes' = crashes + 1
    /\ stage' = "down"
    /\ picture' = [t \in Track |-> Unseen]
    /\ terminated' = {} /\ findings' = {} /\ lead' = 0
    /\ active' = [c \in Condition |-> NotActive]
    /\ outbox' = <<>> /\ batch' = <<>> /\ scanned' = FALSE
    /\ UNCHANGED <<announced, store, faults>>

Start ==
    /\ stage = "down"
    /\ stage' = "idle"
    /\ UNCHANGED <<viewVars, active, outbox, batch, scanned, announced, store, crashes, faults>>

-----------------------------------------------------------------------------

Init ==
    /\ picture = [t \in Track |-> Unseen]
    /\ terminated = {} /\ findings = {} /\ lead = 0
    /\ active = [c \in Condition |-> NotActive]
    /\ stage = "idle" /\ outbox = <<>> /\ batch = <<>> /\ scanned = FALSE
    /\ announced = [c \in Condition |-> "NONE"]
    /\ store = [c \in Condition |-> NoEntry]
    /\ crashes = 0 /\ faults = 0

Next ==
    \/ \E t \in Track : AbsorbTerminated(t) \/ \E age \in Age : Absorb(t, age)
    \/ Scan \/ PublishAlert \/ Apply
    \/ Tick \/ PublishFails \/ ApplyFails \/ Crash \/ Start

Spec == Init /\ [][Next]_vars

\* The scanner is a timer of the event loop, the producer and Redis answer or
\* raise, time passes, and an orchestrator restarts the service.
Fairness ==
    /\ WF_vars(Scan) /\ WF_vars(PublishAlert \/ PublishFails) /\ WF_vars(Apply \/ ApplyFails)
    /\ WF_vars(Tick) /\ WF_vars(Start)

FairSpec == Spec /\ Fairness

-----------------------------------------------------------------------------

ViewTypeOK ==
    /\ picture \in [Track -> Age \cup {Unseen}]
    /\ terminated \subseteq Track
    /\ findings \subseteq Measured
    /\ lead \in 0..MaxLead

ScanTypeOK ==
    /\ active \in Manager
    /\ stage \in Stage
    /\ outbox \in Seq(Alert) /\ batch \in Seq(Alert)
    /\ scanned \in BOOLEAN

OutputTypeOK ==
    /\ announced \in [Condition -> AlertState \cup {"NONE"}]
    /\ store \in [Condition -> 0..NoEntry]
    /\ crashes \in Nat /\ faults \in Nat

TypeOK == ViewTypeOK /\ ScanTypeOK /\ OutputTypeOK

\* An active alert, and a finding that waits for a scan, is about tracks the
\* picture holds or the next scan is going to release: whichever way a track
\* leaves, and whatever is absorbed while a scan awaits the broker, no alert
\* stays behind about an aircraft that is gone.
Answerable(t) == t \in Known(picture) \cup terminated

AlertsAreAnswerable ==
    \A c \in ActiveKeys(active) \cup findings : \A t \in About[c] : Answerable(t)

\* The inductive invariant of the proofs: the scanner awaits the broker only for
\* an alert it still has to publish.
AwaitsForAlert == stage = "publishing" => outbox # <<>>

ConformanceInv == TypeOK /\ AlertsAreAnswerable /\ AwaitsForAlert

Shown == {c \in Condition : store[c] # NoEntry}

\* Between scans, as long as nothing failed, the display shows exactly the
\* alerts the manager holds: the heartbeat outruns the expiry of the entries and
\* every clearance reaches the store.
DisplayIsManagers ==
    stage = "idle" /\ crashes = 0 /\ faults = 0 => Shown = ActiveKeys(active)

OpenOnTopic == {c \in Condition : announced[c] \in {"NEW", "SUSTAINED"}}

\* The alert topic keeps the protocol.  An open alert is orphaned when the
\* manager does not hold it and the scan does not clear it: the next thing said
\* of it, if anything, is NEW.
NextSaid(c) == outbox[Min(Mentions(outbox, c))].state

Orphaned ==
    {c \in OpenOnTopic :
        IF Mentions(outbox, c) = {} THEN active[c] = NotActive ELSE NextSaid(c) = "NEW"}

Protocol == INSTANCE AlertProtocol WITH orphaned <- Orphaned, restarts <- crashes

ProtocolKept == Protocol!Spec

\* Whatever fails, an alert the manager keeps gets to the topic and the display.
ActiveIsTold ==
    \A c \in Condition :
        c \in ActiveKeys(active) ~> c \notin ActiveKeys(active) \/ c \in OpenOnTopic \cap Shown

\* Whatever fails, an alert nobody maintains leaves the display.
GhostLeaves ==
    \A c \in Condition :
        c \in Shown \ ActiveKeys(active) ~> c \notin Shown \ ActiveKeys(active)

=============================================================================
