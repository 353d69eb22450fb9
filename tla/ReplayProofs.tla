---------------------------- MODULE ReplayProofs ----------------------------
(***************************************************************************)
(* Proofs about the loop of Replay, for any scenarios, standards, horizons *)
(* and bounds: what a scan of the picture finds is announced as urgently   *)
(* as it is, the monitor keeps its predictions, what is learnt from a      *)
(* flight makes the prediction of it true, and a scan misses no conflict   *)
(* of straight flight and invents none.                                    *)
(***************************************************************************)
EXTENDS Replay, FiniteSetTheorems, SequenceTheorems, TLAPS

-----------------------------------------------------------------------------
(* What a scan finds, by its key. *)

\* Every set of natural numbers has a least one.
LEMMA Least ==
    ASSUME NEW S, S \subseteq Nat, S # {}
    PROVE  Min(S) \in S /\ \A k \in S : Min(S) <= k
<1>1. PICK x \in S : \A y \in S : ~ (<<y, x>> \in OpToRel(<, Nat))
  BY NatLessThanWellFounded, WFMin
<1>2. \A y \in S : ~ (y < x)
  BY <1>1 DEF OpToRel
<1>3. \A y \in S : x <= y
  BY <1>2
<1> QED
  BY <1>3 DEF Min

\* The findings about one aircraft.
LEMMA FindingsFit ==
    ASSUME NEW track, NEW f \in Findings(track)
    PROVE  /\ f.kind \in {"emergency_squawk", "excessive_descent"} /\ f.severity \in Severity
           /\ \A g \in Findings(track) : g.kind = f.kind => g = f
BY DEF Findings, SquawkFindings, DescentFindings, Severity

\* Keys of different kinds, or about others, are different.
LEMMA KeysDiffer ==
    /\ \A k, l, a, b : Alone(k, a) = Alone(l, b) => k = l /\ a = b
    /\ \A p, q : Conflict(p) = Conflict(q) => p = q
    /\ \A p, k, a : k # "predicted_conflict" => Conflict(p) # Alone(k, a)
<1>1. ASSUME NEW k, NEW l, NEW a, NEW b, Alone(k, a) = Alone(l, b) PROVE k = l /\ a = b
  <2>1. k = l /\ {a} = {b}
    BY <1>1 DEF Alone
  <2> QED
    BY <2>1
<1>2. ASSUME NEW p, NEW q, Conflict(p) = Conflict(q) PROVE p = q
  BY <1>2 DEF Conflict
<1>3. ASSUME NEW p, NEW k, NEW a, k # "predicted_conflict" PROVE Conflict(p) # Alone(k, a)
  BY <1>3 DEF Conflict, Alone
<1> QED
  BY <1>1, <1>2, <1>3

\* The keys about one aircraft.
LEMMA AloneIsCondition ==
    ASSUME NEW k \in {"non_conformance", "emergency_squawk", "excessive_descent"},
           NEW a \in Aircraft
    PROVE  Alone(k, a) \in Condition
<1>1. Alone(k, a) \in {Alone(kind, x) :
            kind \in {"non_conformance", "emergency_squawk", "excessive_descent"}, x \in Aircraft}
  OBVIOUS
<1> QED
  BY <1>1 DEF Condition

\* A scan of a picture of aircraft finds conflicts of pairs of them.
LEMMA ScanFits ==
    ASSUME NEW known, DOMAIN known \subseteq Aircraft, NEW pair \in Scan(known)
    PROVE  pair \subseteq DOMAIN known /\ Conflict(pair) \in Condition
<1>1. pair \in SUBSET Eligible(known) /\ Cardinality(pair) = 2
  BY DEF Scan, CandidatePairs, kSubset
<1>2. pair \subseteq DOMAIN known
  BY <1>1 DEF Eligible
<1>3. pair \in kSubset(2, Aircraft)
  BY <1>1, <1>2 DEF kSubset
<1> QED
  BY <1>2, <1>3 DEF Condition, Conflicts

\* What a picture alone gives cause for, and who it is about.
LEMMA DetectedFits ==
    ASSUME NEW known, DOMAIN known \subseteq Aircraft, NEW d \in Detected(known)
    PROVE  /\ d.key \in Condition /\ d.key.about \subseteq DOMAIN known
           /\ d.severity \in Severity /\ d.key.kind # "non_conformance"
           /\ \A e \in Detected(known) : e.key = d.key => e.severity = d.severity
<1> DEFINE C == {[key |-> Conflict(pair), severity |-> ConflictSeverity(known, pair)] :
                    pair \in Scan(known)}
           F(a) == {[key |-> Alone(f.kind, a), severity |-> f.severity] : f \in Findings(known[a])}
<1>1. \A e : e \in Detected(known) <=> e \in C \/ \E a \in DOMAIN known : e \in F(a)
  BY DEF Detected
<1>2. ASSUME NEW e \in C
      PROVE  \E pair \in Scan(known) :
                e.key = Conflict(pair) /\ e.severity = ConflictSeverity(known, pair)
  OBVIOUS
<1>3. ASSUME NEW a \in DOMAIN known, NEW e \in F(a)
      PROVE  \E f \in Findings(known[a]) : e.key = Alone(f.kind, a) /\ e.severity = f.severity
  OBVIOUS
<1> HIDE DEF C, F
<1>4. CASE d \in C
  <2>1. PICK pair \in Scan(known) :
           d.key = Conflict(pair) /\ d.severity = ConflictSeverity(known, pair)
    BY <1>2, <1>4
  <2>2. d.key.about = pair /\ d.key.kind = "predicted_conflict"
    BY <2>1 DEF Conflict
  <2>3. d.severity \in Severity
    BY <2>1 DEF ConflictSeverity, SeverityFor, Severity
  <2>4. ASSUME NEW e \in Detected(known), e.key = d.key PROVE e.severity = d.severity
    <3>1. CASE e \in C
      BY <1>2, <2>1, <2>4, <3>1, KeysDiffer
    <3>2. ASSUME NEW a \in DOMAIN known, e \in F(a) PROVE FALSE
      <4>1. PICK f \in Findings(known[a]) : e.key = Alone(f.kind, a)
        BY <1>3, <3>2
      <4>2. f.kind # "predicted_conflict"
        BY FindingsFit
      <4>3. Conflict(pair) = Alone(f.kind, a)
        BY <2>1, <2>4, <4>1
      <4> QED
        BY <4>2, <4>3, KeysDiffer
    <3> QED
      BY <1>1, <3>1, <3>2
  <2> QED
    BY <2>1, <2>2, <2>3, <2>4, ScanFits
<1>5. ASSUME NEW a \in DOMAIN known, d \in F(a)
      PROVE  /\ d.key \in Condition /\ d.key.about \subseteq DOMAIN known
             /\ d.severity \in Severity /\ d.key.kind # "non_conformance"
             /\ \A e \in Detected(known) : e.key = d.key => e.severity = d.severity
  <2>1. PICK f \in Findings(known[a]) : d.key = Alone(f.kind, a) /\ d.severity = f.severity
    BY <1>3, <1>5
  <2>2. /\ f.kind \in {"emergency_squawk", "excessive_descent"} /\ f.severity \in Severity
        /\ \A g \in Findings(known[a]) : g.kind = f.kind => g = f
    BY FindingsFit
  <2>3. d.key.about = {a} /\ d.key.kind = f.kind
    BY <2>1 DEF Alone
  <2>3a. a \in Aircraft
    OBVIOUS
  <2>3b. d.key \in Condition
    BY <2>1, <2>2, <2>3a, AloneIsCondition
  <2>4. ASSUME NEW e \in Detected(known), e.key = d.key PROVE e.severity = d.severity
    <3>1. CASE e \in C
      BY <1>2, <2>1, <2>2, <2>4, <3>1, KeysDiffer
    <3>2. ASSUME NEW b \in DOMAIN known, e \in F(b) PROVE e.severity = d.severity
      <4>1. PICK g \in Findings(known[b]) : e.key = Alone(g.kind, b) /\ e.severity = g.severity
        BY <1>3, <3>2
      <4>2. Alone(g.kind, b) = Alone(f.kind, a)
        BY <2>1, <2>4, <4>1
      <4>3. g.kind = f.kind /\ b = a
        BY <4>2, KeysDiffer
      <4> QED
        BY <2>1, <2>2, <4>1, <4>3
    <3> QED
      BY <1>1, <3>1, <3>2
  <2> QED
    BY <2>1, <2>2, <2>3, <2>3a, <2>3b, <2>4
<1> QED
  BY <1>1, <1>4, <1>5

-----------------------------------------------------------------------------
(* What the alert manager makes of a scan. *)

\* The numbers of the manager, as time passes, keep their ranges.
LEMMA OlderFits ==
    ASSUME NEW m \in Manager!Manager
    PROVE  /\ Manager!Older(m, 1) \in Manager!Manager
           /\ \A c \in Condition :
                 Manager!Older(m, 1)[c] = Manager!NotActive <=> m[c] = Manager!NotActive
<1> DEFINE o == Manager!Older(m, 1)
<1>1. ASSUME NEW c \in Condition, m[c] = Manager!NotActive PROVE o[c] = Manager!NotActive
  BY <1>1 DEF Manager!Older
<1>2. ASSUME NEW c \in Condition, m[c] # Manager!NotActive
      PROVE  o[c] \in Manager!Active /\ o[c] # Manager!NotActive
  <2> DEFINE s == IF m[c].since + 1 < SustainInterval THEN m[c].since + 1 ELSE SustainInterval
  <2>1. m[c] \in Manager!Active
    BY <1>2 DEF Manager!Manager
  <2>2. o[c] = [m[c] EXCEPT !.since = s]
    BY <1>2 DEF Manager!Older
  <2>3. s \in 0..SustainInterval /\ m[c].missed \in 0..(ClearAfter - 1)
    BY <2>1, ReplayAssumption DEF Manager!Active
  <2>4. o[c] \in Manager!Active /\ o[c].missed = m[c].missed
    BY <2>1, <2>2, <2>3 DEF Manager!Active
  <2>5. o[c].missed # ClearAfter
    BY <2>3, <2>4, ReplayAssumption
  <2> QED
    BY <2>4, <2>5 DEF Manager!NotActive
<1>3. o = [c \in Condition |-> o[c]]
  BY DEF Manager!Older
<1> QED
  BY <1>1, <1>2, <1>3 DEF Manager!Manager

\* What is detected is active after the scan, and was announced or is not yet due.
LEMMA ReconciledFits ==
    ASSUME NEW m \in Manager!Manager, NEW current \in SUBSET Condition
    PROVE  /\ Manager!Reconciled(m, current) \in Manager!Manager
           /\ \A c \in current :
                 /\ Manager!Reconciled(m, current)[c] # Manager!NotActive
                 /\ \/ c \in Manager!Raised(m, current) \cup Manager!Due(m, current)
                    \/ Manager!Reconciled(m, current)[c].since < SustainInterval
<1> DEFINE r == Manager!Reconciled(m, current)
           up == Manager!Raised(m, current) \cup Manager!Due(m, current)
<1>1. ASSUME NEW c \in Condition, c \in up
      PROVE  r[c] \in Manager!Active /\ r[c] # Manager!NotActive
  <2>1. r[c] = [missed |-> 0, since |-> 0]
    BY <1>1 DEF Manager!Reconciled
  <2> QED
    BY <2>1, ReplayAssumption DEF Manager!Active, Manager!NotActive
<1>2. ASSUME NEW c \in Condition, c \in current, c \notin up
      PROVE  r[c] \in Manager!Active /\ r[c] # Manager!NotActive /\ r[c].since < SustainInterval
  <2>1. m[c] # Manager!NotActive /\ ~(m[c].since >= SustainInterval)
    BY <1>2 DEF Manager!Raised, Manager!Due, Manager!ActiveKeys
  <2>2. m[c] \in Manager!Active
    BY <2>1 DEF Manager!Manager
  <2>3. r[c] = [m[c] EXCEPT !.missed = 0]
    BY <1>2 DEF Manager!Reconciled
  <2>4. r[c].missed = 0 /\ r[c].since = m[c].since /\ r[c] \in Manager!Active
    BY <2>2, <2>3, ReplayAssumption DEF Manager!Active
  <2>5. m[c].since < SustainInterval
    BY <2>1, <2>2, ReplayAssumption DEF Manager!Active
  <2> QED
    BY <2>4, <2>5, ReplayAssumption DEF Manager!NotActive
<1>3. ASSUME NEW c \in Condition, c \notin current
      PROVE  r[c] \in Manager!Active \cup {Manager!NotActive}
  <2>1. c \notin up
    BY <1>3 DEF Manager!Raised, Manager!Due
  <2>2. CASE c \in Manager!Missed(m, current) \ Manager!Over(m, current)
    <3>1. m[c] \in Manager!Active /\ ~(m[c].missed + 1 >= ClearAfter)
      BY <2>2 DEF Manager!Missed, Manager!Over, Manager!ActiveKeys, Manager!Manager
    <3>2. r[c] = [m[c] EXCEPT !.missed = @ + 1]
      BY <1>3, <2>1, <2>2 DEF Manager!Reconciled
    <3>3. m[c].missed + 1 \in 0..(ClearAfter - 1)
      BY <3>1, ReplayAssumption DEF Manager!Active
    <3> QED
      BY <3>1, <3>2, <3>3 DEF Manager!Active
  <2>3. CASE c \notin Manager!Missed(m, current) \ Manager!Over(m, current)
    BY <1>3, <2>1, <2>3 DEF Manager!Reconciled
  <2> QED
    BY <2>2, <2>3
<1>4. r = [c \in Condition |-> r[c]]
  BY DEF Manager!Reconciled
<1>5. r \in Manager!Manager
  BY <1>1, <1>2, <1>3, <1>4 DEF Manager!Manager
<1> QED
  BY <1>1, <1>2, <1>5

\* What a set of detections must be for a scan to be sure of their severities.
Sound(detections) ==
    \A d, e \in detections :
        /\ d.key \in Condition /\ d.severity \in Severity
        /\ d.key = e.key => d.severity = e.severity

\* The alerts of a scan that say how urgent something is are those it detects.
LEMMA PublishedFits ==
    ASSUME NEW m, NEW current, NEW c,
           NEW alert \in Manager!ReconcileAlerts(m, current),
           alert.key = c, alert.state \in {"NEW", "SUSTAINED"}
    PROVE  c \in Manager!Raised(m, current) \cup Manager!Due(m, current)
BY DEF Manager!ReconcileAlerts, Manager!Alerts

\* What is raised or due again is published.
LEMMA UpIsPublished ==
    ASSUME NEW m, NEW current, NEW c
    PROVE  /\ c \in Manager!Raised(m, current) =>
                 [key |-> c, state |-> "NEW"] \in Manager!ReconcileAlerts(m, current)
           /\ c \in Manager!Due(m, current) =>
                 [key |-> c, state |-> "SUSTAINED"] \in Manager!ReconcileAlerts(m, current)
BY DEF Manager!ReconcileAlerts, Manager!Alerts

\* What a scan of sound detections leaves: the manager and what is told are of their
\* types, and what is detected about those who stay is told as urgently as it is.
LEMMA ScannedTells ==
    ASSUME active \in Manager!Manager, told \in [Condition -> Severity \cup {NotTold}],
           NEW known, NEW gone, NEW detections, Sound(detections),
           Scanned(known, gone, detections)
    PROVE  /\ active' \in Manager!Manager
           /\ told' \in [Condition -> Severity \cup {NotTold}]
           /\ \A d \in detections :
                 d.key.about \cap gone = {} =>
                    /\ active'[d.key] # Manager!NotActive
                    /\ told'[d.key] = d.severity \/ active'[d.key].since < SustainInterval
<1> DEFINE before == Manager!Older(active, 1)
           current == {d.key : d \in detections}
           alerts == Manager!ReconcileAlerts(before, current)
           up == Manager!Raised(before, current) \cup Manager!Due(before, current)
           R == Manager!Reconciled(before, current)
           Said(c) == \E alert \in alerts : alert.key = c /\ alert.state \in {"NEW", "SUSTAINED"}
           Of(c) == CHOOSE d \in detections : d.key = c
<1>1. current \in SUBSET Condition
  BY DEF Sound
<1>2. before \in Manager!Manager
  BY OlderFits
<1>3. R \in Manager!Manager
      /\ \A c \in current : R[c] # Manager!NotActive /\ (c \in up \/ R[c].since < SustainInterval)
  BY <1>1, <1>2, ReconciledFits
<1>4. active' = Manager!Forgotten(R, gone)
  BY DEF Scanned
<1>5. told' = [c \in Condition |->
                 IF active'[c] = Manager!NotActive THEN NotTold
                 ELSE IF Said(c) THEN Of(c).severity ELSE told[c]]
  BY DEF Scanned
<1>6. \A c : Said(c) <=> c \in up
  <2>1. ASSUME NEW c, Said(c) PROVE c \in up
    BY <2>1, PublishedFits
  <2>2. ASSUME NEW c \in up PROVE Said(c)
    <3>1. CASE c \in Manager!Raised(before, current)
      <4>1. [key |-> c, state |-> "NEW"] \in alerts
        BY <3>1, UpIsPublished
      <4> QED
        BY <4>1
    <3>2. CASE c \in Manager!Due(before, current)
      <4>1. [key |-> c, state |-> "SUSTAINED"] \in alerts
        BY <3>2, UpIsPublished
      <4> QED
        BY <4>1
    <3> QED
      BY <3>1, <3>2
  <2> QED
    BY <2>1, <2>2
<1>7. up \subseteq current
  BY DEF Manager!Raised, Manager!Due
<1>8. \A c \in Condition :
         active'[c] = IF c.about \cap gone # {} /\ R[c] # Manager!NotActive
                      THEN Manager!NotActive ELSE R[c]
  BY <1>4 DEF Manager!Forgotten, Manager!Concerned, Manager!ActiveKeys
<1>9. active' \in Manager!Manager
  <2>1. active' = [c \in Condition |-> active'[c]]
    BY <1>4 DEF Manager!Forgotten
  <2>2. \A c \in Condition : active'[c] \in Manager!Active \cup {Manager!NotActive}
    BY <1>3, <1>8 DEF Manager!Manager
  <2> QED
    BY <2>1, <2>2 DEF Manager!Manager
<1> HIDE DEF before, alerts, up, R, Said
<1>10. \A d \in detections : Of(d.key).severity = d.severity
  <2>1. ASSUME NEW d \in detections PROVE Of(d.key) \in detections /\ Of(d.key).key = d.key
    OBVIOUS
  <2> QED
    BY <2>1 DEF Sound
<1>11. told' \in [Condition -> Severity \cup {NotTold}]
  <2>1. ASSUME NEW c \in Condition PROVE told'[c] \in Severity \cup {NotTold}
    <3>1. CASE Said(c)
      <4>1. PICK d \in detections : d.key = c
        BY <1>6, <1>7, <3>1
      <4>2. Of(c).severity = d.severity
        BY <1>10, <4>1
      <4> QED
        BY <1>5, <3>1, <4>2 DEF Sound
    <3>2. CASE ~Said(c)
      BY <1>5, <3>2
    <3> QED
      BY <3>1, <3>2
  <2> QED
    BY <1>5, <2>1
<1>12. ASSUME NEW d \in detections, d.key.about \cap gone = {}
       PROVE  /\ active'[d.key] # Manager!NotActive
              /\ told'[d.key] = d.severity \/ active'[d.key].since < SustainInterval
  <2>1. d.key \in current /\ d.key \in Condition
    BY <1>1
  <2>2. active'[d.key] = R[d.key]
    BY <1>8, <1>12, <2>1
  <2>3. active'[d.key] # Manager!NotActive
    BY <1>3, <2>1, <2>2
  <2>4. d.key \in up => told'[d.key] = d.severity
    BY <1>5, <1>6, <1>10, <2>1, <2>3
  <2> QED
    BY <1>3, <2>1, <2>2, <2>3, <2>4
<1> QED
  BY <1>9, <1>11, <1>12

-----------------------------------------------------------------------------
(* The inductive invariant of the types and of the queues of predictions.  *)

AircraftUpdate ==
    [at : Nat, update_count : 0..MinUpdates, east : Int, north : Int, altitude : Int,
     heading : Heading, squawk : Int, v_east : Int, v_north : Int, v_altitude : Int]

\* What the loop keeps is of its type.
LoopTypeOK ==
    /\ world \in Worlds /\ elapsed \in 0..Duration /\ dropped \in 0..MaxDropouts
    /\ truth \in [Aircraft -> AircraftTruth]
    /\ update_count \in [Aircraft -> 0..MinUpdates]
    /\ active \in Manager!Manager
    /\ told \in [Condition -> Severity \cup {NotTold}]
    /\ closest.conflicted \in BOOLEAN
    /\ violations \subseteq 1..Duration /\ fresh \subseteq 1..Duration
    /\ raised \in [Condition -> 1..NotRaised]
    /\ advisories \in [Aircraft -> SUBSET (1..Duration)]

\* What was seen of the aircraft, and when.
SeenTypeOK ==
    /\ DOMAIN picture \subseteq Aircraft
    /\ \A a \in DOMAIN picture : picture[a].at \in 1..elapsed
    /\ \A a \in Aircraft :
          /\ DOMAIN path[a] \subseteq 1..elapsed
          /\ updates[a] \in Seq(AircraftUpdate) /\ Len(updates[a]) <= elapsed

\* A prediction was made since, was made with an update, one at an instant, and is
\* still to be compared.
WaitingInOrder(queue, at) ==
    /\ queue \in Seq(Prediction)
    /\ \A i \in DOMAIN queue : at + Tolerance < queue[i].valid_at /\ queue[i].valid_at <= at + Horizon
    /\ \A i, j \in DOMAIN queue : i < j => j - i <= queue[j].valid_at - queue[i].valid_at

QueuesKept ==
    \A a \in Aircraft :
        IF a \in DOMAIN picture THEN WaitingInOrder(pending[a], picture[a].at)
        ELSE pending[a] = <<>>

Typed == LoopTypeOK /\ SeenTypeOK

ReplayInv == Typed /\ QueuesKept

\* The queue has room for the predictions of a horizon, and the horizon is longer than
\* the tolerance: 256 places for 60 s of one a second, compared up to 3 s early or late.
QueueSuffices == Tolerance < Horizon /\ Horizon - Tolerance < MaxPending

-----------------------------------------------------------------------------
(* What a step does to an aircraft is of its type. *)

\* Turns and paces are whole numbers, and headings stay on the circle.
LEMMA BearingFits ==
    /\ \A x \in Int : x % Circle \in Heading
    /\ \A h \in Heading, t \in Int : BearingDifference(h, t) \in Int
    /\ \A d, l \in Int : Within(d, l) \in Int
<1>1. \A x \in Int : x % Circle \in Int /\ 0 <= x % Circle /\ x % Circle < Circle
  BY SimulationAssumption
<1>2. \A x \in Int : x % Circle \in Heading
  BY <1>1, SimulationAssumption DEF Heading
<1>3. ASSUME NEW h \in Heading, NEW t \in Int PROVE BearingDifference(h, t) \in Int
  <2>1. h \in Int /\ Circle \in Int /\ Circle \div 2 \in Int
    BY SimulationAssumption DEF Heading
  <2>2. (t - h + Circle \div 2) % Circle \in Int
    BY <1>1, <2>1
  <2> QED
    BY <2>1, <2>2 DEF BearingDifference
<1>4. \A d, l \in Int : Within(d, l) \in Int
  BY DEF Within
<1> QED
  BY <1>2, <1>3, <1>4

\* A command that stands is one of the plan.
LEMMA AimFits ==
    ASSUME NEW plan \in Seq(Command), NEW kind, NEW from, NEW to, NEW now \in Pursuit
    PROVE  Aim(Standing(plan, kind, from, to), now) \in Pursuit
<1> DEFINE S == Standing(plan, kind, from, to)
           c == CHOOSE c \in S : TRUE
<1>1. S \subseteq Command
  BY DEF Standing
<1>2. CASE S = {}
  BY <1>2 DEF Aim
<1>3. CASE S # {}
  <2>1. c \in Command
    BY <1>1, <1>3
  <2>2. Aim(S, now) = [target |-> c.target, rate |-> c.rate]
    BY <1>3 DEF Aim
  <2> QED
    BY <2>1, <2>2 DEF Command, Pursuit
<1> QED
  BY <1>2, <1>3

\* What is commanded leaves an aircraft where it is.
LEMMA CommandedFits ==
    ASSUME NEW s \in AircraftTruth, NEW plan \in Seq(Command), NEW from, NEW to
    PROVE  LET c == Commanded(s, plan, from, to)
           IN  /\ c \in AircraftTruth
               /\ c.east = s.east /\ c.north = s.north /\ c.altitude = s.altitude
               /\ c.heading = s.heading /\ c.speed = s.speed /\ c.v_altitude = s.v_altitude
               /\ c.turn = Aim(Standing(plan, "turn", from, to), s.turn)
               /\ c.climb = Aim(Standing(plan, "climb", from, to), s.climb)
               /\ c.pace = Aim(Standing(plan, "speed", from, to), s.pace)
<1> DEFINE c == Commanded(s, plan, from, to)
           turn == Aim(Standing(plan, "turn", from, to), s.turn)
           climb == Aim(Standing(plan, "climb", from, to), s.climb)
           pace == Aim(Standing(plan, "speed", from, to), s.pace)
           code == Aim(Standing(plan, "squawk", from, to), [target |-> s.squawk]).target
<1>1. turn \in Pursuit /\ climb \in Pursuit /\ pace \in Pursuit
  BY AimFits DEF AircraftTruth
<1>2. code \in Int
  <2> DEFINE S == Standing(plan, "squawk", from, to)
             d == CHOOSE d \in S : TRUE
  <2>1. S \subseteq Command
    BY DEF Standing
  <2>2. CASE S = {}
    BY <2>2 DEF Aim, AircraftTruth
  <2>3. CASE S # {}
    <3>1. d \in Command
      BY <2>1, <2>3
    <3>2. code = d.target
      BY <2>3 DEF Aim
    <3> QED
      BY <3>1, <3>2 DEF Command
  <2> QED
    BY <2>2, <2>3
<1>3. c = [s EXCEPT !.turn = turn, !.climb = climb, !.pace = pace, !.squawk = code]
  BY DEF Commanded
<1> HIDE DEF c, turn, climb, pace, code
<1>4. /\ c \in AircraftTruth
      /\ c.east = s.east /\ c.north = s.north /\ c.altitude = s.altitude
      /\ c.heading = s.heading /\ c.speed = s.speed /\ c.v_altitude = s.v_altitude
      /\ c.turn = turn /\ c.climb = climb /\ c.pace = pace
  BY <1>1, <1>2, <1>3 DEF AircraftTruth
<1> QED
  BY <1>4 DEF c, turn, climb, pace

\* A step of flight ends in the air, not below the ground.
LEMMA FlownFits ==
    ASSUME NEW s \in AircraftTruth
    PROVE  Flown(s, 1) \in AircraftTruth /\ Flown(s, 1).airborne /\ Flown(s, 1).altitude >= 0
<1> DEFINE turn == Within(BearingDifference(s.heading, s.turn.target), s.turn.rate * 1)
           mid == (s.heading + (turn \div 2)) % Circle
           speed == s.speed + Within(s.pace.target - s.speed, s.pace.rate * 1)
           distance == ((s.speed + speed) * 1) \div 2
           climb == Within(s.climb.target - s.altitude, s.climb.rate * 1)
<1>1. /\ s.heading \in Heading /\ s.heading \in Int /\ s.speed \in Int /\ s.altitude \in Int
      /\ s.east \in Int /\ s.north \in Int /\ s.squawk \in Int
      /\ s.turn \in Pursuit /\ s.climb \in Pursuit /\ s.pace \in Pursuit
  BY DEF AircraftTruth, Heading
<1>2. turn \in Int /\ climb \in Int /\ speed \in Int
  <2>1. /\ s.turn.target \in Int /\ s.turn.rate \in Int
        /\ s.pace.target \in Int /\ s.pace.rate \in Int
        /\ s.climb.target \in Int /\ s.climb.rate \in Int
    BY <1>1 DEF Pursuit
  <2>2. /\ s.turn.rate * 1 \in Int /\ s.pace.rate * 1 \in Int /\ s.climb.rate * 1 \in Int
        /\ s.pace.target - s.speed \in Int /\ s.climb.target - s.altitude \in Int
    BY <1>1, <2>1
  <2>3. BearingDifference(s.heading, s.turn.target) \in Int
    BY <1>1, <2>1, BearingFits
  <2>4. turn \in Int
    BY <2>2, <2>3, BearingFits
  <2>5. climb \in Int
    BY <2>2, BearingFits
  <2>6. Within(s.pace.target - s.speed, s.pace.rate * 1) \in Int
    BY <2>2, BearingFits
  <2> QED
    BY <1>1, <2>4, <2>5, <2>6
<1> HIDE DEF turn, climb
<1>3. mid \in Heading /\ (s.heading + turn) % Circle \in Heading
  <2>1. s.heading + (turn \div 2) \in Int /\ s.heading + turn \in Int
    BY <1>1, <1>2
  <2> QED
    BY <2>1, BearingFits
<1> HIDE DEF mid, speed
<1>4. distance \in Int /\ climb \div 1 \in Int
  <2>1. (s.speed + speed) * 1 \in Int
    BY <1>1, <1>2
  <2> QED
    BY <1>2, <2>1
<1> HIDE DEF distance
<1>5. Unit[mid].east \in Int /\ Unit[mid].north \in Int
  BY <1>3, SimulationAssumption DEF Heading
<1> DEFINE east == s.east + distance * Unit[mid].east
           north == s.north + distance * Unit[mid].north
           altitude == IF s.altitude + climb < 0 THEN 0 ELSE s.altitude + climb
<1>6. east \in Int /\ north \in Int /\ altitude \in Int /\ altitude >= 0
  BY <1>1, <1>2, <1>4, <1>5
<1>7. Flown(s, 1) =
        [east |-> east, north |-> north, altitude |-> altitude,
         heading |-> (s.heading + turn) % Circle, speed |-> speed,
         v_altitude |-> climb \div 1, squawk |-> s.squawk, airborne |-> TRUE,
         turn |-> s.turn, climb |-> s.climb, pace |-> s.pace]
  BY DEF Flown, turn, mid, speed, distance, climb
<1> HIDE DEF east, north, altitude
<1> DEFINE heading == (s.heading + turn) % Circle
           rate == climb \div 1
<1>8. heading \in Heading /\ rate \in Int
  BY <1>3, <1>4
<1> HIDE DEF heading, rate
<1>9. Flown(s, 1) =
        [east |-> east, north |-> north, altitude |-> altitude, heading |-> heading,
         speed |-> speed, v_altitude |-> rate, squawk |-> s.squawk, airborne |-> TRUE,
         turn |-> s.turn, climb |-> s.climb, pace |-> s.pace]
  BY <1>7 DEF heading, rate
<1>10. Flown(s, 1).airborne /\ Flown(s, 1).altitude >= 0
  BY <1>6, <1>9
<1>11. Flown(s, 1) \in AircraftTruth
  <2>1. ASSUME NEW e \in Int, NEW n \in Int, NEW a \in Int, NEW h \in Heading, NEW v \in Int,
               NEW r \in Int, NEW q \in Int,
               NEW t \in Pursuit, NEW c \in Pursuit, NEW p \in Pursuit
        PROVE  [east |-> e, north |-> n, altitude |-> a, heading |-> h, speed |-> v,
                v_altitude |-> r, squawk |-> q, airborne |-> TRUE,
                turn |-> t, climb |-> c, pace |-> p] \in AircraftTruth
    BY DEF AircraftTruth
  <2>2. /\ east \in Int /\ north \in Int /\ altitude \in Int /\ heading \in Heading
        /\ speed \in Int /\ rate \in Int /\ s.squawk \in Int
        /\ s.turn \in Pursuit /\ s.climb \in Pursuit /\ s.pace \in Pursuit
    BY <1>1, <1>2, <1>6, <1>8
  <2>3. [east |-> east, north |-> north, altitude |-> altitude, heading |-> heading,
         speed |-> speed, v_altitude |-> rate, squawk |-> s.squawk, airborne |-> TRUE,
         turn |-> s.turn, climb |-> s.climb, pace |-> s.pace] \in AircraftTruth
    BY <2>1, <2>2
  <2> QED
    BY <1>9, <2>3
<1> QED
  BY <1>10, <1>11

\* One aircraft's step.
LEMMA AdvancedFits ==
    ASSUME NEW s \in AircraftTruth, NEW spec \in AircraftSpec, NEW from \in Nat
    PROVE  LET n == Advanced(s, spec, from, 1)
           IN  n \in AircraftTruth /\ (n.airborne => n.altitude >= 0)
<1> DEFINE c == Commanded(s, spec.plan, from, from + 1)
<1>1. spec.plan \in Seq(Command)
  BY DEF AircraftSpec
<1>2. c \in AircraftTruth
  BY <1>1, CommandedFits
<1>3. CASE from + 1 >= spec.entry
  BY <1>2, <1>3, FlownFits DEF Advanced
<1>4. CASE ~(from + 1 >= spec.entry)
  <2>1. Advanced(s, spec, from, 1) = [c EXCEPT !.airborne = FALSE]
    BY <1>4 DEF Advanced
  <2> QED
    BY <1>2, <2>1 DEF AircraftTruth
<1> QED
  BY <1>3, <1>4

\* How an aircraft begins.
LEMMA InitialFits ==
    ASSUME NEW spec \in AircraftSpec
    PROVE  InitialTruth(spec) \in AircraftTruth
<1>1. /\ spec.east \in Int /\ spec.north \in Int /\ spec.altitude \in Int
      /\ spec.heading \in Heading /\ spec.heading \in Int /\ spec.speed \in Int
      /\ spec.v_altitude \in Int /\ spec.squawk \in Int /\ Ceiling \in Int
  BY SimulationAssumption DEF AircraftSpec, Heading
<1> QED
  BY <1>1 DEF InitialTruth, AircraftTruth, Pursuit

-----------------------------------------------------------------------------
(* SeverityIsFresh. *)

\* What a scan detects has one severity for each condition.
LEMMA DetectionsFit ==
    ASSUME NEW known, DOMAIN known \subseteq Aircraft, NEW reporting \in SUBSET Aircraft
    PROVE  /\ Sound(Detections(known, reporting))
           /\ Detected(known) \subseteq Detections(known, reporting)
<1> DEFINE deviations ==
        {[key |-> Deviation(a), severity |-> "ADVISORY"] : a \in Deviating(known, reporting)}
<1>1. Detections(known, reporting) = Detected(known) \cup deviations
  BY DEF Detections
<1>2. ASSUME NEW d \in deviations
      PROVE  d.key \in Condition /\ d.key.kind = "non_conformance" /\ d.severity = "ADVISORY"
  <2>1. PICK a \in Deviating(known, reporting) : d = [key |-> Deviation(a), severity |-> "ADVISORY"]
    OBVIOUS
  <2>2. a \in Aircraft
    BY DEF Deviating
  <2>3. Deviation(a) \in Condition
    BY <2>2, AloneIsCondition DEF Deviation
  <2>4. Deviation(a).kind = "non_conformance"
    BY DEF Deviation, Alone
  <2> QED
    BY <2>1, <2>3, <2>4
<1>3. ASSUME NEW d \in Detected(known)
      PROVE  /\ d.key \in Condition /\ d.severity \in Severity /\ d.key.kind # "non_conformance"
             /\ \A e \in Detected(known) : e.key = d.key => e.severity = d.severity
  BY DetectedFits
<1> HIDE DEF deviations
<1>4. "ADVISORY" \in Severity
  BY DEF Severity
<1>5. ASSUME NEW d \in Detected(known) \cup deviations, NEW e \in Detected(known) \cup deviations
      PROVE  /\ d.key \in Condition /\ d.severity \in Severity
             /\ d.key = e.key => d.severity = e.severity
  BY <1>2, <1>3, <1>4
<1> QED
  BY <1>1, <1>5 DEF Sound

\* What the picture says is told, and told of.
SeverityInv ==
    /\ DOMAIN picture \subseteq Aircraft
    /\ active \in Manager!Manager
    /\ told \in [Condition -> Severity \cup {NotTold}]
    /\ SeverityIsFresh

\* Of an empty picture there is nothing to detect.
LEMMA NothingDetected == Detected(<<>>) = {}
<1>1. DOMAIN <<>> = {}
  OBVIOUS
<1>2. Scan(<<>>) = {}
  <2>1. Eligible(<<>>) = {}
    BY <1>1 DEF Eligible
  <2>2. ASSUME NEW pair \in Scan(<<>>) PROVE FALSE
    <3>1. \E i, j \in pair : i # j
      BY DEF Scan
    <3>2. pair \subseteq Eligible(<<>>)
      BY DEF Scan, CandidatePairs, kSubset
    <3> QED
      BY <2>1, <3>1, <3>2
  <2> QED
    BY <2>2
<1> QED
  BY <1>1, <1>2 DEF Detected

\* Nothing is told before the first scan.
LEMMA SeverityInit == Init => SeverityInv
<1> SUFFICES ASSUME Init PROVE SeverityInv
  OBVIOUS
<1>1. picture = <<>> /\ DOMAIN picture = {}
  BY DEF Init
<1>2. Detected(picture) = {}
  BY <1>1, NothingDetected
<1>3. active \in Manager!Manager /\ told \in [Condition -> Severity \cup {NotTold}]
  BY DEF Init, Manager!Manager
<1> QED
  BY <1>1, <1>2, <1>3 DEF SeverityInv, SeverityIsFresh

\* A turn of the loop tells what its scan detects.
LEMMA SeverityStep ==
    ASSUME SeverityInv, NEW reporting \in SUBSET Aircraft, NEW now, Step(now, reporting)
    PROVE  SeverityInv'
<1> DEFINE known == Absorbed(now, reporting)
           gone == Stale(known)
           current == [a \in DOMAIN known \ gone |-> known[a]]
           detections == Detections(current, reporting)
<1>1. DOMAIN known \subseteq Aircraft
  BY DEF Absorbed, SeverityInv
<1>2. DOMAIN current = DOMAIN known \ gone
  OBVIOUS
<1>3. Scanned(known, gone, detections)
  BY DEF Step
<1> HIDE DEF known, gone
<1>4. picture' = current
  BY <1>3 DEF Scanned
<1>5. Sound(detections) /\ Detected(current) \subseteq detections
  BY <1>1, <1>2, DetectionsFit
<1>6. /\ active' \in Manager!Manager
      /\ told' \in [Condition -> Severity \cup {NotTold}]
      /\ \A d \in detections :
            d.key.about \cap gone = {} =>
               /\ active'[d.key] # Manager!NotActive
               /\ told'[d.key] = d.severity \/ active'[d.key].since < SustainInterval
  <2> HIDE DEF detections
  <2> QED
    BY <1>3, <1>5, ScannedTells DEF SeverityInv
<1>7. \A d \in Detected(current) : d.key.about \cap gone = {}
  BY <1>1, <1>2, DetectedFits
<1> HIDE DEF current, detections
<1>8. \A d \in Detected(picture') :
         /\ active'[d.key] # Manager!NotActive
         /\ told'[d.key] = d.severity \/ active'[d.key].since < SustainInterval
  BY <1>4, <1>5, <1>6, <1>7
<1>9. DOMAIN picture' \subseteq Aircraft
  BY <1>1, <1>2, <1>4
<1> QED
  BY <1>6, <1>8, <1>9 DEF SeverityInv, SeverityIsFresh

\* What gives cause for an alert in the picture has one, and its urgency is told but
\* for the last interval, whatever the scenario: alerts.py lets an escalation wait for
\* the heartbeat, and nothing else puts it off.
THEOREM SeverityIsFreshCorrect == Spec => []SeverityIsFresh
<1>1. SeverityInv /\ [Next]_vars => SeverityInv'
  <2> SUFFICES ASSUME SeverityInv, [Next]_vars PROVE SeverityInv'
    OBVIOUS
  <2>1. ASSUME NEW reporting \in SUBSET Aircraft, Step(Moved, reporting) PROVE SeverityInv'
    BY <2>1, SeverityStep
  <2>2. CASE Score
    BY <2>2 DEF Score, SeverityInv, SeverityIsFresh
  <2>3. CASE UNCHANGED vars
    BY <2>3 DEF vars, SeverityInv, SeverityIsFresh
  <2> QED
    BY <2>1, <2>2, <2>3 DEF Next
<1>2. SeverityInv => SeverityIsFresh
  BY DEF SeverityInv
<1> QED
  BY <1>1, <1>2, SeverityInit, PTL DEF Spec

-----------------------------------------------------------------------------
(* The queue of predictions. *)

\* What was predicted in order, none of it for longer ahead than now.
Predicted(queue, at) ==
    /\ queue \in Seq(Prediction)
    /\ \A i \in DOMAIN queue : queue[i].valid_at < at + Horizon
    /\ \A i, j \in DOMAIN queue : i < j => j - i <= queue[j].valid_at - queue[i].valid_at

\* Predictions are made for instants.
LEMMA PredictionsFit ==
    ASSUME NEW queue \in Seq(Prediction)
    PROVE  /\ Len(queue) \in Nat /\ DOMAIN queue = 1..Len(queue)
           /\ \A i \in 1..Len(queue) : queue[i] \in Prediction /\ queue[i].valid_at \in Nat
<1>1. \A p \in Prediction : p.valid_at \in Nat
  BY DEF Prediction
<1>2. Len(queue) \in Nat /\ DOMAIN queue = 1..Len(queue)
  OBVIOUS
<1>3. \A i \in 1..Len(queue) : queue[i] \in Prediction
  BY <1>2
<1> QED
  BY <1>1, <1>2, <1>3

\* The queue is popped up to the first prediction that is not due.
LEMMA DueCountFits ==
    ASSUME NEW queue \in Seq(Prediction), NEW now \in Nat
    PROVE  /\ DueCount(queue, now) \in 0..Len(queue)
           /\ DueCount(queue, now) < Len(queue) =>
                 now + Tolerance < queue[DueCount(queue, now) + 1].valid_at
<1> DEFINE I == {i \in 1..Len(queue) : now < queue[i].valid_at - Tolerance}
           later == IF I # {} THEN Min(I) ELSE 0
<1>1. DueCount(queue, now) = IF later = 0 THEN Len(queue) ELSE later - 1
  BY DEF DueCount, SelectInSeq
<1>2. Len(queue) \in Nat /\ \A i \in 1..Len(queue) : queue[i].valid_at \in Nat
  BY PredictionsFit
<1>3. CASE I = {}
  BY <1>1, <1>2, <1>3
<1>4. CASE I # {}
  <2>1. I \subseteq Nat
    BY <1>2
  <2>2. Min(I) \in I
    BY <1>4, <2>1, Least
  <2>3. later = Min(I)
    BY <1>4
  <2> HIDE DEF later
  <2>4. later \in 1..Len(queue) /\ now < queue[later].valid_at - Tolerance
    BY <2>2, <2>3
  <2>5. DueCount(queue, now) = later - 1 /\ DueCount(queue, now) + 1 = later
    BY <1>1, <1>2, <2>4
  <2> QED
    BY <1>2, <2>4, <2>5, MonitorAssumption
<1> QED
  BY <1>3, <1>4

\* What waits is the rest of the queue.
LEMMA WaitingIsRest ==
    ASSUME NEW queue \in Seq(Prediction), NEW now \in Nat
    PROVE  /\ Waiting(queue, now) \in Seq(Prediction)
           /\ Len(Waiting(queue, now)) = Len(queue) - DueCount(queue, now)
           /\ DOMAIN Waiting(queue, now) = 1..Len(Waiting(queue, now))
           /\ \A i \in 1..Len(Waiting(queue, now)) :
                 Waiting(queue, now)[i] = queue[i + DueCount(queue, now)]
<1> DEFINE n == DueCount(queue, now)
           W == Waiting(queue, now)
<1>1. Len(queue) \in Nat /\ DOMAIN queue = 1..Len(queue)
  BY PredictionsFit
<1>2. n \in 0..Len(queue)
  BY <1>1, DueCountFits
<1>3. W = SubSeq(queue, n + 1, Len(queue))
  BY DEF Waiting
<1> HIDE DEF n, W
<1>4. n \in Nat /\ n <= Len(queue)
  BY <1>1, <1>2
<1>5. n + 1 \in Int /\ Len(queue) \in Int
  BY <1>1, <1>4
<1>6. \A i \in n + 1..Len(queue) : queue[i] \in Prediction
  <2>1. \A i \in n + 1..Len(queue) : i \in 1..Len(queue)
    BY <1>1, <1>4
  <2> QED
    BY <1>1, <2>1, PredictionsFit
<1>7. /\ W \in Seq(Prediction)
      /\ Len(W) = IF n + 1 <= Len(queue) THEN Len(queue) - (n + 1) + 1 ELSE 0
      /\ \A i \in 1..Len(queue) - (n + 1) + 1 : W[i] = queue[n + 1 + i - 1]
  BY <1>3, <1>5, <1>6, SubSeqProperties
<1>8. Len(W) = IF n + 1 <= Len(queue) THEN Len(queue) - (n + 1) + 1 ELSE 0
  BY <1>7
<1>9. Len(W) = Len(queue) - n /\ Len(queue) - (n + 1) + 1 = Len(queue) - n
  <2>1. \A l, m \in Nat : m <= l => /\ (IF m + 1 <= l THEN l - (m + 1) + 1 ELSE 0) = l - m
                                    /\ l - (m + 1) + 1 = l - m
    OBVIOUS
  <2>2. Len(queue) \in Nat
    BY <1>1
  <2> QED
    BY <1>4, <1>8, <2>1, <2>2
<1>10. ASSUME NEW i \in 1..Len(W) PROVE W[i] = queue[i + n]
  <2>1. i \in 1..Len(queue) - (n + 1) + 1
    BY <1>9
  <2>2. W[i] = queue[n + 1 + i - 1]
    BY <1>7, <2>1
  <2>3. n + 1 + i - 1 = i + n
    BY <1>4, <1>10
  <2> QED
    BY <2>2, <2>3
<1>11. DOMAIN W = 1..Len(W)
  BY <1>7
<1> QED
  BY <1>7, <1>9, <1>10, <1>11 DEF W, n

\* Of a queue in order, what waits is in order, and none of it is due.
LEMMA WaitingFits ==
    ASSUME NEW queue, NEW now \in Nat, Predicted(queue, now)
    PROVE  /\ Waiting(queue, now) \in Seq(Prediction)
           /\ \A i \in DOMAIN Waiting(queue, now) :
                 /\ now + Tolerance < Waiting(queue, now)[i].valid_at
                 /\ Waiting(queue, now)[i].valid_at < now + Horizon
           /\ \A i, j \in DOMAIN Waiting(queue, now) :
                 i < j => j - i <= Waiting(queue, now)[j].valid_at
                                       - Waiting(queue, now)[i].valid_at
<1> DEFINE n == DueCount(queue, now)
           W == Waiting(queue, now)
<1>1. /\ queue \in Seq(Prediction) /\ Len(queue) \in Nat /\ DOMAIN queue = 1..Len(queue)
      /\ \A i \in 1..Len(queue) : queue[i].valid_at \in Nat
  BY PredictionsFit DEF Predicted
<1>2. n \in 0..Len(queue) /\ (n < Len(queue) => now + Tolerance < queue[n + 1].valid_at)
  BY <1>1, DueCountFits
<1>4. /\ W \in Seq(Prediction) /\ Len(W) = Len(queue) - n /\ DOMAIN W = 1..Len(W)
      /\ \A i \in 1..Len(W) : W[i] = queue[i + n]
  BY <1>1, WaitingIsRest
<1> HIDE DEF n, W
<1>2a. n \in Nat /\ n <= Len(queue)
  BY <1>1, <1>2
<1>5. \A i \in 1..Len(W) : W[i] = queue[i + n] /\ i + n \in 1..Len(queue)
  <2>1. Len(W) = Len(queue) - n
    BY <1>4
  <2>2. \A i \in 1..Len(W) : i + n \in 1..Len(queue)
    BY <1>1, <1>2a, <2>1
  <2> QED
    BY <1>4, <2>2
<1>6. ASSUME NEW i \in 1..Len(W)
      PROVE  now + Tolerance < W[i].valid_at /\ W[i].valid_at < now + Horizon
  <2>1. n < Len(queue) /\ n + 1 \in 1..Len(queue)
    BY <1>1, <1>2, <1>4
  <2>2. i = 1 \/ n + 1 < i + n
    BY <1>2, <1>4
  <2>3. n + 1 < i + n => (i + n) - (n + 1) <= queue[i + n].valid_at - queue[n + 1].valid_at
    BY <1>1, <1>5, <2>1 DEF Predicted
  <2>4. queue[n + 1].valid_at <= queue[i + n].valid_at
    <3>1. queue[n + 1].valid_at \in Nat /\ queue[i + n].valid_at \in Nat
      BY <1>1, <1>5, <2>1
    <3>2. (i + n) - (n + 1) >= 0
      BY <1>2, <1>4
    <3> QED
      BY <2>2, <2>3, <3>1, <3>2, <1>2
  <2>5. queue[i + n].valid_at < now + Horizon
    BY <1>1, <1>5 DEF Predicted
  <2>6. queue[n + 1].valid_at \in Nat /\ queue[i + n].valid_at \in Nat
    BY <1>1, <1>5, <2>1
  <2>7. now + Tolerance < queue[i + n].valid_at
    BY <1>2, <2>1, <2>4, <2>6, MonitorAssumption
  <2> QED
    BY <1>5, <2>5, <2>7
<1>7. ASSUME NEW i \in 1..Len(W), NEW j \in 1..Len(W), i < j
      PROVE  j - i <= W[j].valid_at - W[i].valid_at
  <2>1. (j + n) - (i + n) <= queue[j + n].valid_at - queue[i + n].valid_at
    <3>1. i + n < j + n
      BY <1>2, <1>4, <1>7
    <3> QED
      BY <1>1, <1>5, <3>1 DEF Predicted
  <2>2. (j + n) - (i + n) = j - i
    BY <1>2, <1>4
  <2> QED
    BY <1>5, <2>1, <2>2
<1> QED
  BY <1>4, <1>6, <1>7 DEF W

\* As many wait as fit between the instants they are made for.
LEMMA QueueIsShort ==
    ASSUME NEW queue \in Seq(Prediction), NEW low \in Nat, NEW high \in Nat, low <= high,
           \A i \in DOMAIN queue : low < queue[i].valid_at /\ queue[i].valid_at <= high,
           \A i, j \in DOMAIN queue : i < j => j - i <= queue[j].valid_at - queue[i].valid_at
    PROVE  Len(queue) <= high - low
<1>1. Len(queue) \in Nat /\ DOMAIN queue = 1..Len(queue)
  OBVIOUS
<1>2. CASE Len(queue) <= 1
  <2>1. CASE Len(queue) = 0
    BY <2>1
  <2>2. CASE Len(queue) = 1
    <3>1. 1 \in DOMAIN queue /\ 1 \in 1..Len(queue)
      BY <1>1, <2>2
    <3>2. queue[1].valid_at \in Nat /\ low < queue[1].valid_at /\ queue[1].valid_at <= high
      BY <3>1, PredictionsFit
    <3> QED
      BY <2>2, <3>2
  <2> QED
    BY <1>1, <1>2, <2>1, <2>2
<1>3. CASE Len(queue) > 1
  <2>1. 1 \in 1..Len(queue) /\ Len(queue) \in 1..Len(queue)
    BY <1>1, <1>3
  <2>2. queue[1].valid_at \in Nat /\ queue[Len(queue)].valid_at \in Nat
    BY <1>1, <2>1, PredictionsFit
  <2>3. low < queue[1].valid_at /\ queue[Len(queue)].valid_at <= high
    BY <1>1, <2>1
  <2>4. Len(queue) - 1 <= queue[Len(queue)].valid_at - queue[1].valid_at
    BY <1>1, <1>3, <2>1
  <2> QED
    BY <1>1, <2>2, <2>3, <2>4
<1> QED
  BY <1>1, <1>2, <1>3

\* An update predicts a place on the plane, a horizon later.
LEMMA PredictFits ==
    ASSUME NEW update \in AircraftUpdate
    PROVE  Predict(update) \in Prediction /\ Predict(update).valid_at = update.at + Horizon
<1>1. /\ update.at \in Nat /\ update.east \in Int /\ update.v_east \in Int
      /\ update.north \in Int /\ update.v_north \in Int /\ Horizon \in Nat
  BY MonitorAssumption DEF AircraftUpdate
<1>2. ASSUME NEW a \in Int, NEW b \in Int, NEW c \in Int
      PROVE  a + b * c \in Int
  <2>1. b * c \in Int
    BY <1>2
  <2> DEFINE d == b * c
  <2>2. d \in Int
    BY <2>1
  <2> HIDE DEF d
  <2>3. a + d \in Int
    BY <1>2, <2>2
  <2> QED
    BY <2>3 DEF d
<1>3. Horizon \in Int
  BY <1>1
<1>4. update.east + Horizon * update.v_east \in Int
  BY <1>1, <1>2, <1>3
<1>5. update.north + Horizon * update.v_north \in Int
  BY <1>1, <1>2, <1>3
<1>6. update.at + Horizon \in Nat
  BY <1>1
<1> QED
  BY <1>4, <1>5, <1>6 DEF Predict, Prediction

\* An update's prediction goes to the end of the queue, which has room for it.
LEMMA ObservedFits ==
    ASSUME NEW queue, NEW update \in AircraftUpdate, Predicted(queue, update.at), QueueSuffices
    PROVE  /\ WaitingInOrder(Observed(queue, update), update.at)
           /\ Observed(queue, update) = Append(Waiting(queue, update.at), Predict(update))
<1> DEFINE W == Waiting(queue, update.at)
           p == Predict(update)
           Q == Append(W, p)
<1>1. update.at \in Nat /\ Horizon \in Nat /\ Tolerance \in Nat /\ MaxPending \in Nat
  BY MonitorAssumption DEF AircraftUpdate
<1>2. /\ W \in Seq(Prediction)
      /\ \A i \in DOMAIN W : update.at + Tolerance < W[i].valid_at
                             /\ W[i].valid_at < update.at + Horizon
      /\ \A i, j \in DOMAIN W : i < j => j - i <= W[j].valid_at - W[i].valid_at
  BY <1>1, WaitingFits
<1>3. p \in Prediction /\ p.valid_at = update.at + Horizon
  BY PredictFits
<1>4. Observed(queue, update) = Bounded(Q)
  BY DEF Observed
<1> HIDE DEF W, p
<1>5. /\ Q \in Seq(Prediction) /\ Len(W) \in Nat /\ Len(Q) = Len(W) + 1
      /\ DOMAIN W = 1..Len(W) /\ DOMAIN Q = 1..(Len(W) + 1)
      /\ Q[Len(W) + 1] = p /\ \A i \in 1..Len(W) : Q[i] = W[i] /\ W[i].valid_at \in Nat
  <2>1. Len(W) \in Nat /\ DOMAIN W = 1..Len(W) /\ \A i \in 1..Len(W) : W[i].valid_at \in Nat
    BY <1>2, PredictionsFit
  <2> QED
    BY <1>2, <1>3, <2>1, AppendProperties
<1> HIDE DEF Q
<1>6. \A i \in DOMAIN Q : update.at + Tolerance < Q[i].valid_at
                          /\ Q[i].valid_at <= update.at + Horizon
  <2>1. ASSUME NEW i \in 1..Len(W)
        PROVE  update.at + Tolerance < Q[i].valid_at /\ Q[i].valid_at <= update.at + Horizon
    <3>1. update.at + Tolerance < W[i].valid_at /\ W[i].valid_at < update.at + Horizon
      BY <1>2, <1>5
    <3>2. Q[i] = W[i] /\ W[i].valid_at \in Nat
      BY <1>5
    <3> QED
      BY <1>1, <3>1, <3>2
  <2>2. update.at + Tolerance < p.valid_at /\ p.valid_at <= update.at + Horizon
    BY <1>1, <1>3 DEF QueueSuffices
  <2> QED
    BY <1>5, <2>1, <2>2
<1>7. ASSUME NEW i \in DOMAIN Q, NEW j \in DOMAIN Q, i < j
      PROVE  j - i <= Q[j].valid_at - Q[i].valid_at
  <2>1. i \in 1..Len(W)
    BY <1>5, <1>7
  <2>2. CASE j \in 1..Len(W)
    BY <1>2, <1>5, <1>7, <2>1, <2>2
  <2>3. CASE j = Len(W) + 1
    <3>1. Len(W) \in DOMAIN W /\ W[Len(W)].valid_at < update.at + Horizon
      BY <1>2, <1>5, <2>1
    <3>2. i = Len(W) \/ Len(W) - i <= W[Len(W)].valid_at - W[i].valid_at
      BY <1>2, <1>5, <2>1, <3>1
    <3>3. Q[j].valid_at = update.at + Horizon /\ Q[i].valid_at = W[i].valid_at
      BY <1>3, <1>5, <2>1, <2>3
    <3>4. W[i].valid_at \in Nat /\ W[Len(W)].valid_at \in Nat
      BY <1>5, <2>1, <3>1
    <3>5. Len(W) \in Nat /\ i \in Nat /\ i <= Len(W)
      BY <1>5, <2>1
    <3>6. Len(W) - i + W[i].valid_at <= W[Len(W)].valid_at
      <4>1. \A l, n, v, w \in Nat :
               ((l = n /\ v = w) \/ l - n <= w - v) => l - n + v <= w
        OBVIOUS
      <4> QED
        BY <3>2, <3>4, <3>5, <4>1
    <3>7. j - i <= (update.at + Horizon) - W[i].valid_at
      <4>1. \A l, n, v, w, h \in Nat : l - n + v <= w /\ w < h => (l + 1) - n <= h - v
        OBVIOUS
      <4>2. update.at + Horizon \in Nat
        BY <1>1
      <4> QED
        BY <2>3, <3>1, <3>4, <3>5, <3>6, <4>1, <4>2
    <3> QED
      BY <3>3, <3>7
  <2> QED
    BY <1>5, <2>2, <2>3
<1>8. Len(Q) <= MaxPending
  <2>1. update.at + Tolerance \in Nat /\ update.at + Horizon \in Nat
        /\ update.at + Tolerance <= update.at + Horizon
    BY <1>1 DEF QueueSuffices
  <2>2. Len(Q) <= (update.at + Horizon) - (update.at + Tolerance)
    BY <1>5, <1>6, <1>7, <2>1, QueueIsShort
  <2> QED
    BY <1>1, <1>5, <2>2 DEF QueueSuffices
<1>9. Bounded(Q) = Q
  BY <1>1, <1>5, <1>8 DEF Bounded
<1> QED
  BY <1>4, <1>5, <1>6, <1>7, <1>9 DEF WaitingInOrder, Q, W, p

-----------------------------------------------------------------------------
(* TypeOK. *)

\* Everything moves to where it can be.
LEMMA MovedFits ==
    ASSUME LoopTypeOK
    PROVE  /\ Moved \in [Aircraft -> AircraftTruth]
           /\ \A a \in Aircraft : Moved[a].airborne => Moved[a].altitude >= 0
<1>1. ASSUME NEW a \in Aircraft
      PROVE  /\ Advanced(truth[a], world[a], elapsed, 1) \in AircraftTruth
             /\ Advanced(truth[a], world[a], elapsed, 1).airborne =>
                    Advanced(truth[a], world[a], elapsed, 1).altitude >= 0
  <2>1. truth[a] \in AircraftTruth /\ elapsed \in Nat
    BY DEF LoopTypeOK
  <2>2. world[a] \in AircraftSpec
    BY ReplayAssumption DEF LoopTypeOK
  <2> QED
    BY <2>1, <2>2, AdvancedFits
<1> QED
  BY <1>1 DEF Moved

\* An update tells of one aircraft at one instant.
LEMMA UpdateFits ==
    ASSUME LoopTypeOK, NEW now \in [Aircraft -> AircraftTruth], NEW a \in Aircraft
    PROVE  Update(now, a) \in AircraftUpdate /\ Update(now, a).at = elapsed + 1
<1> DEFINE s == now[a]
           u == Unit[s.heading]
           count == Counted(update_count[a])
           east == s.speed * u.east
           north == s.speed * u.north
<1>1. s \in AircraftTruth
  OBVIOUS
<1> HIDE DEF s
<1>2. /\ s.east \in Int /\ s.north \in Int /\ s.altitude \in Int /\ s.heading \in Heading
      /\ s.squawk \in Int /\ s.speed \in Int /\ s.v_altitude \in Int
  BY <1>1 DEF AircraftTruth
<1>3. u.east \in Int /\ u.north \in Int
  BY <1>2, SimulationAssumption DEF Heading
<1>4. east \in Int /\ north \in Int
  BY <1>2, <1>3
<1>5. count \in 0..MinUpdates
  BY SeparationAssumption DEF LoopTypeOK, Counted
<1>6. elapsed + 1 \in Nat
  BY DEF LoopTypeOK
<1>7. Update(now, a) =
        [at |-> elapsed + 1, update_count |-> count, east |-> s.east, north |-> s.north,
         altitude |-> s.altitude, heading |-> s.heading, squawk |-> s.squawk,
         v_east |-> east, v_north |-> north, v_altitude |-> s.v_altitude]
  BY DEF Update, Seen, s
<1> HIDE DEF count, east, north
<1> QED
  BY <1>2, <1>4, <1>5, <1>6, <1>7 DEF AircraftUpdate

\* What is flown, and what is counted.
LEMMA LoopStep ==
    ASSUME Typed, NEW reporting \in SUBSET Aircraft, Step(Moved, reporting)
    PROVE  LoopTypeOK'
<1> DEFINE now == Moved
           known == Absorbed(now, reporting)
           gone == Stale(known)
           current == [a \in DOMAIN known \ gone |-> known[a]]
           lost == Cardinality(Flying(now) \ reporting)
<1>1. LoopTypeOK /\ DOMAIN picture \subseteq Aircraft
  BY DEF Typed, SeenTypeOK
<1>2. elapsed \in Nat /\ elapsed + 1 \in 1..Duration /\ elapsed' = elapsed + 1
  BY <1>1, ReplayAssumption DEF Step, LoopTypeOK
<1>3. truth' \in [Aircraft -> AircraftTruth]
  BY <1>1, MovedFits DEF Step
<1>4. lost \in Nat
  <2>1. IsFiniteSet(Aircraft)
    BY ReplayAssumption
  <2>2. Flying(now) \ reporting \subseteq Aircraft
    BY DEF Flying
  <2> QED
    BY <2>1, <2>2, FS_Subset, FS_CardinalityType
<1>5. dropped' \in 0..MaxDropouts
  <2>1. dropped' = dropped + lost /\ dropped + lost <= MaxDropouts
    BY DEF Step
  <2> HIDE DEF lost
  <2> QED
    BY <1>1, <1>4, <2>1, ReplayAssumption DEF LoopTypeOK
<1>6. update_count' \in [Aircraft -> 0..MinUpdates]
  <2>1. \A n \in 0..MinUpdates : Counted(n) \in 0..MinUpdates
    BY SeparationAssumption DEF Counted
  <2>2. update_count' = [a \in Aircraft |->
            IF a \in reporting THEN Counted(update_count[a]) ELSE update_count[a]]
    BY DEF Step
  <2> QED
    BY <1>1, <2>1, <2>2 DEF LoopTypeOK
<1>7. active' \in Manager!Manager /\ told' \in [Condition -> Severity \cup {NotTold}]
  <2>1. DOMAIN known \subseteq Aircraft /\ DOMAIN current = DOMAIN known \ gone
    BY <1>1 DEF Absorbed
  <2>2. Scanned(known, gone, Detections(current, reporting))
    BY DEF Step
  <2>3. Sound(Detections(current, reporting))
    BY <2>1, DetectionsFit
  <2> HIDE DEF current, gone, known
  <2> QED
    BY <1>1, <2>2, <2>3, ScannedTells DEF LoopTypeOK
<1>8. closest'.conflicted \in BOOLEAN
  <2>1. closest' = Closest(now)
    BY DEF Step
  <2>2. closest.conflicted \in BOOLEAN
    BY <1>1 DEF LoopTypeOK
  <2>3. ASSUME NEW h, NEW v, NEW r
        PROVE  Approached(closest, h, v, TooClose(r)).conflicted \in BOOLEAN
    <3>1. Approached(closest, h, v, TooClose(r)).conflicted = (closest.conflicted \/ TooClose(r))
      BY DEF Approached
    <3> QED
      BY <3>1
  <2> QED
    BY <2>1, <2>2, <2>3 DEF Closest
<1>9. violations' \subseteq 1..Duration /\ fresh' \subseteq 1..Duration
  BY <1>1, <1>2 DEF Step, LoopTypeOK
<1>10. raised' \in [Condition -> 1..NotRaised]
  <2>1. \A c \in Condition : raised'[c] \in {raised[c], elapsed + 1}
    BY DEF Step, Scanned
  <2>2. raised' = [c \in Condition |-> raised'[c]]
    BY DEF Step, Scanned
  <2>3. elapsed + 1 \in 1..NotRaised
    BY <1>2, ReplayAssumption DEF NotRaised
  <2> QED
    BY <1>1, <2>1, <2>2, <2>3 DEF LoopTypeOK
<1>11. advisories' \in [Aircraft -> SUBSET (1..Duration)]
  <2>1. \A a \in Aircraft : advisories'[a] \in {advisories[a], advisories[a] \cup {elapsed + 1}}
    BY DEF Step, Scanned
  <2>2. advisories' = [a \in Aircraft |-> advisories'[a]]
    BY DEF Step, Scanned
  <2>3. \A a \in Aircraft : advisories'[a] \in SUBSET (1..Duration)
    BY <1>1, <1>2, <2>1 DEF LoopTypeOK
  <2> QED
    BY <2>2, <2>3
<1>12. world' = world
  BY DEF Step
<1> QED
  BY <1>1, <1>2, <1>3, <1>5, <1>6, <1>7, <1>8, <1>9, <1>10, <1>11, <1>12 DEF LoopTypeOK

\* What is known of an aircraft after the reports: it reported now, or is known as before.
LEMMA KnownFits ==
    ASSUME Typed, NEW reporting \in SUBSET Aircraft, Step(Moved, reporting)
    PROVE  LET known == Absorbed(Moved, reporting)
               gone == Stale(known)
           IN  /\ DOMAIN known = DOMAIN picture \cup reporting
               /\ \A a \in reporting : known[a] \in AircraftUpdate /\ known[a].at = elapsed + 1
               /\ \A a \in DOMAIN picture \ reporting : known[a] = picture[a]
               /\ gone \subseteq DOMAIN known \ reporting
               /\ DOMAIN picture' = DOMAIN known \ gone
               /\ \A a \in DOMAIN picture' : picture'[a] = known[a]
<1> DEFINE known == Absorbed(Moved, reporting)
           gone == Stale(known)
<1>1. LoopTypeOK /\ elapsed \in Nat
  BY DEF Typed, LoopTypeOK
<1>2. DOMAIN known = DOMAIN picture \cup reporting
  BY DEF Absorbed
<1>3. ASSUME NEW a \in reporting PROVE known[a] \in AircraftUpdate /\ known[a].at = elapsed + 1
  <2>1. known[a] = Update(Moved, a)
    BY DEF Absorbed
  <2> QED
    BY <1>1, <2>1, MovedFits, UpdateFits
<1>4. \A a \in DOMAIN picture \ reporting : known[a] = picture[a]
  BY DEF Absorbed
<1>5. picture' = [a \in DOMAIN known \ gone |-> known[a]]
  BY DEF Step, Scanned
<1> HIDE DEF known
<1>6. gone \subseteq DOMAIN known \ reporting
  BY <1>1, <1>3, ReplayAssumption DEF Stale
<1> HIDE DEF gone
<1>7. DOMAIN picture' = DOMAIN known \ gone /\ \A a \in DOMAIN picture' : picture'[a] = known[a]
  BY <1>5
<1> QED
  BY <1>2, <1>3, <1>4, <1>6, <1>7 DEF known, gone

\* What is seen, is seen in time.
LEMMA SeenStep ==
    ASSUME Typed, NEW reporting \in SUBSET Aircraft, Step(Moved, reporting)
    PROVE  SeenTypeOK'
<1> DEFINE known == Absorbed(Moved, reporting)
           gone == Stale(known)
<1>1. LoopTypeOK /\ SeenTypeOK /\ elapsed \in Nat /\ elapsed' = elapsed + 1
  BY DEF Typed, LoopTypeOK, Step
<1>2. /\ DOMAIN known = DOMAIN picture \cup reporting
      /\ \A a \in reporting : known[a] \in AircraftUpdate /\ known[a].at = elapsed + 1
      /\ \A a \in DOMAIN picture \ reporting : known[a] = picture[a]
      /\ DOMAIN picture' = DOMAIN known \ gone
      /\ \A a \in DOMAIN picture' : picture'[a] = known[a]
  BY KnownFits
<1>3. path' = Recorded(Moved) /\ updates' = Collected(known, reporting)
  BY DEF Step
<1> HIDE DEF known, gone
<1>4. DOMAIN picture' \subseteq Aircraft
  BY <1>1, <1>2 DEF SeenTypeOK
<1>5. ASSUME NEW a \in DOMAIN picture' PROVE picture'[a].at \in 1..elapsed'
  <2>1. CASE a \in reporting
    BY <1>1, <1>2, <2>1
  <2>2. CASE a \in DOMAIN picture \ reporting
    BY <1>1, <1>2, <2>2 DEF SeenTypeOK
  <2> QED
    BY <1>2, <2>1, <2>2
<1>6. ASSUME NEW a \in Aircraft
      PROVE  /\ DOMAIN path'[a] \subseteq 1..elapsed'
             /\ updates'[a] \in Seq(AircraftUpdate) /\ Len(updates'[a]) <= elapsed'
  <2>1. DOMAIN path'[a] \subseteq DOMAIN path[a] \cup {elapsed + 1}
    BY <1>3 DEF Recorded
  <2>2. DOMAIN path'[a] \subseteq 1..elapsed'
    BY <1>1, <2>1 DEF SeenTypeOK
  <2>3. updates[a] \in Seq(AircraftUpdate) /\ Len(updates[a]) <= elapsed /\ Len(updates[a]) \in Nat
    BY <1>1 DEF SeenTypeOK
  <2>4. CASE a \in reporting /\ Confirmed(known[a])
    <3>1. updates'[a] = Append(updates[a], known[a])
      BY <1>3, <2>4 DEF Collected
    <3>2. known[a] \in AircraftUpdate
      BY <1>2, <2>4
    <3>3. updates'[a] \in Seq(AircraftUpdate) /\ Len(updates'[a]) = Len(updates[a]) + 1
      BY <2>3, <3>1, <3>2, AppendProperties
    <3> QED
      BY <1>1, <2>2, <2>3, <3>3
  <2>5. CASE ~(a \in reporting /\ Confirmed(known[a]))
    <3>1. updates'[a] = updates[a]
      BY <1>3, <2>5 DEF Collected
    <3> QED
      BY <1>1, <2>2, <2>3, <3>1
  <2> QED
    BY <2>4, <2>5
<1> QED
  BY <1>4, <1>5, <1>6 DEF SeenTypeOK

\* What waits of an aircraft, as it stands before the next update.
LEMMA QueueBefore ==
    ASSUME ReplayInv, NEW a \in Aircraft
    PROVE  Predicted(pending[a], elapsed + 1)
<1>1. LoopTypeOK /\ SeenTypeOK /\ QueuesKept /\ elapsed \in Nat
  BY DEF ReplayInv, Typed, LoopTypeOK
<1>2. CASE a \in DOMAIN picture
  <2>1. WaitingInOrder(pending[a], picture[a].at)
    BY <1>1, <1>2 DEF QueuesKept
  <2>2. picture[a].at \in Nat /\ picture[a].at <= elapsed
    BY <1>1, <1>2 DEF SeenTypeOK
  <2>3. pending[a] \in Seq(Prediction)
    BY <2>1 DEF WaitingInOrder
  <2>4. ASSUME NEW i \in DOMAIN pending[a]
        PROVE  pending[a][i].valid_at < elapsed + 1 + Horizon
    <3>1. pending[a][i].valid_at \in Nat
      BY <2>3, PredictionsFit
    <3>2. pending[a][i].valid_at <= picture[a].at + Horizon
      BY <2>1 DEF WaitingInOrder
    <3> QED
      BY <1>1, <2>2, <3>1, <3>2, MonitorAssumption
  <2> QED
    BY <2>1, <2>3, <2>4 DEF Predicted, WaitingInOrder
<1>3. CASE a \notin DOMAIN picture
  <2>1. pending[a] = <<>>
    BY <1>1, <1>3 DEF QueuesKept
  <2> QED
    BY <2>1 DEF Predicted
<1> QED
  BY <1>2, <1>3

\* What waits of an aircraft was predicted before its next update.
LEMMA QueuesStep ==
    ASSUME ReplayInv, QueueSuffices, NEW reporting \in SUBSET Aircraft, Step(Moved, reporting)
    PROVE  QueuesKept'
<1> DEFINE known == Absorbed(Moved, reporting)
           gone == Stale(known)
<1>1. LoopTypeOK /\ SeenTypeOK /\ QueuesKept /\ elapsed \in Nat /\ elapsed' = elapsed + 1
  BY DEF ReplayInv, Typed, LoopTypeOK, Step
<1>2. /\ DOMAIN known = DOMAIN picture \cup reporting
      /\ \A a \in reporting : known[a] \in AircraftUpdate /\ known[a].at = elapsed + 1
      /\ \A a \in DOMAIN picture \ reporting : known[a] = picture[a]
      /\ gone \subseteq DOMAIN known \ reporting
      /\ DOMAIN picture' = DOMAIN known \ gone
      /\ \A a \in DOMAIN picture' : picture'[a] = known[a]
  BY KnownFits DEF ReplayInv
<1>3. \A a \in Aircraft :
         pending'[a] = IF a \in gone THEN <<>>
                       ELSE IF a \in reporting THEN Observed(pending[a], known[a])
                       ELSE pending[a]
  BY DEF Step
<1> HIDE DEF known, gone
<1>4. ASSUME NEW a \in Aircraft
      PROVE  IF a \in DOMAIN picture' THEN WaitingInOrder(pending'[a], picture'[a].at)
             ELSE pending'[a] = <<>>
  <2>1. CASE a \in gone
    BY <1>2, <1>3, <2>1
  <2>2. CASE a \in reporting
    <3>1. a \in DOMAIN picture' /\ picture'[a] = known[a]
      BY <1>2, <2>2
    <3>2. known[a] \in AircraftUpdate /\ known[a].at = elapsed + 1
      BY <1>2, <2>2
    <3>3. Predicted(pending[a], elapsed + 1)
      BY QueueBefore
    <3>4. WaitingInOrder(Observed(pending[a], known[a]), known[a].at)
      BY <3>2, <3>3, ObservedFits
    <3>5. pending'[a] = Observed(pending[a], known[a])
      BY <1>2, <1>3, <2>2
    <3> QED
      BY <3>1, <3>4, <3>5
  <2>3. CASE a \notin gone /\ a \notin reporting
    <3>1. pending'[a] = pending[a] /\ (a \in DOMAIN picture' <=> a \in DOMAIN picture)
      BY <1>2, <1>3, <2>3
    <3>2. a \in DOMAIN picture => picture'[a] = picture[a]
      BY <1>2, <2>3, <3>1
    <3> QED
      BY <1>1, <3>1, <3>2 DEF QueuesKept
  <2> QED
    BY <2>1, <2>2, <2>3
<1> QED
  BY <1>4 DEF QueuesKept

\* The loop begins well.
LEMMA TypedInit == Init => Typed
<1> SUFFICES ASSUME Init PROVE Typed
  OBVIOUS
<1>1. truth \in [Aircraft -> AircraftTruth]
  <2>1. \A a \in Aircraft : world[a] \in AircraftSpec
    BY ReplayAssumption DEF Init
  <2> QED
    BY <2>1, InitialFits DEF Init
<1>2. /\ elapsed \in 0..Duration /\ dropped \in 0..MaxDropouts /\ world \in Worlds
      /\ violations \subseteq 1..Duration /\ fresh \subseteq 1..Duration
  BY ReplayAssumption DEF Init
<1>3. update_count \in [Aircraft -> 0..MinUpdates]
  BY SeparationAssumption DEF Init
<1>4. active \in Manager!Manager /\ told \in [Condition -> Severity \cup {NotTold}]
  BY DEF Init, Manager!Manager
<1>5. closest.conflicted \in BOOLEAN
  <2>1. closest.conflicted = FALSE
    BY DEF Init, NeverSeen
  <2> QED
    BY <2>1
<1>6. raised \in [Condition -> 1..NotRaised]
  BY ReplayAssumption DEF Init, NotRaised
<1>7. advisories \in [Aircraft -> SUBSET (1..Duration)]
  BY DEF Init
<1>8. LoopTypeOK
  BY <1>1, <1>2, <1>3, <1>4, <1>5, <1>6, <1>7 DEF LoopTypeOK
<1>9. picture = <<>> /\ DOMAIN picture = {}
  BY DEF Init
<1>10. SeenTypeOK
  <2>1. ASSUME NEW a \in Aircraft
        PROVE  /\ DOMAIN path[a] \subseteq 1..elapsed
               /\ updates[a] \in Seq(AircraftUpdate) /\ Len(updates[a]) <= elapsed
    <3>1. path[a] = <<>> /\ updates[a] = <<>> /\ elapsed = 0
      BY DEF Init
    <3> QED
      BY <3>1
  <2> QED
    BY <1>9, <2>1 DEF SeenTypeOK
<1> QED
  BY <1>8, <1>10 DEF Typed

\* Turns and scores keep the types.
LEMMA TypedNext == Typed /\ [Next]_vars => Typed'
<1> SUFFICES ASSUME Typed, [Next]_vars PROVE Typed'
  OBVIOUS
<1>1. ASSUME NEW reporting \in SUBSET Aircraft, Step(Moved, reporting) PROVE Typed'
  BY <1>1, LoopStep, SeenStep DEF Typed
<1>2. CASE UNCHANGED <<world, elapsed, truth, update_count, picture, active, told, dropped,
                       path, updates, violations, closest, raised, advisories, fresh>>
  <2>1. LoopTypeOK'
    BY <1>2 DEF Typed, LoopTypeOK
  <2>2. SeenTypeOK'
    BY <1>2 DEF Typed, SeenTypeOK
  <2> QED
    BY <2>1, <2>2 DEF Typed
<1>3. Score => UNCHANGED <<world, elapsed, truth, update_count, picture, active, told, dropped,
                           path, updates, violations, closest, raised, advisories, fresh>>
  BY DEF Score
<1>4. UNCHANGED vars => UNCHANGED <<world, elapsed, truth, update_count, picture, active, told,
                   dropped, path, updates, violations, closest, raised, advisories, fresh>>
  BY DEF vars
<1> QED
  BY <1>1, <1>2, <1>3, <1>4 DEF Next

\* The inductive invariant.
LEMMA ReplayInvCorrect == ASSUME QueueSuffices PROVE Spec => []ReplayInv
<1>1. Init => ReplayInv
  BY TypedInit DEF Init, ReplayInv, QueuesKept
<1>2. ReplayInv /\ [Next]_vars => ReplayInv'
  <2> SUFFICES ASSUME ReplayInv, [Next]_vars PROVE ReplayInv'
    OBVIOUS
  <2>1. Typed'
    BY TypedNext DEF ReplayInv
  <2>2. ASSUME NEW reporting \in SUBSET Aircraft, Step(Moved, reporting) PROVE QueuesKept'
    BY <2>2, QueuesStep
  <2>3. ASSUME picture' = picture, pending' = pending PROVE QueuesKept'
    BY <2>3 DEF ReplayInv, QueuesKept
  <2>4. Score \/ UNCHANGED vars => picture' = picture /\ pending' = pending
    BY DEF Score, vars
  <2> QED
    BY <2>1, <2>2, <2>3, <2>4 DEF Next, ReplayInv
<1> QED
  BY <1>1, <1>2, PTL DEF Spec

\* Queues in order are queues kept.
LEMMA QueuesAreKept ==
    ASSUME ReplayInv, QueueSuffices
    PROVE  PredictionsKept
<1> SUFFICES ASSUME NEW a \in Aircraft
             PROVE  /\ Len(pending[a]) < MaxPending
                    /\ \A i \in DOMAIN pending[a] :
                          /\ pending[a][i] \in Prediction
                          /\ a \in DOMAIN picture => pending[a][i].valid_at - Tolerance > picture[a].at
                          /\ i > 1 => pending[a][i - 1].valid_at < pending[a][i].valid_at
  BY DEF PredictionsKept
<1>1. CASE a \notin DOMAIN picture
  <2>1. pending[a] = <<>>
    BY <1>1 DEF ReplayInv, QueuesKept
  <2> QED
    BY <1>1, <2>1, MonitorAssumption
<1>2. CASE a \in DOMAIN picture
  <2> DEFINE q == pending[a]
             at == picture[a].at
  <2>1. WaitingInOrder(q, at) /\ at \in Nat
    BY <1>2 DEF ReplayInv, Typed, QueuesKept, SeenTypeOK
  <2> HIDE DEF q, at
  <2>2. /\ q \in Seq(Prediction) /\ Len(q) \in Nat /\ DOMAIN q = 1..Len(q)
        /\ \A i \in 1..Len(q) : q[i] \in Prediction /\ q[i].valid_at \in Nat
    BY <2>1, PredictionsFit DEF WaitingInOrder
  <2>3. Len(q) < MaxPending
    <3>1. at + Tolerance \in Nat /\ at + Horizon \in Nat /\ at + Tolerance <= at + Horizon
      BY <2>1, MonitorAssumption DEF QueueSuffices
    <3>2. Len(q) <= (at + Horizon) - (at + Tolerance)
      BY <2>1, <2>2, <3>1, QueueIsShort DEF WaitingInOrder
    <3> QED
      BY <2>1, <2>2, <3>2, MonitorAssumption DEF QueueSuffices
  <2>4. ASSUME NEW i \in DOMAIN q
        PROVE  /\ q[i] \in Prediction /\ q[i].valid_at - Tolerance > at
               /\ i > 1 => q[i - 1].valid_at < q[i].valid_at
    <3>1. q[i].valid_at \in Nat /\ at + Tolerance < q[i].valid_at
      BY <2>1, <2>2 DEF WaitingInOrder
    <3>2. ASSUME i > 1 PROVE q[i - 1].valid_at < q[i].valid_at
      <4>1. i - 1 \in DOMAIN q /\ i - 1 < i /\ i - (i - 1) = 1
        BY <2>2, <3>2
      <4>2. 1 <= q[i].valid_at - q[i - 1].valid_at
        BY <2>1, <4>1 DEF WaitingInOrder
      <4>3. q[i - 1].valid_at \in Nat
        BY <2>2, <4>1
      <4> QED
        BY <3>1, <4>2, <4>3
    <3> QED
      BY <2>1, <2>2, <3>1, <3>2, MonitorAssumption
  <2> QED
    BY <1>2, <2>3, <2>4 DEF q, at
<1> QED
  BY <1>1, <1>2

\* Everything has its type, and no prediction leaves its queue for lack of room, if the
\* queue is long enough for a horizon, as MAX_PENDING is (monitor.py).
THEOREM TypeCorrect == ASSUME QueueSuffices PROVE Spec => []TypeOK
<1>1. ReplayInv => TypeOK
  <2> SUFFICES ASSUME ReplayInv PROVE TypeOK
    OBVIOUS
  <2>1. PredictionsKept
    BY QueuesAreKept
  <2>2. \A a \in Aircraft : DOMAIN path[a] \subseteq 1..Duration /\ Len(updates[a]) <= Duration
    <3>1. elapsed \in Nat /\ elapsed <= Duration
      BY ReplayAssumption DEF ReplayInv, Typed, LoopTypeOK
    <3> QED
      BY <3>1, ReplayAssumption DEF ReplayInv, Typed, SeenTypeOK
  <2> QED
    BY <2>1, <2>2 DEF ReplayInv, Typed, LoopTypeOK, SeenTypeOK, TypeOK
<1> QED
  BY <1>1, ReplayInvCorrect, PTL

-----------------------------------------------------------------------------
(* SamplesReconstruct: what the invariant knows of the flights.  *)

\* Headings are unit vectors, with the one a quarter turn to the right across: of grid
\* units those of the compass, while the code's are real and any heading's are.
Orthonormal ==
    \A h \in Heading :
        /\ Unit[h].east * Unit[h].east + Unit[h].north * Unit[h].north = 1
        /\ Right(h).east = Unit[h].north /\ Right(h).north = -Unit[h].east

\* Who climbs from the beginning is not yet at the ceiling when the run ends.
NeverAtCeiling ==
    \A w \in Worlds : \A a \in Aircraft : \A k \in 1..Duration :
        w[a].altitude + k * w[a].v_altitude <= Ceiling

\* An update says what is true of its instant.
TellsOf(update, state) ==
    /\ update.east = state.east /\ update.north = state.north
    /\ update.altitude = state.altitude /\ update.heading = state.heading
    /\ update.v_east = state.speed * Unit[state.heading].east
    /\ update.v_north = state.speed * Unit[state.heading].north
    /\ update.v_altitude = state.v_altitude

PathsKept ==
    \A a \in Aircraft :
        /\ \A t \in DOMAIN path[a] : path[a][t] \in AircraftTruth /\ path[a][t].altitude >= 0
        /\ \A i \in DOMAIN updates[a] :
              /\ updates[a][i].at \in DOMAIN path[a]
              /\ TellsOf(updates[a][i], path[a][updates[a][i].at])

\* The samples are those of the flights, which are over.
SamplesKept ==
    outcome # NotScored =>
        /\ elapsed >= Duration
        /\ \A a \in Aircraft : outcome.samples[a] = SamplesFrom(updates[a], path[a], Horizon)

\* Straight flight k steps after it began.
StraightAt(s, spec, k) ==
    /\ s.heading = spec.heading /\ s.speed = spec.speed
    /\ s.turn = InitialTruth(spec).turn /\ s.climb = InitialTruth(spec).climb
    /\ s.pace = InitialTruth(spec).pace
    /\ s.east = spec.east + k * (spec.speed * Unit[spec.heading].east)
    /\ s.north = spec.north + k * (spec.speed * Unit[spec.heading].north)
    /\ spec.v_altitude >= 0 =>
          s.altitude = spec.altitude + k * spec.v_altitude /\ s.v_altitude = spec.v_altitude
    /\ spec.v_altitude < 0 =>
          /\ s.altitude = IF spec.altitude + k * spec.v_altitude < 0 THEN 0
                          ELSE spec.altitude + k * spec.v_altitude
          /\ s.altitude > 0 => s.v_altitude = spec.v_altitude
          /\ s.v_altitude <= 0

\* The instant of the first step, and the steps since.
FirstStep(spec) == IF spec.entry = 0 THEN 1 ELSE spec.entry
StepsAt(spec, t) == IF t < FirstStep(spec) THEN 0 ELSE t - FirstStep(spec) + 1

StraightKept ==
    \A a \in Aircraft :
        world[a].plan = <<>> =>
            /\ StraightAt(truth[a], world[a], StepsAt(world[a], elapsed))
            /\ \A t \in DOMAIN path[a] :
                  /\ FirstStep(world[a]) <= t
                  /\ StraightAt(path[a][t], world[a], StepsAt(world[a], t))

FlightsInv == Typed /\ PathsKept /\ SamplesKept /\ StraightKept

-----------------------------------------------------------------------------
(* Straight flight. *)

\* A sum, step by step.
LEMMA OneMore ==
    ASSUME NEW k \in Nat, NEW v \in Int, NEW x \in Int
    PROVE  k * v \in Int /\ (x + k * v) + v = x + (k + 1) * v
<1>1. k * v \in Int /\ (k + 1) * v = k * v + v
  OBVIOUS
<1> QED
  BY <1>1

\* Whoever is told nothing is told nothing by the plan.
LEMMA NothingStands ==
    ASSUME NEW kind, NEW from, NEW to, NEW now
    PROVE  Aim(Standing(<<>>, kind, from, to), now) = now
<1>1. Standing(<<>>, kind, from, to) = {}
  BY DEF Standing
<1> QED
  BY <1>1 DEF Aim

\* Whoever is on course stays on it.
LEMMA OnCourse ==
    ASSUME NEW h \in Heading
    PROVE  /\ BearingDifference(h, h) = 0 /\ (h + 0) % Circle = h
           /\ \A l \in Nat : Within(0, l) = 0
<1>1. \A c \in Nat : \A x \in 0..(c - 1) : x % c = x
  OBVIOUS
<1>2. Circle \in Nat /\ Circle > 1 /\ Circle \div 2 \in 0..(Circle - 1) /\ h \in 0..(Circle - 1)
  BY SimulationAssumption DEF Heading
<1>3. (Circle \div 2) % Circle = Circle \div 2 /\ h % Circle = h
  BY <1>1, <1>2
<1>4. h - h + Circle \div 2 = Circle \div 2 /\ h + 0 = h /\ Circle \div 2 \in Int
  BY <1>2
<1>5. BearingDifference(h, h) = 0
  <2>1. ((h - h + Circle \div 2) % Circle) - Circle \div 2 = 0
    BY <1>3, <1>4
  <2> QED
    BY <1>2, <2>1 DEF BearingDifference
<1>6. \A l \in Nat : Within(0, l) = 0
  BY DEF Within
<1> QED
  BY <1>3, <1>4, <1>5, <1>6

\* A climb to the ceiling, or a descent to the ground, goes on.
LEMMA StraightClimb ==
    ASSUME NEW s \in AircraftTruth, NEW spec \in AircraftSpec, NEW k \in Nat,
           StraightAt(s, spec, k), spec.altitude + (k + 1) * spec.v_altitude <= Ceiling
    PROVE  LET climb == Within(s.climb.target - s.altitude, s.climb.rate * 1)
               v == spec.v_altitude
               next == spec.altitude + (k + 1) * v
           IN  /\ climb \in Int
               /\ v >= 0 => s.altitude + climb = next /\ next >= 0 /\ climb = v
               /\ v < 0 => /\ s.altitude + climb = IF next < 0 THEN 0 ELSE next
                           /\ s.altitude + climb > 0 => climb = v
                           /\ climb <= 0
<1> DEFINE v == spec.v_altitude
           x == spec.altitude + k * v
           next == spec.altitude + (k + 1) * v
           climb == Within(s.climb.target - s.altitude, s.climb.rate * 1)
<1>1. v \in Int /\ spec.altitude \in Nat /\ s.altitude \in Int /\ Ceiling \in Nat
  BY SimulationAssumption DEF AircraftSpec, AircraftTruth
<1>2. x \in Int /\ next = x + v /\ next \in Int
  BY <1>1, OneMore
<1>3. v >= 0 => x >= 0
  <2>1. \A a, b \in Nat : a * b \in Nat
    OBVIOUS
  <2>2. v >= 0 => k * v \in Nat
    BY <1>1, <2>1
  <2> QED
    BY <1>1, <2>2
<1>4. next <= Ceiling
  OBVIOUS
<1>5. /\ v >= 0 => s.altitude = x
      /\ v < 0 => s.altitude = IF x < 0 THEN 0 ELSE x
  BY DEF StraightAt
<1>6. s.climb = IF v = 0 THEN [target |-> spec.altitude, rate |-> 1]
                ELSE [target |-> IF v > 0 THEN Ceiling ELSE 0, rate |-> IF v > 0 THEN v ELSE -v]
  BY DEF StraightAt, InitialTruth
<1>7. v = 0 => x = spec.altitude
  BY <1>1
<1> HIDE DEF v, x, next
<1>8. CASE v = 0
  <2>1. climb = Within(spec.altitude - s.altitude, 1 * 1)
    BY <1>6, <1>8
  <2>2. spec.altitude - s.altitude = 0 /\ 1 * 1 = 1
    BY <1>1, <1>5, <1>7, <1>8
  <2>3. climb = 0
    BY <2>1, <2>2 DEF Within
  <2> HIDE DEF climb
  <2>4. /\ climb \in Int /\ s.altitude + climb = next /\ next >= 0 /\ climb = v
    BY <1>1, <1>2, <1>3, <1>5, <1>8, <2>3
  <2> QED
    BY <1>8, <2>4 DEF climb, v, next
<1>9. CASE v > 0
  <2>1. climb = Within(Ceiling - s.altitude, v * 1)
    BY <1>1, <1>6, <1>9
  <2>2. v * 1 = v /\ v <= Ceiling - s.altitude /\ Ceiling - s.altitude \in Int
    BY <1>1, <1>2, <1>4, <1>5, <1>9
  <2>3. climb = v
    BY <1>1, <1>9, <2>1, <2>2 DEF Within
  <2> HIDE DEF climb
  <2>4. climb \in Int /\ s.altitude + climb = next /\ next >= 0 /\ climb = v
    BY <1>1, <1>2, <1>3, <1>5, <1>9, <2>3
  <2> QED
    BY <1>1, <1>9, <2>4 DEF climb, v, next
<1>10. CASE v < 0
  <2>1. climb = Within(0 - s.altitude, -v * 1)
    BY <1>1, <1>6, <1>10
  <2>2. -v * 1 = -v /\ 0 - s.altitude = -s.altitude /\ s.altitude >= 0 /\ -(-v) = v
    BY <1>1, <1>2, <1>5, <1>10
  <2>3. climb = IF -s.altitude < v THEN v ELSE -s.altitude
    BY <1>1, <1>10, <2>1, <2>2 DEF Within
  <2> HIDE DEF climb
  <2>4. /\ climb \in Int
        /\ s.altitude + climb = IF next < 0 THEN 0 ELSE next
        /\ s.altitude + climb > 0 => climb = v
        /\ climb <= 0
    BY <1>1, <1>2, <1>5, <1>10, <2>2, <2>3
  <2> QED
    BY <1>1, <1>10, <2>4 DEF climb, v, next
<1> QED
  BY <1>1, <1>8, <1>9, <1>10

\* A step of straight flight.
LEMMA StraightFlown ==
    ASSUME NEW s \in AircraftTruth, NEW spec \in AircraftSpec, NEW k \in Nat,
           StraightAt(s, spec, k), spec.altitude + (k + 1) * spec.v_altitude <= Ceiling
    PROVE  StraightAt(Flown(s, 1), spec, k + 1)
<1> DEFINE turn == Within(BearingDifference(s.heading, s.turn.target), s.turn.rate * 1)
           mid == (s.heading + (turn \div 2)) % Circle
           speed == s.speed + Within(s.pace.target - s.speed, s.pace.rate * 1)
           distance == ((s.speed + speed) * 1) \div 2
           climb == Within(s.climb.target - s.altitude, s.climb.rate * 1)
           ve == spec.speed * Unit[spec.heading].east
           vn == spec.speed * Unit[spec.heading].north
           f == Flown(s, 1)
<1>1. /\ spec.heading \in Heading /\ spec.speed \in Int /\ spec.v_altitude \in Int
      /\ spec.altitude \in Int /\ spec.east \in Int /\ spec.north \in Int /\ s.altitude \in Int
  BY DEF AircraftSpec, AircraftTruth
<1>2. /\ s.heading = spec.heading /\ s.speed = spec.speed
      /\ s.turn = [target |-> spec.heading, rate |-> 1]
      /\ s.pace = [target |-> spec.speed, rate |-> 1]
      /\ s.climb = InitialTruth(spec).climb
      /\ s.east = spec.east + k * ve /\ s.north = spec.north + k * vn
  BY DEF StraightAt, InitialTruth
<1>3. turn = 0
  <2>1. turn = Within(BearingDifference(spec.heading, spec.heading), 1 * 1)
    BY <1>2
  <2> QED
    BY <1>1, <2>1, OnCourse
<1>4. mid = spec.heading /\ (s.heading + turn) % Circle = spec.heading
  <2>1. 0 \div 2 = 0
    OBVIOUS
  <2> QED
    BY <1>1, <1>2, <1>3, <2>1, OnCourse
<1>5. speed = spec.speed
  <2>1. speed = spec.speed + Within(spec.speed - spec.speed, 1 * 1)
    BY <1>2
  <2>2. spec.speed - spec.speed = 0 /\ 1 * 1 = 1
    BY <1>1
  <2>3. Within(0, 1) = 0
    BY DEF Within
  <2> QED
    BY <1>1, <2>1, <2>2, <2>3
<1>6. distance = spec.speed
  <2>1. distance = ((spec.speed + spec.speed) * 1) \div 2
    BY <1>2, <1>5
  <2>2. \A x \in Int : ((x + x) * 1) \div 2 = x
    OBVIOUS
  <2> QED
    BY <1>1, <2>1, <2>2
<1>7. /\ climb \in Int
      /\ spec.v_altitude >= 0 =>
            /\ s.altitude + climb = spec.altitude + (k + 1) * spec.v_altitude
            /\ spec.altitude + (k + 1) * spec.v_altitude >= 0 /\ climb = spec.v_altitude
      /\ spec.v_altitude < 0 =>
            /\ s.altitude + climb = IF spec.altitude + (k + 1) * spec.v_altitude < 0 THEN 0
                                    ELSE spec.altitude + (k + 1) * spec.v_altitude
            /\ s.altitude + climb > 0 => climb = spec.v_altitude
            /\ climb <= 0
  BY StraightClimb
<1>8. /\ f.east = s.east + distance * Unit[mid].east
      /\ f.north = s.north + distance * Unit[mid].north
      /\ f.altitude = IF s.altitude + climb < 0 THEN 0 ELSE s.altitude + climb
      /\ f.heading = (s.heading + turn) % Circle /\ f.speed = speed
      /\ f.v_altitude = climb \div 1
      /\ f.turn = s.turn /\ f.climb = s.climb /\ f.pace = s.pace
  BY DEF Flown
<1> HIDE DEF turn, mid, speed, distance, climb, f
<1>9. f.east = (spec.east + k * ve) + ve /\ f.north = (spec.north + k * vn) + vn
  BY <1>2, <1>4, <1>6, <1>8
<1>10. ve \in Int /\ vn \in Int
  <2>1. Unit[spec.heading].east \in Int /\ Unit[spec.heading].north \in Int
    BY <1>1, SimulationAssumption DEF Heading
  <2> QED
    BY <1>1, <2>1
<1> HIDE DEF ve, vn
<1>11. f.east = spec.east + (k + 1) * ve /\ f.north = spec.north + (k + 1) * vn
  BY <1>1, <1>9, <1>10, OneMore
<1>12. f.v_altitude = climb
  BY <1>7, <1>8
<1>13. /\ spec.v_altitude >= 0 =>
             /\ f.altitude = spec.altitude + (k + 1) * spec.v_altitude
             /\ f.v_altitude = spec.v_altitude
       /\ spec.v_altitude < 0 =>
             /\ f.altitude = IF spec.altitude + (k + 1) * spec.v_altitude < 0 THEN 0
                             ELSE spec.altitude + (k + 1) * spec.v_altitude
             /\ f.altitude > 0 => f.v_altitude = spec.v_altitude
             /\ f.v_altitude <= 0
  <2> DEFINE next == spec.altitude + (k + 1) * spec.v_altitude
  <2>1. next \in Int
    BY <1>1
  <2> HIDE DEF next
  <2>2. /\ climb \in Int
        /\ spec.v_altitude >= 0 =>
              s.altitude + climb = next /\ next >= 0 /\ climb = spec.v_altitude
        /\ spec.v_altitude < 0 =>
              /\ s.altitude + climb = IF next < 0 THEN 0 ELSE next
              /\ s.altitude + climb > 0 => climb = spec.v_altitude
              /\ climb <= 0
    BY <1>7 DEF next
  <2>3. /\ spec.v_altitude >= 0 => f.altitude = next /\ f.v_altitude = spec.v_altitude
        /\ spec.v_altitude < 0 =>
              /\ f.altitude = IF next < 0 THEN 0 ELSE next
              /\ f.altitude > 0 => f.v_altitude = spec.v_altitude
              /\ f.v_altitude <= 0
    BY <1>1, <1>8, <1>12, <2>1, <2>2
  <2> QED
    BY <2>3 DEF next
<1> QED
  BY <1>2, <1>4, <1>5, <1>8, <1>11, <1>13 DEF StraightAt, InitialTruth, f, ve, vn

\* Whoever is told nothing is as it was, and advances by flying, once it has entered.
LEMMA StraightAdvanced ==
    ASSUME NEW s \in AircraftTruth, NEW spec \in AircraftSpec, NEW from \in Nat,
           spec.plan = <<>>, StraightAt(s, spec, StepsAt(spec, from)),
           \A k \in 1..(from + 1) : spec.altitude + k * spec.v_altitude <= Ceiling
    PROVE  LET n == Advanced(s, spec, from, 1)
           IN  /\ StraightAt(n, spec, StepsAt(spec, from + 1))
               /\ n.airborne => FirstStep(spec) <= from + 1
<1> DEFINE c == Commanded(s, spec.plan, from, from + 1)
           n == Advanced(s, spec, from, 1)
           k == StepsAt(spec, from)
<1>1. spec.entry \in Nat /\ spec.plan \in Seq(Command)
  BY DEF AircraftSpec
<1>2. /\ c \in AircraftTruth
      /\ c.east = s.east /\ c.north = s.north /\ c.altitude = s.altitude
      /\ c.heading = s.heading /\ c.speed = s.speed /\ c.v_altitude = s.v_altitude
      /\ c.turn = Aim(Standing(spec.plan, "turn", from, from + 1), s.turn)
      /\ c.climb = Aim(Standing(spec.plan, "climb", from, from + 1), s.climb)
      /\ c.pace = Aim(Standing(spec.plan, "speed", from, from + 1), s.pace)
  <2> DEFINE plan == spec.plan
             to == from + 1
  <2>1. plan \in Seq(Command)
    BY <1>1
  <2> HIDE DEF plan, to
  <2>2. LET d == Commanded(s, plan, from, to)
        IN  /\ d \in AircraftTruth
            /\ d.east = s.east /\ d.north = s.north /\ d.altitude = s.altitude
            /\ d.heading = s.heading /\ d.speed = s.speed /\ d.v_altitude = s.v_altitude
            /\ d.turn = Aim(Standing(plan, "turn", from, to), s.turn)
            /\ d.climb = Aim(Standing(plan, "climb", from, to), s.climb)
            /\ d.pace = Aim(Standing(plan, "speed", from, to), s.pace)
    BY <2>1, CommandedFits
  <2> QED
    BY <2>2 DEF plan, to
<1>3. c.turn = s.turn /\ c.climb = s.climb /\ c.pace = s.pace
  BY <1>2, NothingStands
<1>4. k \in Nat /\ StraightAt(s, spec, k)
  <2>1. k \in Nat
    BY <1>1 DEF StepsAt, FirstStep
  <2> QED
    BY <2>1
<1> HIDE DEF c, k
<1>5. StraightAt(c, spec, k)
  BY <1>2, <1>3, <1>4 DEF StraightAt
<1>6. CASE from + 1 >= spec.entry
  <2>1. n = Flown(c, 1)
    BY <1>6 DEF Advanced, c
  <2>2. StepsAt(spec, from + 1) = k + 1 /\ k + 1 \in 1..(from + 1) /\ FirstStep(spec) <= from + 1
    BY <1>1, <1>6 DEF k, StepsAt, FirstStep
  <2>3. spec.altitude + (k + 1) * spec.v_altitude <= Ceiling
    BY <2>2
  <2>4. StraightAt(Flown(c, 1), spec, k + 1)
    BY <1>2, <1>4, <1>5, <2>3, StraightFlown
  <2> QED
    BY <2>1, <2>2, <2>4
<1>7. CASE ~(from + 1 >= spec.entry)
  <2>1. n = [c EXCEPT !.airborne = FALSE]
    BY <1>7 DEF Advanced, c
  <2>2. /\ ~n.airborne /\ n.east = c.east /\ n.north = c.north /\ n.altitude = c.altitude
        /\ n.heading = c.heading /\ n.speed = c.speed /\ n.v_altitude = c.v_altitude
        /\ n.turn = c.turn /\ n.climb = c.climb /\ n.pace = c.pace
    BY <1>2, <2>1 DEF AircraftTruth
  <2>3. StepsAt(spec, from + 1) = k
    BY <1>1, <1>7 DEF k, StepsAt, FirstStep
  <2> HIDE DEF n
  <2>4. StraightAt(n, spec, k)
    BY <1>5, <2>2 DEF StraightAt
  <2> QED
    BY <2>2, <2>3, <2>4 DEF n
<1> QED
  BY <1>6, <1>7

\* A path grows by where its aircraft is.
LEMMA RecordedFits ==
    ASSUME Typed, NEW now, NEW a \in Aircraft
    PROVE  /\ elapsed + 1 \notin DOMAIN path[a]
           /\ now[a].airborne =>
                 /\ DOMAIN Recorded(now)[a] = DOMAIN path[a] \cup {elapsed + 1}
                 /\ Recorded(now)[a][elapsed + 1] = now[a]
                 /\ \A t \in DOMAIN path[a] : Recorded(now)[a][t] = path[a][t]
           /\ ~now[a].airborne => Recorded(now)[a] = path[a]
<1>1. elapsed \in Nat /\ DOMAIN path[a] \subseteq 1..elapsed
  BY DEF Typed, LoopTypeOK, SeenTypeOK
<1>2. elapsed + 1 \notin DOMAIN path[a]
  BY <1>1
<1> QED
  BY <1>2 DEF Recorded

\* Paths and updates keep telling the same.
LEMMA PathsStep ==
    ASSUME Typed, PathsKept, NEW reporting \in SUBSET Aircraft, Step(Moved, reporting)
    PROVE  PathsKept'
<1> DEFINE known == Absorbed(Moved, reporting)
<1>1. path' = Recorded(Moved) /\ updates' = Collected(known, reporting) /\ reporting \subseteq Flying(Moved)
  BY DEF Step
<1>2. \A a \in reporting : known[a] = Update(Moved, a)
  BY DEF Absorbed
<1> HIDE DEF known
<1> SUFFICES ASSUME NEW a \in Aircraft
             PROVE  /\ \A t \in DOMAIN path'[a] :
                          path'[a][t] \in AircraftTruth /\ path'[a][t].altitude >= 0
                    /\ \A i \in DOMAIN updates'[a] :
                          /\ updates'[a][i].at \in DOMAIN path'[a]
                          /\ TellsOf(updates'[a][i], path'[a][updates'[a][i].at])
  BY DEF PathsKept
<1>3. /\ Moved[a] \in AircraftTruth
      /\ Moved[a].airborne => Moved[a].altitude >= 0
  BY MovedFits DEF Typed
<1>4. /\ Moved[a].airborne =>
            /\ DOMAIN path'[a] = DOMAIN path[a] \cup {elapsed + 1}
            /\ path'[a][elapsed + 1] = Moved[a]
            /\ \A t \in DOMAIN path[a] : path'[a][t] = path[a][t]
      /\ ~Moved[a].airborne => path'[a] = path[a]
  BY <1>1, RecordedFits
<1>5. \A t \in DOMAIN path[a] : t \in DOMAIN path'[a] /\ path'[a][t] = path[a][t]
  BY <1>4
<1>6. ASSUME NEW t \in DOMAIN path'[a]
      PROVE  path'[a][t] \in AircraftTruth /\ path'[a][t].altitude >= 0
  <2>1. CASE t \in DOMAIN path[a]
    BY <1>5, <2>1 DEF PathsKept
  <2>2. CASE t \notin DOMAIN path[a]
    BY <1>3, <1>4, <2>2
  <2> QED
    BY <2>1, <2>2
<1>7. ASSUME NEW i \in DOMAIN updates[a]
      PROVE  /\ updates[a][i].at \in DOMAIN path'[a]
             /\ TellsOf(updates[a][i], path'[a][updates[a][i].at])
  <2>1. updates[a][i].at \in DOMAIN path[a] /\ TellsOf(updates[a][i], path[a][updates[a][i].at])
    BY DEF PathsKept
  <2> QED
    BY <1>5, <2>1
<1>8. CASE a \in reporting /\ Confirmed(known[a])
  <2>1. updates'[a] = Append(updates[a], Update(Moved, a))
    BY <1>1, <1>2, <1>8 DEF Collected
  <2>2. updates[a] \in Seq(AircraftUpdate) /\ Update(Moved, a) \in AircraftUpdate
        /\ Update(Moved, a).at = elapsed + 1
    BY MovedFits, UpdateFits DEF Typed, SeenTypeOK
  <2>3. TellsOf(Update(Moved, a), Moved[a])
    BY DEF TellsOf, Update, Seen
  <2>4. Moved[a].airborne
    BY <1>1, <1>8 DEF Flying
  <2>5. Update(Moved, a).at \in DOMAIN path'[a] /\ path'[a][Update(Moved, a).at] = Moved[a]
    BY <1>4, <2>2, <2>4
  <2>6. ASSUME NEW i \in DOMAIN updates'[a]
        PROVE  /\ updates'[a][i].at \in DOMAIN path'[a]
               /\ TellsOf(updates'[a][i], path'[a][updates'[a][i].at])
    <3>1. \/ i \in DOMAIN updates[a] /\ updates'[a][i] = updates[a][i]
          \/ updates'[a][i] = Update(Moved, a)
      BY <2>1, <2>2, AppendProperties
    <3> QED
      BY <1>7, <2>3, <2>5, <3>1
  <2> QED
    BY <1>6, <2>6
<1>9. CASE ~(a \in reporting /\ Confirmed(known[a]))
  <2>1. updates'[a] = updates[a]
    BY <1>1, <1>9 DEF Collected
  <2> QED
    BY <1>6, <1>7, <2>1
<1> QED
  BY <1>8, <1>9

\* Straight flight goes on.
LEMMA StraightStep ==
    ASSUME Typed, StraightKept, NeverAtCeiling,
           NEW reporting \in SUBSET Aircraft, Step(Moved, reporting)
    PROVE  StraightKept'
<1>1. path' = Recorded(Moved) /\ truth' = Moved /\ world' = world
      /\ elapsed' = elapsed + 1 /\ elapsed \in Nat /\ elapsed < Duration
  BY DEF Step, Typed, LoopTypeOK
<1> SUFFICES ASSUME NEW a \in Aircraft, world[a].plan = <<>>
             PROVE  /\ StraightAt(truth'[a], world[a], StepsAt(world[a], elapsed'))
                    /\ \A t \in DOMAIN path'[a] :
                          /\ FirstStep(world[a]) <= t
                          /\ StraightAt(path'[a][t], world[a], StepsAt(world[a], t))
  BY <1>1 DEF StraightKept
<1>2. truth[a] \in AircraftTruth /\ world \in Worlds /\ world[a] \in AircraftSpec
  BY ReplayAssumption DEF Typed, LoopTypeOK
<1>3. \A k \in 1..(elapsed + 1) : world[a].altitude + k * world[a].v_altitude <= Ceiling
  <2>1. \A k \in 1..(elapsed + 1) : k \in 1..Duration
    BY <1>1, ReplayAssumption
  <2> QED
    BY <1>2, <2>1 DEF NeverAtCeiling
<1>4. /\ StraightAt(truth[a], world[a], StepsAt(world[a], elapsed))
      /\ \A t \in DOMAIN path[a] :
            /\ FirstStep(world[a]) <= t
            /\ StraightAt(path[a][t], world[a], StepsAt(world[a], t))
  BY DEF StraightKept
<1>5. /\ StraightAt(Advanced(truth[a], world[a], elapsed, 1), world[a], StepsAt(world[a], elapsed + 1))
      /\ Advanced(truth[a], world[a], elapsed, 1).airborne => FirstStep(world[a]) <= elapsed + 1
  BY <1>1, <1>2, <1>3, <1>4, StraightAdvanced
<1>6. Moved[a] = Advanced(truth[a], world[a], elapsed, 1)
  BY DEF Moved
<1>7. /\ Moved[a].airborne =>
            /\ DOMAIN path'[a] = DOMAIN path[a] \cup {elapsed + 1}
            /\ path'[a][elapsed + 1] = Moved[a]
            /\ \A t \in DOMAIN path[a] : path'[a][t] = path[a][t]
      /\ ~Moved[a].airborne => path'[a] = path[a]
  BY <1>1, RecordedFits
<1>8. ASSUME NEW t \in DOMAIN path'[a]
      PROVE  /\ FirstStep(world[a]) <= t
             /\ StraightAt(path'[a][t], world[a], StepsAt(world[a], t))
  <2>1. CASE t \in DOMAIN path[a]
    BY <1>4, <1>7, <2>1
  <2>2. CASE t \notin DOMAIN path[a]
    BY <1>5, <1>6, <1>7, <2>2
  <2> QED
    BY <2>1, <2>2
<1> QED
  BY <1>1, <1>5, <1>6, <1>8

\* How the flights begin.
LEMMA FlightsInit == Init => PathsKept /\ SamplesKept /\ StraightKept
<1> SUFFICES ASSUME Init PROVE PathsKept /\ SamplesKept /\ StraightKept
  OBVIOUS
<1>1. /\ \A a \in Aircraft : path[a] = <<>> /\ updates[a] = <<>>
      /\ elapsed = 0 /\ outcome = NotScored /\ world \in Worlds
      /\ \A a \in Aircraft : truth[a] = InitialTruth(world[a])
  BY DEF Init
<1>2. PathsKept
  BY <1>1 DEF PathsKept
<1>3. SamplesKept
  BY <1>1 DEF SamplesKept
<1>4. ASSUME NEW a \in Aircraft
      PROVE  StraightAt(truth[a], world[a], StepsAt(world[a], elapsed))
  <2> DEFINE spec == world[a]
             s == InitialTruth(spec)
  <2>1. spec \in AircraftSpec
    BY <1>1, ReplayAssumption
  <2> HIDE DEF spec
  <2>2. /\ spec.heading \in Heading /\ spec.speed \in Nat /\ spec.v_altitude \in Int
        /\ spec.altitude \in Nat /\ spec.east \in Int /\ spec.north \in Int /\ spec.entry \in Nat
    BY <2>1 DEF AircraftSpec
  <2>3. /\ s.heading = spec.heading /\ s.speed = spec.speed /\ s.east = spec.east
        /\ s.north = spec.north /\ s.altitude = spec.altitude /\ s.v_altitude = spec.v_altitude
    BY DEF InitialTruth
  <2>4. StepsAt(spec, 0) = 0
    BY <2>2 DEF StepsAt, FirstStep
  <2>5. Unit[spec.heading].east \in Int /\ Unit[spec.heading].north \in Int
    BY <2>2, SimulationAssumption DEF Heading
  <2> HIDE DEF s
  <2>6. \A x \in Int : 0 * x = 0
    OBVIOUS
  <2>7. /\ 0 * (spec.speed * Unit[spec.heading].east) = 0
        /\ 0 * (spec.speed * Unit[spec.heading].north) = 0
        /\ 0 * spec.v_altitude = 0
    BY <2>2, <2>5, <2>6
  <2>8. /\ spec.east + 0 = spec.east /\ spec.north + 0 = spec.north
        /\ spec.altitude + 0 = spec.altitude /\ ~(spec.altitude < 0)
    BY <2>2
  <2>9. s.turn = InitialTruth(spec).turn /\ s.climb = InitialTruth(spec).climb
        /\ s.pace = InitialTruth(spec).pace
    BY DEF s
  <2>10. StraightAt(s, spec, 0)
    BY <2>2, <2>3, <2>7, <2>8, <2>9 DEF StraightAt
  <2> QED
    BY <1>1, <2>4, <2>10 DEF spec, s
<1>5. StraightKept
  BY <1>1, <1>4 DEF StraightKept
<1> QED
  BY <1>2, <1>3, <1>5

\* The inductive invariant.
LEMMA FlightsCorrect == ASSUME NeverAtCeiling PROVE Spec => []FlightsInv
<1>1. Init => FlightsInv
  BY TypedInit, FlightsInit DEF FlightsInv
<1>2. FlightsInv /\ [Next]_vars => FlightsInv'
  <2> SUFFICES ASSUME FlightsInv, [Next]_vars PROVE FlightsInv'
    OBVIOUS
  <2>1. Typed'
    BY TypedNext DEF FlightsInv
  <2>2. ASSUME NEW reporting \in SUBSET Aircraft, Step(Moved, reporting)
        PROVE  PathsKept' /\ SamplesKept' /\ StraightKept'
    <3>1. PathsKept'
      BY <2>2, PathsStep DEF FlightsInv
    <3>2. StraightKept'
      BY <2>2, StraightStep DEF FlightsInv
    <3>3. SamplesKept'
      <4>1. elapsed < Duration /\ outcome' = outcome /\ elapsed \in Nat /\ Duration \in Nat
        BY <2>2, ReplayAssumption DEF Step, FlightsInv, Typed, LoopTypeOK
      <4>2. outcome = NotScored
        BY <4>1 DEF FlightsInv, SamplesKept
      <4> QED
        BY <4>1, <4>2 DEF SamplesKept
    <3> QED
      BY <3>1, <3>2, <3>3
  <2>3. ASSUME UNCHANGED <<world, elapsed, truth, path, updates>> PROVE PathsKept' /\ StraightKept'
    <3>1. /\ world' = world /\ elapsed' = elapsed /\ truth' = truth
          /\ path' = path /\ updates' = updates
      BY <2>3
    <3>2. PathsKept'
      BY <3>1 DEF FlightsInv, PathsKept
    <3>3. StraightKept'
      BY <3>1 DEF FlightsInv, StraightKept
    <3> QED
      BY <3>2, <3>3
  <2>4. CASE Score
    <3>1. UNCHANGED <<world, elapsed, truth, path, updates>>
      BY <2>4 DEF Score
    <3>2. /\ elapsed' >= Duration /\ updates' = updates /\ path' = path
          /\ outcome'.samples = [a \in Aircraft |-> SamplesFrom(updates[a], path[a], Horizon)]
      BY <2>4 DEF Score
    <3>3. SamplesKept'
      BY <3>2 DEF SamplesKept
    <3> QED
      BY <2>1, <2>3, <3>1, <3>3 DEF FlightsInv
  <2>5. CASE UNCHANGED vars
    <3>1. UNCHANGED <<world, elapsed, truth, path, updates>> /\ outcome' = outcome
      BY <2>5 DEF vars
    <3>2. elapsed' = elapsed /\ path' = path /\ updates' = updates
      BY <3>1
    <3>3. SamplesKept'
      BY <3>1, <3>2 DEF FlightsInv, SamplesKept
    <3> QED
      BY <2>1, <2>3, <3>1, <3>3 DEF FlightsInv
  <2> QED
    BY <2>1, <2>2, <2>4, <2>5 DEF Next, FlightsInv
<1> QED
  BY <1>1, <1>2, PTL DEF Spec

-----------------------------------------------------------------------------
(* What is learnt from a flight. *)

\* A way and back along two axes at right angles.
LEMMA ThereAndBack ==
    ASSUME NEW x \in Int, NEW y \in Int, NEW e \in Int, NEW n \in Int, e * e + n * n = 1
    PROVE  /\ (x * e + y * n) * e + (x * n + y * (-e)) * n = x
           /\ (x * e + y * n) * n + (x * n + y * (-e)) * (-e) = y
<1>1. (x * e + y * n) * e + (x * n + y * (-e)) * n = x * (e * e + n * n)
  OBVIOUS
<1>2. (x * e + y * n) * n + (x * n + y * (-e)) * (-e) = y * (e * e + n * n)
  OBVIOUS
<1> QED
  BY <1>1, <1>2

\* A residual, applied to what it is the residual of, gives the way it was taken from.
LEMMA CorrectedFits ==
    ASSUME Orthonormal, NEW h \in Heading, NEW reference, NEW answer, NEW target,
           reference.east \in Int, reference.north \in Int, reference.altitude \in Int,
           answer.east \in Int, answer.north \in Int, answer.altitude \in Int,
           answer.altitude >= 0,
           target = [along |-> AlongCross(reference, answer, h).along,
                     cross |-> AlongCross(reference, answer, h).cross,
                     altitude |-> answer.altitude - reference.altitude]
    PROVE  Corrected(reference, target, h)
               = [east |-> answer.east, north |-> answer.north, altitude |-> answer.altitude]
<1> DEFINE x == answer.east - reference.east
           y == answer.north - reference.north
           e == Unit[h].east
           n == Unit[h].north
           c == Corrected(reference, target, h)
<1>1. e \in Int /\ n \in Int /\ e * e + n * n = 1 /\ x \in Int /\ y \in Int
  <2>1. e \in Int /\ n \in Int
    BY SimulationAssumption DEF Heading
  <2>2. e * e + n * n = 1
    BY DEF Orthonormal
  <2>3. x \in Int /\ y \in Int
    OBVIOUS
  <2> QED
    BY <2>1, <2>2, <2>3
<1>2. Along(h).east = e /\ Along(h).north = n /\ Right(h).east = n /\ Right(h).north = -e
  BY DEF Along, Orthonormal
<1>3. target.along = x * e + y * n /\ target.cross = x * n + y * (-e)
  BY <1>2 DEF AlongCross, Component
<1>4. target.altitude = answer.altitude - reference.altitude
  OBVIOUS
<1>5. c = [east |-> reference.east + target.along * e + target.cross * n,
           north |-> reference.north + target.along * n + target.cross * (-e),
           altitude |-> IF reference.altitude + target.altitude < 0 THEN 0
                        ELSE reference.altitude + target.altitude]
  BY <1>2 DEF Corrected
<1>6. /\ target.along * e + target.cross * n = x
      /\ target.along * n + target.cross * (-e) = y
      /\ target.along * e \in Int /\ target.cross * n \in Int
      /\ target.along * n \in Int /\ target.cross * (-e) \in Int
  <2> HIDE DEF x, y, e, n
  <2>1. target.along \in Int /\ target.cross \in Int
    BY <1>1, <1>3
  <2>2. /\ target.along * e + target.cross * n = x
        /\ target.along * n + target.cross * (-e) = y
    <3>1. /\ (x * e + y * n) * e + (x * n + y * (-e)) * n = x
          /\ (x * e + y * n) * n + (x * n + y * (-e)) * (-e) = y
      BY <1>1, ThereAndBack
    <3> QED
      BY <1>3, <3>1
  <2> QED
    BY <1>1, <2>1, <2>2
<1>7. /\ reference.east + target.along * e + target.cross * n = answer.east
      /\ reference.north + target.along * n + target.cross * (-e) = answer.north
  <2> DEFINE p == target.along * e
             q == target.cross * n
             r == target.along * n
             s == target.cross * (-e)
  <2>1. p \in Int /\ q \in Int /\ r \in Int /\ s \in Int /\ p + q = x /\ r + s = y
    BY <1>6
  <2> HIDE DEF p, q, r, s
  <2>2. reference.east + p + q = answer.east /\ reference.north + r + s = answer.north
    <3>1. \A a, b, v, w \in Int : v + w = b - a => a + v + w = b
      OBVIOUS
    <3>2. p + q = answer.east - reference.east /\ r + s = answer.north - reference.north
      BY <2>1
    <3> QED
      BY <2>1, <3>1, <3>2
  <2> QED
    BY <2>2 DEF p, q, r, s
<1>8. (IF reference.altitude + target.altitude < 0 THEN 0
       ELSE reference.altitude + target.altitude) = answer.altitude
  BY <1>4
<1> QED
  BY <1>5, <1>7, <1>8

\* A window ends with the update it is about.
LEMMA LastOfWindow ==
    ASSUME NEW seq \in Seq(AircraftUpdate), NEW i \in WindowLength..Len(seq)
    PROVE  /\ Last(SubSeq(seq, i - WindowLength + 1, i)) = seq[i]
           /\ i \in DOMAIN seq /\ seq[i] \in AircraftUpdate
<1> DEFINE m == i - WindowLength + 1
           window == SubSeq(seq, m, i)
<1>1. Len(seq) \in Nat /\ DOMAIN seq = 1..Len(seq) /\ \A j \in 1..Len(seq) : seq[j] \in AircraftUpdate
  OBVIOUS
<1>2. WindowLength \in Nat /\ WindowLength > 0
  BY DatasetAssumption
<1>3. i \in 1..Len(seq) /\ m \in Int /\ i \in Int /\ m <= i /\ i - m + 1 = WindowLength
  BY <1>1, <1>2
<1>4. \A j \in m..i : j \in 1..Len(seq)
  BY <1>1, <1>2
<1> HIDE DEF m
<1>5. \A j \in m..i : seq[j] \in AircraftUpdate
  BY <1>1, <1>4
<1>6. /\ Len(window) = IF m <= i THEN i - m + 1 ELSE 0
      /\ \A j \in 1..(i - m + 1) : window[j] = seq[m + j - 1]
  BY <1>3, <1>5, SubSeqProperties
<1>7. Len(window) = WindowLength
  BY <1>3, <1>6
<1>8. WindowLength \in 1..(i - m + 1) /\ m + WindowLength - 1 = i
  BY <1>2, <1>3
<1>9. window[WindowLength] = seq[i]
  BY <1>6, <1>8
<1> QED
  BY <1>1, <1>3, <1>7, <1>9 DEF Last, m

\* Straight flight is where the baseline has it.
LEMMA StraightIsForetold ==
    ASSUME NEW spec \in AircraftSpec, NEW k \in Nat, NEW s \in AircraftTruth,
           NEW then \in AircraftTruth, NEW update \in AircraftUpdate,
           StraightAt(s, spec, k), StraightAt(then, spec, k + Horizon), TellsOf(update, s)
    PROVE  LET baseline == DeadReckoned(update, Horizon)
           IN  /\ baseline.east = then.east /\ baseline.north = then.north
               /\ baseline.altitude = then.altitude
<1> DEFINE ve == spec.speed * Unit[spec.heading].east
           vn == spec.speed * Unit[spec.heading].north
           v == spec.v_altitude
           b == DeadReckoned(update, Horizon)
<1>1. /\ spec.heading \in Heading /\ spec.speed \in Int /\ v \in Int /\ Horizon \in Nat
      /\ spec.altitude \in Nat /\ spec.east \in Int /\ spec.north \in Int
      /\ s.altitude \in Int /\ s.v_altitude \in Int
  BY MonitorAssumption DEF AircraftSpec, AircraftTruth
<1>2. ve \in Int /\ vn \in Int
  <2>1. Unit[spec.heading].east \in Int /\ Unit[spec.heading].north \in Int
    BY <1>1, SimulationAssumption DEF Heading
  <2> QED
    BY <1>1, <2>1
<1>3. /\ update.east = spec.east + k * ve /\ update.north = spec.north + k * vn
      /\ update.v_east = ve /\ update.v_north = vn
      /\ update.altitude = s.altitude /\ update.v_altitude = s.v_altitude
      /\ then.east = spec.east + (k + Horizon) * ve
      /\ then.north = spec.north + (k + Horizon) * vn
  BY DEF TellsOf, StraightAt
<1>4. /\ b.east = update.east + Horizon * update.v_east
      /\ b.north = update.north + Horizon * update.v_north
      /\ b.altitude = IF update.altitude + Horizon * update.v_altitude < 0 THEN 0
                      ELSE update.altitude + Horizon * update.v_altitude
  BY DEF DeadReckoned
<1>5. \A x, w \in Int : (x + k * w) + Horizon * w = x + (k + Horizon) * w
  <2>1. ASSUME NEW x \in Int, NEW w \in Int
        PROVE  (x + k * w) + Horizon * w = x + (k + Horizon) * w
    BY <1>1
  <2> QED
    BY <2>1
<1>6. b.east = then.east /\ b.north = then.north
  <2> HIDE DEF ve, vn, b
  <2> QED
    BY <1>1, <1>2, <1>3, <1>4, <1>5
<1> DEFINE x == spec.altitude + k * v
           y == spec.altitude + (k + Horizon) * v
<1>7. x \in Int /\ y \in Int /\ y = x + Horizon * v /\ Horizon * v \in Int
  <2>1. k * v \in Int /\ Horizon * v \in Int
    BY <1>1
  <2> QED
    BY <1>1, <1>5, <2>1
<1>8. /\ v >= 0 => /\ s.altitude = x /\ s.v_altitude = v /\ then.altitude = y
      /\ v < 0 => /\ s.altitude = IF x < 0 THEN 0 ELSE x
                  /\ s.altitude > 0 => s.v_altitude = v
                  /\ s.v_altitude <= 0
                  /\ then.altitude = IF y < 0 THEN 0 ELSE y
  BY DEF StraightAt
<1>9. b.altitude = IF s.altitude + Horizon * s.v_altitude < 0 THEN 0
                   ELSE s.altitude + Horizon * s.v_altitude
  BY <1>3, <1>4
<1>10. v >= 0 => y >= 0
  <2>1. \A m, n \in Nat : m * n \in Nat
    OBVIOUS
  <2>2. v >= 0 => (k + Horizon) * v \in Nat
    BY <1>1, <2>1
  <2> QED
    BY <1>1, <2>2
<1>11. /\ Horizon * s.v_altitude \in Int
       /\ s.v_altitude <= 0 => Horizon * s.v_altitude <= 0
       /\ v < 0 => Horizon * v <= 0
  <2>1. \A m \in Nat : \A w \in Int : m * w \in Int /\ (w <= 0 => m * w <= 0)
    OBVIOUS
  <2> QED
    BY <1>1, <2>1
<1> DEFINE h == Horizon * s.v_altitude
<1>12. s.v_altitude = v => h = Horizon * v
  OBVIOUS
<1> HIDE DEF x, y, h
<1>13. b.altitude = then.altitude
  <2>1. b.altitude = IF s.altitude + h < 0 THEN 0 ELSE s.altitude + h
    BY <1>9 DEF h
  <2>2. h \in Int /\ (s.v_altitude <= 0 => h <= 0)
    BY <1>11 DEF h
  <2> HIDE DEF b
  <2>3. CASE v >= 0
    <3>1. s.altitude + h = y
      BY <1>7, <1>8, <1>12, <2>3
    <3> QED
      BY <1>7, <1>8, <1>10, <2>1, <2>3, <3>1
  <2>4. CASE v < 0
    <3>1. CASE s.altitude > 0
      <4>1. s.altitude = x /\ s.altitude + h = y
        BY <1>1, <1>7, <1>8, <1>12, <2>4, <3>1
      <4> QED
        BY <1>8, <2>1, <2>4, <4>1
    <3>2. CASE ~(s.altitude > 0)
      <4>1. s.altitude = 0 /\ x <= 0
        BY <1>1, <1>7, <1>8, <2>4, <3>2
      <4>2. b.altitude = 0
        BY <1>8, <2>1, <2>2, <2>4, <4>1
      <4>3. y <= 0
        BY <1>7, <1>11, <2>4, <4>1
      <4> QED
        BY <1>7, <1>8, <2>4, <4>2, <4>3
    <3> QED
      BY <3>1, <3>2
  <2> QED
    BY <1>1, <2>3, <2>4
<1> QED
  BY <1>6, <1>13

\* A flight's sample is of an update of it and of what came a horizon later.
LEMMA SamplesFit ==
    ASSUME FlightsInv, outcome # NotScored, NEW a \in Aircraft, NEW sample \in outcome.samples[a]
    PROVE  \E update \in AircraftUpdate : \E i \in DOMAIN updates[a] :
              /\ update = updates[a][i] /\ Last(sample.window) = update
              /\ update.at + Horizon \in DOMAIN path[a]
              /\ sample.target = Target(update, path[a][update.at + Horizon], Horizon)
<1>1. outcome.samples[a] = SamplesFrom(updates[a], path[a], Horizon)
  BY DEF FlightsInv, SamplesKept
<1>2. PICK i \in Answerable(updates[a], path[a], Horizon) :
         sample = [window |-> SubSeq(updates[a], i - WindowLength + 1, i),
                   target |-> Target(updates[a][i], path[a][updates[a][i].at + Horizon], Horizon)]
  BY <1>1 DEF SamplesFrom
<1>3. i \in WindowLength..Len(updates[a]) /\ updates[a][i].at + Horizon \in DOMAIN path[a]
  BY DEF Answerable
<1>4. updates[a] \in Seq(AircraftUpdate)
  BY DEF FlightsInv, Typed, SeenTypeOK
<1>5. /\ Last(SubSeq(updates[a], i - WindowLength + 1, i)) = updates[a][i]
      /\ i \in DOMAIN updates[a] /\ updates[a][i] \in AircraftUpdate
  BY <1>3, <1>4, LastOfWindow
<1>6. /\ sample.window = SubSeq(updates[a], i - WindowLength + 1, i)
      /\ sample.target = Target(updates[a][i], path[a][updates[a][i].at + Horizon], Horizon)
  BY <1>2
<1> QED
  BY <1>3, <1>5, <1>6

\* A correction learnt from a flight is the one that makes the prediction of it true, and
\* of straight flight there is nothing to learn: what ml/dataset.py computes as a target
\* and what a predictor makes of it are inverse, in any axes at right angles.
THEOREM SamplesReconstructCorrect ==
    ASSUME Orthonormal, NeverAtCeiling PROVE Spec => []SamplesReconstruct
<1>1. FlightsInv => SamplesReconstruct
  <2> SUFFICES ASSUME FlightsInv, outcome # NotScored,
                      NEW a \in Aircraft, NEW sample \in outcome.samples[a]
               PROVE  LET update == Last(sample.window)
                          then == path[a][update.at + Horizon]
                      IN  /\ Corrected(DeadReckoned(update, Horizon), sample.target, update.heading)
                              = [east |-> then.east, north |-> then.north, altitude |-> then.altitude]
                          /\ world[a].plan = <<>> =>
                                sample.target = [along |-> 0, cross |-> 0, altitude |-> 0]
    BY DEF SamplesReconstruct
  <2>1. PICK update \in AircraftUpdate, i \in DOMAIN updates[a] :
           /\ update = updates[a][i] /\ Last(sample.window) = update
           /\ update.at + Horizon \in DOMAIN path[a]
           /\ sample.target = Target(update, path[a][update.at + Horizon], Horizon)
    BY SamplesFit
  <2> DEFINE then == path[a][update.at + Horizon]
             s == path[a][update.at]
             b == DeadReckoned(update, Horizon)
  <2>2. /\ then \in AircraftTruth /\ then.altitude >= 0 /\ s \in AircraftTruth
        /\ update.at \in DOMAIN path[a] /\ TellsOf(update, s)
    BY <2>1 DEF FlightsInv, PathsKept
  <2>3. then.east \in Int /\ then.north \in Int /\ then.altitude \in Int
    BY <2>2 DEF AircraftTruth
  <2>4. b.east \in Int /\ b.north \in Int /\ b.altitude \in Int
    <3>1. /\ update.east \in Int /\ update.north \in Int /\ update.altitude \in Int
          /\ update.v_east \in Int /\ update.v_north \in Int /\ update.v_altitude \in Int
      BY DEF AircraftUpdate
    <3>2. /\ Horizon * update.v_east \in Int /\ Horizon * update.v_north \in Int
          /\ Horizon * update.v_altitude \in Int
      BY <3>1, MonitorAssumption
    <3> QED
      BY <3>1, <3>2 DEF DeadReckoned
  <2>5. update.heading \in Heading
    BY DEF AircraftUpdate
  <2>6. sample.target = [along |-> AlongCross(b, then, update.heading).along,
                         cross |-> AlongCross(b, then, update.heading).cross,
                         altitude |-> then.altitude - b.altitude]
    BY <2>1 DEF Target
  <2> HIDE DEF then, s, b
  <2>7. Corrected(b, sample.target, update.heading)
          = [east |-> then.east, north |-> then.north, altitude |-> then.altitude]
    BY <2>2, <2>3, <2>4, <2>5, <2>6, CorrectedFits
  <2>8. ASSUME world[a].plan = <<>>
        PROVE  sample.target = [along |-> 0, cross |-> 0, altitude |-> 0]
    <3> DEFINE spec == world[a]
               k == StepsAt(spec, update.at)
    <3>1. spec \in AircraftSpec /\ spec.entry \in Nat
      <4>1. spec \in AircraftSpec
        BY ReplayAssumption DEF FlightsInv, Typed, LoopTypeOK
      <4> QED
        BY <4>1 DEF AircraftSpec
    <3>2. /\ StraightAt(s, spec, k) /\ FirstStep(spec) <= update.at
          /\ StraightAt(then, spec, StepsAt(spec, update.at + Horizon))
      BY <2>1, <2>2, <2>8 DEF FlightsInv, StraightKept, then, s
    <3>3. k \in Nat /\ StepsAt(spec, update.at + Horizon) = k + Horizon
      <4>1. update.at \in Nat /\ Horizon \in Nat
        BY MonitorAssumption DEF AircraftUpdate
      <4> QED
        BY <3>1, <3>2, <4>1 DEF StepsAt, FirstStep
    <3> HIDE DEF spec, k
    <3>4. b.east = then.east /\ b.north = then.north /\ b.altitude = then.altitude
      BY <2>2, <3>1, <3>2, <3>3, StraightIsForetold DEF b
    <3>5. then.east - b.east = 0 /\ then.north - b.north = 0 /\ then.altitude - b.altitude = 0
      BY <2>3, <3>4
    <3>6. ASSUME NEW axis, axis.east \in Int, axis.north \in Int
          PROVE  Component(0, 0, axis) = 0
      BY <3>6 DEF Component
    <3>7. /\ Along(update.heading).east \in Int /\ Along(update.heading).north \in Int
          /\ Right(update.heading).east \in Int /\ Right(update.heading).north \in Int
      <4>1. Along(update.heading).east \in Int /\ Along(update.heading).north \in Int
        BY <2>5, SimulationAssumption DEF Along, Heading
      <4> QED
        BY <2>5, <4>1 DEF Orthonormal, Along
    <3>8. /\ AlongCross(b, then, update.heading).along = 0
          /\ AlongCross(b, then, update.heading).cross = 0
      BY <3>5, <3>6, <3>7 DEF AlongCross
    <3> QED
      BY <2>6, <3>5, <3>8
  <2> QED
    BY <2>1, <2>7, <2>8 DEF then, b
<1> QED
  BY <1>1, FlightsCorrect, PTL

-----------------------------------------------------------------------------
(* Instants in order.  The ends of a window that is an interval of rational *)
(* instants, or of the two roots of one quadratic, are compared without a   *)
(* root by way of a rational instant between them.                          *)

\* An instant without a root in it; the infinite ones have a sign.
Rational == {x \in [p : Int, k : {0}, d : {0}, q : Nat] : x.q = 0 => x.p # 0}
Finite == {x \in Rational : x.q > 0}

\* The smaller root of a quadratic has the sign -1, the greater one 1.
RootOf(sign) == [p : Int, k : {sign}, d : Nat \ {0}, q : Nat \ {0}]

NoLater(x, y) == x.p * y.q <= y.p * x.q

\* Products keep the order.
LEMMA Products ==
    ASSUME NEW a \in Int, NEW b \in Int, NEW c \in Nat, a <= b
    PROVE  a * c <= b * c
<1>1. (b - a) \in Nat
  OBVIOUS
<1>2. (b - a) * c \in Nat
  BY <1>1
<1>3. (b - a) * c = b * c - a * c
  OBVIOUS
<1> QED
  BY <1>2, <1>3

\* A strict inequality keeps when multiplied by a positive number.
LEMMA StrictProducts ==
    ASSUME NEW a \in Int, NEW b \in Int, NEW c \in Nat, c > 0, a < b
    PROVE  a * c < b * c
<1>1. (b - a - 1) * c >= 0
  BY Products
<1>2. (b - a - 1) * c = b * c - a * c - c
  OBVIOUS
<1> QED
  BY <1>1, <1>2

\* And are cancelled.
LEMMA Cancelled ==
    ASSUME NEW a \in Int, NEW b \in Int, NEW c \in Nat, a * c < b * c
    PROVE  a < b
BY Products

\* A positive factor of both sides cancels.
LEMMA CancelledWeakly ==
    ASSUME NEW a \in Int, NEW b \in Int, NEW c \in Nat, c > 0, a * c <= b * c
    PROVE  a <= b
BY StrictProducts

\* Squares grow with their roots.
LEMMA Squares ==
    ASSUME NEW a \in Nat, NEW b \in Nat, a <= b
    PROVE  a * a <= b * b
<1>1. a * a <= b * a
  BY Products
<1>2. a * b <= b * b
  BY Products
<1> QED
  BY <1>1, <1>2

\* What is below k roots, and is not scaled up more than these are, stays below.
LEMMA StaysBelowRoot ==
    ASSUME NEW a \in Int, NEW m \in Nat, NEW b \in Int, NEW n \in Nat, NEW d \in Nat,
           m > 0, BelowRoot(a, m, d), b * m <= n * a, n = 0 => b < 0
    PROVE  BelowRoot(b, n, d)
<1>1. a < 0 \/ a * a < m * m * d
  BY DEF BelowRoot
<1>2. CASE b < 0
  <2>1. b * b > 0
    BY <1>2
  <2> QED
    BY <1>2, <2>1 DEF BelowRoot
<1>3. CASE b >= 0
  <2>1. n > 0 /\ b \in Nat
    BY <1>3
  <2>2. b * m >= 0
    BY <2>1
  <2>3. a >= 0
    <3>1. ~ (a < 0)
      <4> SUFFICES ASSUME a < 0 PROVE FALSE
        OBVIOUS
      <4>1. a * n < 0 * n
        BY <2>1, StrictProducts
      <4> QED
        BY <4>1, <2>2
    <3> QED
      BY <3>1
  <2>4. (b * m) * (b * m) <= (n * a) * (n * a)
    BY <2>1, <2>2, <2>3, Squares
  <2>5. a * a < m * m * d
    BY <1>1, <2>3
  <2>6. (a * a) * (n * n) < (m * m * d) * (n * n)
    <3>1. n * n \in Nat /\ n * n > 0 /\ a * a \in Int /\ m * m * d \in Int
      BY <2>1
    <3> QED
      BY <3>1, <2>5, StrictProducts
  <2>7. (b * b) * (m * m) < (n * n * d) * (m * m)
    <3>1. (b * m) * (b * m) = (b * b) * (m * m) /\ (n * a) * (n * a) = (a * a) * (n * n)
      OBVIOUS
    <3>2. (m * m * d) * (n * n) = (n * n * d) * (m * m)
      OBVIOUS
    <3> QED
      BY <3>1, <3>2, <2>4, <2>6
  <2>8. b * b < n * n * d
    <3>1. m * m \in Nat /\ b * b \in Int /\ n * n * d \in Int
      OBVIOUS
    <3> QED
      BY <3>1, <2>7, Cancelled
  <2> QED
    BY <2>1, <2>8 DEF BelowRoot
<1> QED
  BY <1>2, <1>3

\* Without roots, instants compare crosswise, the infinite ones included.
LEMMA RationalsCompare ==
    ASSUME NEW x \in Rational, NEW y \in Rational
    PROVE  Earlier(x, y) <=> x.p * y.q < y.p * x.q
<1> DEFINE a == x.p * y.q - y.p * x.q
<1>1. /\ x.k = 0 /\ y.k = 0 /\ y.d = 0
      /\ x.p \in Int /\ y.p \in Int /\ x.q \in Int /\ y.q \in Int
  BY DEF Rational
<1>2. y.k * x.q - x.k * y.q = 0
  BY <1>1
<1>3. Earlier(x, y) <=> BelowRoot(a, 0, y.d)
  BY <1>1, <1>2 DEF Earlier
<1>4. a \in Int
  BY <1>1
<1>5. BelowRoot(a, 0, y.d) <=> a < 0
  <2>1. 0 * 0 * y.d = 0
    BY <1>1
  <2>2. a < 0 => a * a > 0
    BY <1>4
  <2> HIDE DEF a
  <2> QED
    BY <1>4, <2>1, <2>2 DEF BelowRoot
<1>6. x.p * y.q \in Int /\ y.p * x.q \in Int
  BY <1>1
<1> QED
  BY <1>3, <1>5, <1>6

\* A lower root against a rational instant.
LEMMA LowRootCompares ==
    ASSUME NEW x \in RootOf(-1), NEW y \in Rational
    PROVE  Earlier(x, y) <=> BelowRoot(x.p * y.q - y.p * x.q, y.q, x.d)
<1>1. x.k = -1 /\ y.k = 0 /\ x.q \in Int /\ y.q \in Int
  BY DEF Rational, RootOf
<1>2. y.k * x.q - x.k * y.q = y.q
  BY <1>1
<1> QED
  BY <1>1, <1>2 DEF Earlier

\* A rational instant against an upper root.
LEMMA HighRootCompares ==
    ASSUME NEW x \in Rational, NEW y \in RootOf(1)
    PROVE  Earlier(x, y) <=> BelowRoot(x.p * y.q - y.p * x.q, x.q, y.d)
<1>1. x.k = 0 /\ y.k = 1 /\ x.q \in Int /\ y.q \in Int
  BY DEF Rational, RootOf
<1>2. y.k * x.q - x.k * y.q = x.q
  BY <1>1
<1> QED
  BY <1>1, <1>2 DEF Earlier

\* What a lower root is before, it is before whatever is no sooner than that.
LEMMA LowRootSooner ==
    ASSUME NEW x \in RootOf(-1), NEW t \in Finite, NEW y \in Rational,
           Earlier(x, t), NoLater(t, y)
    PROVE  Earlier(x, y)
<1> DEFINE a == x.p * t.q - t.p * x.q
           b == x.p * y.q - y.p * x.q
<1>1. /\ x.p \in Int /\ x.q \in Nat /\ x.q > 0 /\ x.d \in Nat
      /\ t \in Rational /\ t.p \in Int /\ t.q \in Nat /\ t.q > 0
      /\ y.p \in Int /\ y.q \in Nat /\ (y.q = 0 => y.p # 0)
  BY DEF Rational, Finite, RootOf
<1>2. a \in Int /\ b \in Int
  BY <1>1
<1>3. BelowRoot(a, t.q, x.d)
  BY <1>1, LowRootCompares
<1>4. b * t.q <= y.q * a
  <2>1. t.p * y.q <= y.p * t.q
    BY DEF NoLater
  <2>2. (t.p * y.q) * x.q <= (y.p * t.q) * x.q
    BY <1>1, <2>1, Products
  <2>3. b * t.q = x.p * y.q * t.q - (y.p * t.q) * x.q
    BY <1>1
  <2>4. y.q * a = x.p * y.q * t.q - (t.p * y.q) * x.q
    BY <1>1
  <2> QED
    BY <1>1, <2>2, <2>3, <2>4
<1>5. ASSUME y.q = 0 PROVE b < 0
  <2>1. 0 <= y.p * t.q
    BY <1>1, <1>5 DEF NoLater
  <2>2. y.p > 0
    <3>1. ~ (y.p < 0)
      <4> SUFFICES ASSUME y.p < 0 PROVE FALSE
        OBVIOUS
      <4>1. y.p * t.q < 0 * t.q
        BY <1>1, StrictProducts
      <4> QED
        BY <4>1, <2>1, <1>1
    <3> QED
      BY <3>1, <1>1, <1>5
  <2>3. 0 * x.q < y.p * x.q
    BY <1>1, <2>2, StrictProducts
  <2> QED
    BY <1>1, <1>5, <2>3
<1>6. BelowRoot(b, y.q, x.d)
  <2> HIDE DEF a, b
  <2> QED
    BY <1>1, <1>2, <1>3, <1>4, <1>5, StaysBelowRoot
<1> QED
  BY <1>6, LowRootCompares

\* The same of an upper root and what is no later.
LEMMA HighRootLater ==
    ASSUME NEW y \in RootOf(1), NEW t \in Finite, NEW x \in Rational,
           Earlier(t, y), NoLater(x, t)
    PROVE  Earlier(x, y)
<1> DEFINE a == t.p * y.q - y.p * t.q
           b == x.p * y.q - y.p * x.q
<1>1. /\ y.p \in Int /\ y.q \in Nat /\ y.q > 0 /\ y.d \in Nat
      /\ t \in Rational /\ t.p \in Int /\ t.q \in Nat /\ t.q > 0
      /\ x.p \in Int /\ x.q \in Nat /\ (x.q = 0 => x.p # 0)
  BY DEF Rational, Finite, RootOf
<1>2. a \in Int /\ b \in Int
  BY <1>1
<1>3. BelowRoot(a, t.q, y.d)
  BY <1>1, HighRootCompares
<1>4. b * t.q <= x.q * a
  <2>1. x.p * t.q <= t.p * x.q
    BY DEF NoLater
  <2>2. (x.p * t.q) * y.q <= (t.p * x.q) * y.q
    BY <1>1, <2>1, Products
  <2>3. b * t.q = (x.p * t.q) * y.q - y.p * x.q * t.q
    BY <1>1
  <2>4. x.q * a = (t.p * x.q) * y.q - y.p * x.q * t.q
    BY <1>1
  <2> QED
    BY <1>1, <2>2, <2>3, <2>4
<1>5. ASSUME x.q = 0 PROVE b < 0
  <2>1. x.p * t.q <= 0
    BY <1>1, <1>5 DEF NoLater
  <2>2. x.p < 0
    <3>1. ~ (x.p > 0)
      <4> SUFFICES ASSUME x.p > 0 PROVE FALSE
        OBVIOUS
      <4>1. 0 * t.q < x.p * t.q
        BY <1>1, StrictProducts
      <4> QED
        BY <4>1, <2>1, <1>1
    <3> QED
      BY <3>1, <1>1, <1>5
  <2>3. x.p * y.q < 0 * y.q
    BY <1>1, <2>2, StrictProducts
  <2> QED
    BY <1>1, <1>5, <2>3
<1>6. BelowRoot(b, x.q, y.d)
  <2> HIDE DEF a, b
  <2> QED
    BY <1>1, <1>2, <1>3, <1>4, <1>5, StaysBelowRoot
<1> QED
  BY <1>6, HighRootCompares

\* Rational instants: what lies between makes the ends comparable.
LEMMA NoLaterChain ==
    ASSUME NEW x \in Rational, NEW t \in Finite, NEW y \in Rational,
           NoLater(x, t), NoLater(t, y), x.q > 0 \/ y.q > 0
    PROVE  NoLater(x, y)
<1>1. /\ x.p \in Int /\ x.q \in Nat /\ y.p \in Int /\ y.q \in Nat
      /\ t.p \in Int /\ t.q \in Nat /\ t.q > 0
  BY DEF Rational, Finite
<1>2. (x.p * t.q) * y.q <= (t.p * x.q) * y.q
  BY <1>1, Products DEF NoLater
<1>3. (t.p * y.q) * x.q <= (y.p * t.q) * x.q
  BY <1>1, Products DEF NoLater
<1>4. (x.p * y.q) * t.q <= (y.p * x.q) * t.q
  <2>1. (x.p * t.q) * y.q = (x.p * y.q) * t.q /\ (t.p * x.q) * y.q = (t.p * y.q) * x.q
    BY <1>1
  <2>2. (y.p * t.q) * x.q = (y.p * x.q) * t.q
    BY <1>1
  <2>3. x.p * y.q \in Int /\ y.p * x.q \in Int /\ t.p * y.q \in Int
    BY <1>1
  <2> QED
    BY <1>1, <1>2, <1>3, <2>1, <2>2, <2>3
<1>5. x.p * y.q \in Int /\ y.p * x.q \in Int
  BY <1>1
<1> QED
  BY <1>1, <1>4, <1>5, CancelledWeakly DEF NoLater

\* Of two instants without roots one is earlier or the other no later.
LEMMA EarlierIsNotNoLater ==
    ASSUME NEW x \in Rational, NEW y \in Rational
    PROVE  Earlier(x, y) <=> ~ NoLater(y, x)
<1>1. x.p * y.q \in Int /\ y.p * x.q \in Int
  BY DEF Rational
<1> QED
  BY <1>1, RationalsCompare DEF NoLater

\* Earlier and no later chain, for finite instants.
LEMMA EarlierChain ==
    ASSUME NEW x \in Finite, NEW t \in Finite, NEW y \in Finite,
           \/ Earlier(x, t) /\ NoLater(t, y)
           \/ NoLater(x, t) /\ Earlier(t, y)
    PROVE  Earlier(x, y)
<1>1. x \in Rational /\ t \in Rational /\ y \in Rational /\ x.q > 0 /\ t.q > 0 /\ y.q > 0
  BY DEF Finite
<1> SUFFICES ASSUME NoLater(y, x) PROVE FALSE
  BY <1>1, EarlierIsNotNoLater
<1>2. CASE Earlier(x, t) /\ NoLater(t, y)
  BY <1>1, <1>2, NoLaterChain, EarlierIsNotNoLater
<1>3. CASE NoLater(x, t) /\ Earlier(t, y)
  BY <1>1, <1>3, NoLaterChain, EarlierIsNotNoLater
<1> QED
  BY <1>2, <1>3

\* The ends of a window, before it is cut off.
LowEnd == {x \in Rational : x.q = 0 => x.p < 0} \cup RootOf(-1)
HighEnd == {x \in Rational : x.q = 0 => x.p > 0} \cup RootOf(1)

\* A window as the detector computes them: its ends are rational or infinite,
\* or the two roots of one quadratic.
Ends ==
    {w \in [low : LowEnd, high : HighEnd] :
        (w.low \in RootOf(-1) <=> w.high \in RootOf(1))
        /\ (w.low \in RootOf(-1) => w.low = [w.high EXCEPT !.k = -1])}
RationalEnds == {w \in Ends : w.low \in Rational /\ w.high \in Rational}

\* The sorts of ends that intervals have.
LEMMA RationalOrRoot ==
    /\ \A x \in LowEnd : x \in RootOf(-1) \/ x \in Rational
    /\ \A x \in HighEnd : x \in RootOf(1) \/ x \in Rational
    /\ \A x \in Rational : x.k = 0
    /\ \A sign \in Int : \A x \in RootOf(sign) : x.k = sign
BY DEF LowEnd, HighEnd, Rational, RootOf

\* The instants of the lookahead.
LEMMA InstantsAreFinite ==
    ASSUME NEW n \in Int
    PROVE  Instant(n) \in Finite /\ Instant(n) = [p |-> n, k |-> 0, d |-> 0, q |-> 1]
BY DEF Instant, Ratio, Size, Finite, Rational

\* Where the overlap of two windows begins and ends.
LEMMA OverlapEnds ==
    ASSUME SeparationAssumption, NEW f \in Ends, NEW s \in RationalEnds
    PROVE  LET low == Overlap(f, s).low
               high == Overlap(f, s).high
           IN  /\ low \in {f.low, s.low, Instant(0)} /\ low \in Finite \cup RootOf(-1)
               /\ high \in {f.high, s.high, Instant(Lookahead)}
               /\ high \in Finite \cup RootOf(1)
<1> DEFINE inner == Later(f.low, s.low)
           outer == Sooner(f.high, s.high)
<1>1. Lookahead \in Int
  BY DEF SeparationAssumption
<1>2. inner \in {f.low, s.low} /\ outer \in {f.high, s.high}
  BY DEF Later, Sooner
<1>3. inner \in LowEnd /\ outer \in HighEnd
  BY <1>2 DEF Ends, RationalEnds
<1>4. ASSUME inner \notin Finite \cup RootOf(-1) PROVE Earlier(inner, Instant(0))
  <2>1. inner \in Rational /\ inner.q = 0 /\ inner.p < 0 /\ inner.p \in Int
    BY <1>3, <1>4 DEF LowEnd, Finite, Rational
  <2>2. Instant(0) \in Rational /\ Instant(0).p = 0 /\ Instant(0).q = 1
    BY InstantsAreFinite DEF Finite
  <2> HIDE DEF inner
  <2> QED
    BY <2>1, <2>2, RationalsCompare
<1>5. ASSUME outer \notin Finite \cup RootOf(1) PROVE Earlier(Instant(Lookahead), outer)
  <2>1. outer \in Rational /\ outer.q = 0 /\ outer.p > 0 /\ outer.p \in Int
    BY <1>3, <1>5 DEF HighEnd, Finite, Rational
  <2>2. /\ Instant(Lookahead) \in Rational
        /\ Instant(Lookahead).p = Lookahead /\ Instant(Lookahead).q = 1
    BY <1>1, InstantsAreFinite DEF Finite
  <2> HIDE DEF outer
  <2> QED
    BY <1>1, <2>1, <2>2, RationalsCompare
<1>6. Overlap(f, s).low = Later(inner, Instant(0))
      /\ Overlap(f, s).high = Sooner(outer, Instant(Lookahead))
  BY DEF Overlap
<1> HIDE DEF inner, outer
<1>7. Instant(0) \in Finite /\ Instant(Lookahead) \in Finite
  BY <1>1, InstantsAreFinite
<1> QED
  BY <1>2, <1>4, <1>5, <1>6, <1>7 DEF Later, Sooner

\* Two roots of one quadratic.
LEMMA RootsInOrder ==
    ASSUME NEW y \in RootOf(1)
    PROVE  Earlier([y EXCEPT !.k = -1], y)
<1> DEFINE x == [y EXCEPT !.k = -1]
<1>1. /\ y.p \in Int /\ y.q \in Nat /\ y.q > 0 /\ y.d \in Nat /\ y.d > 0 /\ y.k = 1
      /\ x.p = y.p /\ x.q = y.q /\ x.d = y.d /\ x.k = -1
  BY DEF RootOf
<1>2. Earlier(x, y) <=> BelowRoot(x.p * y.q - y.p * x.q, y.k * x.q - x.k * y.q, x.d)
  BY <1>1 DEF Earlier
<1>3. x.p * y.q - y.p * x.q = 0 /\ y.k * x.q - x.k * y.q = 2 * y.q
  BY <1>1
<1>4. 0 * 0 < (2 * y.q) * (2 * y.q) * y.d
  <2>1. 0 * y.d < ((2 * y.q) * (2 * y.q)) * y.d
    <3>1. (2 * y.q) * (2 * y.q) > 0
      BY <1>1
    <3> QED
      BY <1>1, <3>1, StrictProducts
  <2> QED
    BY <1>1, <2>1
<1> QED
  BY <1>1, <1>2, <1>3, <1>4 DEF BelowRoot

\* An instant of the lookahead inside two windows opens their overlap.
LEMMA OverlapOpens ==
    ASSUME SeparationAssumption, NEW f \in Ends, NEW s \in RationalEnds,
           NEW t \in Finite, NoLater(Instant(0), t), NoLater(t, Instant(Lookahead)),
           Earlier(f.low, t), Earlier(t, f.high), Earlier(s.low, t), Earlier(t, s.high)
    PROVE  IsSome(Overlap(f, s))
<1> DEFINE low == Overlap(f, s).low
           high == Overlap(f, s).high
<1>1. /\ low \in {f.low, s.low, Instant(0)} /\ low \in Finite \cup RootOf(-1)
      /\ high \in {f.high, s.high, Instant(Lookahead)} /\ high \in Finite \cup RootOf(1)
  BY OverlapEnds
<1>2. Instant(0) \in Finite /\ Instant(Lookahead) \in Finite /\ t \in Rational
  BY InstantsAreFinite DEF SeparationAssumption, Finite
<1>3. s.low \notin RootOf(-1) /\ s.high \notin RootOf(1)
  BY RationalOrRoot DEF RationalEnds
<1>4. Earlier(low, t) \/ low = Instant(0)
  BY <1>1
<1>5. Earlier(t, high) \/ high = Instant(Lookahead)
  BY <1>1
<1>6. CASE low \in RootOf(-1)
  <2>1. low = f.low /\ Earlier(low, t)
    BY <1>1, <1>2, <1>3, <1>6, RationalOrRoot DEF Finite
  <2>2. CASE high \in RootOf(1)
    <3>1. high = f.high
      BY <1>1, <1>2, <1>3, <2>2, RationalOrRoot DEF Finite
    <3>2. f.low = [f.high EXCEPT !.k = -1]
      BY <1>6, <2>1 DEF Ends
    <3> QED
      BY <2>1, <2>2, <3>1, <3>2, RootsInOrder DEF IsSome
  <2>3. CASE high \in Finite
    <3>1. NoLater(t, high)
      <4>1. Earlier(t, high) => NoLater(t, high)
        <5>1. t.p * high.q \in Int /\ high.p * t.q \in Int /\ high \in Rational
          BY <1>2, <2>3 DEF Finite, Rational
        <5> QED
          BY <1>2, <5>1, RationalsCompare DEF NoLater
      <4> QED
        BY <1>5, <4>1
    <3> QED
      BY <1>6, <2>1, <2>3, <3>1, LowRootSooner DEF IsSome, Finite
  <2> QED
    BY <1>1, <2>2, <2>3
<1>7. CASE low \in Finite
  <2>1. NoLater(low, t)
    <3>1. Earlier(low, t) => NoLater(low, t)
      <4>1. low.p * t.q \in Int /\ t.p * low.q \in Int /\ low \in Rational
        BY <1>2, <1>7 DEF Finite, Rational
      <4> QED
        BY <1>2, <4>1, RationalsCompare DEF NoLater
    <3> QED
      BY <1>4, <3>1
  <2>2. CASE high \in RootOf(1)
    <3>1. Earlier(t, high)
      BY <1>2, <1>5, <2>2, RationalOrRoot DEF Finite
    <3> QED
      BY <1>7, <2>1, <2>2, <3>1, HighRootLater DEF IsSome, Finite
  <2>3. CASE high \in Finite
    <3>1. CASE Earlier(t, high)
      BY <1>7, <2>1, <2>3, <3>1, EarlierChain DEF IsSome
    <3>2. CASE high = Instant(Lookahead) /\ Earlier(low, t)
      <4>1. NoLater(t, high)
        BY <3>2
      <4>2. Earlier(low, high)
        <5>1. Earlier(low, t) /\ low \in Finite /\ high \in Finite
          BY <1>7, <2>3, <3>2
        <5> HIDE DEF low, high
        <5> QED
          BY <4>1, <5>1, EarlierChain
      <4> QED
        BY <4>2 DEF IsSome
    <3>3. CASE high = Instant(Lookahead) /\ low = Instant(0)
      <4>1. Lookahead \in Nat /\ Lookahead > 0
        BY DEF SeparationAssumption
      <4>2. low.p = 0 /\ low.q = 1 /\ high.p = Lookahead /\ high.q = 1
        BY <3>3, <4>1, InstantsAreFinite
      <4>3. low \in Rational /\ high \in Rational
        BY <1>7, <2>3 DEF Finite
      <4>4. low.p * high.q < high.p * low.q
        BY <4>1, <4>2
      <4> QED
        BY <4>3, <4>4, RationalsCompare DEF IsSome
    <3> QED
      BY <1>4, <1>5, <3>1, <3>2, <3>3
  <2> QED
    BY <1>1, <2>2, <2>3
<1> QED
  BY <1>1, <1>6, <1>7

\* What begins no sooner than it ends stays shut, whatever it is overlapped with.
LEMMA RootsFarApart ==
    ASSUME NEW y \in RootOf(1), NEW z \in Finite, NEW w \in Finite,
           ~ Earlier([y EXCEPT !.k = -1], z), ~ Earlier(w, y), NoLater(w, z)
    PROVE  FALSE
<1> DEFINE x == [y EXCEPT !.k = -1]
           a == y.p * z.q - z.p * y.q
           b == w.p * y.q - y.p * w.q
<1>1. /\ y.p \in Int /\ y.q \in Nat /\ y.q > 0 /\ y.d \in Nat /\ y.d > 0 /\ y.k = 1
      /\ x.p = y.p /\ x.q = y.q /\ x.d = y.d /\ x \in RootOf(-1)
      /\ z \in Rational /\ z.p \in Int /\ z.q \in Nat /\ z.q > 0
      /\ w \in Rational /\ w.p \in Int /\ w.q \in Nat /\ w.q > 0
  BY DEF RootOf, Finite, Rational
<1>2. a \in Int /\ b \in Int
  BY <1>1
<1>3. ~ BelowRoot(a, z.q, y.d)
  BY <1>1, LowRootCompares
<1>4. ~ BelowRoot(b, w.q, y.d)
  BY <1>1, HighRootCompares
<1>5. a > 0
  <2>1. a >= 0 /\ a * a >= z.q * z.q * y.d
    <3> HIDE DEF a
    <3> QED
      BY <1>1, <1>2, <1>3 DEF BelowRoot
  <2>2. z.q * z.q * y.d > 0
    <3>1. 0 * y.d < (z.q * z.q) * y.d
      <4>1. z.q * z.q > 0
        BY <1>1
      <4> QED
        BY <1>1, <4>1, StrictProducts
    <3> QED
      BY <1>1, <3>1
  <2>3. a # 0
    <3> HIDE DEF a
    <3>1. a = 0 => a * a = 0
      BY <1>2
    <3>2. a * a \in Int /\ z.q * z.q * y.d \in Int
      BY <1>1, <1>2
    <3> QED
      BY <2>1, <2>2, <3>1, <3>2
  <2> HIDE DEF a
  <2> QED
    BY <1>2, <2>1, <2>3
<1>6. b >= 0
  <2> HIDE DEF b
  <2> QED
    BY <1>1, <1>2, <1>4 DEF BelowRoot
<1>7. a * w.q + b * z.q = (w.p * z.q) * y.q - (z.p * w.q) * y.q
  BY <1>1
<1>8. (w.p * z.q) * y.q <= (z.p * w.q) * y.q
  BY <1>1, Products DEF NoLater
<1>9. a * w.q > 0
  <2> HIDE DEF a
  <2>1. 0 * w.q < a * w.q
    BY <1>1, <1>2, <1>5, StrictProducts
  <2> QED
    BY <2>1, <1>1
<1>10. b * z.q >= 0
  <2> HIDE DEF b
  <2>1. 0 * z.q <= b * z.q
    BY <1>1, <1>2, <1>6, Products
  <2> QED
    BY <2>1, <1>1
<1>11. (w.p * z.q) * y.q \in Int /\ (z.p * w.q) * y.q \in Int /\ a * w.q \in Int /\ b * z.q \in Int
  BY <1>1
<1> HIDE DEF a, b
<1> QED
  BY <1>7, <1>8, <1>9, <1>10, <1>11

\* The begin of an overlap is no sooner than that of either window, or now.
LEMMA BeginsNoSooner ==
    ASSUME SeparationAssumption, NEW f \in Ends, NEW s \in RationalEnds,
           NEW z \in Finite, z \in {s.low, Instant(0)}
    PROVE  ~ Earlier(Overlap(f, s).low, z)
<1> DEFINE inner == Later(f.low, s.low)
<1>1. Instant(0) \in Finite /\ z \in Rational
  BY InstantsAreFinite DEF Finite
<1>2. Overlap(f, s).low = Later(inner, Instant(0))
  BY DEF Overlap
<1>3. ~ Earlier(z, z)
  <2>1. z.p * z.q \in Int
    BY <1>1 DEF Rational
  <2> QED
    BY <1>1, <2>1, RationalsCompare
<1>4. inner \in {f.low, s.low} /\ inner \in LowEnd
  BY DEF Later, Ends, RationalEnds
<1>5. CASE z = Instant(0)
  BY <1>2, <1>3, <1>5 DEF Later
<1>6. CASE z = s.low
  <2>1. ~ Earlier(inner, z)
    BY <1>3, <1>6 DEF Later
  <2>2. ASSUME Earlier(inner, Instant(0)), Earlier(Instant(0), z) PROVE FALSE
    <3>1. NoLater(Instant(0), z)
      <4>1. Instant(0).p * z.q \in Int /\ z.p * Instant(0).q \in Int /\ Instant(0) \in Rational
        BY <1>1 DEF Finite, Rational
      <4> QED
        BY <1>1, <2>2, <4>1, RationalsCompare DEF NoLater
    <3>2. CASE inner \in RootOf(-1)
      <4> HIDE DEF inner
      <4> QED
        BY <1>1, <2>1, <2>2, <3>1, <3>2, LowRootSooner
    <3>3. CASE inner \in Rational
      <4>1. NoLater(z, inner)
        BY <1>1, <2>1, <3>3, EarlierIsNotNoLater
      <4>2. NoLater(Instant(0), inner)
        <5> HIDE DEF inner
        <5> QED
          BY <1>1, <3>1, <3>3, <4>1, NoLaterChain, InstantsAreFinite DEF Finite
      <4> QED
        BY <1>1, <2>2, <3>3, <4>2, EarlierIsNotNoLater DEF Finite
    <3> QED
      BY <1>4, <3>2, <3>3, RationalOrRoot
  <2> HIDE DEF inner
  <2> QED
    BY <1>2, <2>1, <2>2 DEF Later
<1> QED
  BY <1>5, <1>6

\* An overlap ends no later than the rational ends it is cut to.
LEMMA EndsNoLater ==
    ASSUME SeparationAssumption, NEW f \in Ends, NEW s \in RationalEnds,
           NEW w \in Finite, w \in {s.high, Instant(Lookahead)}
    PROVE  ~ Earlier(w, Overlap(f, s).high)
<1> DEFINE outer == Sooner(f.high, s.high)
           last == Instant(Lookahead)
<1>1. last \in Finite /\ last.q = 1 /\ w \in Rational
  BY InstantsAreFinite DEF Finite, SeparationAssumption
<1>2. Overlap(f, s).high = Sooner(outer, last)
  BY DEF Overlap
<1>3. ~ Earlier(w, w)
  <2>1. w.p * w.q \in Int
    BY <1>1 DEF Rational
  <2> QED
    BY <1>1, <2>1, RationalsCompare
<1>4. outer \in {f.high, s.high} /\ outer \in HighEnd
  BY DEF Sooner, Ends, RationalEnds
<1>5. CASE w = last
  BY <1>2, <1>3, <1>5 DEF Sooner
<1>6. CASE w = s.high
  <2>1. ~ Earlier(w, outer)
    BY <1>3, <1>6 DEF Sooner
  <2>2. ASSUME Earlier(last, outer), Earlier(w, last) PROVE FALSE
    <3>1. NoLater(w, last)
      <4>1. last.p * w.q \in Int /\ w.p * last.q \in Int /\ last \in Rational
        BY <1>1 DEF Finite, Rational
      <4> QED
        BY <1>1, <2>2, <4>1, RationalsCompare DEF NoLater
    <3>2. CASE outer \in RootOf(1)
      <4> HIDE DEF outer, last
      <4> QED
        BY <1>1, <2>1, <2>2, <3>1, <3>2, HighRootLater
    <3>3. CASE outer \in Rational
      <4>1. NoLater(outer, w)
        BY <1>1, <2>1, <3>3, EarlierIsNotNoLater
      <4>2. NoLater(outer, last)
        <5> HIDE DEF outer, last
        <5> QED
          BY <1>1, <3>1, <3>3, <4>1, NoLaterChain DEF Finite
      <4> QED
        BY <1>1, <2>2, <3>3, <4>2, EarlierIsNotNoLater DEF Finite
    <3> QED
      BY <1>4, <3>2, <3>3, RationalOrRoot
  <2> HIDE DEF outer, last
  <2> QED
    BY <1>2, <2>1, <2>2 DEF Sooner
<1> QED
  BY <1>5, <1>6

\* Where rational cuts leave no time, no root opens a window.
LEMMA OverlapStaysShut ==
    ASSUME SeparationAssumption, NEW f \in Ends, NEW s \in RationalEnds,
           NEW z \in Finite, z \in {s.low, Instant(0)},
           NEW w \in Finite, w \in {s.high, Instant(Lookahead)}, NoLater(w, z)
    PROVE  ~ IsSome(Overlap(f, s))
<1> DEFINE low == Overlap(f, s).low
           high == Overlap(f, s).high
<1>1. /\ low \in {f.low, s.low, Instant(0)} /\ low \in Finite \cup RootOf(-1)
      /\ high \in {f.high, s.high, Instant(Lookahead)} /\ high \in Finite \cup RootOf(1)
  BY OverlapEnds
<1>2. ~ Earlier(low, z) /\ ~ Earlier(w, high)
  BY BeginsNoSooner, EndsNoLater
<1>3. /\ Instant(0) \in Finite /\ Instant(Lookahead) \in Finite
      /\ s.low \notin RootOf(-1) /\ s.high \notin RootOf(1) /\ z \in Rational /\ w \in Rational
  BY InstantsAreFinite, RationalOrRoot DEF SeparationAssumption, Finite, RationalEnds
<1>4. SUFFICES ASSUME Earlier(low, high) PROVE FALSE
  BY DEF IsSome
<1>5. ASSUME low \in RootOf(-1), high \in RootOf(1) PROVE FALSE
  <2>1. low = f.low /\ high = f.high
    BY <1>1, <1>3, <1>5, RationalOrRoot DEF Finite
  <2>2. f.low = [f.high EXCEPT !.k = -1]
    BY <1>5, <2>1 DEF Ends
  <2> QED
    BY <1>2, <1>5, <2>1, <2>2, RootsFarApart
<1>6. ASSUME low \in RootOf(-1), high \in Finite PROVE FALSE
  <2> HIDE DEF low, high
  <2>1. high \in Rational /\ high.q > 0 /\ w.q > 0 /\ z.q > 0
    BY <1>6 DEF Finite
  <2>2. NoLater(high, w)
    BY <1>2, <1>3, <2>1, EarlierIsNotNoLater
  <2>3. NoLater(high, z)
    BY <1>3, <2>1, <2>2, NoLaterChain
  <2> QED
    BY <1>2, <1>3, <1>4, <1>6, <2>3, LowRootSooner
<1>7. ASSUME low \in Finite, high \in RootOf(1) PROVE FALSE
  <2> HIDE DEF low, high
  <2>1. low \in Rational /\ low.q > 0 /\ w.q > 0 /\ z.q > 0
    BY <1>7 DEF Finite
  <2>2. NoLater(z, low)
    BY <1>2, <1>3, <2>1, EarlierIsNotNoLater
  <2>3. NoLater(w, low)
    BY <1>3, <2>1, <2>2, NoLaterChain
  <2> QED
    BY <1>2, <1>3, <1>4, <1>7, <2>3, HighRootLater
<1>8. ASSUME low \in Finite, high \in Finite PROVE FALSE
  <2> HIDE DEF low, high
  <2>1. /\ low \in Rational /\ low.q > 0 /\ high \in Rational /\ high.q > 0
        /\ w.q > 0 /\ z.q > 0
    BY <1>8 DEF Finite
  <2>2. NoLater(z, low) /\ NoLater(high, w)
    BY <1>2, <1>3, <2>1, EarlierIsNotNoLater
  <2>3. NoLater(w, low)
    BY <1>3, <2>1, <2>2, NoLaterChain
  <2>4. NoLater(high, low)
    BY <1>3, <2>1, <2>2, <2>3, NoLaterChain
  <2> QED
    BY <1>4, <2>1, <2>4, EarlierIsNotNoLater
<1> QED
  BY <1>1, <1>5, <1>6, <1>7, <1>8

-----------------------------------------------------------------------------
(* One pair. *)

Geometry ==
    [east : Int, north : Int, altitude : Int,
     v_east : Int, v_north : Int, v_altitude : Int]

\* A ratio of integers, with a positive denominator.
LEMMA RatiosAreFinite ==
    ASSUME NEW n \in Int, NEW m \in Int
    PROVE  /\ m > 0 => Ratio(n, m) \in Finite /\ Ratio(n, m) = [p |-> n, k |-> 0, d |-> 0, q |-> m]
           /\ m < 0 => Ratio(n, m) \in Finite /\ Ratio(n, m) = [p |-> -n, k |-> 0, d |-> 0, q |-> -m]
BY DEF Ratio, Size, Finite, Rational

\* The windows of pairs that do not move, or not vertically.
LEMMA PlainWindows ==
    Always \in RationalEnds /\ Never \in RationalEnds
<1>1. Ratio(-1, 0) = [p |-> -1, k |-> 0, d |-> 0, q |-> 0]
      /\ Ratio(1, 0) = [p |-> 1, k |-> 0, d |-> 0, q |-> 0]
  BY DEF Ratio, Size
<1>2. Ratio(-1, 0) \in Rational /\ Ratio(1, 0) \in Rational
  BY <1>1 DEF Rational
<1>3. Ratio(-1, 0) \in LowEnd /\ Ratio(1, 0) \in HighEnd
  BY <1>1, <1>2 DEF LowEnd, HighEnd
<1>4. Always \in RationalEnds
  <2>1. Always \in [low : LowEnd, high : HighEnd]
    BY <1>3 DEF Always
  <2>2. Always.low \notin RootOf(-1) /\ Always.high \notin RootOf(1)
    BY <1>2, RationalOrRoot DEF Always
  <2> QED
    BY <1>2, <2>1, <2>2 DEF Ends, RationalEnds, Always
<1>5. Instant(0) \in Rational /\ Instant(1) \in Rational /\ Instant(0).q = 1 /\ Instant(1).q = 1
  BY InstantsAreFinite DEF Finite
<1>6. Never \in RationalEnds
  <2>1. Never \in [low : LowEnd, high : HighEnd]
    BY <1>5 DEF Never, LowEnd, HighEnd
  <2>2. Never.low \notin RootOf(-1) /\ Never.high \notin RootOf(1)
    BY <1>5, RationalOrRoot DEF Never
  <2> QED
    BY <1>5, <2>1, <2>2 DEF Ends, RationalEnds, Never
<1> QED
  BY <1>4, <1>6

\* A rational instant is inside the interval of all of them.
LEMMA InsideAlways ==
    ASSUME NEW t \in Finite
    PROVE  Earlier(Always.low, t) /\ Earlier(t, Always.high)
<1>1. Always.low = [p |-> -1, k |-> 0, d |-> 0, q |-> 0]
      /\ Always.high = [p |-> 1, k |-> 0, d |-> 0, q |-> 0]
  BY DEF Always, Ratio, Size
<1>2. Always.low \in Rational /\ Always.high \in Rational /\ t \in Rational
  BY <1>1 DEF Rational, Finite
<1>3. t.p \in Int /\ t.q \in Nat /\ t.q > 0
  BY DEF Finite, Rational
<1> QED
  BY <1>1, <1>2, <1>3, RationalsCompare

\* A square is no less than zero, and more unless it is zero's.
LEMMA SquaresArePositive ==
    ASSUME NEW a \in Int
    PROVE  a * a \in Nat /\ (a # 0 => a * a > 0)
<1>1. CASE a > 0
  BY <1>1, StrictProducts
<1>2. CASE a < 0
  <2>1. 0 * (-a) < (-a) * (-a)
    BY <1>2, StrictProducts
  <2>2. (-a) * (-a) = a * a
    OBVIOUS
  <2> QED
    BY <1>2, <2>1, <2>2
<1> QED
  BY <1>1, <1>2

\* The quadratic of the horizontal window.
LEMMA QuadraticFits ==
    ASSUME SeparationAssumption, NEW r \in Geometry
    PROVE  /\ ClosingSpeedSquared(r) \in Nat /\ Approach(r) \in Int
           /\ ClosingSpeedSquared(r) = 0 => r.v_east = 0 /\ r.v_north = 0 /\ Approach(r) = 0
           /\ r.east * r.east + r.north * r.north - Horizontal * Horizontal \in Int
<1>1. r.east \in Int /\ r.north \in Int /\ r.v_east \in Int /\ r.v_north \in Int
      /\ Horizontal \in Int
  BY DEF Geometry, SeparationAssumption
<1>2. r.v_east * r.v_east \in Nat /\ r.v_north * r.v_north \in Nat
  BY <1>1, SquaresArePositive
<1>3. ClosingSpeedSquared(r) = 0 => r.v_east = 0 /\ r.v_north = 0
  <2>1. /\ r.v_east # 0 => r.v_east * r.v_east > 0
        /\ r.v_north # 0 => r.v_north * r.v_north > 0
    BY <1>1, SquaresArePositive
  <2>2. \A x, y \in Nat : x + y = 0 => ~ (x > 0) /\ ~ (y > 0)
    OBVIOUS
  <2>3. ClosingSpeedSquared(r) = 0
            => ~ (r.v_east * r.v_east > 0) /\ ~ (r.v_north * r.v_north > 0)
    BY <1>2, <2>2 DEF ClosingSpeedSquared
  <2> QED
    BY <2>1, <2>3
<1>4. ClosingSpeedSquared(r) \in Nat
  BY <1>2 DEF ClosingSpeedSquared
<1>5. r.v_east = 0 /\ r.v_north = 0 => Approach(r) = 0
  BY <1>1 DEF Approach
<1>6. Approach(r) \in Int
  BY <1>1 DEF Approach
<1>7. r.east * r.east + r.north * r.north - Horizontal * Horizontal \in Int
  BY <1>1
<1> QED
  BY <1>3, <1>4, <1>5, <1>6, <1>7

\* The ends of a horizontal window are its roots or infinite.
LEMMA QuadraticEnds ==
    ASSUME NEW a \in Nat, NEW b \in Int, NEW c \in Int, a = 0 => b = 0
    PROVE  QuadraticBelow(a, b, c) \in Ends
<1> DEFINE discriminant == b * b - 4 * a * c
           Root(sign) == [p |-> -b, k |-> sign, d |-> discriminant, q |-> 2 * a]
<1>1. Always \in Ends /\ Never \in Ends
  BY PlainWindows DEF RationalEnds
<1>2. CASE a = 0 \/ discriminant <= 0
  <2>1. QuadraticBelow(a, b, c) \in {Always, Never}
    BY <1>2 DEF QuadraticBelow
  <2> QED
    BY <1>1, <2>1
<1>3. CASE a # 0 /\ ~ (discriminant <= 0)
  <2>1. QuadraticBelow(a, b, c) = [low |-> Root(-1), high |-> Root(1)]
    BY <1>3 DEF QuadraticBelow
  <2>2. discriminant \in Nat \ {0} /\ 2 * a \in Nat \ {0} /\ -b \in Int
    BY <1>3
  <2> HIDE DEF discriminant
  <2>3. Root(-1) \in RootOf(-1) /\ Root(1) \in RootOf(1)
    BY <2>2 DEF RootOf
  <2>4. Root(-1) = [Root(1) EXCEPT !.k = -1]
    OBVIOUS
  <2> HIDE DEF Root
  <2> QED
    BY <2>1, <2>3, <2>4 DEF Ends, LowEnd, HighEnd
<1> QED
  BY <1>2, <1>3

\* Where a quadratic is below zero, both of its ends are around.
LEMMA InsideQuadratic ==
    ASSUME NEW a \in Nat, NEW b \in Int, NEW c \in Int, a = 0 => b = 0,
           NEW n \in Int, NEW m \in Nat, m > 0,
           a * n * n + b * n * m + c * m * m < 0
    PROVE  /\ Earlier(QuadraticBelow(a, b, c).low, Ratio(n, m))
           /\ Earlier(Ratio(n, m), QuadraticBelow(a, b, c).high)
<1> DEFINE t == Ratio(n, m)
           discriminant == b * b - 4 * a * c
           Root(sign) == [p |-> -b, k |-> sign, d |-> discriminant, q |-> 2 * a]
           value == a * n * n + b * n * m + c * m * m
           slope == 2 * a * n + b * m
<1>1. t \in Finite /\ t \in Rational /\ t.p = n /\ t.q = m
  BY RatiosAreFinite DEF Finite
<1>2. CASE a = 0
  <2>1. c * m * m < 0
    <3>1. 0 * n * n = 0 /\ 0 * n * m = 0
      OBVIOUS
    <3> QED
      BY <1>2, <3>1
  <2>2. c < 0
    <3> SUFFICES ASSUME c >= 0 PROVE FALSE
      OBVIOUS
    <3>1. m * m \in Nat
      OBVIOUS
    <3>2. 0 * (m * m) <= c * (m * m)
      BY <3>1, Products
    <3> QED
      BY <2>1, <3>2
  <2>3. QuadraticBelow(a, b, c) = Always
    BY <1>2, <2>2 DEF QuadraticBelow
  <2> QED
    BY <1>1, <2>3, InsideAlways
<1>3. CASE a # 0
  <2>1. slope * slope = (4 * a) * value + discriminant * (m * m)
    OBVIOUS
  <2>2. value \in Int /\ slope \in Int /\ discriminant \in Int /\ m * m \in Nat /\ m * m > 0
    BY SquaresArePositive
  <2>3. (4 * a) * value < 0
    <3> HIDE DEF value
    <3>1. value * (4 * a) < 0 * (4 * a)
      BY <1>3, <2>2, StrictProducts DEF value
    <3> QED
      BY <2>2, <3>1
  <2>4. slope * slope < discriminant * (m * m)
    <3>1. (4 * a) * value \in Int /\ slope * slope \in Int /\ discriminant * (m * m) \in Int
      OBVIOUS
    <3> HIDE DEF value, slope, discriminant
    <3> QED
      BY <2>1, <2>3, <3>1
  <2>5. discriminant > 0
    <3> SUFFICES ASSUME discriminant <= 0 PROVE FALSE
      BY <2>2
    <3> HIDE DEF discriminant, slope
    <3>1. discriminant * (m * m) <= 0 * (m * m)
      BY <2>2, Products
    <3>2. slope * slope >= 0
      BY <2>2, SquaresArePositive
    <3>3. slope * slope \in Int /\ discriminant * (m * m) \in Int
      BY <2>2
    <3> QED
      BY <2>4, <3>1, <3>2, <3>3
  <2>6. QuadraticBelow(a, b, c) = [low |-> Root(-1), high |-> Root(1)]
    BY <1>3, <2>5 DEF QuadraticBelow
  <2>7. discriminant \in Nat \ {0} /\ 2 * a \in Nat \ {0} /\ -b \in Int
    BY <1>3, <2>2, <2>5
  <2>8. Root(-1) \in RootOf(-1) /\ Root(1) \in RootOf(1)
    <3> HIDE DEF discriminant
    <3> QED
      BY <2>7 DEF RootOf
  <2>9. Earlier(Root(-1), t)
    <3>1. (-b) * m - n * (2 * a) = -slope
      OBVIOUS
    <3>2. (-slope) * (-slope) < m * m * discriminant
      <4>1. (-slope) * (-slope) = slope * slope /\ m * m * discriminant = discriminant * (m * m)
        BY <2>2
      <4> QED
        BY <2>4, <4>1
    <3>3. BelowRoot(-slope, m, discriminant)
      <4> HIDE DEF slope, discriminant
      <4> QED
        BY <3>2 DEF BelowRoot
    <3>4. Earlier(Root(-1), t) <=> BelowRoot((-b) * m - n * (2 * a), m, discriminant)
      <4> HIDE DEF discriminant, t
      <4> QED
        BY <1>1, <2>8, LowRootCompares
    <3> HIDE DEF slope, discriminant, t
    <3> QED
      BY <3>1, <3>3, <3>4
  <2>10. Earlier(t, Root(1))
    <3>1. n * (2 * a) - (-b) * m = slope
      OBVIOUS
    <3>2. slope * slope < m * m * discriminant
      <4>1. m * m * discriminant = discriminant * (m * m)
        BY <2>2
      <4> QED
        BY <2>4, <4>1
    <3>3. BelowRoot(slope, m, discriminant)
      <4> HIDE DEF slope, discriminant
      <4> QED
        BY <3>2 DEF BelowRoot
    <3>4. Earlier(t, Root(1)) <=> BelowRoot(n * (2 * a) - (-b) * m, m, discriminant)
      <4> HIDE DEF discriminant, t
      <4> QED
        BY <1>1, <2>8, HighRootCompares
    <3> HIDE DEF slope, discriminant, t
    <3> QED
      BY <3>1, <3>3, <3>4
  <2> QED
    BY <2>6, <2>9, <2>10
<1> QED
  BY <1>2, <1>3

\* Where both coordinates are close, the horizontal window is open.
LEMMA InsideHorizontal ==
    ASSUME SeparationAssumption, NEW r \in Geometry, NEW n \in Int, NEW m \in Nat, m > 0,
           LET east == r.east * m + r.v_east * n
               north == r.north * m + r.v_north * n
           IN  east * east + north * north < (Horizontal * m) * (Horizontal * m)
    PROVE  /\ HorizontalWindow(r) \in Ends
           /\ Earlier(HorizontalWindow(r).low, Ratio(n, m))
           /\ Earlier(Ratio(n, m), HorizontalWindow(r).high)
<1> DEFINE a == ClosingSpeedSquared(r)
           b == 2 * Approach(r)
           c == r.east * r.east + r.north * r.north - Horizontal * Horizontal
<1>1. a \in Nat /\ b \in Int /\ c \in Int /\ (a = 0 => b = 0)
  BY QuadraticFits
<1>2. a * n * n + b * n * m + c * m * m < 0
  <2>1. \A e, v, x, w, h \in Int :
            (v * v + w * w) * n * n + (2 * (e * v + x * w)) * n * m
                    + (e * e + x * x - h * h) * m * m
                = (e * m + v * n) * (e * m + v * n) + (x * m + w * n) * (x * m + w * n)
                    - (h * m) * (h * m)
    OBVIOUS
  <2>2. r.east \in Int /\ r.north \in Int /\ r.v_east \in Int /\ r.v_north \in Int
        /\ Horizontal \in Int
    BY DEF Geometry, SeparationAssumption
  <2>3. a * n * n + b * n * m + c * m * m
            = (r.east * m + r.v_east * n) * (r.east * m + r.v_east * n)
                + (r.north * m + r.v_north * n) * (r.north * m + r.v_north * n)
                - (Horizontal * m) * (Horizontal * m)
    <3> QED
      BY <2>1, <2>2 DEF ClosingSpeedSquared, Approach
  <2>4. /\ (r.east * m + r.v_east * n) * (r.east * m + r.v_east * n) \in Int
        /\ (r.north * m + r.v_north * n) * (r.north * m + r.v_north * n) \in Int
        /\ (Horizontal * m) * (Horizontal * m) \in Int
    BY <2>2
  <2> QED
    BY <2>3, <2>4
<1>3. HorizontalWindow(r) = QuadraticBelow(a, b, c)
  BY DEF HorizontalWindow
<1> HIDE DEF a, b, c
<1> QED
  BY <1>1, <1>2, <1>3, QuadraticEnds, InsideQuadratic

\* So are those of a pair.
LEMMA HorizontalEnds ==
    ASSUME SeparationAssumption, NEW r \in Geometry
    PROVE  HorizontalWindow(r) \in Ends
<1> DEFINE c == r.east * r.east + r.north * r.north - Horizontal * Horizontal
<1>1. ClosingSpeedSquared(r) \in Nat /\ 2 * Approach(r) \in Int /\ c \in Int
      /\ (ClosingSpeedSquared(r) = 0 => 2 * Approach(r) = 0)
  BY QuadraticFits
<1>2. HorizontalWindow(r) = QuadraticBelow(ClosingSpeedSquared(r), 2 * Approach(r), c)
  BY DEF HorizontalWindow
<1> HIDE DEF c
<1> QED
  BY <1>1, <1>2, QuadraticEnds

\* The window of a rate upward, and of one downward.
Rising(offset, rate, limit) ==
    [low |-> [p |-> -limit - offset, k |-> 0, d |-> 0, q |-> rate],
     high |-> [p |-> limit - offset, k |-> 0, d |-> 0, q |-> rate]]
Sinking(offset, rate, limit) ==
    [low |-> [p |-> offset - limit, k |-> 0, d |-> 0, q |-> -rate],
     high |-> [p |-> offset + limit, k |-> 0, d |-> 0, q |-> -rate]]

\* The vertical window, by the sign of the rate.
LEMMA LinearEnds ==
    ASSUME NEW offset \in Int, NEW rate \in Int, NEW limit \in Nat, limit > 0
    PROVE  /\ LinearWithin(offset, rate, limit) \in RationalEnds
           /\ rate > 0 => LinearWithin(offset, rate, limit) = Rising(offset, rate, limit)
           /\ rate < 0 => LinearWithin(offset, rate, limit) = Sinking(offset, rate, limit)
<1> DEFINE first == Ratio(-limit - offset, rate)
           second == Ratio(limit - offset, rate)
           window == [low |-> Sooner(first, second), high |-> Later(first, second)]
<1>1. CASE rate = 0
  <2>1. LinearWithin(offset, rate, limit) \in {Always, Never}
    BY <1>1 DEF LinearWithin
  <2> QED
    BY <1>1, <2>1, PlainWindows
<1>2. ASSUME rate # 0
      PROVE  /\ first \in Finite /\ second \in Finite
             /\ LinearWithin(offset, rate, limit) = window
  BY <1>2, RatiosAreFinite DEF LinearWithin
<1>3. ASSUME rate # 0 PROVE window \in RationalEnds
  <2> HIDE DEF first, second
  <2>1. window.low \in Finite /\ window.high \in Finite
    BY <1>2, <1>3 DEF Sooner, Later
  <2>2. window \in [low : LowEnd, high : HighEnd]
    BY <2>1 DEF Finite, LowEnd, HighEnd
  <2>3. window.low \notin RootOf(-1) /\ window.high \notin RootOf(1)
    BY <2>1, RationalOrRoot DEF Finite
  <2> QED
    BY <2>1, <2>2, <2>3 DEF Ends, RationalEnds, Finite
<1>4. CASE rate > 0
  <2>1. /\ first = [p |-> -limit - offset, k |-> 0, d |-> 0, q |-> rate]
        /\ second = [p |-> limit - offset, k |-> 0, d |-> 0, q |-> rate]
    BY <1>4, RatiosAreFinite
  <2>2. (-limit - offset) * rate < (limit - offset) * rate
    BY <1>4, StrictProducts
  <2>3. Earlier(first, second) /\ ~ Earlier(second, first)
    <3>1. (-limit - offset) * rate \in Int /\ (limit - offset) * rate \in Int
      OBVIOUS
    <3>2. first.p * second.q < second.p * first.q
      BY <2>1, <2>2
    <3>3. ~ (second.p * first.q < first.p * second.q)
      BY <2>1, <2>2, <3>1
    <3> QED
      BY <1>2, <1>4, <3>2, <3>3, RationalsCompare DEF Finite
  <2>4. window = [low |-> first, high |-> second]
    BY <2>3 DEF Sooner, Later
  <2> QED
    BY <1>2, <1>3, <1>4, <2>1, <2>4 DEF Rising
<1>5. CASE rate < 0
  <2>1. /\ first = [p |-> offset + limit, k |-> 0, d |-> 0, q |-> -rate]
        /\ second = [p |-> offset - limit, k |-> 0, d |-> 0, q |-> -rate]
    <3>1. -(-limit - offset) = offset + limit /\ -(limit - offset) = offset - limit
      OBVIOUS
    <3> QED
      BY <1>5, <3>1, RatiosAreFinite
  <2>2. (offset - limit) * (-rate) < (offset + limit) * (-rate)
    BY <1>5, StrictProducts
  <2>3. Earlier(second, first) /\ ~ Earlier(first, second)
    <3>1. (offset - limit) * (-rate) \in Int /\ (offset + limit) * (-rate) \in Int
      OBVIOUS
    <3>2. second.p * first.q < first.p * second.q
      BY <2>1, <2>2
    <3>3. ~ (first.p * second.q < second.p * first.q)
      BY <2>1, <2>2, <3>1
    <3> QED
      BY <1>2, <1>5, <3>2, <3>3, RationalsCompare DEF Finite
  <2>4. window = [low |-> second, high |-> first]
    BY <2>3 DEF Sooner, Later
  <2> QED
    BY <1>2, <1>3, <1>5, <2>1, <2>4 DEF Sinking
<1> QED
  BY <1>1, <1>4, <1>5

\* Where the levels are close, the vertical window is open.
LEMMA InsideVertical ==
    ASSUME SeparationAssumption, NEW r \in Geometry, NEW n \in Int, NEW m \in Nat, m > 0,
           Size(r.altitude * m + r.v_altitude * n) < Vertical * m
    PROVE  /\ VerticalWindow(r) \in RationalEnds
           /\ Earlier(VerticalWindow(r).low, Ratio(n, m))
           /\ Earlier(Ratio(n, m), VerticalWindow(r).high)
<1> DEFINE offset == r.altitude
           rate == r.v_altitude
           t == Ratio(n, m)
<1>1. offset \in Int /\ rate \in Int /\ Vertical \in Nat /\ Vertical > 0
  BY DEF Geometry, SeparationAssumption
<1>2. VerticalWindow(r) = LinearWithin(offset, rate, Vertical)
  BY DEF VerticalWindow
<1>3. VerticalWindow(r) \in RationalEnds
  <2> HIDE DEF offset, rate
  <2> QED
    BY <1>1, <1>2, LinearEnds
<1>4. t \in Finite /\ t \in Rational /\ t.p = n /\ t.q = m
  BY RatiosAreFinite DEF Finite
<1>5. /\ offset * m + rate * n \in Int
      /\ offset * m + rate * n < Vertical * m /\ -(offset * m + rate * n) < Vertical * m
  <2>1. offset * m + rate * n \in Int /\ Vertical * m \in Int
    BY <1>1
  <2> QED
    BY <2>1 DEF Size
<1>6. CASE rate = 0
  <2>1. offset * m < Vertical * m /\ (-offset) * m < Vertical * m
    BY <1>1, <1>5, <1>6
  <2>2. Size(offset) < Vertical
    BY <1>1, <2>1, Cancelled DEF Size
  <2>3. VerticalWindow(r) = Always
    BY <1>2, <1>6, <2>2 DEF LinearWithin
  <2> QED
    BY <1>3, <1>4, <2>3, InsideAlways
<1>7. CASE rate > 0
  <2>1. VerticalWindow(r)
            = [low |-> [p |-> -Vertical - offset, k |-> 0, d |-> 0, q |-> rate],
               high |-> [p |-> Vertical - offset, k |-> 0, d |-> 0, q |-> rate]]
    <3> HIDE DEF offset, rate
    <3> QED
      <4>1. VerticalWindow(r) = Rising(offset, rate, Vertical)
        BY <1>1, <1>2, <1>7, LinearEnds
      <4> QED
        BY <4>1 DEF Rising
  <2>2. (-Vertical - offset) * m < n * rate /\ n * rate < (Vertical - offset) * m
    BY <1>1, <1>5
  <2>3. VerticalWindow(r).low \in Rational /\ VerticalWindow(r).high \in Rational
    BY <1>3 DEF RationalEnds
  <2> QED
    BY <1>3, <1>4, <2>1, <2>2, <2>3, RationalsCompare
<1>8. CASE rate < 0
  <2>1. VerticalWindow(r)
            = [low |-> [p |-> offset - Vertical, k |-> 0, d |-> 0, q |-> -rate],
               high |-> [p |-> offset + Vertical, k |-> 0, d |-> 0, q |-> -rate]]
    <3> HIDE DEF offset, rate
    <3> QED
      <4>1. VerticalWindow(r) = Sinking(offset, rate, Vertical)
        BY <1>1, <1>2, <1>8, LinearEnds
      <4> QED
        BY <4>1 DEF Sinking
  <2>2. (offset - Vertical) * m < n * (-rate) /\ n * (-rate) < (offset + Vertical) * m
    BY <1>1, <1>5
  <2>3. VerticalWindow(r).low \in Rational /\ VerticalWindow(r).high \in Rational
    BY <1>3 DEF RationalEnds
  <2> QED
    BY <1>3, <1>4, <2>1, <2>2, <2>3, RationalsCompare
<1> QED
  BY <1>1, <1>6, <1>7, <1>8

\* A pair that both standards will be breached of at an instant of the lookahead
\* is not rejected, and its window is open.
LEMMA BreachOpensWindow ==
    ASSUME SeparationAssumption, NEW r \in Geometry,
           NEW n \in Nat, NEW m \in Nat, m > 0, n <= Lookahead * m,
           LET east == r.east * m + r.v_east * n
               north == r.north * m + r.v_north * n
           IN  east * east + north * north < (Horizontal * m) * (Horizontal * m),
           Size(r.altitude * m + r.v_altitude * n) < Vertical * m
    PROVE  ~ VerticallyClear(r, 0) /\ IsSome(Window(r))
<1> DEFINE t == Ratio(n, m)
<1>1. /\ r.altitude \in Int /\ r.v_altitude \in Int
      /\ Lookahead \in Nat /\ Vertical \in Nat
  BY DEF Geometry, SeparationAssumption
<1>2. t \in Finite /\ t.p = n /\ t.q = m
  BY RatiosAreFinite
<1>3. NoLater(Instant(0), t) /\ NoLater(t, Instant(Lookahead))
  <2>1. /\ Instant(0).p = 0 /\ Instant(0).q = 1
        /\ Instant(Lookahead).p = Lookahead /\ Instant(Lookahead).q = 1
    BY <1>1, InstantsAreFinite
  <2> QED
    BY <1>1, <1>2, <2>1 DEF NoLater
<1>4. IsSome(Window(r))
  <2>1. /\ HorizontalWindow(r) \in Ends
        /\ Earlier(HorizontalWindow(r).low, t) /\ Earlier(t, HorizontalWindow(r).high)
    BY InsideHorizontal
  <2>2. /\ VerticalWindow(r) \in RationalEnds
        /\ Earlier(VerticalWindow(r).low, t) /\ Earlier(t, VerticalWindow(r).high)
    BY InsideVertical
  <2> HIDE DEF t
  <2> QED
    BY <1>2, <1>3, <2>1, <2>2, OverlapOpens DEF Window
<1>5. ~ VerticallyClear(r, 0)
  <2> DEFINE a == r.altitude
             v == r.v_altitude
  <2>1. SUFFICES Size(a) - Size(v) * Lookahead < Vertical
    <3>1. Size(a) \in Nat /\ Size(v) * Lookahead \in Nat
      <4>1. Size(v) \in Nat /\ Size(a) \in Nat
        BY <1>1 DEF Size
      <4> QED
        BY <1>1, <4>1
    <3> HIDE DEF a, v
    <3> QED
      BY <1>1, <3>1 DEF VerticallyClear, a, v
  <2>2. Size(v) \in Nat /\ Size(a) \in Nat
    BY <1>1 DEF Size
  <2>3. Size(v) * n <= (Size(v) * Lookahead) * m
    <3>1. n * Size(v) <= (Lookahead * m) * Size(v)
      BY <1>1, <2>2, Products
    <3> HIDE DEF a, v
    <3> QED
      BY <1>1, <2>2, <3>1
  <2>4. Size(a) * m <= Size(a * m + v * n) + Size(v) * n
    <3>1. v * n <= Size(v) * n /\ -(v * n) <= Size(v) * n
      <4>1. v <= Size(v) /\ -v <= Size(v)
        BY <1>1 DEF Size
      <4>2. v * n <= Size(v) * n /\ (-v) * n <= Size(v) * n
        BY <1>1, <2>2, <4>1, Products
      <4> QED
        BY <1>1, <4>2
    <3>2. v * n \in Int /\ a * m \in Int /\ Size(v) * n \in Int
      BY <1>1, <2>2
    <3>3. Size(a) * m = a * m \/ Size(a) * m = -(a * m)
      BY <1>1 DEF Size
    <3> HIDE DEF a, v
    <3> QED
      BY <3>1, <3>2, <3>3 DEF Size
  <2>5. Size(a) * m < (Vertical + Size(v) * Lookahead) * m
    <3>1. /\ Size(a) * m \in Int /\ Size(v) * n \in Int /\ Vertical * m \in Int
          /\ (Size(v) * Lookahead) * m \in Int /\ Size(a * m + v * n) \in Int
      BY <1>1, <2>2 DEF Size
    <3>2. (Vertical + Size(v) * Lookahead) * m = Vertical * m + (Size(v) * Lookahead) * m
      BY <1>1, <2>2
    <3>3. Size(a * m + v * n) < Vertical * m
      OBVIOUS
    <3> HIDE DEF a, v
    <3> QED
      BY <2>3, <2>4, <3>1, <3>2, <3>3
  <2>6. Size(a) < Vertical + Size(v) * Lookahead
    <3>1. Vertical + Size(v) * Lookahead \in Int
      BY <1>1, <2>2
    <3> HIDE DEF a, v
    <3> QED
      BY <2>2, <2>5, <3>1, Cancelled
  <2>7. Size(v) * Lookahead \in Int
    BY <1>1, <2>2
  <2> HIDE DEF a, v
  <2> QED
    BY <1>1, <2>2, <2>6, <2>7
<1> QED
  BY <1>4, <1>5

-----------------------------------------------------------------------------
(* The grid. *)

\* What a quotient and a remainder are of each other.
LEMMA Quotients ==
    ASSUME NEW x \in Int, NEW y \in Nat, y > 0
    PROVE  /\ x \div y \in Int
           /\ (x \div y) * y <= x /\ x < (x \div y) * y + y
OBVIOUS

\* Numbers that differ by less than the divisor have adjacent quotients.
LEMMA AdjacentQuotients ==
    ASSUME NEW x \in Int, NEW z \in Int, NEW y \in Nat, y > 0, x - z < y, z - x < y
    PROVE  Size((x \div y) - (z \div y)) <= 1
<1> DEFINE k == x \div y
           l == z \div y
<1>1. k \in Int /\ l \in Int /\ k * y <= x /\ x < k * y + y /\ l * y <= z /\ z < l * y + y
  BY Quotients
<1> HIDE DEF k, l
<1>2. k * y \in Int /\ l * y \in Int
  BY <1>1
<1>3. k * y < (l + 2) * y /\ l * y < (k + 2) * y
  <2>1. (l + 2) * y = l * y + 2 * y /\ (k + 2) * y = k * y + 2 * y
    BY <1>1
  <2> QED
    BY <1>1, <1>2, <2>1
<1>4. k < l + 2 /\ l < k + 2
  BY <1>1, <1>3, Cancelled
<1>5. Size(k - l) <= 1
  BY <1>1, <1>4 DEF Size
<1> QED
  BY <1>5 DEF k, l

\* The sum of integers over a finite set of tracks is one.  There is a function
\* on the sets of at most n tracks that is the sum, for every n.
LEMMA TotalFits ==
    ASSUME NEW known, NEW axis, NEW S, IsFiniteSet(S),
           \A j \in S : known[j][axis] \in Int
    PROVE  Total(known, S, axis) \in Int
<1> DEFINE Body(f, some) ==
               IF some = {} THEN 0
               ELSE LET j == CHOOSE j \in some : TRUE
                    IN  known[j][axis] + f[some \ {j}]
           Small(n) == {some \in SUBSET S : Cardinality(some) <= n}
           IsSum(f, n) == \A some \in Small(n) : f[some] = Body(f, some)
           Sums(n) == \E f \in [Small(n) -> Int] : IsSum(f, n)
           sum == CHOOSE f : f = [some \in SUBSET S |-> Body(f, some)]
<1>1. \A some \in SUBSET S : IsFiniteSet(some) /\ Cardinality(some) \in Nat
  BY FS_Subset, FS_CardinalityType
<1>2. ASSUME NEW n \in Nat, NEW some \in Small(n), some # {}
      PROVE  LET j == CHOOSE j \in some : TRUE
             IN  /\ n > 0 /\ some \ {j} \in Small(n - 1) /\ some \ {j} \in Small(n)
                 /\ known[j][axis] \in Int
  <2> DEFINE j == CHOOSE j \in some : TRUE
  <2>1. j \in some /\ j \in S
    BY <1>2
  <2>2. IsFiniteSet(some) /\ Cardinality(some) \in Nat /\ Cardinality(some) <= n
    BY <1>1
  <2> HIDE DEF j
  <2>3. Cardinality(some \ {j}) = Cardinality(some) - 1
    BY <2>1, <2>2, FS_RemoveElement
  <2>4. Cardinality(some \ {j}) \in Nat /\ some \ {j} \in SUBSET S
    BY <1>1
  <2> QED
    BY <2>1, <2>2, <2>3, <2>4 DEF j
<1>3. Sums(0)
  <2>1. ASSUME NEW some \in Small(0) PROVE some = {}
    <3> HIDE DEF Small
    <3>1. 0 \in Nat /\ ~ (0 > 0)
      OBVIOUS
    <3> QED
      BY <1>2, <2>1, <3>1
  <2> DEFINE f == [some \in Small(0) |-> 0]
  <2>2. f \in [Small(0) -> Int]
    OBVIOUS
  <2>3. IsSum(f, 0)
    BY <2>1
  <2> QED
    BY <2>2, <2>3
<1>4. ASSUME NEW n \in Nat, n > 0, Sums(n - 1) PROVE Sums(n)
  <2>1. PICK f \in [Small(n - 1) -> Int] : IsSum(f, n - 1)
    BY <1>4
  <2> DEFINE g == [some \in Small(n) |-> Body(f, some)]
  <2>2. ASSUME NEW some \in Small(n)
        PROVE  Body(f, some) \in Int /\ Body(g, some) = Body(f, some)
    <3>1. CASE some = {}
      BY <3>1
    <3>2. CASE some # {}
      <4> DEFINE j == CHOOSE j \in some : TRUE
                 rest == some \ {j}
      <4>1. rest \in Small(n - 1) /\ rest \in Small(n) /\ known[j][axis] \in Int
        BY <1>2, <3>2
      <4>2. f[rest] \in Int
        BY <4>1
      <4>3. g[rest] = f[rest]
        <5>1. f[rest] = Body(f, rest)
          BY <2>1, <4>1
        <5> QED
          BY <4>1, <5>1
      <4>4. Body(f, some) = known[j][axis] + f[rest]
            /\ Body(g, some) = known[j][axis] + g[rest]
        BY <3>2
      <4> HIDE DEF g, j, rest
      <4> QED
        BY <4>1, <4>2, <4>3, <4>4
    <3> QED
      BY <3>1, <3>2
  <2> HIDE DEF Small, Body
  <2>3. g \in [Small(n) -> Int]
    BY <2>2
  <2>4. IsSum(g, n)
    BY <2>2
  <2> QED
    BY <2>3, <2>4
<1>5. ASSUME NEW n \in Nat PROVE Sums(n)
  <2> DEFINE Without == {m \in Nat : ~ Sums(m)}
  <2> SUFFICES ASSUME Without # {} PROVE FALSE
    BY <1>5
  <2> HIDE DEF Sums
  <2>1. PICK m \in Without : \A k \in Without : m <= k
    BY Least
  <2>2. m > 0 /\ m - 1 \in Nat
    BY <1>3, <2>1
  <2>3. Sums(m - 1)
    BY <2>1, <2>2
  <2> QED
    BY <1>4, <2>1, <2>2, <2>3
<1>6. Cardinality(S) \in Nat /\ Small(Cardinality(S)) = SUBSET S
  BY FS_Subset, FS_CardinalityType
<1>7. PICK f \in [SUBSET S -> Int] : \A some \in SUBSET S : f[some] = Body(f, some)
  <2> HIDE DEF Body, Small
  <2> QED
    BY <1>5, <1>6
<1>8. f = [some \in SUBSET S |-> Body(f, some)]
  BY <1>7
<1>9. sum = [some \in SUBSET S |-> Body(sum, some)]
  BY <1>8
<1>10. ASSUME NEW some \in SUBSET S PROVE sum[some] \in Int
  <2> DEFINE Bad == {n \in Nat : \E s \in Small(n) : sum[s] \notin Int}
  <2> SUFFICES ASSUME Bad # {} PROVE FALSE
    <3>1. some \in Small(Cardinality(some)) /\ Cardinality(some) \in Nat
      BY <1>1
    <3> HIDE DEF Small, sum
    <3> QED
      BY <3>1
  <2>1. PICK n \in Bad : \A k \in Bad : n <= k
    BY Least
  <2>2. PICK s \in Small(n) : sum[s] \notin Int
    BY <2>1
  <2>3. s \in SUBSET S /\ sum[s] = Body(sum, s)
    <3> HIDE DEF sum, Body
    <3> QED
      BY <1>9, <2>2
  <2>4. CASE s = {}
    BY <2>2, <2>3, <2>4
  <2>5. CASE s # {}
    <3> DEFINE j == CHOOSE j \in s : TRUE
               rest == s \ {j}
    <3>1. n > 0 /\ rest \in Small(n - 1) /\ known[j][axis] \in Int
      BY <1>2, <2>1, <2>5
    <3>2. sum[s] = known[j][axis] + sum[rest]
      <4> HIDE DEF sum
      <4> QED
        BY <2>3, <2>5
    <3>3. n - 1 \notin Bad /\ n - 1 \in Nat
      <4>1. n \in Nat /\ ~ (n <= n - 1)
        BY <2>1
      <4> HIDE DEF Bad
      <4> QED
        BY <2>1, <3>1, <4>1
    <3> HIDE DEF sum, j, rest, Small
    <3>4. sum[rest] \in Int
      BY <3>1, <3>3
    <3> QED
      BY <2>2, <3>1, <3>2, <3>4
  <2> QED
    BY <2>4, <2>5
<1>11. Total(known, S, axis) = sum[S]
  BY DEF Total
<1> HIDE DEF sum
<1> QED
  BY <1>10, <1>11

\* What the grid is asked about a coordinate: close enough by then is close
\* enough now, if no pair closes faster than is supposed.
LEMMA WithinReach ==
    ASSUME SeparationAssumption, NEW e \in Int, NEW v \in Int, NEW o \in Int,
           NEW n \in Nat, NEW m \in Nat, m > 0, n <= Lookahead * m,
           (e * m + v * n) * (e * m + v * n) + o * o < (Horizontal * m) * (Horizontal * m),
           Size(v) <= MaxClosing
    PROVE  e < InteractionRadius /\ -e < InteractionRadius
<1> DEFINE x == e * m + v * n
           h == Horizontal * m
<1>1. /\ Horizontal \in Nat /\ Lookahead \in Nat /\ MaxClosing \in Nat
      /\ h \in Nat /\ x \in Int /\ Size(v) \in Nat
  BY DEF SeparationAssumption, Size
<1>2. x < h /\ -x < h
  <2>1. o * o \in Nat
    BY SquaresArePositive
  <2>2. x * x < h * h
    <3>1. x * x \in Int /\ h * h \in Int /\ x * x + o * o < h * h
      BY <1>1
    <3> HIDE DEF x, h
    <3> QED
      BY <2>1, <3>1
  <2> HIDE DEF x, h
  <2>3. ASSUME NEW y \in Nat, y * y = x * x PROVE y < h
    <3> SUFFICES ASSUME h <= y PROVE FALSE
      BY <1>1
    <3>1. h * h <= y * y
      BY <1>1, Squares
    <3>2. h * h \in Int /\ y * y \in Int
      BY <1>1
    <3> QED
      BY <2>2, <2>3, <3>1, <3>2
  <2>4. CASE x >= 0
    BY <1>1, <2>3, <2>4
  <2>5. CASE x < 0
    <3>1. -x \in Nat /\ (-x) * (-x) = x * x
      BY <1>1, <2>5
    <3>2. -x < h
      BY <2>3, <3>1
    <3> QED
      BY <1>1, <2>5, <3>2
  <2> QED
    BY <1>1, <2>4, <2>5
<1>3. v * n <= (MaxClosing * Lookahead) * m /\ -(v * n) <= (MaxClosing * Lookahead) * m
  <2>1. v <= MaxClosing /\ -v <= MaxClosing
    BY <1>1 DEF Size
  <2>2. v * n <= MaxClosing * n /\ (-v) * n <= MaxClosing * n
    BY <1>1, <2>1, Products
  <2>3. n * MaxClosing <= (Lookahead * m) * MaxClosing
    BY <1>1, Products
  <2>4. (Lookahead * m) * MaxClosing = (MaxClosing * Lookahead) * m
        /\ n * MaxClosing = MaxClosing * n /\ (-v) * n = -(v * n)
    BY <1>1
  <2>5. v * n \in Int /\ MaxClosing * n \in Int /\ (MaxClosing * Lookahead) * m \in Int
    BY <1>1
  <2> QED
    BY <2>2, <2>3, <2>4, <2>5
<1>4. e * m < InteractionRadius * m /\ (-e) * m < InteractionRadius * m
  <2>1. InteractionRadius * m = (MaxClosing * Lookahead) * m + h
    BY <1>1 DEF InteractionRadius
  <2>2. e * m = x - v * n /\ (-e) * m = -x + v * n
    BY <1>1
  <2>3. v * n \in Int /\ (MaxClosing * Lookahead) * m \in Int
    BY <1>1
  <2> HIDE DEF x, h
  <2> QED
    BY <1>1, <1>2, <1>3, <2>1, <2>2, <2>3
<1>5. InteractionRadius \in Int
  BY <1>1 DEF InteractionRadius
<1> QED
  BY <1>4, <1>5, Cancelled

\* Tracks within the radius of interaction are in adjacent cells.
LEMMA ReachIsAdjacent ==
    ASSUME SeparationAssumption, NEW known, IsFiniteSet(Eligible(known)),
           NEW axis, \A k \in Eligible(known) : known[k][axis] \in Int,
           NEW i \in Eligible(known), NEW j \in Eligible(known),
           known[i][axis] - known[j][axis] < InteractionRadius,
           known[j][axis] - known[i][axis] < InteractionRadius
    PROVE  Size(Cell(known, i, axis) - Cell(known, j, axis)) <= 1
<1> DEFINE n == Cardinality(Eligible(known))
           total == Total(known, Eligible(known), axis)
           a == known[i][axis]
           b == known[j][axis]
           radius == InteractionRadius
<1>1. total \in Int /\ a \in Int /\ b \in Int
  BY TotalFits
<1>2. n \in Nat /\ n > 0
  BY FS_CardinalityType, FS_EmptySet
<1>3. radius \in Nat /\ radius > 0
  <2>1. MaxClosing * Lookahead \in Nat
    BY DEF SeparationAssumption
  <2> QED
    BY <2>1 DEF InteractionRadius, SeparationAssumption
<1>4. Cell(known, i, axis) = (n * a - total) \div (n * radius)
      /\ Cell(known, j, axis) = (n * b - total) \div (n * radius)
  BY DEF Cell
<1>5. a - b < radius /\ b - a < radius
  OBVIOUS
<1> HIDE DEF n, total, a, b, radius
<1>6. n * radius \in Nat /\ n * radius > 0
  <2>1. 0 * n < radius * n
    BY <1>2, <1>3, StrictProducts
  <2> QED
    BY <1>2, <1>3, <2>1
<1>7. (n * a - total) - (n * b - total) < n * radius
      /\ (n * b - total) - (n * a - total) < n * radius
  <2>1. (a - b) * n < radius * n /\ (b - a) * n < radius * n
    BY <1>1, <1>2, <1>3, <1>5, StrictProducts
  <2>2. /\ (n * a - total) - (n * b - total) = (a - b) * n
        /\ (n * b - total) - (n * a - total) = (b - a) * n
        /\ n * radius = radius * n
    BY <1>1, <1>2, <1>3
  <2> QED
    BY <2>1, <2>2
<1>8. n * a - total \in Int /\ n * b - total \in Int
  BY <1>1, <1>2
<1> QED
  BY <1>4, <1>6, <1>7, <1>8, AdjacentQuotients

\* A state of a track, as far as the geometry needs it.
IsFlown(track) ==
    /\ track.east \in Int /\ track.north \in Int /\ track.altitude \in Int
    /\ track.v_east \in Int /\ track.v_north \in Int /\ track.v_altitude \in Int

\* The geometry of two tracks is one of integers.
LEMMA RelativeFits ==
    ASSUME NEW first, NEW second, IsFlown(first), IsFlown(second)
    PROVE  Relative(first, second) \in Geometry
BY DEF Relative, Geometry, IsFlown

\* A scan of any picture, of any number of tracks, finds every pair that straight
\* flight would bring below both standards within the lookahead, provided that no
\* two close faster along an axis than the grid supposes.
LEMMA ScanMissesNothing ==
    ASSUME SeparationAssumption, NEW known, IsFiniteSet(DOMAIN known),
           \A k \in Eligible(known) : IsFlown(known[k]),
           NEW i \in Eligible(known), NEW j \in Eligible(known), i # j,
           LET r == Relative(known[i], known[j])
           IN  Size(r.v_east) <= MaxClosing /\ Size(r.v_north) <= MaxClosing,
           NEW n \in Nat, NEW m \in Nat, m > 0, n <= Lookahead * m,
           LET r == Relative(known[i], known[j])
               east == r.east * m + r.v_east * n
               north == r.north * m + r.v_north * n
           IN  /\ east * east + north * north < (Horizontal * m) * (Horizontal * m)
               /\ Size(r.altitude * m + r.v_altitude * n) < Vertical * m
    PROVE  {i, j} \in Scan(known)
<1> DEFINE r == Relative(known[i], known[j])
           east == r.east * m + r.v_east * n
           north == r.north * m + r.v_north * n
<1>1. r \in Geometry
  BY RelativeFits
<1>2. InConflict(known[i], known[j])
  <2> HIDE DEF r
  <2>1. /\ east * east + north * north < (Horizontal * m) * (Horizontal * m)
        /\ Size(r.altitude * m + r.v_altitude * n) < Vertical * m
    BY DEF r
  <2>2. ~ VerticallyClear(r, 0) /\ IsSome(Window(r))
    BY <1>1, <2>1, BreachOpensWindow
  <2> QED
    BY <2>2 DEF InConflict, r
<1>3. /\ r.east < InteractionRadius /\ -r.east < InteractionRadius
      /\ r.north < InteractionRadius /\ -r.north < InteractionRadius
  <2>1. /\ r.east \in Int /\ r.v_east \in Int /\ r.north \in Int /\ r.v_north \in Int
        /\ Size(r.v_east) <= MaxClosing /\ Size(r.v_north) <= MaxClosing
        /\ Horizontal \in Int
    BY <1>1 DEF Geometry, SeparationAssumption
  <2>2. /\ east * east + north * north < (Horizontal * m) * (Horizontal * m)
        /\ east \in Int /\ north \in Int
    BY <2>1
  <2>3. north * north + east * east < (Horizontal * m) * (Horizontal * m)
    <3>1. east * east \in Int /\ north * north \in Int
      BY <2>2
    <3> HIDE DEF east, north
    <3> QED
      BY <2>2, <3>1
  <2> HIDE DEF r
  <2>4. r.east < InteractionRadius /\ -r.east < InteractionRadius
    BY <2>1, <2>2, WithinReach
  <2>5. r.north < InteractionRadius /\ -r.north < InteractionRadius
    BY <2>1, <2>2, <2>3, WithinReach
  <2> QED
    BY <2>4, <2>5
<1>4. IsFiniteSet(Eligible(known))
  BY FS_Subset DEF Eligible
<1>5. ASSUME NEW axis \in {"east", "north"},
             NEW k \in {i, j}, NEW l \in {i, j}
      PROVE  Size(Cell(known, k, axis) - Cell(known, l, axis)) <= 1
  <2>1. \A x \in Eligible(known) : known[x][axis] \in Int
    BY DEF IsFlown
  <2>2. /\ r.east = known[j]["east"] - known[i]["east"]
        /\ r.north = known[j]["north"] - known[i]["north"]
    BY DEF Relative
  <2>3. InteractionRadius \in Nat /\ InteractionRadius > 0
    <3>1. MaxClosing * Lookahead \in Nat
      BY DEF SeparationAssumption
    <3> QED
      BY <3>1 DEF InteractionRadius, SeparationAssumption
  <2>4. known[k][axis] - known[l][axis] < InteractionRadius
        /\ known[l][axis] - known[k][axis] < InteractionRadius
    <3> HIDE DEF r
    <3>1. /\ known[i]["east"] \in Int /\ known[j]["east"] \in Int
          /\ known[i]["north"] \in Int /\ known[j]["north"] \in Int
      BY <2>1 DEF IsFlown
    <3> QED
      BY <1>3, <2>2, <2>3, <3>1
  <2> QED
    BY <1>4, <2>1, <2>4, ReachIsAdjacent
<1>6. {i, j} \in kSubset(2, Eligible(known))
  <2>1. IsFiniteSet({i}) /\ Cardinality({i}) = 1 /\ j \notin {i}
    BY FS_Singleton
  <2>2. Cardinality({i} \cup {j}) = 2
    <3>1. Cardinality({i} \cup {j}) = Cardinality({i}) + 1
      BY <2>1, FS_AddElement, Zenon
    <3> QED
      BY <2>1, <3>1
  <2>3. {i} \cup {j} = {i, j}
    OBVIOUS
  <2> QED
    BY <2>2, <2>3 DEF kSubset
<1>7. \A k, l \in {i, j} : Adjacent(known, k, l)
  BY <1>5 DEF Adjacent
<1> QED
  BY <1>2, <1>6, <1>7 DEF Scan, CandidatePairs

\* The closest approach is an instant of the lookahead.
LEMMA ClosestApproachFits ==
    ASSUME SeparationAssumption, NEW r \in Geometry
    PROVE  LET t == ClosestApproach(r)
           IN  t \in Finite /\ 0 <= t.p /\ t.p <= Lookahead * t.q
<1> DEFINE now == Instant(0)
           last == Instant(Lookahead)
           x == Ratio(-Approach(r), ClosingSpeedSquared(r))
           y == Sooner(last, x)
<1>1. /\ now \in Finite /\ now.p = 0 /\ now.q = 1
      /\ last \in Finite /\ last.p = Lookahead /\ last.q = 1 /\ Lookahead \in Nat
  BY InstantsAreFinite DEF SeparationAssumption
<1>2. CASE ClosingSpeedSquared(r) = 0
  BY <1>1, <1>2 DEF ClosestApproach
<1>3. CASE ClosingSpeedSquared(r) # 0
  <2>1. x \in Finite
    BY <1>3, QuadraticFits, RatiosAreFinite
  <2>2. ClosestApproach(r) = Later(now, y)
    BY <1>3 DEF ClosestApproach
  <2> HIDE DEF now, last, x
  <2>3. y \in Finite /\ y.p <= Lookahead * y.q
    <3>1. CASE Earlier(x, last)
      <4>1. x.p * 1 < Lookahead * x.q
        BY <1>1, <2>1, <3>1, RationalsCompare DEF Finite
      <4>2. x.p \in Int /\ x.q \in Int
        BY <2>1 DEF Finite, Rational
      <4> QED
        BY <1>1, <2>1, <3>1, <4>1, <4>2 DEF Sooner
    <3>2. CASE ~ Earlier(x, last)
      BY <1>1, <3>2 DEF Sooner
    <3> QED
      BY <3>1, <3>2
  <2> HIDE DEF y
  <2>4. CASE Earlier(now, y)
    <3>1. 0 * y.q < y.p * 1
      BY <1>1, <2>3, <2>4, RationalsCompare DEF Finite
    <3>2. y.p \in Int /\ y.q \in Int
      BY <2>3 DEF Finite, Rational
    <3> QED
      BY <2>2, <2>3, <2>4, <3>1, <3>2 DEF Later
  <2>5. CASE ~ Earlier(now, y)
    BY <1>1, <2>2, <2>5 DEF Later
  <2> QED
    BY <2>4, <2>5
<1> QED
  BY <1>2, <1>3

\* A pair that stays clear vertically has no window.
LEMMA ClearHasNoWindow ==
    ASSUME SeparationAssumption, NEW r \in Geometry,
           Size(r.altitude) - Size(r.v_altitude) * Lookahead - Vertical >= 0
    PROVE  ~ IsSome(Window(r))
<1> DEFINE a == r.altitude
           v == r.v_altitude
           s == VerticalWindow(r)
<1>1. /\ a \in Int /\ v \in Int /\ Vertical \in Nat /\ Vertical > 0
      /\ Lookahead \in Nat /\ Lookahead > 0
  BY DEF Geometry, SeparationAssumption
<1>2. Size(a) \in Nat /\ Size(v) \in Nat /\ Size(v) * Lookahead \in Nat
  <2>1. Size(a) \in Nat /\ Size(v) \in Nat
    BY <1>1 DEF Size
  <2> QED
    BY <1>1, <2>1
<1>3. Size(a) >= Size(v) * Lookahead + Vertical
  BY <1>1, <1>2
<1>4. s = LinearWithin(a, v, Vertical)
  BY DEF VerticalWindow
<1>5. /\ s \in RationalEnds
      /\ v > 0 => s = Rising(a, v, Vertical)
      /\ v < 0 => s = Sinking(a, v, Vertical)
  <2> HIDE DEF a, v, s
  <2>1. a \in Int /\ v \in Int /\ Vertical \in Nat /\ Vertical > 0
    BY <1>1
  <2> QED
    BY <1>4, <2>1, LinearEnds
<1>6. HorizontalWindow(r) \in Ends
  BY HorizontalEnds
<1>7. /\ Instant(0) \in Finite /\ Instant(0).p = 0 /\ Instant(0).q = 1
      /\ Instant(1) \in Finite /\ Instant(1).p = 1 /\ Instant(1).q = 1
      /\ Instant(Lookahead) \in Finite
      /\ Instant(Lookahead).p = Lookahead /\ Instant(Lookahead).q = 1
  BY <1>1, InstantsAreFinite
<1>8. SUFFICES \E z, w \in Finite : /\ z \in {s.low, Instant(0)}
                                    /\ w \in {s.high, Instant(Lookahead)} /\ NoLater(w, z)
  BY <1>5, <1>6, OverlapStaysShut DEF Window
<1> HIDE DEF a, v, s
<1>9. CASE v = 0
  <2>1. ~ (Size(a) < Vertical)
    BY <1>1, <1>2, <1>3
  <2>2. s = Never
    BY <1>4, <1>9, <2>1 DEF LinearWithin
  <2>3. s.low = Instant(1) /\ s.high = Instant(0)
    BY <2>2 DEF Never
  <2>4. NoLater(s.high, s.low)
    BY <1>7, <2>3 DEF NoLater
  <2> QED
    BY <1>7, <2>3, <2>4
<1>10. CASE v > 0
  <2>1. s = [low |-> [p |-> -Vertical - a, k |-> 0, d |-> 0, q |-> v],
             high |-> [p |-> Vertical - a, k |-> 0, d |-> 0, q |-> v]]
    BY <1>5, <1>10 DEF Rising
  <2>2. s.low \in Finite /\ s.high \in Finite
    BY <1>1, <1>10, <2>1 DEF Finite, Rational
  <2>3. v * Lookahead \in Nat /\ Size(v) = v
    BY <1>1, <1>10 DEF Size
  <2>4. CASE a >= 0
    <3>1. Vertical - a <= 0
      BY <1>1, <1>3, <2>3, <2>4 DEF Size
    <3>2. NoLater(s.high, Instant(0))
      BY <1>1, <1>7, <2>1, <3>1 DEF NoLater
    <3> QED
      BY <1>7, <2>2, <3>2
  <2>5. CASE a < 0
    <3>1. Lookahead * v <= -Vertical - a
      BY <1>1, <1>3, <2>3, <2>5 DEF Size
    <3>2. NoLater(Instant(Lookahead), s.low)
      BY <1>1, <1>7, <2>1, <3>1 DEF NoLater
    <3> QED
      BY <1>7, <2>2, <3>2
  <2> QED
    BY <1>1, <2>4, <2>5
<1>11. CASE v < 0
  <2>1. s = [low |-> [p |-> a - Vertical, k |-> 0, d |-> 0, q |-> -v],
             high |-> [p |-> a + Vertical, k |-> 0, d |-> 0, q |-> -v]]
    BY <1>5, <1>11 DEF Sinking
  <2>2. s.low \in Finite /\ s.high \in Finite
    BY <1>1, <1>11, <2>1 DEF Finite, Rational
  <2>3. (-v) * Lookahead \in Nat /\ Size(v) = -v
    BY <1>1, <1>11 DEF Size
  <2>4. CASE a >= 0
    <3>1. Lookahead * (-v) <= a - Vertical
      BY <1>1, <1>3, <2>3, <2>4 DEF Size
    <3>2. NoLater(Instant(Lookahead), s.low)
      BY <1>1, <1>7, <2>1, <3>1 DEF NoLater
    <3> QED
      BY <1>7, <2>2, <3>2
  <2>5. CASE a < 0
    <3>1. a + Vertical <= 0
      BY <1>1, <1>3, <2>3, <2>5 DEF Size
    <3>2. NoLater(s.high, Instant(0))
      BY <1>1, <1>7, <2>1, <3>1 DEF NoLater
    <3> QED
      BY <1>7, <2>2, <3>2
  <2> QED
    BY <1>1, <2>4, <2>5
<1> QED
  BY <1>1, <1>9, <1>10, <1>11

\* The vertical rejection widened by the uncertainty discards only pairs of which
\* a breach of the vertical standard is impossible at the instant reported: the
\* gap is wide enough at the end of the lookahead, and all the wider before.
LEMMA RejectionLosesNothing ==
    ASSUME SeparationAssumption, NEW r \in Geometry, NEW now \in Nat, NEW rate \in Nat,
           RejectedVertically(r, now, rate)
    PROVE  LET t == Report(r).time
           IN  Impossible(Size(r.altitude * t.q + r.v_altitude * t.p), Vertical * t.q,
                          ProjectedVariance(now, rate, t.p, t.q))
<1> DEFINE t == ClosestApproach(r)
           a == r.altitude
           v == r.v_altitude
           p == t.p
           q == t.q
           spare == Size(a) - Size(v) * Lookahead - Vertical
           most == SigmaCutoff * SigmaCutoff
           miss == Size(a * q + v * p)
           variance == now * q * q + rate * p * p
<1>1. /\ a \in Int /\ v \in Int /\ Vertical \in Nat /\ Lookahead \in Nat
      /\ SigmaCutoff \in Nat
  BY DEF Geometry, SeparationAssumption
<1>2. Size(a) \in Nat /\ Size(v) \in Nat /\ Size(v) * Lookahead \in Nat
  <2>1. Size(a) \in Nat /\ Size(v) \in Nat
    BY <1>1 DEF Size
  <2> QED
    BY <1>1, <2>1
<1>3. spare \in Int /\ most \in Nat
  BY <1>1, <1>2
<1>4. spare >= 0 /\ spare * spare >= most * (now * 1 * 1 + rate * Lookahead * Lookahead)
  BY DEF RejectedVertically, SlackCovers, ProjectedVariance
<1>5. Report(r).time = t
  <2>1. ~ IsSome(Window(r))
    BY <1>4, ClearHasNoWindow
  <2> QED
    BY <2>1 DEF Report
<1>6. /\ p \in Nat /\ q \in Nat /\ q > 0 /\ p <= Lookahead * q
  BY ClosestApproachFits DEF Finite, Rational
<1> HIDE DEF t, a, v, p, q
<1>7. miss \in Nat
  BY <1>1, <1>6 DEF Size
<1>8. (spare + Vertical) * q <= miss
  <2>1. Size(v) * p <= (Size(v) * Lookahead) * q
    <3>1. p * Size(v) <= (Lookahead * q) * Size(v)
      BY <1>1, <1>2, <1>6, Products
    <3> QED
      BY <1>1, <1>2, <1>6, <3>1
  <2>2. Size(a) * q <= miss + Size(v) * p
    <3>1. v * p <= Size(v) * p /\ -(v * p) <= Size(v) * p
      <4>1. v <= Size(v) /\ -v <= Size(v)
        BY <1>1 DEF Size
      <4>2. v * p <= Size(v) * p /\ (-v) * p <= Size(v) * p
        BY <1>1, <1>2, <1>6, <4>1, Products
      <4> QED
        BY <1>1, <1>6, <4>2
    <3>2. v * p \in Int /\ a * q \in Int /\ Size(v) * p \in Int
      BY <1>1, <1>2, <1>6
    <3>3. Size(a) * q = a * q \/ Size(a) * q = -(a * q)
      BY <1>1, <1>6 DEF Size
    <3> QED
      BY <3>1, <3>2, <3>3 DEF Size
  <2>3. (spare + Vertical) * q = Size(a) * q - (Size(v) * Lookahead) * q
    BY <1>1, <1>2, <1>6
  <2>4. /\ Size(a) * q \in Int /\ Size(v) * p \in Int
        /\ (Size(v) * Lookahead) * q \in Int
    BY <1>1, <1>2, <1>6
  <2> HIDE DEF spare, miss
  <2> QED
    BY <1>7, <2>1, <2>2, <2>3, <2>4
<1> HIDE DEF spare, miss
<1>9. spare * q \in Nat /\ spare * q <= miss - Vertical * q
  <2>1. (spare + Vertical) * q = spare * q + Vertical * q
    BY <1>1, <1>3, <1>6
  <2>2. spare \in Nat
    BY <1>3, <1>4
  <2>3. spare * q \in Nat /\ Vertical * q \in Nat
    BY <1>1, <1>6, <2>2
  <2> QED
    BY <1>7, <1>8, <2>1, <2>3
<1>10. variance <= (now + rate * (Lookahead * Lookahead)) * (q * q)
  <2>1. p * p <= (Lookahead * q) * (Lookahead * q)
    <3>1. Lookahead * q \in Nat
      BY <1>1, <1>6
    <3> QED
      BY <1>6, <3>1, Squares
  <2>2. (p * p) * rate <= ((Lookahead * q) * (Lookahead * q)) * rate
    <3>1. p * p \in Int /\ (Lookahead * q) * (Lookahead * q) \in Int
      BY <1>1, <1>6
    <3> QED
      BY <2>1, <3>1, Products
  <2>3. /\ variance = now * q * q + (p * p) * rate
        /\ (now + rate * (Lookahead * Lookahead)) * (q * q)
                = now * q * q + ((Lookahead * q) * (Lookahead * q)) * rate
    BY <1>1, <1>6
  <2>4. /\ now * q * q \in Int /\ (p * p) * rate \in Int
        /\ ((Lookahead * q) * (Lookahead * q)) * rate \in Int
    BY <1>1, <1>6
  <2> HIDE DEF variance
  <2> QED
    BY <2>2, <2>3, <2>4
<1>11. most * variance <= (spare * q) * (spare * q)
  <2> DEFINE sum == now + rate * (Lookahead * Lookahead)
  <2>1. sum \in Nat /\ variance \in Nat /\ q * q \in Nat
    BY <1>1, <1>6
  <2>2. variance * most <= (sum * (q * q)) * most
    <3>1. sum * (q * q) \in Int
      BY <2>1
    <3> HIDE DEF variance, sum, most
    <3> QED
      BY <1>3, <1>10, <2>1, <3>1, Products DEF sum
  <2>3. most * sum <= spare * spare
    <3>1. now * 1 * 1 + rate * Lookahead * Lookahead = sum
      BY <1>1
    <3> HIDE DEF sum, most
    <3>2. most * sum \in Int /\ spare * spare \in Int
      BY <1>3, <2>1
    <3> QED
      BY <1>4, <3>1, <3>2
  <2> HIDE DEF sum, variance, most
  <2>4. (most * sum) * (q * q) <= (spare * spare) * (q * q)
    <3>1. most * sum \in Int /\ spare * spare \in Int
      BY <1>3, <2>1
    <3> QED
      BY <2>1, <2>3, <3>1, Products
  <2>5. /\ (sum * (q * q)) * most = (most * sum) * (q * q)
        /\ (spare * spare) * (q * q) = (spare * q) * (spare * q)
        /\ variance * most = most * variance
    BY <1>3, <1>6, <2>1
  <2>6. /\ (most * sum) * (q * q) \in Int /\ (spare * q) * (spare * q) \in Int
        /\ most * variance \in Int
    BY <1>3, <1>6, <2>1
  <2> QED
    BY <2>2, <2>4, <2>5, <2>6
<1>12. (spare * q) * (spare * q) <= (miss - Vertical * q) * (miss - Vertical * q)
  <2>1. miss - Vertical * q \in Nat
    <3>1. Vertical * q \in Nat
      BY <1>1, <1>6
    <3> QED
      BY <1>7, <1>9, <3>1
  <2> QED
    BY <1>9, <2>1, Squares
<1>13. miss >= Vertical * q
       /\ (miss - Vertical * q) * (miss - Vertical * q) >= most * variance
  <2>1. Vertical * q \in Int /\ variance \in Int
    BY <1>1, <1>6
  <2>2. /\ (miss - Vertical * q) * (miss - Vertical * q) \in Int
        /\ (spare * q) * (spare * q) \in Int /\ most * variance \in Int
    BY <1>3, <1>7, <1>9, <2>1
  <2> HIDE DEF variance, most
  <2> QED
    BY <1>7, <1>9, <1>11, <1>12, <2>1, <2>2
<1>14. Impossible(miss, Vertical * q, ProjectedVariance(now, rate, p, q))
  BY <1>13 DEF Impossible, ProjectedVariance
<1> QED
  BY <1>5, <1>14 DEF miss, a, v, p, q

-----------------------------------------------------------------------------
(* NoConflictMissed. *)

\* The speeds an aircraft begins with or is told to reach.
SpeedsOf(spec) ==
    {spec.speed}
        \cup {spec.plan[i].target : i \in {j \in DOMAIN spec.plan : spec.plan[j].kind = "speed"}}

\* No two aircraft of a scenario close faster than the grid supposes: separation.py has
\* 1200 kt for the two of them.
NeverTooFast ==
    /\ \A h \in Heading : Size(Unit[h].east) <= 1 /\ Size(Unit[h].north) <= 1
    /\ \A w \in Worlds : \A a, b \in Aircraft : a # b =>
          \A s \in SpeedsOf(w[a]) : \A t \in SpeedsOf(w[b]) : 0 <= s /\ s + t <= MaxClosing

\* An aircraft is between the speeds it had or is to have.
Paced(s, spec) ==
    /\ s.pace.target \in SpeedsOf(spec) /\ s.pace.rate >= 0
    /\ 0 <= s.speed /\ \E v \in SpeedsOf(spec) : s.speed <= v

\* What is known of it is no faster.
SeenSlow(u, spec) ==
    IsFlown(u) /\ \E v \in SpeedsOf(spec) : Size(u.v_east) <= v /\ Size(u.v_north) <= v

SpeedInv ==
    /\ Typed
    /\ \A a \in Aircraft : Paced(truth[a], world[a])
    /\ \A a \in DOMAIN picture : SeenSlow(picture[a], world[a])

\* There are two aircraft, so another one.
LEMMA OtherAircraft ==
    ASSUME NEW a \in Aircraft
    PROVE  \E b \in Aircraft : b # a
<1> SUFFICES ASSUME \A b \in Aircraft : b = a PROVE FALSE
  OBVIOUS
<1>1. Aircraft = {a}
  OBVIOUS
<1>2. Cardinality({a}) = 1
  BY FS_Singleton
<1> QED
  BY <1>1, <1>2, ReplayAssumption

\* Speeds are natural numbers.
LEMMA SpeedsFit ==
    ASSUME NeverTooFast, NEW w \in Worlds, NEW a \in Aircraft, NEW v \in SpeedsOf(w[a])
    PROVE  v \in Nat
<1>1. w[a] \in AircraftSpec
  BY ReplayAssumption
<1>2. v \in Int
  <2>1. CASE v = w[a].speed
    BY <1>1, <2>1 DEF AircraftSpec
  <2>2. CASE v # w[a].speed
    <3>1. PICK i \in DOMAIN w[a].plan : v = w[a].plan[i].target
      BY <2>2 DEF SpeedsOf
    <3>2. w[a].plan[i] \in Command
      BY <1>1 DEF AircraftSpec
    <3> QED
      BY <3>1, <3>2 DEF Command
  <2> QED
    BY <2>1, <2>2
<1>3. PICK b \in Aircraft : b # a
  BY OtherAircraft
<1>4. w[b].speed \in SpeedsOf(w[b])
  BY DEF SpeedsOf
<1>5. 0 <= v
  BY <1>3, <1>4 DEF NeverTooFast
<1> QED
  BY <1>2, <1>5

\* Commands aim at a speed of the plan.
LEMMA CommandsPace ==
    ASSUME NEW s \in AircraftTruth, NEW spec \in AircraftSpec, Paced(s, spec),
           NEW from, NEW to
    PROVE  Paced(Commanded(s, spec.plan, from, to), spec)
<1> DEFINE standing == Standing(spec.plan, "speed", from, to)
           c == Commanded(s, spec.plan, from, to)
<1>1. c.pace = Aim(standing, s.pace) /\ c.speed = s.speed
  BY DEF Commanded, AircraftTruth
<1>2. CASE standing = {}
  <2>1. c.pace = s.pace
    BY <1>1, <1>2 DEF Aim
  <2> QED
    BY <1>1, <2>1 DEF Paced
<1>3. CASE standing # {}
  <2> DEFINE command == CHOOSE command \in standing : TRUE
  <2>1. command \in standing
    BY <1>3
  <2>2. c.pace = [target |-> command.target, rate |-> command.rate]
    BY <1>1, <1>3 DEF Aim
  <2> HIDE DEF command
  <2>3. PICK i \in DOMAIN spec.plan : command = spec.plan[i] /\ spec.plan[i].kind = "speed"
    BY <2>1 DEF Standing
  <2>4. spec.plan \in Seq(Command) /\ command \in Command
    BY <2>3 DEF AircraftSpec
  <2>5. command.rate \in Nat
    BY <2>4 DEF Command
  <2>6. command.target \in SpeedsOf(spec)
    BY <2>3 DEF SpeedsOf
  <2> HIDE DEF c
  <2>7. c.pace.target = command.target /\ c.pace.rate = command.rate
    BY <2>2
  <2> QED
    BY <1>1, <2>5, <2>6, <2>7 DEF Paced, c
<1> QED
  BY <1>2, <1>3

\* A pursuit does not pass what it pursues.
LEMMA Pursued ==
    ASSUME NEW x \in Int, NEW target \in Int, NEW limit \in Int, limit >= 0
    PROVE  LET next == x + Within(target - x, limit)
           IN  (x <= next /\ next <= target) \/ (target <= next /\ next <= x)
BY DEF Within

\* A step of flight leaves the speed between those it had or is to have.
LEMMA FlightPaced ==
    ASSUME NEW s \in AircraftTruth, NEW spec, Paced(s, spec), \A v \in SpeedsOf(spec) : v \in Nat
    PROVE  Paced(Flown(s, 1), spec)
<1> DEFINE f == Flown(s, 1)
           next == s.speed + Within(s.pace.target - s.speed, s.pace.rate * 1)
<1>1. f.pace = s.pace /\ f.speed = next
  BY DEF Flown
<1>2. s.speed \in Int /\ s.pace.rate \in Int /\ s.pace.target \in Nat
  BY DEF AircraftTruth, Pursuit, Paced
<1>3. s.pace.rate >= 0
  BY DEF Paced
<1>4. \/ s.speed <= next /\ next <= s.pace.target
      \/ s.pace.target <= next /\ next <= s.speed
  BY <1>2, <1>3, Pursued
<1>5. next \in Int
  BY <1>2 DEF Within
<1> HIDE DEF next
<1>6. PICK v \in SpeedsOf(spec) : s.speed <= v
  BY DEF Paced
<1>7. 0 <= next /\ (next <= v \/ next <= s.pace.target)
  BY <1>2, <1>4, <1>5, <1>6 DEF Paced
<1> QED
  BY <1>1, <1>6, <1>7 DEF Paced

\* So does a step of the simulator, with the commands due in it.
LEMMA AdvancedPaced ==
    ASSUME NEW s \in AircraftTruth, NEW spec \in AircraftSpec, Paced(s, spec), NEW from \in Nat,
           \A v \in SpeedsOf(spec) : v \in Nat
    PROVE  Paced(Advanced(s, spec, from, 1), spec)
<1> DEFINE c == Commanded(s, spec.plan, from, from + 1)
<1>1. c \in AircraftTruth /\ Paced(c, spec)
  <2>1. spec.plan \in Seq(Command)
    BY DEF AircraftSpec
  <2> QED
    BY <2>1, CommandedFits, CommandsPace
<1>2. CASE from + 1 >= spec.entry
  <2>1. Advanced(s, spec, from, 1) = Flown(c, 1)
    BY <1>2 DEF Advanced
  <2> HIDE DEF c
  <2> QED
    BY <1>1, <2>1, FlightPaced
<1>3. CASE ~ (from + 1 >= spec.entry)
  <2>1. Advanced(s, spec, from, 1) = [c EXCEPT !.airborne = FALSE]
    BY <1>3 DEF Advanced
  <2> HIDE DEF c
  <2>2. [c EXCEPT !.airborne = FALSE].pace = c.pace
        /\ [c EXCEPT !.airborne = FALSE].speed = c.speed
    BY <1>1 DEF AircraftTruth
  <2> QED
    BY <1>1, <2>1, <2>2 DEF Paced
<1> QED
  BY <1>2, <1>3

\* A velocity along a heading is no faster than the speed, along either axis.
LEMMA ComponentsFit ==
    ASSUME NEW speed \in Nat, NEW u \in Int, Size(u) <= 1
    PROVE  speed * u \in Int /\ Size(speed * u) <= speed
<1>1. u \in {-1, 0, 1}
  BY DEF Size
<1>2. speed * (-1) = -speed /\ speed * 0 = 0 /\ speed * 1 = speed
  OBVIOUS
<1> QED
  BY <1>1, <1>2 DEF Size

\* An update tells of a velocity no faster than the speed along either axis.
LEMMA UpdateSlow ==
    ASSUME NeverTooFast, LoopTypeOK, NEW now \in [Aircraft -> AircraftTruth], NEW a \in Aircraft,
           NEW spec, Paced(now[a], spec), \A v \in SpeedsOf(spec) : v \in Nat
    PROVE  SeenSlow(Update(now, a), spec)
<1> DEFINE s == now[a]
           up == Update(now, a)
<1>1. /\ up.v_east = s.speed * Unit[s.heading].east
      /\ up.v_north = s.speed * Unit[s.heading].north
  BY DEF Update, Seen
<1>2. up \in AircraftUpdate
  BY UpdateFits
<1>3. IsFlown(up)
  <2> HIDE DEF up
  <2> QED
    BY <1>2 DEF AircraftUpdate, IsFlown
<1>4. s \in AircraftTruth
  OBVIOUS
<1> HIDE DEF s, up
<1>5. s.speed \in Nat /\ s.heading \in Heading
  <2>1. s.speed \in Int /\ s.heading \in Heading
    BY <1>4 DEF AircraftTruth
  <2> QED
    BY <2>1 DEF Paced, s
<1>6. /\ Unit[s.heading].east \in Int /\ Unit[s.heading].north \in Int
      /\ Size(Unit[s.heading].east) <= 1 /\ Size(Unit[s.heading].north) <= 1
  BY <1>5, SimulationAssumption DEF Heading, NeverTooFast
<1>7. /\ up.v_east \in Int /\ up.v_north \in Int
      /\ Size(up.v_east) <= s.speed /\ Size(up.v_north) <= s.speed
  BY <1>1, <1>5, <1>6, ComponentsFit
<1>8. PICK v \in SpeedsOf(spec) : s.speed <= v
  BY DEF Paced, s
<1>9. v \in Nat /\ Size(up.v_east) \in Int /\ Size(up.v_north) \in Int
  BY <1>7 DEF Size
<1>10. Size(up.v_east) <= v /\ Size(up.v_north) <= v
  BY <1>5, <1>7, <1>8, <1>9
<1>11. SeenSlow(up, spec)
  BY <1>3, <1>10 DEF SeenSlow
<1> QED
  BY <1>11 DEF up

\* How a scenario begins.
LEMMA SpeedInit == ASSUME NeverTooFast PROVE Init => SpeedInv
<1> SUFFICES ASSUME Init PROVE SpeedInv
  OBVIOUS
<1>1. Typed
  BY TypedInit
<1>2. ASSUME NEW a \in Aircraft PROVE Paced(truth[a], world[a])
  <2>1. truth[a] = InitialTruth(world[a]) /\ world \in Worlds
    BY DEF Init
  <2>2. truth[a].pace = [target |-> world[a].speed, rate |-> 1] /\ truth[a].speed = world[a].speed
    BY <2>1 DEF InitialTruth
  <2>3. world[a].speed \in SpeedsOf(world[a])
    BY DEF SpeedsOf
  <2>4. world[a].speed \in Nat
    BY <2>1, <2>3, SpeedsFit
  <2>5. truth[a].pace.target = world[a].speed /\ truth[a].pace.rate = 1
    BY <2>2
  <2> QED
    BY <2>2, <2>3, <2>4, <2>5 DEF Paced
<1>3. DOMAIN picture = {}
  BY DEF Init
<1> QED
  BY <1>1, <1>2, <1>3 DEF SpeedInv

\* A turn of the loop, and what it shows.
LEMMA SpeedStep ==
    ASSUME SpeedInv, NeverTooFast, NEW reporting \in SUBSET Aircraft, Step(Moved, reporting)
    PROVE  SpeedInv'
<1>1. LoopTypeOK /\ SeenTypeOK /\ world \in Worlds /\ world' = world /\ elapsed \in Nat
  BY DEF SpeedInv, Typed, LoopTypeOK, Step
<1>2. Typed'
  BY LoopStep, SeenStep DEF SpeedInv, Typed
<1>3. \A a \in Aircraft : \A v \in SpeedsOf(world[a]) : v \in Nat
  BY <1>1, SpeedsFit
<1>4. ASSUME NEW a \in Aircraft PROVE Paced(Moved[a], world[a])
  <2>1. truth[a] \in AircraftTruth /\ world[a] \in AircraftSpec /\ Paced(truth[a], world[a])
    BY <1>1, ReplayAssumption DEF LoopTypeOK, SpeedInv
  <2>2. Moved[a] = Advanced(truth[a], world[a], elapsed, 1)
    BY DEF Moved
  <2> QED
    BY <1>1, <1>3, <2>1, <2>2, AdvancedPaced
<1>5. truth' = Moved /\ Moved \in [Aircraft -> AircraftTruth]
  BY <1>1, MovedFits DEF Step
<1>6. ASSUME NEW a \in DOMAIN picture' PROVE SeenSlow(picture'[a], world[a])
  <2> DEFINE known == Absorbed(Moved, reporting)
             gone == Stale(known)
  <2>1. /\ DOMAIN known = DOMAIN picture \cup reporting
        /\ \A b \in DOMAIN picture \ reporting : known[b] = picture[b]
        /\ DOMAIN picture' = DOMAIN known \ gone
        /\ \A b \in DOMAIN picture' : picture'[b] = known[b]
    BY KnownFits DEF SpeedInv
  <2>2. \A b \in reporting : known[b] = Update(Moved, b)
    BY DEF Absorbed
  <2> HIDE DEF known, gone
  <2>3. CASE a \in reporting
    <3>1. picture'[a] = Update(Moved, a) /\ a \in Aircraft
      BY <1>6, <2>1, <2>2, <2>3
    <3> QED
      BY <1>1, <1>3, <1>4, <1>5, <3>1, UpdateSlow
  <2>4. CASE a \in DOMAIN picture \ reporting
    BY <1>6, <2>1, <2>4 DEF SpeedInv
  <2> QED
    BY <1>6, <2>1, <2>3, <2>4
<1> QED
  BY <1>1, <1>2, <1>4, <1>5, <1>6 DEF SpeedInv

\* Speeds keep to those of the scenario, in truth and in the picture.
LEMMA SpeedInvCorrect == ASSUME NeverTooFast PROVE Spec => []SpeedInv
<1>1. SpeedInv /\ [Next]_vars => SpeedInv'
  <2> SUFFICES ASSUME SpeedInv, [Next]_vars PROVE SpeedInv'
    OBVIOUS
  <2>1. Typed'
    BY TypedNext DEF SpeedInv
  <2>2. ASSUME NEW reporting \in SUBSET Aircraft, Step(Moved, reporting) PROVE SpeedInv'
    BY <2>2, SpeedStep
  <2>3. ASSUME UNCHANGED <<world, truth, picture>> PROVE SpeedInv'
    BY <2>1, <2>3 DEF SpeedInv
  <2>4. Score \/ UNCHANGED vars => UNCHANGED <<world, truth, picture>>
    BY DEF Score, vars
  <2> QED
    BY <2>2, <2>3, <2>4 DEF Next
<1> QED
  BY <1>1, SpeedInit, PTL DEF Spec

\* Two aircraft of the picture close no faster than is supposed.
LEMMA ClosingFits ==
    ASSUME SpeedInv, NeverTooFast, NEW i \in DOMAIN picture, NEW j \in DOMAIN picture, i # j
    PROVE  /\ Size(Between(i, j).v_east) <= MaxClosing
           /\ Size(Between(i, j).v_north) <= MaxClosing
<1>1. i \in Aircraft /\ j \in Aircraft /\ world \in Worlds /\ MaxClosing \in Nat
  BY SeparationAssumption DEF SpeedInv, Typed, LoopTypeOK, SeenTypeOK
<1>2. SeenSlow(picture[i], world[i]) /\ SeenSlow(picture[j], world[j])
  BY DEF SpeedInv
<1>3. PICK s \in SpeedsOf(world[i]) :
         Size(picture[i].v_east) <= s /\ Size(picture[i].v_north) <= s
  BY <1>2 DEF SeenSlow
<1>4. PICK t \in SpeedsOf(world[j]) :
         Size(picture[j].v_east) <= t /\ Size(picture[j].v_north) <= t
  BY <1>2 DEF SeenSlow
<1>5. s \in Nat /\ t \in Nat
  BY <1>1, SpeedsFit
<1>6. s + t <= MaxClosing
  BY <1>1 DEF NeverTooFast
<1>7. ASSUME NEW x \in Int, NEW y \in Int, Size(x) <= s, Size(y) <= t
      PROVE  Size(y - x) <= MaxClosing
  BY <1>1, <1>5, <1>6, <1>7 DEF Size
<1>8. /\ picture[i].v_east \in Int /\ picture[i].v_north \in Int
      /\ picture[j].v_east \in Int /\ picture[j].v_north \in Int
  BY <1>2 DEF SeenSlow, IsFlown
<1>9. /\ Between(i, j).v_east = picture[j].v_east - picture[i].v_east
      /\ Between(i, j).v_north = picture[j].v_north - picture[i].v_north
  BY DEF Between, Relative
<1> QED
  BY <1>3, <1>4, <1>7, <1>8, <1>9

\* No pair of the picture that straight flight brings below both standards within the
\* lookahead is left out of a scan, if no two aircraft close faster than the grid of
\* separation.py supposes; nor does the rejection by uncertainty discard a breach.
THEOREM NoConflictMissedCorrect == ASSUME NeverTooFast PROVE Spec => []NoConflictMissed
<1>1. SpeedInv => NoConflictMissed
  <2> SUFFICES ASSUME SpeedInv, NEW i \in Eligible(picture), NEW j \in Eligible(picture), i # j
               PROVE  /\ BreachIsScanned(i, j)
                      /\ \A now, rate \in Variances : RejectionIsExact(Between(i, j), now, rate)
    BY DEF NoConflictMissed
  <2>1. i \in DOMAIN picture /\ j \in DOMAIN picture /\ Eligible(picture) \subseteq DOMAIN picture
    BY DEF Eligible
  <2>2. \A k \in Eligible(picture) : IsFlown(picture[k])
    BY <2>1 DEF SpeedInv, SeenSlow
  <2>3. IsFiniteSet(DOMAIN picture)
    BY ReplayAssumption, FS_Subset DEF SpeedInv, Typed, SeenTypeOK
  <2>4. /\ Size(Between(i, j).v_east) <= MaxClosing
        /\ Size(Between(i, j).v_north) <= MaxClosing
    BY <2>1, ClosingFits
  <2>5. Finest \in Nat /\ Finest > 0 /\ Lookahead \in Nat
    BY ReplayAssumption, SeparationAssumption
  <2>6. ASSUME NEW n \in 0..(Lookahead * Finest),
               BreachAt(Between(i, j), n, Finest, Horizontal * Finest)
        PROVE  {i, j} \in Scan(picture)
    <3>1. n \in Nat /\ n <= Lookahead * Finest
      BY <2>5
    <3>2. LET r == Relative(picture[i], picture[j])
          IN  Size(r.v_east) <= MaxClosing /\ Size(r.v_north) <= MaxClosing
      BY <2>4 DEF Between
    <3>3. LET r == Relative(picture[i], picture[j])
              east == r.east * Finest + r.v_east * n
              north == r.north * Finest + r.v_north * n
          IN  /\ east * east + north * north < (Horizontal * Finest) * (Horizontal * Finest)
              /\ Size(r.altitude * Finest + r.v_altitude * n) < Vertical * Finest
      BY <2>6 DEF Between, BreachAt
    <3> QED
      BY <2>2, <2>3, <2>5, <3>1, <3>2, <3>3, SeparationAssumption, ScanMissesNothing
  <2>7. ASSUME NEW now \in Variances, NEW rate \in Variances
        PROVE  RejectionIsExact(Between(i, j), now, rate)
    <3>1. now \in Nat /\ rate \in Nat
      BY ReplayAssumption
    <3>2. Between(i, j) \in Geometry
      BY <2>2, RelativeFits DEF Between
    <3> QED
      BY <3>1, <3>2, SeparationAssumption, RejectionLosesNothing DEF RejectionIsExact
  <2> QED
    BY <2>6, <2>7 DEF BreachIsScanned
<1> QED
  BY <1>1, SpeedInvCorrect, PTL

-----------------------------------------------------------------------------
(* NoConflictInvented.  An open window has a rational instant in it, or one  *)
(* of its rational ends will do; and no instant is far from a sampled one.   *)

\* What is after the later of two instants is after both, the first with a root or not.
LEMMA AfterLater ==
    ASSUME NEW x \in LowEnd, NEW z \in LowEnd, z \in Rational, NEW y \in Finite,
           Earlier(Later(x, z), y)
    PROVE  Earlier(x, y) /\ Earlier(z, y)
<1>1. /\ y \in Rational /\ y.q > 0 /\ y.p \in Int /\ y.q \in Nat
      /\ z.p \in Int /\ z.q \in Nat /\ (z.q = 0 => z.p < 0)
  BY RationalOrRoot DEF Finite, Rational, LowEnd, RootOf
<1>2. CASE x \in RootOf(-1)
  <2>1. ASSUME Earlier(x, z), Earlier(z, y) PROVE Earlier(x, y)
    <3>1. z.q # 0
      <4> SUFFICES ASSUME z.q = 0 PROVE FALSE
        OBVIOUS
      <4> DEFINE ahead == x.p * z.q - z.p * x.q
      <4>1. BelowRoot(ahead, z.q, x.d)
        BY <1>2, <2>1, LowRootCompares
      <4>2. x.p \in Int /\ x.q \in Nat /\ x.q > 0
        BY <1>2 DEF RootOf
      <4>3. z.p * x.q < 0 * x.q
        BY <1>1, <4>2, StrictProducts
      <4>4. ahead > 0 /\ ahead \in Int
        BY <1>1, <4>2, <4>3
      <4> HIDE DEF ahead
      <4> QED
        BY <4>1, <4>4 DEF BelowRoot
    <3>2. z \in Finite
      BY <1>1, <3>1 DEF Finite
    <3>3. NoLater(z, y)
      <4>1. ~ NoLater(y, z)
        BY <1>1, <2>1, EarlierIsNotNoLater
      <4>2. z.p * y.q \in Int /\ y.p * z.q \in Int
        BY <1>1
      <4> QED
        BY <4>1, <4>2 DEF NoLater
    <3> QED
      BY <1>1, <1>2, <2>1, <3>2, <3>3, LowRootSooner
  <2>2. ASSUME ~ Earlier(x, z), Earlier(x, y) PROVE Earlier(z, y)
    <3> SUFFICES ASSUME NoLater(y, z) PROVE FALSE
      BY <1>1, EarlierIsNotNoLater
    <3> QED
      BY <1>2, <2>2, LowRootSooner
  <2> QED
    BY <2>1, <2>2 DEF Later
<1>3. CASE x \in Rational
  <2>1. ASSUME Earlier(x, z), Earlier(z, y) PROVE Earlier(x, y)
    <3> SUFFICES ASSUME NoLater(y, x) PROVE FALSE
      BY <1>1, <1>3, EarlierIsNotNoLater
    <3>1. NoLater(z, y)
      <4>1. ~ NoLater(y, z)
        BY <1>1, <2>1, EarlierIsNotNoLater
      <4>2. z.p * y.q \in Int /\ y.p * z.q \in Int
        BY <1>1
      <4> QED
        BY <4>1, <4>2 DEF NoLater
    <3>2. z.q > 0
      <4> SUFFICES ASSUME z.q = 0 PROVE FALSE
        BY <1>1
      <4>1. x.p * z.q < z.p * x.q
        BY <1>3, <2>1, RationalsCompare
      <4>2. x.p \in Int /\ x.q \in Nat
        BY <1>3 DEF Rational
      <4>3. z.p * x.q <= 0 * x.q
        BY <1>1, <4>2, Products
      <4> QED
        BY <1>1, <4>1, <4>2, <4>3
    <3>3. NoLater(z, x)
      BY <1>1, <1>3, <3>1, <3>2, NoLaterChain
    <3> QED
      BY <1>3, <2>1, <3>3, EarlierIsNotNoLater
  <2>2. ASSUME ~ Earlier(x, z), Earlier(x, y) PROVE Earlier(z, y)
    <3> SUFFICES ASSUME NoLater(y, z) PROVE FALSE
      BY <1>1, EarlierIsNotNoLater
    <3>1. NoLater(z, x)
      BY <1>3, <2>2, EarlierIsNotNoLater
    <3>2. z.q > 0
      <4> SUFFICES ASSUME z.q = 0 PROVE FALSE
        BY <1>1
      <4>1. y.p * z.q <= z.p * y.q
        BY DEF NoLater
      <4>2. z.p * y.q < 0 * y.q
        BY <1>1, StrictProducts
      <4> QED
        BY <1>1, <4>1, <4>2
    <3>3. z \in Finite
      BY <3>2 DEF Finite
    <3>4. NoLater(y, x)
      BY <1>1, <1>3, <3>1, <3>3, NoLaterChain
    <3> QED
      BY <1>1, <1>3, <2>2, <3>4, EarlierIsNotNoLater
  <2> QED
    BY <2>1, <2>2 DEF Later
<1> QED
  BY <1>2, <1>3, RationalOrRoot

\* What is before the sooner of two is before both.
LEMMA BeforeSooner ==
    ASSUME NEW x \in HighEnd, NEW z \in HighEnd, z \in Rational, NEW y \in Finite,
           Earlier(y, Sooner(x, z))
    PROVE  Earlier(y, x) /\ Earlier(y, z)
<1>1. /\ y \in Rational /\ y.q > 0 /\ y.p \in Int /\ y.q \in Nat
      /\ z.p \in Int /\ z.q \in Nat /\ (z.q = 0 => z.p > 0)
  BY RationalOrRoot DEF Finite, Rational, HighEnd, RootOf
<1>2. CASE x \in RootOf(1)
  <2>1. ASSUME Earlier(z, x), Earlier(y, z) PROVE Earlier(y, x)
    <3>1. z.q # 0
      <4> SUFFICES ASSUME z.q = 0 PROVE FALSE
        OBVIOUS
      <4> DEFINE ahead == z.p * x.q - x.p * z.q
      <4>1. BelowRoot(ahead, z.q, x.d)
        BY <1>2, <2>1, HighRootCompares
      <4>2. x.p \in Int /\ x.q \in Nat /\ x.q > 0
        BY <1>2 DEF RootOf
      <4>3. 0 * x.q < z.p * x.q
        BY <1>1, <4>2, StrictProducts
      <4>4. ahead > 0 /\ ahead \in Int
        BY <1>1, <4>2, <4>3
      <4> HIDE DEF ahead
      <4> QED
        BY <4>1, <4>4 DEF BelowRoot
    <3>2. z \in Finite
      BY <1>1, <3>1 DEF Finite
    <3>3. NoLater(y, z)
      <4>1. ~ NoLater(z, y)
        BY <1>1, <2>1, EarlierIsNotNoLater
      <4>2. z.p * y.q \in Int /\ y.p * z.q \in Int
        BY <1>1
      <4> QED
        BY <4>1, <4>2 DEF NoLater
    <3> QED
      BY <1>1, <1>2, <2>1, <3>2, <3>3, HighRootLater
  <2>2. ASSUME ~ Earlier(z, x), Earlier(y, x) PROVE Earlier(y, z)
    <3> SUFFICES ASSUME NoLater(z, y) PROVE FALSE
      BY <1>1, EarlierIsNotNoLater
    <3> QED
      BY <1>2, <2>2, HighRootLater
  <2> QED
    BY <2>1, <2>2 DEF Sooner
<1>3. CASE x \in Rational
  <2>1. ASSUME Earlier(z, x), Earlier(y, z) PROVE Earlier(y, x)
    <3> SUFFICES ASSUME NoLater(x, y) PROVE FALSE
      BY <1>1, <1>3, EarlierIsNotNoLater
    <3>1. NoLater(y, z)
      <4>1. ~ NoLater(z, y)
        BY <1>1, <2>1, EarlierIsNotNoLater
      <4>2. z.p * y.q \in Int /\ y.p * z.q \in Int
        BY <1>1
      <4> QED
        BY <4>1, <4>2 DEF NoLater
    <3>2. z.q > 0
      <4> SUFFICES ASSUME z.q = 0 PROVE FALSE
        BY <1>1
      <4>1. z.p * x.q < x.p * z.q
        BY <1>3, <2>1, RationalsCompare
      <4>2. x.p \in Int /\ x.q \in Nat
        BY <1>3 DEF Rational
      <4>3. 0 * x.q <= z.p * x.q
        BY <1>1, <4>2, Products
      <4> QED
        BY <1>1, <4>1, <4>2, <4>3
    <3>3. NoLater(x, z)
      BY <1>1, <1>3, <3>1, <3>2, NoLaterChain
    <3> QED
      BY <1>3, <2>1, <3>3, EarlierIsNotNoLater
  <2>2. ASSUME ~ Earlier(z, x), Earlier(y, x) PROVE Earlier(y, z)
    <3> SUFFICES ASSUME NoLater(z, y) PROVE FALSE
      BY <1>1, EarlierIsNotNoLater
    <3>1. NoLater(x, z)
      BY <1>3, <2>2, EarlierIsNotNoLater
    <3>2. z.q > 0
      <4> SUFFICES ASSUME z.q = 0 PROVE FALSE
        BY <1>1
      <4>1. z.p * y.q <= y.p * z.q
        BY DEF NoLater
      <4>2. 0 * y.q < z.p * y.q
        BY <1>1, StrictProducts
      <4> QED
        BY <1>1, <4>1, <4>2
    <3>3. z \in Finite
      BY <3>2 DEF Finite
    <3>4. NoLater(x, y)
      BY <1>1, <1>3, <3>1, <3>3, NoLaterChain
    <3> QED
      BY <1>1, <1>3, <2>2, <3>4, EarlierIsNotNoLater
  <2> QED
    BY <2>1, <2>2 DEF Sooner
<1> QED
  BY <1>2, <1>3, RationalOrRoot

\* Between two finite instants there is another.
LEMMA Halfway ==
    ASSUME NEW x \in Finite, NEW y \in Finite, Earlier(x, y)
    PROVE  \E t \in Finite : Earlier(x, t) /\ Earlier(t, y)
<1> DEFINE t == [p |-> x.p * y.q + y.p * x.q, k |-> 0, d |-> 0, q |-> 2 * (x.q * y.q)]
<1>1. /\ x.p \in Int /\ x.q \in Nat /\ x.q > 0 /\ y.p \in Int /\ y.q \in Nat /\ y.q > 0
      /\ x \in Rational /\ y \in Rational
  BY DEF Finite, Rational
<1>2. t \in Finite /\ t \in Rational
  <2>1. x.q * y.q \in Nat /\ x.q * y.q > 0 /\ t.p \in Int
    BY <1>1
  <2>2. t.q \in Nat /\ t.q > 0
    BY <2>1
  <2> QED
    BY <2>1, <2>2 DEF Finite, Rational
<1>3. x.p * y.q < y.p * x.q /\ x.p * y.q \in Int /\ y.p * x.q \in Int
  BY <1>1, RationalsCompare
<1>4. x.p * t.q < t.p * x.q
  <2>1. (x.p * y.q) * x.q < (y.p * x.q) * x.q
    BY <1>1, <1>3, StrictProducts
  <2>2. x.p * t.q = 2 * ((x.p * y.q) * x.q)
    BY <1>1
  <2>3. t.p * x.q = (x.p * y.q) * x.q + (y.p * x.q) * x.q
    BY <1>1
  <2>4. (x.p * y.q) * x.q \in Int /\ (y.p * x.q) * x.q \in Int
    BY <1>1
  <2> QED
    BY <2>1, <2>2, <2>3, <2>4
<1>5. t.p * y.q < y.p * t.q
  <2>1. (x.p * y.q) * y.q < (y.p * x.q) * y.q
    BY <1>1, <1>3, StrictProducts
  <2>2. y.p * t.q = 2 * ((y.p * x.q) * y.q)
    BY <1>1
  <2>3. t.p * y.q = (x.p * y.q) * y.q + (y.p * x.q) * y.q
    BY <1>1
  <2>4. (x.p * y.q) * y.q \in Int /\ (y.p * x.q) * y.q \in Int
    BY <1>1
  <2> QED
    BY <2>1, <2>2, <2>3, <2>4
<1> HIDE DEF t
<1>6. Earlier(x, t) /\ Earlier(t, y)
  BY <1>1, <1>2, <1>4, <1>5, RationalsCompare
<1> QED
  BY <1>2, <1>6

\* Midway between the roots there is one without a root.
LEMMA CentreOfRoots ==
    ASSUME NEW y \in RootOf(1)
    PROVE  \E t \in Finite : Earlier([y EXCEPT !.k = -1], t) /\ Earlier(t, y)
<1> DEFINE x == [y EXCEPT !.k = -1]
           t == [p |-> y.p, k |-> 0, d |-> 0, q |-> y.q]
<1>1. /\ y.p \in Int /\ y.q \in Nat /\ y.q > 0 /\ y.d \in Nat /\ y.d > 0
      /\ x.p = y.p /\ x.q = y.q /\ x.d = y.d /\ x \in RootOf(-1)
  BY DEF RootOf
<1>2. t \in Finite /\ t \in Rational /\ t.p = y.p /\ t.q = y.q
  BY <1>1 DEF Finite, Rational
<1>3. BelowRoot(0, y.q, y.d)
  <2>1. 0 * y.d < (y.q * y.q) * y.d
    <3>1. y.q * y.q \in Nat /\ y.q * y.q > 0
      BY <1>1
    <3> QED
      BY <1>1, <3>1, StrictProducts
  <2> QED
    BY <1>1, <2>1 DEF BelowRoot
<1>4. x.p * t.q - t.p * x.q = 0 /\ t.p * y.q - y.p * t.q = 0
  BY <1>1, <1>2
<1> HIDE DEF x, t
<1>5. Earlier(x, t)
  BY <1>1, <1>2, <1>3, <1>4, LowRootCompares
<1>6. Earlier(t, y)
  BY <1>1, <1>2, <1>3, <1>4, HighRootCompares
<1> QED
  BY <1>2, <1>5, <1>6 DEF x

\* An instant inside the first of two windows, and inside the second or on an edge of
\* it: on the lower edge if it is to be rounded up, on the upper edge if down.
TimeWithin(t, f, s) ==
    /\ Earlier(f.low, t) /\ Earlier(t, f.high)
    /\ NoLater(Instant(0), t) /\ NoLater(t, Instant(Lookahead))
    /\ \/ NoLater(s.low, t) /\ Earlier(t, s.high)
       \/ Earlier(s.low, t) /\ NoLater(t, s.high)

\* What lies strictly within an overlap lies within both windows.
LEMMA WithinOverlap ==
    ASSUME SeparationAssumption, NEW f \in Ends, NEW s \in RationalEnds, NEW t \in Finite
    PROVE  /\ Earlier(Overlap(f, s).low, t) =>
                  Earlier(f.low, t) /\ Earlier(s.low, t) /\ NoLater(Instant(0), t)
           /\ Earlier(t, Overlap(f, s).high) =>
                  Earlier(t, f.high) /\ Earlier(t, s.high) /\ NoLater(t, Instant(Lookahead))
<1> DEFINE inner == Later(f.low, s.low)
           outer == Sooner(f.high, s.high)
           now == Instant(0)
           last == Instant(Lookahead)
<1>1. Overlap(f, s).low = Later(inner, now) /\ Overlap(f, s).high = Sooner(outer, last)
  BY DEF Overlap
<1>2. /\ f.low \in LowEnd /\ s.low \in LowEnd /\ s.low \in Rational
      /\ f.high \in HighEnd /\ s.high \in HighEnd /\ s.high \in Rational
  BY DEF Ends, RationalEnds
<1>3. inner \in LowEnd /\ outer \in HighEnd
  BY <1>2 DEF Later, Sooner
<1>4. /\ now \in Finite /\ now \in Rational /\ now \in LowEnd
      /\ last \in Finite /\ last \in Rational /\ last \in HighEnd /\ t \in Rational
  BY InstantsAreFinite DEF SeparationAssumption, Finite, LowEnd, HighEnd
<1> HIDE DEF now, last
<1>5. ASSUME Earlier(Later(inner, now), t)
      PROVE  Earlier(f.low, t) /\ Earlier(s.low, t) /\ Earlier(now, t)
  <2>1. Earlier(inner, t) /\ Earlier(now, t)
    <3> HIDE DEF inner
    <3> QED
      BY <1>3, <1>4, <1>5, AfterLater
  <2> QED
    BY <1>2, <2>1, AfterLater
<1>6. ASSUME Earlier(t, Sooner(outer, last))
      PROVE  Earlier(t, f.high) /\ Earlier(t, s.high) /\ Earlier(t, last)
  <2>1. Earlier(t, outer) /\ Earlier(t, last)
    <3> HIDE DEF outer
    <3> QED
      BY <1>3, <1>4, <1>6, BeforeSooner
  <2> QED
    BY <1>2, <2>1, BeforeSooner
<1>7. /\ Earlier(now, t) => NoLater(now, t)
      /\ Earlier(t, last) => NoLater(t, last)
  <2>1. /\ now.p * t.q \in Int /\ t.p * now.q \in Int
        /\ t.p * last.q \in Int /\ last.p * t.q \in Int
    BY <1>4 DEF Rational
  <2> QED
    BY <1>4, <2>1, RationalsCompare DEF NoLater
<1> HIDE DEF inner, outer
<1> QED
  BY <1>1, <1>5, <1>6, <1>7 DEF now, last

\* The rational ends an overlap is cut to are no sooner, or no later.
LEMMA CutByRationals ==
    ASSUME SeparationAssumption, NEW f \in Ends, NEW s \in RationalEnds
    PROVE  /\ Overlap(f, s).low \in Finite =>
                  /\ NoLater(s.low, Overlap(f, s).low)
                  /\ NoLater(Instant(0), Overlap(f, s).low)
           /\ Overlap(f, s).high \in Finite =>
                  /\ NoLater(Overlap(f, s).high, s.high)
                  /\ NoLater(Overlap(f, s).high, Instant(Lookahead))
<1> DEFINE low == Overlap(f, s).low
           high == Overlap(f, s).high
<1>1. Instant(0) \in Finite /\ Instant(Lookahead) \in Finite
  BY InstantsAreFinite DEF SeparationAssumption
<1>2. /\ s.low \in Rational /\ s.low.p \in Int /\ s.low.q \in Nat /\ (s.low.q = 0 => s.low.p < 0)
      /\ s.high \in Rational /\ s.high.p \in Int /\ s.high.q \in Nat
      /\ (s.high.q = 0 => s.high.p > 0)
  <2>1. s.low \in LowEnd \cap Rational /\ s.high \in HighEnd \cap Rational
    BY DEF RationalEnds, Ends
  <2>2. s.low \notin RootOf(-1) /\ s.high \notin RootOf(1)
    BY <2>1, RationalOrRoot
  <2> QED
    BY <2>1, <2>2 DEF LowEnd, HighEnd, Rational
<1>3. ASSUME low \in Finite, NEW z \in Finite, z \in {s.low, Instant(0)} PROVE NoLater(z, low)
  <2>1. ~ Earlier(low, z)
    BY <1>3, BeginsNoSooner
  <2> HIDE DEF low
  <2> QED
    BY <1>3, <2>1, EarlierIsNotNoLater DEF Finite
<1>4. ASSUME high \in Finite, NEW w \in Finite, w \in {s.high, Instant(Lookahead)}
      PROVE  NoLater(high, w)
  <2>1. ~ Earlier(w, high)
    BY <1>4, EndsNoLater
  <2> HIDE DEF high
  <2> QED
    BY <1>4, <2>1, EarlierIsNotNoLater DEF Finite
<1>5. ASSUME low \in Finite, s.low.q = 0 PROVE NoLater(s.low, low)
  <2>1. low.p \in Int /\ low.q \in Nat
    BY <1>5 DEF Finite, Rational
  <2> HIDE DEF low
  <2>2. s.low.p * low.q <= 0 * low.q
    BY <1>2, <1>5, <2>1, Products
  <2> QED
    BY <1>5, <2>1, <2>2 DEF NoLater
<1>6. ASSUME high \in Finite, s.high.q = 0 PROVE NoLater(high, s.high)
  <2>1. high.p \in Int /\ high.q \in Nat
    BY <1>6 DEF Finite, Rational
  <2> HIDE DEF high
  <2>2. 0 * high.q <= s.high.p * high.q
    BY <1>2, <1>6, <2>1, Products
  <2> QED
    BY <1>6, <2>1, <2>2 DEF NoLater
<1>7. (s.low.q # 0 => s.low \in Finite) /\ (s.high.q # 0 => s.high \in Finite)
  BY <1>2 DEF Finite
<1> HIDE DEF low, high
<1> QED
  BY <1>1, <1>3, <1>4, <1>5, <1>6, <1>7 DEF low, high

\* An overlap that is open has a time of that kind.
LEMMA OpenOverlapHasTime ==
    ASSUME SeparationAssumption, NEW f \in Ends, NEW s \in RationalEnds, IsSome(Overlap(f, s))
    PROVE  \E t \in Finite : TimeWithin(t, f, s)
<1> DEFINE low == Overlap(f, s).low
           high == Overlap(f, s).high
<1>1. /\ low \in {f.low, s.low, Instant(0)} /\ low \in Finite \cup RootOf(-1)
      /\ high \in {f.high, s.high, Instant(Lookahead)} /\ high \in Finite \cup RootOf(1)
  BY OverlapEnds
<1>2. Earlier(low, high)
  BY DEF IsSome
<1>3. /\ Instant(0) \in Finite /\ Instant(Lookahead) \in Finite
      /\ s.low \in Rational /\ s.high \in Rational
      /\ s.low \notin RootOf(-1) /\ s.high \notin RootOf(1)
  BY InstantsAreFinite, RationalOrRoot DEF SeparationAssumption, RationalEnds
<1>4. /\ low \in RootOf(-1) => low = f.low
      /\ high \in RootOf(1) => high = f.high
  BY <1>1, <1>3, RationalOrRoot DEF Finite
<1>5. ASSUME NEW t \in Finite
      PROVE  /\ Earlier(low, t) => Earlier(f.low, t) /\ Earlier(s.low, t) /\ NoLater(Instant(0), t)
             /\ Earlier(t, high) =>
                    Earlier(t, f.high) /\ Earlier(t, s.high) /\ NoLater(t, Instant(Lookahead))
  BY WithinOverlap
<1>6. /\ low \in Finite => NoLater(s.low, low) /\ NoLater(Instant(0), low)
      /\ high \in Finite => NoLater(high, s.high) /\ NoLater(high, Instant(Lookahead))
  BY CutByRationals
<1> HIDE DEF low, high
<1>7. ASSUME NEW t \in Finite, Earlier(low, t), Earlier(t, high) PROVE TimeWithin(t, f, s)
  <2>1. /\ Earlier(f.low, t) /\ Earlier(s.low, t) /\ NoLater(Instant(0), t)
        /\ Earlier(t, f.high) /\ Earlier(t, s.high) /\ NoLater(t, Instant(Lookahead))
    BY <1>5, <1>7
  <2>2. NoLater(s.low, t)
    <3>1. t \in Rational /\ s.low.p * t.q \in Int /\ t.p * s.low.q \in Int
      BY <1>3 DEF Finite, Rational
    <3> QED
      BY <1>3, <2>1, <3>1, RationalsCompare DEF NoLater
  <2> QED
    BY <2>1, <2>2 DEF TimeWithin
<1>8. CASE low \in Finite /\ high \in Finite
  BY <1>2, <1>7, <1>8, Halfway
<1>9. ASSUME low \in RootOf(-1) \/ high \in RootOf(1)
      PROVE  \E t \in Finite : Earlier(f.low, t) /\ Earlier(t, f.high)
                               /\ f.low \in RootOf(-1) /\ f.high \in RootOf(1)
  <2>1. f.low \in RootOf(-1) /\ f.high \in RootOf(1) /\ f.low = [f.high EXCEPT !.k = -1]
    BY <1>4, <1>9 DEF Ends
  <2> QED
    BY <2>1, CentreOfRoots
<1>10. CASE low \in RootOf(-1) /\ high \in RootOf(1)
  BY <1>4, <1>7, <1>9, <1>10
<1>11. CASE low \in RootOf(-1) /\ high \in Finite
  <2>1. PICK t \in Finite : /\ Earlier(f.low, t) /\ Earlier(t, f.high)
                            /\ f.low \in RootOf(-1) /\ f.high \in RootOf(1)
    BY <1>9, <1>11
  <2>2. CASE Earlier(t, high)
    BY <1>4, <1>7, <1>11, <2>1, <2>2
  <2>3. CASE ~ Earlier(t, high)
    <3>1. NoLater(high, t)
      BY <1>11, <2>3, EarlierIsNotNoLater DEF Finite
    <3>2. Earlier(high, f.high)
      BY <1>11, <2>1, <3>1, HighRootLater DEF Finite
    <3>3. Earlier(f.low, high) /\ Earlier(s.low, high) /\ NoLater(Instant(0), high)
      BY <1>2, <1>5, <1>11
    <3>4. TimeWithin(high, f, s)
      BY <1>6, <1>11, <3>2, <3>3 DEF TimeWithin
    <3> QED
      BY <1>11, <3>4
  <2> QED
    BY <2>2, <2>3
<1>12. CASE low \in Finite /\ high \in RootOf(1)
  <2>1. PICK t \in Finite : /\ Earlier(f.low, t) /\ Earlier(t, f.high)
                            /\ f.low \in RootOf(-1) /\ f.high \in RootOf(1)
    BY <1>9, <1>12
  <2>2. CASE Earlier(low, t)
    BY <1>4, <1>7, <1>12, <2>1, <2>2
  <2>3. CASE ~ Earlier(low, t)
    <3>1. NoLater(t, low)
      BY <1>12, <2>3, EarlierIsNotNoLater DEF Finite
    <3>2. Earlier(f.low, low)
      BY <1>12, <2>1, <3>1, LowRootSooner DEF Finite
    <3>3. Earlier(low, f.high) /\ Earlier(low, s.high) /\ NoLater(low, Instant(Lookahead))
      BY <1>2, <1>5, <1>12
    <3>4. TimeWithin(low, f, s)
      BY <1>6, <1>12, <3>2, <3>3 DEF TimeWithin
    <3> QED
      BY <1>12, <3>4
  <2> QED
    BY <2>2, <2>3
<1> QED
  BY <1>1, <1>8, <1>10, <1>11, <1>12

\* An instant between the roots is one where the quadratic is negative.
LEMMA BetweenRoots ==
    ASSUME NEW a \in Nat, NEW b \in Int, NEW c \in Int, a = 0 => b = 0,
           NEW n \in Int, NEW m \in Nat, m > 0,
           Earlier(QuadraticBelow(a, b, c).low, Ratio(n, m)),
           Earlier(Ratio(n, m), QuadraticBelow(a, b, c).high)
    PROVE  a * n * n + b * n * m + c * m * m < 0
<1> DEFINE t == Ratio(n, m)
           discriminant == b * b - 4 * a * c
           Root(sign) == [p |-> -b, k |-> sign, d |-> discriminant, q |-> 2 * a]
           value == a * n * n + b * n * m + c * m * m
           slope == 2 * a * n + b * m
<1>1. t \in Finite /\ t \in Rational /\ t.p = n /\ t.q = m
  BY RatiosAreFinite DEF Finite
<1>2. QuadraticBelow(a, b, c) # Never
  <2> SUFFICES ASSUME QuadraticBelow(a, b, c) = Never PROVE FALSE
    OBVIOUS
  <2>1. Earlier(Instant(1), t) /\ Earlier(t, Instant(0))
    BY DEF Never
  <2>2. /\ Instant(1) \in Rational /\ Instant(1).p = 1 /\ Instant(1).q = 1
        /\ Instant(0) \in Rational /\ Instant(0).p = 0 /\ Instant(0).q = 1
    BY InstantsAreFinite DEF Finite
  <2> HIDE DEF t
  <2>3. 1 * m < n * 1 /\ n * 1 < 0 * m
    BY <1>1, <2>1, <2>2, RationalsCompare
  <2> QED
    BY <2>3
<1>3. CASE a = 0
  <2>1. c < 0
    BY <1>2, <1>3 DEF QuadraticBelow
  <2>2. m * m \in Nat /\ m * m > 0
    BY SquaresArePositive
  <2>3. c * (m * m) < 0 * (m * m)
    BY <2>1, <2>2, StrictProducts
  <2>4. 0 * n * n + 0 * n * m + c * m * m = c * (m * m)
    OBVIOUS
  <2> QED
    BY <1>3, <2>2, <2>3, <2>4
<1>4. CASE a # 0
  <2>1. slope * slope = (4 * a) * value + discriminant * (m * m)
    OBVIOUS
  <2>2. value \in Int /\ slope \in Int /\ discriminant \in Int /\ m * m \in Nat /\ m * m > 0
    BY SquaresArePositive
  <2>3. discriminant > 0 /\ QuadraticBelow(a, b, c) = [low |-> Root(-1), high |-> Root(1)]
    BY <1>2, <1>4, <2>2 DEF QuadraticBelow
  <2>4. discriminant \in Nat \ {0} /\ 2 * a \in Nat \ {0} /\ -b \in Int
    BY <1>4, <2>2, <2>3
  <2>5. Root(-1) \in RootOf(-1) /\ Root(1) \in RootOf(1)
    <3> HIDE DEF discriminant
    <3> QED
      BY <2>4 DEF RootOf
  <2>6. BelowRoot(-slope, m, discriminant)
    <3>1. (-b) * m - n * (2 * a) = -slope
      OBVIOUS
    <3>2. Earlier(Root(-1), t)
      BY <2>3
    <3>3. Earlier(Root(-1), t) <=> BelowRoot((-b) * m - n * (2 * a), m, discriminant)
      <4> HIDE DEF discriminant, t
      <4> QED
        BY <1>1, <2>5, LowRootCompares
    <3> HIDE DEF slope, discriminant, t
    <3> QED
      BY <3>1, <3>2, <3>3
  <2>7. BelowRoot(slope, m, discriminant)
    <3>1. n * (2 * a) - (-b) * m = slope
      OBVIOUS
    <3>2. Earlier(t, Root(1))
      BY <2>3
    <3>3. Earlier(t, Root(1)) <=> BelowRoot(n * (2 * a) - (-b) * m, m, discriminant)
      <4> HIDE DEF discriminant, t
      <4> QED
        BY <1>1, <2>5, HighRootCompares
    <3> HIDE DEF slope, discriminant, t
    <3> QED
      BY <3>1, <3>2, <3>3
  <2>8. slope * slope < discriminant * (m * m)
    <3>1. m * m * discriminant = discriminant * (m * m)
      BY <2>2
    <3> HIDE DEF slope, discriminant
    <3>2. (-slope) * (-slope) = slope * slope
      BY <2>2
    <3>3. slope * slope < m * m * discriminant
      BY <2>2, <2>6, <2>7, <3>2 DEF BelowRoot
    <3> QED
      BY <3>1, <3>3
  <2>9. (4 * a) * value < 0
    <3>1. (4 * a) * value \in Int /\ slope * slope \in Int /\ discriminant * (m * m) \in Int
      OBVIOUS
    <3> HIDE DEF value, slope, discriminant
    <3> QED
      BY <2>1, <2>8, <3>1
  <2>10. value < 0
    <3> HIDE DEF value
    <3>1. 4 * a \in Nat /\ value * (4 * a) < 0 * (4 * a)
      BY <2>2, <2>9
    <3> QED
      BY <2>2, <3>1, Cancelled
  <2> QED
    BY <2>10
<1> QED
  BY <1>3, <1>4

\* At an instant inside the horizontal window the standard is breached.
LEMMA HorizontallyInside ==
    ASSUME SeparationAssumption, NEW r \in Geometry, NEW n \in Int, NEW m \in Nat, m > 0,
           Earlier(HorizontalWindow(r).low, Ratio(n, m)),
           Earlier(Ratio(n, m), HorizontalWindow(r).high)
    PROVE  LET east == r.east * m + r.v_east * n
               north == r.north * m + r.v_north * n
           IN  east * east + north * north < (Horizontal * m) * (Horizontal * m)
<1> DEFINE a == ClosingSpeedSquared(r)
           b == 2 * Approach(r)
           c == r.east * r.east + r.north * r.north - Horizontal * Horizontal
<1>1. a \in Nat /\ b \in Int /\ c \in Int /\ (a = 0 => b = 0)
  BY QuadraticFits
<1>2. HorizontalWindow(r) = QuadraticBelow(a, b, c)
  BY DEF HorizontalWindow
<1>3. a * n * n + b * n * m + c * m * m < 0
  <2> HIDE DEF a, b, c
  <2> QED
    BY <1>1, <1>2, BetweenRoots
<1>4. \A e, v, x, w, h \in Int :
          (v * v + w * w) * n * n + (2 * (e * v + x * w)) * n * m
                  + (e * e + x * x - h * h) * m * m
              = (e * m + v * n) * (e * m + v * n) + (x * m + w * n) * (x * m + w * n)
                  - (h * m) * (h * m)
  OBVIOUS
<1>5. r.east \in Int /\ r.north \in Int /\ r.v_east \in Int /\ r.v_north \in Int
      /\ Horizontal \in Int
  BY DEF Geometry, SeparationAssumption
<1>6. a * n * n + b * n * m + c * m * m
          = (r.east * m + r.v_east * n) * (r.east * m + r.v_east * n)
              + (r.north * m + r.v_north * n) * (r.north * m + r.v_north * n)
              - (Horizontal * m) * (Horizontal * m)
  BY <1>4, <1>5 DEF ClosingSpeedSquared, Approach
<1>7. /\ (r.east * m + r.v_east * n) * (r.east * m + r.v_east * n) \in Int
      /\ (r.north * m + r.v_north * n) * (r.north * m + r.v_north * n) \in Int
      /\ (Horizontal * m) * (Horizontal * m) \in Int
  BY <1>5
<1> HIDE DEF a, b, c
<1> QED
  BY <1>3, <1>6, <1>7

\* On an edge of the vertical window the gap is the standard, and shrinks inward.
LEMMA VerticallyInside ==
    ASSUME SeparationAssumption, NEW r \in Geometry, NEW n \in Int, NEW m \in Nat, m > 0
    PROVE  LET gap == r.altitude * m + r.v_altitude * n
               t == Ratio(n, m)
               s == VerticalWindow(r)
           IN  /\ NoLater(s.low, t) /\ Earlier(t, s.high) =>
                      /\ -(Vertical * m) <= gap /\ (gap = -(Vertical * m) => r.v_altitude > 0)
                      /\ gap <= Vertical * m /\ (gap = Vertical * m => r.v_altitude < 0)
               /\ Earlier(s.low, t) /\ NoLater(t, s.high) =>
                      /\ -(Vertical * m) <= gap /\ (gap = -(Vertical * m) => r.v_altitude < 0)
                      /\ gap <= Vertical * m /\ (gap = Vertical * m => r.v_altitude > 0)
<1> DEFINE offset == r.altitude
           rate == r.v_altitude
           gap == offset * m + rate * n
           limit == Vertical * m
           t == Ratio(n, m)
           s == VerticalWindow(r)
<1>1. offset \in Int /\ rate \in Int /\ Vertical \in Nat /\ Vertical > 0
  BY DEF Geometry, SeparationAssumption
<1>2. s = LinearWithin(offset, rate, Vertical)
  BY DEF VerticalWindow
<1>3. s \in RationalEnds
  <2> HIDE DEF offset, rate, s
  <2> QED
    BY <1>1, <1>2, LinearEnds
<1>4. t \in Rational /\ t.p = n /\ t.q = m
  BY RatiosAreFinite DEF Finite
<1>5. gap \in Int /\ limit \in Int /\ limit > 0
  <2>1. 0 * m < Vertical * m
    BY <1>1, StrictProducts
  <2> QED
    BY <1>1, <2>1
<1>6. CASE rate = 0
  <2>1. CASE Size(offset) < Vertical
    <3>1. offset < Vertical /\ -offset < Vertical
      BY <1>1, <2>1 DEF Size
    <3>2. offset * m < Vertical * m /\ (-offset) * m < Vertical * m
      BY <1>1, <3>1, StrictProducts
    <3>3. gap = offset * m /\ (-offset) * m = -(offset * m)
      BY <1>1, <1>6
    <3>4. gap < limit /\ -limit < gap
      BY <1>1, <3>2, <3>3
    <3> HIDE DEF gap, limit, t, s
    <3> QED
      BY <1>5, <3>4 DEF gap, limit, t, s
  <2>2. CASE ~ (Size(offset) < Vertical)
    <3>1. s = Never
      BY <1>2, <1>6, <2>2 DEF LinearWithin
    <3>2. s.low = Instant(1) /\ s.high = Instant(0)
      BY <3>1 DEF Never
    <3>3. /\ Instant(1) \in Rational /\ Instant(1).p = 1 /\ Instant(1).q = 1
          /\ Instant(0) \in Rational /\ Instant(0).p = 0 /\ Instant(0).q = 1
      BY InstantsAreFinite DEF Finite
    <3> HIDE DEF t, s
    <3>4. /\ Earlier(s.low, t) <=> m < n
          /\ Earlier(t, s.high) <=> n < 0
      BY <1>4, <3>2, <3>3, RationalsCompare
    <3>5. /\ NoLater(s.low, t) <=> m <= n
          /\ NoLater(t, s.high) <=> n <= 0
      BY <1>4, <3>2, <3>3 DEF NoLater
    <3> QED
      BY <3>4, <3>5 DEF t, s
  <2> QED
    BY <2>1, <2>2
<1>7. CASE rate > 0
  <2>1. s = Rising(offset, rate, Vertical)
    <3> HIDE DEF offset, rate, s
    <3> QED
      BY <1>1, <1>2, <1>7, LinearEnds
  <2>2. /\ s.low.p = -Vertical - offset /\ s.low.q = rate
        /\ s.high.p = Vertical - offset /\ s.high.q = rate
    BY <2>1 DEF Rising
  <2>3. s.low \in Rational /\ s.high \in Rational
    BY <1>3 DEF RationalEnds
  <2>4. /\ (-Vertical - offset) * m = -limit - offset * m /\ n * rate = gap - offset * m
        /\ (Vertical - offset) * m = limit - offset * m /\ offset * m \in Int
    BY <1>1
  <2> HIDE DEF t, s, gap, limit
  <2>5. /\ Earlier(s.low, t) <=> -limit < gap
        /\ Earlier(t, s.high) <=> gap < limit
    BY <1>4, <1>5, <2>2, <2>3, <2>4, RationalsCompare
  <2>6. /\ NoLater(s.low, t) <=> -limit <= gap
        /\ NoLater(t, s.high) <=> gap <= limit
    BY <1>4, <1>5, <2>2, <2>4 DEF NoLater
  <2> QED
    BY <1>5, <1>7, <2>5, <2>6 DEF t, s, gap, limit
<1>8. CASE rate < 0
  <2>1. s = Sinking(offset, rate, Vertical)
    <3> HIDE DEF offset, rate, s
    <3> QED
      BY <1>1, <1>2, <1>8, LinearEnds
  <2>2. /\ s.low.p = offset - Vertical /\ s.low.q = -rate
        /\ s.high.p = offset + Vertical /\ s.high.q = -rate
    BY <2>1 DEF Sinking
  <2>3. s.low \in Rational /\ s.high \in Rational
    BY <1>3 DEF RationalEnds
  <2>4. /\ (offset - Vertical) * m = offset * m - limit /\ n * (-rate) = offset * m - gap
        /\ (offset + Vertical) * m = offset * m + limit /\ offset * m \in Int
    BY <1>1
  <2> HIDE DEF t, s, gap, limit
  <2>5. /\ Earlier(s.low, t) <=> gap < limit
        /\ Earlier(t, s.high) <=> -limit < gap
    BY <1>4, <1>5, <2>2, <2>3, <2>4, RationalsCompare
  <2>6. /\ NoLater(s.low, t) <=> gap <= limit
        /\ NoLater(t, s.high) <=> -limit <= gap
    BY <1>4, <1>5, <2>2, <2>4 DEF NoLater
  <2> QED
    BY <1>5, <1>8, <2>5, <2>6 DEF t, s, gap, limit
<1> QED
  BY <1>1, <1>6, <1>7, <1>8

\* No instant is farther than half a sample from one, and of the two next to one halfway
\* either may be had.
LEMMA NearestSample ==
    ASSUME NEW n \in Nat, NEW m \in Nat, m > 0, NEW fine \in Nat, fine > 0,
           NEW last \in Nat, n <= last * m, NEW up \in BOOLEAN
    PROVE  \E k \in 0..(last * fine) :
               LET off == 2 * (k * m - fine * n)
               IN  /\ -m <= off /\ off <= m
                   /\ (up => -m < off) /\ (~ up => off < m)
<1> DEFINE x == 2 * (fine * n) + m - (IF up THEN 0 ELSE 1)
           y == 2 * m
           k == x \div y
           off == 2 * (k * m - fine * n)
<1>1. fine * n \in Nat /\ last * fine \in Nat /\ last * m \in Nat
  OBVIOUS
<1>2. x \in Nat /\ y \in Nat /\ y > 0
  BY <1>1
<1>3. k \in Int /\ k * y <= x /\ x < k * y + y
  <2> HIDE DEF x, y
  <2> QED
    BY <1>2, Quotients
<1>4. off = k * y - 2 * (fine * n) /\ k * y \in Int
  <2> HIDE DEF k
  <2> QED
    BY <1>1, <1>3
<1>5. /\ -m <= off /\ off <= m
      /\ (up => -m < off) /\ (~ up => off < m)
  <2>1. CASE up
    <3>1. x = 2 * (fine * n) + m
      BY <2>1
    <3> HIDE DEF x, k, off
    <3> QED
      BY <1>1, <1>3, <1>4, <2>1, <3>1
  <2>2. CASE ~ up
    <3>1. x = 2 * (fine * n) + m - 1
      BY <2>2
    <3> HIDE DEF x, k, off
    <3> QED
      BY <1>1, <1>3, <1>4, <2>2, <3>1
  <2> QED
    BY <2>1, <2>2
<1>6. k >= 0
  <2> SUFFICES ASSUME k <= -1 PROVE FALSE
    BY <1>3
  <2> HIDE DEF k, x, y
  <2>1. k * y <= (-1) * y
    BY <1>2, <1>3, Products
  <2> QED
    BY <1>2, <1>3, <1>4, <2>1
<1>7. k <= last * fine
  <2>1. n * fine <= (last * m) * fine
    BY <1>1, Products
  <2>2. 2 * (fine * n) <= (last * fine) * y
    <3>1. (last * fine) * y = 2 * ((last * m) * fine) /\ n * fine = fine * n
      OBVIOUS
    <3>2. (last * m) * fine \in Int
      BY <1>1
    <3> QED
      BY <1>1, <2>1, <3>1, <3>2
  <2>3. x < (last * fine) * y + y
    <3>1. x <= 2 * (fine * n) + m
      BY <1>1
    <3>2. (last * fine) * y \in Int
      BY <1>1
    <3> HIDE DEF x
    <3> QED
      BY <1>1, <1>2, <2>2, <3>1, <3>2
  <2>4. k * y < (last * fine + 1) * y
    <3>1. (last * fine + 1) * y = (last * fine) * y + y /\ (last * fine) * y \in Int
      BY <1>1
    <3> HIDE DEF k, x, y
    <3> QED
      BY <1>2, <1>3, <1>4, <2>3, <3>1
  <2> HIDE DEF k, y
  <2>5. k < last * fine + 1
    BY <1>1, <1>2, <1>3, <2>4, Cancelled
  <2> QED
    BY <1>1, <1>3, <2>5
<1> HIDE DEF k
<1>8. k \in 0..(last * fine)
  BY <1>1, <1>3, <1>6, <1>7
<1> QED
  BY <1>5, <1>8

\* How far a coordinate may be when it was so far and moved a little.
LEMMA MovedALittle ==
    ASSUME NEW e \in Int, NEW v \in Int, NEW off \in Int, NEW m \in Nat, NEW q \in Nat,
           -q <= off, off <= q
    PROVE  /\ Size(e) \in Nat /\ Size(v) \in Nat /\ Size(e) * Size(e) = e * e
           /\ m * e + v * off \in Int
           /\ Size(v * off) <= Size(v) * q
           /\ (m * e + v * off) * (m * e + v * off)
                  <= (m * Size(e) + Size(v) * q) * (m * Size(e) + Size(v) * q)
<1>1. /\ Size(e) \in Nat /\ (Size(e) = e \/ Size(e) = -e) /\ e <= Size(e) /\ -e <= Size(e)
      /\ Size(v) \in Nat /\ (Size(v) = v \/ Size(v) = -v)
  BY DEF Size
<1>2. (-e) * (-e) = e * e
  OBVIOUS
<1>3. Size(e) * Size(e) = e * e
  BY <1>1, <1>2
<1>4. off * Size(v) <= q * Size(v) /\ (-off) * Size(v) <= q * Size(v)
  BY <1>1, Products
<1>5. v * off <= Size(v) * q /\ -(v * off) <= Size(v) * q /\ v * off \in Int /\ Size(v) * q \in Nat
  <2>1. /\ off * Size(v) = v * off \/ off * Size(v) = -(v * off)
        /\ (-off) * Size(v) = -(off * Size(v)) /\ q * Size(v) = Size(v) * q
    BY <1>1
  <2>2. v * off \in Int /\ Size(v) * q \in Nat /\ off * Size(v) \in Int
    BY <1>1
  <2> QED
    BY <1>4, <2>1, <2>2
<1>6. e * m <= Size(e) * m /\ (-e) * m <= Size(e) * m
  BY <1>1, Products
<1>7. m * e <= m * Size(e) /\ -(m * e) <= m * Size(e) /\ m * e \in Int /\ m * Size(e) \in Nat
  <2>1. e * m = m * e /\ (-e) * m = -(m * e) /\ Size(e) * m = m * Size(e)
    BY <1>1
  <2> QED
    BY <1>1, <1>6, <2>1
<1> DEFINE x == m * e + v * off
           most == m * Size(e) + Size(v) * q
<1>8. x \in Int /\ most \in Nat /\ x <= most /\ -x <= most
  BY <1>5, <1>7
<1>9. x * x <= most * most
  <2> HIDE DEF x, most
  <2>1. CASE x >= 0
    BY <1>8, <2>1, Squares
  <2>2. CASE x < 0
    <3>1. (-x) * (-x) <= most * most
      BY <1>8, <2>2, Squares
    <3>2. (-x) * (-x) = x * x
      BY <1>8
    <3> QED
      BY <3>1, <3>2
  <2> QED
    BY <1>8, <2>1, <2>2
<1>10. Size(v * off) <= Size(v) * q
  BY <1>5 DEF Size
<1> QED
  BY <1>1, <1>3, <1>8, <1>9, <1>10

\* A distance below the standard is, after so little, below the standard and that little.
LEMMA StillNear ==
    ASSUME NEW e \in Int, NEW n \in Int, NEW v \in Int, NEW w \in Int, NEW g \in Nat,
           NEW m \in Nat, m > 0, NEW q \in Nat, NEW off \in Int, -q <= off, off <= q,
           e * e + n * n < g * g
    PROVE  LET x == m * e + v * off
               y == m * n + w * off
               most == m * g + (Size(v) + Size(w)) * q
           IN  x * x + y * y < most * most
<1> DEFINE x == m * e + v * off
           y == m * n + w * off
           i == Size(e)
           j == Size(n)
           a == Size(v)
           b == Size(w)
           most == m * g + (a + b) * q
<1>1. /\ i \in Nat /\ a \in Nat /\ i * i = e * e /\ x \in Int
      /\ x * x <= (m * i + a * q) * (m * i + a * q)
  BY MovedALittle
<1>2. /\ j \in Nat /\ b \in Nat /\ j * j = n * n /\ y \in Int
      /\ y * y <= (m * j + b * q) * (m * j + b * q)
  BY MovedALittle
<1> HIDE DEF x, y, i, j, a, b
<1>3. e * e \in Nat /\ n * n \in Nat /\ g * g \in Nat
  BY SquaresArePositive
<1>4. i <= g /\ j <= g
  <2>1. i * i < g * g /\ j * j < g * g
    BY <1>1, <1>2, <1>3, SquaresArePositive
  <2>2. ASSUME NEW u \in Nat, u * u < g * g PROVE u <= g
    <3> SUFFICES ASSUME g <= u PROVE u <= g
      OBVIOUS
    <3>1. g * g <= u * u
      BY Squares
    <3> QED
      BY <2>2, <3>1, <1>3
  <2> QED
    BY <1>1, <1>2, <2>1, <2>2
<1>5. most * most - (m * i + a * q) * (m * i + a * q) - (m * j + b * q) * (m * j + b * q)
          = (m * m) * (g * g - i * i - j * j)
              + 2 * ((m * q) * (a * (g - i) + b * (g - j))) + 2 * ((q * q) * (a * b))
  BY <1>1, <1>2
<1>6. (m * m) * (g * g - i * i - j * j) > 0
  <2> DEFINE spare == g * g - i * i - j * j
  <2>1. spare \in Nat /\ spare > 0
    BY <1>1, <1>2, <1>3
  <2>2. m * m \in Nat /\ m * m > 0
    BY SquaresArePositive
  <2> HIDE DEF spare
  <2>3. 0 * (m * m) < spare * (m * m)
    BY <2>1, <2>2, StrictProducts
  <2>4. (m * m) * spare = spare * (m * m) /\ spare * (m * m) \in Int
    BY <2>1, <2>2
  <2> QED
    BY <2>2, <2>3, <2>4 DEF spare
<1>7. (m * q) * (a * (g - i) + b * (g - j)) \in Nat
  <2>1. g - i \in Nat /\ g - j \in Nat
    BY <1>1, <1>2, <1>4
  <2>2. a * (g - i) \in Nat /\ b * (g - j) \in Nat /\ m * q \in Nat
    BY <1>1, <1>2, <2>1
  <2>3. a * (g - i) + b * (g - j) \in Nat
    BY <2>2
  <2> QED
    BY <2>2, <2>3
<1>8. (q * q) * (a * b) \in Nat
  <2>1. q * q \in Nat /\ a * b \in Nat
    BY <1>1, <1>2
  <2> QED
    BY <2>1
<1>9. /\ most * most \in Int /\ x * x \in Int /\ y * y \in Int
      /\ (m * i + a * q) * (m * i + a * q) \in Int /\ (m * j + b * q) * (m * j + b * q) \in Int
      /\ (m * m) * (g * g - i * i - j * j) \in Int
  BY <1>1, <1>2
<1>10. x * x + y * y < most * most
  <2> DEFINE whole == most * most
             first == (m * i + a * q) * (m * i + a * q)
             second == (m * j + b * q) * (m * j + b * q)
             spare == (m * m) * (g * g - i * i - j * j)
             cross == (m * q) * (a * (g - i) + b * (g - j))
             mixed == (q * q) * (a * b)
             xx == x * x
             yy == y * y
  <2>1. /\ whole \in Int /\ first \in Int /\ second \in Int /\ xx \in Int /\ yy \in Int
        /\ spare \in Int /\ spare > 0 /\ cross \in Nat /\ mixed \in Nat
    BY <1>6, <1>7, <1>8, <1>9
  <2>2. whole - first - second = spare + 2 * cross + 2 * mixed
    BY <1>5
  <2>3. xx <= first /\ yy <= second
    BY <1>1, <1>2
  <2> HIDE DEF whole, first, second, spare, cross, mixed, xx, yy
  <2>4. xx + yy < whole
    BY <2>1, <2>2, <2>3
  <2> QED
    BY <2>4 DEF whole, xx, yy
<1> QED
  BY <1>10 DEF x, y, a, b

\* A gap no wider than the standard, and on its way in if as wide, is close to it after
\* so little.
LEMMA GapStillNear ==
    ASSUME NEW gap \in Int, NEW rate \in Int, NEW limit \in Nat, NEW m \in Nat, m > 0,
           NEW q \in Nat, NEW off \in Int, -q <= off, off <= q, gap <= limit,
           gap = limit => (rate < 0 /\ -q < off) \/ (rate > 0 /\ off < q)
    PROVE  m * gap + rate * off < m * limit + Size(rate) * q
<1>1. /\ rate * off \in Int /\ Size(rate) * q \in Nat /\ m * gap \in Int /\ m * limit \in Int
      /\ rate * off <= Size(rate) * q
  <2>1. Size(rate) \in Nat /\ Size(rate * off) <= Size(rate) * q
    BY MovedALittle
  <2>2. rate * off \in Int /\ Size(rate) * q \in Nat
    BY <2>1
  <2>3. rate * off <= Size(rate * off) /\ Size(rate * off) \in Nat
    BY <2>2 DEF Size
  <2>4. m * gap \in Int /\ m * limit \in Int
    OBVIOUS
  <2> QED
    BY <2>1, <2>2, <2>3, <2>4
<1>2. CASE gap < limit
  <2>1. gap * m < limit * m
    BY <1>2, StrictProducts
  <2>2. gap * m = m * gap /\ limit * m = m * limit
    OBVIOUS
  <2> QED
    BY <1>1, <2>1, <2>2
<1>3. CASE gap = limit
  <2>1. rate * off < Size(rate) * q
    <3>1. CASE rate < 0 /\ -q < off
      <4>1. (-off) * (-rate) < q * (-rate)
        BY <3>1, StrictProducts
      <4>2. (-off) * (-rate) = rate * off /\ q * (-rate) = (-rate) * q /\ Size(rate) = -rate
        BY <3>1 DEF Size
      <4> QED
        BY <4>1, <4>2
    <3>2. CASE rate > 0 /\ off < q
      <4>1. off * rate < q * rate
        BY <3>2, StrictProducts
      <4>2. off * rate = rate * off /\ q * rate = rate * q /\ Size(rate) = rate
        BY <3>2 DEF Size
      <4> QED
        BY <4>1, <4>2
    <3> QED
      BY <1>3, <3>1, <3>2
  <2>2. m * gap = m * limit
    BY <1>3
  <2> QED
    BY <1>1, <2>1, <2>2
<1> QED
  BY <1>2, <1>3

\* A pair whose window is open comes, at a sampled instant, as close as half a sample
\* allows it to be from a breach.
LEMMA OpenWindowIsNear ==
    ASSUME SeparationAssumption, NEW r \in Geometry, IsSome(Window(r)),
           Finest \in Nat, Finest > 0
    PROVE  \E k \in 0..(Lookahead * Finest) : NearBreach(r, k)
<1> DEFINE f == HorizontalWindow(r)
           s == VerticalWindow(r)
<1>1. /\ r.east \in Int /\ r.north \in Int /\ r.altitude \in Int
      /\ r.v_east \in Int /\ r.v_north \in Int /\ r.v_altitude \in Int
      /\ Horizontal \in Nat /\ Vertical \in Nat /\ Vertical > 0 /\ Lookahead \in Nat
  BY DEF Geometry, SeparationAssumption
<1>2. f \in Ends /\ s \in RationalEnds /\ IsSome(Overlap(f, s))
  <2>1. s \in RationalEnds
    <3>1. s = LinearWithin(r.altitude, r.v_altitude, Vertical)
      BY DEF VerticalWindow
    <3> HIDE DEF s
    <3> QED
      BY <1>1, <3>1, LinearEnds
  <2> QED
    BY <2>1, HorizontalEnds DEF Window
<1>3. PICK t \in Finite : TimeWithin(t, f, s)
  <2> HIDE DEF f, s
  <2> QED
    BY <1>2, OpenOverlapHasTime
<1> DEFINE n == t.p
           m == t.q
           up == NoLater(s.low, t) /\ Earlier(t, s.high)
           east == r.east * m + r.v_east * n
           north == r.north * m + r.v_north * n
           gap == r.altitude * m + r.v_altitude * n
           limit == Vertical * m
           fine == 2 * Finest
<1>4. /\ n \in Int /\ m \in Nat /\ m > 0 /\ t = Ratio(n, m)
  <2>1. t = [p |-> n, k |-> 0, d |-> 0, q |-> m] /\ n \in Int /\ m \in Nat /\ m > 0
    BY DEF Finite, Rational
  <2> QED
    BY <2>1, RatiosAreFinite
<1>5. n \in Nat /\ n <= Lookahead * m
  <2>1. /\ Instant(0).p = 0 /\ Instant(0).q = 1
        /\ Instant(Lookahead).p = Lookahead /\ Instant(Lookahead).q = 1
    BY <1>1, InstantsAreFinite
  <2> QED
    BY <1>1, <1>3, <1>4, <2>1 DEF TimeWithin, NoLater
<1>6. east * east + north * north < (Horizontal * m) * (Horizontal * m)
  <2>1. Earlier(f.low, Ratio(n, m)) /\ Earlier(Ratio(n, m), f.high)
    BY <1>3, <1>4 DEF TimeWithin
  <2> HIDE DEF n, m
  <2> QED
    BY <1>4, <2>1, HorizontallyInside
<1>7. /\ up => /\ -limit <= gap /\ (gap = -limit => r.v_altitude > 0)
               /\ gap <= limit /\ (gap = limit => r.v_altitude < 0)
      /\ Earlier(s.low, t) /\ NoLater(t, s.high) =>
               /\ -limit <= gap /\ (gap = -limit => r.v_altitude < 0)
               /\ gap <= limit /\ (gap = limit => r.v_altitude > 0)
  <2> HIDE DEF n, m
  <2> QED
    BY <1>4, VerticallyInside
<1>8. PICK k \in 0..(Lookahead * Finest) :
          LET off == 2 * (k * m - Finest * n)
          IN  /\ -m <= off /\ off <= m
              /\ (up => -m < off) /\ (~ up => off < m)
  <2> HIDE DEF n, m, up
  <2>1. up \in BOOLEAN
    BY DEF up
  <2> QED
    BY <1>1, <1>4, <1>5, <2>1, NearestSample
<1> DEFINE off == 2 * (k * m - Finest * n)
<1>9. k \in Nat /\ off \in Int /\ fine \in Nat /\ fine > 0 /\ -m <= off /\ off <= m
  <2>1. k \in Nat
    BY <1>1
  <2> HIDE DEF n, m
  <2> QED
    BY <1>4, <1>8, <2>1
<1>10. -limit <= gap /\ gap <= limit /\ gap \in Int /\ limit \in Nat
       /\ (gap = limit => (r.v_altitude < 0 /\ -m < off) \/ (r.v_altitude > 0 /\ off < m))
       /\ (gap = -limit => (r.v_altitude > 0 /\ -m < off) \/ (r.v_altitude < 0 /\ off < m))
  <2>1. gap \in Int /\ limit \in Nat
    BY <1>1, <1>4
  <2>2. up \/ (~ up /\ Earlier(s.low, t) /\ NoLater(t, s.high))
    BY <1>3 DEF TimeWithin
  <2> HIDE DEF n, m, up, gap, limit, s
  <2> QED
    BY <1>7, <1>8, <2>1, <2>2
<1> HIDE DEF n, m, up, s, f
<1>11. \A x, v \in Int : (x * fine + v * 2 * k) * m = fine * (x * m + v * n) + v * off
  BY <1>4, <1>9
<1> DEFINE slack == Size(r.v_east) + Size(r.v_north)
           within == Horizontal * fine + slack
           x == r.east * fine + r.v_east * 2 * k
           y == r.north * fine + r.v_north * 2 * k
           z == r.altitude * fine + r.v_altitude * 2 * k
<1>12. x * x + y * y < within * within
  <2>1. x * m = fine * east + r.v_east * off /\ y * m = fine * north + r.v_north * off
    BY <1>1, <1>11
  <2>2. /\ east \in Int /\ north \in Int /\ Horizontal * m \in Nat
        /\ Size(r.v_east) \in Nat /\ Size(r.v_north) \in Nat
    BY <1>1, <1>4 DEF Size
  <2>3. (x * m) * (x * m) + (y * m) * (y * m)
            < (fine * (Horizontal * m) + slack * m) * (fine * (Horizontal * m) + slack * m)
    <3> HIDE DEF east, north, off, fine, x, y
    <3> QED
      BY <1>1, <1>4, <1>6, <1>9, <2>1, <2>2, StillNear
  <2>4. x \in Int /\ y \in Int /\ within \in Nat
    BY <1>1, <1>9, <2>2
  <2>5. fine * (Horizontal * m) + slack * m = within * m
    BY <1>1, <1>4, <1>9, <2>2
  <2>6. /\ (x * m) * (x * m) + (y * m) * (y * m) = (x * x + y * y) * (m * m)
        /\ (within * m) * (within * m) = (within * within) * (m * m)
    <3> HIDE DEF x, y, within
    <3> QED
      BY <1>4, <2>4
  <2> HIDE DEF x, y, within, slack, fine
  <2>7. m * m \in Nat /\ x * x + y * y \in Int /\ within * within \in Int
    BY <1>4, <2>4
  <2>8. (x * x + y * y) * (m * m) < (within * within) * (m * m)
    BY <2>3, <2>5, <2>6
  <2> QED
    BY <2>7, <2>8, Cancelled
<1>13. Size(z) < Vertical * fine + Size(r.v_altitude)
  <2> DEFINE rate == r.v_altitude
             most == Vertical * fine + Size(rate)
  <2>1. z * m = fine * gap + rate * off
    BY <1>1, <1>11
  <2>2. Size(rate) \in Nat /\ rate \in Int /\ Size(-rate) = Size(rate) /\ z \in Int /\ most \in Nat
    BY <1>1, <1>9 DEF Size
  <2>3. fine * limit + Size(rate) * m = most * m
    BY <1>1, <1>4, <1>9, <2>2
  <2>4. fine * gap + rate * off < fine * limit + Size(rate) * m
    <3> HIDE DEF gap, limit, off, fine, rate
    <3> QED
      BY <1>4, <1>9, <1>10, <2>2, GapStillNear DEF rate
  <2>5. fine * (-gap) + (-rate) * off < fine * limit + Size(rate) * m
    <3>1. -gap \in Int /\ -rate \in Int /\ -gap <= limit
      BY <1>10, <2>2
    <3>2. -gap = limit => (-rate < 0 /\ -m < off) \/ (-rate > 0 /\ off < m)
      <4> HIDE DEF gap, limit, off
      <4> QED
        BY <1>10, <2>2
    <3> HIDE DEF gap, limit, off, fine, rate
    <3>3. fine * (-gap) + (-rate) * off < fine * limit + Size(-rate) * m
      BY <1>4, <1>9, <1>10, <3>1, <3>2, GapStillNear
    <3> QED
      BY <2>2, <3>3
  <2>6. (-z) * m = fine * (-gap) + (-rate) * off
    <3>1. (-z) * m = -(z * m) /\ -(fine * gap + rate * off) = fine * (-gap) + (-rate) * off
      <4> HIDE DEF z, gap, off, fine, rate
      <4> QED
        BY <1>4, <1>9, <1>10, <2>2
    <3> HIDE DEF z, gap, off, fine, rate
    <3> QED
      BY <2>1, <3>1
  <2> HIDE DEF z, most, gap, limit, off, fine, rate
  <2>7. z * m < most * m /\ (-z) * m < most * m
    BY <2>1, <2>3, <2>4, <2>5, <2>6
  <2>8. z < most /\ -z < most
    BY <1>4, <2>2, <2>7, Cancelled
  <2>9. Size(z) < most
    BY <2>2, <2>8 DEF Size
  <2> QED
    BY <2>9 DEF most, rate
<1>14. NearBreach(r, k)
  BY <1>12, <1>13 DEF NearBreach
<1> QED
  BY <1>14

\* It makes no difference which of the two is called the first.
LEMMA NearEitherWay ==
    ASSUME NEW first, NEW second, IsFlown(first), IsFlown(second), NEW k \in Nat,
           Finest \in Nat, SeparationAssumption, NearBreach(Relative(first, second), k)
    PROVE  NearBreach(Relative(second, first), k)
<1> DEFINE r == Relative(first, second)
           o == Relative(second, first)
           m == 2 * Finest
<1>1. r \in Geometry /\ o \in Geometry
  BY RelativeFits
<1>2. /\ r.east \in Int /\ r.north \in Int /\ r.altitude \in Int
      /\ r.v_east \in Int /\ r.v_north \in Int /\ r.v_altitude \in Int /\ m \in Nat
  BY <1>1 DEF Geometry
<1>3. /\ o.east = -r.east /\ o.north = -r.north /\ o.altitude = -r.altitude
      /\ o.v_east = -r.v_east /\ o.v_north = -r.v_north /\ o.v_altitude = -r.v_altitude
  BY DEF Relative, IsFlown
<1>4. \A x, v \in Int : (-x) * m + (-v) * 2 * k = -(x * m + v * 2 * k)
  OBVIOUS
<1>5. \A x \in Int : Size(-x) = Size(x) /\ (-x) * (-x) = x * x
  BY DEF Size
<1> HIDE DEF r, o
<1>6. /\ r.east * m + r.v_east * 2 * k \in Int /\ r.north * m + r.v_north * 2 * k \in Int
      /\ r.altitude * m + r.v_altitude * 2 * k \in Int
  BY <1>2
<1>7. LET east == o.east * m + o.v_east * 2 * k
          north == o.north * m + o.v_north * 2 * k
          within == Horizontal * m + (Size(o.v_east) + Size(o.v_north))
      IN  east * east + north * north < within * within
  <2> DEFINE east == r.east * m + r.v_east * 2 * k
             north == r.north * m + r.v_north * 2 * k
             within == Horizontal * m + (Size(r.v_east) + Size(r.v_north))
  <2>1. east * east + north * north < within * within
    BY DEF NearBreach, r
  <2>2. o.east * m + o.v_east * 2 * k = -east /\ o.north * m + o.v_north * 2 * k = -north
    BY <1>2, <1>3, <1>4
  <2>3. Horizontal * m + (Size(o.v_east) + Size(o.v_north)) = within
    BY <1>2, <1>3, <1>5
  <2>4. (-east) * (-east) = east * east /\ (-north) * (-north) = north * north
    <3> HIDE DEF east, north
    <3> QED
      BY <1>5, <1>6 DEF east, north
  <2> HIDE DEF east, north, within
  <2> QED
    BY <2>1, <2>2, <2>3, <2>4
<1>8. Size(o.altitude * m + o.v_altitude * 2 * k) < Vertical * m + Size(o.v_altitude)
  <2> DEFINE gap == r.altitude * m + r.v_altitude * 2 * k
  <2>1. Size(gap) < Vertical * m + Size(r.v_altitude)
    BY DEF NearBreach, r
  <2>2. o.altitude * m + o.v_altitude * 2 * k = -gap
    BY <1>2, <1>3, <1>4
  <2>3. Size(-gap) = Size(gap) /\ Size(o.v_altitude) = Size(r.v_altitude)
    <3> HIDE DEF gap
    <3> QED
      BY <1>2, <1>3, <1>5, <1>6 DEF gap
  <2> HIDE DEF gap
  <2> QED
    BY <2>1, <2>2, <2>3
<1> QED
  BY <1>7, <1>8 DEF NearBreach, o

\* A scan of any picture of tracks reports only pairs that do come close.
LEMMA ScanInventsNothing ==
    ASSUME SeparationAssumption, Finest \in Nat, Finest > 0, NEW known,
           \A k \in Eligible(known) : IsFlown(known[k]),
           NEW i \in Eligible(known), NEW j \in Eligible(known), i # j, {i, j} \in Scan(known)
    PROVE  \E k \in 0..(Lookahead * Finest) : NearBreach(Relative(known[i], known[j]), k)
<1>1. PICK a, b \in {i, j} : a # b /\ InConflict(known[a], known[b])
  BY DEF Scan
<1>2. IsFlown(known[a]) /\ IsFlown(known[b]) /\ Lookahead \in Nat
  BY DEF SeparationAssumption
<1>3. PICK k \in 0..(Lookahead * Finest) : NearBreach(Relative(known[a], known[b]), k)
  <2>1. Relative(known[a], known[b]) \in Geometry /\ IsSome(Window(Relative(known[a], known[b])))
    BY <1>1, <1>2, RelativeFits DEF InConflict
  <2> QED
    BY <2>1, OpenWindowIsNear
<1>4. k \in Nat
  BY <1>2
<1>5. NearBreach(Relative(known[b], known[a]), k)
  BY <1>2, <1>3, <1>4, NearEitherWay
<1> QED
  BY <1>1, <1>3, <1>5

\* What the picture holds are states of flight.
PictureFlown == Typed /\ \A a \in DOMAIN picture : IsFlown(picture[a])

\* A turn of the loop keeps them so.
LEMMA FlownStep ==
    ASSUME PictureFlown, NEW reporting \in SUBSET Aircraft, Step(Moved, reporting)
    PROVE  PictureFlown'
<1>1. LoopTypeOK /\ elapsed \in Nat
  BY DEF PictureFlown, Typed, LoopTypeOK
<1>2. Typed'
  BY LoopStep, SeenStep DEF PictureFlown, Typed
<1>3. Moved \in [Aircraft -> AircraftTruth]
  BY <1>1, MovedFits
<1>4. ASSUME NEW a \in DOMAIN picture' PROVE IsFlown(picture'[a])
  <2> DEFINE known == Absorbed(Moved, reporting)
             gone == Stale(known)
  <2>1. /\ DOMAIN known = DOMAIN picture \cup reporting
        /\ \A b \in DOMAIN picture \ reporting : known[b] = picture[b]
        /\ DOMAIN picture' = DOMAIN known \ gone
        /\ \A b \in DOMAIN picture' : picture'[b] = known[b]
    BY KnownFits DEF PictureFlown
  <2>2. \A b \in reporting : known[b] = Update(Moved, b)
    BY DEF Absorbed
  <2> HIDE DEF known, gone
  <2>3. CASE a \in reporting
    <3>1. picture'[a] = Update(Moved, a) /\ a \in Aircraft
      BY <1>4, <2>1, <2>2, <2>3
    <3>2. Update(Moved, a) \in AircraftUpdate
      BY <1>1, <1>3, <3>1, UpdateFits
    <3> QED
      BY <3>1, <3>2 DEF AircraftUpdate, IsFlown
  <2>4. CASE a \in DOMAIN picture \ reporting
    BY <1>4, <2>1, <2>4 DEF PictureFlown
  <2> QED
    BY <1>4, <2>1, <2>3, <2>4
<1> QED
  BY <1>2, <1>4 DEF PictureFlown

\* So they are always.
LEMMA PictureFlownCorrect == Spec => []PictureFlown
<1>1. Init => PictureFlown
  <2> SUFFICES ASSUME Init PROVE PictureFlown
    OBVIOUS
  <2>1. DOMAIN picture = {}
    BY DEF Init
  <2> QED
    BY <2>1, TypedInit DEF PictureFlown
<1>2. PictureFlown /\ [Next]_vars => PictureFlown'
  <2> SUFFICES ASSUME PictureFlown, [Next]_vars PROVE PictureFlown'
    OBVIOUS
  <2>1. Typed'
    BY TypedNext DEF PictureFlown
  <2>2. ASSUME NEW reporting \in SUBSET Aircraft, Step(Moved, reporting) PROVE PictureFlown'
    BY <2>2, FlownStep
  <2>3. ASSUME UNCHANGED picture PROVE PictureFlown'
    BY <2>1, <2>3 DEF PictureFlown
  <2>4. Score \/ UNCHANGED vars => UNCHANGED picture
    BY DEF Score, vars
  <2> QED
    BY <2>2, <2>3, <2>4 DEF Next
<1> QED
  BY <1>1, <1>2, PTL DEF Spec

\* Whatever a scan of the picture reports comes, in straight flight, as close as half a
\* sample allows from a breach of both standards at once, within the lookahead.
THEOREM NoConflictInventedCorrect == Spec => []NoConflictInvented
<1>1. PictureFlown => NoConflictInvented
  <2> SUFFICES ASSUME PictureFlown, NEW i \in Eligible(picture), NEW j \in Eligible(picture),
                      i # j, {i, j} \in Scan(picture)
               PROVE  \E n \in 0..(Lookahead * Finest) : NearBreach(Between(i, j), n)
    BY DEF NoConflictInvented
  <2>1. \A k \in Eligible(picture) : IsFlown(picture[k])
    BY DEF PictureFlown, Eligible
  <2>2. Finest \in Nat /\ Finest > 0
    BY ReplayAssumption
  <2> QED
    BY <2>1, <2>2, SeparationAssumption, ScanInventsNothing DEF Between
<1> QED
  BY <1>1, PictureFlownCorrect, PTL

=============================================================================
