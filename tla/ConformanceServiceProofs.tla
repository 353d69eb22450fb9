---------------------- MODULE ConformanceServiceProofs ----------------------
(***************************************************************************)
(* TLAPS proofs about ConformanceService, for any tracks, conditions,      *)
(* intervals and bounds.                                                   *)
(***************************************************************************)
EXTENDS ConformanceService, FiniteSetTheorems, SequenceTheorems, TLAPS

-----------------------------------------------------------------------------
(* The alert manager. *)

\* A kept alert has missed fewer scans than clear it.
LEMMA ActiveIsNotAbsent ==
    \A r \in Active : r # NotActive
<1>1. TAKE r \in Active
<1>2. r.missed < ClearAfter /\ NotActive.missed = ClearAfter
  BY AlertAssumption DEF Active, NotActive
<1> QED
  BY <1>2, AlertAssumption

\* Time passing keeps the same alerts active.
LEMMA OlderKeeps ==
    ASSUME NEW m \in Manager, NEW by \in Nat
    PROVE  /\ Older(m, by) \in Manager
           /\ ActiveKeys(Older(m, by)) = ActiveKeys(m)
<1>1. ASSUME NEW c \in Condition
      PROVE  /\ m[c] = NotActive => Older(m, by)[c] = NotActive
             /\ m[c] # NotActive => Older(m, by)[c] \in Active
  <2>1. CASE m[c] = NotActive
    BY <2>1 DEF Older
  <2>2. CASE m[c] # NotActive
    <3>1. m[c] \in Active
      BY <2>2 DEF Manager
    <3>2. m[c].since \in Nat /\ SustainInterval \in Nat
      BY <3>1, AlertAssumption DEF Active
    <3> DEFINE s == IF m[c].since + by < SustainInterval
                    THEN m[c].since + by ELSE SustainInterval
    <3>3. s \in 0..SustainInterval
      BY <3>2
    <3>4. Older(m, by)[c] = [m[c] EXCEPT !.since = s]
      BY <2>2 DEF Older
    <3> QED
      BY <2>2, <3>1, <3>3, <3>4 DEF Active
  <2> QED
    BY <2>1, <2>2
<1>2. Older(m, by) \in Manager
  BY <1>1 DEF Older, Manager
<1> QED
  BY <1>1, <1>2, ActiveIsNotAbsent DEF ActiveKeys

\* After a scan only what was active or was detected is active.
LEMMA ReconciledKeeps ==
    ASSUME NEW m \in Manager, NEW current \in SUBSET Condition
    PROVE  /\ Reconciled(m, current) \in Manager
           /\ ActiveKeys(Reconciled(m, current)) \subseteq ActiveKeys(m) \cup current
<1>1. ASSUME NEW c \in Condition
      PROVE  /\ Reconciled(m, current)[c] \in Active \cup {NotActive}
             /\ c \notin ActiveKeys(m) \cup current => Reconciled(m, current)[c] = NotActive
  <2> DEFINE r == Reconciled(m, current)[c]
  <2>1. CASE c \in Raised(m, current) \cup Due(m, current)
    <3>1. r = [missed |-> 0, since |-> 0]
      BY <2>1 DEF Reconciled
    <3>2. r \in Active
      BY <3>1, AlertAssumption DEF Active
    <3> QED
      BY <2>1, <3>2 DEF Raised, Due
  <2>2. CASE c \in current \ (Raised(m, current) \cup Due(m, current))
    <3>1. r = [m[c] EXCEPT !.missed = 0] /\ m[c] \in Active
      BY <2>2 DEF Reconciled, Raised, ActiveKeys, Manager
    <3>2. r \in Active
      BY <3>1, AlertAssumption DEF Active
    <3> QED
      BY <2>2, <3>2
  <2>3. CASE c \in Missed(m, current) \ Over(m, current)
    <3>1. r = [m[c] EXCEPT !.missed = @ + 1] /\ m[c] \in Active
      BY <2>3 DEF Reconciled, Raised, Due, Missed, ActiveKeys, Manager
    <3>2. m[c].missed \in Nat /\ ~(m[c].missed + 1 >= ClearAfter)
      BY <2>3, <3>1, AlertAssumption DEF Over, Active
    <3>3. m[c].missed + 1 \in 0..(ClearAfter - 1)
      BY <3>2, AlertAssumption
    <3>4. r \in Active
      BY <3>1, <3>3 DEF Active
    <3> QED
      BY <2>3, <3>4 DEF Missed
  <2>4. CASE /\ c \notin Raised(m, current) \cup Due(m, current)
             /\ c \notin current
             /\ c \notin Missed(m, current) \ Over(m, current)
    BY <2>4 DEF Reconciled
  <2> QED
    BY <2>1, <2>2, <2>3, <2>4
<1>2. Reconciled(m, current) \in Manager
  BY <1>1 DEF Reconciled, Manager
<1> QED
  BY <1>1, <1>2 DEF ActiveKeys

\* Forgetting leaves the alerts that concern none of the tracks that are gone.
LEMMA ForgottenKeeps ==
    ASSUME NEW m \in Manager, NEW gone \in SUBSET Track
    PROVE  /\ Forgotten(m, gone) \in Manager
           /\ \A c \in ActiveKeys(Forgotten(m, gone)) :
                 c \in ActiveKeys(m) /\ About[c] \cap gone = {}
<1>1. Forgotten(m, gone) \in Manager
  BY DEF Forgotten, Manager
<1> QED
  BY <1>1 DEF Forgotten, Concerned, ActiveKeys

\* A scan's alerts are finitely many.
LEMMA AlertsFinite ==
    ASSUME NEW K \in SUBSET Condition, NEW state \in AlertState
    PROVE  /\ IsFiniteSet(Alerts(K, state))
           /\ Alerts(K, state) \subseteq Alert
<1>1. IsFiniteSet(K)
  BY ServiceAssumption, FS_Subset
<1> DEFINE f == [a \in Alerts(K, state) |-> a.key]
<1>2. f \in Injection(Alerts(K, state), K)
  BY DEF Alerts, Injection, IsInjective
<1>3. IsFiniteSet(Alerts(K, state))
  BY <1>1, <1>2, FS_Injection
<1> QED
  BY <1>3 DEF Alerts, Alert

\* Whatever order they are published in, they form a sequence of alerts.
LEMMA OrderedAlerts ==
    ASSUME NEW S \in SUBSET Alert, IsFiniteSet(S), NEW s \in SetToSeqs(S)
    PROVE  s \in Seq(Alert)
<1>1. Cardinality(S) \in Nat
  BY FS_CardinalityType
<1>2. s \in [1..Cardinality(S) -> S]
  BY DEF SetToSeqs
<1>3. s \in Seq(S)
  BY <1>1, <1>2
<1> QED
  BY <1>3

\* The alerts of reconcile, and of forget, in any order.
LEMMA ScanAlerts ==
    ASSUME NEW m \in Manager, NEW current \in SUBSET Condition, NEW gone \in SUBSET Track,
           NEW first \in SetToSeqs(ReconcileAlerts(m, current)),
           NEW second \in SetToSeqs(ForgetAlerts(Reconciled(m, current), gone))
    PROVE  first \o second \in Seq(Alert)
<1>1. /\ Raised(m, current) \subseteq Condition
      /\ Due(m, current) \subseteq Condition
      /\ Over(m, current) \subseteq Condition
      /\ Concerned(Reconciled(m, current), gone) \subseteq Condition
  BY DEF Raised, Due, Over, Missed, Concerned, ActiveKeys
<1>2. {"NEW", "SUSTAINED", "CLEARED"} \subseteq AlertState
  BY DEF AlertState
<1>3. /\ IsFiniteSet(ReconcileAlerts(m, current))
      /\ ReconcileAlerts(m, current) \subseteq Alert
  BY <1>1, <1>2, AlertsFinite, FS_Union DEF ReconcileAlerts
<1>4. /\ IsFiniteSet(ForgetAlerts(Reconciled(m, current), gone))
      /\ ForgetAlerts(Reconciled(m, current), gone) \subseteq Alert
  BY <1>1, <1>2, AlertsFinite DEF ForgetAlerts
<1>5. first \in Seq(Alert) /\ second \in Seq(Alert)
  BY <1>3, <1>4, OrderedAlerts
<1> QED
  BY <1>5

-----------------------------------------------------------------------------
(* The picture. *)

Picture == [Track -> Age \cup {Unseen}]

\* The clock moving on ages the tracks and loses none of them.
LEMMA AdvancedKeeps ==
    ASSUME NEW view \in Picture, NEW by \in Nat
    PROVE  /\ Advanced(view, by) \in Picture
           /\ Known(Advanced(view, by)) = Known(view)
<1>1. ASSUME NEW t \in Track
      PROVE  /\ view[t] = Unseen => Advanced(view, by)[t] = Unseen
             /\ view[t] # Unseen => Advanced(view, by)[t] \in Age
  <2>1. CASE view[t] = Unseen
    BY <2>1 DEF Advanced
  <2>2. CASE view[t] # Unseen
    <3>1. view[t] \in Age
      BY <2>2 DEF Picture
    <3>2. Advanced(view, by)[t]
            = IF view[t] + by <= StaleAfter THEN view[t] + by ELSE StaleAfter + 1
      BY <2>2 DEF Advanced
    <3> QED
      BY <2>2, <3>1, <3>2, ServiceAssumption DEF Age
  <2> QED
    BY <2>1, <2>2
<1>2. Unseen \notin Age
  BY ServiceAssumption DEF Unseen, Age
<1>3. Advanced(view, by) \in Picture
  BY <1>1 DEF Advanced, Picture
<1> QED
  BY <1>1, <1>2, <1>3 DEF Known

\* Dropping the stale tracks leaves the rest as it was.
LEMMA FreshKeeps ==
    ASSUME NEW view \in Picture
    PROVE  /\ Fresh(view) \in Picture
           /\ Known(Fresh(view)) = Known(view) \ Stale(view)
BY DEF Fresh, Picture, Known, Stale

\* Redis holds what it held, nothing, or a new entry.
LEMMA AppliedKeeps ==
    ASSUME NEW alerts, store \in [Condition -> 0..NoEntry]
    PROVE  Applied(alerts) \in [Condition -> 0..NoEntry]
<1>1. 0 \in 0..NoEntry /\ NoEntry \in 0..NoEntry
  BY ServiceAssumption DEF NoEntry
<1> QED
  BY <1>1 DEF Applied

-----------------------------------------------------------------------------
(* The steps. *)

\* An update puts its track into the picture, and its finding is about it.
LEMMA AbsorbStep ==
    ASSUME ConformanceInv, NEW t \in Track, NEW age \in Age, Absorb(t, age)
    PROVE  ConformanceInv'
<1> DEFINE by == IF age < 0 /\ lead - age <= MaxLead THEN -age ELSE 0
<1>1. /\ age \in Int /\ -MaxSkew <= age /\ age <= StaleAfter + 1
      /\ lead \in 0..MaxLead /\ MaxLead \in Nat /\ MaxSkew \in Nat /\ StaleAfter \in Nat
  BY ServiceAssumption DEF Age, ConformanceInv, TypeOK, ViewTypeOK
<1>2. by \in Nat /\ age + by \in Age /\ lead + by \in 0..MaxLead
  BY <1>1 DEF Age
<1>3. /\ picture' = [Advanced(picture, by) EXCEPT ![t] = age + by]
      /\ lead' = lead + by
      /\ active' = Older(active, by)
  BY DEF Absorb
<1>4. /\ Advanced(picture, by) \in Picture
      /\ Known(Advanced(picture, by)) = Known(picture)
  BY <1>2, AdvancedKeeps DEF ConformanceInv, TypeOK, ViewTypeOK, Picture
<1>5. Unseen \notin Age
  BY ServiceAssumption DEF Unseen, Age
<1>6. picture' \in Picture /\ Known(picture)' = Known(picture) \cup {t}
  BY <1>2, <1>3, <1>4, <1>5 DEF Picture, Known
<1>7. active' \in Manager /\ ActiveKeys(active)' = ActiveKeys(active)
  BY <1>2, <1>3, OlderKeeps DEF ConformanceInv, TypeOK, ScanTypeOK
<1>8. PICK found \in SUBSET {c \in Measured : About[c] = {t}} : findings' = findings \cup found
  BY DEF Absorb, Observe
<1>9. UNCHANGED <<terminated, scanVars, announced, store, crashes, faults>>
  BY DEF Absorb
<1>10. TypeOK'
  <2>1. ViewTypeOK'
    BY <1>2, <1>3, <1>6, <1>8, <1>9
       DEF Picture, ConformanceInv, TypeOK, ViewTypeOK
  <2>2. ScanTypeOK' /\ OutputTypeOK'
    BY <1>7, <1>9 DEF ConformanceInv, TypeOK, ScanTypeOK, OutputTypeOK, scanVars
  <2> QED
    BY <2>1, <2>2 DEF TypeOK
<1>11. AlertsAreAnswerable'
  <2>1. ASSUME NEW c \in (ActiveKeys(active) \cup findings)', NEW u \in About[c]
        PROVE  Answerable(u)'
    <3>1. CASE c \in ActiveKeys(active) \cup findings
      BY <1>6, <1>9, <2>1, <3>1 DEF ConformanceInv, AlertsAreAnswerable, Answerable
    <3>2. CASE c \notin ActiveKeys(active) \cup findings
      <4>1. About[c] = {t}
        BY <1>7, <1>8, <2>1, <3>2
      <4> QED
        BY <1>6, <2>1, <4>1 DEF Answerable
    <3> QED
      BY <3>1, <3>2
  <2> QED
    BY <2>1 DEF AlertsAreAnswerable
<1> QED
  BY <1>9, <1>10, <1>11 DEF ConformanceInv, AwaitsForAlert, scanVars

\* A track that ends leaves the picture and waits for the scan's release.
LEMMA AbsorbTerminatedStep ==
    ASSUME ConformanceInv, NEW t \in Track, AbsorbTerminated(t)
    PROVE  ConformanceInv'
<1>1. /\ picture' = [picture EXCEPT ![t] = Unseen]
      /\ terminated' = terminated \cup {t}
      /\ UNCHANGED <<findings, lead, active, scanVars, announced, store, crashes, faults>>
  BY DEF AbsorbTerminated
<1>2. TypeOK'
  BY <1>1 DEF ConformanceInv, TypeOK, ViewTypeOK, ScanTypeOK, OutputTypeOK, scanVars
<1>3. (Known(picture) \cup terminated) \subseteq (Known(picture) \cup terminated)'
  BY <1>1 DEF Known, ConformanceInv, TypeOK, ViewTypeOK
<1>4. AlertsAreAnswerable'
  BY <1>1, <1>3 DEF ConformanceInv, AlertsAreAnswerable, Answerable
<1> QED
  BY <1>1, <1>2, <1>4 DEF ConformanceInv, AwaitsForAlert, scanVars

\* A scan releases whatever leaves the picture or has left it.
LEMMA ScanStep ==
    ASSUME ConformanceInv, Scan
    PROVE  ConformanceInv'
<1>1. PICK detected \in SUBSET Detectable(Fresh(picture)) :
         ScanWith(detected \cup findings, Stale(picture) \cup terminated)
  BY DEF Scan
<1> DEFINE current == detected \cup findings
           gone == Stale(picture) \cup terminated
<1>2. /\ picture' = Fresh(picture) /\ terminated' = {} /\ findings' = {}
      /\ scanned' = TRUE
      /\ UNCHANGED <<lead, announced, store, crashes, faults>>
  BY DEF Scan
<1>3. /\ picture \in Picture /\ active \in Manager
      /\ findings \subseteq Measured /\ terminated \subseteq Track
  BY DEF ConformanceInv, TypeOK, ViewTypeOK, ScanTypeOK, Picture
<1>4. current \in SUBSET Condition /\ gone \in SUBSET Track
  BY <1>3, ServiceAssumption DEF Detectable, Stale, Known
<1>5. /\ Fresh(picture) \in Picture
      /\ Known(Fresh(picture)) = Known(picture) \ Stale(picture)
  BY <1>3, FreshKeeps
<1>6. /\ Reconciled(active, current) \in Manager
      /\ ActiveKeys(Reconciled(active, current)) \subseteq ActiveKeys(active) \cup current
  BY <1>3, <1>4, ReconciledKeeps
<1>7. active' = Forgotten(Reconciled(active, current), gone)
  BY <1>1 DEF ScanWith
<1>8. /\ active' \in Manager
      /\ \A c \in ActiveKeys(active') :
            c \in ActiveKeys(active) \cup current /\ About[c] \cap gone = {}
  <2>1. /\ Forgotten(Reconciled(active, current), gone) \in Manager
        /\ \A c \in ActiveKeys(Forgotten(Reconciled(active, current), gone)) :
              c \in ActiveKeys(Reconciled(active, current)) /\ About[c] \cap gone = {}
    BY <1>4, <1>6, ForgottenKeeps
  <2> QED
    BY <1>6, <1>7, <2>1
<1>9. PICK first \in SetToSeqs(ReconcileAlerts(active, current)),
           second \in SetToSeqs(ForgetAlerts(Reconciled(active, current), gone)) :
         Await(first \o second)
  BY <1>1 DEF ScanWith
<1>10. first \o second \in Seq(Alert)
  BY <1>3, <1>4, ScanAlerts
<1>11. /\ outbox' = first \o second /\ batch' = first \o second
       /\ stage' = IF first \o second = <<>> THEN "idle" ELSE "publishing"
  BY <1>9 DEF Await
<1>12. TypeOK'
  <2>1. ViewTypeOK'
    BY <1>2, <1>5 DEF Picture, ConformanceInv, TypeOK, ViewTypeOK
  <2>2. ScanTypeOK'
    BY <1>2, <1>8, <1>10, <1>11 DEF ScanTypeOK, Stage
  <2>3. OutputTypeOK'
    BY <1>2 DEF ConformanceInv, TypeOK, OutputTypeOK
  <2> QED
    BY <2>1, <2>2, <2>3 DEF TypeOK
<1>13. AlertsAreAnswerable'
  <2>1. ASSUME NEW c \in ActiveKeys(active'), NEW u \in About[c]
        PROVE  u \in Known(Fresh(picture))
    <3>1. u \notin gone /\ c \in ActiveKeys(active) \cup findings \cup detected
      BY <1>8, <2>1
    <3>2. CASE c \in detected
      BY <2>1, <3>2 DEF Detectable
    <3>3. CASE c \in ActiveKeys(active) \cup findings
      BY <1>5, <2>1, <3>1, <3>3 DEF ConformanceInv, AlertsAreAnswerable, Answerable
    <3> QED
      BY <3>1, <3>2, <3>3
  <2> QED
    BY <1>2, <2>1 DEF AlertsAreAnswerable, Answerable
<1> QED
  BY <1>11, <1>12, <1>13 DEF ConformanceInv, AwaitsForAlert

\* Publishing takes the alerts one by one.
LEMMA PublishStep ==
    ASSUME ConformanceInv, PublishAlert \/ PublishFails
    PROVE  ConformanceInv'
<1>1. /\ outbox \in Seq(Alert) /\ outbox # <<>>
      /\ announced \in [Condition -> AlertState \cup {"NONE"}]
  BY DEF PublishAlert, PublishFails, ConformanceInv, AwaitsForAlert, TypeOK, ScanTypeOK,
         OutputTypeOK
<1>2. Head(outbox) \in Alert /\ Tail(outbox) \in Seq(Alert) /\ Len(outbox) \in Nat
      /\ (Tail(outbox) = <<>> => Len(outbox) = 1)
  <2>1. Len(outbox) \in Nat /\ Len(outbox) > 0 /\ Head(outbox) = outbox[1]
    BY <1>1
  <2>2. Tail(outbox) \in Seq(Alert) /\ Len(Tail(outbox)) = Len(outbox) - 1
    BY <1>1, <2>1
  <2>3. Head(outbox) \in Alert
    BY <1>1, <2>1
  <2>4. Len(<<>>) = 0
    OBVIOUS
  <2>5. Tail(outbox) = <<>> => Len(Tail(outbox)) = 0
    BY <2>4
  <2> QED
    BY <2>1, <2>2, <2>3, <2>5
<1>3. Announce \/ UNCHANGED announced => announced' \in [Condition -> AlertState \cup {"NONE"}]
  BY <1>1, <1>2 DEF Announce, Alert
<1>4. CASE PublishAlert
  <2>1. TypeOK'
    BY <1>2, <1>3, <1>4
       DEF PublishAlert, ConformanceInv, TypeOK, ViewTypeOK, ScanTypeOK, OutputTypeOK,
           viewVars, Stage
  <2>2. AwaitsForAlert'
    BY <1>2, <1>4 DEF PublishAlert, AwaitsForAlert
  <2> QED
    BY <1>4, <2>1, <2>2
       DEF PublishAlert, ConformanceInv, AlertsAreAnswerable, Answerable, viewVars
<1>5. CASE PublishFails
  <2>1. TypeOK'
    BY <1>3, <1>5
       DEF PublishFails, FinishScan, ConformanceInv, TypeOK, ViewTypeOK, ScanTypeOK,
           OutputTypeOK, viewVars, Stage
  <2> QED
    BY <1>5, <2>1
       DEF PublishFails, FinishScan, AwaitsForAlert, ConformanceInv, AlertsAreAnswerable,
           Answerable, viewVars
<1> QED
  BY <1>4, <1>5

\* Redis takes the batch, or the part of it before the failure.
LEMMA ApplyStep ==
    ASSUME ConformanceInv, Apply \/ ApplyFails
    PROVE  ConformanceInv'
<1>1. store \in [Condition -> 0..NoEntry]
  BY DEF ConformanceInv, TypeOK, OutputTypeOK
<1>2. store' \in [Condition -> 0..NoEntry]
  <2>1. PICK alerts : store' = Applied(alerts)
    BY DEF Apply, ApplyFails
  <2> QED
    BY <1>1, <2>1, AppliedKeeps
<1>3. /\ UNCHANGED <<viewVars, active, scanned, announced, crashes>>
      /\ FinishScan /\ faults' \in Nat
  BY DEF Apply, ApplyFails, ConformanceInv, TypeOK, OutputTypeOK
<1>4. TypeOK'
  BY <1>2, <1>3
     DEF FinishScan, ConformanceInv, TypeOK, ViewTypeOK, ScanTypeOK, OutputTypeOK, viewVars,
         Stage
<1> QED
  BY <1>3, <1>4
     DEF FinishScan, AwaitsForAlert, ConformanceInv, AlertsAreAnswerable, Answerable, viewVars

\* Time ages what there is.
LEMMA TickStep ==
    ASSUME ConformanceInv, Tick
    PROVE  ConformanceInv'
<1>1. /\ picture \in Picture /\ active \in Manager /\ lead \in 0..MaxLead
      /\ store \in [Condition -> 0..NoEntry]
  BY DEF ConformanceInv, TypeOK, ViewTypeOK, ScanTypeOK, OutputTypeOK, Picture
<1>2. /\ UNCHANGED <<terminated, findings, stage, outbox, batch, announced, crashes, faults>>
      /\ Expire /\ scanned' = FALSE
  BY DEF Tick
<1>3. store' \in [Condition -> 0..NoEntry]
  BY <1>1, <1>2, ServiceAssumption DEF Expire, NoEntry
<1>4. /\ picture' \in Picture /\ Known(picture)' = Known(picture)
      /\ active' \in Manager /\ ActiveKeys(active)' = ActiveKeys(active)
      /\ lead' \in 0..MaxLead
  <2>1. CASE lead > 0
    BY <1>1, <2>1, ServiceAssumption DEF Tick, Known, ActiveKeys
  <2>2. CASE ~(lead > 0)
    <3>1. picture' = Advanced(picture, 1) /\ active' = Older(active, 1) /\ lead' = lead
      BY <2>2 DEF Tick
    <3> QED
      BY <1>1, <3>1, AdvancedKeeps, OlderKeeps
  <2> QED
    BY <2>1, <2>2
<1>5. TypeOK'
  BY <1>2, <1>3, <1>4
     DEF ConformanceInv, TypeOK, ViewTypeOK, ScanTypeOK, OutputTypeOK, Picture
<1> QED
  BY <1>2, <1>4, <1>5 DEF ConformanceInv, AlertsAreAnswerable, Answerable, AwaitsForAlert

\* A new process holds nothing.
LEMMA CrashStep ==
    ASSUME ConformanceInv, Crash
    PROVE  ConformanceInv'
<1>1. /\ stage' = "down" /\ picture' = [t \in Track |-> Unseen]
      /\ terminated' = {} /\ findings' = {} /\ lead' = 0
      /\ active' = [c \in Condition |-> NotActive]
      /\ outbox' = <<>> /\ batch' = <<>> /\ scanned' = FALSE
      /\ crashes' = crashes + 1
      /\ UNCHANGED <<announced, store, faults>>
  BY DEF Crash
<1>2. TypeOK'
  <2>1. ViewTypeOK'
    BY <1>1, ServiceAssumption DEF ViewTypeOK
  <2>2. <<>> \in Seq(Alert) /\ active' \in Manager
    BY <1>1 DEF Manager
  <2>3. ScanTypeOK'
    BY <1>1, <2>2 DEF ScanTypeOK, Stage
  <2>4. OutputTypeOK'
    BY <1>1 DEF ConformanceInv, TypeOK, OutputTypeOK
  <2> QED
    BY <2>1, <2>3, <2>4 DEF TypeOK
<1>3. ActiveKeys(active)' = {}
  BY <1>1 DEF ActiveKeys
<1> QED
  BY <1>1, <1>2, <1>3 DEF ConformanceInv, AlertsAreAnswerable, AwaitsForAlert

-----------------------------------------------------------------------------
(* The theorems. *)

\* The invariant holds of a service that has just been created.
LEMMA InitInv ==
    ASSUME Init
    PROVE  ConformanceInv
<1>1. TypeOK
  <2>1. ViewTypeOK
    BY ServiceAssumption DEF Init, ViewTypeOK
  <2>2. <<>> \in Seq(Alert) /\ active \in Manager
    BY DEF Init, Manager
  <2>3. ScanTypeOK
    BY <2>2 DEF Init, ScanTypeOK, Stage
  <2>4. OutputTypeOK
    BY ServiceAssumption DEF Init, OutputTypeOK, NoEntry
  <2> QED
    BY <2>1, <2>3, <2>4 DEF TypeOK
<1>2. ActiveKeys(active) = {} /\ findings = {}
  BY DEF Init, ActiveKeys
<1> QED
  BY <1>1, <1>2 DEF Init, ConformanceInv, AlertsAreAnswerable, AwaitsForAlert

\* Every handler, timer, failure and restart preserves the invariant.
LEMMA NextInv ==
    ASSUME ConformanceInv, [Next]_vars
    PROVE  ConformanceInv'
<1>1. ASSUME NEW t \in Track, AbsorbTerminated(t) PROVE ConformanceInv'
  BY <1>1, AbsorbTerminatedStep
<1>2. ASSUME NEW t \in Track, NEW age \in Age, Absorb(t, age) PROVE ConformanceInv'
  BY <1>2, AbsorbStep
<1>3. CASE Scan
  BY <1>3, ScanStep
<1>4. CASE PublishAlert \/ PublishFails
  BY <1>4, PublishStep
<1>5. CASE Apply \/ ApplyFails
  BY <1>5, ApplyStep
<1>6. CASE Tick
  BY <1>6, TickStep
<1>7. CASE Crash
  BY <1>7, CrashStep
<1>8. CASE Start
  BY <1>8 DEF Start, ConformanceInv, TypeOK, ViewTypeOK, ScanTypeOK, OutputTypeOK,
              AlertsAreAnswerable, Answerable, AwaitsForAlert, viewVars, Stage
<1>9. CASE UNCHANGED vars
  BY <1>9 DEF ConformanceInv, TypeOK, ViewTypeOK, ScanTypeOK, OutputTypeOK,
              AlertsAreAnswerable, Answerable, AwaitsForAlert, vars, viewVars, scanVars
<1> QED
  BY <1>1, <1>2, <1>3, <1>4, <1>5, <1>6, <1>7, <1>8, <1>9 DEF Next

\* The inductive invariant: whatever updates arrive, whenever the scanner runs,
\* and whatever fails, the manager's alerts are about tracks it will release.
THEOREM InvariantHolds == Spec => []ConformanceInv
<1>1. Init => ConformanceInv
  BY InitInv
<1>2. ConformanceInv /\ [Next]_vars => ConformanceInv'
  BY NextInv
<1> QED
  BY <1>1, <1>2, PTL DEF Spec

\* Type correctness of the service: picture, manager, batch, topic and display.
THEOREM TypeCorrect == Spec => []TypeOK
<1>1. ConformanceInv => TypeOK
  BY DEF ConformanceInv
<1> QED
  BY <1>1, InvariantHolds, PTL

\* No alert outlives its aircraft: an active alert, or a finding on its way to
\* one, is about tracks in the picture or tracks the next scan releases (absorb
\* defers the release of a terminated track to the scan).
THEOREM AlertsStayAnswerable == Spec => []AlertsAreAnswerable
<1>1. ConformanceInv => AlertsAreAnswerable
  BY DEF ConformanceInv
<1> QED
  BY <1>1, InvariantHolds, PTL

-----------------------------------------------------------------------------
(* What the alerts of one scan say. *)

\* What is said twice of a key is that it is so and then that it is over: a track's
\* release ends what the reconciliation of the same scan began.
ClearedLast(alerts) ==
    \A i, j \in DOMAIN alerts :
        i < j /\ alerts[i].key = alerts[j].key =>
            alerts[i].state # "CLEARED" /\ alerts[j].state = "CLEARED"

\* The last word on a key is what the manager holds.
LastSaid(alerts, manager) ==
    \A i \in DOMAIN alerts :
        (\A j \in DOMAIN alerts : alerts[j].key = alerts[i].key => j <= i) =>
            (alerts[i].state = "CLEARED" <=> manager[alerts[i].key] = NotActive)

\* A kept alert about which a scan says nothing has been detected and is not due, or
\* has been missed and is not over.
Undisturbed(was, is) ==
    \/ was.since < SustainInterval /\ is = [was EXCEPT !.missed = 0]
    \/ is = [was EXCEPT !.missed = @ + 1]

\* An ordering of a finite set has each element at one place.
LEMMA OrderingIsOnto ==
    ASSUME NEW S, IsFiniteSet(S), NEW s \in SetToSeqs(S)
    PROVE  /\ Cardinality(S) \in Nat /\ s \in Seq(S) /\ Len(s) = Cardinality(S)
           /\ \A i, j \in 1..Len(s) : i # j => s[i] # s[j]
           /\ \A a \in S : \E i \in 1..Len(s) : s[i] = a
<1> DEFINE n == Cardinality(S)
<1>1. n \in Nat
  BY FS_CardinalityType
<1>2. s \in [1..n -> S] /\ \A i, j \in 1..n : i # j => s[i] # s[j]
  BY DEF SetToSeqs
<1>3. s \in Seq(S) /\ Len(s) = n
  BY <1>1, <1>2
<1>4. s \in Surjection(1..n, S)
  <2>1. s \in Injection(1..n, S)
    BY <1>2 DEF Injection, IsInjective
  <2>2. Cardinality(1..n) = n
    BY <1>1, FS_Interval
  <2> QED
    BY <1>1, <2>1, <2>2, FS_Injection
<1>5. \A a \in S : \E i \in 1..n : s[i] = a
  BY <1>4 DEF Surjection
<1> QED
  BY <1>1, <1>2, <1>3, <1>5

\* What reconcile says of a key, and that it says it once.
LEMMA ReconcileSays ==
    ASSUME NEW m \in Manager, NEW current \in SUBSET Condition
    PROVE  /\ \A a \in ReconcileAlerts(m, current) :
                 \/ a.state = "NEW" /\ a.key \in Raised(m, current)
                 \/ a.state = "SUSTAINED" /\ a.key \in Due(m, current)
                 \/ a.state = "CLEARED" /\ a.key \in Over(m, current)
           /\ \A a, b \in ReconcileAlerts(m, current) : a.key = b.key => a = b
           /\ \A c \in Raised(m, current) : [key |-> c, state |-> "NEW"] \in ReconcileAlerts(m, current)
           /\ \A c \in Due(m, current) : [key |-> c, state |-> "SUSTAINED"] \in ReconcileAlerts(m, current)
           /\ \A c \in Over(m, current) : [key |-> c, state |-> "CLEARED"] \in ReconcileAlerts(m, current)
<1>1. \A a \in ReconcileAlerts(m, current) :
         \/ a.state = "NEW" /\ a.key \in Raised(m, current)
         \/ a.state = "SUSTAINED" /\ a.key \in Due(m, current)
         \/ a.state = "CLEARED" /\ a.key \in Over(m, current)
  BY DEF ReconcileAlerts, Alerts
<1>2. \A a \in ReconcileAlerts(m, current) : a = [key |-> a.key, state |-> a.state]
  BY DEF ReconcileAlerts, Alerts
<1>3. /\ Raised(m, current) \cap Due(m, current) = {}
      /\ Raised(m, current) \cap Over(m, current) = {}
      /\ Due(m, current) \cap Over(m, current) = {}
  BY DEF Raised, Due, Over, Missed
<1>4. \A a, b \in ReconcileAlerts(m, current) : a.key = b.key => a = b
  <2>1. ASSUME NEW a \in ReconcileAlerts(m, current), NEW b \in ReconcileAlerts(m, current),
               a.key = b.key
        PROVE  a = b
    <3>1. a.state = b.state
      BY <1>1, <1>3, <2>1
    <3> QED
      BY <1>2, <2>1, <3>1
  <2> QED
    BY <2>1
<1> QED
  BY <1>1, <1>4 DEF ReconcileAlerts, Alerts

\* What forget says of a key, and that it says it once.
LEMMA ForgetSays ==
    ASSUME NEW m, NEW gone
    PROVE  /\ \A a \in ForgetAlerts(m, gone) : a.state = "CLEARED" /\ a.key \in Concerned(m, gone)
           /\ \A a, b \in ForgetAlerts(m, gone) : a.key = b.key => a = b
           /\ \A c \in Concerned(m, gone) : [key |-> c, state |-> "CLEARED"] \in ForgetAlerts(m, gone)
<1>1. \A a \in ForgetAlerts(m, gone) :
         a.state = "CLEARED" /\ a.key \in Concerned(m, gone) /\ a = [key |-> a.key, state |-> a.state]
  BY DEF ForgetAlerts, Alerts
<1>2. \A a, b \in ForgetAlerts(m, gone) : a.key = b.key => a = b
  BY <1>1
<1> QED
  BY <1>1, <1>2 DEF ForgetAlerts, Alerts

\* What a scan says, told from the manager before and after: it raises what was not
\* active, ends on what is so, and is silent only of what it leaves as it was.
Says(alerts, m, after) ==
    /\ ClearedLast(alerts)
    /\ LastSaid(alerts, after)
    /\ \A i \in DOMAIN alerts :
          (\A j \in DOMAIN alerts : alerts[j].key = alerts[i].key => i <= j) =>
             (alerts[i].state = "NEW" <=> m[alerts[i].key] = NotActive)
    /\ \A c \in Condition :
          Mentions(alerts, c) = {} =>
             IF m[c] = NotActive THEN after[c] = NotActive
             ELSE Undisturbed(m[c], after[c]) /\ after[c] # NotActive

\* What becomes of a key in the manager.
LEMMA ReconciledFate ==
    ASSUME NEW m \in Manager, NEW current \in SUBSET Condition, NEW c \in Condition
    PROVE  LET r == Reconciled(m, current)[c]
           IN  /\ c \in Raised(m, current) \cup Due(m, current) => r # NotActive
               /\ c \in Over(m, current) => r = NotActive
               /\ c \notin Raised(m, current) \cup Due(m, current) \cup Over(m, current) =>
                     IF m[c] = NotActive THEN r = NotActive
                     ELSE Undisturbed(m[c], r) /\ r # NotActive
<1> DEFINE r == Reconciled(m, current)[c]
<1>1. ASSUME c \in Raised(m, current) \cup Due(m, current) PROVE r # NotActive
  <2>1. r = [missed |-> 0, since |-> 0]
    BY <1>1 DEF Reconciled
  <2> QED
    BY <2>1, AlertAssumption DEF NotActive
<1>2. ASSUME c \in Over(m, current) PROVE r = NotActive
  BY <1>2 DEF Reconciled, Raised, Due, Over, Missed
<1>3. ASSUME c \notin Raised(m, current) \cup Due(m, current) \cup Over(m, current)
      PROVE  IF m[c] = NotActive THEN r = NotActive
             ELSE Undisturbed(m[c], r) /\ r # NotActive
  <2>1. CASE m[c] = NotActive
    BY <1>3, <2>1 DEF Reconciled, Raised, Missed, ActiveKeys
  <2>2. CASE m[c] # NotActive /\ c \in current
    <3>1. r = [m[c] EXCEPT !.missed = 0]
      BY <1>3, <2>2 DEF Reconciled
    <3>2. m[c] \in Active /\ ~(m[c].since >= SustainInterval)
      BY <1>3, <2>2 DEF Due, ActiveKeys, Manager
    <3>3. m[c].since < SustainInterval
      BY <3>2, AlertAssumption DEF Active
    <3>4. r.missed = 0
      BY <3>1, <3>2 DEF Active
    <3>5. r # NotActive
      BY <3>4, AlertAssumption DEF NotActive
    <3> QED
      BY <2>2, <3>1, <3>3, <3>5 DEF Undisturbed
  <2>3. CASE m[c] # NotActive /\ c \notin current
    <3>1. c \in Missed(m, current) \ Over(m, current)
      BY <1>3, <2>3 DEF Missed, ActiveKeys
    <3>2. r = [m[c] EXCEPT !.missed = @ + 1]
      BY <1>3, <2>3, <3>1 DEF Reconciled
    <3>3. m[c] \in Active /\ ~(m[c].missed + 1 >= ClearAfter)
      BY <2>3, <3>1 DEF Manager, Over
    <3>4. r.missed # ClearAfter
      BY <3>2, <3>3, AlertAssumption DEF Active
    <3>5. r # NotActive
      BY <3>4 DEF NotActive
    <3> QED
      BY <2>3, <3>2, <3>5 DEF Undisturbed
  <2> QED
    BY <2>1, <2>2, <2>3
<1> QED
  BY <1>1, <1>2, <1>3

\* The alerts of a scan: at most two of a key, the last as the manager then holds it,
\* the first NEW if the manager did not hold it, and none if nothing happened to it.
LEMMA ScanSays ==
    ASSUME NEW m \in Manager, NEW current \in SUBSET Condition, NEW gone \in SUBSET Track,
           NEW first \in SetToSeqs(ReconcileAlerts(m, current)),
           NEW second \in SetToSeqs(ForgetAlerts(Reconciled(m, current), gone))
    PROVE  Says(first \o second, m, Forgotten(Reconciled(m, current), gone))
<1> DEFINE R == Reconciled(m, current)
           F == ReconcileAlerts(m, current)
           G == ForgetAlerts(R, gone)
           alerts == first \o second
           after == Forgotten(R, gone)
           p == Len(first)
           q == Len(second)
<1>1. /\ Raised(m, current) \subseteq Condition
      /\ Due(m, current) \subseteq Condition
      /\ Over(m, current) \subseteq Condition
      /\ Concerned(R, gone) \subseteq Condition
      /\ R \in Manager
  BY ReconciledKeeps DEF Raised, Due, Over, Missed, Concerned, ActiveKeys
<1>2. {"NEW", "SUSTAINED", "CLEARED"} \subseteq AlertState
  BY DEF AlertState
<1>3. IsFiniteSet(F) /\ IsFiniteSet(G)
  BY <1>1, <1>2, AlertsFinite, FS_Union DEF ReconcileAlerts, ForgetAlerts
<1>4. /\ p \in Nat /\ first \in Seq(F)
      /\ \A i, j \in 1..p : i # j => first[i] # first[j]
      /\ \A a \in F : \E i \in 1..p : first[i] = a
  BY <1>3, OrderingIsOnto
<1>5. /\ q \in Nat /\ second \in Seq(G)
      /\ \A i, j \in 1..q : i # j => second[i] # second[j]
      /\ \A a \in G : \E i \in 1..q : second[i] = a
  BY <1>3, OrderingIsOnto
<1> HIDE DEF F, G
<1>6. /\ DOMAIN alerts = 1..(p + q)
      /\ \A i \in 1..p : alerts[i] = first[i] /\ alerts[i] \in F
      /\ \A i \in (p + 1)..(p + q) : alerts[i] = second[i - p] /\ alerts[i] \in G
  BY <1>4, <1>5
<1> HIDE DEF alerts, p, q
<1>7. \A a \in F : \E i \in 1..p : alerts[i] = a
  BY <1>4, <1>6
<1>8. \A a \in G : \E i \in (p + 1)..(p + q) : alerts[i] = a
  <2>1. TAKE a \in G
  <2>2. PICK i \in 1..q : second[i] = a
    BY <1>5
  <2>3. i + p \in (p + 1)..(p + q) /\ (i + p) - p = i
    BY <1>4, <1>5
  <2> QED
    BY <1>6, <2>2, <2>3
<1>9. /\ \A a \in F : \/ a.state = "NEW" /\ a.key \in Raised(m, current)
                      \/ a.state = "SUSTAINED" /\ a.key \in Due(m, current)
                      \/ a.state = "CLEARED" /\ a.key \in Over(m, current)
      /\ \A a, b \in F : a.key = b.key => a = b
      /\ \A c \in Raised(m, current) : [key |-> c, state |-> "NEW"] \in F
      /\ \A c \in Due(m, current) : [key |-> c, state |-> "SUSTAINED"] \in F
      /\ \A c \in Over(m, current) : [key |-> c, state |-> "CLEARED"] \in F
  BY ReconcileSays DEF F
<1>10. /\ \A a \in G : a.state = "CLEARED" /\ a.key \in Concerned(R, gone)
       /\ \A a, b \in G : a.key = b.key => a = b
       /\ \A c \in Concerned(R, gone) : [key |-> c, state |-> "CLEARED"] \in G
  BY ForgetSays DEF G
<1>11. \A i, j \in 1..p : alerts[i].key = alerts[j].key => i = j
  <2>1. TAKE i, j \in 1..p
  <2>2. HAVE alerts[i].key = alerts[j].key
  <2>3. alerts[i] = alerts[j]
    BY <1>6, <1>9, <2>2
  <2>4. first[i] = first[j]
    BY <1>6, <2>3
  <2> QED
    BY <1>4, <2>4
<1>12. \A i, j \in (p + 1)..(p + q) : alerts[i].key = alerts[j].key => i = j
  <2>1. TAKE i, j \in (p + 1)..(p + q)
  <2>2. HAVE alerts[i].key = alerts[j].key
  <2>3. alerts[i] = alerts[j]
    BY <1>6, <1>10, <2>2
  <2>4. second[i - p] = second[j - p]
    BY <1>6, <2>3
  <2>5. i - p \in 1..q /\ j - p \in 1..q
    BY <1>4, <1>5
  <2>6. i - p = j - p
    BY <1>5, <2>4, <2>5
  <2> QED
    BY <1>4, <1>5, <2>6
<1>13. \A c \in Condition :
          /\ c \in Raised(m, current) \cup Due(m, current) => R[c] # NotActive
          /\ c \in Over(m, current) => R[c] = NotActive
          /\ c \notin Raised(m, current) \cup Due(m, current) \cup Over(m, current) =>
                IF m[c] = NotActive THEN R[c] = NotActive
                ELSE Undisturbed(m[c], R[c]) /\ R[c] # NotActive
  BY ReconciledFate
<1>14. \A c \in Condition :
          /\ c \in Concerned(R, gone) => R[c] # NotActive /\ after[c] = NotActive
          /\ c \notin Concerned(R, gone) => after[c] = R[c]
  BY DEF Concerned, ActiveKeys, Forgotten
<1>15. /\ \A c \in Raised(m, current) : m[c] = NotActive
       /\ \A c \in Due(m, current) \cup Over(m, current) : m[c] # NotActive
  BY <1>1 DEF Raised, Due, Over, Missed, ActiveKeys
<1>16. \A i \in DOMAIN alerts : i \in Nat /\ (i \in 1..p \/ i \in (p + 1)..(p + q))
  BY <1>4, <1>5, <1>6
<1>17. \A i \in 1..p, j \in (p + 1)..(p + q) :
          i < j /\ i \in DOMAIN alerts /\ j \in DOMAIN alerts
  BY <1>4, <1>5, <1>6
<1> HIDE DEF R, after
<1>18. ClearedLast(alerts)
  <2>1. ASSUME NEW i \in DOMAIN alerts, NEW j \in DOMAIN alerts, i < j,
               alerts[i].key = alerts[j].key
        PROVE  alerts[i].state # "CLEARED" /\ alerts[j].state = "CLEARED"
    <3>1. i \in 1..p /\ j \in (p + 1)..(p + q)
      <4>1. ~(i \in 1..p /\ j \in 1..p) /\ ~(i \in (p + 1)..(p + q) /\ j \in (p + 1)..(p + q))
        BY <1>11, <1>12, <1>16, <2>1
      <4>2. ~(j \in 1..p /\ i \in (p + 1)..(p + q))
        BY <1>16, <1>17, <2>1
      <4> QED
        BY <1>16, <2>1, <4>1, <4>2
    <3>2. alerts[j].state = "CLEARED" /\ alerts[j].key \in Concerned(R, gone)
      BY <1>6, <1>10, <3>1
    <3>3. alerts[i].key \notin Over(m, current)
      BY <1>1, <1>13, <1>14, <2>1, <3>2
    <3> QED
      BY <1>6, <1>9, <3>1, <3>2, <3>3
  <2> QED
    BY <2>1 DEF ClearedLast
<1>19. LastSaid(alerts, after)
  <2>1. ASSUME NEW i \in DOMAIN alerts,
               \A j \in DOMAIN alerts : alerts[j].key = alerts[i].key => j <= i
        PROVE  alerts[i].state = "CLEARED" <=> after[alerts[i].key] = NotActive
    <3> DEFINE c == alerts[i].key
    <3>1. CASE i \in (p + 1)..(p + q)
      <4>1. alerts[i].state = "CLEARED" /\ c \in Concerned(R, gone)
        BY <1>6, <1>10, <3>1
      <4> QED
        BY <1>1, <1>14, <4>1
    <3>2. CASE i \in 1..p
      <4>1. c \notin Concerned(R, gone)
        <5>1. ASSUME c \in Concerned(R, gone) PROVE FALSE
          <6>1. PICK j \in (p + 1)..(p + q) : alerts[j] = [key |-> c, state |-> "CLEARED"]
            BY <1>8, <1>10, <5>1
          <6> QED
            BY <1>16, <1>17, <2>1, <3>2, <6>1
        <5> QED
          BY <5>1
      <4>2. alerts[i] \in F
        BY <1>6, <3>2
      <4>3. c \in Condition /\ after[c] = R[c]
        BY <1>1, <1>9, <1>14, <4>1, <4>2
      <4> QED
        BY <1>9, <1>13, <4>2, <4>3
    <3> QED
      BY <1>16, <3>1, <3>2
  <2> QED
    BY <2>1 DEF LastSaid
<1>20. ASSUME NEW i \in DOMAIN alerts,
              \A j \in DOMAIN alerts : alerts[j].key = alerts[i].key => i <= j
       PROVE  alerts[i].state = "NEW" <=> m[alerts[i].key] = NotActive
  <2> DEFINE c == alerts[i].key
  <2>1. CASE i \in 1..p
    <3>1. alerts[i] \in F
      BY <1>6, <2>1
    <3> QED
      BY <1>9, <1>15, <3>1
  <2>2. CASE i \in (p + 1)..(p + q)
    <3>1. alerts[i].state = "CLEARED" /\ c \in Concerned(R, gone)
      BY <1>6, <1>10, <2>2
    <3>2. c \in Condition /\ R[c] # NotActive
      BY <1>1, <1>14, <3>1
    <3>3. c \notin Raised(m, current)
      <4>1. ASSUME c \in Raised(m, current) PROVE FALSE
        <5>1. PICK j \in 1..p : alerts[j] = [key |-> c, state |-> "NEW"]
          BY <1>7, <1>9, <4>1
        <5> QED
          BY <1>16, <1>17, <1>20, <2>2, <5>1
      <4> QED
        BY <4>1
    <3>4. m[c] # NotActive
      BY <1>13, <1>15, <3>2, <3>3
    <3> QED
      BY <3>1, <3>4
  <2> QED
    BY <1>16, <2>1, <2>2
<1>21. ASSUME NEW c \in Condition, Mentions(alerts, c) = {}
       PROVE  IF m[c] = NotActive THEN after[c] = NotActive
              ELSE Undisturbed(m[c], after[c]) /\ after[c] # NotActive
  <2>1. \A i \in DOMAIN alerts : alerts[i].key # c
    BY <1>21 DEF Mentions
  <2>2. c \notin Raised(m, current) \cup Due(m, current) \cup Over(m, current)
    <3>1. \A s : [key |-> c, state |-> s] \notin F
      <4>1. ASSUME NEW s, [key |-> c, state |-> s] \in F PROVE FALSE
        <5>1. PICK i \in 1..p : alerts[i] = [key |-> c, state |-> s]
          BY <1>7, <4>1
        <5>2. i \in DOMAIN alerts
          BY <1>4, <1>5, <1>6
        <5> QED
          BY <2>1, <5>1, <5>2
      <4> QED
        BY <4>1
    <3> QED
      BY <1>9, <3>1
  <2>3. c \notin Concerned(R, gone)
    <3>1. ASSUME c \in Concerned(R, gone) PROVE FALSE
      <4>1. PICK i \in (p + 1)..(p + q) : alerts[i] = [key |-> c, state |-> "CLEARED"]
        BY <1>8, <1>10, <3>1
      <4>2. i \in DOMAIN alerts
        BY <1>4, <1>5, <1>6
      <4> QED
        BY <2>1, <4>1, <4>2
    <3> QED
      BY <3>1
  <2> QED
    BY <1>13, <1>14, <2>2, <2>3
<1> QED
  BY <1>18, <1>19, <1>20, <1>21 DEF Says, alerts, after, R
-----------------------------------------------------------------------------
(* The alert topic keeps its protocol. *)

\* The first word on a key is that it is raised, unless the topic has it open.
FirstSaid ==
    \A i \in DOMAIN outbox :
        (\A j \in DOMAIN outbox : outbox[j].key = outbox[i].key => i <= j) =>
            outbox[i].state = "NEW" \/ outbox[i].key \in OpenOnTopic

\* Of an alert the manager keeps and has nothing to say about, the topic knows.
Told == \A c \in ActiveKeys(active) : Mentions(outbox, c) = {} => c \in OpenOnTopic

\* The inductive invariant of the refinement: until a publish fails, topic and outbox
\* together say what the manager holds.
AnnounceInv ==
    /\ stage # "publishing" => outbox = <<>>
    /\ faults = 0 => ClearedLast(outbox) /\ LastSaid(outbox, active) /\ FirstSaid /\ Told

\* NEW is never said second, so that a key is raised if NEW is said of it at all.
LEMMA RaisedFirst ==
    ASSUME NEW alerts \in Seq(Alert), ClearedLast(alerts), NEW c, Mentions(alerts, c) # {}
    PROVE  alerts[Min(Mentions(alerts, c))].state = "NEW"
             <=> \E i \in Mentions(alerts, c) : alerts[i].state = "NEW"
<1> DEFINE M == Mentions(alerts, c)
<1>1. /\ M \subseteq DOMAIN alerts /\ DOMAIN alerts \subseteq Nat
      /\ \A i \in M : alerts[i].key = c
  BY DEF Mentions
<1>2. \A i, j \in M : i < j => alerts[i].state # "CLEARED" /\ alerts[j].state = "CLEARED"
  BY <1>1 DEF ClearedLast
<1>3. \E i \in M : \A j \in M : i =< j
  <2>1. PICK i \in M : TRUE
    OBVIOUS
  <2>2. CASE \E j \in M : j < i
    <3>1. PICK j \in M : j < i
      BY <2>2
    <3>2. ~\E k \in M : k < j
      BY <1>2, <3>1
    <3> QED
      BY <1>1, <3>2
  <2>3. CASE ~\E j \in M : j < i
    BY <1>1, <2>1, <2>3
  <2> QED
    BY <2>2, <2>3
<1>4. Min(M) \in M /\ \A j \in M : Min(M) =< j
  BY <1>3, Zenon DEF Min
<1>5. ASSUME NEW i \in M, alerts[i].state = "NEW" PROVE i = Min(M)
  <2>1. ~(Min(M) < i)
    BY <1>2, <1>4, <1>5
  <2> QED
    BY <1>1, <1>4, <2>1
<1> QED
  BY <1>4, <1>5

\* What is in a sequence of alerts.
LEMMA AlertsTyped ==
    ASSUME NEW alerts \in Seq(Alert)
    PROVE  /\ DOMAIN alerts \subseteq Nat
           /\ \A i \in DOMAIN alerts :
                 alerts[i] \in Alert /\ alerts[i].key \in Condition /\ alerts[i].state \in AlertState
<1>1. DOMAIN alerts \subseteq Nat /\ \A i \in DOMAIN alerts : alerts[i] \in Alert
  OBVIOUS
<1> QED
  BY <1>1 DEF Alert

\* A step that says nothing and keeps the alerts is none of the topic's.
LEMMA Unannounced ==
    ASSUME ConformanceInv, AnnounceInv, UNCHANGED <<outbox, announced, crashes>>,
           faults' = 0 => faults = 0,
           stage' # "publishing" => outbox = <<>>,
           active' \in Manager, ActiveKeys(active') = ActiveKeys(active)
    PROVE  /\ AnnounceInv'
           /\ faults' = 0 => UNCHANGED Protocol!vars
<1>1. \A c \in Condition : active'[c] = NotActive <=> active[c] = NotActive
  BY DEF ActiveKeys
<1>2. OpenOnTopic' = OpenOnTopic
  BY DEF OpenOnTopic
<1>3. outbox \in Seq(Alert)
  BY DEF ConformanceInv, TypeOK, ScanTypeOK
<1>4. \A i \in DOMAIN outbox : outbox[i].key \in Condition
  BY <1>3, AlertsTyped
<1>5. AnnounceInv'
  <2>1. ASSUME faults = 0 PROVE LastSaid(outbox, active')
    BY <1>1, <1>4, <2>1 DEF AnnounceInv, LastSaid
  <2>2. ASSUME faults = 0 PROVE ClearedLast(outbox)' /\ FirstSaid' /\ Told'
    BY <1>2, <2>2 DEF AnnounceInv, ClearedLast, FirstSaid, Told, Mentions
  <2> QED
    BY <2>1, <2>2 DEF AnnounceInv, LastSaid
<1>6. Orphaned' = Orphaned
  <2>1. \A c \in Condition : Mentions(outbox, c)' = Mentions(outbox, c) /\ NextSaid(c)' = NextSaid(c)
    BY DEF Mentions, NextSaid
  <2> QED
    BY <1>1, <1>2, <2>1 DEF Orphaned, OpenOnTopic
<1> QED
  BY <1>5, <1>6 DEF Protocol!vars

\* A scan decides what is going to be said; nothing has been said yet.
LEMMA ScanUnannounced ==
    ASSUME ConformanceInv, ConformanceInv', AnnounceInv, Scan
    PROVE  /\ AnnounceInv'
           /\ faults' = 0 => UNCHANGED Protocol!vars
<1>1. PICK detected \in SUBSET Detectable(Fresh(picture)) :
         ScanWith(detected \cup findings, Stale(picture) \cup terminated)
  BY DEF Scan
<1> DEFINE current == detected \cup findings
           gone == Stale(picture) \cup terminated
           R == Reconciled(active, current)
<1>2. UNCHANGED <<announced, crashes, faults>> /\ stage = "idle"
  BY DEF Scan
<1>3. active \in Manager /\ findings \subseteq Measured /\ terminated \subseteq Track
  BY DEF ConformanceInv, TypeOK, ViewTypeOK, ScanTypeOK
<1>4. current \in SUBSET Condition /\ gone \in SUBSET Track
  BY <1>3, ServiceAssumption DEF Detectable, Stale, Known
<1>5. PICK first \in SetToSeqs(ReconcileAlerts(active, current)),
           second \in SetToSeqs(ForgetAlerts(R, gone)) :
         Await(first \o second)
  BY <1>1 DEF ScanWith
<1>6. active' = Forgotten(R, gone)
  BY <1>1 DEF ScanWith
<1>7. outbox' = first \o second /\ (stage' # "publishing" => outbox' = <<>>)
  BY <1>5 DEF Await
<1>8. /\ ClearedLast(outbox')
      /\ LastSaid(outbox', active')
      /\ \A i \in DOMAIN outbox' :
            (\A j \in DOMAIN outbox' : outbox'[j].key = outbox'[i].key => i <= j) =>
               (outbox'[i].state = "NEW" <=> active[outbox'[i].key] = NotActive)
      /\ \A c \in Condition :
            Mentions(outbox', c) = {} => (active[c] = NotActive <=> active'[c] = NotActive)
  <2> DEFINE alerts == first \o second
             after == Forgotten(R, gone)
  <2>1. Says(alerts, active, after)
    BY <1>3, <1>4, ScanSays
  <2>2. outbox' = alerts /\ active' = after
    BY <1>6, <1>7
  <2> HIDE DEF alerts, after
  <2> QED
    BY <2>1, <2>2 DEF Says
<1>9. outbox = <<>> /\ \A c : Mentions(outbox, c) = {}
  BY <1>2 DEF AnnounceInv, Mentions
<1>10. outbox \in Seq(Alert) /\ outbox' \in Seq(Alert)
  BY DEF ConformanceInv, TypeOK, ScanTypeOK
<1>11. OpenOnTopic' = OpenOnTopic
  BY <1>2 DEF OpenOnTopic
<1>12. AnnounceInv'
  <2>1. ASSUME faults' = 0 PROVE FirstSaid' /\ Told'
    <3>1. ActiveKeys(active) \subseteq OpenOnTopic
      BY <1>2, <1>9, <2>1 DEF AnnounceInv, Told
    <3>2. \A i \in DOMAIN outbox' : outbox'[i].key \in Condition
      BY <1>10, AlertsTyped
    <3>3. FirstSaid'
      BY <1>8, <1>11, <3>1, <3>2 DEF FirstSaid, ActiveKeys
    <3>4. Told'
      BY <1>8, <1>11, <3>1 DEF Told, ActiveKeys
    <3> QED
      BY <3>3, <3>4
  <2> QED
    BY <1>7, <1>8, <2>1 DEF AnnounceInv
<1>13. Orphaned' = Orphaned
  <2>1. ASSUME NEW c \in OpenOnTopic
        PROVE  c \in Orphaned' <=> active[c] = NotActive
    <3> DEFINE M == Mentions(outbox', c)
    <3>1. c \in Orphaned' <=> /\ M = {} => active'[c] = NotActive
                              /\ M # {} => \E i \in M : outbox'[i].state = "NEW"
      <4>1. c \in Orphaned' <=> IF M = {} THEN active'[c] = NotActive
                                ELSE outbox'[Min(M)].state = "NEW"
        BY <1>11 DEF Orphaned, NextSaid, Mentions
      <4>2. M # {} => (outbox'[Min(M)].state = "NEW" <=> \E i \in M : outbox'[i].state = "NEW")
        BY <1>8, <1>10, RaisedFirst
      <4> QED
        BY <4>1, <4>2
    <3>2. CASE M = {}
      BY <1>8, <3>1, <3>2 DEF OpenOnTopic
    <3>3. CASE M # {}
      <4>1. /\ M \subseteq DOMAIN outbox' /\ DOMAIN outbox' \subseteq Nat
            /\ \A i \in DOMAIN outbox' : i \in M <=> outbox'[i].key = c
        BY <1>10 DEF Mentions
      <4>2. \A i, j \in M : i < j => outbox'[i].state # "CLEARED" /\ outbox'[j].state = "CLEARED"
        BY <1>8, <4>1 DEF ClearedLast
      <4>3. \A i \in M : (\A j \in M : i <= j) => (outbox'[i].state = "NEW" <=> active[c] = NotActive)
        BY <1>8, <4>1
      <4>4. PICK i \in M : TRUE
        BY <3>3
      <4>5. PICK k \in M : \A j \in M : k <= j
        <5>1. CASE \E j \in M : j < i
          <6>1. PICK j \in M : j < i
            BY <5>1
          <6>2. ~\E k \in M : k < j
            BY <4>2, <6>1
          <6> QED
            BY <4>1, <6>2
        <5>2. CASE ~\E j \in M : j < i
          BY <4>1, <4>4, <5>2
        <5> QED
          BY <5>1, <5>2
      <4>6. outbox'[k].state = "NEW" <=> active[c] = NotActive
        BY <4>3, <4>5
      <4>7. \A j \in M : j # k => outbox'[j].state = "CLEARED"
        BY <4>1, <4>2, <4>5
      <4> QED
        BY <3>1, <3>3, <4>5, <4>6, <4>7
    <3> QED
      BY <3>2, <3>3
  <2>2. Orphaned = {c \in OpenOnTopic : active[c] = NotActive}
    BY <1>9 DEF Orphaned
  <2>3. Orphaned' \subseteq OpenOnTopic'
    BY DEF Orphaned
  <2> QED
    BY <1>11, <2>1, <2>2, <2>3
<1> QED
  BY <1>2, <1>12, <1>13 DEF Protocol!vars

\* What is left of a sequence of alerts when its first is gone.
LEMMA TailMentions ==
    ASSUME NEW alerts \in Seq(Alert), alerts # <<>>
    PROVE  /\ 1 \in DOMAIN alerts /\ Head(alerts) = alerts[1] /\ Tail(alerts) \in Seq(Alert)
           /\ \A i \in DOMAIN Tail(alerts) :
                 i \in Nat /\ i + 1 \in DOMAIN alerts /\ Tail(alerts)[i] = alerts[i + 1]
           /\ \A i \in DOMAIN alerts :
                 i # 1 => /\ i \in Nat /\ 1 < i /\ i - 1 \in DOMAIN Tail(alerts)
                          /\ Tail(alerts)[i - 1] = alerts[i]
<1>1. Len(alerts) \in Nat /\ Len(alerts) > 0 /\ DOMAIN alerts = 1..Len(alerts)
  OBVIOUS
<1>2. /\ Tail(alerts) \in Seq(Alert) /\ Len(Tail(alerts)) = Len(alerts) - 1
      /\ DOMAIN Tail(alerts) = 1..(Len(alerts) - 1)
      /\ \A i \in 1..(Len(alerts) - 1) : Tail(alerts)[i] = alerts[i + 1]
  BY <1>1
<1>3. \A i \in DOMAIN alerts : i # 1 => i - 1 \in 1..(Len(alerts) - 1) /\ (i - 1) + 1 = i
  BY <1>1
<1> QED
  BY <1>1, <1>2, <1>3

\* One alert is told: whichever it is, the protocol allows it.
LEMMA PublishAnnounced ==
    ASSUME ConformanceInv, AnnounceInv, PublishAlert
    PROVE  /\ AnnounceInv'
           /\ faults' = 0 => Protocol!Next
<1> DEFINE h == outbox[1]
           k == h.key
<1>1. /\ outbox \in Seq(Alert) /\ outbox # <<>>
      /\ announced \in [Condition -> AlertState \cup {"NONE"}]
      /\ active \in Manager
  BY DEF PublishAlert, ConformanceInv, AwaitsForAlert, TypeOK, ScanTypeOK, OutputTypeOK
<1>2. /\ outbox' = Tail(outbox)
      /\ announced' = [announced EXCEPT ![Head(outbox).key] = Head(outbox).state]
      /\ stage' = IF Len(outbox) = 1 THEN "applying" ELSE "publishing"
      /\ UNCHANGED <<active, crashes, faults>>
  BY DEF PublishAlert, Announce
<1>3. /\ 1 \in DOMAIN outbox /\ Head(outbox) = h /\ outbox' \in Seq(Alert)
      /\ \A i \in DOMAIN outbox' :
            i \in Nat /\ i + 1 \in DOMAIN outbox /\ outbox'[i] = outbox[i + 1]
      /\ \A i \in DOMAIN outbox :
            i # 1 => i \in Nat /\ 1 < i /\ i - 1 \in DOMAIN outbox' /\ outbox'[i - 1] = outbox[i]
  BY <1>1, <1>2, TailMentions
<1>4. k \in Condition /\ h.state \in AlertState
  BY <1>1, <1>3, AlertsTyped
<1>5. \A i \in DOMAIN outbox : outbox[i].key \in Condition /\ outbox[i].state \in AlertState
  BY <1>1, AlertsTyped
<1>6. announced' = [announced EXCEPT ![k] = h.state]
  BY <1>2, <1>3
<1>7. stage' # "publishing" => outbox' = <<>>
  <2>1. ASSUME Len(outbox) = 1 PROVE Tail(outbox) = <<>>
    <3>1. Tail(outbox) \in Seq(Alert) /\ Len(Tail(outbox)) = 0
      BY <1>1, <2>1
    <3> QED
      BY <3>1, EmptySeq
  <2> QED
    BY <1>2, <2>1
<1>8. \A c \in Condition :
         c \in OpenOnTopic' <=> IF c = k THEN h.state # "CLEARED" ELSE c \in OpenOnTopic
  BY <1>1, <1>4, <1>6 DEF OpenOnTopic, AlertState
<1>9. \A c : Mentions(outbox', c) # {} => Mentions(outbox, c) # {}
  BY <1>3 DEF Mentions
<1>10. \A c : c # k /\ Mentions(outbox, c) # {} => Mentions(outbox', c) # {}
  BY <1>3 DEF Mentions
<1>11. k \in Condition /\ 1 \in Mentions(outbox, k)
  BY <1>3, <1>4 DEF Mentions
<1> SUFFICES ASSUME faults = 0
             PROVE  AnnounceInv' /\ Protocol!Next
  BY <1>2, <1>7 DEF AnnounceInv
<1>12. ClearedLast(outbox) /\ LastSaid(outbox, active) /\ FirstSaid /\ Told
  BY DEF AnnounceInv
<1>13. \A i \in DOMAIN outbox' :
          outbox'[i].key = k => h.state # "CLEARED" /\ outbox'[i].state = "CLEARED"
  <2>1. TAKE i \in DOMAIN outbox'
  <2>2. HAVE outbox'[i].key = k
  <2>3. i + 1 \in DOMAIN outbox /\ i \in Nat /\ 1 < i + 1 /\ outbox[i + 1].key = k
    <3>1. i \in Nat /\ i + 1 \in DOMAIN outbox /\ outbox[i + 1].key = k
      BY <1>3, <2>2
    <3>2. i # 0
      BY <1>3, <3>1
    <3> QED
      BY <3>1, <3>2
  <2> QED
    BY <1>3, <1>12, <2>3 DEF ClearedLast
<1>14. h.state = "NEW" \/ k \in OpenOnTopic
  <2>1. \A j \in DOMAIN outbox : outbox[j].key = k => 1 <= j
    BY <1>3
  <2> QED
    BY <1>3, <1>12, <2>1 DEF FirstSaid
<1>15. Mentions(outbox', k) = {} => (h.state = "CLEARED" <=> active[k] = NotActive)
  <2>1. HAVE Mentions(outbox', k) = {}
  <2>2. \A j \in DOMAIN outbox : outbox[j].key = k => j = 1
    BY <1>3, <2>1 DEF Mentions
  <2> QED
    BY <1>3, <1>12, <2>2 DEF LastSaid
<1>15a. ClearedLast(outbox')
  <2>1. ASSUME NEW i \in DOMAIN outbox', NEW j \in DOMAIN outbox', i < j,
               outbox'[i].key = outbox'[j].key
        PROVE  outbox'[i].state # "CLEARED" /\ outbox'[j].state = "CLEARED"
    <3>1. i + 1 < j + 1
      BY <1>3, <2>1
    <3> QED
      BY <1>3, <1>12, <2>1, <3>1 DEF ClearedLast
  <2> QED
    BY <2>1 DEF ClearedLast
<1>16. AnnounceInv'
  <2>2. LastSaid(outbox', active)
    <3>1. ASSUME NEW i \in DOMAIN outbox',
                 \A j \in DOMAIN outbox' : outbox'[j].key = outbox'[i].key => j <= i
          PROVE  outbox'[i].state = "CLEARED" <=> active[outbox'[i].key] = NotActive
      <4>1. i \in Nat /\ i + 1 \in DOMAIN outbox /\ outbox'[i] = outbox[i + 1]
        BY <1>3
      <4>2. \A j \in DOMAIN outbox : outbox[j].key = outbox[i + 1].key => j <= i + 1
        <5>1. TAKE j \in DOMAIN outbox
        <5>2. HAVE outbox[j].key = outbox[i + 1].key
        <5>3. CASE j = 1
          BY <4>1, <5>3
        <5>4. CASE j # 1
          <6>1. j \in Nat /\ j - 1 \in DOMAIN outbox' /\ outbox'[j - 1].key = outbox'[i].key
            BY <1>3, <4>1, <5>2, <5>4
          <6>2. j - 1 <= i
            BY <3>1, <6>1
          <6> QED
            BY <4>1, <6>1, <6>2
        <5> QED
          BY <5>3, <5>4
      <4> QED
        BY <1>12, <4>1, <4>2 DEF LastSaid
    <3> QED
      BY <3>1 DEF LastSaid
  <2>3. FirstSaid'
    <3>1. ASSUME NEW i \in DOMAIN outbox',
                 \A j \in DOMAIN outbox' : outbox'[j].key = outbox'[i].key => i <= j
          PROVE  outbox'[i].state = "NEW" \/ outbox'[i].key \in OpenOnTopic'
      <4>1. i \in Nat /\ i + 1 \in DOMAIN outbox /\ outbox'[i] = outbox[i + 1]
        BY <1>3
      <4>2. CASE outbox'[i].key = k
        BY <1>8, <1>11, <1>13, <4>2
      <4>3. CASE outbox'[i].key # k
        <5>1. \A j \in DOMAIN outbox : outbox[j].key = outbox[i + 1].key => i + 1 <= j
          <6>1. TAKE j \in DOMAIN outbox
          <6>2. HAVE outbox[j].key = outbox[i + 1].key
          <6>3. j # 1
            BY <4>1, <4>3, <6>2
          <6>4. j \in Nat /\ j - 1 \in DOMAIN outbox' /\ outbox'[j - 1].key = outbox'[i].key
            BY <1>3, <4>1, <6>2, <6>3
          <6>5. i <= j - 1
            BY <3>1, <6>4
          <6> QED
            BY <4>1, <6>4, <6>5
        <5>2. outbox[i + 1].state = "NEW" \/ outbox[i + 1].key \in OpenOnTopic
          BY <1>12, <4>1, <5>1 DEF FirstSaid
        <5> QED
          BY <1>5, <1>8, <4>1, <4>3, <5>2
      <4> QED
        BY <4>2, <4>3
    <3> QED
      BY <3>1 DEF FirstSaid
  <2>4. Told'
    <3>1. ASSUME NEW c \in ActiveKeys(active), Mentions(outbox', c) = {}
          PROVE  c \in OpenOnTopic'
      <4>1. c \in Condition /\ active[c] # NotActive
        BY DEF ActiveKeys
      <4>2. CASE c = k
        BY <1>8, <1>15, <3>1, <4>1, <4>2
      <4>3. CASE c # k
        BY <1>8, <1>10, <1>12, <3>1, <4>1, <4>3 DEF Told
      <4> QED
        BY <4>2, <4>3
    <3> QED
      BY <1>2, <3>1 DEF Told
  <2> QED
    BY <1>2, <1>7, <1>15a, <2>2, <2>3, <2>4 DEF AnnounceInv
<1>17. \A c \in Condition : c # k => (c \in Orphaned' <=> c \in Orphaned)
  <2>1. TAKE c \in Condition
  <2>2. HAVE c # k
  <2>3. c \in OpenOnTopic' <=> c \in OpenOnTopic
    BY <1>8, <2>2
  <2>4. CASE Mentions(outbox, c) = {}
    BY <1>2, <1>9, <2>3, <2>4 DEF Orphaned
  <2>5. CASE Mentions(outbox, c) # {}
    <3>1. Mentions(outbox', c) # {}
      BY <1>10, <2>2, <2>5
    <3>2. (\E i \in Mentions(outbox, c) : outbox[i].state = "NEW")
            <=> \E i \in Mentions(outbox', c) : outbox'[i].state = "NEW"
      BY <1>3, <2>2 DEF Mentions
    <3>3. outbox[Min(Mentions(outbox, c))].state = "NEW"
            <=> \E i \in Mentions(outbox, c) : outbox[i].state = "NEW"
      BY <1>1, <1>12, <2>5, RaisedFirst
    <3>4. outbox'[Min(Mentions(outbox', c))].state = "NEW"
            <=> \E i \in Mentions(outbox', c) : outbox'[i].state = "NEW"
      BY <1>3, <1>15a, <3>1, RaisedFirst
    <3> QED
      BY <2>3, <2>5, <3>1, <3>2, <3>3, <3>4 DEF Orphaned, NextSaid, Mentions
  <2> QED
    BY <2>4, <2>5
<1>18. k \notin Orphaned'
  <2>1. CASE Mentions(outbox', k) = {}
    BY <1>2, <1>8, <1>11, <1>15, <2>1 DEF Orphaned, Mentions
  <2>2. CASE Mentions(outbox', k) # {}
    <3>1. ~\E i \in Mentions(outbox', k) : outbox'[i].state = "NEW"
      BY <1>13 DEF Mentions
    <3>2. outbox'[Min(Mentions(outbox', k))].state # "NEW"
      BY <1>3, <1>15a, <2>2, <3>1, RaisedFirst
    <3> QED
      BY <2>2, <3>2 DEF Orphaned, NextSaid, Mentions
  <2> QED
    BY <2>1, <2>2
<1>19. Orphaned \subseteq Condition /\ Orphaned' \subseteq Condition
  BY DEF Orphaned, OpenOnTopic
<1>20. Orphaned' = Orphaned \ {k}
  BY <1>17, <1>18, <1>19
<1>21. h.state = "NEW" <=> outbox[Min(Mentions(outbox, k))].state = "NEW"
  <2>1. (\E i \in Mentions(outbox, k) : outbox[i].state = "NEW") => h.state = "NEW"
    <3>1. \A i \in Mentions(outbox, k) : i = 1 \/ outbox[i].state = "CLEARED"
      BY <1>3, <1>12 DEF ClearedLast, Mentions
    <3> QED
      BY <3>1
  <2> QED
    BY <1>1, <1>11, <1>12, <2>1, RaisedFirst
<1>22. k \in OpenOnTopic => (h.state = "NEW" <=> k \in Orphaned)
  BY <1>11, <1>21 DEF Orphaned, NextSaid
<1>23. Protocol!Open = OpenOnTopic
  BY DEF Protocol!Open, OpenOnTopic
<1>24. CASE h.state = "NEW"
  <2>1. Protocol!Raise(k)
    BY <1>2, <1>6, <1>20, <1>22, <1>23, <1>24 DEF Protocol!Raise
  <2> QED
    BY <1>4, <1>16, <2>1 DEF Protocol!Next
<1>25. CASE h.state # "NEW"
  <2>1. k \in Protocol!Open \ Orphaned /\ Orphaned' = Orphaned
    BY <1>14, <1>20, <1>22, <1>23, <1>25
  <2>2. Protocol!Sustain(k) \/ Protocol!Clear(k)
    BY <1>2, <1>4, <1>6, <1>25, <2>1 DEF Protocol!Sustain, Protocol!Clear, AlertState
  <2> QED
    BY <1>4, <1>16, <2>2 DEF Protocol!Next
<1> QED
  BY <1>16, <1>24, <1>25

\* A crash orphans what is open.
LEMMA CrashAnnounced ==
    ASSUME ConformanceInv, AnnounceInv, Crash
    PROVE  AnnounceInv' /\ Protocol!Restart
<1>1. /\ stage' = "down" /\ outbox' = <<>>
      /\ active' = [c \in Condition |-> NotActive]
      /\ crashes' = crashes + 1
      /\ UNCHANGED announced
  BY DEF Crash
<1>2. ActiveKeys(active') = {} /\ DOMAIN outbox' = {}
  BY <1>1 DEF ActiveKeys
<1>3. AnnounceInv'
  BY <1>1, <1>2 DEF AnnounceInv, ClearedLast, LastSaid, FirstSaid, Told
<1>4. OpenOnTopic' = OpenOnTopic /\ Protocol!Open = OpenOnTopic
  BY <1>1 DEF OpenOnTopic, Protocol!Open
<1>5. \A c : Mentions(outbox', c) = {}
  BY <1>2 DEF Mentions
<1>6. Orphaned' = OpenOnTopic
  <2>1. \A c \in OpenOnTopic : active'[c] = NotActive
    BY <1>1 DEF OpenOnTopic
  <2> QED
    BY <1>4, <1>5, <2>1 DEF Orphaned, Mentions
<1> QED
  BY <1>1, <1>3, <1>4, <1>6 DEF Protocol!Restart

\* Every step preserves the invariant; as long as no publish has failed, what it does
\* to the topic is a step of the protocol, or nothing.
LEMMA NextAnnounced ==
    ASSUME ConformanceInv, ConformanceInv', AnnounceInv, [Next]_vars
    PROVE  /\ AnnounceInv'
           /\ faults' = 0 => [Protocol!Next]_(Protocol!vars)
<1> DEFINE Goal == AnnounceInv' /\ (faults' = 0 => [Protocol!Next]_(Protocol!vars))
<1>1. /\ active \in Manager /\ active' \in Manager /\ faults \in Nat /\ lead \in Nat
      /\ outbox \in Seq(Alert)
  BY ServiceAssumption DEF ConformanceInv, TypeOK, ViewTypeOK, ScanTypeOK, OutputTypeOK
<1>2. ASSUME UNCHANGED <<outbox, announced, crashes>>, faults' = 0 => faults = 0,
             stage' # "publishing" => outbox = <<>>,
             ActiveKeys(active') = ActiveKeys(active)
      PROVE  Goal
  BY <1>1, <1>2, Unannounced
<1>3. ASSUME NEW t \in Track, AbsorbTerminated(t) PROVE Goal
  BY <1>2, <1>3 DEF AbsorbTerminated, scanVars, AnnounceInv
<1>4. ASSUME NEW t \in Track, NEW age \in Age, Absorb(t, age) PROVE Goal
  <2> DEFINE by == IF age < 0 /\ lead - age <= MaxLead THEN -age ELSE 0
  <2>1. by \in Nat
    BY ServiceAssumption DEF Age
  <2>2. ActiveKeys(active') = ActiveKeys(active)
    BY <1>1, <1>4, <2>1, OlderKeeps DEF Absorb
  <2> QED
    BY <1>2, <1>4, <2>2 DEF Absorb, scanVars, AnnounceInv
<1>5. CASE Scan
  BY <1>5, ScanUnannounced
<1>6. CASE PublishAlert
  BY <1>6, PublishAnnounced
<1>7. CASE Apply \/ ApplyFails
  <2>1. outbox = <<>>
    BY <1>7 DEF Apply, ApplyFails, AnnounceInv
  <2>2. /\ UNCHANGED <<active, announced, crashes>> /\ outbox' = <<>>
        /\ faults' = faults \/ faults' = faults + 1
    BY <1>7 DEF Apply, ApplyFails, FinishScan
  <2> QED
    BY <1>1, <1>2, <2>1, <2>2
<1>8. CASE Tick
  <2>1. ActiveKeys(active') = ActiveKeys(active)
    <3>1. CASE lead > 0
      BY <1>8, <3>1 DEF Tick
    <3>2. CASE ~(lead > 0)
      BY <1>1, <1>8, <3>2, OlderKeeps DEF Tick
    <3> QED
      BY <3>1, <3>2
  <2> QED
    BY <1>2, <1>8, <2>1 DEF Tick, AnnounceInv
<1>9. CASE PublishFails
  <2>1. outbox' = <<>> /\ faults' # 0
    BY <1>1, <1>9 DEF PublishFails, FinishScan
  <2> QED
    BY <2>1 DEF AnnounceInv
<1>10. CASE Crash
  BY <1>10, CrashAnnounced DEF Protocol!Next
<1>11. CASE Start
  BY <1>2, <1>11 DEF Start, AnnounceInv
<1>12. CASE UNCHANGED vars
  BY <1>2, <1>12 DEF vars, scanVars, AnnounceInv
<1> QED
  BY <1>3, <1>4, <1>5, <1>6, <1>7, <1>8, <1>9, <1>10, <1>11, <1>12 DEF Next

\* Nothing is said, and nothing held, at the beginning.
LEMMA InitAnnounced ==
    ASSUME Init
    PROVE  AnnounceInv /\ Protocol!Init
<1>1. outbox = <<>> /\ DOMAIN outbox = {} /\ ActiveKeys(active) = {} /\ OpenOnTopic = {}
  BY DEF Init, ActiveKeys, OpenOnTopic
<1>2. AnnounceInv
  BY <1>1 DEF AnnounceInv, ClearedLast, LastSaid, FirstSaid, Told
<1>3. Protocol!Init
  BY <1>1 DEF Init, Orphaned, Protocol!Init
<1> QED
  BY <1>2, <1>3

\* Until a publish fails, topic and outbox together say what the manager holds: every
\* alert in the outbox follows from what is on the topic, and the last is what the manager
\* thinks (scan_now publishes after reconcile has already advanced the manager).
THEOREM AnnounceCorrect == Spec => []AnnounceInv
<1>1. Init => AnnounceInv
  BY InitAnnounced
<1>2. ConformanceInv /\ ConformanceInv' /\ AnnounceInv /\ [Next]_vars => AnnounceInv'
  BY NextAnnounced
<1> QED
  BY <1>1, <1>2, InvariantHolds, PTL DEF Spec

\* Step by step, up to the first publish that fails: whatever the service does is, on
\* airspace.alerts.v1, a step of AlertProtocol or nothing, crashes included.
THEOREM ProtocolStepsCorrect ==
    Spec => Protocol!Init /\ [][faults' = 0 => Protocol!Next]_(Protocol!vars)
<1>1. Init => Protocol!Init
  BY InitAnnounced
<1>2. ConformanceInv /\ ConformanceInv' /\ AnnounceInv /\ [Next]_vars
        => [faults' = 0 => Protocol!Next]_(Protocol!vars)
  BY NextAnnounced
<1> QED
  BY <1>1, <1>2, InvariantHolds, AnnounceCorrect, PTL DEF Spec

\* The alert topic implements AlertProtocol as long as no publish fails: NEW, then
\* SUSTAINED, then CLEARED, over and over, and a restart of the service orphans at most
\* the alerts that are open (contracts.py, AlertState; ADR 0005).
THEOREM ProtocolCorrect == Spec /\ [](faults = 0) => ProtocolKept
<1>1. Init => Protocol!Init
  BY InitAnnounced
<1>2. ConformanceInv /\ ConformanceInv' /\ AnnounceInv /\ (faults = 0)' /\ [Next]_vars
        => [Protocol!Next]_(Protocol!vars)
  BY NextAnnounced
<1> QED
  BY <1>1, <1>2, InvariantHolds, AnnounceCorrect, PTL DEF Spec, ProtocolKept, Protocol!Spec
-----------------------------------------------------------------------------
(* The display shows the manager's alerts. *)

\* The entry of a kept alert is no older than its last publication by the manager's
\* clock, up to what that clock may lead the wall clock; once it is due, than that and
\* the scans that have missed it.
Renewed(c, ahead) ==
    IF active[c].since < SustainInterval
    THEN store[c] + lead <= active[c].since + ahead
    ELSE store[c] + (IF scanned THEN 1 ELSE 0) <= SustainInterval + ahead + active[c].missed

\* What the display shows of a key the scan says nothing about.
Displayed(c, ahead) ==
    IF active[c] = NotActive THEN store[c] = NoEntry ELSE Renewed(c, ahead)

\* The inductive invariant of DisplayIsManagers, for a clock that is at most so far ahead:
\* until something fails, display and batch together show what the manager holds.
DisplayInv(ahead) ==
    /\ stage \in {"idle", "down"} => batch = <<>>
    /\ crashes = 0 => stage # "down"
    /\ crashes = 0 /\ faults = 0 =>
          /\ ClearedLast(batch) /\ LastSaid(batch, active)
          /\ \A c \in Condition : Mentions(batch, c) = {} => Displayed(c, ahead)

\* The heartbeat outruns the expiry: 10 s and three scans of 1 s against 300 s.
Outruns(ahead) == ahead \in Nat /\ SustainInterval + ClearAfter + ahead <= TTL

\* The numbers of an alert.
LEMMA ActiveTyped ==
    ASSUME NEW r \in Active
    PROVE  /\ r.since \in Nat /\ r.since <= SustainInterval
           /\ r.missed \in Nat /\ r.missed <= ClearAfter - 1
BY AlertAssumption DEF Active

\* What time passing does to an alert's numbers.
LEMMA OlderFields ==
    ASSUME NEW m \in Manager, NEW by \in Nat, NEW c \in Condition, m[c] # NotActive
    PROVE  /\ Older(m, by)[c].missed = m[c].missed
           /\ Older(m, by)[c].since = IF m[c].since + by < SustainInterval
                                      THEN m[c].since + by ELSE SustainInterval
<1>1. m[c] \in Active
  BY DEF Manager
<1> DEFINE s == IF m[c].since + by < SustainInterval THEN m[c].since + by ELSE SustainInterval
<1>2. Older(m, by)[c] = [m[c] EXCEPT !.since = s]
  BY DEF Older
<1> QED
  BY <1>1, <1>2 DEF Active

\* A key that is mentioned has a last mention.
LEMMA LastMention ==
    ASSUME NEW alerts \in Seq(Alert), ClearedLast(alerts), NEW c, Mentions(alerts, c) # {}
    PROVE  /\ Max(Mentions(alerts, c)) \in Mentions(alerts, c)
           /\ \A j \in Mentions(alerts, c) : j <= Max(Mentions(alerts, c))
<1> DEFINE M == Mentions(alerts, c)
<1>1. /\ M \subseteq DOMAIN alerts /\ DOMAIN alerts \subseteq Nat
      /\ \A i \in M : alerts[i].key = c
  BY DEF Mentions
<1>2. \A i, j \in M : i < j => alerts[i].state # "CLEARED" /\ alerts[j].state = "CLEARED"
  BY <1>1 DEF ClearedLast
<1>3. \E i \in M : \A j \in M : i >= j
  <2>1. PICK i \in M : TRUE
    OBVIOUS
  <2>2. CASE \E j \in M : i < j
    <3>1. PICK j \in M : i < j
      BY <2>2
    <3>2. ~\E k \in M : j < k
      BY <1>2, <3>1
    <3> QED
      BY <1>1, <3>2
  <2>3. CASE ~\E j \in M : i < j
    BY <1>1, <2>1, <2>3
  <2> QED
    BY <2>2, <2>3
<1>4. Max(M) \in M /\ \A j \in M : Max(M) >= j
  BY <1>3, Zenon DEF Max
<1> QED
  BY <1>1, <1>4

\* Updates move the clocks of the manager and of the entries together.
LEMMA AbsorbDisplayed ==
    ASSUME ConformanceInv, NEW ahead, Outruns(ahead), DisplayInv(ahead),
           NEW t \in Track, NEW age \in Age, Absorb(t, age)
    PROVE  DisplayInv(ahead)'
<1> DEFINE by == IF age < 0 /\ lead - age <= MaxLead THEN -age ELSE 0
<1>1. active \in Manager /\ lead \in Nat /\ store \in [Condition -> 0..NoEntry]
      /\ batch \in Seq(Alert) /\ NoEntry \in Nat
  BY ServiceAssumption
     DEF ConformanceInv, TypeOK, ViewTypeOK, ScanTypeOK, OutputTypeOK, NoEntry
<1>2. by \in Nat
  BY ServiceAssumption DEF Age
<1>3. /\ active' = Older(active, by) /\ lead' = lead + by
      /\ UNCHANGED <<stage, batch, scanned, store, crashes, faults>>
  BY DEF Absorb, scanVars
<1> HIDE DEF by
<1>4. \A c \in Condition : active'[c] = NotActive <=> active[c] = NotActive
  BY <1>1, <1>2, <1>3, OlderKeeps DEF ActiveKeys
<1>5. LastSaid(batch, active) => LastSaid(batch, active')
  BY <1>1, <1>4, AlertsTyped DEF LastSaid
<1>6. ASSUME NEW c \in Condition, Displayed(c, ahead) PROVE Displayed(c, ahead)'
  <2>1. CASE active[c] = NotActive
    BY <1>3, <1>4, <1>6, <2>1 DEF Displayed
  <2>2. CASE active[c] # NotActive
    <3>1. active[c] \in Active /\ store[c] \in Nat
      BY <1>1, <2>2 DEF Manager
    <3>2. /\ active'[c].missed = active[c].missed
          /\ active'[c].since = IF active[c].since + by < SustainInterval
                                THEN active[c].since + by ELSE SustainInterval
      BY <1>1, <1>2, <1>3, <2>2, OlderFields
    <3>3. Renewed(c, ahead)
      BY <1>6, <2>2 DEF Displayed
    <3>4. Renewed(c, ahead)'
      <4> DEFINE s == active[c].since
      <4>1. s \in Nat /\ s <= SustainInterval /\ active[c].missed \in Nat
        BY <3>1, ActiveTyped
      <4>2. ahead \in Nat /\ SustainInterval \in Nat
        BY AlertAssumption DEF Outruns
      <4>3. CASE s + by < SustainInterval
        <5>1. active'[c].since = s + by /\ s < SustainInterval
          BY <1>2, <3>2, <4>1, <4>2, <4>3
        <5>2. store[c] + lead <= s + ahead
          BY <3>3, <5>1 DEF Renewed
        <5>3. store[c] + (lead + by) <= (s + by) + ahead
          BY <1>1, <1>2, <3>1, <4>1, <4>2, <5>2, SMTT(40)
        <5> QED
          BY <1>3, <4>3, <5>1, <5>3 DEF Renewed
      <4>4. CASE ~(s + by < SustainInterval)
        <5>1. active'[c].since = SustainInterval
          BY <3>2, <4>4
        <5>2. store[c] + (IF scanned THEN 1 ELSE 0) <= SustainInterval + ahead + active[c].missed
          <6>1. CASE s < SustainInterval
            <7>1. store[c] + lead <= s + ahead
              BY <3>3, <6>1 DEF Renewed
            <7>2. store[c] + 1 <= SustainInterval + ahead + active[c].missed
              BY <1>1, <3>1, <4>1, <4>2, <6>1, <7>1, SMTT(40)
            <7> QED
              BY <3>1, <4>1, <4>2, <7>2
          <6>2. CASE ~(s < SustainInterval)
            BY <3>3, <6>2 DEF Renewed
          <6> QED
            BY <6>1, <6>2
        <5> QED
          BY <1>3, <3>2, <4>2, <5>1, <5>2 DEF Renewed
      <4> QED
        BY <4>3, <4>4
    <3> QED
      BY <1>4, <2>2, <3>4 DEF Displayed
  <2> QED
    BY <2>1, <2>2
<1> QED
  BY <1>3, <1>5, <1>6 DEF DisplayInv, Mentions, ClearedLast, LastSaid

\* A scan says what it changes; what it leaves has its entry still.
LEMMA ScanDisplayed ==
    ASSUME ConformanceInv, NEW ahead, Outruns(ahead), DisplayInv(ahead), Scan
    PROVE  DisplayInv(ahead)'
<1>1. PICK detected \in SUBSET Detectable(Fresh(picture)) :
         ScanWith(detected \cup findings, Stale(picture) \cup terminated)
  BY DEF Scan
<1> DEFINE current == detected \cup findings
           gone == Stale(picture) \cup terminated
           R == Reconciled(active, current)
<1>2. /\ UNCHANGED <<lead, store, crashes, faults>> /\ stage = "idle"
      /\ ~scanned /\ scanned' = TRUE
  BY DEF Scan
<1>3. active \in Manager /\ findings \subseteq Measured /\ terminated \subseteq Track
  BY DEF ConformanceInv, TypeOK, ViewTypeOK, ScanTypeOK
<1>4. current \in SUBSET Condition /\ gone \in SUBSET Track
  BY <1>3, ServiceAssumption DEF Detectable, Stale, Known
<1>5. PICK first \in SetToSeqs(ReconcileAlerts(active, current)),
           second \in SetToSeqs(ForgetAlerts(R, gone)) :
         Await(first \o second)
  BY <1>1 DEF ScanWith
<1> DEFINE alerts == first \o second
           after == Forgotten(R, gone)
<1>6. active' = after /\ batch' = alerts
  BY <1>1, <1>5 DEF ScanWith, Await
<1>7. stage' \in {"idle", "publishing"} /\ (stage' = "idle" => batch' = <<>>)
  BY <1>5 DEF Await
<1>8a. Says(alerts, active, after)
  BY <1>3, <1>4, ScanSays
<1> HIDE DEF alerts, after
<1>8. /\ ClearedLast(alerts)
      /\ LastSaid(alerts, after)
      /\ \A c \in Condition :
            Mentions(alerts, c) = {} =>
               IF active[c] = NotActive THEN after[c] = NotActive
               ELSE Undisturbed(active[c], after[c]) /\ after[c] # NotActive
  BY <1>8a DEF Says
<1>8b. lead \in Nat /\ store \in [Condition -> 0..NoEntry] /\ NoEntry \in Nat
  BY ServiceAssumption
     DEF ConformanceInv, TypeOK, ViewTypeOK, ScanTypeOK, OutputTypeOK, NoEntry
<1>9. ASSUME NEW c \in Condition, Displayed(c, ahead), Mentions(batch', c) = {}
      PROVE  Displayed(c, ahead)'
  <2>1. CASE active[c] = NotActive
    BY <1>2, <1>6, <1>8, <1>9, <2>1 DEF Displayed
  <2>2. CASE active[c] # NotActive
    <3>1. active[c] \in Active /\ store[c] \in Nat
      BY <1>3, <1>8b, <2>2 DEF Manager
    <3>2. Undisturbed(active[c], active'[c]) /\ active'[c] # NotActive
      BY <1>6, <1>8, <1>9, <2>2
    <3>3. /\ active'[c].since = active[c].since
          /\ active[c].since < SustainInterval \/ active'[c].missed = active[c].missed + 1
      BY <3>1, <3>2 DEF Undisturbed, Active
    <3>4. Renewed(c, ahead)
      BY <1>9, <2>2 DEF Displayed
    <3>5. Renewed(c, ahead)'
      BY <1>2, <1>8b, <3>1, <3>3, <3>4, ActiveTyped, AlertAssumption DEF Renewed, Outruns
    <3> QED
      BY <3>2, <3>5 DEF Displayed
  <2> QED
    BY <2>1, <2>2
<1>10. ASSUME crashes = 0, faults = 0, NEW c \in Condition PROVE Displayed(c, ahead)
  BY <1>2, <1>10 DEF DisplayInv, Mentions
<1>11. ASSUME crashes' = 0, faults' = 0
       PROVE  /\ ClearedLast(batch') /\ LastSaid(batch', active')
              /\ \A c \in Condition : Mentions(batch', c) = {} => Displayed(c, ahead)'
  BY <1>2, <1>6, <1>8, <1>9, <1>10, <1>11
<1> QED
  BY <1>7, <1>11 DEF DisplayInv, Mentions, ClearedLast, LastSaid

\* The batch brings the entries up to what the manager holds.
LEMMA ApplyDisplayed ==
    ASSUME ConformanceInv, NEW ahead, Outruns(ahead), DisplayInv(ahead), lead <= ahead, Apply
    PROVE  DisplayInv(ahead)'
<1>1. /\ active \in Manager /\ lead \in Nat /\ store \in [Condition -> 0..NoEntry]
      /\ batch \in Seq(Alert) /\ NoEntry \in Nat /\ scanned \in BOOLEAN
  BY ServiceAssumption
     DEF ConformanceInv, TypeOK, ViewTypeOK, ScanTypeOK, OutputTypeOK, NoEntry
<1>2. /\ store' = Applied(batch) /\ batch' = <<>> /\ stage' = "idle"
      /\ UNCHANGED <<lead, active, scanned, crashes, faults>>
  BY DEF Apply, FinishScan, viewVars
<1>3. ASSUME crashes = 0, faults = 0, NEW c \in Condition PROVE Displayed(c, ahead)'
  <2> DEFINE M == Mentions(batch, c)
  <2>1. /\ ClearedLast(batch) /\ LastSaid(batch, active)
        /\ M = {} => Displayed(c, ahead)
    BY <1>3 DEF DisplayInv
  <2>2. CASE M = {}
    <3>1. store'[c] = store[c]
      BY <1>2, <2>2 DEF Applied
    <3> QED
      BY <1>2, <2>1, <2>2, <3>1 DEF Displayed, Renewed
  <2>3. CASE M # {}
    <3>1. Max(M) \in M /\ \A j \in M : j <= Max(M)
      BY <1>1, <2>1, <2>3, LastMention
    <3>2. batch[Max(M)].state = "CLEARED" <=> active[c] = NotActive
      BY <2>1, <3>1 DEF LastSaid, Mentions
    <3>3. store'[c] = IF batch[Max(M)].state = "CLEARED" THEN NoEntry ELSE 0
      BY <1>2, <2>3 DEF Applied
    <3>4. CASE active[c] = NotActive
      BY <1>2, <3>2, <3>3, <3>4 DEF Displayed
    <3>5. CASE active[c] # NotActive
      <4>1. active[c] \in Active /\ store'[c] = 0
        BY <1>1, <3>2, <3>3, <3>5 DEF Manager
      <4>2. /\ active[c].since \in Nat /\ active[c].missed \in Nat
            /\ SustainInterval \in Nat \ {0} /\ ahead \in Nat
        BY <4>1, ActiveTyped, AlertAssumption DEF Outruns
      <4>3. store'[c] + lead <= active[c].since + ahead
        BY <1>1, <4>1, <4>2
      <4>4. ASSUME NEW n \in {0, 1}
            PROVE  store'[c] + n <= SustainInterval + ahead + active[c].missed
        BY <4>1, <4>2
      <4>5. Renewed(c, ahead)'
        BY <1>2, <4>3, <4>4 DEF Renewed
      <4> QED
        BY <1>2, <3>5, <4>5 DEF Displayed
    <3> QED
      BY <3>4, <3>5
  <2> QED
    BY <2>2, <2>3
<1>4. ClearedLast(batch') /\ LastSaid(batch', active')
  BY <1>2 DEF ClearedLast, LastSaid
<1> QED
  BY <1>2, <1>3, <1>4 DEF DisplayInv, ClearedLast, LastSaid

\* A scan period passes: no entry the manager renews is old enough to expire.
LEMMA TickDisplayed ==
    ASSUME ConformanceInv, NEW ahead, Outruns(ahead), DisplayInv(ahead), Tick
    PROVE  DisplayInv(ahead)'
<1>1. /\ active \in Manager /\ lead \in Nat /\ store \in [Condition -> 0..NoEntry]
      /\ NoEntry = TTL /\ TTL \in Nat \ {0}
  BY ServiceAssumption
     DEF ConformanceInv, TypeOK, ViewTypeOK, ScanTypeOK, OutputTypeOK, NoEntry
<1>2. /\ UNCHANGED <<stage, batch, crashes, faults>> /\ scanned' = FALSE /\ Expire
      /\ stage = "down" \/ (stage = "idle" /\ scanned)
  BY DEF Tick
<1>3. batch = <<>>
  BY <1>2 DEF DisplayInv
<1>4. ASSUME crashes = 0, faults = 0, NEW c \in Condition PROVE Displayed(c, ahead)'
  <2>1. Displayed(c, ahead) /\ scanned = TRUE
    BY <1>2, <1>3, <1>4 DEF DisplayInv, Mentions, ConformanceInv, TypeOK, ScanTypeOK
  <2>2. store'[c] = IF store[c] + 1 < TTL THEN store[c] + 1 ELSE NoEntry
    BY <1>2 DEF Expire
  <2>3. active'[c] = NotActive <=> active[c] = NotActive
    <3>1. CASE lead > 0
      BY <3>1 DEF Tick
    <3>2. CASE ~(lead > 0)
      <4>1. active' = Older(active, 1)
        BY <3>2 DEF Tick
      <4> QED
        BY <1>1, <4>1, OlderKeeps DEF ActiveKeys
    <3> QED
      BY <3>1, <3>2
  <2>4. CASE active[c] = NotActive
    BY <1>1, <2>1, <2>2, <2>3, <2>4 DEF Displayed
  <2>5. CASE active[c] # NotActive
    <3>1. active[c] \in Active /\ store[c] \in Nat
      BY <1>1, <2>5 DEF Manager
    <3>2. Renewed(c, ahead)
      BY <2>1, <2>5 DEF Displayed
    <3>3. store'[c] = store[c] + 1
      <4>1. store[c] + 1 < TTL
        BY <1>1, <2>1, <3>1, <3>2, ActiveTyped, AlertAssumption DEF Renewed, Outruns
      <4> QED
        BY <2>2, <4>1
    <3>4. Renewed(c, ahead)'
      <4>1. CASE lead > 0
        <5>1. lead' = lead - 1 /\ active' = active
          BY <4>1 DEF Tick
        <5> QED
          BY <1>1, <1>2, <2>1, <3>1, <3>2, <3>3, <5>1, ActiveTyped, AlertAssumption
             DEF Renewed, Outruns
      <4>2. CASE ~(lead > 0)
        <5>1. lead' = lead /\ lead = 0 /\ active' = Older(active, 1)
          BY <1>1, <4>2 DEF Tick
        <5>2. /\ active'[c].missed = active[c].missed
              /\ active'[c].since = IF active[c].since + 1 < SustainInterval
                                    THEN active[c].since + 1 ELSE SustainInterval
          BY <1>1, <2>5, <5>1, OlderFields
        <5> QED
          BY <1>2, <2>1, <3>1, <3>2, <3>3, <5>1, <5>2, ActiveTyped, AlertAssumption
             DEF Renewed, Outruns
      <4> QED
        BY <4>1, <4>2
    <3> QED
      BY <2>3, <2>5, <3>4 DEF Displayed
  <2> QED
    BY <2>4, <2>5
<1>5. ClearedLast(batch') /\ LastSaid(batch', active')
  BY <1>2, <1>3 DEF ClearedLast, LastSaid
<1> QED
  BY <1>2, <1>4, <1>5 DEF DisplayInv, ClearedLast, LastSaid

\* Every step preserves the invariant, whatever fails and while the clock is no further
\* ahead.
LEMMA NextDisplayed ==
    ASSUME ConformanceInv, NEW ahead, Outruns(ahead), DisplayInv(ahead), lead <= ahead, [Next]_vars
    PROVE  DisplayInv(ahead)'
<1>1. crashes \in Nat /\ faults \in Nat
  BY DEF ConformanceInv, TypeOK, OutputTypeOK
<1>2. ASSUME UNCHANGED <<active, lead, batch, scanned, store, crashes, faults>>,
             stage' \in {"idle", "down"} => batch = <<>>,
             crashes = 0 => stage' # "down"
      PROVE  DisplayInv(ahead)'
  BY <1>2 DEF DisplayInv, Displayed, Renewed, Mentions, ClearedLast, LastSaid
<1>3. ASSUME NEW t \in Track, AbsorbTerminated(t) PROVE DisplayInv(ahead)'
  BY <1>2, <1>3 DEF AbsorbTerminated, scanVars, DisplayInv
<1>4. ASSUME NEW t \in Track, NEW age \in Age, Absorb(t, age) PROVE DisplayInv(ahead)'
  BY <1>4, AbsorbDisplayed
<1>5. CASE Scan
  BY <1>5, ScanDisplayed
<1>6. CASE PublishAlert
  BY <1>2, <1>6 DEF PublishAlert, viewVars, DisplayInv
<1>7. CASE Apply
  BY <1>7, ApplyDisplayed
<1>8. CASE Tick
  BY <1>8, TickDisplayed
<1>9. CASE PublishFails \/ ApplyFails
  <2>1. faults' # 0 /\ batch' = <<>> /\ stage' = "idle"
    BY <1>1, <1>9 DEF PublishFails, ApplyFails, FinishScan
  <2> QED
    BY <2>1 DEF DisplayInv
<1>10. CASE Crash
  <2>1. crashes' # 0 /\ batch' = <<>>
    BY <1>1, <1>10 DEF Crash
  <2> QED
    BY <2>1 DEF DisplayInv
<1>11. CASE Start
  BY <1>2, <1>11 DEF Start, viewVars, DisplayInv
<1>12. CASE UNCHANGED vars
  BY <1>2, <1>12 DEF vars, viewVars, scanVars, DisplayInv
<1> QED
  BY <1>3, <1>4, <1>5, <1>6, <1>7, <1>8, <1>9, <1>10, <1>11, <1>12 DEF Next

\* Between scans the invariant is what the property says: no renewed entry has expired.
LEMMA DisplayedIsManagers ==
    ASSUME ConformanceInv, NEW ahead, Outruns(ahead), DisplayInv(ahead)
    PROVE  DisplayIsManagers
<1>1. /\ active \in Manager /\ lead \in Nat /\ store \in [Condition -> 0..NoEntry]
      /\ NoEntry = TTL /\ TTL \in Nat \ {0} /\ scanned \in BOOLEAN
  BY ServiceAssumption
     DEF ConformanceInv, TypeOK, ViewTypeOK, ScanTypeOK, OutputTypeOK, NoEntry
<1>2. SUFFICES ASSUME stage = "idle", crashes = 0, faults = 0, NEW c \in Condition
               PROVE  store[c] # NoEntry <=> active[c] # NotActive
  BY DEF DisplayIsManagers, Shown, ActiveKeys
<1>3. Displayed(c, ahead)
  BY <1>2 DEF DisplayInv, Mentions
<1>4. CASE active[c] = NotActive
  BY <1>3, <1>4 DEF Displayed
<1>5. CASE active[c] # NotActive
  <2>1. active[c] \in Active /\ store[c] \in Nat
    BY <1>1, <1>5 DEF Manager
  <2>2. Renewed(c, ahead)
    BY <1>3, <1>5 DEF Displayed
  <2>3. store[c] < TTL
    BY <1>1, <2>1, <2>2, ActiveTyped, AlertAssumption DEF Renewed, Outruns
  <2> QED
    BY <1>1, <1>5, <2>1, <2>3
<1> QED
  BY <1>4, <1>5

\* As long as nothing fails and the scanner's clock is at most so far ahead of the wall
\* clock, the display shows between scans exactly the alerts the manager holds, provided
\* the entries live as long as the heartbeat, the hysteresis and that lead together
\* (LiveAlertStore.apply, DEFAULT_SUSTAIN_INTERVAL_S, DEFAULT_CLEAR_AFTER_SCANS).  One
\* scan period less and it is false.
THEOREM DisplayCorrect ==
    ASSUME NEW ahead, Outruns(ahead)
    PROVE  Spec /\ [](lead <= ahead) => []DisplayIsManagers
<1>1. Init => DisplayInv(ahead)
  BY DEF Init, DisplayInv, Displayed, Mentions, ClearedLast, LastSaid
<1>2. ConformanceInv /\ DisplayInv(ahead) /\ lead <= ahead /\ [Next]_vars => DisplayInv(ahead)'
  BY NextDisplayed
<1>3. ConformanceInv /\ DisplayInv(ahead) => DisplayIsManagers
  BY DisplayedIsManagers
<1> QED
  BY <1>1, <1>2, <1>3, InvariantHolds, PTL DEF Spec

====
