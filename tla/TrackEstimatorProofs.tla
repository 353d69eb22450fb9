------------------------ MODULE TrackEstimatorProofs ------------------------
(***************************************************************************)
(* TLAPS proofs about TrackEstimator, for any aircraft, thresholds and     *)
(* clock bound: types, what the silences announce, what confirms a track,  *)
(* and from where a silence is measured.                                   *)
(***************************************************************************)
EXTENDS TrackEstimator, FiniteSetTheorems, SequenceTheorems, TLAPS

-----------------------------------------------------------------------------
(* The inductive invariant. *)

\* What has been announced of a track's silence, by its state.
ToldFits(a) ==
    /\ tracks[a].state \in {"NONE", "INITIATING", "CONFIRMED"} => told[a] = <<>>
    /\ tracks[a].state = "COASTING" => told[a] = <<"COASTING">>
    /\ tracks[a].state = "TERMINATED" =>
           told[a] \in {<<"TERMINATED">>, <<"COASTING", "TERMINATED">>}

\* A track has been seen at as many instants as it counts, and has counted
\* enough of them if it is confirmed.
CountFits(a) ==
    /\ Cardinality(seen[a]) >= tracks[a].count
    /\ tracks[a].state = "CONFIRMED" => tracks[a].count = ConfirmationUpdates

\* LastIsNewest, of one aircraft.
NewestFits(a) ==
    tracks[a] # NoTrack =>
        tracks[a].last \in seen[a] /\ \A t \in seen[a] : t <= tracks[a].last

EstimatorInv ==
    /\ TypeOK
    /\ \A a \in Aircraft : NewestFits(a) /\ ToldFits(a) /\ CountFits(a)

-----------------------------------------------------------------------------
(* Records. *)

\* The state tells a record from none.
LEMMA RecordOrNone ==
    ASSUME NEW record \in TrackRecord \cup {NoTrack}
    PROVE  record = NoTrack <=> record.state = "NONE"
BY DEF TrackRecord, TrackState, NoTrack

\* Sets of instants are finite.
LEMMA InstantsAreFinite ==
    ASSUME NEW n \in Nat, NEW S \in SUBSET (0..n)
    PROVE  IsFiniteSet(S) /\ Cardinality(S) \in Nat
<1>1. IsFiniteSet(0..n)
  BY FS_Interval
<1>2. IsFiniteSet(S)
  BY <1>1, FS_Subset
<1> QED
  BY <1>2, FS_CardinalityType

\* An accepted report makes a record of its own time, confirmed only at the
\* threshold.
LEMMA AcceptedIsRecord ==
    ASSUME NEW record \in TrackRecord, NEW at \in Nat
    PROVE  /\ Accepted(record, at) \in TrackRecord
           /\ Accepted(record, at).last = at
           /\ Accepted(record, at).count <= record.count + 1
           /\ Accepted(record, at).state \in {"INITIATING", "CONFIRMED"}
           /\ Accepted(record, at).state = "CONFIRMED" =>
                  Accepted(record, at).count = ConfirmationUpdates
BY LifecycleAssumption DEF Accepted, TrackRecord, TrackState

\* A sweep changes a live track to what its silence makes of it, and only when
\* the clock is past its last report.
LEMMA ChangingMeans ==
    ASSUME NEW ts \in Tracks, NEW clock \in Nat, NEW a \in Changing(ts, clock)
    PROVE  /\ a \in Aircraft /\ ts[a] \in TrackRecord
           /\ ts[a].state \in {"INITIATING", "CONFIRMED", "COASTING"}
           /\ ts[a].last <= clock
           /\ \/ StateAt(ts[a], clock) = "TERMINATED"
              \/ StateAt(ts[a], clock) = "COASTING" /\ ts[a].state # "COASTING"
<1>1. a \in Aircraft /\ ts[a] \in TrackRecord /\ ts[a].state # "TERMINATED"
      /\ StateAt(ts[a], clock) # ts[a].state
  BY DEF Changing, Live, Known, Terminated, Tracks
<1>2. /\ ts[a].last \in Nat /\ CoastAfter \in Nat /\ TerminateAfter \in Nat
      /\ ts[a].state \in TrackState
  BY <1>1, LifecycleAssumption DEF TrackRecord
<1>3. Silent(ts[a], clock, TerminateAfter) \/ Silent(ts[a], clock, CoastAfter)
  BY <1>1 DEF StateAt
<1>4. ts[a].last <= clock
  BY <1>2, <1>3 DEF Silent
<1> QED
  BY <1>1, <1>2, <1>3, <1>4 DEF StateAt, TrackState

-----------------------------------------------------------------------------
(* Steps. *)

\* The invariant holds of an estimator without tracks.
LEMMA InitInv == Init => EstimatorInv
<1> SUFFICES ASSUME Init PROVE EstimatorInv
  OBVIOUS
<1>1. TypeOK
  BY TimeAssumption DEF Init, TypeOK, Tracks
<1>2. ASSUME NEW a \in Aircraft PROVE NewestFits(a) /\ ToldFits(a) /\ CountFits(a)
  <2>1. tracks[a] = NoTrack /\ told[a] = <<>> /\ seen[a] = {} /\ Cardinality({}) = 0
    BY FS_EmptySet DEF Init
  <2> QED
    BY <2>1 DEF NewestFits, ToldFits, CountFits, NoTrack
<1> QED
  BY <1>1, <1>2 DEF EstimatorInv

\* A report starts a track, adds an instant newer than all before, or changes
\* nothing.
LEMMA ReportStep ==
    ASSUME EstimatorInv, NEW a \in Aircraft, NEW at \in 0..now,
           HandleReport([ac |-> a, at |-> at])
    PROVE  EstimatorInv'
<1> DEFINE report == [ac |-> a, at |-> at]
<1>1. /\ tracks \in Tracks /\ filterTime \in [Aircraft -> Nat] /\ now \in 0..MaxTime
      /\ told \in [Aircraft -> Seq(TrackState)] /\ seen \in [Aircraft -> SUBSET (0..MaxTime)]
      /\ MaxTime \in Nat /\ at \in Nat /\ at \in 0..MaxTime
      /\ report.ac = a /\ report.at = at /\ now' = now
  BY TimeAssumption DEF EstimatorInv, TypeOK, HandleReport
<1>2. tracks' = [tracks EXCEPT ![a] = Folded(tracks, report)]
  BY <1>1 DEF HandleReport, OnReport
<1>3. filterTime' = [filterTime EXCEPT ![a] = FilterAfterReport(report)]
  BY <1>1 DEF HandleReport
<1>4. ASSUME NEW b \in Aircraft, b # a
      PROVE  /\ tracks'[b] = tracks[b] /\ told'[b] = told[b] /\ seen'[b] = seen[b]
  BY <1>1, <1>2, <1>4 DEF HandleReport, Tracks
<1>8. ASSUME NEW b \in Aircraft, b # a
      PROVE  NewestFits(b)' /\ ToldFits(b)' /\ CountFits(b)'
  <2>1. NewestFits(b) /\ ToldFits(b) /\ CountFits(b)
    BY DEF EstimatorInv
  <2> QED
    BY <1>4, <1>8, <2>1 DEF NewestFits, ToldFits, CountFits
<1>5. CASE Starts(tracks, report)
  <2>1. Accepts(report)
    BY <1>5 DEF Accepts
  <2>2. /\ tracks'[a] = Initiate(at)
        /\ told' = [told EXCEPT ![a] = <<>>] /\ seen' = [seen EXCEPT ![a] = {at}]
        /\ FilterAfterReport(report) = at
    BY <1>1, <1>2, <1>5, <2>1 DEF HandleReport, Folded, Tracks, FilterAfterReport
  <2>3. Initiate(at) \in TrackRecord
    BY <1>1, LifecycleAssumption DEF Initiate, TrackRecord, TrackState
  <2>4. TypeOK'
    BY <1>1, <1>2, <1>3, <2>2, <2>3 DEF TypeOK, Tracks
  <2>5. Cardinality({at}) = 1
    BY FS_Singleton
  <2>6. /\ tracks'[a].last = at /\ tracks'[a].count = 1 /\ tracks'[a].state = "INITIATING"
        /\ seen'[a] = {at} /\ told'[a] = <<>>
    BY <1>1, <2>2 DEF Initiate
  <2>7. NewestFits(a)'
    BY <1>1, <2>6 DEF NewestFits
  <2>8. ToldFits(a)' /\ CountFits(a)'
    BY <2>5, <2>6 DEF ToldFits, CountFits
  <2> QED
    BY <1>8, <2>4, <2>7, <2>8 DEF EstimatorInv
<1>6. CASE ~ Starts(tracks, report) /\ Accepts(report)
  <2>1. /\ tracks[a] \in TrackRecord /\ tracks[a] # NoTrack
        /\ tracks[a].last \in Nat /\ tracks[a].last < at
    BY <1>1, <1>6 DEF Starts, Accepts, Tracks, TrackRecord
  <2>2. /\ tracks'[a] = Accepted(tracks[a], at)
        /\ told' = [told EXCEPT ![a] = <<>>]
        /\ seen' = [seen EXCEPT ![a] = seen[a] \cup {at}]
        /\ FilterAfterReport(report) = filterTime[a] + (at - tracks[a].last)
    BY <1>1, <1>2, <1>6, <2>1
    DEF HandleReport, Folded, Update, Tracks, FilterAfterReport
  <2>3. /\ Accepted(tracks[a], at) \in TrackRecord
        /\ tracks'[a].last = at
        /\ tracks'[a].count <= tracks[a].count + 1
        /\ tracks'[a].state \in {"INITIATING", "CONFIRMED"}
        /\ tracks'[a].state = "CONFIRMED" => tracks'[a].count = ConfirmationUpdates
    <3> DEFINE record == Accepted(tracks[a], at)
    <3>1. /\ record \in TrackRecord
          /\ record.last = at
          /\ record.count <= tracks[a].count + 1
          /\ record.state \in {"INITIATING", "CONFIRMED"}
          /\ record.state = "CONFIRMED" => record.count = ConfirmationUpdates
      <4> HIDE DEF record
      <4> QED
        BY <1>1, <2>1, AcceptedIsRecord DEF record
    <3> QED
      BY <2>2, <3>1
  <2>4. filterTime[a] + (at - tracks[a].last) \in Nat
    BY <1>1, <2>1
  <2>5. TypeOK'
    BY <1>1, <1>2, <1>3, <2>2, <2>3, <2>4 DEF TypeOK, Tracks
  <2>6. tracks[a].last \in seen[a] /\ \A t \in seen[a] : t <= tracks[a].last
    BY <2>1 DEF EstimatorInv, NewestFits
  <2>7. seen'[a] = seen[a] \cup {at} /\ told'[a] = <<>>
    BY <1>1, <2>2
  <2>8. seen[a] \in SUBSET (0..MaxTime)
    BY <1>1
  <2>9. at \notin seen[a] /\ \A t \in seen'[a] : t <= at
    BY <1>1, <2>1, <2>6, <2>7, <2>8
  <2>10. NewestFits(a)'
    BY <2>3, <2>7, <2>9 DEF NewestFits
  <2>11. /\ IsFiniteSet(seen[a]) /\ Cardinality(seen[a]) \in Nat
         /\ Cardinality(seen'[a]) = Cardinality(seen[a]) + 1
    BY <1>1, <2>7, <2>8, <2>9, InstantsAreFinite, FS_AddElement
  <2>12. /\ Cardinality(seen[a]) >= tracks[a].count
         /\ tracks[a].count \in Nat /\ tracks'[a].count \in Nat
    BY <2>1, <2>2, <2>3, LifecycleAssumption DEF EstimatorInv, CountFits, TrackRecord
  <2>13. ToldFits(a)' /\ CountFits(a)'
    BY <2>3, <2>7, <2>11, <2>12 DEF ToldFits, CountFits
  <2> QED
    BY <1>8, <2>5, <2>10, <2>13 DEF EstimatorInv
<1>7. CASE ~ Accepts(report)
  <2>1. /\ tracks[a] \in TrackRecord /\ at <= tracks[a].last /\ ~ Starts(tracks, report)
    BY <1>1, <1>7 DEF Starts, Accepts, Tracks, TrackRecord
  <2>2. /\ tracks' = tracks /\ told' = told /\ seen' = seen /\ filterTime' = filterTime
    BY <1>1, <1>2, <1>3, <1>7, <2>1
    DEF HandleReport, Folded, Update, Tracks, FilterAfterReport
  <2> QED
    BY <1>1, <2>2
    DEF EstimatorInv, TypeOK, NewestFits, ToldFits, CountFits
<1> QED
  BY <1>5, <1>6, <1>7

\* Two announcements, one after the other, are that pair.
LEMMA AppendToOne ==
    ASSUME NEW first, NEW second
    PROVE  Append(<<first>>, second) = <<first, second>>
<1> DEFINE S == {first, second}
           appended == Append(<<first>>, second)
           pair == <<first, second>>
<1>0. <<first>> \in Seq(S) /\ Len(<<first>>) = 1 /\ <<first>>[1] = first
  OBVIOUS
<1>1. appended \in Seq(S) /\ Len(appended) = 2 /\ appended[1] = first /\ appended[2] = second
  BY <1>0
<1>2. pair \in Seq(S) /\ Len(pair) = 2 /\ pair[1] = first /\ pair[2] = second
  OBVIOUS
<1> HIDE DEF S, appended, pair
<1>3. \A i \in 1..Len(appended) : appended[i] = pair[i]
  BY <1>1, <1>2
<1>4. appended = pair
  BY ONLY <1>1, <1>2, <1>3, SeqEqual
<1> QED
  BY <1>4 DEF appended, pair

\* A sweep announces a track's next state, once.
LEMMA SweepStep == ASSUME EstimatorInv, Sweep PROVE EstimatorInv'
<1> DEFINE changing == Changing(tracks, now)
<1>1. /\ tracks \in Tracks /\ filterTime \in [Aircraft -> Nat] /\ now \in 0..MaxTime
      /\ told \in [Aircraft -> Seq(TrackState)] /\ now \in Nat
      /\ now' = now /\ seen' = seen
  BY TimeAssumption DEF EstimatorInv, TypeOK, Sweep
<1>2. ASSUME NEW a \in changing
      PROVE  /\ tracks'[a] = [tracks[a] EXCEPT !.state = StateAt(tracks[a], now)]
             /\ tracks'[a] \in TrackRecord /\ tracks[a] \in TrackRecord
             /\ tracks'[a].last = tracks[a].last /\ tracks'[a].count = tracks[a].count
             /\ tracks'[a].state = StateAt(tracks[a], now)
             /\ told'[a] = Append(told[a], StateAt(tracks[a], now))
             /\ filterTime'[a] \in Nat
             /\ a \in Aircraft
  <2>1. /\ a \in Aircraft /\ tracks[a] \in TrackRecord /\ tracks[a].last <= now
        /\ StateAt(tracks[a], now) \in TrackState
    BY <1>1, ChangingMeans DEF TrackState
  <2>2. tracks'[a] = [tracks[a] EXCEPT !.state = StateAt(tracks[a], now)]
    BY <2>1 DEF Sweep, Swept
  <2>3. told'[a] = Append(told[a], tracks'[a].state) /\ filterTime'[a] = FilterAfterSweep(a)
    BY <2>1 DEF Sweep
  <2>4. FilterAfterSweep(a) \in Nat
    BY <1>1, <2>1 DEF FilterAfterSweep, TrackRecord
  <2> QED
    BY <2>1, <2>2, <2>3, <2>4 DEF TrackRecord
<1>3. ASSUME NEW a \in Aircraft, a \notin changing
      PROVE  tracks'[a] = tracks[a] /\ told'[a] = told[a] /\ filterTime'[a] = filterTime[a]
  BY <1>3 DEF Sweep, Swept
<1>4. /\ tracks' = Swept(tracks, now) /\ DOMAIN tracks' = Aircraft
      /\ tracks' = [a \in Aircraft |-> tracks'[a]]
      /\ told' = [a \in Aircraft |-> told'[a]]
      /\ filterTime' = [a \in Aircraft |-> filterTime'[a]]
  BY DEF Sweep, Swept
<1>5. ASSUME NEW a \in Aircraft
      PROVE  /\ tracks'[a] \in TrackRecord \cup {NoTrack}
             /\ told'[a] \in Seq(TrackState) /\ filterTime'[a] \in Nat
  <2>1. CASE a \in changing
    <3>1. StateAt(tracks[a], now) \in TrackState
      BY <1>1, <2>1, ChangingMeans DEF TrackState
    <3>2. Append(told[a], StateAt(tracks[a], now)) \in Seq(TrackState)
      BY <1>1, <3>1
    <3> QED
      BY <1>2, <2>1, <3>2
  <2>2. CASE a \notin changing
    BY <1>1, <1>3, <2>2 DEF Tracks
  <2> QED
    BY <2>1, <2>2
<1>6. TypeOK'
  BY <1>1, <1>4, <1>5 DEF EstimatorInv, TypeOK, Tracks
<1>7. ASSUME NEW a \in Aircraft
      PROVE  /\ tracks'[a] = NoTrack <=> tracks[a] = NoTrack
             /\ tracks'[a].last = tracks[a].last
             /\ tracks'[a].count = tracks[a].count
  <2>1. CASE a \in changing
    <3>1. tracks[a].state # "NONE" /\ tracks'[a].state # "NONE"
      BY <1>2, <2>1 DEF TrackRecord, TrackState
    <3>2. tracks[a] # NoTrack /\ tracks'[a] # NoTrack
      BY <3>1 DEF NoTrack
    <3>3. tracks'[a].last = tracks[a].last /\ tracks'[a].count = tracks[a].count
      BY <1>2, <2>1
    <3> QED
      BY <3>2, <3>3
  <2>2. CASE a \notin changing
    BY <1>3, <2>2
  <2> QED
    BY <2>1, <2>2
<1>8. ASSUME NEW a \in Aircraft PROVE NewestFits(a)'
  BY <1>1, <1>7 DEF EstimatorInv, NewestFits
<1>9. ASSUME NEW a \in Aircraft PROVE ToldFits(a)' /\ CountFits(a)'
  <2>1. CASE a \in changing
    <3>1. /\ tracks[a].state \in {"INITIATING", "CONFIRMED", "COASTING"}
          /\ \/ StateAt(tracks[a], now) = "TERMINATED"
             \/ StateAt(tracks[a], now) = "COASTING" /\ tracks[a].state # "COASTING"
      BY <1>1, <2>1, ChangingMeans
    <3>2. told[a] = <<>> \/ (tracks[a].state = "COASTING" /\ told[a] = <<"COASTING">>)
      BY <3>1 DEF EstimatorInv, ToldFits
    <3> DEFINE state == StateAt(tracks[a], now)
    <3>5. tracks'[a].state = state /\ told'[a] = Append(told[a], state)
      BY <1>2, <2>1
    <3>3. ToldFits(a)'
      <4>1. CASE told[a] = <<>>
        <5>1. told'[a] = <<state>>
          BY <3>5, <4>1
        <5> QED
          BY <3>1, <3>5, <5>1 DEF ToldFits
      <4>2. CASE tracks[a].state = "COASTING" /\ told[a] = <<"COASTING">>
        <5>1. state = "TERMINATED"
          BY <3>1, <4>2
        <5>2. told'[a] = <<"COASTING", "TERMINATED">>
          <6>1. told'[a] = Append(told[a], state)
            BY <3>5
          <6>2. told'[a] = Append(<<"COASTING">>, "TERMINATED")
            BY <4>2, <5>1, <6>1, Zenon
          <6> HIDE DEF state
          <6>3. Append(<<"COASTING">>, "TERMINATED") = <<"COASTING", "TERMINATED">>
            BY AppendToOne
          <6> QED
            BY <6>2, <6>3, Zenon
        <5> QED
          BY <3>5, <5>1, <5>2 DEF ToldFits
      <4> QED
        BY <3>2, <4>1, <4>2
    <3>4. CountFits(a)'
      BY <1>1, <1>2, <2>1, <3>1 DEF EstimatorInv, CountFits
    <3> QED
      BY <3>3, <3>4
  <2>2. CASE a \notin changing
    BY <1>1, <1>3, <2>2 DEF EstimatorInv, ToldFits, CountFits
  <2> QED
    BY <2>1, <2>2
<1> QED
  BY <1>6, <1>8, <1>9 DEF EstimatorInv

\* What is forgotten leaves nothing behind.
LEMMA ForgetStep ==
    ASSUME EstimatorInv, NEW kept, Forget(kept),
           kept \in [Aircraft -> TrackRecord \cup {NoTrack}],
           \A a \in Aircraft : kept[a] \in {tracks[a], NoTrack}
    PROVE  EstimatorInv'
<1>1. /\ tracks' = kept /\ now' = now /\ now \in 0..MaxTime
      /\ filterTime \in [Aircraft -> Nat]
      /\ told \in [Aircraft -> Seq(TrackState)] /\ seen \in [Aircraft -> SUBSET (0..MaxTime)]
  BY DEF EstimatorInv, TypeOK, Forget
<1>2. TypeOK'
  <2>1. tracks' \in Tracks
    BY <1>1 DEF Tracks
  <2>2. filterTime' \in [Aircraft -> Nat]
    BY <1>1 DEF Forget
  <2>3. told' \in [Aircraft -> Seq(TrackState)]
    BY <1>1 DEF Forget
  <2>4. seen' \in [Aircraft -> SUBSET (0..MaxTime)]
    BY <1>1 DEF Forget
  <2> QED
    BY <1>1, <2>1, <2>2, <2>3, <2>4 DEF TypeOK
<1>3. ASSUME NEW a \in Aircraft PROVE NewestFits(a)' /\ ToldFits(a)' /\ CountFits(a)'
  <2>1. CASE kept[a] = NoTrack
    <3>1. told'[a] = <<>> /\ seen'[a] = {} /\ tracks'[a] = NoTrack
      BY <1>1, <2>1 DEF Forget
    <3> QED
      BY <3>1, FS_EmptySet DEF NewestFits, ToldFits, CountFits, NoTrack
  <2>2. CASE kept[a] # NoTrack
    <3>1. told'[a] = told[a] /\ seen'[a] = seen[a] /\ tracks'[a] = tracks[a]
      BY <1>1, <2>2 DEF Forget
    <3> QED
      BY <3>1 DEF EstimatorInv, NewestFits, ToldFits, CountFits
  <2> QED
    BY <2>1, <2>2
<1> QED
  BY <1>2, <1>3 DEF EstimatorInv

\* Reports, sweeps, releases and prunes preserve the invariant.
LEMMA NextInv == ASSUME EstimatorInv, [Next]_vars PROVE EstimatorInv'
<1>1. tracks \in [Aircraft -> TrackRecord \cup {NoTrack}]
  BY DEF EstimatorInv, TypeOK, Tracks
<1>2. ASSUME NEW a \in Aircraft, NEW at \in 0..now, HandleReport([ac |-> a, at |-> at])
      PROVE  EstimatorInv'
  BY <1>2, ReportStep
<1>3. CASE Sweep
  BY <1>3, SweepStep
<1>4. CASE PruneTerminated
  <2>1. /\ Pruned(tracks, now) \in [Aircraft -> TrackRecord \cup {NoTrack}]
        /\ \A a \in Aircraft : Pruned(tracks, now)[a] \in {tracks[a], NoTrack}
    BY <1>1 DEF Pruned
  <2> QED
    BY <1>4, <2>1, ForgetStep DEF PruneTerminated
<1>5. ASSUME NEW addresses \in SUBSET Aircraft, Release(addresses) PROVE EstimatorInv'
  <2>1. /\ Released(tracks, addresses) \in [Aircraft -> TrackRecord \cup {NoTrack}]
        /\ \A a \in Aircraft : Released(tracks, addresses)[a] \in {tracks[a], NoTrack}
    BY <1>1 DEF Released
  <2> QED
    BY <1>5, <2>1, ForgetStep DEF Release
<1>6. CASE Tick
  BY <1>6, TimeAssumption
  DEF Tick, EstimatorInv, TypeOK, NewestFits, ToldFits, CountFits
<1>7. CASE UNCHANGED vars
  BY <1>7 DEF vars, EstimatorInv, TypeOK, NewestFits, ToldFits, CountFits
<1> QED
  BY <1>2, <1>3, <1>4, <1>5, <1>6, <1>7 DEF Next

-----------------------------------------------------------------------------
(* Theorems. *)

\* The inductive invariant, under any order of reports, sweeps, prunes and
\* releases.
THEOREM EstimatorCorrect == Spec => []EstimatorInv
<1>1. Init => EstimatorInv
  BY InitInv
<1>2. EstimatorInv /\ [Next]_vars => EstimatorInv'
  BY NextInv
<1> QED
  BY <1>1, <1>2, PTL DEF Spec

\* Records, filters and histories keep their types: a filter is never moved to
\* before the start, and no count leaves its range.
THEOREM TypeCorrect == Spec => []TypeOK
<1>1. EstimatorInv => TypeOK
  BY DEF EstimatorInv
<1> QED
  BY <1>1, EstimatorCorrect, PTL

\* A silence is announced once as coasting and once as terminated, in that order
\* (states_changed is what the sweep publishes).
THEOREM SilenceAnnouncedOnce == Spec => []AnnouncedOnce
<1>1. EstimatorInv => AnnouncedOnce
  <2> SUFFICES ASSUME EstimatorInv, NEW a \in Aircraft
               PROVE  told[a] \in {<<>>, <<"COASTING">>, <<"TERMINATED">>,
                                   <<"COASTING", "TERMINATED">>}
    BY DEF AnnouncedOnce
  <2>1. tracks[a].state \in TrackState \cup {"NONE"}
    BY DEF EstimatorInv, TypeOK, Tracks, TrackRecord, NoTrack
  <2> QED
    BY <2>1 DEF EstimatorInv, ToldFits, TrackState
<1> QED
  BY <1>1, EstimatorCorrect, PTL

\* No track is confirmed by reports that were redelivered or came late.
THEOREM ConfirmationIsEarned == Spec => []ConfirmedBySeveralReports
<1>1. EstimatorInv => ConfirmedBySeveralReports
  BY DEF EstimatorInv, CountFits, ConfirmedBySeveralReports
<1> QED
  BY <1>1, EstimatorCorrect, PTL

\* A silence is measured from the newest observation of the track.
THEOREM SilenceFromNewest == Spec => []LastIsNewest
<1>1. EstimatorInv => LastIsNewest
  BY DEF EstimatorInv, NewestFits, LastIsNewest, Known
<1> QED
  BY <1>1, EstimatorCorrect, PTL

=============================================================================
