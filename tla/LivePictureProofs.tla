------------------------- MODULE LivePictureProofs -------------------------
(***************************************************************************)
(* Proofs about LivePicture and the Feed it is fed by, for every interval, *)
(* window, lifetime and latency: the wait ends in time, the data is        *)
(* published in order, nothing is tidied away in vain, and the track is    *)
(* shown while the feed keeps up.                                          *)
(***************************************************************************)
EXTENDS LivePicture, TLAPS

-----------------------------------------------------------------------------
(* The inductive invariant: the feed.                                      *)

\* What the wait is at, and by when it gets on.
WaitInv ==
    /\ ready_at <= now
    /\ stage = "failed" => deadline <= now /\ (ready => ready_at + MaxProbe >= deadline)
    /\ stage = "pausing" => now <= due + MaxLate /\ due <= deadline + PollInterval
    /\ stage \in {"probing", "closing"} =>
          now <= due + MaxProbe /\ due <= deadline + PollInterval + MaxLate
    /\ stage = "closing" /\ ~ answer /\ ready => ready_at >= due
    /\ stage \in {"probing", "closing"} => due <= now

\* How much this run has lost.
Behind == overrun - before

\* Where the clocks of the data and of the wall are in each stage.
PlayInv ==
    /\ stage \in Playing => before <= overrun
    /\ stage \in Playing \ {"publishing"} => published <= Data
    /\ stage \notin Playing \cup {"finished"} => published = 0
    /\ stage = "advancing" => Data = now - Behind
    /\ stage = "publishing" =>
          /\ Data = tick + Interval - Behind /\ elapsed > 0 /\ published < Data
          /\ tick <= now /\ now <= tick + MaxWork
    /\ stage = "sleeping" => Data = due - Behind /\ now <= due + MaxLate /\ due <= now + Interval

-----------------------------------------------------------------------------
(* The inductive invariant: the store.                                     *)

\* What readers have come across was published, and lapses only by time or by
\* the tracker.
TidyInv ==
    /\ Stored \/ writer.command = "zadd" \/ (\E r \in Reader : reading[r] # "idle") =>
          key.until > 0 \/ lapsed
    /\ 0 < key.until /\ key.until <= now => lapsed
    /\ NothingTidiedInVain

\* Before the first report there is nothing.
Unborn == transit = NoReport /\ writer = NoWrite /\ index = NoScore /\ disturbed
BornInv == stage \notin Playing \cup {"finished"} => Unborn

\* The aircraft is in the scenario from the first step on.
Entered == Spec1.entry <= Interval

\* What is in the store, or about to be, and what will replace it.
Lasting == writer.command = "zadd" \/ ~ disturbed
Stamp == IF writer.command = "zadd" THEN writer.at ELSE index
Newest == IF transit # NoReport THEN transit.at ELSE Stamp

\* The moment the last step was over, and the moment the next is over at latest.
Reached ==
    IF stage = "sleeping" THEN due ELSE IF stage = "publishing" THEN tick ELSE now

\* How much of it is due to a late wake-up, at most.
Oversleep == IF stage = "sleeping" THEN 0 ELSE MaxLate

StoreInv ==
    /\ writer.command = "zrem" => disturbed
    /\ ~ disturbed /\ writer.command # "zadd" => Stored
    /\ transit # NoReport => transit.since <= now /\ now <= transit.since + MaxLatency
    /\ stage = "publishing" /\ Entered => truth.airborne

\* What was reported last is as old as the feed is late.
FreshInv ==
    stage \in Playing /\ Entered /\ (transit # NoReport \/ Lasting) =>
        Newest + overrun >= Reached

\* What it replaces is older by no more than a step's work.
OlderInv ==
    stage \in Playing /\ Entered /\ transit # NoReport /\ Lasting =>
        Stamp + overrun + MaxWork >= transit.since

\* The key was written less than an interval before the step that is next, but for
\* the sleep that ended late.
KeyInv ==
    stage \in Playing /\ Entered /\ ~ disturbed =>
        /\ transit = NoReport => Reached + TTL <= key.until + Interval + Oversleep
        /\ transit # NoReport => transit.since + TTL <= key.until + Interval + MaxLate + MaxWork

PictureInv ==
    /\ TypeOK /\ WaitInv /\ PlayInv
    /\ TidyInv /\ BornInv /\ StoreInv /\ FreshInv /\ OlderInv /\ KeyInv

-----------------------------------------------------------------------------
(* The constants and the first state.                                      *)

\* The constants as the arithmetic of the proofs needs them.
LEMMA Bounds ==
    /\ Spec1.entry \in Nat /\ Interval \in Nat /\ Interval > 0 /\ Duration \in Nat
    /\ Timeout \in Nat /\ PollInterval \in Nat /\ MaxWork \in Nat /\ MaxTime \in Nat
    /\ MaxProbe \in Nat /\ MaxLate \in Nat
    /\ MaxFlips \in Nat /\ Window \in Nat /\ TTL \in Nat /\ MaxLatency \in Nat
    /\ MaxForgets \in Nat /\ TTL > Interval + MaxLate + MaxWork + MaxLatency /\ TTL > 0
BY FeedAssumption, LivePictureAssumption DEF FeedAssumption, LivePictureAssumption

\* The invariant holds before the feed has waited for anything.
LEMMA InitInv == Init => PictureInv
<1> SUFFICES ASSUME Init PROVE PictureInv
  OBVIOUS
<1>1. TypeOK
  <2>1. /\ ready \in BOOLEAN /\ answer \in BOOLEAN /\ looping \in BOOLEAN /\ disturbed \in BOOLEAN /\ lapsed \in BOOLEAN
        /\ stage \in Stage /\ reading \in [Reader -> {"idle", "get", "del", "zrem"}]
    BY DEF Init, FeedInit, Stage
  <2>2. 0 \in 0..MaxTime /\ 0 \in 0..MaxFlips /\ 0 \in 0..MaxForgets /\ Timeout \in Nat
    BY Bounds
  <2>3. /\ transit \in [at : Nat, since : Nat] /\ key \in [at : Nat, until : Nat]
        /\ writer \in [command : {"none", "zadd", "zrem"}, at : Nat]
        /\ index \in Nat \cup {NoScore} /\ key.until <= now + TTL
    BY Bounds DEF Init, FeedInit, NoReport, NoWrite, NoKey
  <2> QED
    BY <2>1, <2>2, <2>3 DEF Init, FeedInit, TypeOK
<1>2. WaitInv /\ PlayInv
  BY Bounds DEF Init, FeedInit, WaitInv, PlayInv, Playing
<1>3. TidyInv /\ BornInv /\ StoreInv
  BY Bounds DEF Init, FeedInit, TidyInv, NothingTidiedInVain, BornInv, Unborn, StoreInv, Stored,
                NoWrite, NoKey
<1>4. FreshInv /\ OlderInv /\ KeyInv
  BY DEF Init, FeedInit, FreshInv, OlderInv, KeyInv, Playing
<1> QED
  BY <1>1, <1>2, <1>3, <1>4 DEF PictureInv

-----------------------------------------------------------------------------
(* Time.                                                                   *)

\* The clock passes nothing that is due; it may let a key expire.
LEMMA TickStep ==
    ASSUME PictureInv, Tick
    PROVE  PictureInv'
<1>1. /\ now' = now + 1 /\ now < MaxTime /\ now \in Nat
      /\ UNCHANGED <<ready, ready_at, flips, answer, deadline, looping, start, elapsed, tick,
                     overrun, before, published, truth, stage, due>>
      /\ UNCHANGED <<transit, writer, key, index, forgets, reading, disturbed>>
      /\ stage # "advancing"
      /\ stage \in {"probing", "closing"} => now < due + MaxProbe
      /\ stage = "publishing" => now < tick + MaxWork
      /\ stage \in {"pausing", "sleeping"} => now < due + MaxLate
      /\ transit # NoReport => now < transit.since + MaxLatency
      /\ lapsed' = (lapsed \/ key.until = now + 1)
  BY DEF PictureInv, TypeOK, Tick, FeedMayWait, TrackerMayWait, waitVars, playVars, storeVars
<1>2. TypeOK'
  <2>1. now' \in 0..MaxTime
    BY <1>1, Bounds
  <2>2. lapsed' \in BOOLEAN /\ key'.until <= now' + TTL
    BY <1>1, Bounds DEF PictureInv, TypeOK
  <2> QED
    BY <1>1, <2>1, <2>2 DEF PictureInv, TypeOK
<1>3. WaitInv' /\ PlayInv'
  <2> USE DEF PictureInv, TypeOK
  <2>1. WaitInv'
    BY <1>1, Bounds DEF WaitInv
  <2>2. PlayInv'
    BY <1>1, Bounds DEF PlayInv, Data, Behind
  <2> QED
    BY <2>1, <2>2
<1>4. TidyInv' /\ BornInv'
  <2>1. lapsed => lapsed'
    BY <1>1
  <2>2. 0 < key.until /\ key.until <= now + 1 => lapsed'
    <3>1. key.until \in Nat
      BY DEF PictureInv, TypeOK
    <3>2. key.until <= now + 1 => key.until <= now \/ key.until = now + 1
      BY <1>1, <3>1
    <3> QED
      BY <1>1, <3>2 DEF PictureInv, TidyInv
  <2> QED
    BY <1>1, <2>1, <2>2
       DEF PictureInv, TidyInv, NothingTidiedInVain, Stored, BornInv, Unborn
<1>5. StoreInv'
  BY <1>1, Bounds DEF PictureInv, TypeOK, StoreInv, Stored, Entered
<1>6. stage \in Playing => Reached' = Reached /\ Oversleep' = Oversleep
  BY <1>1 DEF Reached, Oversleep, Playing
<1>7. FreshInv' /\ OlderInv' /\ KeyInv'
  BY <1>1, <1>6 DEF PictureInv, FreshInv, OlderInv, KeyInv, Entered, Lasting, Stamp, Newest
<1> QED
  BY <1>2, <1>3, <1>4, <1>5, <1>7 DEF PictureInv

-----------------------------------------------------------------------------
(* The feed.                                                               *)

\* What a step of the feed leaves to show of the store: the moment that is next
\* is not earlier than it was, and not later than what was lost.
LEMMA FeedOnly ==
    ASSUME PictureInv, UNCHANGED <<now, storeVars, reading, disturbed, lapsed>>,
           overrun' = overrun,
           stage \notin Playing \cup {"finished"} /\ stage' \in Playing => Unborn,
           stage' \notin Playing \cup {"finished"} => stage \notin Playing \cup {"finished"},
           stage' \in Playing =>
               (stage \in Playing /\ Reached' = Reached /\ Oversleep' = Oversleep) \/ Unborn,
           stage' = "publishing" /\ Entered => truth'.airborne
    PROVE  TidyInv' /\ BornInv' /\ StoreInv' /\ FreshInv' /\ OlderInv' /\ KeyInv'
<1>1. UNCHANGED <<now, transit, writer, key, index, reading, disturbed, lapsed>>
  BY DEF storeVars
<1>2. TidyInv' /\ BornInv' /\ StoreInv'
  BY <1>1 DEF PictureInv, TidyInv, NothingTidiedInVain, Stored, BornInv, Unborn, StoreInv, Entered
<1>3. CASE stage' \in Playing /\ Unborn
  BY <1>1, <1>2, <1>3
     DEF Unborn, FreshInv, OlderInv, KeyInv, Lasting, NoWrite
<1>4. CASE stage' \in Playing /\ stage \in Playing /\ Reached' = Reached /\ Oversleep' = Oversleep
  <2>1. FreshInv'
    BY <1>1, <1>4 DEF PictureInv, FreshInv, Entered, Lasting, Stamp, Newest
  <2>2. OlderInv'
    BY <1>1, <1>4 DEF PictureInv, OlderInv, Entered, Lasting, Stamp
  <2>3. KeyInv'
    BY <1>1, <1>4 DEF PictureInv, KeyInv, Entered
  <2> QED
    BY <1>2, <2>1, <2>2, <2>3
<1>5. CASE stage' \notin Playing
  BY <1>2, <1>5 DEF FreshInv, OlderInv, KeyInv
<1> QED
  BY <1>2, <1>3, <1>4, <1>5

\* The loop begins at once where the last one ended, or where the wait did.
LEMMA BeginInv ==
    ASSUME PictureInv, Begin, published <= now,
           UNCHANGED <<now, waitVars, storeVars, reading, disturbed, lapsed>>
    PROVE  TypeOK' /\ WaitInv' /\ PlayInv'
<1>1. /\ UNCHANGED <<now, ready, ready_at, flips, answer, deadline, due, looping, tick, overrun, published>>
      /\ stage' = "advancing" /\ start' = now /\ elapsed' = 0 /\ before' = overrun
      /\ UNCHANGED <<storeVars, reading, disturbed, lapsed>>
  BY DEF Begin, waitVars
<1>2. now \in Nat /\ overrun \in Nat
  BY Bounds DEF PictureInv, TypeOK
<1>3. TypeOK'
  BY <1>1, <1>2 DEF PictureInv, TypeOK, storeVars, Stage
<1>4. WaitInv'
  BY <1>1 DEF PictureInv, WaitInv
<1>5. PlayInv'
  BY <1>1, <1>2 DEF PlayInv, Playing, Data, Behind
<1> QED
  BY <1>3, <1>4, <1>5

\* An answer fits the broker of its moment, which is not before the probe began.
LEMMA AnswerStep ==
    ASSUME PictureInv, Answer, UNCHANGED <<storeVars, reading, disturbed, lapsed>>
    PROVE  PictureInv'
<1>1. /\ stage = "probing" /\ stage' = "closing" /\ answer' = ready /\ Unborn
      /\ UNCHANGED <<now, ready, ready_at, flips, deadline, due, playVars>>
  BY DEF Answer, PictureInv, BornInv, Playing
<1>2. TypeOK' /\ WaitInv' /\ PlayInv'
  BY <1>1
     DEF PictureInv, TypeOK, WaitInv, PlayInv, playVars, storeVars, Stage, Playing
<1> QED
  BY <1>1, <1>2, FeedOnly DEF PictureInv, Playing, playVars

\* A probe that found the broker begins the run; nothing was reported before.
LEMMA ConcludeStep ==
    ASSUME PictureInv, Conclude, UNCHANGED <<storeVars, reading, disturbed, lapsed>>
    PROVE  PictureInv'
<1>1. /\ stage = "closing" /\ UNCHANGED <<now, waitVars>> /\ Unborn
      /\ stage \notin Playing \cup {"finished"}
      /\ now \in Nat /\ due \in Nat /\ deadline \in Nat /\ ready_at \in Nat
  BY Bounds DEF Conclude, PictureInv, TypeOK, BornInv, Playing
<1>2. CASE Begin
  <2>0. published <= now
    BY <1>1 DEF PictureInv, PlayInv
  <2>1. TypeOK' /\ WaitInv' /\ PlayInv'
    BY <1>1, <1>2, <2>0, BeginInv
  <2>2. stage' = "advancing" /\ overrun' = overrun
    BY <1>2 DEF Begin
  <2> QED
    BY <1>1, <2>1, <2>2, FeedOnly DEF PictureInv, Playing
<1>3. CASE GiveUp /\ ~ answer /\ now >= deadline
  <2>1. stage' = "failed" /\ UNCHANGED <<due, playVars, waitVars, now>>
    BY <1>1, <1>3 DEF GiveUp
  <2>2. ready => ready_at + MaxProbe >= deadline
    <3>1. ready => ready_at >= due
      BY <1>1, <1>3 DEF PictureInv, WaitInv
    <3>2. now <= due + MaxProbe
      BY <1>1 DEF PictureInv, WaitInv
    <3> QED
      BY <1>1, <1>3, <3>1, <3>2, Bounds
  <2>3. TypeOK' /\ WaitInv' /\ PlayInv'
    BY <1>1, <1>3, <2>1, <2>2
       DEF PictureInv, TypeOK, WaitInv, PlayInv, playVars, waitVars, storeVars, Stage, Playing
  <2> QED
    BY <1>1, <2>1, <2>3, FeedOnly DEF PictureInv, Playing, playVars
<1>4. CASE Pause /\ ~ now >= deadline
  <2>1. stage' = "pausing" /\ due' = now + PollInterval /\ UNCHANGED <<playVars, waitVars, now>>
    BY <1>1, <1>4 DEF Pause
  <2>2. due' \in Nat /\ now <= due' + MaxLate /\ due' <= deadline + PollInterval
    BY <1>1, <1>4, <2>1, Bounds
  <2>3. TypeOK' /\ WaitInv' /\ PlayInv'
    BY <1>1, <2>1, <2>2
       DEF PictureInv, TypeOK, WaitInv, PlayInv, playVars, waitVars, storeVars, Stage, Playing
  <2> QED
    BY <1>1, <2>1, <2>3, FeedOnly DEF PictureInv, Playing, playVars
<1> QED
  BY <1>2, <1>3, <1>4 DEF Conclude

\* The rest of the wait: the broker comes and goes, the wait goes on or begins again.
LEMMA WaitStep ==
    ASSUME PictureInv, Flip \/ ProbeAgain \/ Restart,
           UNCHANGED <<storeVars, reading, disturbed, lapsed>>
    PROVE  PictureInv'
<1> USE Bounds
<1>1. now' = now /\ UNCHANGED playVars /\ overrun' = overrun /\ truth' = truth /\ now \in Nat
  BY DEF Flip, ProbeAgain, Restart, playVars, PictureInv, TypeOK
<1>2. CASE Flip
  <2>1. flips' \in 0..MaxFlips
    BY <1>2 DEF Flip, PictureInv, TypeOK
  <2>2. ready' \in BOOLEAN /\ ready_at' \in 0..MaxTime
    BY <1>2 DEF Flip, PictureInv, TypeOK
  <2>3. TypeOK'
    BY <1>1, <1>2, <2>1, <2>2 DEF Flip, PictureInv, TypeOK, playVars, storeVars
  <2>4. WaitInv' /\ PlayInv'
    <3>1. PlayInv'
      BY <1>1, <1>2
         DEF Flip, PictureInv, TypeOK, PlayInv, playVars, Data, Behind
    <3>2. /\ UNCHANGED <<now, stage, answer, deadline, due>> /\ ready_at' = now
          /\ now \in Nat /\ deadline \in Nat /\ due \in Nat
      BY <1>2 DEF Flip, PictureInv, TypeOK
    <3>3. stage = "failed" => now + MaxProbe >= deadline
      BY <3>2 DEF PictureInv, WaitInv
    <3>4. stage = "closing" => now >= due
      BY <3>2 DEF PictureInv, WaitInv
    <3> QED
      BY <3>1, <3>2, <3>3, <3>4 DEF PictureInv, WaitInv
  <2>5. Reached' = Reached /\ Oversleep' = Oversleep /\ stage' = stage
    BY <1>1, <1>2 DEF Flip, Reached, Oversleep, playVars
  <2> QED
    BY <1>1, <2>3, <2>4, <2>5, FeedOnly DEF PictureInv, StoreInv
<1>3. CASE ProbeAgain \/ Restart
  <2>1. /\ stage \in {"pausing", "failed"} /\ stage' = "probing" /\ due' = now
        /\ UNCHANGED <<ready, ready_at, flips, answer>>
        /\ deadline' \in Nat /\ now <= deadline' + PollInterval + MaxLate
    <3>1. CASE ProbeAgain
      BY <1>1, <3>1 DEF ProbeAgain, waitVars, PictureInv, TypeOK, WaitInv
    <3>2. CASE Restart
      BY <1>1, <3>2 DEF Restart, PictureInv, TypeOK
    <3> QED
      BY <1>3, <3>1, <3>2
  <2>2. TypeOK'
    BY <1>1, <2>1 DEF PictureInv, TypeOK, Stage, playVars, storeVars
  <2>3. WaitInv' /\ PlayInv'
    <3>1. /\ ready_at' <= now' /\ now' <= due' + MaxProbe /\ due' <= now'
          /\ due' <= deadline' + PollInterval + MaxLate
      <4>1. ready_at' = ready_at /\ ready_at <= now /\ now' = now /\ due' = now
        BY <1>1, <2>1 DEF PictureInv, WaitInv
      <4>2. now <= now + MaxProbe
        BY ONLY <1>1, Bounds
      <4>3. now <= now
        BY ONLY <1>1
      <4>4. due' <= deadline' + PollInterval + MaxLate
        BY <2>1
      <4> QED
        BY <4>1, <4>2, <4>3, <4>4
    <3>2. WaitInv'
      BY <2>1, <3>1 DEF WaitInv
    <3>3. PlayInv'
      BY <1>1, <2>1 DEF PictureInv, PlayInv, Playing, playVars
    <3> QED
      BY <3>2, <3>3
  <2> QED
    BY <1>1, <2>1, <2>2, <2>3, FeedOnly DEF PictureInv, Playing
<1> QED
  BY <1>2, <1>3

\* A step of the simulation: the data goes ahead of the wall clock by an interval,
\* and an aircraft that enters within it is in the air.
LEMMA AdvanceStep ==
    ASSUME PictureInv, Advance, UNCHANGED <<storeVars, reading, disturbed, lapsed>>
    PROVE  PictureInv'
<1> USE Bounds
<1>1. /\ stage = "advancing" /\ stage' = "publishing" /\ tick' = now
      /\ elapsed' = elapsed + Interval
      /\ UNCHANGED <<now, ready, ready_at, flips, answer, deadline, due, looping, start, overrun,
                     before, published>>
      /\ now \in Nat /\ elapsed \in Nat /\ start \in Nat /\ overrun \in Nat /\ before \in Nat
  BY DEF Advance, waitVars, PictureInv, TypeOK
<1>2. TypeOK'
  <2>1. elapsed' \in Nat /\ tick' \in Nat /\ stage' \in Stage
    BY <1>1 DEF Stage
  <2> QED
    BY <1>1, <2>1 DEF PictureInv, TypeOK, storeVars
<1>3. WaitInv' /\ PlayInv'
  <2>1. WaitInv'
    BY <1>1 DEF PictureInv, WaitInv
  <2>2. PlayInv'
    <3>1. published <= Data /\ Data = now - Behind /\ before <= overrun /\ published \in Nat
      BY <1>1 DEF PictureInv, TypeOK, PlayInv, Playing
    <3>2. Data' = Data + Interval /\ Behind' = Behind /\ Data \in Nat /\ Behind \in Nat
      BY <1>1, <3>1 DEF Data, Behind
    <3>3. published < Data' /\ Data' = now + Interval - Behind'
      BY <1>1, <3>1, <3>2
    <3> QED
      BY <1>1, <3>1, <3>3 DEF PlayInv, Playing
  <2> QED
    BY <2>1, <2>2
<1>4. Entered => truth'.airborne
  <2> SUFFICES ASSUME Entered PROVE truth'.airborne
    OBVIOUS
  <2>1. elapsed + Interval >= Spec1.entry
    BY <1>1 DEF Entered
  <2>2. truth' = Flown(Commanded(truth, Spec1.plan, elapsed, elapsed + Interval), Interval)
    BY <2>1 DEF Advance, Advanced
  <2> QED
    BY <2>2 DEF Flown
<1>5. Reached' = Reached /\ Oversleep' = Oversleep
  BY <1>1 DEF Reached, Oversleep
<1> QED
  BY <1>1, <1>2, <1>3, <1>4, <1>5, FeedOnly DEF PictureInv, Playing

\* A wait, or the feed between two steps, wakes from its sleep.
LEMMA WakeStep ==
    ASSUME PictureInv, Wake, UNCHANGED <<storeVars, reading, disturbed, lapsed>>
    PROVE  PictureInv'
<1> USE Bounds
<1>1. /\ stage = "sleeping" /\ stage' = "advancing" /\ overrun' = overrun + now - due
      /\ UNCHANGED <<now, waitVars, due, looping, start, elapsed, tick, before, published, truth>>
      /\ UNCHANGED <<transit, writer, key, index, forgets, reading, disturbed, lapsed>>
  BY DEF Wake, storeVars
<1>2. /\ now \in Nat /\ due \in Nat /\ due <= now /\ now <= due + MaxLate
      /\ overrun \in Nat /\ before \in Nat /\ before <= overrun
      /\ start \in Nat /\ elapsed \in Nat
  BY DEF Wake, PictureInv, TypeOK, PlayInv, Playing
<1>3. overrun' \in Nat /\ overrun' >= overrun
  BY <1>1, <1>2
<1>4. TypeOK' /\ WaitInv'
  BY <1>1, <1>3 DEF PictureInv, TypeOK, WaitInv, waitVars, Stage
<1>5. PlayInv'
  <2>1. Data = due - (overrun - before) /\ published <= Data
    BY <1>1 DEF PictureInv, PlayInv, Playing, Behind
  <2>2. Data' = Data /\ Behind' = overrun' - before
    BY <1>1 DEF Data, Behind
  <2>3. Data = now - (overrun' - before) /\ before <= overrun'
    BY <1>1, <1>2, <2>1
  <2> QED
    BY <1>1, <2>1, <2>2, <2>3 DEF PlayInv, Playing
<1>6. TidyInv' /\ BornInv' /\ StoreInv'
  BY <1>1
     DEF PictureInv, TidyInv, NothingTidiedInVain, Stored, BornInv, Unborn, StoreInv, Playing
<1>7. Reached = due /\ Reached' = now /\ Oversleep = 0 /\ Oversleep' = MaxLate
  BY <1>1 DEF Reached, Oversleep
<1>8. Newest' = Newest /\ Stamp' = Stamp /\ Lasting' = Lasting /\ Newest \in Int /\ Stamp \in Int
  BY <1>1 DEF Newest, Stamp, Lasting, PictureInv, TypeOK, NoScore
<1>9. FreshInv'
  <2>1. Newest + overrun >= due => Newest + overrun' >= now
    BY <1>1, <1>2, <1>8
  <2> QED
    BY <1>1, <1>7, <1>8, <2>1 DEF PictureInv, FreshInv, Entered, Playing
<1>10. OlderInv'
  <2>1. transit.since \in Nat
    BY DEF PictureInv, TypeOK
  <2>2. Stamp + overrun + MaxWork >= transit.since => Stamp + overrun' + MaxWork >= transit.since
    BY <1>2, <1>3, <1>8, <2>1
  <2> QED
    BY <1>1, <1>8, <2>2 DEF PictureInv, OlderInv, Entered, Playing
<1>11. KeyInv'
  <2>1. key.until \in Nat
    BY DEF PictureInv, TypeOK
  <2>2. due + TTL <= key.until + Interval + 0 => now + TTL <= key.until + Interval + MaxLate
    BY <1>2, <2>1
  <2> QED
    BY <1>1, <1>7, <2>2 DEF PictureInv, KeyInv, Entered, Playing
<1> QED
  BY <1>4, <1>5, <1>6, <1>9, <1>10, <1>11 DEF PictureInv

\* The feed comes to the end of the scenario.
LEMMA FinishStep ==
    ASSUME PictureInv, Finish, UNCHANGED <<storeVars, reading, disturbed, lapsed>>
    PROVE  PictureInv'
<1>1. stage = "advancing" /\ UNCHANGED <<now, waitVars>>
  BY DEF Finish
<1>2. CASE Begin
  <2>0. published <= now
    <3>1. /\ published <= now - Behind /\ Behind \in Nat
          /\ published \in Nat /\ now \in Nat
      BY <1>1, Bounds DEF PictureInv, TypeOK, PlayInv, Playing, Behind
    <3> QED
      BY <3>1
  <2>1. TypeOK' /\ WaitInv' /\ PlayInv'
    BY <1>1, <1>2, <2>0, BeginInv
  <2>2. /\ stage' = "advancing" /\ overrun' = overrun /\ Reached' = Reached
        /\ Oversleep' = Oversleep
    BY <1>1, <1>2 DEF Begin, Reached, Oversleep
  <2> QED
    BY <1>1, <2>1, <2>2, FeedOnly DEF PictureInv, Playing
<1>3. CASE stage' = "finished" /\ UNCHANGED <<due, playVars>>
  <2>1. TypeOK' /\ WaitInv' /\ PlayInv'
    BY <1>1, <1>3
       DEF PictureInv, TypeOK, WaitInv, PlayInv, waitVars, playVars, storeVars, Stage, Playing
  <2> QED
    BY <1>1, <1>3, <2>1, FeedOnly DEF PictureInv, Playing, playVars
<1> QED
  BY <1>2, <1>3 DEF Finish

\* Everything the feed does.
LEMMA FeedStepInv ==
    ASSUME PictureInv, FeedStep
    PROVE  PictureInv'
BY AnswerStep, ConcludeStep, WaitStep, AdvanceStep, WakeStep, FinishStep DEF FeedStep

\* A step is over: what it overran is lost, and what it reported is on its way.
LEMMA ReportStep ==
    ASSUME PictureInv, Report
    PROVE  PictureInv'
<1> USE Bounds
<1>1. /\ stage = "publishing" /\ stage' = "sleeping"
      /\ due' = now + RestOfInterval /\ overrun' = overrun + Over
      /\ UNCHANGED <<now, ready, ready_at, flips, answer, deadline, looping, start, elapsed, tick,
                     before>>
      /\ published' = Data
      /\ UNCHANGED <<writer, key, index, forgets, reading, disturbed, lapsed>>
  BY DEF Report, Published, waitVars
<1>2. /\ now \in Nat /\ tick \in Nat /\ tick <= now /\ now <= tick + MaxWork
      /\ start \in Nat /\ elapsed \in Nat /\ elapsed > 0
      /\ overrun \in Nat /\ before \in Nat /\ before <= overrun
      /\ Data = tick + Interval - Behind
  BY <1>1 DEF PictureInv, TypeOK, PlayInv, Playing
<1>3. /\ Over \in Nat /\ RestOfInterval \in Nat /\ RestOfInterval <= Interval
      /\ now + RestOfInterval = tick + Interval + Over
  BY <1>2 DEF Over, RestOfInterval
<1> HIDE DEF Over, RestOfInterval
<1>4. Data \in Nat /\ Data > 0
  BY <1>2 DEF Data
<1>5. /\ transit' = transit \/ (transit'.at = Data /\ transit' # NoReport)
      /\ Entered => transit'.at = Data /\ transit' # NoReport
      /\ transit # NoReport => transit' # NoReport /\ transit'.since = transit.since
      /\ transit = NoReport /\ transit' # NoReport => transit'.since = now
      /\ transit' \in [at : Nat, since : Nat]
  <2>1. transit \in [at : Nat, since : Nat]
    BY DEF PictureInv, TypeOK
  <2>2. [at |-> Data, since |-> IF transit = NoReport THEN now ELSE transit.since] # NoReport
    BY <1>4 DEF NoReport
  <2>3. Entered => truth.airborne
    BY <1>1 DEF PictureInv, StoreInv
  <2> QED
    BY <1>2, <1>4, <2>1, <2>2, <2>3 DEF Report
<1>6. TypeOK'
  <2>1. due' \in Nat /\ overrun' \in Nat /\ stage' \in Stage
    BY <1>1, <1>2, <1>3 DEF Stage
  <2> QED
    BY <1>1, <1>4, <1>5, <2>1 DEF PictureInv, TypeOK
<1>7. WaitInv'
  BY <1>1 DEF PictureInv, WaitInv
<1>8. PlayInv' /\ Data + overrun' >= due'
  <2>1. now <= due' /\ due' <= now + Interval /\ before <= overrun'
    BY <1>1, <1>2, <1>3
  <2>2. Data = due' - (overrun' - before)
    BY <1>1, <1>2, <1>3 DEF Behind
  <2>3. Data' = Data /\ Behind' = overrun' - before
    BY <1>1 DEF Data, Behind
  <2>4. due' \in Nat /\ overrun' \in Nat
    BY <1>1, <1>2, <1>3
  <2> QED
    BY <1>1, <1>2, <1>4, <2>1, <2>2, <2>3, <2>4, Bounds DEF PlayInv, Playing
<1>9. TidyInv' /\ BornInv'
  BY <1>1 DEF PictureInv, TidyInv, NothingTidiedInVain, Stored, BornInv, Playing
<1>10. StoreInv'
  <2>1. transit # NoReport => transit.since <= now /\ now <= transit.since + MaxLatency
    BY DEF PictureInv, StoreInv
  <2>2. transit' # NoReport => transit'.since <= now /\ now <= transit'.since + MaxLatency
    BY <1>2, <1>5, <2>1
  <2> QED
    BY <1>1, <2>2 DEF PictureInv, StoreInv, Stored
<1>11. FreshInv'
  BY <1>1, <1>5, <1>8 DEF FreshInv, Entered, Newest, Reached
<1>12. Lasting' = Lasting /\ Stamp' = Stamp
  BY <1>1 DEF Lasting, Stamp
<1>13. OlderInv'
  <2> SUFFICES ASSUME Entered, Lasting PROVE Stamp + overrun' + MaxWork >= transit'.since
    BY <1>12 DEF OlderInv, Entered
  <2>0. Stamp \in Int
    BY DEF PictureInv, TypeOK, Stamp, NoScore
  <2>1. CASE transit = NoReport
    <3>1. Stamp + overrun >= tick
      BY <1>1, <2>1 DEF PictureInv, FreshInv, Newest, Reached, Playing
    <3>2. transit'.since = now
      BY <1>5, <2>1
    <3> QED
      BY <1>1, <1>2, <1>3, <2>0, <3>1, <3>2
  <2>2. CASE transit # NoReport
    <3>1. Stamp + overrun + MaxWork >= transit.since
      BY <1>1, <2>2 DEF PictureInv, OlderInv, Playing
    <3>2. transit'.since = transit.since /\ transit.since \in Nat
      BY <1>5, <2>2 DEF PictureInv, TypeOK
    <3> QED
      BY <1>1, <1>2, <1>3, <2>0, <3>1, <3>2
  <2> QED
    BY <2>1, <2>2
<1>14. KeyInv'
  <2> SUFFICES ASSUME Entered, ~ disturbed
               PROVE  transit'.since + TTL <= key.until + Interval + MaxLate + MaxWork
    BY <1>1, <1>5 DEF KeyInv, Entered
  <2>0. key.until \in Nat
    BY DEF PictureInv, TypeOK
  <2>1. CASE transit = NoReport
    <3>1. tick + TTL <= key.until + Interval + MaxLate
      BY <1>1, <2>1 DEF PictureInv, KeyInv, Reached, Oversleep, Playing
    <3>2. transit'.since = now
      BY <1>5, <2>1
    <3> QED
      BY <1>2, <2>0, <3>1, <3>2
  <2>2. CASE transit # NoReport
    BY <1>1, <1>5, <2>2 DEF PictureInv, KeyInv, Playing
  <2> QED
    BY <2>1, <2>2
<1> QED
  BY <1>6, <1>7, <1>8, <1>9, <1>10, <1>11, <1>13, <1>14 DEF PictureInv

-----------------------------------------------------------------------------
(* The tracker and the readers.                                            *)

\* Redis knows nothing of the feed.
LEMMA FeedUnmoved ==
    ASSUME PictureInv, UNCHANGED feedVars
    PROVE  /\ WaitInv' /\ PlayInv'
           /\ UNCHANGED <<now, stage, due, tick, overrun, truth>>
           /\ Reached' = Reached /\ Oversleep' = Oversleep
BY DEF PictureInv, WaitInv, PlayInv, feedVars, waitVars, playVars, Data, Behind, Reached, Oversleep

\* The store takes the entry of a track.
LEMMA PublishKeyStep ==
    ASSUME PictureInv, PublishKey
    PROVE  PictureInv'
<1> USE Bounds
<1>1. /\ writer = NoWrite /\ transit # NoReport
      /\ key'.until = now + TTL /\ key' = [at |-> transit.at, until |-> now + TTL]
      /\ writer' = [command |-> "zadd", at |-> transit.at]
      /\ transit' = NoReport /\ disturbed' = FALSE
      /\ UNCHANGED <<feedVars, index, forgets, reading, lapsed>>
  BY DEF PublishKey
<1>2. /\ WaitInv' /\ PlayInv' /\ UNCHANGED <<now, stage, due, tick, overrun, truth>>
      /\ Reached' = Reached /\ Oversleep' = Oversleep
  BY <1>1, FeedUnmoved
<1>3. now \in Nat /\ transit.at \in Nat
  BY DEF PictureInv, TypeOK
<1>4. TypeOK'
  <2>1. /\ key' \in [at : Nat, until : Nat] /\ key'.until <= now' + TTL /\ transit' \in [at : Nat, since : Nat]
        /\ writer' \in [command : {"none", "zadd", "zrem"}, at : Nat]
    BY <1>1, <1>2, <1>3 DEF NoReport
  <2> QED
    BY <1>1, <2>1 DEF PictureInv, TypeOK, feedVars, waitVars, playVars
<1>5. TidyInv'
  BY <1>1, <1>2, <1>3 DEF PictureInv, TidyInv, NothingTidiedInVain
<1>6. BornInv' /\ StoreInv'
  BY <1>1, <1>2 DEF PictureInv, BornInv, Unborn, StoreInv, Entered
<1>7. FreshInv' /\ OlderInv'
  BY <1>1, <1>2 DEF PictureInv, FreshInv, OlderInv, Entered, Newest, Stamp
<1>8. KeyInv'
  <2>1. stage \in Playing => Reached <= now + Interval
    BY <1>3 DEF PictureInv, TypeOK, PlayInv, Playing, Reached
  <2>2. stage \in Playing => Reached \in Nat
    BY DEF PictureInv, TypeOK, Playing, Reached
  <2>3. stage \in Playing => Reached + TTL <= now + TTL + Interval
    BY <1>3, <2>1, <2>2
  <2> QED
    BY <1>1, <1>2, <2>2, <2>3, <1>3 DEF KeyInv, Oversleep
<1> QED
  BY <1>2, <1>4, <1>5, <1>6, <1>7, <1>8 DEF PictureInv

\* The store takes the track into its index.
LEMMA PublishIndexStep ==
    ASSUME PictureInv, PublishIndex
    PROVE  PictureInv'
<1>1. /\ writer.command = "zadd" /\ index' = writer.at /\ writer' = NoWrite
      /\ UNCHANGED <<feedVars, transit, key, forgets, reading, disturbed, lapsed>>
      /\ writer # NoWrite /\ writer.at \in Nat /\ writer'.command = "none"
  BY DEF PublishIndex, NoWrite, PictureInv, TypeOK
<1>2. /\ WaitInv' /\ PlayInv' /\ UNCHANGED <<now, stage, due, tick, overrun, truth>>
      /\ Reached' = Reached /\ Oversleep' = Oversleep
  BY <1>1, FeedUnmoved
<1>3. TypeOK'
  <2>1. index' \in Nat \cup {NoScore} /\ writer' \in [command : {"none", "zadd", "zrem"}, at : Nat]
    BY <1>1 DEF NoWrite
  <2> QED
    BY <1>1, <2>1 DEF PictureInv, TypeOK, feedVars, waitVars, playVars
<1>4. TidyInv' /\ BornInv'
  BY <1>1, <1>2 DEF PictureInv, TidyInv, NothingTidiedInVain, BornInv, Unborn
<1>5. StoreInv'
  BY <1>1, <1>2, Bounds DEF PictureInv, StoreInv, Stored, NoScore, Entered
<1>6. Newest' = Newest /\ Stamp' = Stamp /\ Lasting
  BY <1>1 DEF Newest, Stamp, Lasting
<1>7. FreshInv' /\ OlderInv' /\ KeyInv'
  BY <1>1, <1>2, <1>6 DEF PictureInv, FreshInv, OlderInv, KeyInv, Entered
<1> QED
  BY <1>2, <1>3, <1>4, <1>5, <1>7 DEF PictureInv

\* A termination takes away what nothing is claimed of any longer.
LEMMA ForgetStep ==
    ASSUME PictureInv, ForgetKey \/ ForgetIndex
    PROVE  PictureInv'
<1>1. /\ UNCHANGED <<feedVars, transit, reading>>
      /\ disturbed' /\ disturbed' = TRUE /\ writer'.command # "zadd"
      /\ \/ key' = NoKey /\ lapsed' = TRUE /\ index' = index /\ Stored
         \/ /\ key' = key /\ lapsed' = lapsed /\ index' = NoScore /\ writer' = NoWrite
            /\ writer # NoWrite
  BY DEF ForgetKey, ForgetIndex, NoWrite, PictureInv, StoreInv, TypeOK
<1>2. /\ WaitInv' /\ PlayInv' /\ UNCHANGED <<now, stage, due, tick, overrun, truth>>
      /\ Reached' = Reached /\ Oversleep' = Oversleep
  BY <1>1, FeedUnmoved
<1>3. TypeOK'
  <2>1. /\ index' \in Nat \cup {NoScore} /\ writer' \in [command : {"none", "zadd", "zrem"}, at : Nat]
        /\ key' \in [at : Nat, until : Nat] /\ key'.until <= now' + TTL /\ lapsed' \in BOOLEAN /\ disturbed' \in BOOLEAN
    <3>1. CASE ForgetKey
      BY <1>2, <3>1, Bounds DEF ForgetKey, NoKey, PictureInv, TypeOK
    <3>2. CASE ForgetIndex
      BY <1>2, <3>2 DEF ForgetIndex, NoWrite, PictureInv, TypeOK
    <3> QED
      BY <3>1, <3>2
  <2>2. forgets' \in 0..MaxForgets
    BY Bounds DEF ForgetKey, ForgetIndex, PictureInv, TypeOK
  <2> QED
    BY <1>1, <2>1, <2>2 DEF PictureInv, TypeOK, feedVars, waitVars, playVars
<1>4. TidyInv' /\ BornInv'
  BY <1>1, <1>2
     DEF PictureInv, TidyInv, NothingTidiedInVain, BornInv, Unborn, Stored, NoKey
<1>5. StoreInv'
  BY <1>1, <1>2 DEF PictureInv, StoreInv, Entered
<1>6. FreshInv' /\ OlderInv' /\ KeyInv'
  BY <1>1, <1>2 DEF PictureInv, FreshInv, OlderInv, KeyInv, Entered, Lasting, Newest
<1> QED
  BY <1>2, <1>3, <1>4, <1>5, <1>6 DEF PictureInv

\* A reader asks for what is on the index, and fetches it.
LEMMA ReadStep ==
    ASSUME PictureInv, NEW r \in Reader, Ask(r) \/ Get(r)
    PROVE  PictureInv'
<1>1. /\ UNCHANGED <<feedVars, transit, writer, key, index, forgets, disturbed, lapsed>>
      /\ \E at \in {"idle", "get", "del"} : reading' = [reading EXCEPT ![r] = at]
  BY DEF Ask, Get, storeVars
<1>2. /\ WaitInv' /\ PlayInv' /\ UNCHANGED <<now, stage, due, tick, overrun, truth>>
      /\ Reached' = Reached /\ Oversleep' = Oversleep
  BY <1>1, FeedUnmoved
<1>3. TypeOK'
  BY <1>1 DEF PictureInv, TypeOK, feedVars, waitVars, playVars
<1>4. TidyInv'
  <2>1. CASE Ask(r)
    <3>1. Stored /\ reading' = [reading EXCEPT ![r] = "get"]
      BY <2>1 DEF Ask, InWindow
    <3>2. \A q \in Reader : reading'[q] \in {"del", "zrem"} => reading[q] \in {"del", "zrem"}
      BY <3>1 DEF PictureInv, TypeOK
    <3> QED
      BY <1>1, <1>2, <3>1, <3>2 DEF PictureInv, TidyInv, NothingTidiedInVain, Stored
  <2>2. CASE Get(r)
    <3>1. reading[r] = "get"
      BY <2>2 DEF Get
    <3>2. key.until > 0 \/ lapsed
      BY <3>1 DEF PictureInv, TidyInv
    <3>3. ~ Exists => lapsed
      BY <3>2 DEF PictureInv, TypeOK, TidyInv, Exists
    <3>4. lapsed \/ \A q \in Reader : reading'[q] \in {"del", "zrem"} => reading[q] \in {"del", "zrem"}
      BY <2>2, <3>3 DEF Get, PictureInv, TypeOK
    <3> QED
      BY <1>1, <1>2, <3>2, <3>4 DEF PictureInv, TidyInv, NothingTidiedInVain, Stored
  <2> QED
    BY <2>1, <2>2
<1>5. BornInv' /\ StoreInv'
  BY <1>1, <1>2 DEF PictureInv, BornInv, Unborn, StoreInv, Stored, Entered
<1>6. FreshInv' /\ OlderInv' /\ KeyInv'
  BY <1>1, <1>2 DEF PictureInv, FreshInv, OlderInv, KeyInv, Entered, Lasting, Newest, Stamp
<1> QED
  BY <1>2, <1>3, <1>4, <1>5, <1>6 DEF PictureInv

\* What a reader tidies away had lapsed; a publication under way restores it.
LEMMA TidyStep ==
    ASSUME PictureInv, NEW r \in Reader, TidyKey(r) \/ TidyIndex(r)
    PROVE  PictureInv'
<1>1. /\ UNCHANGED <<feedVars, transit, writer, forgets, lapsed>>
      /\ disturbed' = TRUE /\ reading[r] \in {"del", "zrem"}
      /\ \E at \in {"idle", "zrem"} : reading' = [reading EXCEPT ![r] = at]
      /\ key' = NoKey \/ key' = key
      /\ index' = NoScore \/ index' = index
  BY DEF TidyKey, TidyIndex
<1>2. /\ WaitInv' /\ PlayInv' /\ UNCHANGED <<now, stage, due, tick, overrun, truth>>
      /\ Reached' = Reached /\ Oversleep' = Oversleep
  BY <1>1, FeedUnmoved
<1>3. TypeOK'
  <2>1. key' \in [at : Nat, until : Nat] /\ key'.until <= now' + TTL
    BY <1>1, <1>2, Bounds DEF PictureInv, TypeOK, NoKey
  <2>2. reading' \in [Reader -> {"idle", "get", "del", "zrem"}]
    BY <1>1 DEF PictureInv, TypeOK
  <2>3. index' \in Nat \cup {NoScore} /\ disturbed' \in BOOLEAN
    BY <1>1 DEF PictureInv, TypeOK
  <2> QED
    BY <1>1, <2>1, <2>2, <2>3 DEF PictureInv, TypeOK, feedVars, waitVars, playVars
<1>4. lapsed
  BY <1>1 DEF PictureInv, TidyInv, NothingTidiedInVain
<1>5. TidyInv'
  BY <1>1, <1>4 DEF TidyInv, NothingTidiedInVain
<1>6. BornInv' /\ StoreInv'
  BY <1>1, <1>2 DEF PictureInv, BornInv, Unborn, StoreInv, Entered
<1>7. FreshInv' /\ OlderInv' /\ KeyInv'
  BY <1>1, <1>2 DEF PictureInv, FreshInv, OlderInv, KeyInv, Entered, Lasting, Newest, Stamp
<1> QED
  BY <1>2, <1>3, <1>5, <1>6, <1>7 DEF PictureInv

-----------------------------------------------------------------------------

\* The inductive invariant holds, whatever order the feed, the tracker, the
\* readers and the clock take their steps in.
THEOREM PictureCorrect == Spec => []PictureInv
<1>1. Init => PictureInv
  BY InitInv
<1>2. PictureInv /\ [Next]_vars => PictureInv'
  <2> SUFFICES ASSUME PictureInv, [Next]_vars PROVE PictureInv'
    OBVIOUS
  <2>1. CASE Tick
    BY <2>1, TickStep
  <2>2. CASE FeedStep
    BY <2>2, FeedStepInv
  <2>3. CASE Report
    BY <2>3, ReportStep
  <2>4. CASE PublishKey
    BY <2>4, PublishKeyStep
  <2>5. CASE PublishIndex
    BY <2>5, PublishIndexStep
  <2>6. CASE ForgetKey \/ ForgetIndex
    BY <2>6, ForgetStep
  <2>7. CASE \E r \in Reader : Ask(r) \/ Get(r)
    BY <2>7, ReadStep
  <2>8. CASE \E r \in Reader : TidyKey(r) \/ TidyIndex(r)
    BY <2>8, TidyStep
  <2>9. CASE UNCHANGED vars
    <3>1. /\ UNCHANGED <<feedVars, transit, writer, key, index, forgets, reading, disturbed, lapsed>>
      BY <2>9 DEF vars, storeVars
    <3>2. /\ WaitInv' /\ PlayInv' /\ UNCHANGED <<now, stage, due, tick, overrun, truth>>
          /\ Reached' = Reached /\ Oversleep' = Oversleep
      BY <3>1, FeedUnmoved
    <3>3. TypeOK'
      BY <3>1 DEF PictureInv, TypeOK, feedVars, waitVars, playVars
    <3>4. TidyInv' /\ BornInv' /\ StoreInv'
      BY <3>1, <3>2
         DEF PictureInv, TidyInv, NothingTidiedInVain, BornInv, Unborn, StoreInv, Stored, Entered
    <3>5. FreshInv' /\ OlderInv' /\ KeyInv'
      BY <3>1, <3>2 DEF PictureInv, FreshInv, OlderInv, KeyInv, Entered, Lasting, Newest, Stamp
    <3> QED
      BY <3>2, <3>3, <3>4, <3>5 DEF PictureInv
  <2> QED
    BY <2>1, <2>2, <2>3, <2>4, <2>5, <2>6, <2>7, <2>8, <2>9 DEF Next
<1> QED
  BY <1>1, <1>2, PTL DEF Spec

\* Every variable of the feed, the store and the readers keeps its type.
THEOREM TypeCorrect == Spec => []TypeOK
<1>1. PictureInv => TypeOK
  BY DEF PictureInv
<1> QED
  BY <1>1, PictureCorrect, PTL

\* The wait for Kafka or for the schema ends soon after its deadline, and does not
\* give up on what was there a probe's length before it.
THEOREM WaitCorrect == Spec => []WaitKeepsDeadline
<1>1. PictureInv => WaitKeepsDeadline
  <2> SUFFICES ASSUME PictureInv PROVE WaitKeepsDeadline
    OBVIOUS
  <2>1. stage = "failed" /\ ready => ready_at + MaxProbe >= deadline
    BY DEF PictureInv, WaitInv
  <2>2. now \in Nat /\ due \in Nat /\ deadline \in Nat
    BY Bounds DEF PictureInv, TypeOK
  <2>3. stage = "pausing" => now <= due + MaxLate /\ due <= deadline + PollInterval
    BY DEF PictureInv, WaitInv
  <2>4. stage \in {"probing", "closing"} =>
            now <= due + MaxProbe /\ due <= deadline + PollInterval + MaxLate
    BY DEF PictureInv, WaitInv
  <2>5. stage \in {"probing", "closing", "pausing"} =>
            now <= deadline + PollInterval + MaxLate + MaxProbe
    BY <2>2, <2>3, <2>4, Bounds
  <2> QED
    BY <2>1, <2>5 DEF WaitKeepsDeadline
<1> QED
  BY <1>1, PictureCorrect, PTL

\* What is published is newer than anything published before, however late steps
\* and sleeps end and however often the scenario begins again, and at most an
\* interval ahead of the clock.
THEOREM DataOrdered == Spec => []DataInOrder
<1>1. PictureInv => DataInOrder
  <2> SUFFICES ASSUME PictureInv, stage = "publishing"
               PROVE  published < Data /\ Data <= now + Interval
    BY DEF DataInOrder
  <2>1. /\ published < Data /\ Data = tick + Interval - Behind
        /\ tick <= now /\ before <= overrun
    BY DEF PictureInv, PlayInv, Playing
  <2>2. tick \in Nat /\ now \in Nat /\ before \in Nat /\ overrun \in Nat
    BY Bounds DEF PictureInv, TypeOK
  <2> QED
    BY <2>1, <2>2, Bounds DEF Behind
<1> QED
  BY <1>1, PictureCorrect, PTL

\* The track is in the picture of every reader while the steps have lost no more
\* than the window has to spare, and none tidies it away in vain.
THEOREM ShownCorrect == Spec => []ShownWhileFeedKeepsUp
<1>1. PictureInv => ShownWhileFeedKeepsUp
  <2> SUFFICES ASSUME PictureInv, Entered, stage \in Playing, writer = NoWrite, ~ disturbed,
                      overrun + MaxLate + MaxWork + MaxLatency <= Window
               PROVE  Exists /\ InWindow(Window)
    BY DEF PictureInv, TidyInv, ShownWhileFeedKeepsUp, Entered
  <2>1. /\ now \in Nat /\ due \in Nat /\ tick \in Nat /\ overrun \in Nat /\ key.until \in Nat
        /\ transit.since \in Nat
    BY DEF PictureInv, TypeOK
  <2>2. writer.command # "zadd" /\ Lasting /\ Stamp = index
    BY DEF NoWrite, Lasting, Stamp
  <2>3. Stored /\ index \in Nat
    BY <2>2 DEF PictureInv, TypeOK, StoreInv, Stored
  <2>4. /\ Reached \in Nat /\ now <= Reached + MaxWork + MaxLate
        /\ now + Oversleep <= Reached + MaxWork + MaxLate
    BY <2>1, Bounds DEF PictureInv, PlayInv, Playing, Reached, Oversleep
  <2>5. CASE transit = NoReport
    <3>1. index + overrun >= Reached /\ Reached + TTL <= key.until + Interval + Oversleep
      BY <2>2, <2>5 DEF PictureInv, FreshInv, KeyInv, Newest
    <3>2. now < key.until
      BY <2>1, <2>4, <3>1, Bounds DEF Oversleep
    <3>3. index >= now - Window
      BY <2>1, <2>3, <2>4, <3>1, Bounds
    <3> QED
      BY <2>3, <3>2, <3>3 DEF Exists, InWindow
  <2>6. CASE transit # NoReport
    <3>1. /\ index + overrun + MaxWork >= transit.since
          /\ transit.since + TTL <= key.until + Interval + MaxLate + MaxWork
          /\ now <= transit.since + MaxLatency
      BY <2>2, <2>6 DEF PictureInv, OlderInv, KeyInv, StoreInv
    <3>2. now < key.until
      BY <2>1, <3>1, Bounds
    <3>3. index >= now - Window
      BY <2>1, <2>3, <3>1, Bounds
    <3> QED
      BY <2>3, <3>2, <3>3 DEF Exists, InWindow
  <2> QED
    BY <2>5, <2>6
<1> QED
  BY <1>1, PictureCorrect, PTL

=============================================================================
