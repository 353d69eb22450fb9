---------------------------- MODULE LivePicture ----------------------------
(***************************************************************************)
(* From the feed to a reader of the live picture: Feed's reports reach the *)
(* tracker, which writes them to LiveTrackStore (storage/stores.py), where *)
(* the API reads what was updated within a window and tidies what it finds *)
(* expired.  A pipeline is sent without a transaction, so its commands are *)
(* steps of their own; the index holds the time of the data, the key lives *)
(* by the clock of Redis.                                                  *)
(*                                                                         *)
(* There is one track.  What the tracker does with a report is in          *)
(* TrackService; here it takes up to MaxLatency.                           *)
(***************************************************************************)
EXTENDS Feed

CONSTANTS
    Reader,
    Window,           \* LIVE_WINDOW_S
    Windows,          \* the windows that are asked for
    TTL,
    MaxLatency,
    MaxForgets        \* bound

ASSUME LivePictureAssumption ==
    /\ Window \in Nat /\ Windows \subseteq Nat
    /\ TTL \in Nat /\ MaxLatency \in Nat /\ MaxForgets \in Nat
    /\ TTL > Interval + MaxLate + MaxWork + MaxLatency

VARIABLES
    transit,          \* the last report on its way to the store, and since when
    writer,           \* the tracker's pipeline
    key, index,       \* in Redis
    reading,          \* reader -> where its call of live() is
    forgets,
    disturbed,        \* history: commands other than publish's since the last publish
    lapsed            \* history: the track was terminated, or has expired, before

storeVars == <<transit, writer, key, index, forgets>>
vars == <<feedVars, storeVars, reading, disturbed, lapsed>>

NoReport == [at |-> 0, since |-> 0]
NoKey == [at |-> 0, until |-> 0]
NoScore == -1
NoWrite == [command |-> "none", at |-> 0]
Stored == index # NoScore
Exists == now < key.until

-----------------------------------------------------------------------------
(* The tracker: publish and forget. *)

\* A report that overtakes another in the tracker's batch is written last.
Report ==
    /\ Published
    /\ transit' = IF truth.airborne
                  THEN [at |-> Data, since |-> IF transit = NoReport THEN now ELSE transit.since]
                  ELSE transit
    /\ UNCHANGED <<writer, key, index, forgets, reading, disturbed, lapsed>>

PublishKeyFromData ==
    /\ writer = NoWrite /\ transit # NoReport
    /\ key' = [at |-> transit.at, until |-> transit.at + TTL]
    /\ writer' = [command |-> "zadd", at |-> transit.at]
    /\ transit' = NoReport
    /\ disturbed' = FALSE
    /\ UNCHANGED <<feedVars, index, forgets, reading, lapsed>>
PublishKeyKeepingTTL ==
    /\ writer = NoWrite /\ transit # NoReport
    /\ key' = [at |-> transit.at, until |-> IF Exists THEN key.until ELSE now + TTL]
    /\ writer' = [command |-> "zadd", at |-> transit.at]
    /\ transit' = NoReport
    /\ disturbed' = FALSE
    /\ UNCHANGED <<feedVars, index, forgets, reading, lapsed>>
PublishKey ==
    /\ writer = NoWrite /\ transit # NoReport
    /\ key' = [at |-> transit.at, until |-> now + TTL]
    /\ writer' = [command |-> "zadd", at |-> transit.at]
    /\ transit' = NoReport
    /\ disturbed' = FALSE
    /\ UNCHANGED <<feedVars, index, forgets, reading, lapsed>>

PublishIndex ==
    /\ writer.command = "zadd"
    /\ index' = writer.at
    /\ writer' = NoWrite
    /\ UNCHANGED <<feedVars, transit, key, forgets, reading, disturbed, lapsed>>

\* The tracker terminates the track.
ForgetKey ==
    /\ writer = NoWrite /\ Stored /\ forgets < MaxForgets
    /\ forgets' = forgets + 1
    /\ key' = NoKey
    /\ writer' = [command |-> "zrem", at |-> 0]
    /\ disturbed' = TRUE /\ lapsed' = TRUE
    /\ UNCHANGED <<feedVars, transit, index, reading>>

ForgetIndex ==
    /\ writer.command = "zrem"
    /\ index' = NoScore
    /\ writer' = NoWrite
    /\ UNCHANGED <<feedVars, transit, key, forgets, reading, disturbed, lapsed>>

-----------------------------------------------------------------------------
(* live(), for a reader. *)

InWindow(window) == Stored /\ index >= now - window

Ask(r) ==
    /\ reading[r] = "idle"
    /\ \E window \in Windows : InWindow(window)
    /\ reading' = [reading EXCEPT ![r] = "get"]
    /\ UNCHANGED <<feedVars, storeVars, disturbed, lapsed>>

Get(r) ==
    /\ reading[r] = "get"
    /\ reading' = [reading EXCEPT ![r] = IF Exists THEN "idle" ELSE "del"]
    /\ UNCHANGED <<feedVars, storeVars, disturbed, lapsed>>

TidyKey(r) ==
    /\ reading[r] = "del"
    /\ key' = NoKey
    /\ reading' = [reading EXCEPT ![r] = "zrem"]
    /\ disturbed' = TRUE
    /\ UNCHANGED <<feedVars, transit, writer, index, forgets, lapsed>>

TidyIndex(r) ==
    /\ reading[r] = "zrem"
    /\ index' = NoScore
    /\ reading' = [reading EXCEPT ![r] = "idle"]
    /\ disturbed' = TRUE
    /\ UNCHANGED <<feedVars, transit, writer, key, forgets, lapsed>>

-----------------------------------------------------------------------------

Init ==
    /\ FeedInit
    /\ transit = NoReport /\ writer = NoWrite
    /\ key = NoKey /\ index = NoScore
    /\ reading = [r \in Reader |-> "idle"]
    /\ forgets = 0
    /\ disturbed = TRUE /\ lapsed = FALSE

TrackerMayWait == transit # NoReport => now < transit.since + MaxLatency
PipelineMayWait == writer = NoWrite

Tick ==
    /\ now < MaxTime
    /\ FeedMayWait /\ TrackerMayWait /\ PipelineMayWait
    /\ now' = now + 1
    /\ lapsed' = (lapsed \/ key.until = now + 1)
    /\ UNCHANGED <<waitVars, stage, due, playVars, storeVars, reading, disturbed>>

FeedStep ==
    /\ Flip \/ Answer \/ Conclude \/ ProbeAgain \/ Restart \/ Advance \/ Wake \/ Finish
    /\ UNCHANGED <<storeVars, reading, disturbed, lapsed>>

Next ==
    \/ Tick \/ FeedStep \/ Report
    \/ PublishKey \/ PublishIndex \/ ForgetKey \/ ForgetIndex
    \/ \E r \in Reader : Ask(r) \/ Get(r) \/ TidyKey(r) \/ TidyIndex(r)

Spec == Init /\ [][Next]_vars

-----------------------------------------------------------------------------
(* Properties. *)

\* Everything has its type, and no entry outlives its TTL, whatever the data's clock.
TypeOK ==
    /\ now \in 0..MaxTime
    /\ ready \in BOOLEAN /\ ready_at \in 0..MaxTime /\ flips \in 0..MaxFlips
    /\ looping \in BOOLEAN /\ stage \in Stage
    /\ answer \in BOOLEAN /\ deadline \in Nat /\ due \in Nat /\ start \in Nat /\ elapsed \in Nat
    /\ tick \in Nat /\ overrun \in Nat /\ before \in Nat /\ published \in Nat
    /\ transit \in [at : Nat, since : Nat]
    /\ writer \in [command : {"none", "zadd", "zrem"}, at : Nat]
    /\ key \in [at : Nat, until : Nat] /\ key.until <= now + TTL
    /\ index \in Nat \cup {NoScore}
    /\ reading \in [Reader -> {"idle", "get", "del", "zrem"}]
    /\ forgets \in 0..MaxForgets
    /\ disturbed \in BOOLEAN /\ lapsed \in BOOLEAN

\* Readers tidy only after a termination or an expiry: a track that is reported
\* and shown without a break is never taken off the index by one.
NothingTidiedInVain ==
    (\E r \in Reader : reading[r] \in {"del", "zrem"}) => lapsed

\* While steps and sleeps have not lost more time than the window has to spare, the track
\* is in the picture between one report and the next, unless it was terminated
\* or tidied away since it was last written: then the next report brings it back.
\* No reader tidies it away without need.
ShownWhileFeedKeepsUp ==
    /\ NothingTidiedInVain
    /\ (/\ Spec1.entry <= Interval
        /\ stage \in Playing /\ writer = NoWrite /\ ~ disturbed
        /\ overrun + MaxLate + MaxWork + MaxLatency <= Window)
       => Exists /\ InWindow(Window)

=============================================================================
