-------------------------------- MODULE Feed --------------------------------
(***************************************************************************)
(* The surveillance feed from its start: the wait for what it needs        *)
(* (common/wait_for_kafka.py; storage/wait_for_schema.py is the same loop  *)
(* around another probe), the topics, and FeedRunner.run, which plays a    *)
(* scenario against the wall clock and begins it again under --loop.       *)
(*                                                                         *)
(* The scenario has one aircraft; Simulation says what a step does to it.  *)
(* Clocks count in the same unit; what the program does between two        *)
(* suspensions takes no time, an awaited call takes as long as its         *)
(* constant allows, and a sleep may end late.                              *)
(***************************************************************************)
EXTENDS Simulation

CONSTANTS
    Spec1,            \* the aircraft of the scenario
    Duration,
    Interval,         \* between reports
    Timeout, PollInterval,  \* of the wait
    MaxProbe,         \* the longest a probe takes, its close included
    MaxWork,          \* the longest one step's publishing takes
    MaxLate,          \* the latest a sleep ends after it should
    MaxTime, MaxFlips \* bounds

ASSUME FeedAssumption ==
    /\ Spec1.entry \in Nat /\ Duration \in Nat /\ Interval \in Nat \ {0}
    /\ Timeout \in Nat /\ PollInterval \in Nat \ {0}
    /\ MaxProbe \in Nat /\ MaxWork \in Nat /\ MaxLate \in Nat /\ MaxTime \in Nat /\ MaxFlips \in Nat

VARIABLES
    now,              \* the wall clock
    ready,            \* the broker answers (the schema is at head)
    ready_at,         \* when that last changed
    flips,
    looping,          \* --loop
    stage,
    answer,           \* of the probe under way
    deadline,         \* of the wait
    due,              \* when a sleep ends, or a probe began
    start, elapsed,   \* of the simulation
    tick,             \* tick_started
    overrun,          \* history: by how much steps and sleeps took too long, in all
    before,           \* and up to the start of this run
    published,        \* history: the instant of the newest data published before
    truth

waitVars == <<ready, ready_at, flips, answer, deadline>>
playVars == <<looping, start, elapsed, tick, overrun, before, published, truth>>
feedVars == <<now, waitVars, stage, due, playVars>>

Stage == {"probing", "closing", "pausing", "failed", "advancing", "publishing", "sleeping", "finished"}
Playing == {"advancing", "publishing", "sleeping"}

-----------------------------------------------------------------------------
(* The wait. *)

Flip ==
    /\ flips < MaxFlips
    /\ flips' = flips + 1
    /\ ready' = ~ ready
    /\ ready_at' = now
    /\ UNCHANGED <<now, stage, answer, deadline, due, playVars>>

\* The simulation starts at the wall clock's time.
Begin ==
    /\ stage' = "advancing"
    /\ start' = now
    /\ elapsed' = 0
    /\ before' = overrun
    /\ truth' = InitialTruth(Spec1)
    /\ UNCHANGED <<due, looping, tick, overrun, published>>

Pause ==
    /\ stage' = "pausing"
    /\ due' = now + PollInterval
    /\ UNCHANGED playVars

GiveUp ==
    /\ stage' = "failed"
    /\ UNCHANGED <<due, playVars>>

\* The broker has answered, or has not; what was opened for the question is
\* still to be closed.
Answer ==
    /\ stage = "probing"
    /\ answer' = ready
    /\ stage' = "closing"
    /\ UNCHANGED <<now, ready, ready_at, flips, deadline, due, playVars>>

\* The deadline is looked at after the probe: the last probe comes after it.
\* What follows a successful wait (ensure_topics, which finds topics that are
\* there already in order) takes no time.
Conclude ==
    /\ stage = "closing"
    /\ IF answer THEN Begin ELSE IF now >= deadline THEN GiveUp ELSE Pause
    /\ UNCHANGED <<now, waitVars>>

ProbeAgainInTime ==
    /\ stage = "pausing" /\ now >= due
    /\ stage' = IF now >= deadline THEN "failed" ELSE "probing"
    /\ due' = now
    /\ UNCHANGED <<now, waitVars, playVars>>
ProbeAgain ==
    /\ stage = "pausing" /\ now >= due
    /\ stage' = "probing"
    /\ due' = now
    /\ UNCHANGED <<now, waitVars, playVars>>

\* Whoever started the wait starts it again.
Restart ==
    /\ stage = "failed"
    /\ stage' = "probing"
    /\ due' = now
    /\ deadline' = now + Timeout
    /\ UNCHANGED <<now, ready, ready_at, flips, answer, playVars>>

-----------------------------------------------------------------------------
(* The run. *)

Data == start + elapsed

\* The simulation advances before anything is published.
Advance ==
    /\ stage = "advancing" /\ elapsed < Duration
    /\ tick' = now
    /\ elapsed' = elapsed + Interval
    /\ truth' = Advanced(truth, Spec1, elapsed, Interval)
    /\ stage' = "publishing"
    /\ UNCHANGED <<now, waitVars, due, looping, start, overrun, before, published>>

\* Reports and truth are out; the rest of the interval is slept.
SleepNothing == 0
Over == IF now - tick > Interval THEN now - tick - Interval ELSE 0
RestOfInterval == IF now - tick > Interval THEN 0 ELSE Interval - (now - tick)
Published ==
    /\ stage = "publishing"
    /\ stage' = "sleeping"
    /\ due' = now + RestOfInterval
    /\ overrun' = overrun + Over
    /\ published' = Data
    /\ UNCHANGED <<now, waitVars, looping, start, elapsed, tick, before, truth>>

\* The next step is timed from when the sleep ended, not from when it should have.
Wake ==
    /\ stage = "sleeping" /\ now >= due
    /\ stage' = "advancing"
    /\ overrun' = overrun + now - due
    /\ UNCHANGED <<now, waitVars, due, looping, start, elapsed, tick, before, published, truth>>

Finish ==
    /\ stage = "advancing" /\ elapsed >= Duration
    /\ IF looping THEN Begin ELSE stage' = "finished" /\ UNCHANGED <<due, playVars>>
    /\ UNCHANGED <<now, waitVars>>

-----------------------------------------------------------------------------

FeedInit ==
    /\ now = 0
    /\ ready \in BOOLEAN /\ ready_at = 0 /\ flips = 0
    /\ looping \in BOOLEAN
    /\ stage = "probing" /\ answer = FALSE /\ deadline = Timeout /\ due = 0
    /\ start = 0 /\ elapsed = 0 /\ tick = 0 /\ overrun = 0 /\ before = 0 /\ published = 0
    /\ truth = InitialTruth(Spec1)

\* The clock does not pass what is due by more than the constants allow.
FeedMayWait ==
    /\ stage # "advancing"
    /\ stage \in {"probing", "closing"} => now < due + MaxProbe
    /\ stage = "publishing" => now < tick + MaxWork
    /\ stage \in {"pausing", "sleeping"} => now < due + MaxLate

-----------------------------------------------------------------------------
(* Properties. *)

\* A wait does not give up on what was ready a probe's length before its
\* deadline, and it ends soon after the deadline.  (What becomes ready later, but
\* in time, may be given up on: the answer is older than the look at the clock.)
WaitKeepsDeadline ==
    /\ stage = "failed" /\ ready => ready_at + MaxProbe >= deadline
    /\ stage \in {"probing", "closing", "pausing"} =>
          now <= deadline + PollInterval + MaxLate + MaxProbe

\* What is published is newer than all that was published before, in the passes
\* of a looped scenario as well, and not further in the future than an interval:
\* the tracker, which drops what is not newer than the newest it has, drops nothing.
DataInOrder ==
    stage = "publishing" => published < Data /\ Data <= now + Interval

\* The comment in FeedRunner.run: if a tick overruns, the run catches up.  At the
\* end of a run whose last step was in time the data is not behind the clock.
RunCatchesUp ==
    stage = "advancing" /\ elapsed >= Duration /\ due = tick + Interval => Data >= now

=============================================================================
