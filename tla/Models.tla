------------------------------- MODULE Models -------------------------------
(***************************************************************************)
(* The trajectory models between the training run that replaces them       *)
(* (ml/train.py, ml/models.py, ml/neural.py) and the conformance service   *)
(* that loads one at its start (ml/predictor.py) together with the typical *)
(* errors it is judged by (Calibration and _threshold_for in               *)
(* services/conformance/monitor.py).                                       *)
(*                                                                         *)
(* A model is the run it is of, and so is an error figure: what is learnt  *)
(* is left out.  A file that is being written is torn until it is whole.   *)
(* The service watches one track.                                          *)
(***************************************************************************)
EXTENDS Integers, Sequences

CONSTANTS
    Horizons,         \* how many are trained; they are numbered in that order
    Asked,            \* twice the horizons a service may be started for
    Window,           \* updates a model needs
    MaxPending,       \* predictions that wait
    MaxRuns, MaxBuilds, MaxInterrupts, MaxStarts       \* bounds

ASSUME ModelsAssumption ==
    /\ Horizons \in Nat \ {0} /\ Asked \subseteq Nat
    /\ Window \in Nat \ {0} /\ MaxPending \in Nat \ {0}
    /\ MaxRuns \in Nat /\ MaxBuilds \in Nat \ {0}
    /\ MaxInterrupts \in Nat /\ MaxStarts \in Nat

VARIABLES
    build,            \* what is deployed: its model version,
    extra,            \* and whether it has the machine-learning libraries
    artifact,         \* kind -> horizon -> file
    calibration,      \* the file of the error figures
    run, step, horizon, winner,      \* the training run
    interrupts,
    phase, asked, found, model, figures,      \* the service
    window, pending,                 \* its track: updates, sources of predictions
    judged,           \* what the last update's predictions were judged by
    starts,
    interrupted,      \* history: what a run left half replaced is still so
    calm              \* history: the service loaded while no run did anything

diskVars == <<artifact, calibration>>
runVars == <<run, step, horizon, winner, interrupts, interrupted>>
loadVars == <<asked, found, model, figures>>
trackVars == <<window, pending, judged>>
serviceVars == <<phase, loadVars, trackVars, starts, calm>>
vars == <<build, extra, diskVars, runVars, serviceVars>>

Kind == {"ridge", "neural"}
Horizon == 1..Horizons
File == [is : {"absent", "torn", "whole"}, run : Nat, build : Nat]
Absent == [is |-> "absent", run |-> 0, build |-> 0]
Torn(r) == [is |-> "torn", run |-> r, build |-> 0]
Whole(r, version) == [is |-> "whole", run |-> r, build |-> version]
Exists(file) == file.is # "absent"

Step == {"idle", "fit", "unlink ridge", "unlink neural", "create", "write",
         "create calibration", "write calibration"}
Phase == {"down", "look", "look further", "read", "calibrate", "up"}
Loading == Phase \ {"down", "up"}
Source == {"model", "dead_reckoning"}
NoModel == Absent
Verdict == [source : Source, table : {"model", "physics", "minimum"}, run : Nat]

-----------------------------------------------------------------------------
(* The training run: train_and_evaluate, horizon by horizon. *)

Writing(s) == step = s /\ UNCHANGED <<build, extra, run, interrupts, serviceVars>>

\* The trainer has an installation of its own, with the libraries.
StartRun ==
    /\ step = "idle" /\ run < MaxRuns
    /\ run' = run + 1
    /\ step' = "fit" /\ horizon' = 1
    /\ calm' = (calm /\ phase \notin Loading)
    /\ UNCHANGED <<build, extra, diskVars, winner, interrupts, interrupted, phase, loadVars,
                   trackVars, starts>>

\* The winner is the one with the smaller error on the validation split.
Fit ==
    /\ Writing("fit")
    /\ winner' \in Kind
    /\ step' = "unlink ridge"
    /\ UNCHANGED <<diskVars, horizon, interrupted>>

UnlinkedIfWinner(kind) ==
    artifact' = IF kind = winner THEN [artifact EXCEPT ![kind][horizon] = Absent] ELSE artifact
\* The models of an earlier run go, the loser's as well as the winner's.
Unlinked(kind) == artifact' = [artifact EXCEPT ![kind][horizon] = Absent]
Unlink(kind, next) ==
    /\ Unlinked(kind)
    /\ step' = next
    /\ UNCHANGED <<calibration, horizon, winner, interrupted>>
UnlinkRidge == Writing("unlink ridge") /\ Unlink("ridge", "unlink neural")
UnlinkNeural == Writing("unlink neural") /\ Unlink("neural", "create")

Create ==
    /\ Writing("create")
    /\ artifact' = [artifact EXCEPT ![winner][horizon] = Torn(run)]
    /\ step' = "write"
    /\ UNCHANGED <<calibration, horizon, winner, interrupted>>

Write ==
    /\ Writing("write")
    /\ artifact' = [artifact EXCEPT ![winner][horizon] = Whole(run, build)]
    /\ IF horizon < Horizons THEN step' = "fit" /\ horizon' = horizon + 1
       ELSE step' = "create calibration" /\ UNCHANGED horizon
    /\ UNCHANGED <<calibration, winner, interrupted>>

CreateCalibration ==
    /\ Writing("create calibration")
    /\ calibration' = Torn(run)
    /\ step' = "write calibration"
    /\ UNCHANGED <<artifact, horizon, winner, interrupted>>

\* The figures of all horizons are written once, after the last.
WriteCalibration ==
    /\ Writing("write calibration")
    /\ calibration' = Whole(run, build)
    /\ step' = "idle"
    /\ interrupted' = FALSE
    /\ UNCHANGED <<artifact, horizon, winner>>

\* Nothing on disk has changed yet.
Untouched == \/ step = "idle"
             \/ horizon = 1 /\ step \in {"fit", "unlink ridge"}

\* The process is killed, or something it calls raises.
Interrupt ==
    /\ step # "idle" /\ interrupts < MaxInterrupts
    /\ interrupts' = interrupts + 1
    /\ step' = "idle"
    /\ interrupted' = (interrupted \/ ~ Untouched)
    /\ UNCHANGED <<build, extra, diskVars, run, horizon, winner, serviceVars>>

-----------------------------------------------------------------------------
(* The service: TrajectoryPredictor, then Calibration.load. *)

Unchanging == UNCHANGED <<build, extra, diskVars, runVars>>

Start ==
    /\ phase = "down" /\ starts < MaxStarts
    /\ starts' = starts + 1
    /\ asked' \in Asked
    /\ phase' = "look"
    /\ calm' = (step = "idle" /\ ~ interrupted)
    /\ Unchanging /\ UNCHANGED <<found, model, figures, trackVars>>

\* A file is looked for under the whole part of the horizon; one that is not
\* trained has no file.  The error figures are looked up under the horizon itself.
Named == asked \div 2
Calibrated == Named \in Horizon /\ asked % 2 = 0

IsThere(kind) == Named \in Horizon /\ Exists(artifact[kind][Named])

LoadStep(at, next) ==
    /\ phase = at /\ phase' = next
    /\ Unchanging /\ UNCHANGED <<asked, trackVars, starts, calm>>

Look ==
    \/ /\ IsThere("neural")
       /\ found' = "neural"
       /\ LoadStep("look", "read") /\ UNCHANGED <<model, figures>>
    \/ /\ ~ IsThere("neural")
       /\ LoadStep("look", "look further") /\ UNCHANGED <<found, model, figures>>
LookFurther ==
    \/ /\ IsThere("ridge")
       /\ found' = "ridge"
       /\ LoadStep("look further", "read") /\ UNCHANGED <<model, figures>>
    \/ /\ ~ IsThere("ridge")
       /\ model' = NoModel
       /\ LoadStep("look further", "calibrate") /\ UNCHANGED <<found, figures>>

\* What is gone by now, torn, of another version or without its library is not
\* loaded, and the service goes on without.
LoadableStamped(file) == file.is = "whole" /\ extra
Loadable(file) == file.is = "whole" /\ file.build = build /\ extra
Read ==
    /\ LoadStep("read", "calibrate") /\ UNCHANGED <<found, figures>>
    /\ model' = IF Loadable(artifact[found][Named]) THEN artifact[found][Named] ELSE NoModel

\* Without a whole file the compiled figures are used.
Calibrate ==
    /\ LoadStep("calibrate", "up") /\ UNCHANGED <<found, model>>
    /\ figures' = IF calibration.is = "whole" THEN calibration ELSE Absent

\* The threshold a prediction is judged by is that of its own source.
VerdictByPredictor(source) ==
    [source |-> source,
     table |-> IF ~ Calibrated THEN "minimum"
               ELSE IF model # NoModel THEN "model" ELSE "physics",
     run |-> figures.run]
VerdictOn(source) ==
    [source |-> source,
     table |-> IF ~ Calibrated THEN "minimum"
               ELSE IF source = "model" THEN "model" ELSE "physics",
     run |-> figures.run]

\* An inference may fail or return no number.
Predicted(sound) ==
    IF model # NoModel /\ window + 1 >= Window /\ sound THEN "model" ELSE "dead_reckoning"

\* The oldest makes room.
QueuedWithoutEnd(waiting) == waiting
Queued(waiting) == IF Len(waiting) > MaxPending THEN Tail(waiting) ELSE waiting

\* An update: the predictions that are due leave the queue and are judged, but
\* for the first, which may have missed their time; then one is made.
Observe ==
    /\ phase = "up"
    /\ \E due \in 0..Len(pending), sound \in BOOLEAN :
          /\ \E missed \in 0..due :
                judged' = {VerdictOn(pending[i]) : i \in (missed + 1)..due}
          /\ pending' = Queued(Append(SubSeq(pending, due + 1, Len(pending)), Predicted(sound)))
    /\ window' = IF window < Window THEN window + 1 ELSE window
    /\ Unchanging /\ UNCHANGED <<phase, loadVars, starts, calm>>

Forgotten == window' = 0 /\ pending' = <<>> /\ judged' = {}
Forget ==
    /\ phase = "up"
    /\ Forgotten
    /\ Unchanging /\ UNCHANGED <<phase, loadVars, starts, calm>>

Stop ==
    /\ phase # "down"
    /\ phase' = "down"
    /\ model' = NoModel /\ figures' = Absent
    /\ Forgotten
    /\ Unchanging /\ UNCHANGED <<asked, found, starts, calm>>

-----------------------------------------------------------------------------

\* A new build replaces the old one while neither runs.
Upgrade ==
    /\ step = "idle" /\ phase = "down" /\ build < MaxBuilds
    /\ build' = build + 1
    /\ extra' \in BOOLEAN
    /\ UNCHANGED <<diskVars, runVars, serviceVars>>

Init ==
    /\ build = 1 /\ extra \in BOOLEAN
    /\ artifact = [kind \in Kind |-> [h \in Horizon |-> Absent]]
    /\ calibration = Absent
    /\ run = 0 /\ step = "idle" /\ horizon = 1 /\ winner = "ridge"
    /\ interrupts = 0 /\ interrupted = FALSE
    /\ phase = "down" /\ asked \in Asked /\ found = "ridge" /\ model = NoModel
    /\ figures = Absent /\ starts = 0 /\ calm = TRUE
    /\ window = 0 /\ pending = <<>> /\ judged = {}

Next ==
    \/ StartRun \/ Fit \/ UnlinkRidge \/ UnlinkNeural \/ Create \/ Write
    \/ CreateCalibration \/ WriteCalibration \/ Interrupt
    \/ Start \/ Look \/ LookFurther \/ Read \/ Calibrate
    \/ Observe \/ Forget \/ Stop
    \/ Upgrade

Spec == Init /\ [][Next]_vars

-----------------------------------------------------------------------------

\* The windows and queues of a track stay within the sizes their deques have,
\* and a torn file is never what the service works with (monitor.py:241, 317).
TypeOK ==
    /\ build \in 1..MaxBuilds /\ extra \in BOOLEAN
    /\ artifact \in [Kind -> [Horizon -> File]] /\ calibration \in File
    /\ run \in 0..MaxRuns /\ step \in Step /\ horizon \in Horizon /\ winner \in Kind
    /\ interrupts \in 0..MaxInterrupts /\ interrupted \in BOOLEAN
    /\ phase \in Phase /\ asked \in Asked /\ found \in Kind
    /\ model \in File /\ model.is # "torn" /\ figures \in File /\ figures.is # "torn"
    /\ window \in 0..Window
    /\ pending \in Seq(Source) /\ Len(pending) <= MaxPending
    /\ judged \subseteq Verdict
    /\ starts \in 0..MaxStarts /\ calm \in BOOLEAN

\* Two models for one horizon would let the order the predictor looks in decide
\* which one production uses (train.py:472-476): wherever a run is stopped, and
\* whatever the runs before it left, there is at most one.
OneArtifactPerHorizon == \A h \in Horizon : ~ \A kind \in Kind : Exists(artifact[kind][h])

\* A prediction of the model is judged by the errors of that very model, of the
\* run that trained it, and one of physics by those of physics, provided the
\* service did not load while a run was replacing the files or after one that
\* was stopped half-way (train.py:490-494); and a model that is used is one of
\* the running build (models.py:56-69).
JudgedByOwnFigures ==
    \A verdict \in judged :
        /\ verdict.table \in {"minimum", IF verdict.source = "model" THEN "model" ELSE "physics"}
        /\ verdict.source = "model" =>
              /\ model.is = "whole" /\ model.build = build
              /\ (calm /\ verdict.table = "model") => verdict.run = model.run

=============================================================================
