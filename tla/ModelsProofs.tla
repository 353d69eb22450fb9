---------------------------- MODULE ModelsProofs ----------------------------
(***************************************************************************)
(* Proofs about Models, for every number of horizons, every window and     *)
(* queue, and any number of runs, builds and starts: the types, that no    *)
(* horizon ever has two models on disk, and that the service judges each   *)
(* prediction by the figures of what made it.                              *)
(***************************************************************************)
EXTENDS Models, SequenceTheorems, TLAPS

-----------------------------------------------------------------------------
(* The inductive invariant.                                                *)

\* How far the run has come with the horizon it is at.
StepFits ==
    /\ step = "unlink neural" => ~ Exists(artifact["ridge"][horizon])
    /\ step = "create" => \A kind \in Kind : ~ Exists(artifact[kind][horizon])
    /\ step = "write" => \A kind \in Kind \ {winner} : ~ Exists(artifact[kind][horizon])
    /\ step \in {"create calibration", "write calibration"} => horizon = Horizons

\* What there is for h is of this run.
Replaced(h) == \A kind \in Kind : Exists(artifact[kind][h]) => artifact[kind][h].run = run

\* The horizons the run is through with.
Finished(h) == \/ step # "idle" /\ h < horizon
               \/ step \in {"create calibration", "write calibration"}

\* Every model is of the run the error figures are of.
Settled == \A kind \in Kind, h \in Horizon :
              Exists(artifact[kind][h]) => /\ calibration.is = "whole"
                                           /\ artifact[kind][h].run = calibration.run

DiskInv ==
    /\ OneArtifactPerHorizon
    /\ StepFits
    /\ \A h \in Horizon : Finished(h) => Replaced(h)
    /\ ~ interrupted /\ Untouched => Settled

\* What the service has loaded so far, and what it may know.
LoadInv ==
    /\ phase = "read" => Named \in Horizon
    /\ phase \in {"down", "look", "look further", "read"} => model = NoModel
    /\ model # NoModel => model.is = "whole" /\ model.build = build
    /\ calm /\ phase \in Loading => step = "idle" /\ ~ interrupted
    /\ calm /\ phase = "calibrate" /\ model # NoModel =>
          calibration.is = "whole" /\ model.run = calibration.run
    /\ calm /\ phase = "up" /\ model # NoModel => figures.run = model.run

\* What predictions may have been made by.
Usable == IF model = NoModel THEN {"dead_reckoning"} ELSE Source
OwnTable(source) == {"minimum", IF source = "model" THEN "model" ELSE "physics"}

TrackInv ==
    /\ pending \in Seq(Usable)
    /\ \A verdict \in judged : /\ verdict.source \in Usable
                               /\ verdict.table \in OwnTable(verdict.source)
                               /\ verdict.run = figures.run
    /\ phase # "up" => pending = <<>> /\ judged = {}

ModelsInv == TypeOK /\ DiskInv /\ LoadInv /\ TrackInv

-----------------------------------------------------------------------------
(* The training run.                                                       *)

\* At the start nothing is trained and nothing is loaded.
LEMMA InitInv == Init => ModelsInv
<1> SUFFICES ASSUME Init PROVE ModelsInv
  OBVIOUS
<1> USE ModelsAssumption DEF ModelsAssumption
<1>1. \A kind \in Kind, h \in Horizon : ~ Exists(artifact[kind][h])
  BY DEF Init, Absent, Exists
<1>2. TypeOK
  <2>1. Absent \in File /\ Absent.is # "torn" /\ 1 \in Horizon
    BY DEF Absent, File, Horizon
  <2>2. artifact \in [Kind -> [Horizon -> File]]
    BY <2>1 DEF Init
  <2>3. 1 \in 1..MaxBuilds /\ 0 \in 0..MaxRuns /\ 0 \in 0..MaxInterrupts /\ 0 \in 0..MaxStarts
        /\ 0 \in 0..Window /\ Len(<<>>) <= MaxPending /\ <<>> \in Seq(Source)
    OBVIOUS
  <2>4. extra \in BOOLEAN /\ interrupted \in BOOLEAN /\ calm \in BOOLEAN
    BY DEF Init
  <2>5. /\ step \in Step /\ winner \in Kind /\ phase \in Phase /\ found \in Kind
        /\ asked \in Asked /\ judged \subseteq Verdict
    BY DEF Init, Step, Kind, Phase
  <2> QED
    BY <2>1, <2>2, <2>3, <2>4, <2>5 DEF Init, TypeOK, NoModel
<1>3. DiskInv
  BY <1>1 DEF Init, DiskInv, OneArtifactPerHorizon, StepFits, Finished, Settled, Kind
<1>4. LoadInv /\ TrackInv
  BY DEF Init, LoadInv, TrackInv, Loading, Usable
<1> QED
  BY <1>2, <1>3, <1>4 DEF ModelsInv

\* A run that is under way does not disturb what a service knows: one that is
\* loading meanwhile did not load calmly.
LEMMA ServiceUnmoved ==
    ASSUME ModelsInv, step # "idle", UNCHANGED <<build, serviceVars>>
    PROVE  LoadInv' /\ TrackInv'
<1>1. LoadInv'
  BY DEF ModelsInv, LoadInv, serviceVars, loadVars, Named, Horizon, Loading, Phase, NoModel
<1>2. TrackInv'
  BY DEF ModelsInv, TrackInv, serviceVars, loadVars, trackVars, Usable, NoModel
<1> QED
  BY <1>1, <1>2

\* The files are written by a run that is under way.
LEMMA StartRunStep ==
    ASSUME ModelsInv, StartRun
    PROVE  ModelsInv'
<1> USE ModelsAssumption DEF ModelsInv, ModelsAssumption
<1>1. TypeOK'
  BY DEF StartRun, TypeOK, Horizon, Step, diskVars, loadVars, trackVars
<1>2. DiskInv'
  <2>1. OneArtifactPerHorizon' /\ StepFits'
    BY DEF StartRun, DiskInv, OneArtifactPerHorizon, StepFits, diskVars
  <2>2. ASSUME NEW h \in Horizon PROVE ~ Finished(h)'
    BY <2>2 DEF StartRun, Finished, Horizon
  <2>3. ~ interrupted' /\ Untouched' => Settled'
    BY DEF StartRun, DiskInv, Untouched, Settled, diskVars
  <2> QED
    BY <2>1, <2>2, <2>3 DEF DiskInv, Horizon
<1>3. LoadInv' /\ TrackInv'
  BY DEF StartRun, LoadInv, TrackInv, diskVars, loadVars, trackVars, Loading, Phase, Named, Horizon,
         Usable, NoModel
<1> QED
  BY <1>1, <1>2, <1>3

\* A horizon is fitted: nothing is on the disk yet.
LEMMA FitStep ==
    ASSUME ModelsInv, Fit
    PROVE  ModelsInv'
<1> USE ModelsAssumption DEF ModelsInv, ModelsAssumption
<1>1. LoadInv' /\ TrackInv'
  BY ServiceUnmoved DEF Fit, Writing
<1>2. TypeOK'
  BY DEF Fit, Writing, TypeOK, Step, diskVars, serviceVars, loadVars, trackVars
<1>3. DiskInv'
  BY DEF Fit, Writing, DiskInv, OneArtifactPerHorizon, StepFits, Finished, Replaced, Untouched,
         Settled, diskVars
<1> QED
  BY <1>1, <1>2, <1>3

\* Files that are removed leave the rest as it was.
LEMMA UnlinkStep ==
    ASSUME ModelsInv, UnlinkRidge \/ UnlinkNeural
    PROVE  ModelsInv'
<1> USE ModelsAssumption DEF ModelsInv, ModelsAssumption
<1> PICK kind \in Kind :
       /\ Unlinked(kind)
       /\ \/ kind = "ridge" /\ step = "unlink ridge" /\ step' = "unlink neural"
          \/ kind = "neural" /\ step = "unlink neural" /\ step' = "create"
  BY DEF UnlinkRidge, UnlinkNeural, Unlink, Writing, Kind
<1>1. UNCHANGED <<build, extra, run, interrupts, calibration, horizon, winner, interrupted,
                  serviceVars>>
  BY DEF UnlinkRidge, UnlinkNeural, Unlink, Writing
<1>2. LoadInv' /\ TrackInv'
  BY <1>1, ServiceUnmoved
<1>3. /\ artifact' \in [Kind -> [Horizon -> File]]
      /\ ~ Exists(artifact'[kind][horizon])
      /\ \A other \in Kind, h \in Horizon :
            \/ artifact'[other][h] = artifact[other][h]
            \/ ~ Exists(artifact'[other][h])
      /\ \A other \in Kind : ~ Exists(artifact[other][horizon]) => ~ Exists(artifact'[other][horizon])
  BY DEF Unlinked, TypeOK, File, Absent, Exists
<1>4. TypeOK'
  BY <1>1, <1>3 DEF TypeOK, Step, serviceVars, loadVars, trackVars
<1>5. DiskInv'
  <2>1. OneArtifactPerHorizon'
    BY <1>3 DEF DiskInv, OneArtifactPerHorizon
  <2>2. StepFits'
    BY <1>1, <1>3 DEF DiskInv, StepFits, Kind
  <2>3. \A h \in Horizon : Finished(h)' => Replaced(h)'
    BY <1>1, <1>3 DEF DiskInv, Finished, Replaced
  <2>4. ~ Untouched'
    BY DEF Untouched
  <2> QED
    BY <2>1, <2>2, <2>3, <2>4 DEF DiskInv
<1> QED
  BY <1>2, <1>4, <1>5

\* A file that is created or written is the only one of its horizon and of the
\* run, and the horizons before are finished.
LEMMA WrittenStep ==
    ASSUME ModelsInv, Create \/ Write
    PROVE  ModelsInv'
<1> USE ModelsAssumption DEF ModelsInv, ModelsAssumption
<1> PICK file \in File :
       /\ artifact' = [artifact EXCEPT ![winner][horizon] = file]
       /\ file.run = run
  <2>1. Torn(run) \in File /\ Torn(run).run = run
    BY DEF Torn, File, TypeOK
  <2>2. Whole(run, build) \in File /\ Whole(run, build).run = run
    BY DEF Whole, File, TypeOK
  <2> QED
    BY <2>1, <2>2 DEF Create, Write
<1>0. Horizons \in Nat \ {0} /\ horizon \in 1..Horizons
  BY DEF TypeOK, Horizon
<1>1. /\ UNCHANGED <<build, extra, run, interrupts, calibration, winner, interrupted, serviceVars>>
      /\ \/ step = "create" /\ step' = "write" /\ UNCHANGED horizon
         \/ step = "write" /\ step' = "fit" /\ horizon < Horizons /\ horizon' = horizon + 1
         \/ step = "write" /\ step' = "create calibration" /\ horizon = Horizons /\ UNCHANGED horizon
  <2>1. CASE Create
    BY <2>1 DEF Create, Writing
  <2>2. CASE Write
    <3>1. ~ horizon < Horizons => horizon = Horizons
      BY ONLY <1>0
    <3> QED
      BY <2>2, <3>1 DEF Write, Writing
  <2> QED
    BY <2>1, <2>2
<1>2. LoadInv' /\ TrackInv'
  BY <1>1, ServiceUnmoved
<1>3. TypeOK'
  <2>1. artifact' \in [Kind -> [Horizon -> File]]
    BY DEF TypeOK
  <2>2. step' \in Step
    BY <1>1 DEF Step
  <2>3. horizon' = horizon \/ (horizon' = horizon + 1 /\ horizon < Horizons)
    BY <1>1
  <2>4. horizon' \in Horizon
    BY ONLY <1>0, <2>3 DEF Horizon
  <2> QED
    BY <1>1, <2>1, <2>2, <2>4 DEF TypeOK, serviceVars, loadVars, trackVars
<1>4. \A kind \in Kind, h \in Horizon :
         artifact'[kind][h] = IF kind = winner /\ h = horizon THEN file ELSE artifact[kind][h]
  BY DEF TypeOK
<1>5. \A kind \in Kind \ {winner} : ~ Exists(artifact[kind][horizon])
  BY <1>1 DEF DiskInv, StepFits
<1>6. DiskInv'
  <2>1. OneArtifactPerHorizon'
    <3> SUFFICES ASSUME NEW h \in Horizon PROVE \E kind \in Kind : ~ Exists(artifact'[kind][h])
      BY DEF OneArtifactPerHorizon, Exists
    <3>1. CASE h = horizon
      <4>1. PICK kind \in Kind : kind # winner
        BY DEF Kind
      <4> QED
        BY <1>4, <1>5, <3>1, <4>1
    <3>2. CASE h # horizon
      BY <1>4, <3>2 DEF DiskInv, OneArtifactPerHorizon
    <3> QED
      BY <3>1, <3>2
  <2>2. StepFits'
    BY <1>1, <1>4, <1>5 DEF StepFits, TypeOK
  <2>3. ASSUME NEW h \in Horizon, Finished(h)' PROVE Replaced(h)'
    <3>1. h < horizon \/ h = horizon
      <4>1. h \in 1..Horizons
        BY DEF Horizon
      <4>2. \/ h < horizon'
            \/ horizon = Horizons
        BY <1>1, <2>3 DEF Finished
      <4>3. horizon' = horizon \/ horizon' = horizon + 1
        BY <1>1
      <4> QED
        BY ONLY <1>0, <4>1, <4>2, <4>3
    <3>2. CASE h < horizon
      BY <1>1, <1>4, <3>2 DEF DiskInv, Finished, Replaced, Horizon, TypeOK
    <3>3. CASE h = horizon
      <4> SUFFICES ASSUME NEW kind \in Kind, Exists(artifact'[kind][h])
                   PROVE  artifact'[kind][h].run = run
        BY <1>1 DEF Replaced
      <4>1. kind = winner
        BY <1>4, <1>5, <3>3
      <4> QED
        BY <1>4, <3>3, <4>1
    <3> QED
      BY <3>1, <3>2, <3>3
  <2>4. ~ Untouched'
    <3>1. horizon + 1 # 1
      BY ONLY <1>0
    <3> QED
      BY <1>1, <3>1 DEF Untouched
  <2> QED
    BY <2>1, <2>2, <2>3, <2>4 DEF DiskInv
<1> QED
  BY <1>2, <1>3, <1>6

\* With the figures of the run, which went through every horizon, the models
\* and the figures agree again.
LEMMA CalibrationStep ==
    ASSUME ModelsInv, CreateCalibration \/ WriteCalibration
    PROVE  ModelsInv'
<1> USE ModelsAssumption DEF ModelsInv, ModelsAssumption
<1>1. UNCHANGED <<build, extra, run, interrupts, artifact, horizon, winner, serviceVars>>
  BY DEF CreateCalibration, WriteCalibration, Writing
<1>2. step # "idle"
  BY DEF CreateCalibration, WriteCalibration, Writing
<1>3. LoadInv' /\ TrackInv'
  BY <1>1, <1>2, ServiceUnmoved
<1>4. /\ calibration' \in File /\ interrupted' \in BOOLEAN
      /\ step' \in {"write calibration", "idle"}
      /\ step' = "idle" => calibration' = Whole(run, build)
  <2>1. Torn(run) \in File /\ Whole(run, build) \in File
    BY DEF Torn, Whole, File, TypeOK
  <2>2. CASE CreateCalibration
    BY <2>1, <2>2 DEF CreateCalibration, Writing, TypeOK
  <2>3. CASE WriteCalibration
    BY <2>1, <2>3 DEF WriteCalibration, Writing
  <2> QED
    BY <2>2, <2>3
<1>5. TypeOK'
  BY <1>1, <1>4 DEF TypeOK, Step, serviceVars, loadVars, trackVars
<1>6. \A h \in Horizon : Replaced(h)
  BY DEF CreateCalibration, WriteCalibration, Writing, DiskInv, Finished
<1>7. DiskInv'
  <2>1. OneArtifactPerHorizon'
    BY <1>1 DEF DiskInv, OneArtifactPerHorizon
  <2>2. StepFits'
    BY <1>1, <1>4 DEF CreateCalibration, WriteCalibration, Writing, DiskInv, StepFits
  <2>3. \A h \in Horizon : Replaced(h)'
    BY <1>1, <1>6 DEF Replaced
  <2>4. Untouched' => Settled'
    <3>1. Untouched' => calibration' = Whole(run, build)
      BY <1>4 DEF Untouched
    <3> QED
      BY <1>1, <1>6, <3>1 DEF Settled, Replaced, Whole
  <2> QED
    BY <2>1, <2>2, <2>3, <2>4 DEF DiskInv
<1> QED
  BY <1>3, <1>5, <1>7

\* A run that is stopped before it touched anything leaves what there was.
LEMMA InterruptStep ==
    ASSUME ModelsInv, Interrupt
    PROVE  ModelsInv'
<1> USE ModelsAssumption DEF ModelsInv, ModelsAssumption
<1>1. LoadInv' /\ TrackInv'
  BY ServiceUnmoved DEF Interrupt
<1>2. TypeOK'
  <2>1. interrupted' \in BOOLEAN
    BY DEF Interrupt
  <2>2. interrupts' \in 0..MaxInterrupts /\ step' \in Step
    <3>1. MaxInterrupts \in Nat
      OBVIOUS
    <3>2. interrupts \in 0..MaxInterrupts
      BY DEF TypeOK
    <3>3. interrupts' = interrupts + 1 /\ interrupts < MaxInterrupts /\ step' = "idle"
      BY DEF Interrupt
    <3>4. interrupts' \in 0..MaxInterrupts
      BY ONLY <3>1, <3>2, <3>3
    <3> QED
      BY <3>3, <3>4 DEF Step
  <2> QED
    BY <2>1, <2>2 DEF Interrupt, TypeOK, diskVars, serviceVars, loadVars, trackVars
<1>3. DiskInv'
  BY DEF Interrupt, DiskInv, OneArtifactPerHorizon, StepFits, Finished, Untouched, Settled, diskVars
<1> QED
  BY <1>1, <1>2, <1>3

-----------------------------------------------------------------------------
(* The service.                                                            *)

\* The service writes no file and takes no step of a run.
LEMMA DiskUnmoved ==
    ASSUME DiskInv, UNCHANGED <<diskVars, runVars>>
    PROVE  DiskInv'
BY DEF DiskInv, OneArtifactPerHorizon, StepFits, Finished, Replaced, Untouched, Settled, diskVars,
       runVars

\* Before it is up it knows no prediction, and what it loads changes none.
LEMMA Loads ==
    ASSUME ModelsInv, LoadStep(phase, phase'), phase \in Loading, phase' # "down",
           model' \in File, model'.is # "torn", figures' \in File, figures'.is # "torn",
           found' \in Kind, phase' \in Phase
    PROVE  TypeOK' /\ DiskInv' /\ TrackInv'
<1>1. TypeOK'
  BY DEF ModelsInv, LoadStep, Unchanging, TypeOK, diskVars, runVars, trackVars
<1>2. DiskInv'
  BY DiskUnmoved DEF ModelsInv, LoadStep, Unchanging
<1>3. TrackInv'
  <2>1. pending' = <<>> /\ judged' = {}
    BY DEF ModelsInv, LoadStep, TrackInv, trackVars, Loading
  <2> QED
    BY <2>1 DEF TrackInv
<1> QED
  BY <1>1, <1>2, <1>3

\* A training run begins.
LEMMA StartStep ==
    ASSUME ModelsInv, Start
    PROVE  ModelsInv'
<1>1. TypeOK'
  <2>1. starts' \in 0..MaxStarts
    <3>1. MaxStarts \in Nat
      BY ModelsAssumption DEF ModelsAssumption
    <3>2. starts \in 0..MaxStarts /\ starts < MaxStarts /\ starts' = starts + 1
      BY DEF Start, ModelsInv, TypeOK
    <3> QED
      BY ONLY <3>1, <3>2
  <2>2. calm' \in BOOLEAN /\ phase' \in Phase /\ asked' \in Asked
    BY DEF Start, Phase
  <2> QED
    BY <2>1, <2>2 DEF Start, Unchanging, ModelsInv, TypeOK, diskVars, runVars, trackVars
<1>2. DiskInv'
  BY DiskUnmoved DEF ModelsInv, Start, Unchanging
<1>3. LoadInv'
  BY DEF ModelsInv, Start, Unchanging, runVars, LoadInv, Loading, Phase
<1>4. TrackInv'
  BY DEF ModelsInv, Start, TrackInv, trackVars
<1> QED
  BY <1>1, <1>2, <1>3, <1>4 DEF ModelsInv

\* The service looks for artifacts, one horizon after the other.
LEMMA LookStep ==
    ASSUME ModelsInv, Look \/ LookFurther
    PROVE  ModelsInv'
<1>1. /\ phase \in {"look", "look further"} /\ phase' \in {"read", "look further", "calibrate"}
      /\ LoadStep(phase, phase')
      /\ found' \in Kind /\ figures' = figures
  BY DEF Look, LookFurther, LoadStep, ModelsInv, TypeOK, Kind
<1>2. phase' = "read" => Named \in Horizon
  BY DEF Look, LookFurther, LoadStep, IsThere
<1>3. model = NoModel /\ model' = NoModel
  BY DEF Look, LookFurther, LoadStep, ModelsInv, LoadInv
<1>4. TypeOK' /\ DiskInv' /\ TrackInv'
  BY <1>1, <1>3, Loads DEF ModelsInv, TypeOK, Loading, Phase
<1>5. LoadInv'
  <2>1. Named' = Named
    BY <1>1 DEF LoadStep, Named
  <2> QED
    BY <1>1, <1>2, <1>3, <2>1
       DEF ModelsInv, LoadInv, LoadStep, Unchanging, runVars, Loading, Phase, NoModel
<1> QED
  BY <1>4, <1>5 DEF ModelsInv

\* A service that has been calm so far reads a model that the figures are of.
LEMMA ReadStep ==
    ASSUME ModelsInv, Read
    PROVE  ModelsInv'
<1> DEFINE file == artifact[found][Named]
<1>1. /\ phase = "read" /\ phase' = "calibrate" /\ LoadStep(phase, phase')
      /\ found' = found /\ figures' = figures
  BY DEF Read, LoadStep
<1>2. Named \in Horizon /\ found \in Kind
  BY <1>1 DEF ModelsInv, TypeOK, LoadInv
<1>3. file \in File
  BY <1>2 DEF ModelsInv, TypeOK
<1>4. \/ model' = NoModel
      \/ model' = file /\ file.is = "whole" /\ file.build = build
  BY DEF Read, Loadable
<1>5. model' \in File /\ model'.is # "torn"
  BY <1>3, <1>4 DEF NoModel, Absent, File
<1>6. TypeOK' /\ DiskInv' /\ TrackInv'
  BY <1>1, <1>5, Loads DEF ModelsInv, TypeOK, Loading, Phase
<1>7. calm /\ file.is = "whole" => calibration.is = "whole" /\ file.run = calibration.run
  <2> SUFFICES ASSUME calm, file.is = "whole"
               PROVE  calibration.is = "whole" /\ file.run = calibration.run
    OBVIOUS
  <2>1. step = "idle" /\ ~ interrupted
    BY <1>1 DEF ModelsInv, LoadInv, Loading, Phase
  <2>2. Settled
    BY <2>1 DEF ModelsInv, DiskInv, Untouched
  <2> QED
    BY <1>2, <2>2 DEF Settled, Exists
<1>8. /\ UNCHANGED <<build, calibration, step, interrupted, calm>>
      /\ model' # NoModel => model'.is = "whole" /\ model'.build = build
      /\ calm /\ model' # NoModel => calibration.is = "whole" /\ model'.run = calibration.run
  BY <1>1, <1>4, <1>7 DEF LoadStep, Unchanging, diskVars, runVars
<1>9. LoadInv'
  BY <1>1, <1>8 DEF ModelsInv, LoadInv, Loading, Phase, NoModel
<1> QED
  BY <1>6, <1>9 DEF ModelsInv

\* The trainer writes the figures beside the model.
LEMMA CalibrateStep ==
    ASSUME ModelsInv, Calibrate
    PROVE  ModelsInv'
<1>1. /\ phase = "calibrate" /\ phase' = "up" /\ LoadStep(phase, phase')
      /\ found' = found /\ model' = model
      /\ figures' = IF calibration.is = "whole" THEN calibration ELSE Absent
  BY DEF Calibrate, LoadStep
<1>2. figures' \in File /\ figures'.is # "torn"
  BY <1>1 DEF ModelsInv, TypeOK, File, Absent
<1>3. TypeOK' /\ DiskInv' /\ TrackInv'
  BY <1>1, <1>2, Loads DEF ModelsInv, TypeOK, Loading, Phase
<1>4. calm /\ model # NoModel => figures'.run = model.run
  BY <1>1 DEF ModelsInv, LoadInv
<1>5. LoadInv'
  BY <1>1, <1>4 DEF ModelsInv, LoadInv, LoadStep, Unchanging, Loading, NoModel
<1> QED
  BY <1>3, <1>5 DEF ModelsInv

\* The queue holds what could be predicted, and no more than it may.
LEMMA QueueFits ==
    ASSUME NEW S, NEW waiting \in Seq(S), NEW source \in S, NEW due \in 0..Len(waiting),
           Len(waiting) <= MaxPending
    PROVE  /\ Queued(Append(SubSeq(waiting, due + 1, Len(waiting)), source)) \in Seq(S)
           /\ Len(Queued(Append(SubSeq(waiting, due + 1, Len(waiting)), source))) <= MaxPending
<1> DEFINE rest == SubSeq(waiting, due + 1, Len(waiting))
           longer == Append(rest, source)
<1>1. MaxPending \in Nat \ {0} /\ Len(waiting) \in Nat
  BY ModelsAssumption DEF ModelsAssumption
<1>2. rest \in Seq(S) /\ Len(rest) = Len(waiting) - due
  BY <1>1
<1> HIDE DEF rest
<1>3. longer \in Seq(S) /\ Len(longer) = Len(rest) + 1
  BY <1>2
<1> HIDE DEF longer
<1>4. Len(longer) <= MaxPending + 1 /\ Len(longer) \in Nat \ {0}
  BY <1>1, <1>2, <1>3
<1>5. longer # <<>> => Tail(longer) \in Seq(S) /\ Len(Tail(longer)) = Len(longer) - 1
  BY <1>3
<1>6. Queued(longer) \in Seq(S) /\ Len(Queued(longer)) <= MaxPending
  BY <1>1, <1>3, <1>4, <1>5 DEF Queued
<1> QED
  BY <1>6 DEF longer, rest

\* What is due is judged by the figures of its own source, and what is added
\* may be of the model only where there is one.
LEMMA ObserveStep ==
    ASSUME ModelsInv, Observe
    PROVE  ModelsInv'
<1> PICK due \in 0..Len(pending), sound \in BOOLEAN :
       /\ \E missed \in 0..due :
             judged' = {VerdictOn(pending[i]) : i \in (missed + 1)..due}
       /\ pending' = Queued(Append(SubSeq(pending, due + 1, Len(pending)), Predicted(sound)))
  BY DEF Observe
<1> PICK missed \in 0..due : judged' = {VerdictOn(pending[i]) : i \in (missed + 1)..due}
  OBVIOUS
<1>1. /\ phase = "up" /\ window' = IF window < Window THEN window + 1 ELSE window
      /\ UNCHANGED <<build, extra, diskVars, runVars, phase, loadVars, starts, calm>>
  BY DEF Observe, Unchanging
<1>2. pending \in Seq(Usable) /\ Len(pending) <= MaxPending /\ Usable \subseteq Source
  BY DEF ModelsInv, TypeOK, TrackInv, Usable, Source
<1>3. Predicted(sound) \in Usable
  BY DEF Predicted, Usable, Source
<1>4. pending' \in Seq(Usable) /\ pending' \in Seq(Source) /\ Len(pending') <= MaxPending
  BY <1>2, <1>3, QueueFits
<1>5. \A i \in (missed + 1)..due : pending[i] \in Usable
  BY <1>2
<1>6. ASSUME NEW source \in Usable
      PROVE  /\ VerdictOn(source) \in Verdict
             /\ VerdictOn(source).source \in Usable
             /\ VerdictOn(source).table \in OwnTable(VerdictOn(source).source)
             /\ VerdictOn(source).run = figures.run
  <2>1. figures.run \in Nat /\ source \in Source
    BY <1>2 DEF ModelsInv, TypeOK, File
  <2> QED
    BY <2>1 DEF VerdictOn, Verdict, OwnTable
<1>7. \A verdict \in judged' : /\ verdict \in Verdict /\ verdict.source \in Usable
                               /\ verdict.table \in OwnTable(verdict.source)
                               /\ verdict.run = figures.run
  BY <1>5, <1>6, SMTT(40)
<1>8. window' \in 0..Window
  <2>1. Window \in Nat
    BY ModelsAssumption DEF ModelsAssumption
  <2>2. window \in 0..Window
    BY DEF ModelsInv, TypeOK
  <2> QED
    BY <1>1, <2>1, <2>2
<1>9. TypeOK'
  BY <1>1, <1>4, <1>7, <1>8 DEF ModelsInv, TypeOK, diskVars, runVars, loadVars
<1>10. DiskInv'
  BY <1>1, DiskUnmoved DEF ModelsInv
<1>11. LoadInv'
  BY <1>1 DEF ModelsInv, LoadInv, loadVars, diskVars, runVars, Loading, Named, Horizon, NoModel
<1>12. TrackInv'
  <2>1. Usable' = Usable /\ figures' = figures /\ phase' = "up"
    BY <1>1 DEF Usable, loadVars, NoModel
  <2> QED
    BY <1>4, <1>7, <2>1 DEF TrackInv
<1> QED
  BY <1>9, <1>10, <1>11, <1>12 DEF ModelsInv

\* A track that is forgotten, and a service that is stopped, know nothing more.
LEMMA ForgetStopStep ==
    ASSUME ModelsInv, Forget \/ Stop
    PROVE  ModelsInv'
<1>1. /\ window' = 0 /\ pending' = <<>> /\ judged' = {}
      /\ UNCHANGED <<build, extra, diskVars, runVars, asked, found, starts, calm>>
      /\ \/ phase' = phase /\ model' = model /\ figures' = figures
         \/ phase' = "down" /\ model' = NoModel /\ figures' = Absent
  BY DEF Forget, Stop, Forgotten, Unchanging, loadVars
<1>2. TypeOK'
  <2>1. 0 \in 0..Window /\ Len(<<>>) <= MaxPending /\ <<>> \in Seq(Source)
    BY ModelsAssumption DEF ModelsAssumption
  <2>2. /\ model' \in File /\ model'.is # "torn" /\ figures' \in File /\ figures'.is # "torn"
        /\ phase' \in Phase
    <3>1. Absent \in File /\ Absent.is # "torn"
      BY DEF Absent, File
    <3> QED
      BY <1>1, <3>1 DEF ModelsInv, TypeOK, NoModel, Phase
  <2> QED
    BY <1>1, <2>1, <2>2 DEF ModelsInv, TypeOK, diskVars, runVars
<1>3. DiskInv'
  BY <1>1, DiskUnmoved DEF ModelsInv
<1>4. LoadInv'
  BY <1>1 DEF ModelsInv, LoadInv, diskVars, runVars, Loading, Named, Horizon, NoModel
<1>5. TrackInv'
  BY <1>1 DEF TrackInv
<1> QED
  BY <1>2, <1>3, <1>4, <1>5 DEF ModelsInv

\* A new build finds the service stopped, and so without a model.
LEMMA UpgradeStep ==
    ASSUME ModelsInv, Upgrade
    PROVE  ModelsInv'
<1>1. TypeOK'
  <2>1. build' \in 1..MaxBuilds
    <3>1. MaxBuilds \in Nat
      BY ModelsAssumption DEF ModelsAssumption
    <3>2. build \in 1..MaxBuilds /\ build < MaxBuilds /\ build' = build + 1
      BY DEF ModelsInv, TypeOK, Upgrade
    <3> QED
      BY ONLY <3>1, <3>2
  <2> QED
    BY <2>1 DEF ModelsInv, Upgrade, TypeOK, diskVars, runVars, serviceVars, loadVars, trackVars
<1>2. DiskInv'
  BY DiskUnmoved DEF ModelsInv, Upgrade
<1>3. LoadInv'
  BY DEF ModelsInv, Upgrade, LoadInv, serviceVars, loadVars, Loading, Phase, NoModel
<1>4. TrackInv'
  BY DEF ModelsInv, Upgrade, TrackInv, Usable, serviceVars, loadVars, trackVars, NoModel
<1> QED
  BY <1>1, <1>2, <1>3, <1>4 DEF ModelsInv

\* The invariant is about the variables of the specification only.
LEMMA StutterStep ==
    ASSUME ModelsInv, UNCHANGED vars
    PROVE  ModelsInv'
<1>1. UNCHANGED <<build, extra, diskVars, runVars, serviceVars>>
  BY DEF vars
<1>2. TypeOK'
  BY <1>1 DEF ModelsInv, TypeOK, diskVars, runVars, serviceVars, loadVars, trackVars
<1>3. DiskInv'
  BY <1>1, DiskUnmoved DEF ModelsInv
<1>4. LoadInv'
  BY <1>1 DEF ModelsInv, LoadInv, diskVars, runVars, serviceVars, loadVars, Loading, Named, Horizon,
              NoModel
<1>5. TrackInv'
  BY <1>1 DEF ModelsInv, TrackInv, Usable, serviceVars, loadVars, trackVars, NoModel
<1> QED
  BY <1>2, <1>3, <1>4, <1>5 DEF ModelsInv

-----------------------------------------------------------------------------

\* The inductive invariant holds: training runs and services do to the files
\* and to each other what it says, whatever order their steps come in.
THEOREM ModelsCorrect == Spec => []ModelsInv
<1>1. Init => ModelsInv
  BY InitInv
<1>2. ModelsInv /\ [Next]_vars => ModelsInv'
  <2> SUFFICES ASSUME ModelsInv, [Next]_vars PROVE ModelsInv'
    OBVIOUS
  <2>1. CASE StartRun
    BY <2>1, StartRunStep
  <2>2. CASE Fit
    BY <2>2, FitStep
  <2>3. CASE UnlinkRidge \/ UnlinkNeural
    BY <2>3, UnlinkStep
  <2>4. CASE Create \/ Write
    BY <2>4, WrittenStep
  <2>5. CASE CreateCalibration \/ WriteCalibration
    BY <2>5, CalibrationStep
  <2>6. CASE Interrupt
    BY <2>6, InterruptStep
  <2>7. CASE Start
    BY <2>7, StartStep
  <2>8. CASE Look \/ LookFurther
    BY <2>8, LookStep
  <2>9. CASE Read
    BY <2>9, ReadStep
  <2>10. CASE Calibrate
    BY <2>10, CalibrateStep
  <2>11. CASE Observe
    BY <2>11, ObserveStep
  <2>12. CASE Forget \/ Stop
    BY <2>12, ForgetStopStep
  <2>13. CASE Upgrade
    BY <2>13, UpgradeStep
  <2>14. CASE UNCHANGED vars
    BY <2>14, StutterStep
  <2> QED
    BY <2>1, <2>2, <2>3, <2>4, <2>5, <2>6, <2>7, <2>8, <2>9, <2>10, <2>11, <2>12, <2>13, <2>14
       DEF Next
<1> QED
  BY <1>1, <1>2, PTL DEF Spec

\* Windows and queues keep the sizes of their deques, and the service never
\* works with a file that was torn when it read it.
THEOREM TypeCorrect == Spec => []TypeOK
<1>1. ModelsInv => TypeOK
  BY DEF ModelsInv
<1> QED
  BY <1>1, ModelsCorrect, PTL

\* However many runs were stopped, and wherever, no horizon ever has a model of
\* each kind on disk.
THEOREM OneModelPerHorizon == Spec => []OneArtifactPerHorizon
<1>1. ModelsInv => OneArtifactPerHorizon
  BY DEF ModelsInv, DiskInv
<1> QED
  BY <1>1, ModelsCorrect, PTL

\* A prediction is judged by the figures of what made it: those of the training
\* run of that very model, if the service loaded while nothing was half replaced.
THEOREM JudgedFairly == Spec => []JudgedByOwnFigures
<1>1. ModelsInv => JudgedByOwnFigures
  <2> SUFFICES ASSUME ModelsInv, NEW verdict \in judged
               PROVE  /\ verdict.table \in OwnTable(verdict.source)
                      /\ verdict.source = "model" =>
                            /\ model.is = "whole" /\ model.build = build
                            /\ (calm /\ verdict.table = "model") => verdict.run = model.run
    BY DEF JudgedByOwnFigures, OwnTable
  <2>1. verdict.table \in OwnTable(verdict.source) /\ verdict.run = figures.run
    BY DEF ModelsInv, TrackInv
  <2>2. verdict.source = "model" => model # NoModel /\ phase = "up"
    BY DEF ModelsInv, TrackInv, Usable
  <2> QED
    BY <2>1, <2>2 DEF ModelsInv, LoadInv
<1> QED
  BY <1>1, ModelsCorrect, PTL

=============================================================================
