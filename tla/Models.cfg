\* Two horizons, trained twice over; the service is started for each, for one
\* in between and for one beyond.
CONSTANTS
    Horizons = 2
    Asked = {2, 3, 6}
    Window = 2
    MaxPending = 2
    MaxRuns = 2
    MaxBuilds = 2
    MaxInterrupts = 1
    MaxStarts = 2

SPECIFICATION Spec

INVARIANTS TypeOK OneArtifactPerHorizon JudgedByOwnFigures

CHECK_DEADLOCK FALSE
