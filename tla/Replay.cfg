CONSTANTS
    ac1 = ac1
    ac2 = ac2
    Aircraft = {ac1, ac2}
    Worlds <- MCWorlds
    Circle = 4
    Unit <- Compass
    Ceiling = 20
    Horizontal = 2
    Vertical = 2
    Lookahead = 3
    MaxClosing = 4
    MinUpdates = 2
    SigmaCutoff = 2
    Horizon = 3
    Tolerance = 1
    MaxPending = 6
    Threshold = 2
    Bridge = 2
    Attribution = 6
    Duration = 9
    StaleAfter = 1
    ClearAfter = 2
    SustainInterval = 2
    MaxDropouts = 1
    Finest = 4
    Variances = {0, 1, 4}
    EmergencySquawks = {7700}
    ExcessiveDescent = 2
    LowAltitudeDescent = 1
    LowAltitude = 4
    WarningTime = 1
    CautionTime = 2
    WindowLength = 2
    ConfirmAfter = 2
    SpeedRange = {1, 2}
    FlightLevels = {4}
    MissDistances = {0, 1, 3}
    CrossingAngles = {1, 2}
    VerticalOffsets = {0, 1, 3}
    MeetTimes = {4}
    FirstTrack = {1}
    FirstTimes = {3}
    Gaps = {1, 3}
    ManoeuvresPerAircraft = 2
    TurnChanges = {1}
    LevelChanges = {2}
    SpeedChanges <- Slowdowns
    LowestLevel = 1
    HighestLevel = 19
    LowestSpeed = 1
SPECIFICATION Spec
INVARIANT TypeOK NoConflictMissed NoConflictInvented StraightFlightIsForetold
INVARIANT AdvisoriesHaveACause StrayingIsNoticed SeverityIsFresh NearnessIsTrue
INVARIANT SamplesReconstruct
CHECK_DEADLOCK FALSE
