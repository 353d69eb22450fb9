CONSTANTS
    Aircraft = {a1}
    CoastAfter = 1
    TerminateAfter = 3
    ConfirmationUpdates = 3
    PruneAfter = 4
    MaxTime = 5
    a1 = a1
SPECIFICATION Spec
INVARIANTS TypeOK AnnouncedOnce ConfirmedBySeveralReports LastIsNewest
PROPERTIES SilenceEndsTrack
