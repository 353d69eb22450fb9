CONSTANTS
    t1 = t1  t2 = t2  conflict = conflict  deviation = deviation
    Track = {t1, t2}
    Condition = {conflict}
    About <- ConflictOnly
    Measured = {}
    ClearAfter = 2  SustainInterval = 2  StaleAfter = 1  TTL = 4
    MaxLead = 1  MaxSkew = 1
    MaxCrashes = 1  MaxFaults = 1
SPECIFICATION FairSpec
PROPERTIES ActiveIsTold GhostLeaves
