CONSTANTS
    s = s  g = g  t = t  p = p
    Track = {t}
    Socket = {s}
    Guest = {g}
    NoSocket = NoSocket
    PollSlot = {p}
    Buffer = 1
    NoOrigin = NoOrigin
    Host = Host
    Elsewhere = Elsewhere
    Permitted = {}
    Origins = {Host, Elsewhere}
    MaxChanges = 1
    MaxFaults = 1
SPECIFICATION FairSpec
INVARIANTS TypeOK AlwaysFed
PROPERTIES PictureSettles
