SPECIFICATION FairSpec
CONSTANTS
    host = host  ann = ann  bob = bob  dj = dj  h = h  a = a  b = b
    s1 = s1  s2 = s2
    Host = host
    Clients = {dj, h, a, b}
    UserOf <- UserOfVal
    Songs = {s1, s2}
    Initial <- InitialVal
    Scheduled = FALSE
    MaxPerUser = 1
    MaxPerRoom = 1
    Controls = {"play", "pause", "sync", "ENDED"}
    Presses = {dj}
    Requests <- RequestsVal
    MaxItems = 6
INVARIANTS
    PendingBounded
    OnePlaying
    CurrentPlays
    SongOnce
PROPERTIES
    PlaysApproved
    EveryApprovedPlays
CHECK_DEADLOCK FALSE
