SPECIFICATION FairSpec
CONSTANTS
    host = host  ann = ann  h = h  a1 = a1  a2 = a2
    Users = {host, ann}
    Host = host
    Clients = {h, a1, a2}
    Writers = {a2}
    UserOf <- UserOfVal
    Requests <- RequestsVal
INVARIANTS
    CountExact
    HostStays
PROPERTIES
    BanHolds
    SilencedStays
    SilencedInTheEnd
CHECK_DEADLOCK FALSE
