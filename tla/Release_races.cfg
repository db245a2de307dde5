SPECIFICATION FairSpec
CONSTANTS
    ann = ann  bob = bob  s1 = s1  s2 = s2  x = x  y = y  c1 = c1  c2 = c2
    Songs = {s1, s2}
    Albums = {x, y}
    Users = {ann, bob}
    Clients = {c1, c2}
    Requests <- RequestsVal
    Offers <- OffersVal
    Moderated = {s1}
    Sockets = {k}
    UserOf <- UserOfVal
    Fans <- FansVal
    FollowChanges = 1
    Chunk = 1
    Attempts = 2
    Faults = 1
    None = None
INVARIANTS
    TrackLists
    
PROPERTIES
    ImplementsAnnouncement
    DueIsPublished
CHECK_DEADLOCK FALSE
