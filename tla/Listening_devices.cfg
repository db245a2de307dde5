SPECIFICATION Spec
CONSTANTS
    phone = phone  laptop = laptop  s1 = s1  s2 = s2  s3 = s3  p = p  a = a
    Songs = {s1, s2, s3}
    Playlists = {p}
    Ads = {a}
    Album <- AlbumVal
    InitialList <- ListVal
    NewLists <- NewListsVal
    Premium = FALSE
    Clients = {phone, laptop}
    Requests <- RequestsVal
    Edits = 1
    AdEvery = 2
    NextCap = 1
    QueueCap = 2
    None = None
INVARIANTS
    TypeOK
    LatestStartPlays
    NoSongLost
\* Every device has used up its requests and the system rests
CHECK_DEADLOCK FALSE
