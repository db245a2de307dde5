SPECIFICATION Spec
CONSTANTS
    ann = ann  bob = bob  a1 = a1  a2 = a2  b = b
    s1 = s1  s2 = s2  artist = artist
    Users = {ann, bob}
    Songs = {s1, s2}
    Artists = {artist}
    Owner <- OwnerVal
    Clients = {a1, a2, b}
    UserOf <- UserOfVal
    Uses <- UsesVal
    Mortal = {s2}
    Requests <- RequestsVal
    Place <- PlaceVal
    Batch = 1
    Rebuilds = 1
    Faults = 1
PROPERTY RebuildKeepsBoard
CHECK_DEADLOCK FALSE
