----------------------------- MODULE MCRoomQueue -----------------------------
\* The host, pressing NEXT on dj and moderating on h, and two listeners
EXTENDS RoomQueue

CONSTANTS host, ann, bob, dj, h, a, b, s1, s2

UserOfVal   == [c \in Clients |-> IF c = a THEN ann ELSE IF c = b THEN bob ELSE host]
InitialVal  == <<s1, s2>>
RequestsVal == [c \in Clients |-> CASE c = dj -> 0 [] c = a -> 2 [] OTHER -> 1]

==============================================================================
