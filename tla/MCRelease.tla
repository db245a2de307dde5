------------------------------- MODULE MCRelease -------------------------------
\* Two connections: one schedules a song, the other moves it or publishes another
\* on the same album.  One user follows the artist, after one who unfollowed; one may.
EXTENDS Release

CONSTANTS ann, bob, s1, s2, x, y, c1, c2

RequestsVal == [c \in Clients |-> IF c = c1 THEN 2 ELSE 1]
UserOfVal   == [k \in Sockets |-> ann]
FansVal     == <<None, ann>>

Offer(s, release, at, album) == <<s, [release |-> release, at |-> at, album |-> album]>>

OffersVal == [c \in Clients |->
    IF c = c1 THEN {Offer(s1, "SCHEDULED", "future", x), Offer(s1, None, None, None)}
    ELSE {Offer(s1, None, None, y), Offer(s2, "PUBLISHED", None, x)}]

==============================================================================
