----------------------------- MODULE MCEngagement -----------------------------
\* A user on two connections and an artist on one, who cannot follow himself
EXTENDS Engagement

CONSTANTS ann, bob, a1, a2, b, s1, s2, artist

OwnerVal    == [t \in Artists |-> bob]
UserOfVal   == [c \in Clients |-> IF c = b THEN bob ELSE ann]
RequestsVal == [c \in Clients |-> IF c = a1 THEN 2 ELSE 1]
UsesVal     == [c \in Clients |-> IF c = b THEN Adds \cup {"play"} ELSE Adds \cup Withdraws]
PlaceVal    == [s \in Songs |-> IF s = s1 THEN 1 ELSE 2]

==============================================================================
