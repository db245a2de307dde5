-------------------------- MODULE MCRoomParticipants --------------------------
\* The host and a listener who is connected twice
EXTENDS RoomParticipants

CONSTANTS host, ann, h, a1, a2

UserOfVal   == [c \in Clients |-> IF c = h THEN host ELSE ann]
RequestsVal == [c \in Clients |-> IF c = a1 THEN 2 ELSE 1]

==============================================================================
