----------------------------- MODULE MCListening -----------------------------
\* A free user on two devices, a playlist of three songs and an album of two
EXTENDS Listening

CONSTANTS phone, laptop, s1, s2, s3, p, a

AlbumVal    == <<s1, s2>>
ListVal     == <<s1, s2, s3>>
NewListsVal == {<<>>}
RequestsVal == [c \in Clients |-> IF c = phone THEN 3 ELSE 1]

==============================================================================
