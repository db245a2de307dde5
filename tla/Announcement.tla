---------------------------- MODULE Announcement -----------------------------
(***************************************************************************)
(* What the followers of an artist may rely on: a song that there is may   *)
(* be announced once.  Everybody who follows the artist then is owed the   *)
(* news until he unfollows; the announcement is finished only when all who *)
(* are owed it have it, and what ended stays so.  News is never taken      *)
(* back, and a screen shows only what its user was told.                   *)
(***************************************************************************)
CONSTANTS Songs, Users

VARIABLES
    followers,              \* of the artist
    there,                  \* songs that exist or have existed
    state,                  \* of a song's announcement
    owed, told, shown       \* users, by song

vars == <<followers, there, state, owed, told, shown>>

Init ==
    /\ followers \in SUBSET Users
    /\ there = {}
    /\ state = [s \in Songs |-> "none"]
    /\ owed = [s \in Songs |-> {}]
    /\ told = [s \in Songs |-> {}]
    /\ shown = [s \in Songs |-> {}]

Follow(u) ==
    /\ followers' = followers \cup {u}
    /\ UNCHANGED <<there, state, owed, told, shown>>

Unfollow(u) ==
    /\ followers' = followers \ {u}
    /\ owed' = [s \in Songs |-> owed[s] \ {u}]
    /\ UNCHANGED <<there, state, told, shown>>

Add(s) ==
    /\ there' = there \cup {s}
    /\ UNCHANGED <<followers, state, owed, told, shown>>

Announce(s) ==
    /\ s \in there /\ state[s] = "none"
    /\ state' = [state EXCEPT ![s] = "running"]
    /\ owed' = [owed EXCEPT ![s] = followers]
    /\ UNCHANGED <<followers, there, told, shown>>

Tell(s) ==
    /\ state[s] = "running"
    /\ \E us \in SUBSET Users : told' = [told EXCEPT ![s] = @ \cup us]
    /\ UNCHANGED <<followers, there, state, owed, shown>>

Finish(s) ==
    /\ state[s] = "running" /\ owed[s] \subseteq told[s]
    /\ state' = [state EXCEPT ![s] = "done"]
    /\ UNCHANGED <<followers, there, owed, told, shown>>

GiveUp(s) ==
    /\ state[s] = "running"
    /\ state' = [state EXCEPT ![s] = "failed"]
    /\ UNCHANGED <<followers, there, owed, told, shown>>

Show(s) ==
    /\ \E u \in told[s] : shown' = [shown EXCEPT ![s] = @ \cup {u}]
    /\ UNCHANGED <<followers, there, state, owed, told>>

Next ==
    \/ \E u \in Users : Follow(u) \/ Unfollow(u)
    \/ \E s \in Songs : Add(s) \/ Announce(s) \/ Tell(s) \/ Finish(s) \/ GiveUp(s) \/ Show(s)

Spec == Init /\ [][Next]_vars

==============================================================================
