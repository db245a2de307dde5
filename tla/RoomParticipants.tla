--------------------------- MODULE RoomParticipants ---------------------------
(***************************************************************************)
(* Who takes part in a listening room: RoomService.create, join, leave,    *)
(* moderateParticipant and createMessage of one room.  None of them runs   *)
(* in a transaction that covers its steps: a request reads the             *)
(* participant, then writes it blindly, then moves the room's              *)
(* participantCount by one, and other requests run in between.             *)
(***************************************************************************)
EXTENDS Integers, FiniteSets

CONSTANTS
    Users, Host,        \* Host creates the room
    Clients, UserOf,    \* connections, and who is logged in on them
    Writers,            \* the connections that send messages
    Requests            \* how many requests, messages aside, a client may send

ASSUME ConstantsAssumption ==
    /\ Host \in Users
    /\ UserOf \in [Clients -> Users]
    /\ IsFiniteSet(Clients)
    /\ Writers \subseteq Clients
    /\ Requests \in [Clients -> Nat]

VARIABLES
    room, creation,     \* the room's document and RoomService.create's progress
    status, role,       \* participant documents; status "none": there is none
    counted,            \* what each user contributes to participantCount
    req,                \* what each client is doing
    cached,             \* users with a room_active_user key in the cache
    left,               \* requests a client may still send
    overlapped, failed  \* history: users of overlapping and of broken requests

roomVars    == <<room, creation>>
history     == <<overlapped, failed>>
vars == <<room, creation, status, role, counted, req, cached, left, overlapped, failed>>

RoomStates     == {"none", "open", "ended", "deleted"}
CreationStates == {"none", "pending", "done", "failed"}
Statuses       == {"none", "ACTIVE", "LEFT", "KICKED", "BANNED"}
Roles          == {"HOST", "LISTENER"}
Moderation     == {"KICK", "BAN"}
OwnOps         == {"join", "leave"}
Steps == {"idle", "room", "access", "look", "write", "count", "check", "cache", "post"}

\* A request: the user it is about and the participant's status as it read it
Request == [step : Steps, op : OwnOps \cup Moderation \cup {"message"}, about : Users,
            seen : Statuses]

Idle == [step |-> "idle", op |-> "message", about |-> Host, seen |-> "none"]

TypeOK ==
    /\ room \in RoomStates
    /\ creation \in CreationStates
    /\ status \in [Users -> Statuses]
    /\ role \in [Users -> Roles]
    /\ counted \in [Users -> Int]
    /\ req \in [Clients -> Request]
    /\ cached \subseteq Users
    /\ left \in [Clients -> Nat]
    /\ overlapped \subseteq Users
    /\ failed \subseteq Users

Init ==
    /\ room = "none"
    /\ creation = "none"
    /\ status = [u \in Users |-> "none"]
    /\ role = [u \in Users |-> "LISTENER"]
    /\ counted = [u \in Users |-> 0]
    /\ req = [c \in Clients |-> Idle]
    /\ cached = {}
    /\ left = Requests
    /\ overlapped = {}
    /\ failed = {}

Goto(c, from, to) ==
    /\ req[c].step = from
    /\ req' = [req EXCEPT ![c] = IF to = "idle" THEN Idle ELSE [@ EXCEPT !.step = to]]

About(c) == req[c].about

-----------------------------------------------------------------------------
(* The room: RoomService.create, update and remove, all by the host        *)

\* participantCount is 1 from the start, the host's document follows
CreateRoom ==
    /\ room = "none"
    /\ room' = "open"
    /\ creation' = "pending"
    /\ counted' = [counted EXCEPT ![Host] = 1]
    /\ UNCHANGED <<status, role, req, left, cached, history>>

InsertHost ==
    /\ creation = "pending" /\ status[Host] = "none"
    /\ creation' = "done"
    /\ status' = [status EXCEPT ![Host] = "ACTIVE"]
    /\ role' = [role EXCEPT ![Host] = "HOST"]
    /\ UNCHANGED <<room, counted, req, left, cached, history>>

\* The host joined first: the unique index refuses the second document
HostRefused ==
    /\ creation = "pending" /\ status[Host] # "none"
    /\ creation' = "failed"
    /\ UNCHANGED <<room, status, role, counted, req, left, cached, history>>

CreationFails ==
    /\ creation = "pending"
    /\ creation' = "failed"
    /\ failed' = failed \cup {Host}
    /\ UNCHANGED <<room, status, role, counted, req, left, cached, overlapped>>

\* Every status of a room is one update away from every other, ENDED too
SetRoomStatus ==
    /\ \/ room = "open" /\ room' = "ended"
       \/ room = "ended" /\ room' = "open"
    /\ UNCHANGED <<creation, status, role, counted, req, left, cached, history>>

RemoveRoom ==
    /\ room \in {"open", "ended"}
    /\ room' = "deleted"
    /\ UNCHANGED <<creation, status, role, counted, req, left, cached, history>>

-----------------------------------------------------------------------------
(* join, leave and moderateParticipant                                     *)

Send(c, o, u) ==
    /\ left[c] > 0
    /\ o \in OwnOps => u = UserOf[c]
    /\ req[c] = Idle
    /\ req' = [req EXCEPT ![c] = [step |-> "room", op |-> o, about |-> u, seen |-> "none"]]
    /\ left' = [left EXCEPT ![c] = @ - 1]
    /\ UNCHANGED <<roomVars, status, role, counted, cached, history>>

\* findRoomOrThrow, and what assertHost and ensureRoomAccessible ask of the room
RoomAdmits(c) ==
    /\ room \notin {"none", "deleted"}
    /\ req[c].op = "join" /\ room = "ended" => UserOf[c] = Host
    /\ req[c].op \in Moderation => UserOf[c] = Host

FindRoom(c) ==
    /\ RoomAdmits(c)
    /\ Goto(c, "room", IF req[c].op = "join" THEN "access" ELSE "look")
    /\ UNCHANGED <<roomVars, status, role, counted, left, cached, history>>

EnsureAccessible(c) ==
    /\ status[About(c)] # "BANNED"
    /\ Goto(c, "access", "look")
    /\ UNCHANGED <<roomVars, status, role, counted, left, cached, history>>

\* Mutants: join trusts the ban check of ensureRoomAccessible; the host may leave
AdmitsBanned(c) ==
    LET s == status[About(c)] IN
    \/ req[c].op = "join" /\ s # "ACTIVE"
    \/ req[c].op = "leave" /\ s = "ACTIVE" /\ role[About(c)] # "HOST"
    \/ req[c].op \in Moderation /\ s # "none" /\ About(c) # Host

AdmitsHostLeaving(c) ==
    LET s == status[About(c)] IN
    \/ req[c].op = "join" /\ s \notin {"ACTIVE", "BANNED"}
    \/ req[c].op = "leave" /\ s = "ACTIVE"
    \/ req[c].op \in Moderation /\ s # "none" /\ About(c) # Host

\* What a request asks of the participant it reads, so that it writes it
ParticipantAdmits(c) ==
    LET s == status[About(c)] IN
    \/ req[c].op = "join" /\ s \notin {"ACTIVE", "BANNED"}
    \/ req[c].op = "leave" /\ s = "ACTIVE" /\ role[About(c)] # "HOST"
    \/ req[c].op \in Moderation /\ s # "none" /\ About(c) # Host

\* c is going to overwrite the document of u as it read it
Overwrites(c, u) == req[c].step = "write" /\ About(c) = u /\ req[c].seen # "none"

\* Two requests that have both read a participant and written neither, or
\* the host's join while create has not stored the host
Overlaps(c) ==
    \/ /\ status[About(c)] # "none"
       /\ \E d \in Clients : Overwrites(d, About(c))
    \/ About(c) = Host /\ creation = "pending"

ReadParticipant(c) ==
    /\ ParticipantAdmits(c)
    /\ req[c].step = "look"
    /\ req' = [req EXCEPT ![c] = [@ EXCEPT !.step = "write", !.seen = status[About(c)]]]
    /\ overlapped' = IF Overlaps(c) THEN overlapped \cup {About(c)} ELSE overlapped
    /\ UNCHANGED <<roomVars, status, role, counted, left, cached, failed>>

\* Refused, or a join of somebody who is there already
Return(c) ==
    /\ \/ req[c].step = "room" /\ ~RoomAdmits(c)
       \/ req[c].step = "access" /\ status[About(c)] = "BANNED"
       \/ req[c].step = "look" /\ ~ParticipantAdmits(c)
    /\ req' = [req EXCEPT ![c] = Idle]
    /\ UNCHANGED <<roomVars, status, role, counted, left, cached, history>>

Outcome(c) ==
    CASE req[c].op = "leave" -> "LEFT"
      [] req[c].op = "KICK"  -> "KICKED"
      [] req[c].op = "BAN"   -> "BANNED"
      [] OTHER           -> "ACTIVE"

\* Mutant: whoever is kicked or banned is taken off the count
DeltaUnseen(c) == IF req[c].op = "join" THEN 1 ELSE -1

\* By how much the request moves participantCount once it has written
Delta(c) ==
    CASE req[c].op = "join"  -> 1
      [] req[c].op = "leave" -> -1
      [] OTHER           -> IF req[c].seen = "ACTIVE" THEN -1 ELSE 0

CreateParticipant(c) ==
    /\ req[c].seen = "none" /\ status[About(c)] = "none"
    /\ Goto(c, "write", "count")
    /\ status' = [status EXCEPT ![About(c)] = "ACTIVE"]
    /\ role' = [role EXCEPT ![About(c)] = "LISTENER"]
    /\ UNCHANGED <<roomVars, counted, left, cached, history>>

\* Another request created the document: the unique index refuses this one
DuplicateParticipant(c) ==
    /\ req[c].seen = "none" /\ status[About(c)] # "none"
    /\ Goto(c, "write", "idle")
    /\ UNCHANGED <<roomVars, status, role, counted, left, cached, history>>

UpdateParticipant(c) ==
    /\ req[c].seen # "none"
    /\ Goto(c, "write", IF Delta(c) = 0 THEN "idle" ELSE "count")
    /\ status' = [status EXCEPT ![About(c)] = Outcome(c)]
    /\ UNCHANGED <<roomVars, role, counted, left, cached, history>>

IncrementParticipantCount(c) ==
    /\ Goto(c, "count", "idle")
    /\ counted' = [counted EXCEPT ![About(c)] = @ + Delta(c)]
    /\ UNCHANGED <<roomVars, status, role, left, cached, history>>

\* The second of the two writes fails, or the process dies before it
RequestFails(c) ==
    /\ Goto(c, "count", "idle")
    /\ failed' = failed \cup {About(c)}
    /\ UNCHANGED <<roomVars, status, role, counted, left, cached, overlapped>>

-----------------------------------------------------------------------------
(* createMessage: membership is looked up once per five minutes            *)

SendMessage(c) ==
    /\ c \in Writers
    /\ req[c] = Idle
    /\ req' = [req EXCEPT ![c] = [@ EXCEPT !.step = "check", !.about = UserOf[c]]]
    /\ UNCHANGED <<roomVars, status, role, counted, left, cached, history>>

CacheHit(c) ==
    /\ About(c) \in cached
    /\ Goto(c, "check", "post")
    /\ UNCHANGED <<roomVars, status, role, counted, left, cached, history>>

\* Mutants: a participant of any status may write; hits keep a key alive
EnsureKnown(c) ==
    /\ About(c) \notin cached
    /\ Goto(c, "check", IF status[About(c)] # "none" THEN "cache" ELSE "idle")
    /\ UNCHANGED <<roomVars, status, role, counted, left, cached, history>>

KeepKey(u) ==
    /\ u \in cached /\ \A c \in Clients : req[c].step = "idle"
    /\ cached' = cached \ {u}
    /\ UNCHANGED <<roomVars, status, role, counted, req, left, history>>

EnsureActive(c) ==
    /\ About(c) \notin cached
    /\ Goto(c, "check", IF status[About(c)] = "ACTIVE" THEN "cache" ELSE "idle")
    /\ UNCHANGED <<roomVars, status, role, counted, left, cached, history>>

CacheMember(c) ==
    /\ Goto(c, "cache", "post")
    /\ cached' = cached \cup {About(c)}
    /\ UNCHANGED <<roomVars, status, role, counted, left, history>>

Post(c) ==
    /\ Goto(c, "post", "idle")
    /\ UNCHANGED <<roomVars, status, role, counted, left, cached, history>>

ExpireKey(u) ==
    /\ u \in cached
    /\ cached' = cached \ {u}
    /\ UNCHANGED <<roomVars, status, role, counted, req, left, history>>

-----------------------------------------------------------------------------
Step(c) ==
    \/ FindRoom(c) \/ EnsureAccessible(c) \/ ReadParticipant(c) \/ Return(c)
    \/ CreateParticipant(c) \/ DuplicateParticipant(c) \/ UpdateParticipant(c)
    \/ IncrementParticipantCount(c) \/ RequestFails(c)

MessageStep(c) ==
    \/ CacheHit(c) \/ EnsureActive(c) \/ CacheMember(c) \/ Post(c)

Next ==
    \/ CreateRoom \/ InsertHost \/ HostRefused \/ CreationFails
    \/ SetRoomStatus \/ RemoveRoom
    \/ \E c \in Clients :
          \/ \E o \in OwnOps \cup Moderation, u \in Users : Send(c, o, u)
          \/ SendMessage(c)
          \/ Step(c) \/ MessageStep(c)
    \/ \E u \in Users : ExpireKey(u)

Spec == Init /\ [][Next]_vars

\* The server finishes the messages it has begun and cache keys run out
FairSpec ==
    /\ Spec
    /\ \A c \in Writers : WF_vars(MessageStep(c))
    /\ \A u \in Users : WF_vars(ExpireKey(u))

-----------------------------------------------------------------------------
Undisturbed(u) == u \notin overlapped \cup failed

\* Requests about u that have written and still have to move the count
Counting(u, delta) ==
    {c \in Clients : req[c].step = "count" /\ About(c) = u /\ Delta(c) = delta}

\* What u is to contribute to participantCount once those requests are done
Settled(u) ==
    counted[u] + Cardinality(Counting(u, 1)) - Cardinality(Counting(u, -1))

IsCounted(u) ==
    \/ status[u] = "ACTIVE"
    \/ u = Host /\ creation = "pending"

\* However requests interleave, participantCount ends up with one for every
\* active participant and nothing for anybody else, unless two requests about
\* the same user had both read the participant before one wrote it, or one
\* died between its two writes (room.service.ts, join, leave, moderateParticipant)
CountExact ==
    \A u \in Users : Undisturbed(u) => Settled(u) = IF IsCounted(u) THEN 1 ELSE 0

\* The creator of a room stays in it as its host: neither leaving nor
\* moderation gets at the host's document, unless the host joins before
\* create has stored it (room.service.ts:125, leave, moderateParticipant)
HostStays ==
    creation = "done" /\ Host \notin overlapped
        => status[Host] = "ACTIVE" /\ role[Host] = "HOST"

\* A ban is lifted only by the host's kicking the user; a join or a leave
\* undoes it only if it had read the participant before the ban was written
\* (the second look at BANNED in RoomService.join)
BanHolds ==
    [][\A u \in Users :
         status[u] = "BANNED" /\ u \notin overlapped => status'[u] \in {"BANNED", "KICKED"}]_vars

\* u is no participant and no message of u can get through any more
Silent(u) ==
    /\ status[u] # "ACTIVE" /\ u \notin cached
    /\ \A c \in Clients : About(c) = u => req[c].step \notin {"cache", "post"}

\* Who has once been silenced stays so until joining again: no request that
\* comes later finds a way past ensureActiveParticipant or the cache
SilencedStays ==
    [][\A u \in Users : Silent(u) /\ status'[u] # "ACTIVE" => Silent(u)']_vars

\* Whoever is out of the room for good is silenced in the end, however many
\* messages the user goes on sending: a hit does not prolong the cache entry
SilencedInTheEnd ==
    \A u \in Users : <>[](status[u] # "ACTIVE") => <>[]Silent(u)

==============================================================================
