------------------------------ MODULE RoomQueue ------------------------------
(***************************************************************************)
(* What a listening room plays: the queue items of one room and the host's *)
(* controls, RoomService.addQueueItem, updateQueueItem, removeQueueItem,   *)
(* handleHostControl (playNext, syncPlayback) and update, from the moment  *)
(* create has stored the room.  No step of a request is in a transaction;  *)
(* a queue item is found by one query and written blindly by another.      *)
(***************************************************************************)
EXTENDS Integers, Sequences, FiniteSets

CONSTANTS
    Host, Clients, UserOf,      \* connections, and who is logged in on them
    Songs,
    Initial,                    \* the songs of the playlist or album it starts with
    Scheduled,                  \* create got a scheduledAt: it does not start at once
    MaxPerUser, MaxPerRoom,     \* MAX_PENDING_REQUESTS_PER_USER and _PER_ROOM
    Controls,                   \* what the host does to the room, NEXT aside
    Presses,                    \* the connections on which NEXT is pressed for ever
    Requests,                   \* how many requests a client may send (NEXT on Presses aside)
    MaxItems                    \* bound on the length of the queue

ASSUME ConstantsAssumption ==
    /\ Host \in {UserOf[c] : c \in Clients}
    /\ IsFiniteSet(Clients)
    /\ Initial \in Seq(Songs) /\ Initial # <<>>
    /\ \A i, j \in DOMAIN Initial : Initial[i] = Initial[j] => i = j
    /\ Scheduled \in BOOLEAN
    /\ MaxPerUser \in Nat /\ MaxPerRoom \in Nat /\ MaxItems \in Nat
    /\ Controls \subseteq {"play", "pause", "sync", "WAITING", "STREAMING", "PAUSED", "ENDED"}
    /\ Presses \subseteq {c \in Clients : UserOf[c] = Host}
    /\ Requests \in [Clients -> Nat]

VARIABLES
    queue,                      \* the queue items of the room, oldest first
    status, started, current,   \* room: status, startedAt is set, currentQueueItemId
    req,                        \* what each client is doing
    left,                       \* requests a client may still have
    overlapped,                 \* history: two NEXT ran at the same time
    overtaken,                  \* history: items written while a NEXT was to start them
    raced,                      \* history: songs added twice at once, or approved again
    unsettled                   \* history: currentQueueItemId was set apart from the queue

room    == <<status, started, current>>
history == <<overlapped, overtaken, raced, unsettled>>
vars    == <<queue, status, started, current, req, left,
             overlapped, overtaken, raced, unsettled>>

RoomStatuses == {"WAITING", "STREAMING", "PAUSED", "ENDED"}
ItemStatuses == {"PENDING", "APPROVED", "PLAYING", "PLAYED", "REJECTED", "REMOVED"}
Users        == {UserOf[c] : c \in Clients}
ItemOps      == {"approve", "reject", "remove"}
RoomOps      == {"play", "pause", "sync"} \cup RoomStatuses

Item == [song : Songs, by : Users, order : Nat, status : ItemStatuses, deleted : BOOLEAN]

\* A request: its song, its queue item or 0, the order it computed, and
\* whether it has read that the room ENDED
AddSteps  == {"dup", "limit", "order", "insert"}
NextSteps == {"played", "next", "start", "announce", "stop"}
Request   == [step : {"idle", "write", "patch"} \cup AddSteps \cup NextSteps,
              op : {"none", "add", "next"} \cup ItemOps \cup RoomOps,
              song : Songs, item : Nat, order : Nat, ended : BOOLEAN]

Idle == [step |-> "idle", op |-> "none", song |-> Initial[1], item |-> 0,
         order |-> 0, ended |-> FALSE]

TypeOK ==
    /\ queue \in Seq(Item)
    /\ status \in RoomStatuses /\ started \in BOOLEAN /\ current \in Nat
    /\ req \in [Clients -> Request]
    /\ left \in [Clients -> Nat]
    /\ overlapped \in BOOLEAN /\ unsettled \in BOOLEAN
    /\ overtaken \subseteq Nat /\ raced \subseteq Songs

\* RoomService.create: the first item plays at once unless the room is scheduled
InitialItem(i) ==
    [song |-> Initial[i], by |-> Host, order |-> i, deleted |-> FALSE,
     status |-> IF i = 1 /\ ~Scheduled THEN "PLAYING" ELSE "APPROVED"]

Init ==
    /\ queue = [i \in 1 .. Len(Initial) |-> InitialItem(i)]
    /\ status = IF Scheduled THEN "WAITING" ELSE "STREAMING"
    /\ started = ~Scheduled
    /\ current = 1
    /\ req = [c \in Clients |-> Idle]
    /\ left = Requests
    /\ overlapped = FALSE /\ unsettled = FALSE
    /\ overtaken = {} /\ raced = {}

-----------------------------------------------------------------------------
IsHost(c) == UserOf[c] = Host

\* The items the repository's queries find: none of them sees deleted ones
Found(statuses) == {i \in DOMAIN queue : ~queue[i].deleted /\ queue[i].status \in statuses}

LiveItems(s)  == {i \in Found({"PENDING", "APPROVED", "PLAYING"}) : queue[i].song = s}
PendingOf(u)  == {i \in Found({"PENDING"}) : queue[i].by = u}

\* A client sends a request, whose first step leads to the step given
Send(c, o, to, s, i, over) ==
    /\ req[c] = Idle /\ left[c] > 0
    /\ req' = [req EXCEPT ![c] = [Idle EXCEPT !.op = o, !.step = to, !.song = s,
                                              !.item = i, !.ended = over]]
    /\ left' = [left EXCEPT ![c] = @ - 1]

Goto(c, from, to) ==
    /\ req[c].step = from
    /\ req' = [req EXCEPT ![c] = IF to = "idle" THEN Idle ELSE [@ EXCEPT !.step = to]]

\* The request gives up: refused, or a call throws or the process dies
GiveUp(c) == req' = [req EXCEPT ![c] = Idle]

-----------------------------------------------------------------------------
(* addQueueItem                                                            *)

\* ensureRoomAccessible
Add(c, s) ==
    /\ status = "ENDED" => IsHost(c)
    /\ Send(c, "add", "dup", s, 0, FALSE)
    /\ UNCHANGED <<queue, room, history>>

\* Clients that have found no duplicate of s and not yet inserted it
Adding(s) == {c \in Clients : req[c].step \in AddSteps \ {"dup"} /\ req[c].song = s}

\* Mutant: only songs that wait for approval or play are looked for
DuplicateUnapproved(c) ==
    /\ Found({"PENDING", "PLAYING"}) \cap LiveItems(req[c].song) = {}
    /\ raced' = IF Adding(req[c].song) = {} THEN raced ELSE raced \cup {req[c].song}
    /\ Goto(c, "dup", IF IsHost(c) THEN "order" ELSE "limit")
    /\ UNCHANGED <<queue, room, left, overlapped, overtaken, unsettled>>

FindDuplicate(c) ==
    /\ LiveItems(req[c].song) = {}
    /\ raced' = IF Adding(req[c].song) = {} THEN raced ELSE raced \cup {req[c].song}
    /\ Goto(c, "dup", IF IsHost(c) THEN "order" ELSE "limit")
    /\ UNCHANGED <<queue, room, left, overlapped, overtaken, unsettled>>

\* Mutant: one request too many is let through
LaxLimits(c) ==
    /\ Cardinality(Found({"PENDING"})) <= MaxPerRoom
    /\ Cardinality(PendingOf(UserOf[c])) <= MaxPerUser

WithinLimits(c) ==
    /\ Cardinality(Found({"PENDING"})) < MaxPerRoom
    /\ Cardinality(PendingOf(UserOf[c])) < MaxPerUser

\* ensureActiveParticipant may refuse (Refuse), then both counts are read
CheckLimits(c) ==
    /\ WithinLimits(c)
    /\ Goto(c, "limit", "order")
    /\ UNCHANGED <<queue, room, left, history>>

\* The duplicate, the participant or the limits speak against it
Refuse(c) ==
    /\ \/ req[c].step = "dup" /\ LiveItems(req[c].song) # {}
       \/ req[c].step = "limit"
    /\ GiveUp(c)
    /\ UNCHANGED <<queue, room, left, history>>

\* getMaxOrder: PENDING items do not count, so they may share an order
Orders == {queue[i].order : i \in Found({"APPROVED", "PLAYING", "PLAYED"})}

GetMaxOrder(c) ==
    /\ req[c].step = "order"
    /\ \E max \in Orders \cup {0} :
          /\ \A o \in Orders : o <= max
          /\ req' = [req EXCEPT ![c] = [@ EXCEPT !.step = "insert", !.order = max + 1]]
    /\ UNCHANGED <<queue, room, left, history>>

NewItem(c) ==
    [song |-> req[c].song, by |-> UserOf[c], order |-> req[c].order, deleted |-> FALSE,
     status |-> IF IsHost(c) THEN "APPROVED" ELSE "PENDING"]

InsertItem(c) ==
    /\ Len(queue) < MaxItems
    /\ Goto(c, "insert", "idle")
    /\ queue' = Append(queue, NewItem(c))
    /\ UNCHANGED <<room, left, history>>

-----------------------------------------------------------------------------
(* updateQueueItem and removeQueueItem: whatever the item's status is      *)

FindItem(c, o, i) ==
    /\ IsHost(c)
    /\ ~queue[i].deleted
    /\ Send(c, o, "write", Initial[1], i, FALSE)
    /\ UNCHANGED <<queue, room, history>>

Written(c) ==
    LET it == queue[req[c].item] IN
    CASE req[c].op = "approve" -> [it EXCEPT !.status = "APPROVED"]
      [] req[c].op = "reject"  -> [it EXCEPT !.status = "REJECTED"]
      [] OTHER                 -> [it EXCEPT !.status = "REMOVED", !.deleted = TRUE]

\* Approving an item that was rejected or has been played brings its song back
UpdateItem(c) ==
    LET i == req[c].item IN
    /\ Goto(c, "write", "idle")
    /\ queue' = [queue EXCEPT ![i] = Written(c)]
    /\ overtaken' = IF \E d \in Clients : req[d].step = "start" /\ req[d].item = i
                    THEN overtaken \cup {i} ELSE overtaken
    /\ raced' = IF req[c].op = "approve" /\ i \notin LiveItems(queue[i].song)
                THEN raced \cup {queue[i].song} ELSE raced
    /\ UNCHANGED <<room, left, overlapped, unsettled>>

-----------------------------------------------------------------------------
(* playNext                                                                *)

\* Any one of the items that are PLAYING, or 0
CurrentPlaying == IF Found({"PLAYING"}) = {} THEN {0} ELSE Found({"PLAYING"})

\* The host presses NEXT
FindCurrentPlaying(c) ==
    /\ IsHost(c) /\ req[c] = Idle
    /\ IF c \in Presses
       THEN left' = left
       ELSE left[c] > 0 /\ left' = [left EXCEPT ![c] = @ - 1]
    /\ \E i \in CurrentPlaying :
          req' = [req EXCEPT ![c] = [@ EXCEPT !.op = "next", !.item = i,
                                     !.step = IF i = 0 THEN "next" ELSE "played"]]
    /\ overlapped' = (overlapped \/ \E d \in Clients : req[d].step \in NextSteps)
    /\ UNCHANGED <<queue, room, overtaken, raced, unsettled>>

\* Mutant: what is paused is kept for later
MarkStreaming(c) ==
    /\ Goto(c, "played", "next")
    /\ queue' = IF status = "STREAMING"
                THEN [queue EXCEPT ![req[c].item].status = "PLAYED"] ELSE queue
    /\ UNCHANGED <<room, left, history>>

MarkPlayed(c) ==
    /\ Goto(c, "played", "next")
    /\ queue' = [queue EXCEPT ![req[c].item].status = "PLAYED"]
    /\ UNCHANGED <<room, left, history>>

\* Mutants: pending items too; never back behind what has played
PlayableAny(c) ==
    {i \in Found({"APPROVED", "PENDING"}) :
        req[c].item # 0 => queue[i].order > queue[req[c].item].order}

PlayableOnwards(c) ==
    {i \in Found({"APPROVED"}) :
        \A j \in Found({"PLAYED"}) : queue[j].order < queue[i].order}

\* findNextPlayable: what is approved after the current item, if there is one
Playable(c) ==
    {i \in Found({"APPROVED"}) :
        req[c].item # 0 => queue[i].order > queue[req[c].item].order}

\* sort({ order: 1, createdAt: 1 })
First(items) ==
    {i \in items : \A j \in items :
        \/ queue[i].order < queue[j].order
        \/ queue[i].order = queue[j].order /\ i <= j}

FindNextPlayable(c) ==
    /\ req[c].step = "next"
    /\ \/ \E i \in First(Playable(c)) :
             req' = [req EXCEPT ![c] = [@ EXCEPT !.step = "start", !.item = i]]
       \/ /\ Playable(c) = {}
          /\ req' = [req EXCEPT ![c] = [@ EXCEPT !.step = "stop", !.item = 0]]
    /\ UNCHANGED <<queue, room, left, history>>

StartItem(c) ==
    /\ Goto(c, "start", "announce")
    /\ queue' = [queue EXCEPT ![req[c].item].status = "PLAYING"]
    /\ UNCHANGED <<room, left, history>>

\* Mutant: a room that has ended is left alone
AnnounceOpen(c) ==
    /\ Goto(c, "announce", "idle")
    /\ status' = IF status = "ENDED" THEN status ELSE "STREAMING"
    /\ current' = IF status = "ENDED" THEN current ELSE req[c].item
    /\ started' = TRUE /\ unsettled' = FALSE
    /\ UNCHANGED <<queue, left, overlapped, overtaken, raced>>

Announce(c) ==
    /\ Goto(c, "announce", "idle")
    /\ status' = "STREAMING" /\ started' = TRUE /\ current' = req[c].item
    /\ unsettled' = FALSE
    /\ UNCHANGED <<queue, left, overlapped, overtaken, raced>>

Stop(c) ==
    /\ Goto(c, "stop", "idle")
    /\ status' = "PAUSED" /\ current' = 0
    /\ unsettled' = FALSE
    /\ UNCHANGED <<queue, started, left, overlapped, overtaken, raced>>

-----------------------------------------------------------------------------
(* syncPlayback (PLAY, PAUSE, SYNC) and update (a status, or END)          *)

\* buildStatusPatch refuses WAITING once startedAt is set; SYNC looks its item up
ReadRoom(c, o, i) ==
    /\ IsHost(c)
    /\ o = "WAITING" => ~started
    /\ o = "sync" => ~queue[i].deleted
    /\ o # "sync" => i = 1
    /\ Send(c, o, "patch", Initial[1], i, status = "ENDED")
    /\ UNCHANGED <<queue, room, history>>

PatchedStatus(c) ==
    CASE req[c].op = "play"  -> "STREAMING"
      [] req[c].op = "pause" -> IF req[c].ended THEN "ENDED" ELSE "PAUSED"
      [] req[c].op = "sync"  -> status
      [] OTHER               -> req[c].op

PatchRoom(c) ==
    /\ Goto(c, "patch", "idle")
    /\ status' = PatchedStatus(c)
    /\ started' = (started \/ req[c].op = "STREAMING")
    /\ current' = IF req[c].op = "sync" THEN req[c].item ELSE current
    /\ unsettled' = (unsettled \/ req[c].op = "sync")
    /\ UNCHANGED <<queue, left, overlapped, overtaken, raced>>

-----------------------------------------------------------------------------
\* A call throws, or the process dies, before the next step
Fail(c) ==
    /\ req[c] # Idle
    /\ IF c \in Presses
       THEN left[c] > 0 /\ left' = [left EXCEPT ![c] = @ - 1]
       ELSE left' = left
    /\ GiveUp(c)
    /\ unsettled' = (unsettled \/ req[c].step = "announce")
    /\ UNCHANGED <<queue, room, overlapped, overtaken, raced>>

AddStep(c) ==
    FindDuplicate(c) \/ CheckLimits(c) \/ Refuse(c) \/ GetMaxOrder(c) \/ InsertItem(c)

NextStep(c) ==
    \/ FindCurrentPlaying(c) \/ MarkPlayed(c) \/ FindNextPlayable(c)
    \/ StartItem(c) \/ Announce(c) \/ Stop(c)

Next ==
    \E c \in Clients :
        \/ \E s \in Songs : Add(c, s)
        \/ \E o \in ItemOps, i \in DOMAIN queue : FindItem(c, o, i)
        \/ \E o \in Controls, i \in DOMAIN queue : ReadRoom(c, o, i)
        \/ AddStep(c) \/ UpdateItem(c) \/ NextStep(c) \/ PatchRoom(c) \/ Fail(c)

Spec == Init /\ [][Next]_vars

\* The host goes on pressing NEXT and the server finishes what it has begun
FairSpec == Spec /\ \A c \in Presses : WF_vars(NextStep(c))

-----------------------------------------------------------------------------
\* A listener's requests that await approval never exceed the limit by more
\* than the requests the user has under way, less one, nor do those of the
\* room: the counts are read before the insertion (room.service.ts:269-283)
PendingBounded ==
    LET Connections(u) == {c \in Clients : UserOf[c] = u}
        Listeners      == {c \in Clients : ~IsHost(c)}
    IN  /\ \A u \in Users \ {Host} :
              Cardinality(PendingOf(u)) < MaxPerUser + Cardinality(Connections(u))
        /\ Listeners # {} =>
              Cardinality(Found({"PENDING"})) < MaxPerRoom + Cardinality(Listeners)

\* No two items play at once, whatever the host writes to the queue between
\* the steps of a NEXT, as long as no two NEXT run at the same time (playNext)
OnePlaying ==
    ~overlapped => Cardinality(Found({"PLAYING"})) <= 1

\* The item that plays is the one the room shows, except while a NEXT is
\* about to announce it, after a SYNC to another item, or after a NEXT that
\* failed half-way or overlapped another (playNext, syncPlayback)
CurrentPlays ==
    \/ overlapped \/ unsettled
    \/ \E c \in Clients : req[c].step = "announce"
    \/ Found({"PLAYING"}) \subseteq {current}

\* Only what the host has approved starts to play; a rejection or removal
\* fails to stop an item only if a NEXT has it in hand, and a request that
\* is pending never starts, not even then (findNextPlayable, playNext)
PlaysApproved ==
    [][\A i \in DOMAIN queue :
         queue'[i].status = "PLAYING" /\ queue[i].status # "PLAYING" =>
            \/ queue[i].status = "APPROVED" /\ ~queue[i].deleted
            \/ queue[i].status # "PENDING" /\ (overlapped \/ i \in overtaken)]_vars

\* A song is at most once pending, approved or playing, unless two requests
\* for it were under way together, or the host approved it a second time, or
\* wrote to an item that was about to play (findDuplicate)
SongOnce ==
    overlapped \/ \A s \in Songs \ raced :
        LET items == LiveItems(s) IN
        items \cap overtaken = {} => Cardinality(items) <= 1

\* While the host goes on pressing NEXT nothing stays approved for ever: what
\* a current item's order leaves behind gets its turn once the rest is played
EveryApprovedPlays ==
    \A i \in 1 .. MaxItems :
        (i \in Found({"APPROVED"})) ~> (i \notin Found({"APPROVED"}))

==============================================================================
