--------------------------- MODULE RoomQueueProofs ---------------------------
(***************************************************************************)
(* Proofs about RoomQueue for any clients, songs, limits and controls.     *)
(* Each action is first reduced to what it does to one request (the frame  *)
(* lemmas) and to at most one queue item (the write lemmas).               *)
(***************************************************************************)
EXTENDS RoomQueue, FiniteSetTheorems, SequenceTheorems, TLAPS

StepNames == {"idle", "write", "patch"} \cup AddSteps \cup NextSteps

\* A request that is about to write an item or the room knows which one
RequestSound ==
    \A c \in Clients :
        /\ req[c].step \in {"write", "played", "start", "announce"} => req[c].item \in DOMAIN queue
        /\ req[c].step = "next" => req[c].item \in {0} \cup DOMAIN queue
        /\ req[c].step = "patch" => req[c].op \in RoomOps

TypeInv == TypeOK /\ RequestSound

-----------------------------------------------------------------------------
(* Frames: one request moves, the others stay                              *)

Moves(c) ==
    /\ req' \in [Clients -> Request]
    /\ \A d \in Clients : d # c => req'[d] = req[d]

LEMMA MovesTo ==
    ASSUME TypeOK, NEW c \in Clients, NEW r \in Request, req' = [req EXCEPT ![c] = r]
    PROVE  Moves(c) /\ req'[c] = r
  BY DEF TypeOK, Moves

LEMMA IdleRequest ==
    /\ Idle \in Request
    /\ Idle.step = "idle"
<1>1. Initial[1] \in Songs
  BY ConstantsAssumption
<1> QED
  BY <1>1 DEF Idle, Request

LEMMA GotoFrame ==
    ASSUME TypeOK, NEW c \in Clients, NEW from, NEW to \in StepNames, Goto(c, from, to)
    PROVE  /\ Moves(c)
           /\ req[c].step = from
           /\ req'[c].step = to
           /\ to # "idle" =>
                /\ req'[c].op = req[c].op
                /\ req'[c].song = req[c].song
                /\ req'[c].item = req[c].item
<1>1. req[c] \in Request /\ req[c].step = from
  BY DEF TypeOK, Goto
<1>2. CASE to = "idle"
  <2>1. req' = [req EXCEPT ![c] = Idle]
    BY <1>2 DEF Goto
  <2> QED
    BY <1>1, <1>2, <2>1, MovesTo, IdleRequest
<1>3. CASE to # "idle"
  <2> DEFINE r == [req[c] EXCEPT !.step = to]
  <2>1. req' = [req EXCEPT ![c] = r]
    BY <1>3 DEF Goto
  <2>2. r \in Request /\ r.step = to /\ r.op = req[c].op /\ r.song = req[c].song
        /\ r.item = req[c].item
    BY <1>1 DEF Request, StepNames
  <2> HIDE DEF r
  <2> QED
    BY <1>1, <2>1, <2>2, MovesTo
<1> QED
  BY <1>2, <1>3

LEMMA SendFrame ==
    ASSUME TypeOK, NEW c \in Clients, NEW o \in {"add"} \cup ItemOps \cup RoomOps,
           NEW to \in {"dup", "write", "patch"}, NEW s \in Songs, NEW i \in Nat,
           NEW over \in BOOLEAN, Send(c, o, to, s, i, over)
    PROVE  /\ Moves(c)
           /\ req[c].step = "idle"
           /\ req'[c].step = to /\ req'[c].op = o /\ req'[c].item = i
           /\ left' \in [Clients -> Nat]
<1> DEFINE r == [Idle EXCEPT !.op = o, !.step = to, !.song = s, !.item = i, !.ended = over]
<1>1. r \in Request /\ r.step = to /\ r.op = o /\ r.item = i
  BY IdleRequest DEF Idle, Request, AddSteps
<1>2. req' = [req EXCEPT ![c] = r]
  BY DEF Send
<1>3. left' \in [Clients -> Nat]
  BY DEF Send, TypeOK
<1>4. req[c].step = "idle"
  BY IdleRequest DEF Send
<1> HIDE DEF r
<1> QED
  BY <1>1, <1>2, <1>3, <1>4, MovesTo

LEMMA GiveUpFrame ==
    ASSUME TypeOK, NEW c \in Clients, GiveUp(c)
    PROVE  Moves(c) /\ req'[c].step = "idle"
  BY MovesTo, IdleRequest DEF GiveUp

LEMMA QueueItems ==
    ASSUME TypeOK
    PROVE  /\ Len(queue) \in Nat /\ DOMAIN queue = 1 .. Len(queue)
           /\ \A i \in DOMAIN queue : queue[i] \in Item
  BY DEF TypeOK

LEMMA OrderFrame ==
    ASSUME TypeOK, NEW c \in Clients, GetMaxOrder(c)
    PROVE  /\ Moves(c)
           /\ req[c].step = "order" /\ req'[c].step = "insert" /\ req'[c].song = req[c].song
<1>1. Orders \cup {0} \subseteq Nat
  <2>1. \A i \in DOMAIN queue : queue[i].order \in Nat
    BY QueueItems DEF Item
  <2> QED
    BY <2>1 DEF Orders, Found
<1>2. PICK max \in Nat :
         req' = [req EXCEPT ![c] = [req[c] EXCEPT !.step = "insert", !.order = max + 1]]
  BY <1>1 DEF GetMaxOrder
<1> DEFINE r == [req[c] EXCEPT !.step = "insert", !.order = max + 1]
<1>3. r \in Request /\ r.step = "insert" /\ r.song = req[c].song
  <2>1. req[c] \in Request /\ max + 1 \in Nat
    BY DEF TypeOK
  <2> QED
    BY <2>1 DEF Request, AddSteps
<1>4. req' = [req EXCEPT ![c] = r]
  BY <1>2
<1> HIDE DEF r
<1> QED
  BY <1>3, <1>4, MovesTo DEF GetMaxOrder

\* NEXT begins with an item that plays, or with none
LEMMA CurrentFrame ==
    ASSUME TypeOK, NEW c \in Clients, FindCurrentPlaying(c)
    PROVE  /\ Moves(c)
           /\ req[c].step = "idle"
           /\ left' \in [Clients -> Nat]
           /\ \/ req'[c].step = "played" /\ req'[c].item \in Found({"PLAYING"})
              \/ /\ req'[c].step = "next" /\ req'[c].item = 0
                 /\ Found({"PLAYING"}) = {}
<1>0. Found({"PLAYING"}) \subseteq Nat \ {0}
  BY DEF Found, TypeOK
<1>1. PICK i \in CurrentPlaying :
         req' = [req EXCEPT ![c] = [req[c] EXCEPT !.op = "next", !.item = i,
                                        !.step = IF i = 0 THEN "next" ELSE "played"]]
  BY DEF FindCurrentPlaying
<1> DEFINE r == [req[c] EXCEPT !.op = "next", !.item = i,
                               !.step = IF i = 0 THEN "next" ELSE "played"]
<1>2. i \in Nat
  BY <1>0 DEF CurrentPlaying
<1>3. /\ r \in Request
      /\ r.step = IF i = 0 THEN "next" ELSE "played"
      /\ r.item = i
  BY <1>2 DEF TypeOK, Request, NextSteps
<1>4. req' = [req EXCEPT ![c] = r]
  BY <1>1
<1> HIDE DEF r
<1>5. Moves(c) /\ req'[c] = r
  BY <1>3, <1>4, MovesTo
<1>6. req[c].step = "idle" /\ left' \in [Clients -> Nat]
  BY IdleRequest DEF FindCurrentPlaying, TypeOK
<1> QED
  BY <1>0, <1>3, <1>5, <1>6 DEF CurrentPlaying

\* NEXT has an approved item in hand, or stops
LEMMA NextFrame ==
    ASSUME TypeOK, NEW c \in Clients, FindNextPlayable(c)
    PROVE  /\ Moves(c)
           /\ req[c].step = "next"
           /\ \/ req'[c].step = "start" /\ req'[c].item \in Found({"APPROVED"})
              \/ req'[c].step = "stop"
<1>1. Found({"APPROVED"}) \subseteq Nat
  BY DEF Found, TypeOK
<1>2. PICK r \in Request :
         /\ req' = [req EXCEPT ![c] = r]
         /\ \/ r.step = "start" /\ r.item \in Found({"APPROVED"})
            \/ r.step = "stop"
  <2>1. ASSUME NEW i \in First(Playable(c)),
               req' = [req EXCEPT ![c] = [req[c] EXCEPT !.step = "start", !.item = i]]
        PROVE  \E r \in Request :
                  /\ req' = [req EXCEPT ![c] = r]
                  /\ r.step = "start" /\ r.item \in Found({"APPROVED"})
    <3>1. i \in Found({"APPROVED"})
      BY DEF First, Playable
    <3>2. [req[c] EXCEPT !.step = "start", !.item = i] \in Request
      BY <1>1, <3>1 DEF TypeOK, Request, NextSteps
    <3>3. /\ [req[c] EXCEPT !.step = "start", !.item = i].step = "start"
          /\ [req[c] EXCEPT !.step = "start", !.item = i].item = i
      BY DEF TypeOK, Request
    <3> QED
      BY <2>1, <3>1, <3>2, <3>3
  <2>2. ASSUME req' = [req EXCEPT ![c] = [req[c] EXCEPT !.step = "stop", !.item = 0]]
        PROVE  \E r \in Request : req' = [req EXCEPT ![c] = r] /\ r.step = "stop"
    <3>1. /\ [req[c] EXCEPT !.step = "stop", !.item = 0] \in Request
          /\ [req[c] EXCEPT !.step = "stop", !.item = 0].step = "stop"
      BY DEF TypeOK, Request, NextSteps
    <3> QED
      BY <2>2, <3>1
  <2> QED
    BY <2>1, <2>2 DEF FindNextPlayable
<1> QED
  BY <1>2, MovesTo DEF FindNextPlayable

-----------------------------------------------------------------------------
(* Writes: one item changes, or one is added at the end                    *)

Writes(i, it) ==
    /\ queue' \in Seq(Item)
    /\ DOMAIN queue' = DOMAIN queue
    /\ queue'[i] = it
    /\ \A j \in DOMAIN queue : j # i => queue'[j] = queue[j]

LEMMA WriteOne ==
    ASSUME TypeOK, NEW i \in DOMAIN queue, NEW it \in Item, queue' = [queue EXCEPT ![i] = it]
    PROVE  Writes(i, it)
<1>1. queue \in Seq(Item) /\ i \in 1 .. Len(queue)
  BY DEF TypeOK
<1> QED
  BY <1>1, ExceptSeq DEF Writes

\* A NEXT writes nothing but the status of an item
LEMMA WriteStatus ==
    ASSUME TypeOK, NEW i \in DOMAIN queue, NEW st \in ItemStatuses,
           queue' = [queue EXCEPT ![i].status = st]
    PROVE  /\ Writes(i, queue'[i])
           /\ queue'[i].status = st /\ queue'[i].song = queue[i].song
           /\ queue'[i].by = queue[i].by /\ queue'[i].deleted = queue[i].deleted
<1> DEFINE it == [queue[i] EXCEPT !.status = st]
<1>1. queue[i] \in Item
  BY DEF TypeOK
<1>2. /\ it \in Item /\ it.status = st /\ it.song = queue[i].song
      /\ it.by = queue[i].by /\ it.deleted = queue[i].deleted
  BY <1>1 DEF Item
<1>3. queue' = [queue EXCEPT ![i] = it]
  OBVIOUS
<1> HIDE DEF it
<1>4. Writes(i, it)
  BY <1>2, <1>3, WriteOne
<1>5. queue'[i] = it
  BY <1>4 DEF Writes
<1> QED
  BY <1>2, <1>4, <1>5

\* The host's write
LEMMA WriteItem ==
    ASSUME TypeInv, NEW c \in Clients, UpdateItem(c)
    PROVE  LET i == req[c].item IN
           /\ req[c].step = "write" /\ i \in DOMAIN queue
           /\ Writes(i, queue'[i])
           /\ queue'[i].song = queue[i].song /\ queue'[i].by = queue[i].by
           /\ \/ queue'[i].status = "APPROVED" /\ queue'[i].deleted = queue[i].deleted
                 /\ req[c].op = "approve"
              \/ queue'[i].status \in {"REJECTED", "REMOVED"}
<1> DEFINE i == req[c].item
           it == Written(c)
<1>1. req[c].step = "write" /\ i \in DOMAIN queue
  BY DEF UpdateItem, Goto, TypeInv, RequestSound
<1>2. queue[i] \in Item
  BY <1>1 DEF TypeInv, TypeOK
<1>3. /\ it \in Item /\ it.song = queue[i].song /\ it.by = queue[i].by
      /\ \/ it.status = "APPROVED" /\ it.deleted = queue[i].deleted /\ req[c].op = "approve"
         \/ it.status \in {"REJECTED", "REMOVED"}
  <2>1. CASE req[c].op = "approve"
    BY <1>2, <2>1 DEF Written, Item, ItemStatuses
  <2>2. CASE req[c].op = "reject"
    BY <1>2, <2>2 DEF Written, Item, ItemStatuses
  <2>3. CASE req[c].op \notin {"approve", "reject"}
    BY <1>2, <2>3 DEF Written, Item, ItemStatuses
  <2> QED
    BY <2>1, <2>2, <2>3
<1>4. queue' = [queue EXCEPT ![i] = it]
  BY DEF UpdateItem
<1> HIDE DEF it
<1>5. Writes(i, it)
  BY <1>1, <1>3, <1>4, WriteOne DEF TypeInv
<1>6. queue'[i] = it
  BY <1>5 DEF Writes
<1> QED
  BY <1>1, <1>3, <1>5, <1>6

\* A new item is pending if a listener asks for it, else approved
LEMMA WriteNew ==
    ASSUME TypeOK, NEW c \in Clients, InsertItem(c)
    PROVE  LET n == Len(queue) + 1 IN
           /\ queue' \in Seq(Item)
           /\ DOMAIN queue = 1 .. Len(queue)
           /\ DOMAIN queue' = DOMAIN queue \cup {n} /\ n \notin DOMAIN queue
           /\ \A j \in DOMAIN queue : queue'[j] = queue[j]
           /\ queue'[n].song = req[c].song /\ queue'[n].by = UserOf[c]
           /\ queue'[n].status = IF IsHost(c) THEN "APPROVED" ELSE "PENDING"
           /\ ~queue'[n].deleted
<1>1. /\ NewItem(c) \in Item
      /\ NewItem(c).song = req[c].song /\ NewItem(c).by = UserOf[c]
      /\ NewItem(c).status = IF IsHost(c) THEN "APPROVED" ELSE "PENDING"
      /\ ~NewItem(c).deleted
  BY DEF NewItem, Item, TypeOK, Request, Users, ItemStatuses
<1>2. queue \in Seq(Item) /\ queue' = Append(queue, NewItem(c))
  BY DEF TypeOK, InsertItem
<1>3. /\ queue' \in Seq(Item)
      /\ Len(queue') = Len(queue) + 1
      /\ \A j \in 1 .. Len(queue) : queue'[j] = queue[j]
      /\ queue'[Len(queue) + 1] = NewItem(c)
  BY <1>1, <1>2, AppendProperties
<1>4. DOMAIN queue = 1 .. Len(queue) /\ DOMAIN queue' = 1 .. Len(queue') /\ Len(queue) \in Nat
  BY <1>2, <1>3
<1>5. DOMAIN queue' = DOMAIN queue \cup {Len(queue) + 1} /\ Len(queue) + 1 \notin DOMAIN queue
  BY <1>3, <1>4
<1> QED
  BY <1>1, <1>3, <1>4, <1>5

-----------------------------------------------------------------------------
(* Type correctness                                                        *)

LEMMA SoundMove ==
    ASSUME TypeInv, NEW c \in Clients, Moves(c), DOMAIN queue \subseteq DOMAIN queue',
           req'[c].step \in {"write", "played", "start", "announce"} =>
               req'[c].item \in DOMAIN queue,
           req'[c].step = "next" => req'[c].item \in {0} \cup DOMAIN queue,
           req'[c].step = "patch" => req'[c].op \in RoomOps
    PROVE  RequestSound'
  BY DEF TypeInv, RequestSound, Moves

LEMMA InitType == Init => TypeInv
<1> SUFFICES ASSUME Init PROVE TypeInv
  OBVIOUS
<1>1. /\ Initial \in Seq(Songs) /\ Len(Initial) \in Nat
      /\ \A i \in 1 .. Len(Initial) : Initial[i] \in Songs
  BY ConstantsAssumption
<1>2. \A i \in 1 .. Len(Initial) : InitialItem(i) \in Item
  BY <1>1, ConstantsAssumption DEF InitialItem, Item, ItemStatuses, Users
<1>3. queue \in Seq(Item)
  BY <1>1, <1>2, IsASeq DEF Init
<1>4. TypeOK
  BY <1>3, IdleRequest, ConstantsAssumption DEF Init, TypeOK, RoomStatuses
<1>5. RequestSound
  BY IdleRequest DEF Init, RequestSound
<1> QED
  BY <1>4, <1>5 DEF TypeInv

\* What the actions that leave the queue alone do to the rest of the state
LEMMA QuietType ==
    ASSUME TypeInv, NEW c \in Clients, Moves(c), UNCHANGED queue,
           UNCHANGED room, left' \in [Clients -> Nat],
           overlapped' \in BOOLEAN, unsettled' \in BOOLEAN,
           overtaken' = overtaken, raced' \subseteq Songs,
           req'[c].step \in {"write", "played", "start", "announce"} =>
               req'[c].item \in DOMAIN queue,
           req'[c].step = "next" => req'[c].item \in {0} \cup DOMAIN queue,
           req'[c].step = "patch" => req'[c].op \in RoomOps
    PROVE  TypeInv'
<1>1. RequestSound'
  BY SoundMove
<1>2. TypeOK'
  BY DEF TypeInv, TypeOK, Moves, room
<1> QED
  BY <1>1, <1>2 DEF TypeInv

\* What a write of one item leaves well typed
LEMMA WriteType ==
    ASSUME TypeInv, NEW c \in Clients, Moves(c), queue' \in Seq(Item),
           DOMAIN queue \subseteq DOMAIN queue',
           UNCHANGED <<status, started, current, left, overlapped, unsettled>>,
           overtaken' \subseteq Nat, raced' \subseteq Songs,
           req'[c].step \in {"idle", "next", "announce"},
           req'[c].step \in {"next", "announce"} => req'[c].item \in DOMAIN queue
    PROVE  TypeInv'
<1>1. RequestSound'
  BY SoundMove
<1>2. TypeOK'
  BY DEF TypeInv, TypeOK, Moves
<1> QED
  BY <1>1, <1>2 DEF TypeInv

THEOREM TypeStep == TypeInv /\ [Next]_vars => TypeInv'
<1> SUFFICES ASSUME TypeInv, [Next]_vars PROVE TypeInv'
  OBVIOUS
<1> USE DEF history
<1>t. /\ TypeOK /\ left \in [Clients -> Nat] /\ overlapped \in BOOLEAN
      /\ unsettled \in BOOLEAN /\ raced \subseteq Songs /\ overtaken \subseteq Nat
      /\ \A d \in Clients : req[d] \in Request /\ req[d].song \in Songs
      /\ Initial[1] \in Songs /\ DOMAIN queue \subseteq Nat /\ 0 \in Nat
      /\ \A i \in DOMAIN queue : queue[i].song \in Songs
  BY ConstantsAssumption, QueueItems DEF TypeInv, TypeOK, Request, Item
<1>1. ASSUME NEW c \in Clients, NEW s \in Songs, Add(c, s) PROVE TypeInv'
  <2>1. Moves(c) /\ req'[c].step = "dup" /\ left' \in [Clients -> Nat]
    BY <1>t, <1>1, SendFrame DEF Add
  <2> QED
    BY <1>t, <1>1, <2>1, QuietType DEF Add
<1>2. ASSUME NEW c \in Clients, NEW o \in ItemOps, NEW i \in DOMAIN queue, FindItem(c, o, i)
      PROVE  TypeInv'
  <2>1. Moves(c) /\ req'[c].step = "write" /\ req'[c].item = i /\ left' \in [Clients -> Nat]
    <3>1. Send(c, o, "write", Initial[1], i, FALSE)
      BY <1>2 DEF FindItem
    <3> QED
      BY <1>t, <3>1, SendFrame
  <2> QED
    BY <1>t, <1>2, <2>1, QuietType DEF FindItem
<1>3. ASSUME NEW c \in Clients, NEW o \in Controls, NEW i \in DOMAIN queue, ReadRoom(c, o, i)
      PROVE  TypeInv'
  <2>0. o \in RoomOps
    BY <1>3, ConstantsAssumption DEF RoomOps, RoomStatuses
  <2>1. /\ Moves(c) /\ req'[c].step = "patch" /\ req'[c].op = o
        /\ left' \in [Clients -> Nat]
    BY <1>t, <1>3, <2>0, SendFrame DEF ReadRoom
  <2> QED
    BY <1>t, <1>3, <2>0, <2>1, QuietType DEF ReadRoom
<1>4. ASSUME NEW c \in Clients, FindDuplicate(c) PROVE TypeInv'
  <2>1. Moves(c) /\ req'[c].step \in {"order", "limit"}
    BY <1>t, <1>4, GotoFrame DEF FindDuplicate, StepNames, AddSteps
  <2>2. raced' \subseteq Songs
    BY <1>t, <1>4 DEF FindDuplicate
  <2> QED
    BY <1>t, <1>4, <2>1, <2>2, QuietType DEF FindDuplicate
<1>5. ASSUME NEW c \in Clients, CheckLimits(c) PROVE TypeInv'
  <2>1. Moves(c) /\ req'[c].step = "order"
    BY <1>t, <1>5, GotoFrame DEF CheckLimits, StepNames, AddSteps
  <2> QED
    BY <1>t, <1>5, <2>1, QuietType DEF CheckLimits
<1>6. ASSUME NEW c \in Clients, Refuse(c) PROVE TypeInv'
  BY <1>t, <1>6, GiveUpFrame, QuietType DEF Refuse
<1>7. ASSUME NEW c \in Clients, GetMaxOrder(c) PROVE TypeInv'
  BY <1>t, <1>7, OrderFrame, QuietType DEF GetMaxOrder
<1>8. ASSUME NEW c \in Clients, InsertItem(c) PROVE TypeInv'
  <2>1. Moves(c) /\ req'[c].step = "idle"
    BY <1>t, <1>8, GotoFrame DEF InsertItem, StepNames
  <2>2. queue' \in Seq(Item) /\ DOMAIN queue \subseteq DOMAIN queue'
    BY <1>t, <1>8, WriteNew
  <2> QED
    BY <1>t, <1>8, <2>1, <2>2, WriteType DEF InsertItem, room
<1>9. ASSUME NEW c \in Clients, UpdateItem(c) PROVE TypeInv'
  <2>1. Moves(c) /\ req'[c].step = "idle"
    BY <1>t, <1>9, GotoFrame DEF UpdateItem, StepNames
  <2>2. queue' \in Seq(Item) /\ DOMAIN queue \subseteq DOMAIN queue' /\ req[c].item \in DOMAIN queue
    BY <1>9, WriteItem DEF Writes
  <2>3. raced' \subseteq Songs /\ overtaken' \subseteq Nat
    BY <1>t, <1>9, <2>2 DEF UpdateItem
  <2> QED
    BY <1>t, <1>9, <2>1, <2>2, <2>3, WriteType DEF UpdateItem, room
<1>10. ASSUME NEW c \in Clients, FindCurrentPlaying(c) PROVE TypeInv'
  <2>1. Found({"PLAYING"}) \subseteq DOMAIN queue
    BY DEF Found
  <2> QED
    BY <1>t, <1>10, <2>1, CurrentFrame, QuietType DEF FindCurrentPlaying
<1>11. ASSUME NEW c \in Clients, MarkPlayed(c) PROVE TypeInv'
  <2>1. /\ Moves(c) /\ req'[c].step = "next" /\ req'[c].item = req[c].item
        /\ req[c].step = "played"
    BY <1>t, <1>11, GotoFrame DEF MarkPlayed, StepNames, NextSteps
  <2>2. req[c].item \in DOMAIN queue
    BY <2>1 DEF TypeInv, RequestSound
  <2>3. Writes(req[c].item, queue'[req[c].item])
    BY <1>t, <1>11, <2>2, WriteStatus DEF MarkPlayed, ItemStatuses
  <2> QED
    BY <1>t, <1>11, <2>1, <2>2, <2>3, WriteType DEF MarkPlayed, room, Writes
<1>12. ASSUME NEW c \in Clients, FindNextPlayable(c) PROVE TypeInv'
  <2>1. Found({"APPROVED"}) \subseteq DOMAIN queue
    BY DEF Found
  <2> QED
    BY <1>t, <1>12, <2>1, NextFrame, QuietType DEF FindNextPlayable
<1>13. ASSUME NEW c \in Clients, StartItem(c) PROVE TypeInv'
  <2>1. /\ Moves(c) /\ req'[c].step = "announce" /\ req'[c].item = req[c].item
        /\ req[c].step = "start"
    BY <1>t, <1>13, GotoFrame DEF StartItem, StepNames, NextSteps
  <2>2. req[c].item \in DOMAIN queue
    BY <2>1 DEF TypeInv, RequestSound
  <2>3. Writes(req[c].item, queue'[req[c].item])
    BY <1>t, <1>13, <2>2, WriteStatus DEF StartItem, ItemStatuses
  <2> QED
    BY <1>t, <1>13, <2>1, <2>2, <2>3, WriteType DEF StartItem, room, Writes
<1>14. ASSUME NEW c \in Clients, Announce(c) \/ Stop(c) \/ PatchRoom(c) PROVE TypeInv'
  <2>1. Moves(c) /\ req'[c].step = "idle"
    BY <1>t, <1>14, GotoFrame DEF Announce, Stop, PatchRoom, StepNames
  <2>2. status' \in RoomStatuses
    <3>1. CASE PatchRoom(c)
      <4>1. req[c].op \in RoomOps
        BY <3>1 DEF PatchRoom, Goto, TypeInv, RequestSound
      <4> QED
        BY <1>t, <3>1, <4>1 DEF PatchRoom, PatchedStatus, RoomOps, RoomStatuses, TypeOK
    <3> QED
      BY <1>14, <3>1 DEF Announce, Stop, RoomStatuses
  <2>3. /\ started' \in BOOLEAN /\ current' \in Nat /\ unsettled' \in BOOLEAN
        /\ UNCHANGED <<queue, left, overlapped, overtaken, raced>>
    BY <1>t, <1>14 DEF Announce, Stop, PatchRoom, TypeOK, Request
  <2>4. RequestSound'
    BY <2>1, <2>3, SoundMove
  <2>5. TypeOK'
    BY <1>t, <2>1, <2>2, <2>3 DEF TypeOK, Moves
  <2> QED
    BY <2>4, <2>5 DEF TypeInv
<1>15. ASSUME NEW c \in Clients, Fail(c) PROVE TypeInv'
  <2>1. Moves(c) /\ req'[c].step = "idle"
    BY <1>t, <1>15, GiveUpFrame DEF Fail
  <2>2. left' \in [Clients -> Nat] /\ unsettled' \in BOOLEAN
    BY <1>t, <1>15 DEF Fail
  <2> QED
    BY <1>t, <1>15, <2>1, <2>2, QuietType DEF Fail
<1>16. CASE UNCHANGED vars
  BY <1>16 DEF vars, TypeInv, TypeOK, RequestSound
<1> QED
  BY <1>1, <1>2, <1>3, <1>4, <1>5, <1>6, <1>7, <1>8, <1>9, <1>10, <1>11, <1>12, <1>13,
     <1>14, <1>15, <1>16 DEF Next, AddStep, NextStep

\* Queue, room and requests stay well typed, and no request is about to
\* write an item that is not in the queue (room.service.ts, all handlers)
THEOREM TypeCorrect == Spec => []TypeOK
<1>1. TypeInv => TypeOK
  BY DEF TypeInv
<1> QED
  BY <1>1, InitType, TypeStep, PTL DEF Spec

-----------------------------------------------------------------------------
(* What plays                                                              *)

Playing == Found({"PLAYING"})

\* NEXT runs once at a time unless overlapped is set
OneNext ==
    ~overlapped =>
        \A c, d \in Clients :
            req[c].step \in NextSteps /\ req[d].step \in NextSteps => c = d

\* What a NEXT that runs alone knows of the items that play
Phases ==
    ~overlapped =>
        /\ \A i, j \in Playing : i = j
        /\ \A c \in Clients :
              /\ req[c].step \in {"played", "announce"} => Playing \subseteq {req[c].item}
              /\ req[c].step \in {"next", "start", "stop"} => Playing = {}

\* The item a NEXT is about to start is approved unless it was overtaken
StartSound ==
    \A c \in Clients : req[c].step = "start" =>
        LET i == req[c].item IN
        /\ queue[i].status # "PENDING"
        /\ \/ queue[i].status = "APPROVED" /\ ~queue[i].deleted
           \/ overlapped \/ i \in overtaken

PlayInv == TypeInv /\ OneNext /\ Phases /\ StartSound /\ CurrentPlays

\* A step that leaves the queue alone and does not take a NEXT further
Quiet(c) ==
    /\ Moves(c)
    /\ req'[c].step \notin NextSteps
    /\ UNCHANGED <<queue, overlapped, overtaken>>
    /\ raced' = raced \/ FindDuplicate(c)
    /\ req'[c].step \in AddSteps \ {"dup"} =>
           FindDuplicate(c) \/ CheckLimits(c) \/ GetMaxOrder(c)

LEMMA Kinds ==
    ASSUME TypeInv, [Next]_vars
    PROVE  \/ UNCHANGED vars
           \/ \E c \in Clients :
                 \/ /\ Quiet(c)
                    /\ \/ UNCHANGED <<current, unsettled>> /\ req[c].step # "announce"
                       \/ PatchRoom(c) \/ Announce(c) \/ Stop(c) \/ Fail(c)
                 \/ InsertItem(c) \/ UpdateItem(c)
                 \/ FindCurrentPlaying(c) \/ MarkPlayed(c)
                 \/ FindNextPlayable(c) \/ StartItem(c)
<1> USE DEF history
<1> DEFINE Calm(c) == Quiet(c) /\ UNCHANGED <<current, unsettled>> /\ req[c].step # "announce"
<1>t. /\ TypeOK /\ Initial[1] \in Songs /\ DOMAIN queue \subseteq Nat /\ 0 \in Nat
      /\ Idle.step = "idle" /\ NextSteps \cap ({"idle", "write", "patch"} \cup AddSteps) = {}
  BY ConstantsAssumption, QueueItems, IdleRequest DEF TypeInv, NextSteps, AddSteps
<1>1. ASSUME NEW c \in Clients, NEW s \in Songs, Add(c, s) PROVE Calm(c)
  <2>1. Moves(c) /\ req'[c].step = "dup" /\ req[c].step = "idle"
    BY <1>t, <1>1, SendFrame DEF Add
  <2> QED
    BY <1>t, <1>1, <2>1 DEF Add, Quiet, AddSteps, room
<1>2. ASSUME NEW c \in Clients, NEW o \in ItemOps, NEW i \in DOMAIN queue, FindItem(c, o, i)
      PROVE  Calm(c)
  <2>1. Send(c, o, "write", Initial[1], i, FALSE)
    BY <1>2 DEF FindItem
  <2>2. Moves(c) /\ req'[c].step = "write" /\ req[c].step = "idle"
    BY <1>t, <2>1, SendFrame
  <2> QED
    BY <1>t, <1>2, <2>2 DEF FindItem, Quiet, AddSteps, room
<1>3. ASSUME NEW c \in Clients, NEW o \in Controls, NEW i \in DOMAIN queue, ReadRoom(c, o, i)
      PROVE  Calm(c)
  <2>1. Send(c, o, "patch", Initial[1], i, status = "ENDED") /\ o \in RoomOps
    BY <1>3, ConstantsAssumption DEF ReadRoom, RoomOps, RoomStatuses
  <2>2. Moves(c) /\ req'[c].step = "patch" /\ req[c].step = "idle"
    BY <1>t, <2>1, SendFrame
  <2> QED
    BY <1>t, <1>3, <2>2 DEF ReadRoom, Quiet, AddSteps, room
<1>4. ASSUME NEW c \in Clients, FindDuplicate(c) PROVE Calm(c)
  <2>1. Moves(c) /\ req'[c].step \in {"order", "limit"} /\ req[c].step = "dup"
    BY <1>t, <1>4, GotoFrame DEF FindDuplicate, StepNames, AddSteps
  <2> QED
    BY <1>t, <1>4, <2>1 DEF FindDuplicate, Quiet, AddSteps, room
<1>5. ASSUME NEW c \in Clients, CheckLimits(c) PROVE Calm(c)
  <2>1. Moves(c) /\ req'[c].step = "order" /\ req[c].step = "limit"
    BY <1>t, <1>5, GotoFrame DEF CheckLimits, StepNames, AddSteps
  <2> QED
    BY <1>t, <1>5, <2>1 DEF CheckLimits, Quiet, AddSteps, room
<1>6. ASSUME NEW c \in Clients, Refuse(c) PROVE Calm(c)
  BY <1>t, <1>6, GiveUpFrame DEF Refuse, Quiet, AddSteps, room
<1>7. ASSUME NEW c \in Clients, GetMaxOrder(c) PROVE Calm(c)
  BY <1>t, <1>7, OrderFrame DEF GetMaxOrder, Quiet, AddSteps, room
<1>8. ASSUME NEW c \in Clients, PatchRoom(c) \/ Announce(c) \/ Stop(c) PROVE Quiet(c)
  <2>1. Moves(c) /\ req'[c].step = "idle"
    BY <1>t, <1>8, GotoFrame DEF PatchRoom, Announce, Stop, StepNames
  <2> QED
    BY <1>t, <1>8, <2>1 DEF PatchRoom, Announce, Stop, Quiet, AddSteps
<1>9. ASSUME NEW c \in Clients, Fail(c) PROVE Quiet(c)
  BY <1>t, <1>9, GiveUpFrame DEF Fail, Quiet, AddSteps
<1> QED
  BY <1>1, <1>2, <1>3, <1>4, <1>5, <1>6, <1>7, <1>8, <1>9 DEF Next, AddStep, NextStep

\* No item starts to play: neither by the host's write nor as a new one
LEMMA WritePlays ==
    ASSUME TypeInv, NEW c \in Clients, InsertItem(c) \/ UpdateItem(c)
    PROVE  /\ Playing' \subseteq Playing
           /\ Moves(c) /\ req'[c].step = "idle"
           /\ req[c].step \in {"insert", "write"}
           /\ UNCHANGED <<current, unsettled, overlapped>>
<1>1. CASE InsertItem(c)
  <2>1. Playing' \subseteq Playing
    BY <1>1, WriteNew DEF TypeInv, Playing, Found
  <2>2. Moves(c) /\ req'[c].step = "idle" /\ req[c].step = "insert"
    BY <1>1, GotoFrame DEF InsertItem, TypeInv, StepNames
  <2> QED
    BY <1>1, <2>1, <2>2 DEF InsertItem, room, history
<1>2. CASE UpdateItem(c)
  <2>1. Playing' \subseteq Playing
    BY <1>2, WriteItem DEF Playing, Found, Writes
  <2>2. Moves(c) /\ req'[c].step = "idle" /\ req[c].step = "write"
    BY <1>2, GotoFrame DEF UpdateItem, TypeInv, StepNames
  <2> QED
    BY <1>2, <2>1, <2>2 DEF UpdateItem, room
<1> QED
  BY <1>1, <1>2

\* The item that plays stops, and the next one starts
LEMMA MarkPlays ==
    ASSUME TypeInv, NEW c \in Clients, MarkPlayed(c)
    PROVE  /\ Playing' \subseteq Playing \ {req[c].item}
           /\ Moves(c) /\ req[c].step = "played" /\ req'[c].step = "next"
           /\ req[c].item \in DOMAIN queue /\ Writes(req[c].item, queue'[req[c].item])
           /\ queue'[req[c].item].status = "PLAYED"
           /\ queue'[req[c].item].song = queue[req[c].item].song
           /\ UNCHANGED <<current, unsettled, overlapped, overtaken>>
<1>1. Moves(c) /\ req[c].step = "played" /\ req'[c].step = "next"
  BY GotoFrame DEF MarkPlayed, TypeInv, StepNames, NextSteps
<1>2. req[c].item \in DOMAIN queue
  BY <1>1 DEF TypeInv, RequestSound
<1>3. /\ Writes(req[c].item, queue'[req[c].item])
      /\ queue'[req[c].item].status = "PLAYED"
      /\ queue'[req[c].item].song = queue[req[c].item].song
  BY <1>2, WriteStatus DEF MarkPlayed, ItemStatuses, TypeInv
<1>4. Playing' \subseteq Playing \ {req[c].item}
  BY <1>3 DEF Playing, Found, Writes
<1> QED
  BY <1>1, <1>2, <1>3, <1>4 DEF MarkPlayed, room, history

LEMMA StartPlays ==
    ASSUME TypeInv, NEW c \in Clients, StartItem(c)
    PROVE  /\ Playing' \subseteq Playing \cup {req[c].item}
           /\ Moves(c) /\ req[c].step = "start" /\ req'[c].step = "announce"
           /\ req'[c].item = req[c].item
           /\ req[c].item \in DOMAIN queue /\ Writes(req[c].item, queue'[req[c].item])
           /\ queue'[req[c].item].status = "PLAYING"
           /\ queue'[req[c].item].song = queue[req[c].item].song
           /\ queue'[req[c].item].deleted = queue[req[c].item].deleted
           /\ UNCHANGED <<current, unsettled, overlapped, overtaken>>
<1>1. Moves(c) /\ req[c].step = "start" /\ req'[c].step = "announce" /\ req'[c].item = req[c].item
  BY GotoFrame DEF StartItem, TypeInv, StepNames, NextSteps
<1>2. req[c].item \in DOMAIN queue
  BY <1>1 DEF TypeInv, RequestSound
<1>3. /\ Writes(req[c].item, queue'[req[c].item])
      /\ queue'[req[c].item].status = "PLAYING"
      /\ queue'[req[c].item].song = queue[req[c].item].song
      /\ queue'[req[c].item].deleted = queue[req[c].item].deleted
  BY <1>2, WriteStatus DEF StartItem, ItemStatuses, TypeInv
<1>4. Playing' \subseteq Playing \cup {req[c].item}
  BY <1>3 DEF Playing, Found, Writes
<1> QED
  BY <1>1, <1>2, <1>3, <1>4 DEF StartItem, room, history

LEMMA CalmNext ==
    ASSUME OneNext, Phases, NEW c \in Clients, Moves(c), req'[c].step \notin NextSteps,
           Playing' \subseteq Playing, UNCHANGED overlapped
    PROVE  OneNext' /\ Phases'
  BY DEF OneNext, Phases, Moves, NextSteps

\* One NEXT at a time, and at most one item that plays
THEOREM PhasesStep == TypeInv /\ OneNext /\ Phases /\ [Next]_vars => OneNext' /\ Phases'
<1> SUFFICES ASSUME TypeInv, OneNext, Phases, [Next]_vars PROVE OneNext' /\ Phases'
  OBVIOUS
<1>1. ASSUME NEW c \in Clients, Quiet(c) PROVE OneNext' /\ Phases'
  <2>1. Playing' = Playing
    BY <1>1 DEF Quiet, Playing, Found
  <2> QED
    BY <1>1, <2>1, CalmNext DEF Quiet
<1>2. ASSUME NEW c \in Clients, InsertItem(c) \/ UpdateItem(c) PROVE OneNext' /\ Phases'
  BY <1>2, WritePlays, CalmNext DEF NextSteps
<1>3. ASSUME NEW c \in Clients, FindCurrentPlaying(c) PROVE OneNext' /\ Phases'
  <2>1. /\ Playing' = Playing
        /\ overlapped' = (overlapped \/ \E d \in Clients : req[d].step \in NextSteps)
    BY <1>3 DEF FindCurrentPlaying, Playing, Found
  <2>2. /\ Moves(c)
        /\ \/ req'[c].step = "played" /\ req'[c].item \in Playing
           \/ req'[c].step = "next" /\ Playing = {}
    BY <1>3, CurrentFrame DEF TypeInv, Playing
  <2> QED
    BY <2>1, <2>2 DEF OneNext, Phases, Moves, NextSteps
<1>4. ASSUME NEW c \in Clients, MarkPlayed(c) PROVE OneNext' /\ Phases'
  BY <1>4, MarkPlays DEF OneNext, Phases, Moves, NextSteps
<1>5. ASSUME NEW c \in Clients, FindNextPlayable(c) PROVE OneNext' /\ Phases'
  <2>1. Playing' = Playing /\ overlapped' = overlapped
    BY <1>5 DEF FindNextPlayable, Playing, Found, history
  <2>2. Moves(c) /\ req[c].step = "next" /\ req'[c].step \in {"start", "stop"}
    BY <1>5, NextFrame DEF TypeInv
  <2> QED
    BY <2>1, <2>2 DEF OneNext, Phases, Moves, NextSteps
<1>6. ASSUME NEW c \in Clients, StartItem(c) PROVE OneNext' /\ Phases'
  BY <1>6, StartPlays DEF OneNext, Phases, Moves, NextSteps
<1>7. CASE UNCHANGED vars
  BY <1>7 DEF vars, OneNext, Phases, Playing, Found
<1> QED
  BY <1>1, <1>2, <1>3, <1>4, <1>5, <1>6, <1>7, Kinds

\* An item stays sound to start while its NEXT runs alone and nobody writes it
LEMMA StartKept ==
    ASSUME StartSound, NEW c \in Clients, Moves(c), req'[c].step # "start",
           overlapped => overlapped', overtaken \subseteq overtaken',
           \A d \in Clients : d # c /\ req[d].step = "start" =>
               LET i == req[d].item IN
               \/ queue'[i] = queue[i]
               \/ queue'[i].status # "PENDING" /\ (overlapped' \/ i \in overtaken')
    PROVE  StartSound'
  BY DEF StartSound, Moves

THEOREM StartStep == TypeInv /\ OneNext /\ StartSound /\ [Next]_vars => StartSound'
<1> SUFFICES ASSUME TypeInv, OneNext, StartSound, [Next]_vars PROVE StartSound'
  OBVIOUS
<1>t. \A d \in Clients : req[d].step = "start" => req[d].item \in DOMAIN queue
  BY DEF TypeInv, RequestSound
<1>1. ASSUME NEW c \in Clients, Quiet(c) PROVE StartSound'
  BY <1>1, StartKept DEF Quiet, NextSteps
<1>2. ASSUME NEW c \in Clients, InsertItem(c) PROVE StartSound'
  <2>1. \A j \in DOMAIN queue : queue'[j] = queue[j]
    BY <1>2, WriteNew DEF TypeInv
  <2>2. Moves(c) /\ req'[c].step = "idle" /\ UNCHANGED <<overlapped, overtaken>>
    BY <1>2, WritePlays DEF InsertItem, history
  <2> QED
    BY <1>t, <2>1, <2>2, StartKept
<1>3. ASSUME NEW c \in Clients, UpdateItem(c) PROVE StartSound'
  <2> DEFINE i == req[c].item
  <2>1. /\ Writes(i, queue'[i])
        /\ queue'[i].status # "PENDING"
    BY <1>3, WriteItem
  <2>2. Moves(c) /\ req'[c].step = "idle" /\ overlapped' = overlapped
    BY <1>3, WritePlays
  <2>3. /\ overtaken \subseteq overtaken'
        /\ \A d \in Clients : req[d].step = "start" /\ req[d].item = i => i \in overtaken'
    BY <1>3 DEF UpdateItem
  <2>4. \A d \in Clients : req[d].step = "start" /\ req[d].item # i =>
           queue'[req[d].item] = queue[req[d].item]
    BY <1>t, <2>1 DEF Writes
  <2> HIDE DEF i
  <2>5. \A d \in Clients : d # c /\ req[d].step = "start" =>
               \/ queue'[req[d].item] = queue[req[d].item]
               \/ /\ queue'[req[d].item].status # "PENDING"
                  /\ req[d].item \in overtaken'
    BY <2>1, <2>3, <2>4
  <2> QED
    BY <2>2, <2>3, <2>5, StartKept
<1>4. ASSUME NEW c \in Clients, FindCurrentPlaying(c) PROVE StartSound'
  <2>1. Moves(c) /\ req'[c].step # "start"
    BY <1>4, CurrentFrame DEF TypeInv
  <2> QED
    BY <1>4, <2>1, StartKept DEF FindCurrentPlaying
<1>5. ASSUME NEW c \in Clients, MarkPlayed(c) \/ StartItem(c) PROVE StartSound'
  <2> DEFINE i == req[c].item
  <2>1. /\ Moves(c) /\ req'[c].step # "start" /\ Writes(i, queue'[i])
        /\ queue'[i].status # "PENDING" /\ UNCHANGED <<overlapped, overtaken>>
        /\ req[c].step \in NextSteps
    BY <1>5, MarkPlays, StartPlays DEF NextSteps
  <2>2. \A d \in Clients : d # c /\ req[d].step = "start" => overlapped
    BY <2>1 DEF OneNext, NextSteps
  <2> HIDE DEF i
  <2>3. \A d \in Clients : d # c /\ req[d].step = "start" =>
               \/ queue'[req[d].item] = queue[req[d].item]
               \/ queue'[req[d].item].status # "PENDING" /\ overlapped'
    BY <1>t, <2>1, <2>2 DEF Writes
  <2> QED
    BY <2>1, <2>3, StartKept
<1>6. ASSUME NEW c \in Clients, FindNextPlayable(c) PROVE StartSound'
  <2>1. UNCHANGED <<queue, overlapped, overtaken>>
    BY <1>6 DEF FindNextPlayable, history
  <2>2. /\ Moves(c)
        /\ \/ req'[c].step = "start" /\ req'[c].item \in Found({"APPROVED"})
           \/ req'[c].step = "stop"
    BY <1>6, NextFrame DEF TypeInv
  <2> QED
    BY <2>1, <2>2 DEF StartSound, Moves, Found
<1>7. CASE UNCHANGED vars
  BY <1>7 DEF vars, StartSound
<1> QED
  BY <1>1, <1>2, <1>3, <1>4, <1>5, <1>6, <1>7, Kinds

THEOREM CurrentStep ==
    TypeInv /\ Phases /\ CurrentPlays /\ [Next]_vars => CurrentPlays'
<1> SUFFICES ASSUME TypeInv, Phases, CurrentPlays, [Next]_vars,
                    ~overlapped', ~unsettled',
                    \A d \in Clients : req'[d].step # "announce"
             PROVE  Playing' \subseteq {current'}
  BY DEF CurrentPlays, Playing
<1> USE DEF Playing, history
<1>a. ASSUME NEW c \in Clients, Moves(c), req[c].step # "announce",
             Playing' \subseteq Playing, UNCHANGED <<current, unsettled>>,
             overlapped => overlapped'
      PROVE  Playing' \subseteq {current'}
  BY <1>a DEF CurrentPlays, Moves
<1>1. ASSUME NEW c \in Clients, Quiet(c) PROVE Playing' = Playing /\ Moves(c) /\ ~overlapped
  BY <1>1 DEF Quiet, Found
<1>2. ASSUME NEW c \in Clients, Quiet(c), UNCHANGED <<current, unsettled>>,
             req[c].step # "announce"
      PROVE  Playing' \subseteq {current'}
  BY <1>1, <1>2, <1>a
<1>3. ASSUME NEW c \in Clients, Quiet(c), PatchRoom(c) PROVE Playing' \subseteq {current'}
  <2>1. req[c].step = "patch" /\ UNCHANGED <<current, unsettled>>
    BY <1>3 DEF PatchRoom, Goto, TypeInv, TypeOK
  <2> QED
    BY <1>1, <1>3, <2>1, <1>a
<1>4. ASSUME NEW c \in Clients, Quiet(c), Announce(c) PROVE Playing' \subseteq {current'}
  BY <1>1, <1>4 DEF Announce, Goto, Phases
<1>5. ASSUME NEW c \in Clients, Quiet(c), Stop(c) PROVE Playing' \subseteq {current'}
  BY <1>1, <1>5 DEF Stop, Goto, Phases
<1>6. ASSUME NEW c \in Clients, Quiet(c), Fail(c) PROVE Playing' \subseteq {current'}
  <2>1. req[c].step # "announce" /\ UNCHANGED <<current, unsettled>>
    BY <1>6 DEF Fail, room, TypeInv, TypeOK
  <2> QED
    BY <1>1, <1>6, <2>1, <1>a
<1>7. ASSUME NEW c \in Clients, InsertItem(c) \/ UpdateItem(c)
      PROVE  Playing' \subseteq {current'}
  BY <1>7, <1>a, WritePlays
<1>8. ASSUME NEW c \in Clients, FindCurrentPlaying(c) PROVE Playing' \subseteq {current'}
  <2>1. /\ Playing' = Playing /\ UNCHANGED <<current, unsettled>>
        /\ overlapped => overlapped'
    BY <1>8 DEF FindCurrentPlaying, room, Found
  <2>2. Moves(c) /\ req[c].step = "idle"
    BY <1>8, CurrentFrame DEF TypeInv
  <2> QED
    BY <2>1, <2>2, <1>a
<1>9. ASSUME NEW c \in Clients, MarkPlayed(c) PROVE Playing' \subseteq {current'}
  BY <1>9, <1>a, MarkPlays
<1>10. ASSUME NEW c \in Clients, FindNextPlayable(c) PROVE Playing' \subseteq {current'}
  <2>1. Playing' = Playing /\ UNCHANGED <<current, unsettled, overlapped>>
    BY <1>10 DEF FindNextPlayable, room, Found
  <2>2. Moves(c) /\ req[c].step = "next"
    BY <1>10, NextFrame DEF TypeInv
  <2> QED
    BY <2>1, <2>2, <1>a
<1>11. ASSUME NEW c \in Clients, StartItem(c) PROVE FALSE
  BY <1>11, StartPlays
<1>12. CASE UNCHANGED vars
  BY <1>12 DEF vars, CurrentPlays, Found
<1> QED
  BY <1>2, <1>3, <1>4, <1>5, <1>6, <1>7, <1>8, <1>9, <1>10, <1>11, <1>12, Kinds

THEOREM InitPlay == Init => PlayInv
<1> SUFFICES ASSUME Init PROVE PlayInv
  OBVIOUS
<1>1. \A c \in Clients : req[c].step = "idle"
  BY IdleRequest DEF Init
<1>2. Playing \subseteq {1} /\ current = 1
  <2>1. DOMAIN queue = 1 .. Len(Initial) /\ \A i \in DOMAIN queue : queue[i] = InitialItem(i)
    BY DEF Init
  <2> QED
    BY <2>1 DEF Playing, Found, InitialItem, Init
<1> QED
  BY <1>1, <1>2, InitType DEF PlayInv, OneNext, Phases, StartSound, CurrentPlays, Playing, NextSteps

THEOREM PlayStep == PlayInv /\ [Next]_vars => PlayInv'
  BY TypeStep, PhasesStep, StartStep, CurrentStep DEF PlayInv

\* No two items play at once unless two NEXT overlapped, for any clients,
\* whatever is approved, rejected, removed or added meanwhile (playNext)
THEOREM OnePlayingCorrect == Spec => []OnePlaying
<1>1. PlayInv => OnePlaying
  <2> SUFFICES ASSUME PlayInv, ~overlapped PROVE Cardinality(Playing) <= 1
    BY DEF OnePlaying, Playing
  <2>1. \A i, j \in Playing : i = j
    BY DEF PlayInv, Phases
  <2>2. CASE Playing = {}
    BY <2>2, FS_EmptySet
  <2>3. ASSUME NEW i \in Playing PROVE Cardinality(Playing) <= 1
    <3>1. Playing = {i}
      BY <2>1, <2>3
    <3>2. Cardinality({i}) = 1
      BY FS_Singleton
    <3> QED
      BY <3>1, <3>2
  <2> QED
    BY <2>2, <2>3
<1> QED
  BY <1>1, InitPlay, PlayStep, PTL DEF Spec

\* What plays is what the room shows, but for SYNC, overlapping NEXT and NEXT
\* that failed or have yet to announce it (playNext, syncPlayback)
THEOREM CurrentCorrect == Spec => []CurrentPlays
<1>1. PlayInv => CurrentPlays
  BY DEF PlayInv
<1> QED
  BY <1>1, InitPlay, PlayStep, PTL DEF Spec

\* Nothing starts to play that is pending, nor anything rejected or removed
\* before a NEXT had it in hand (findNextPlayable, playNext)
THEOREM ApprovedCorrect == Spec => PlaysApproved
<1> DEFINE A == \A i \in DOMAIN queue :
         queue'[i].status = "PLAYING" /\ queue[i].status # "PLAYING" =>
            \/ queue[i].status = "APPROVED" /\ ~queue[i].deleted
            \/ queue[i].status # "PENDING" /\ (overlapped \/ i \in overtaken)
<1>1. PlayInv /\ [Next]_vars => A
  <2> SUFFICES ASSUME PlayInv, [Next]_vars, NEW i \in DOMAIN queue,
                      queue'[i].status = "PLAYING", queue[i].status # "PLAYING"
               PROVE  \/ queue[i].status = "APPROVED" /\ ~queue[i].deleted
                      \/ queue[i].status # "PENDING" /\ (overlapped \/ i \in overtaken)
    OBVIOUS
  <2>t. TypeInv
    BY DEF PlayInv
  <2>1. ASSUME NEW c \in Clients, Quiet(c) PROVE FALSE
    BY <2>1 DEF Quiet
  <2>2. ASSUME NEW c \in Clients, InsertItem(c) PROVE FALSE
    BY <2>t, <2>2, WriteNew DEF TypeInv
  <2>3. ASSUME NEW c \in Clients, UpdateItem(c) PROVE FALSE
    BY <2>t, <2>3, WriteItem DEF Writes
  <2>4. ASSUME NEW c \in Clients, FindCurrentPlaying(c) \/ FindNextPlayable(c) PROVE FALSE
    BY <2>4 DEF FindCurrentPlaying, FindNextPlayable
  <2>5. ASSUME NEW c \in Clients, MarkPlayed(c) PROVE FALSE
    BY <2>t, <2>5, MarkPlays DEF Writes
  <2>6. ASSUME NEW c \in Clients, StartItem(c) PROVE i = req[c].item /\ req[c].step = "start"
    BY <2>t, <2>6, StartPlays DEF Writes
  <2>7. CASE UNCHANGED vars
    BY <2>7 DEF vars
  <2> QED
    BY <2>t, <2>1, <2>2, <2>3, <2>4, <2>5, <2>6, <2>7, Kinds DEF PlayInv, StartSound
<1>2. PlayInv /\ [Next]_vars => [A]_vars
  BY <1>1
<1> QED
  BY <1>2, InitPlay, PlayStep, PTL DEF Spec, PlaysApproved

-----------------------------------------------------------------------------
(* A song plays or waits once                                              *)

\* The live items of a song that nobody wrote while a NEXT had them in hand
Untouched(s) == LiveItems(s) \ overtaken

SongInv ==
    ~overlapped =>
        \A s \in Songs \ raced :
            /\ \A i, j \in Untouched(s) : i = j
            /\ \A c, d \in Adding(s) : c = d
            /\ Adding(s) # {} => Untouched(s) = {}

LEMMA SongShrink ==
    ASSUME SongInv, raced \subseteq raced',
           overlapped => overlapped',
           \A s \in Songs \ raced' :
               Untouched(s)' \subseteq Untouched(s) /\ Adding(s)' \subseteq Adding(s)
    PROVE  SongInv'
<1> SUFFICES ASSUME ~overlapped', NEW s \in Songs \ raced'
             PROVE  /\ \A i, j \in Untouched(s)' : i = j
                    /\ \A c, d \in Adding(s)' : c = d
                    /\ Adding(s)' # {} => Untouched(s)' = {}
  BY DEF SongInv
<1> QED
  BY DEF SongInv

\* A step whose request is not adding a song afterwards adds none
LEMMA AddingShrinks ==
    ASSUME NEW c \in Clients, Moves(c), req'[c].step \notin AddSteps \ {"dup"}, NEW s
    PROVE  Adding(s)' \subseteq Adding(s)
  BY DEF Adding, Moves

THEOREM SongStep ==
    TypeInv /\ OneNext /\ StartSound /\ SongInv /\ [Next]_vars => SongInv'
<1> SUFFICES ASSUME TypeInv, OneNext, StartSound, SongInv, [Next]_vars PROVE SongInv'
  OBVIOUS
<1>n. NextSteps \cap AddSteps = {} /\ "idle" \notin AddSteps
  BY DEF NextSteps, AddSteps
<1>q. ASSUME UNCHANGED <<queue, overtaken>>, NEW s PROVE Untouched(s)' = Untouched(s)
  BY <1>q DEF Untouched, LiveItems, Found
<1>1. ASSUME NEW c \in Clients, Quiet(c), ~FindDuplicate(c) PROVE SongInv'
  <2>1. ASSUME NEW s PROVE Adding(s)' \subseteq Adding(s)
    <3>1. CASE req'[c].step \notin AddSteps \ {"dup"}
      BY <1>1, <3>1, AddingShrinks DEF Quiet
    <3>2. CASE CheckLimits(c)
      <4>1. req[c].step = "limit" /\ Moves(c) /\ req'[c].song = req[c].song
        BY <3>2, GotoFrame DEF CheckLimits, TypeInv, StepNames, AddSteps
      <4> QED
        BY <4>1 DEF Adding, Moves, AddSteps
    <3>3. CASE GetMaxOrder(c)
      <4>1. req[c].step = "order" /\ Moves(c) /\ req'[c].song = req[c].song
        BY <3>3, OrderFrame DEF TypeInv
      <4> QED
        BY <4>1 DEF Adding, Moves, AddSteps
    <3> QED
      BY <1>1, <3>1, <3>2, <3>3 DEF Quiet
  <2> QED
    BY <1>1, <1>q, <2>1, SongShrink DEF Quiet
<1>2. ASSUME NEW c \in Clients, FindDuplicate(c) PROVE SongInv'
  <2> DEFINE t == req[c].song
  <2>1. /\ req[c].step = "dup" /\ Moves(c) /\ req'[c].song = t
    BY <1>2, GotoFrame DEF FindDuplicate, TypeInv, StepNames, AddSteps
  <2>2. /\ LiveItems(t) = {} /\ UNCHANGED <<queue, overlapped, overtaken>>
        /\ raced' = IF Adding(t) = {} THEN raced ELSE raced \cup {t}
    BY <1>2 DEF FindDuplicate
  <2> HIDE DEF t
  <2> SUFFICES ASSUME ~overlapped', NEW s \in Songs \ raced'
               PROVE  /\ \A i, j \in Untouched(s)' : i = j
                      /\ \A d, e \in Adding(s)' : d = e
                      /\ Adding(s)' # {} => Untouched(s)' = {}
    BY DEF SongInv
  <2>3. Untouched(s)' = Untouched(s) /\ s \in Songs \ raced /\ ~overlapped
    BY <1>q, <2>2
  <2>4. CASE s = t
    <3>1. Adding(s) = {} /\ Untouched(s) = {}
      BY <2>2, <2>4 DEF Untouched
    <3>2. Adding(s)' \subseteq {c}
      BY <2>1, <3>1 DEF Adding, Moves
    <3> QED
      BY <2>3, <3>1, <3>2
  <2>5. CASE s # t
    <3>1. Adding(s)' \subseteq Adding(s)
      BY <2>1, <2>5 DEF Adding, Moves
    <3> QED
      BY <2>3, <3>1 DEF SongInv
  <2> QED
    BY <2>4, <2>5
<1>3. ASSUME NEW c \in Clients, InsertItem(c) PROVE SongInv'
  <2> DEFINE n == Len(queue) + 1
             t == req[c].song
  <2>1. /\ req[c].step = "insert" /\ Moves(c) /\ req'[c].step = "idle"
        /\ UNCHANGED <<overlapped, overtaken, raced>>
    BY <1>3, WritePlays, GotoFrame DEF InsertItem, TypeInv, StepNames, history
  <2>2. /\ DOMAIN queue' = DOMAIN queue \cup {n}
        /\ \A j \in DOMAIN queue : queue'[j] = queue[j]
        /\ queue'[n].song = t
    BY <1>3, WriteNew DEF TypeInv
  <2> HIDE DEF n, t
  <2> SUFFICES ASSUME ~overlapped', NEW s \in Songs \ raced'
               PROVE  /\ \A i, j \in Untouched(s)' : i = j
                      /\ \A d, e \in Adding(s)' : d = e
                      /\ Adding(s)' # {} => Untouched(s)' = {}
    BY DEF SongInv
  <2>3. Adding(s)' \subseteq Adding(s) \ {c} /\ s \in Songs \ raced /\ ~overlapped
    BY <1>n, <2>1 DEF Adding, Moves
  <2>4. CASE s = t
    <3>1. c \in Adding(s)
      BY <2>1, <2>4 DEF Adding, AddSteps, t
    <3>2. Untouched(s) = {} /\ Adding(s)' = {}
      BY <2>3, <3>1 DEF SongInv
    <3>3. Untouched(s)' \subseteq Untouched(s) \cup {n}
      BY <2>1, <2>2 DEF Untouched, LiveItems, Found
    <3> QED
      BY <3>2, <3>3
  <2>5. CASE s # t
    <3>1. Untouched(s)' \subseteq Untouched(s)
      BY <2>1, <2>2, <2>5 DEF Untouched, LiveItems, Found
    <3> QED
      BY <2>3, <3>1 DEF SongInv
  <2> QED
    BY <2>4, <2>5
<1>4. ASSUME NEW c \in Clients, UpdateItem(c) PROVE SongInv'
  <2> DEFINE i == req[c].item
  <2>1. Moves(c) /\ req'[c].step = "idle" /\ overlapped' = overlapped
    BY <1>4, WritePlays
  <2>2. /\ i \in DOMAIN queue /\ Writes(i, queue'[i])
        /\ queue'[i].song = queue[i].song
        /\ \/ queue'[i].status = "APPROVED" /\ queue'[i].deleted = queue[i].deleted
              /\ req[c].op = "approve"
           \/ queue'[i].status \in {"REJECTED", "REMOVED"}
    BY <1>4, WriteItem
  <2>3. /\ overtaken \subseteq overtaken' /\ raced \subseteq raced'
        /\ req[c].op = "approve" /\ i \notin LiveItems(queue[i].song) =>
              queue[i].song \in raced'
    BY <1>4 DEF UpdateItem
  <2> HIDE DEF i
  <2>4. ASSUME NEW s \in Songs \ raced' PROVE Untouched(s)' \subseteq Untouched(s)
    BY <2>2, <2>3, <2>4 DEF Writes, Untouched, LiveItems, Found
  <2> QED
    BY <1>n, <2>1, <2>3, <2>4, AddingShrinks, SongShrink
<1>5. ASSUME NEW c \in Clients, FindCurrentPlaying(c) \/ FindNextPlayable(c) PROVE SongInv'
  <2>1. Moves(c) /\ req'[c].step \in NextSteps
    BY <1>5, CurrentFrame, NextFrame DEF TypeInv, NextSteps
  <2>2. /\ UNCHANGED <<queue, overtaken, raced>>
        /\ overlapped => overlapped'
    <3>1. CASE FindCurrentPlaying(c)
      BY <3>1 DEF FindCurrentPlaying
    <3>2. CASE FindNextPlayable(c)
      BY <3>2 DEF FindNextPlayable, history
    <3> QED
      BY <1>5, <3>1, <3>2
  <2>3. ASSUME NEW s PROVE Untouched(s)' = Untouched(s)
    BY <1>q, <2>2
  <2>4. ASSUME NEW s PROVE Adding(s)' \subseteq Adding(s)
    <3>1. req'[c].step \notin AddSteps \ {"dup"}
      BY <1>n, <2>1
    <3> QED
      BY <2>1, <3>1, AddingShrinks
  <2> QED
    BY <2>2, <2>3, <2>4, SongShrink
<1>6. ASSUME NEW c \in Clients, MarkPlayed(c) PROVE SongInv'
  <2>1. /\ Moves(c) /\ req'[c].step \notin AddSteps
        /\ UNCHANGED <<overlapped, overtaken, raced>>
    BY <1>6, MarkPlays DEF MarkPlayed, history, AddSteps
  <2>2. ASSUME NEW s PROVE Untouched(s)' \subseteq Untouched(s)
    BY <1>6, <2>1, MarkPlays DEF Writes, Untouched, LiveItems, Found
  <2> QED
    BY <2>1, <2>2, AddingShrinks, SongShrink
<1>7. ASSUME NEW c \in Clients, StartItem(c) PROVE SongInv'
  <2> DEFINE i == req[c].item
  <2>1. /\ Moves(c) /\ req'[c].step \notin AddSteps
        /\ UNCHANGED <<overlapped, overtaken, raced>>
    BY <1>7, StartPlays DEF StartItem, history, AddSteps
  <2>2. /\ i \in DOMAIN queue /\ Writes(i, queue'[i])
        /\ queue'[i].song = queue[i].song /\ queue'[i].deleted = queue[i].deleted
    BY <1>7, StartPlays
  <2>3. \/ queue[i].status = "APPROVED" /\ ~queue[i].deleted
        \/ overlapped \/ i \in overtaken
    BY <1>7, StartPlays DEF StartSound
  <2> HIDE DEF i
  <2>4. CASE overlapped
    BY <2>1, <2>4 DEF SongInv
  <2>5. ASSUME ~overlapped, NEW s PROVE Untouched(s)' \subseteq Untouched(s)
    BY <2>1, <2>2, <2>3, <2>5 DEF Writes, Untouched, LiveItems, Found
  <2> QED
    BY <2>1, <2>4, <2>5, AddingShrinks, SongShrink
<1>8. CASE UNCHANGED vars
  BY <1>8 DEF vars, SongInv, Untouched, LiveItems, Found, Adding
<1> QED
  BY <1>1, <1>2, <1>3, <1>4, <1>5, <1>6, <1>7, <1>8, Kinds DEF Quiet

\* No song is live twice, for any clients and playlist, except after two
\* requests for it at once, a second approval, or a write to an item that was
\* about to play (addQueueItem, updateQueueItem, playNext)
THEOREM SongCorrect == Spec => []SongOnce
<1>1. Init => SongInv
  <2> SUFFICES ASSUME Init, NEW s \in Songs
               PROVE  (\A i, j \in Untouched(s) : i = j) /\ Adding(s) = {}
    BY DEF SongInv
  <2>1. /\ DOMAIN queue = 1 .. Len(Initial) /\ DOMAIN Initial = 1 .. Len(Initial)
        /\ \A i \in DOMAIN queue : queue[i].song = Initial[i]
    BY ConstantsAssumption DEF Init, InitialItem
  <2>2. \A i, j \in Untouched(s) : i = j
    BY <2>1, ConstantsAssumption DEF Untouched, LiveItems, Found
  <2>3. Adding(s) = {}
    BY IdleRequest DEF Init, Adding, AddSteps
  <2> QED
    BY <2>2, <2>3
<1>2. PlayInv /\ SongInv /\ [Next]_vars => SongInv'
  BY SongStep DEF PlayInv
<1>3. SongInv => SongOnce
  <2> SUFFICES ASSUME SongInv, ~overlapped, NEW s \in Songs \ raced,
                      LiveItems(s) \cap overtaken = {}
               PROVE  Cardinality(LiveItems(s)) <= 1
    BY DEF SongOnce
  <2>1. \A i, j \in LiveItems(s) : i = j
    BY DEF SongInv, Untouched
  <2>2. CASE LiveItems(s) = {}
    BY <2>2, FS_EmptySet
  <2>3. ASSUME NEW i \in LiveItems(s) PROVE Cardinality(LiveItems(s)) <= 1
    <3>1. LiveItems(s) = {i}
      BY <2>1, <2>3
    <3>2. Cardinality({i}) = 1
      BY FS_Singleton
    <3> QED
      BY <3>1, <3>2
  <2> QED
    BY <2>2, <2>3
<1> QED
  BY <1>1, <1>2, <1>3, InitPlay, PlayStep, PTL DEF Spec

-----------------------------------------------------------------------------
(* How many requests are pending                                           *)

\* The pending items of the users of some clients, and those of the clients
\* that have passed the limits and not yet inserted theirs
PendingPool(D) == {i \in Found({"PENDING"}) : \E c \in D : queue[i].by = UserOf[c]}
Admitted(D)    == {c \in D : req[c].step \in {"order", "insert"}}

Within(D, M) == Cardinality(PendingPool(D)) + Cardinality(Admitted(D)) < M + Cardinality(D)

LEMMA PoolsFinite ==
    ASSUME TypeOK, NEW D \in SUBSET Clients
    PROVE  /\ IsFiniteSet(D) /\ Cardinality(D) \in Nat
           /\ IsFiniteSet(PendingPool(D)) /\ Cardinality(PendingPool(D)) \in Nat
           /\ IsFiniteSet(Admitted(D)) /\ Cardinality(Admitted(D)) \in Nat
           /\ Cardinality(Admitted(D)) <= Cardinality(D)
<1>1. IsFiniteSet(D)
  BY ConstantsAssumption, FS_Subset
<1>2. IsFiniteSet(DOMAIN queue)
  BY QueueItems, FS_Interval
<1>3. PendingPool(D) \subseteq DOMAIN queue /\ Admitted(D) \subseteq D
  BY DEF PendingPool, Found, Admitted
<1> QED
  BY <1>1, <1>2, <1>3, FS_Subset, FS_CardinalityType

\* Fewer pending items and fewer requests stay within the bound
LEMMA PoolShrinks ==
    ASSUME TypeOK, NEW D \in SUBSET Clients, NEW M \in Nat, Within(D, M),
           PendingPool(D)' \subseteq PendingPool(D), Admitted(D)' \subseteq Admitted(D)
    PROVE  Within(D, M)'
<1>1. /\ Cardinality(PendingPool(D)') <= Cardinality(PendingPool(D))
      /\ Cardinality(PendingPool(D)') \in Nat
      /\ Cardinality(Admitted(D)') <= Cardinality(Admitted(D))
      /\ Cardinality(Admitted(D)') \in Nat
  BY PoolsFinite, FS_Subset, FS_CardinalityType
<1>2. Cardinality(PendingPool(D)') + Cardinality(Admitted(D)') < M + Cardinality(D)
  BY <1>1, PoolsFinite DEF Within
<1> QED
  BY <1>2 DEF Within

\* A request passes the limits while there is room, then turns from an
\* admitted request into a pending item
THEOREM PoolStep ==
    ASSUME TypeInv, TypeInv', [Next]_vars,
           NEW D \in SUBSET {c \in Clients : ~IsHost(c)}, NEW M \in Nat,
           \A c \in Clients \ D : ~IsHost(c) => \A d \in D : UserOf[d] # UserOf[c],
           \A c \in D : WithinLimits(c) => Cardinality(PendingPool(D)) < M,
           Within(D, M)
    PROVE  Within(D, M)'
<1> D \in SUBSET Clients /\ TypeOK
  BY DEF TypeInv
<1>q. ASSUME UNCHANGED queue PROVE PendingPool(D)' = PendingPool(D)
  BY <1>q DEF PendingPool, Found
<1>a. ASSUME NEW c \in Clients, Moves(c),
             c \in D /\ req'[c].step \in {"order", "insert"} => req[c].step \in {"order", "insert"}
      PROVE  Admitted(D)' \subseteq Admitted(D)
  BY <1>a DEF Admitted, Moves
<1>1. ASSUME NEW c \in Clients, Quiet(c), ~CheckLimits(c) PROVE Within(D, M)'
  <2>1. CASE req'[c].step \notin AddSteps \ {"dup"}
    BY <1>1, <1>q, <1>a, <2>1, PoolShrinks DEF Quiet, AddSteps
  <2>2. CASE FindDuplicate(c)
    <3>1. c \in D => req'[c].step = "limit"
      BY <2>2, GotoFrame DEF FindDuplicate, StepNames, AddSteps
    <3> QED
      BY <1>1, <1>q, <1>a, <3>1, PoolShrinks DEF Quiet
  <2>3. CASE GetMaxOrder(c)
    BY <1>1, <1>q, <1>a, <2>3, OrderFrame, PoolShrinks DEF Quiet
  <2> QED
    BY <1>1, <2>1, <2>2, <2>3 DEF Quiet
<1>2. ASSUME NEW c \in Clients, CheckLimits(c) PROVE Within(D, M)'
  <2>1. Moves(c) /\ req'[c].step = "order" /\ queue' = queue /\ WithinLimits(c)
    BY <1>2, GotoFrame DEF CheckLimits, StepNames, AddSteps
  <2>2. CASE c \in D
    <3>1. Cardinality(PendingPool(D)) < M
      BY <2>1, <2>2
    <3>2. Admitted(D)' \subseteq D
      BY DEF Admitted
    <3>3. Cardinality(Admitted(D)') <= Cardinality(D) /\ Cardinality(Admitted(D)') \in Nat
      BY <3>2, PoolsFinite, FS_Subset, FS_CardinalityType
    <3>4. Cardinality(PendingPool(D)') + Cardinality(Admitted(D)') < M + Cardinality(D)
      BY <1>q, <2>1, <3>1, <3>3, PoolsFinite
    <3> QED
      BY <3>4 DEF Within
  <2>3. CASE c \notin D
    BY <1>q, <1>a, <2>1, <2>3, PoolShrinks
  <2> QED
    BY <2>2, <2>3
<1>3. ASSUME NEW c \in Clients, InsertItem(c) PROVE Within(D, M)'
  <2> DEFINE n == Len(queue) + 1
  <2>1. /\ req[c].step = "insert" /\ Moves(c) /\ req'[c].step = "idle"
    BY <1>3, GotoFrame DEF InsertItem, StepNames
  <2>2. /\ DOMAIN queue' = DOMAIN queue \cup {n} /\ n \notin DOMAIN queue
        /\ \A j \in DOMAIN queue : queue'[j] = queue[j]
        /\ queue'[n].by = UserOf[c]
        /\ IsHost(c) => queue'[n].status = "APPROVED"
    BY <1>3, WriteNew
  <2> HIDE DEF n
  <2>3. CASE c \in D
    <3>1. PendingPool(D)' \subseteq PendingPool(D) \cup {n}
      BY <2>2 DEF PendingPool, Found
    <3>2. Admitted(D)' = Admitted(D) \ {c} /\ c \in Admitted(D)
      BY <2>1, <2>3 DEF Admitted, Moves
    <3>3. n \notin PendingPool(D)
      BY <2>2 DEF PendingPool, Found
    <3>4. /\ IsFiniteSet(PendingPool(D) \cup {n})
          /\ Cardinality(PendingPool(D) \cup {n}) = Cardinality(PendingPool(D)) + 1
      BY <3>3, PoolsFinite, FS_AddElement
    <3>5. /\ Cardinality(PendingPool(D)') <= Cardinality(PendingPool(D)) + 1
          /\ Cardinality(PendingPool(D)') \in Nat
      BY <3>1, <3>4, FS_Subset, FS_CardinalityType
    <3>6. Cardinality(Admitted(D)') = Cardinality(Admitted(D)) - 1
      BY <3>2, PoolsFinite, FS_RemoveElement
    <3>7. Cardinality(PendingPool(D)') + Cardinality(Admitted(D)') < M + Cardinality(D)
      BY <3>5, <3>6, PoolsFinite DEF Within
    <3> QED
      BY <3>7 DEF Within
  <2>4. CASE c \notin D
    <3>1. \A d \in D : UserOf[d] # UserOf[c] \/ IsHost(c)
      BY <2>4
    <3>2. PendingPool(D)' \subseteq PendingPool(D)
      BY <2>2, <3>1 DEF PendingPool, Found
    <3> QED
      BY <1>a, <2>1, <3>2, PoolShrinks
  <2> QED
    BY <2>3, <2>4
<1>4. ASSUME NEW c \in Clients, UpdateItem(c) \/ MarkPlayed(c) \/ StartItem(c)
      PROVE  Within(D, M)'
  <2> DEFINE i == req[c].item
  <2>1. i \in DOMAIN queue /\ Writes(i, queue'[i]) /\ queue'[i].status # "PENDING"
    BY <1>4, WriteItem, MarkPlays, StartPlays
  <2>2. Moves(c) /\ req'[c].step \notin {"order", "insert"}
    BY <1>4, WritePlays, MarkPlays, StartPlays
  <2> HIDE DEF i
  <2>3. PendingPool(D)' \subseteq PendingPool(D)
    BY <2>1 DEF PendingPool, Found, Writes
  <2> QED
    BY <1>a, <2>2, <2>3, PoolShrinks
<1>5. ASSUME NEW c \in Clients, FindCurrentPlaying(c) \/ FindNextPlayable(c)
      PROVE  Within(D, M)'
  <2>1. Moves(c) /\ req'[c].step \notin {"order", "insert"}
    BY <1>5, CurrentFrame, NextFrame
  <2>2. queue' = queue
    BY <1>5 DEF FindCurrentPlaying, FindNextPlayable
  <2> QED
    BY <1>a, <1>q, <2>1, <2>2, PoolShrinks
<1>6. CASE UNCHANGED vars
  <2>1. queue' = queue /\ Admitted(D)' = Admitted(D)
    BY <1>6 DEF vars, Admitted
  <2> QED
    BY <1>q, <2>1, PoolShrinks
<1> QED
  BY <1>1, <1>2, <1>3, <1>4, <1>5, <1>6, Kinds

\* No user has more requests pending than the limit allows plus one for each
\* further request under way, nor has the room, for any number of connections
\* (addQueueItem: the counts are read before the insertion)
THEOREM PendingCorrect == Spec => []PendingBounded
<1> DEFINE Conns(u)  == {c \in Clients : UserOf[c] = u}
           Listening == {c \in Clients : ~IsHost(c)}
           ByListeners == \A i \in Found({"PENDING"}) : queue[i].by \in {UserOf[c] : c \in Listening}
           Pools == /\ \A u \in Users \ {Host} : Within(Conns(u), MaxPerUser)
                    /\ Listening # {} => Within(Listening, MaxPerRoom)
           J == TypeInv /\ ByListeners /\ Pools
<1>u. ASSUME NEW u \in Users \ {Host}
      PROVE  /\ Conns(u) \in SUBSET Listening /\ Conns(u) # {}
             /\ PendingPool(Conns(u)) = PendingOf(u)
  BY DEF IsHost, Users, PendingPool, PendingOf
<1>l. ASSUME ByListeners PROVE PendingPool(Listening) = Found({"PENDING"})
  BY <1>l DEF PendingPool
<1>1. Init => J
  <2> SUFFICES ASSUME Init PROVE ByListeners /\ Pools
    BY InitType
  <2>1. Found({"PENDING"}) = {}
    <3>1. DOMAIN queue = 1 .. Len(Initial) /\ \A i \in DOMAIN queue : queue[i] = InitialItem(i)
      BY DEF Init
    <3> QED
      BY <3>1 DEF Found, InitialItem
  <2>2. ASSUME NEW D \in SUBSET Clients, D # {}, NEW M \in Nat PROVE Within(D, M)
    <3>1. PendingPool(D) = {} /\ Admitted(D) = {}
      BY <2>1, IdleRequest DEF PendingPool, Admitted, Init
    <3>2. TypeOK
      BY InitType DEF TypeInv
    <3>3. Cardinality(D) # 0
      BY <2>2, <3>2, PoolsFinite, FS_EmptySet
    <3> QED
      BY <3>1, <3>2, <3>3, PoolsFinite, FS_EmptySet DEF Within
  <2> QED
    BY <1>u, <2>1, <2>2, ConstantsAssumption
<1>2. J /\ [Next]_vars => J'
  <2> SUFFICES ASSUME J, [Next]_vars PROVE J'
    OBVIOUS
  <2>0. TypeInv'
    BY TypeStep
  <2>1. ByListeners'
    <3>1. ASSUME UNCHANGED queue PROVE ByListeners'
      BY <3>1 DEF Found
    <3>2. ASSUME NEW c \in Clients, InsertItem(c) PROVE ByListeners'
      <4>1. /\ DOMAIN queue' = DOMAIN queue \cup {Len(queue) + 1}
            /\ \A j \in DOMAIN queue : queue'[j] = queue[j]
            /\ queue'[Len(queue) + 1].by = UserOf[c]
            /\ IsHost(c) => queue'[Len(queue) + 1].status = "APPROVED"
        BY <3>2, WriteNew DEF TypeInv
      <4> QED
        BY <4>1 DEF Found
    <3>3. ASSUME NEW c \in Clients, UpdateItem(c) \/ MarkPlayed(c) \/ StartItem(c)
          PROVE  ByListeners'
      <4>1. Writes(req[c].item, queue'[req[c].item]) /\ queue'[req[c].item].status # "PENDING"
        BY <3>3, WriteItem, MarkPlays, StartPlays
      <4> QED
        BY <4>1 DEF Found, Writes
    <3> QED
      BY <3>1, <3>2, <3>3, Kinds DEF Quiet, FindCurrentPlaying, FindNextPlayable, vars
  <2>2. ASSUME NEW u \in Users \ {Host} PROVE Within(Conns(u), MaxPerUser)'
    <3>1. Conns(u) \in SUBSET Listening
      BY <1>u, <2>2
    <3>2. \A c \in Clients \ Conns(u) : \A d \in Conns(u) : UserOf[d] # UserOf[c]
      OBVIOUS
    <3>3. \A c \in Conns(u) : WithinLimits(c) => Cardinality(PendingPool(Conns(u))) < MaxPerUser
      BY <1>u, <2>2 DEF WithinLimits
    <3>4. Within(Conns(u), MaxPerUser)
      BY <2>2
    <3> HIDE DEF Conns, Pools, ByListeners
    <3> QED
      BY <2>0, <3>1, <3>2, <3>3, <3>4, PoolStep, ConstantsAssumption
  <2>3. ASSUME Listening # {} PROVE Within(Listening, MaxPerRoom)'
    <3>1. \A c \in Listening : WithinLimits(c) => Cardinality(PendingPool(Listening)) < MaxPerRoom
      BY <1>l DEF WithinLimits
    <3>2. Within(Listening, MaxPerRoom)
      BY <2>3
    <3>3. \A c \in Clients \ Listening : IsHost(c)
      OBVIOUS
    <3> QED
      BY <2>0, <3>1, <3>2, <3>3, PoolStep, ConstantsAssumption
  <2> QED
    BY <2>0, <2>1, <2>2, <2>3
<1>3. J => PendingBounded
  <2> SUFFICES ASSUME J PROVE PendingBounded
    OBVIOUS
  <2>1. ASSUME NEW D \in SUBSET Clients, NEW M \in Nat, Within(D, M)
        PROVE  Cardinality(PendingPool(D)) < M + Cardinality(D)
    BY <2>1, PoolsFinite DEF Within, TypeInv
  <2>2. ASSUME NEW u \in Users \ {Host}
        PROVE  Cardinality(PendingOf(u)) < MaxPerUser + Cardinality(Conns(u))
    <3>1. Conns(u) \in SUBSET Clients /\ Within(Conns(u), MaxPerUser)
      BY <2>2
    <3> HIDE DEF Conns
    <3> QED
      BY <1>u, <2>1, <2>2, <3>1, ConstantsAssumption
  <2>3. ASSUME Listening # {}
        PROVE  Cardinality(Found({"PENDING"})) < MaxPerRoom + Cardinality(Listening)
    <3>1. Within(Listening, MaxPerRoom) /\ Listening \in SUBSET Clients
      BY <2>3
    <3> QED
      BY <1>l, <2>1, <3>1, ConstantsAssumption
  <2> QED
    BY <2>2, <2>3 DEF PendingBounded
<1> QED
  BY <1>1, <1>2, <1>3, PTL DEF Spec

==============================================================================
