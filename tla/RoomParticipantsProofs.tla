------------------------ MODULE RoomParticipantsProofs ------------------------
(***************************************************************************)
(* Proofs about RoomParticipants for any finite set of clients, any users  *)
(* and any number of requests.  The invariant says what a request knows    *)
(* when it writes: what it read still holds unless somebody overlapped.    *)
(***************************************************************************)
EXTENDS RoomParticipants, FiniteSetTheorems, TLAPS

\* Nothing happens to a room before create has stored it
RoomExists ==
    /\ creation = "none" <=> room = "none"
    /\ room = "none" =>
         /\ \A u \in Users : status[u] = "none"
         /\ \A c \in Clients : req[c].step \notin {"access", "look", "write", "count"}

\* A request about to write has read a status its operation admits
WriteSound ==
    \A c \in Clients :
        /\ req[c].step = "write" =>
             \/ req[c].op = "join" /\ req[c].seen \notin {"ACTIVE", "BANNED"}
             \/ req[c].op = "leave" /\ req[c].seen = "ACTIVE"
             \/ req[c].op \in Moderation /\ req[c].seen # "none"
        /\ req[c].step = "count" => Delta(c) \in {1, -1}

\* Nobody writes the host's document unless the host joined early
HostUntouched ==
    Host \notin overlapped =>
        /\ creation \in {"none", "pending"} => status[Host] = "none"
        /\ creation # "failed" =>
             \A c \in Clients : About(c) = Host => req[c].step \notin {"write", "count"}
        /\ creation = "done" => status[Host] = "ACTIVE" /\ role[Host] = "HOST"

\* Of a user without overlap at most one request is about to update the
\* document, and what it read is still there
FreshReads ==
    \A u \in Users \ overlapped :
        /\ \A c \in Clients : Overwrites(c, u) => req[c].seen = status[u]
        /\ \A c, d \in Clients : Overwrites(c, u) /\ Overwrites(d, u) => c = d

KnowInv == TypeOK /\ RoomExists /\ WriteSound /\ HostUntouched /\ FreshReads

CountInv == KnowInv /\ CountExact

-----------------------------------------------------------------------------
(* Type correctness                                                        *)

\* The frame of Goto: only c moves, and it keeps its request until it is idle
LEMMA GotoFrame ==
    ASSUME TypeOK, NEW c \in Clients, NEW from, NEW to \in Steps, Goto(c, from, to)
    PROVE  /\ req' \in [Clients -> Request]
           /\ \A d \in Clients : d # c => req'[d] = req[d]
           /\ to = "idle" => req'[c] = Idle
           /\ to # "idle" =>
                /\ req'[c].step = to
                /\ req'[c].op = req[c].op
                /\ req'[c].about = req[c].about
                /\ req'[c].seen = req[c].seen
<1>1. req \in [Clients -> Request] /\ Idle \in Request
  BY ConstantsAssumption DEF TypeOK, Request, Idle, Steps, Statuses
<1>2. CASE to = "idle"
  BY <1>1, <1>2 DEF Goto
<1>3. CASE to # "idle"
  <2>1. req' = [req EXCEPT ![c] = [req[c] EXCEPT !.step = to]]
    BY <1>3 DEF Goto
  <2>2. [req[c] EXCEPT !.step = to] \in Request
    BY <1>1 DEF Request
  <2>3. /\ [req[c] EXCEPT !.step = to].step = to
        /\ [req[c] EXCEPT !.step = to].op = req[c].op
        /\ [req[c] EXCEPT !.step = to].about = req[c].about
        /\ [req[c] EXCEPT !.step = to].seen = req[c].seen
    BY <1>1 DEF Request
  <2> QED
    BY <1>1, <1>3, <2>1, <2>2, <2>3
<1> QED
  BY <1>2, <1>3

\* The frame of a read: c remembers the status it found
LEMMA ReadFrame ==
    ASSUME TypeOK, NEW c \in Clients, ReadParticipant(c)
    PROVE  /\ req' \in [Clients -> Request]
           /\ \A d \in Clients : d # c => req'[d] = req[d]
           /\ req'[c].step = "write"
           /\ req'[c].op = req[c].op
           /\ req'[c].about = req[c].about
           /\ req'[c].seen = status[About(c)]
           /\ About(c) \in Users
<1>1. req \in [Clients -> Request] /\ About(c) \in Users /\ status[About(c)] \in Statuses
  BY DEF TypeOK, Request, About
<1> DEFINE r == [req[c] EXCEPT !.step = "write", !.seen = status[About(c)]]
<1>2. r \in Request /\ r.step = "write" /\ r.op = req[c].op /\ r.about = req[c].about
      /\ r.seen = status[About(c)]
  BY <1>1 DEF Request, Steps
<1>3. req' = [req EXCEPT ![c] = r]
  BY DEF ReadParticipant
<1> HIDE DEF r
<1> QED
  BY <1>1, <1>2, <1>3

\* Idle, and what Send and SendMessage start, are requests
LEMMA NewRequests ==
    ASSUME NEW u \in Users, NEW o \in OwnOps \cup Moderation
    PROVE  /\ Idle \in Request
           /\ [step |-> "room", op |-> o, about |-> u, seen |-> "none"] \in Request
           /\ [Idle EXCEPT !.step = "check", !.about = u] \in Request
  BY ConstantsAssumption DEF Idle, Request, Steps, Statuses

\* What Delta and Outcome may be
LEMMA Values ==
    ASSUME NEW c
    PROVE  Delta(c) \in {-1, 0, 1} /\ Outcome(c) \in Statuses \ {"none"}
  BY DEF Delta, Outcome, Statuses

THEOREM TypeStep == TypeOK /\ [Next]_vars => TypeOK'
<1> SUFFICES ASSUME TypeOK, [Next]_vars PROVE TypeOK'
  OBVIOUS
<1>t. /\ \A c \in Clients : About(c) \in Users
      /\ Idle \in Request
  BY ConstantsAssumption, NewRequests DEF TypeOK, Request, About, OwnOps
<1>1. CASE CreateRoom
  BY <1>1, ConstantsAssumption DEF CreateRoom, TypeOK, RoomStates, CreationStates, history
<1>2. CASE InsertHost
  BY <1>2, ConstantsAssumption DEF InsertHost, TypeOK, CreationStates, Statuses, Roles, history
<1>3. CASE HostRefused
  BY <1>3 DEF HostRefused, TypeOK, CreationStates, history
<1>4. CASE CreationFails
  BY <1>4, ConstantsAssumption DEF CreationFails, TypeOK, CreationStates
<1>5. CASE SetRoomStatus
  BY <1>5 DEF SetRoomStatus, TypeOK, RoomStates, history
<1>6. CASE RemoveRoom
  BY <1>6 DEF RemoveRoom, TypeOK, RoomStates, history
<1>7. ASSUME NEW c \in Clients, NEW o \in OwnOps \cup Moderation, NEW u \in Users, Send(c, o, u)
      PROVE  TypeOK'
  <2> DEFINE r == [step |-> "room", op |-> o, about |-> u, seen |-> "none"]
  <2>1. r \in Request
    BY NewRequests
  <2>2. req' = [req EXCEPT ![c] = r]
    BY <1>7 DEF Send
  <2> HIDE DEF r
  <2>3. left' \in [Clients -> Nat]
    BY <1>7 DEF Send, TypeOK
  <2> QED
    BY <1>7, <2>1, <2>2, <2>3 DEF Send, TypeOK, roomVars, history
<1>8. ASSUME NEW c \in Clients, SendMessage(c) PROVE TypeOK'
  <2>1. UserOf[c] \in Users
    BY ConstantsAssumption
  <2>2. req' = [req EXCEPT ![c] = [Idle EXCEPT !.step = "check", !.about = UserOf[c]]]
    BY <1>8 DEF SendMessage, TypeOK
  <2>3. [Idle EXCEPT !.step = "check", !.about = UserOf[c]] \in Request
    BY <2>1, NewRequests DEF OwnOps
  <2> QED
    BY <1>8, <2>2, <2>3 DEF SendMessage, TypeOK, roomVars, history
<1>9. ASSUME NEW c \in Clients, Step(c) PROVE TypeOK'
  <2>1. ASSUME FindRoom(c) PROVE TypeOK'
    BY <2>1, GotoFrame DEF FindRoom, TypeOK, roomVars, history, Steps
  <2>2. ASSUME EnsureAccessible(c) PROVE TypeOK'
    BY <2>2, GotoFrame DEF EnsureAccessible, TypeOK, roomVars, history, Steps
  <2>3. ASSUME ReadParticipant(c) PROVE TypeOK'
    BY <2>3, ReadFrame DEF ReadParticipant, TypeOK, roomVars
  <2>4. ASSUME Return(c) PROVE TypeOK'
    BY <2>4, <1>t DEF Return, TypeOK, roomVars, history
  <2>5. ASSUME CreateParticipant(c) PROVE TypeOK'
    BY <2>5, <1>t, GotoFrame
    DEF CreateParticipant, TypeOK, roomVars, history, Steps, Statuses, Roles
  <2>6. ASSUME DuplicateParticipant(c) PROVE TypeOK'
    BY <2>6, GotoFrame DEF DuplicateParticipant, TypeOK, roomVars, history, Steps
  <2>7. ASSUME UpdateParticipant(c) PROVE TypeOK'
    BY <2>7, <1>t, Values, GotoFrame DEF UpdateParticipant, TypeOK, roomVars, history, Steps
  <2>8. ASSUME IncrementParticipantCount(c) PROVE TypeOK'
    BY <2>8, <1>t, Values, GotoFrame DEF IncrementParticipantCount, TypeOK, roomVars, history, Steps
  <2>9. ASSUME RequestFails(c) PROVE TypeOK'
    BY <2>9, <1>t, GotoFrame DEF RequestFails, TypeOK, roomVars, Steps
  <2> QED
    BY <1>9, <2>1, <2>2, <2>3, <2>4, <2>5, <2>6, <2>7, <2>8, <2>9 DEF Step
<1>10. ASSUME NEW c \in Clients, MessageStep(c) PROVE TypeOK'
  BY <1>10, <1>t, GotoFrame
  DEF MessageStep, CacheHit, EnsureActive, CacheMember, Post, TypeOK, roomVars, history, Steps
<1>11. ASSUME NEW u \in Users, ExpireKey(u) PROVE TypeOK'
  BY <1>11 DEF ExpireKey, TypeOK, roomVars, history
<1>12. CASE UNCHANGED vars
  BY <1>12 DEF vars, TypeOK
<1> QED
  BY <1>1, <1>2, <1>3, <1>4, <1>5, <1>6, <1>7, <1>8, <1>9, <1>10, <1>11, <1>12 DEF Next

\* Every document and request of a room stays well typed
THEOREM TypeCorrect == Spec => []TypeOK
<1>1. Init => TypeOK
  <2>1. Idle \in Request
    BY ConstantsAssumption, NewRequests DEF OwnOps
  <2> QED
    BY <2>1, ConstantsAssumption DEF Init, TypeOK, RoomStates, CreationStates, Statuses, Roles
<1> QED
  BY <1>1, TypeStep, PTL DEF Spec

-----------------------------------------------------------------------------
(* What requests know                                                      *)

\* Delta is decided by the operation and the status read
LEMMA DeltaFrame ==
    ASSUME NEW d, req'[d].op = req[d].op, req'[d].seen = req[d].seen
    PROVE  Delta(d)' = Delta(d)
  BY DEF Delta

\* A step of one request that neither reads nor writes a participant
LEMMA Quiet ==
    ASSUME KnowInv, TypeOK', NEW c \in Clients,
           UNCHANGED <<room, creation, status, role, overlapped>>,
           \A d \in Clients : d # c => req'[d] = req[d],
           req'[c].step \notin {"write", "count"},
           req'[c].step \in {"access", "look"} => room # "none"
    PROVE  KnowInv'
<1>1. RoomExists'
  BY DEF KnowInv, RoomExists
<1>2. WriteSound'
  BY DeltaFrame DEF KnowInv, WriteSound
<1>3. HostUntouched'
  BY DEF KnowInv, HostUntouched, About
<1>4. FreshReads'
  BY DEF KnowInv, FreshReads, Overwrites, About
<1> QED
  BY <1>1, <1>2, <1>3, <1>4 DEF KnowInv

\* A step of the room that leaves requests and participants alone
LEMMA RoomStep ==
    ASSUME KnowInv, TypeOK', UNCHANGED <<status, role, req, overlapped>>,
           room' = "none" <=> room = "none",
           \/ UNCHANGED creation
           \/ creation # "none" /\ creation' = "failed"
    PROVE  KnowInv'
<1>1. RoomExists'
  BY DEF KnowInv, RoomExists
<1>2. WriteSound'
  BY DeltaFrame DEF KnowInv, WriteSound
<1>3. HostUntouched'
  BY DEF KnowInv, HostUntouched, About
<1>4. FreshReads'
  BY DEF KnowInv, FreshReads, Overwrites, About
<1> QED
  BY <1>1, <1>2, <1>3, <1>4 DEF KnowInv

LEMMA KnowCreate == ASSUME KnowInv, TypeOK', CreateRoom PROVE KnowInv'
<1> USE DEF CreateRoom
<1>0. \A c \in Clients : req[c].step \notin {"access", "look", "write", "count"}
  BY DEF KnowInv, RoomExists
<1>1. RoomExists'
  BY DEF KnowInv, RoomExists
<1>2. WriteSound'
  BY <1>0 DEF KnowInv, WriteSound
<1>3. HostUntouched'
  BY <1>0, ConstantsAssumption DEF KnowInv, HostUntouched, RoomExists, About, history
<1>4. FreshReads'
  BY <1>0 DEF KnowInv, FreshReads, Overwrites, About, history
<1> QED
  BY <1>1, <1>2, <1>3, <1>4 DEF KnowInv

\* The host's document is new, so nobody has read it
LEMMA KnowInsert == ASSUME KnowInv, TypeOK', InsertHost PROVE KnowInv'
<1> USE DEF InsertHost, history
<1>0. Host \in Users /\ status \in [Users -> Statuses] /\ role \in [Users -> Roles]
  BY ConstantsAssumption DEF KnowInv, TypeOK
<1>1. RoomExists'
  BY <1>0 DEF KnowInv, RoomExists
<1>2. WriteSound'
  BY DeltaFrame DEF KnowInv, WriteSound
<1>3. HostUntouched'
  BY <1>0 DEF KnowInv, HostUntouched, About
<1>4. FreshReads'
  <2> SUFFICES ASSUME NEW u \in Users, u \notin overlapped
               PROVE  /\ \A c \in Clients : Overwrites(c, u) => req[c].seen = status'[u]
                      /\ \A c, d \in Clients : Overwrites(c, u) /\ Overwrites(d, u) => c = d
    BY DEF FreshReads, Overwrites, About
  <2>1. CASE u = Host
    BY <2>1 DEF KnowInv, HostUntouched, Overwrites
  <2>2. CASE u # Host
    BY <1>0, <2>2 DEF KnowInv, FreshReads
  <2> QED
    BY <2>1, <2>2
<1> QED
  BY <1>1, <1>2, <1>3, <1>4 DEF KnowInv

\* A request that reads knows the status; if another one is about to write
\* the same document both are overlapped
LEMMA KnowRead ==
    ASSUME KnowInv, TypeOK', NEW c \in Clients, ReadParticipant(c) PROVE KnowInv'
<1> DEFINE v == About(c)
<1>0. /\ \A d \in Clients : d # c => req'[d] = req[d]
      /\ req'[c].step = "write" /\ req'[c].op = req[c].op /\ req'[c].about = v
      /\ req'[c].seen = status[v] /\ v \in Users /\ req[c].step = "look"
  BY ReadFrame DEF KnowInv, ReadParticipant, About
<1>a. UNCHANGED <<room, creation, status, role>> /\ overlapped \subseteq overlapped'
      /\ (Overlaps(c) => v \in overlapped')
  BY DEF ReadParticipant, roomVars
<1>b. ParticipantAdmits(c)
  BY DEF ReadParticipant
<1>c. room # "none" /\ creation # "none"
  BY <1>0 DEF KnowInv, RoomExists
<1>1. RoomExists'
  BY <1>0, <1>a, <1>c DEF KnowInv, RoomExists
<1>2. WriteSound'
  <2>1. \A d \in Clients : d # c => (Delta(d)' = Delta(d))
    BY <1>0, DeltaFrame
  <2>2. \/ req[c].op = "join" /\ status[v] \notin {"ACTIVE", "BANNED"}
        \/ req[c].op = "leave" /\ status[v] = "ACTIVE"
        \/ req[c].op \in Moderation /\ status[v] # "none"
    BY <1>b DEF ParticipantAdmits
  <2> QED
    BY <1>0, <2>1, <2>2 DEF KnowInv, WriteSound
<1>3. HostUntouched'
  <2>1. ASSUME v = Host, Host \notin overlapped', creation # "failed" PROVE FALSE
    <3>1. creation = "done"
      BY <1>a, <1>c, <2>1 DEF Overlaps, KnowInv, TypeOK, CreationStates
    <3>2. status[Host] = "ACTIVE" /\ role[Host] = "HOST"
      BY <3>1, <1>a, <2>1 DEF KnowInv, HostUntouched
    <3> QED
      BY <3>2, <2>1, <1>b DEF ParticipantAdmits
  <2> QED
    BY <2>1, <1>0, <1>a DEF KnowInv, HostUntouched, About
<1>4. FreshReads'
  <2> SUFFICES ASSUME NEW u \in Users, u \notin overlapped'
               PROVE  /\ \A d \in Clients : Overwrites(d, u)' => req'[d].seen = status[u]
                      /\ \A d, e \in Clients : Overwrites(d, u)' /\ Overwrites(e, u)' => d = e
    BY <1>a DEF FreshReads
  <2>1. \A d \in Clients : d # c => (Overwrites(d, u)' <=> Overwrites(d, u))
    BY <1>0 DEF Overwrites, About
  <2>2. Overwrites(c, u)' => u = v /\ status[u] # "none"
    BY <1>0 DEF Overwrites, About
  <2>3. Overwrites(c, u)' => \A d \in Clients : d # c => ~Overwrites(d, u)
    BY <2>2, <1>a DEF Overlaps
  <2> QED
    BY <1>0, <1>a, <2>1, <2>2, <2>3 DEF KnowInv, FreshReads
<1> QED
  BY <1>1, <1>2, <1>3, <1>4 DEF KnowInv

\* A request that writes leaves no other reader behind; it can be about the
\* host only if the host joined early or create failed
LEMMA Written ==
    ASSUME KnowInv, TypeOK', NEW c \in Clients, req[c].step = "write",
           \/ req[c].seen # "none"
           \/ status[About(c)] = "none",
           \A d \in Clients : d # c => req'[d] = req[d],
           req'[c].step \in {"idle", "count"},
           req'[c].step = "count" =>
               req'[c].about = req[c].about /\ Delta(c)' \in {1, -1},
           UNCHANGED <<room, creation, overlapped>>,
           \A u \in Users : u # About(c) => status'[u] = status[u] /\ role'[u] = role[u]
    PROVE  KnowInv'
<1> DEFINE v == About(c)
<1>0. v \in Users
  BY DEF KnowInv, TypeOK, Request, About
<1>1. RoomExists'
  BY DEF KnowInv, RoomExists
<1>2. WriteSound'
  BY DeltaFrame DEF KnowInv, WriteSound
<1>3. HostUntouched'
  <2>1. ASSUME Host \notin overlapped, v = Host PROVE creation = "failed"
    BY <2>1 DEF KnowInv, HostUntouched
  <2> QED
    BY <2>1, ConstantsAssumption DEF KnowInv, HostUntouched, About
<1>4. FreshReads'
  <2> SUFFICES ASSUME NEW u \in Users, u \notin overlapped
               PROVE  /\ \A d \in Clients : Overwrites(d, u)' => req'[d].seen = status'[u]
                      /\ \A d, e \in Clients : Overwrites(d, u)' /\ Overwrites(e, u)' => d = e
    BY DEF FreshReads
  <2>1. \A d \in Clients : d # c => (Overwrites(d, u)' <=> Overwrites(d, u))
    BY DEF Overwrites, About
  <2>2. ~Overwrites(c, u)'
    BY DEF Overwrites
  <2>3. CASE u = v
    <3>1. \A d \in Clients : Overwrites(d, u) => d = c
      <4>1. CASE req[c].seen # "none"
        BY <2>3, <4>1 DEF KnowInv, FreshReads, Overwrites
      <4>2. CASE status[v] = "none"
        BY <2>3, <4>2 DEF KnowInv, FreshReads, Overwrites
      <4> QED
        BY <4>1, <4>2
    <3> QED
      BY <2>1, <2>2, <3>1
  <2>4. CASE u # v
    BY <2>1, <2>2, <2>4 DEF KnowInv, FreshReads
  <2> QED
    BY <2>3, <2>4
<1> QED
  BY <1>1, <1>2, <1>3, <1>4 DEF KnowInv

LEMMA KnowCreateParticipant ==
    ASSUME KnowInv, TypeOK', NEW c \in Clients, CreateParticipant(c)
    PROVE  KnowInv' /\ Delta(c) = 1 /\ Delta(c)' = 1
<1>1. TypeOK /\ Goto(c, "write", "count") /\ "count" \in Steps
  BY DEF KnowInv, CreateParticipant, Steps
<1>w. req[c].step = "write"
  BY <1>1 DEF Goto
<1>2. /\ req'[c].step = "count"
      /\ req'[c].op = req[c].op /\ req'[c].seen = req[c].seen
      /\ req'[c].about = req[c].about
      /\ \A d \in Clients : d # c => req'[d] = req[d]
  BY <1>1, GotoFrame
<1>3. req[c].op = "join"
  BY <1>w, <1>2 DEF CreateParticipant, KnowInv, WriteSound
<1>4. Delta(c) = 1 /\ Delta(c)' = 1
  BY <1>2, <1>3 DEF Delta
<1>5. \A u \in Users : u # About(c) => status'[u] = status[u] /\ role'[u] = role[u]
  BY DEF CreateParticipant, KnowInv, TypeOK
<1>6. UNCHANGED <<room, creation, overlapped>> /\ status[About(c)] = "none"
  BY DEF CreateParticipant, roomVars, history
<1> QED
  BY <1>w, <1>2, <1>4, <1>5, <1>6, Written

LEMMA KnowUpdateParticipant ==
    ASSUME KnowInv, TypeOK', NEW c \in Clients, UpdateParticipant(c)
    PROVE  KnowInv'
<1> DEFINE to == IF Delta(c) = 0 THEN "idle" ELSE "count"
<1>1. TypeOK /\ Goto(c, "write", to) /\ to \in Steps
  BY DEF KnowInv, UpdateParticipant, Steps
<1>w. req[c].step = "write"
  BY <1>1 DEF Goto
<1>2. /\ req'[c].step = to
      /\ \A d \in Clients : d # c => req'[d] = req[d]
      /\ to = "count" => /\ req'[c].op = req[c].op /\ req'[c].seen = req[c].seen
                         /\ req'[c].about = req[c].about
  BY <1>1, GotoFrame DEF Idle
<1>3. to = "count" => Delta(c)' \in {1, -1}
  BY <1>2, Values, DeltaFrame
<1>4. \A u \in Users : u # About(c) => status'[u] = status[u] /\ role'[u] = role[u]
  BY DEF UpdateParticipant, KnowInv, TypeOK
<1>5. UNCHANGED <<room, creation, overlapped>> /\ req[c].seen # "none"
  BY DEF UpdateParticipant, roomVars, history
<1>6. to \in {"idle", "count"}
  OBVIOUS
<1> HIDE DEF to
<1> QED
  BY <1>w, <1>2, <1>3, <1>4, <1>5, <1>6, Written

\* The steps of requests which only move on
MovesOn(c) ==
    \/ \E o \in OwnOps \cup Moderation, u \in Users : Send(c, o, u)
    \/ SendMessage(c)
    \/ FindRoom(c) \/ EnsureAccessible(c) \/ Return(c) \/ DuplicateParticipant(c)
    \/ IncrementParticipantCount(c) \/ RequestFails(c) \/ MessageStep(c)

LEMMA KnowMoveOn ==
    ASSUME KnowInv, TypeOK', NEW c \in Clients, MovesOn(c)
    PROVE  /\ KnowInv'
           /\ \A d \in Clients : d # c => req'[d] = req[d]
           /\ req'[c].step # "count"
<1>0. TypeOK
  BY DEF KnowInv
<1>a. UNCHANGED <<room, creation, status, role, overlapped>>
  BY DEF MovesOn, Send, SendMessage, FindRoom, EnsureAccessible, Return, DuplicateParticipant,
         IncrementParticipantCount, RequestFails, MessageStep, CacheHit, EnsureActive,
         CacheMember, Post, roomVars, history
<1> DEFINE Moved == /\ \A d \in Clients : d # c => req'[d] = req[d]
                    /\ req'[c].step \notin {"write", "count"}
                    /\ req'[c].step \in {"access", "look"} => room # "none"
<1>1. ASSUME NEW o \in OwnOps \cup Moderation, NEW u \in Users, Send(c, o, u) PROVE Moved
  BY <1>0, <1>1 DEF Send, TypeOK
<1>2. ASSUME SendMessage(c) PROVE Moved
  <2>1. req' = [req EXCEPT ![c] = [Idle EXCEPT !.step = "check", !.about = UserOf[c]]]
    BY <1>2 DEF SendMessage
  <2>2. req'[c].step = "check"
    BY <1>0, <2>1 DEF Idle, TypeOK
  <2> QED
    BY <1>0, <2>1, <2>2 DEF TypeOK
<1>3. ASSUME FindRoom(c) PROVE Moved
  BY <1>0, <1>3, GotoFrame DEF FindRoom, RoomAdmits, Steps
<1>4. ASSUME EnsureAccessible(c) PROVE Moved
  BY <1>0, <1>4, GotoFrame DEF EnsureAccessible, Goto, Steps, KnowInv, RoomExists
<1>5. ASSUME Return(c) PROVE Moved
  BY <1>0, <1>5 DEF Return, TypeOK, Idle
<1>6. ASSUME DuplicateParticipant(c) PROVE Moved
  BY <1>0, <1>6, GotoFrame DEF DuplicateParticipant, Steps, Idle
<1>7. ASSUME IncrementParticipantCount(c) PROVE Moved
  BY <1>0, <1>7, GotoFrame DEF IncrementParticipantCount, Steps, Idle
<1>8. ASSUME RequestFails(c) PROVE Moved
  BY <1>0, <1>8, GotoFrame DEF RequestFails, Steps, Idle
<1>9. ASSUME MessageStep(c) PROVE Moved
  BY <1>0, <1>9, GotoFrame
  DEF MessageStep, CacheHit, EnsureActive, CacheMember, Post, Steps, Idle
<1>10. Moved
  BY <1>1, <1>2, <1>3, <1>4, <1>5, <1>6, <1>7, <1>8, <1>9 DEF MovesOn
<1> QED
  BY <1>a, <1>10, Quiet

THEOREM KnowStep == KnowInv /\ [Next]_vars => KnowInv'
<1> SUFFICES ASSUME KnowInv, [Next]_vars PROVE KnowInv'
  OBVIOUS
<1>0. TypeOK'
  BY TypeStep DEF KnowInv
<1>1. CASE CreateRoom
  BY <1>0, <1>1, KnowCreate
<1>2. CASE InsertHost
  BY <1>0, <1>2, KnowInsert
<1>3. CASE HostRefused
  BY <1>0, <1>3, RoomStep DEF HostRefused, history
<1>4. CASE CreationFails
  BY <1>0, <1>4, RoomStep DEF CreationFails
<1>5. CASE SetRoomStatus
  BY <1>0, <1>5, RoomStep DEF SetRoomStatus, history
<1>6. CASE RemoveRoom
  BY <1>0, <1>6, RoomStep DEF RemoveRoom, history
<1>7. ASSUME NEW c \in Clients, MovesOn(c) PROVE KnowInv'
  BY <1>0, <1>7, KnowMoveOn
<1>8. ASSUME NEW c \in Clients, ReadParticipant(c) PROVE KnowInv'
  BY <1>0, <1>8, KnowRead
<1>9. ASSUME NEW c \in Clients, CreateParticipant(c) PROVE KnowInv'
  BY <1>0, <1>9, KnowCreateParticipant
<1>10. ASSUME NEW c \in Clients, UpdateParticipant(c) PROVE KnowInv'
  BY <1>0, <1>10, KnowUpdateParticipant
<1>11. ASSUME NEW u \in Users, ExpireKey(u) PROVE KnowInv'
  BY <1>0, <1>11, RoomStep DEF ExpireKey, roomVars, history
<1>12. CASE UNCHANGED vars
  BY <1>0, <1>12, RoomStep DEF vars
<1> QED
  BY <1>1, <1>2, <1>3, <1>4, <1>5, <1>6, <1>7, <1>8, <1>9, <1>10, <1>11, <1>12
  DEF Next, Step, MovesOn

LEMMA KnowInit == Init => KnowInv
<1> SUFFICES ASSUME Init PROVE KnowInv
  OBVIOUS
<1>1. TypeOK
  <2>1. Idle \in Request
    BY ConstantsAssumption, NewRequests DEF OwnOps
  <2> QED
    BY <2>1, ConstantsAssumption DEF Init, TypeOK, RoomStates, CreationStates, Statuses, Roles
<1>2. \A c \in Clients : req[c].step = "idle"
  BY DEF Init, Idle
<1>3. RoomExists /\ WriteSound /\ HostUntouched /\ FreshReads
  BY <1>2, ConstantsAssumption
  DEF Init, RoomExists, WriteSound, HostUntouched, FreshReads, Overwrites
<1> QED
  BY <1>1, <1>3 DEF KnowInv

\* The host of a room stays in it
THEOREM HostCorrect == Spec => []HostStays
<1>1. KnowInv => HostStays
  BY DEF KnowInv, HostUntouched, HostStays
<1> QED
  BY <1>1, KnowInit, KnowStep, PTL DEF Spec

\* A step that changes a banned participant nobody overlapped is a kick
THEOREM BanCorrect == Spec => BanHolds
<1> DEFINE Held == \A u \in Users :
        status[u] = "BANNED" /\ u \notin overlapped => status'[u] \in {"BANNED", "KICKED"}
<1>1. KnowInv /\ [Next]_vars => [Held]_vars
  <2> SUFFICES ASSUME KnowInv, Next, NEW u \in Users, status[u] = "BANNED", u \notin overlapped
               PROVE  status'[u] \in {"BANNED", "KICKED"}
    OBVIOUS
  <2>0. status \in [Users -> Statuses]
    BY DEF KnowInv, TypeOK
  <2>1. CASE CreateRoom \/ HostRefused \/ CreationFails \/ SetRoomStatus \/ RemoveRoom
    BY <2>1 DEF CreateRoom, HostRefused, CreationFails, SetRoomStatus, RemoveRoom
  <2>2. CASE InsertHost
    BY <2>0, <2>2 DEF InsertHost
  <2>3. ASSUME NEW c \in Clients, MovesOn(c) PROVE status'[u] = status[u]
    BY <2>3
    DEF MovesOn, Send, SendMessage, FindRoom, EnsureAccessible, Return, DuplicateParticipant,
        IncrementParticipantCount, RequestFails, MessageStep, CacheHit, EnsureActive,
        CacheMember, Post
  <2>4. ASSUME NEW c \in Clients, ReadParticipant(c) PROVE status'[u] = status[u]
    BY <2>4 DEF ReadParticipant
  <2>5. ASSUME NEW c \in Clients, CreateParticipant(c) PROVE status'[u] = status[u]
    BY <2>0, <2>5 DEF CreateParticipant
  <2>6. ASSUME NEW c \in Clients, UpdateParticipant(c)
        PROVE  status'[u] \in {"BANNED", "KICKED"}
    <3>1. req[c].step = "write" /\ req[c].seen # "none"
      BY <2>6 DEF UpdateParticipant, Goto
    <3>2. status' = [status EXCEPT ![About(c)] = Outcome(c)]
      BY <2>6 DEF UpdateParticipant
    <3>3. CASE About(c) # u
      BY <2>0, <3>2, <3>3
    <3>4. CASE About(c) = u
      <4>1. req[c].seen = "BANNED"
        BY <3>1, <3>4 DEF KnowInv, FreshReads, Overwrites
      <4>2. req[c].op \in Moderation
        BY <3>1, <4>1 DEF KnowInv, WriteSound
      <4>3. Outcome(c) \in {"KICKED", "BANNED"}
        BY <4>2 DEF Outcome, Moderation
      <4> QED
        BY <2>0, <3>2, <3>4, <4>3
    <3> QED
      BY <3>3, <3>4
  <2>7. ASSUME NEW v \in Users, ExpireKey(v) PROVE status'[u] = status[u]
    BY <2>7 DEF ExpireKey
  <2> QED
    BY <2>1, <2>2, <2>3, <2>4, <2>5, <2>6, <2>7 DEF Next, Step, MovesOn
<1> QED
  BY <1>1, KnowInit, KnowStep, PTL DEF Spec, BanHolds

-----------------------------------------------------------------------------
(* The count                                                               *)

LEMMA CountingFinite ==
    ASSUME NEW u, NEW k
    PROVE  IsFiniteSet(Counting(u, k)) /\ Cardinality(Counting(u, k)) \in Nat
<1>1. Counting(u, k) \in SUBSET Clients
  BY DEF Counting
<1>2. IsFiniteSet(Counting(u, k))
  BY <1>1, FS_Subset, ConstantsAssumption
<1> QED
  BY <1>2, FS_CardinalityType

\* A client that starts or stops counting changes the cardinality by one
LEMMA StartsCounting ==
    ASSUME NEW u, NEW k, NEW c, c \notin Counting(u, k),
           Counting(u, k)' = Counting(u, k) \cup {c}
    PROVE  Cardinality(Counting(u, k))' = Cardinality(Counting(u, k)) + 1
<1>1. Cardinality(Counting(u, k) \cup {c}) = Cardinality(Counting(u, k)) + 1
  BY CountingFinite, FS_AddElement
<1> QED
  BY <1>1

LEMMA StopsCounting ==
    ASSUME NEW u, NEW k, NEW c, c \in Counting(u, k),
           Counting(u, k)' = Counting(u, k) \ {c}
    PROVE  Cardinality(Counting(u, k))' = Cardinality(Counting(u, k)) - 1
<1>1. Cardinality(Counting(u, k) \ {c}) = Cardinality(Counting(u, k)) - 1
  BY CountingFinite, FS_RemoveElement
<1> QED
  BY <1>1

\* Requests that do not move count as before
LEMMA OthersCount ==
    ASSUME NEW c \in Clients, \A d \in Clients : d # c => req'[d] = req[d], NEW u, NEW k
    PROVE  \A d \in Clients : d # c => (d \in Counting(u, k)' <=> d \in Counting(u, k))
<1>1. \A d \in Clients : d # c => (Delta(d)' = Delta(d))
  BY DeltaFrame
<1> QED
  BY <1>1 DEF Counting, About

\* Nobody's contribution to the count is disturbed
LEMMA Steady ==
    ASSUME CountExact,
           UNCHANGED counted, overlapped \subseteq overlapped', failed \subseteq failed',
           NEW v \in Users,
           \A u \in Users : u # v => (IsCounted(u)' <=> IsCounted(u)),
           Undisturbed(v)' => (IsCounted(v)' <=> IsCounted(v)),
           \A u \in Users, k \in {1, -1} : Counting(u, k)' = Counting(u, k)
    PROVE  CountExact'
<1> SUFFICES ASSUME NEW u \in Users, Undisturbed(u)'
             PROVE  Settled(u)' = IF IsCounted(u)' THEN 1 ELSE 0
  BY DEF CountExact
<1>1. Undisturbed(u) /\ (IsCounted(u)' <=> IsCounted(u))
  BY DEF Undisturbed
<1>2. Counting(u, 1)' = Counting(u, 1) /\ Counting(u, -1)' = Counting(u, -1)
  OBVIOUS
<1>3. Settled(u)' = Settled(u)
  BY <1>2 DEF Settled
<1> QED
  BY <1>1, <1>3 DEF CountExact

\* A request about v writes the participant and starts counting if it has to
LEMMA WritesCounted ==
    ASSUME CountExact, TypeOK, NEW c \in Clients, NEW v \in Users, NEW k \in {-1, 0, 1},
           UNCHANGED <<counted, overlapped, failed>>,
           \A d \in Clients : d # c => req'[d] = req[d],
           req[c].step = "write", About(c) = v,
           k = 0 => req'[c].step = "idle",
           k # 0 => req'[c].step = "count" /\ About(c)' = v /\ Delta(c)' = k,
           \A u \in Users : u # v => (IsCounted(u)' <=> IsCounted(u)),
           Undisturbed(v) =>
               \/ IsCounted(v) /\ k = -1 /\ ~IsCounted(v)'
               \/ ~IsCounted(v) /\ k = 1 /\ IsCounted(v)'
               \/ k = 0 /\ (IsCounted(v)' <=> IsCounted(v))
    PROVE  CountExact'
<1> SUFFICES ASSUME NEW u \in Users, Undisturbed(u)
             PROVE  Settled(u)' = IF IsCounted(u)' THEN 1 ELSE 0
  BY DEF CountExact, Undisturbed
<1>0. /\ Cardinality(Counting(u, 1)) \in Nat /\ Cardinality(Counting(u, -1)) \in Nat
      /\ counted[u] \in Int
      /\ Settled(u) = IF IsCounted(u) THEN 1 ELSE 0
  BY CountingFinite DEF TypeOK, CountExact
<1>1. \A j : \A d \in Clients : d # c => (d \in Counting(u, j)' <=> d \in Counting(u, j))
  BY OthersCount
<1>2. \A j : c \notin Counting(u, j)
  BY DEF Counting
<1>3. ASSUME NEW j \in {1, -1}, u # v \/ j # k PROVE Counting(u, j)' = Counting(u, j)
  <2>1. c \notin Counting(u, j)'
    <3>1. CASE k = 0
      BY <3>1 DEF Counting
    <3>2. CASE k # 0
      BY <1>3, <3>2 DEF Counting
    <3> QED
      BY <3>1, <3>2
  <2>2. Counting(u, j) \subseteq Clients /\ Counting(u, j)' \subseteq Clients
    BY DEF Counting
  <2> QED
    BY <1>1, <1>2, <2>1, <2>2
<1>4. ASSUME NEW j \in {1, -1}, u = v, j = k
      PROVE  Cardinality(Counting(u, j))' = Cardinality(Counting(u, j)) + 1
  <2>1. c \in Counting(u, j)'
    BY <1>4 DEF Counting
  <2>2. Counting(u, j) \subseteq Clients /\ Counting(u, j)' \subseteq Clients
    BY DEF Counting
  <2>3. Counting(u, j)' = Counting(u, j) \cup {c}
    BY <1>1, <2>1, <2>2
  <2> QED
    BY <1>2, <2>3, StartsCounting
<1>5. CASE u # v
  <2>1. Counting(u, 1)' = Counting(u, 1) /\ Counting(u, -1)' = Counting(u, -1)
    BY <1>3, <1>5
  <2> QED
    BY <1>0, <1>5, <2>1 DEF Settled
<1>6. CASE u = v
  <2>1. CASE k = 0
    <3>1. Counting(u, 1)' = Counting(u, 1) /\ Counting(u, -1)' = Counting(u, -1)
      BY <1>3, <2>1
    <3> QED
      BY <1>0, <1>6, <2>1, <3>1 DEF Settled
  <2>2. CASE k = 1
    <3>1. Counting(u, -1)' = Counting(u, -1)
      BY <1>3, <2>2
    <3>2. Cardinality(Counting(u, 1))' = Cardinality(Counting(u, 1)) + 1
      BY <1>4, <1>6, <2>2
    <3> QED
      BY <1>0, <1>6, <2>2, <3>1, <3>2 DEF Settled
  <2>3. CASE k = -1
    <3>1. Counting(u, 1)' = Counting(u, 1)
      BY <1>3, <2>3
    <3>2. Cardinality(Counting(u, -1))' = Cardinality(Counting(u, -1)) + 1
      BY <1>4, <1>6, <2>3
    <3> QED
      BY <1>0, <1>6, <2>3, <3>1, <3>2 DEF Settled
  <2> QED
    BY <2>1, <2>2, <2>3
<1> QED
  BY <1>5, <1>6

\* What a request moves the count by, it no longer owes
LEMMA CountIncrement ==
    ASSUME CountInv, NEW c \in Clients, IncrementParticipantCount(c)
    PROVE  CountExact'
<1> DEFINE v == About(c)
           k == Delta(c)
<1>0. /\ TypeOK /\ CountExact /\ WriteSound
      /\ Goto(c, "count", "idle") /\ "idle" \in Steps
      /\ req[c].step = "count"
      /\ counted' = [counted EXCEPT ![v] = counted[v] + k]
      /\ UNCHANGED <<creation, status, overlapped, failed>>
  BY DEF CountInv, KnowInv, IncrementParticipantCount, Goto, Steps, roomVars, history
<1>1. /\ \A d \in Clients : d # c => req'[d] = req[d]
      /\ req'[c].step = "idle"
  BY <1>0, GotoFrame DEF Idle
<1>2. k \in {1, -1}
  BY <1>0 DEF WriteSound
<1>3. counted \in [Users -> Int] /\ v \in Users
  BY <1>0 DEF TypeOK, Request, About
<1> SUFFICES ASSUME NEW u \in Users, Undisturbed(u)
             PROVE  Settled(u)' = IF IsCounted(u)' THEN 1 ELSE 0
  BY <1>0 DEF CountExact, Undisturbed
<1>4. /\ Cardinality(Counting(u, 1)) \in Nat /\ Cardinality(Counting(u, -1)) \in Nat
      /\ counted[u] \in Int
      /\ Settled(u) = IF IsCounted(u) THEN 1 ELSE 0
  BY <1>0, CountingFinite DEF TypeOK, CountExact
<1>5. IsCounted(u)' <=> IsCounted(u)
  BY <1>0 DEF IsCounted
<1>6. \A j : \A d \in Clients : d # c => (d \in Counting(u, j)' <=> d \in Counting(u, j))
  BY <1>1, OthersCount
<1>7. \A j : /\ c \notin Counting(u, j)'
             /\ Counting(u, j) \subseteq Clients /\ Counting(u, j)' \subseteq Clients
             /\ c \in Counting(u, j) <=> u = v /\ j = k
  BY <1>0, <1>1 DEF Counting
<1>8. ASSUME NEW j \in {1, -1}, u # v \/ j # k PROVE Counting(u, j)' = Counting(u, j)
  BY <1>6, <1>7, <1>8
<1>9. ASSUME u = v
      PROVE  \A j : j = k => (Cardinality(Counting(u, j))' = Cardinality(Counting(u, j)) - 1)
  <2>1. \A j : j = k => c \in Counting(u, j)
    BY <1>7, <1>9
  <2>2. \A j : j = k => (Counting(u, j)' = Counting(u, j) \ {c})
    BY <1>6, <1>7, <2>1
  <2>3. \A j : j = k => (Cardinality(Counting(u, j))' = Cardinality(Counting(u, j)) - 1)
    BY <2>1, <2>2, StopsCounting
  <2> HIDE DEF k
  <2> QED
    BY <2>3
<1> HIDE DEF k, v
<1>10. CASE u # v
  <2>1. Counting(u, 1)' = Counting(u, 1) /\ Counting(u, -1)' = Counting(u, -1)
    BY <1>8, <1>10
  <2>2. counted'[u] = counted[u]
    BY <1>0, <1>3, <1>10
  <2> QED
    BY <1>4, <1>5, <2>1, <2>2 DEF Settled
<1>11. CASE u = v /\ k = 1
  <2>1. Counting(u, -1)' = Counting(u, -1)
    BY <1>8, <1>11
  <2>2. counted'[u] = counted[u] + 1
    BY <1>0, <1>3, <1>11
  <2>3. Cardinality(Counting(u, 1))' = Cardinality(Counting(u, 1)) - 1
    BY <1>9, <1>11
  <2> QED
    BY <1>4, <1>5, <2>1, <2>2, <2>3 DEF Settled
<1>12. CASE u = v /\ k = -1
  <2>1. Counting(u, 1)' = Counting(u, 1)
    BY <1>8, <1>12
  <2>2. counted'[u] = counted[u] - 1
    BY <1>0, <1>3, <1>12
  <2>3. Cardinality(Counting(u, -1))' = Cardinality(Counting(u, -1)) - 1
    BY <1>9, <1>12
  <2> QED
    BY <1>4, <1>5, <2>1, <2>2, <2>3 DEF Settled
<1> QED
  BY <1>2, <1>10, <1>11, <1>12

\* A request dies before it has counted: its user is no longer accounted for
LEMMA CountFails ==
    ASSUME CountInv, NEW c \in Clients, RequestFails(c)
    PROVE  CountExact'
<1> DEFINE v == About(c)
<1>0. /\ TypeOK /\ CountExact
      /\ Goto(c, "count", "idle") /\ "idle" \in Steps
      /\ failed' = failed \cup {v}
      /\ UNCHANGED <<creation, status, counted, overlapped>>
  BY DEF CountInv, KnowInv, RequestFails, Steps, roomVars
<1>1. /\ \A d \in Clients : d # c => req'[d] = req[d]
      /\ req'[c].step = "idle"
  BY <1>0, GotoFrame DEF Idle
<1> SUFFICES ASSUME NEW u \in Users, Undisturbed(u)'
             PROVE  Settled(u)' = IF IsCounted(u)' THEN 1 ELSE 0
  BY DEF CountExact
<1>2. u # v /\ Undisturbed(u)
  BY <1>0 DEF Undisturbed
<1>3. \A j : \A d \in Clients : d # c => (d \in Counting(u, j)' <=> d \in Counting(u, j))
  BY <1>1, OthersCount
<1>4. \A j : /\ c \notin Counting(u, j)' /\ c \notin Counting(u, j)
             /\ Counting(u, j) \subseteq Clients /\ Counting(u, j)' \subseteq Clients
  BY <1>1, <1>2 DEF Counting
<1>5. \A j : Counting(u, j)' = Counting(u, j)
  BY <1>3, <1>4
<1>6. Settled(u)' = Settled(u) /\ (IsCounted(u)' <=> IsCounted(u))
  BY <1>0, <1>5 DEF Settled, IsCounted
<1> QED
  BY <1>0, <1>2, <1>6 DEF CountExact

\* If requests and counts stay, so does Counting
LEMMA SameRequests ==
    ASSUME UNCHANGED req
    PROVE  \A u \in Users, k \in {1, -1} : Counting(u, k)' = Counting(u, k)
<1>1. \A d \in Clients : Delta(d)' = Delta(d)
  BY DeltaFrame
<1> QED
  BY <1>1 DEF Counting, About

\* A client that counts neither before nor after its step
LEMMA NotCounting ==
    ASSUME NEW c \in Clients, \A d \in Clients : d # c => req'[d] = req[d],
           req[c].step # "count", req'[c].step # "count"
    PROVE  \A u \in Users, k \in {1, -1} : Counting(u, k)' = Counting(u, k)
<1> SUFFICES ASSUME NEW u \in Users, NEW k \in {1, -1}
             PROVE  Counting(u, k)' = Counting(u, k)
  OBVIOUS
<1>1. \A d \in Clients : d # c => (d \in Counting(u, k)' <=> d \in Counting(u, k))
  BY OthersCount
<1>2. /\ c \notin Counting(u, k)' /\ c \notin Counting(u, k)
      /\ Counting(u, k) \subseteq Clients /\ Counting(u, k)' \subseteq Clients
  BY DEF Counting
<1> QED
  BY <1>1, <1>2

\* The room is stored with a count of one, the host's to be
LEMMA CountCreate == ASSUME CountInv, CreateRoom PROVE CountExact'
<1>0. /\ \A c \in Clients : req[c].step # "count"
      /\ counted \in [Users -> Int] /\ Host \in Users
      /\ \A u \in Users : status[u] = "none"
  BY ConstantsAssumption DEF CountInv, KnowInv, TypeOK, RoomExists, CreateRoom
<1>1. \A u, k : Counting(u, k) = {} /\ Counting(u, k)' = {}
  BY <1>0 DEF Counting, CreateRoom
<1>2. \A u \in Users : Settled(u) = counted[u] /\ Settled(u)' = counted'[u]
  <2>1. Cardinality({}) = 0
    BY FS_EmptySet
  <2>2. counted' \in [Users -> Int]
    BY <1>0 DEF CreateRoom
  <2>3. \A u, k : Cardinality(Counting(u, k)) = 0 /\ Cardinality(Counting(u, k))' = 0
    BY <1>1, <2>1
  <2>4. \A u \in Users : Settled(u) = counted[u] + 0 - 0 /\ Settled(u)' = counted'[u] + 0 - 0
    BY <2>3 DEF Settled
  <2> QED
    BY <1>0, <2>2, <2>4
<1>3. \A u \in Users : IsCounted(u)' <=> u = Host
  BY <1>0 DEF IsCounted, CreateRoom
<1>4. \A u \in Users : ~IsCounted(u)
  BY <1>0 DEF IsCounted, CountInv, KnowInv, RoomExists, CreateRoom
<1>5. \A u \in Users : counted'[u] = IF u = Host THEN 1 ELSE counted[u]
  BY <1>0 DEF CreateRoom
<1> QED
  BY <1>2, <1>3, <1>4, <1>5 DEF CountInv, CountExact, Undisturbed, CreateRoom, history

LEMMA CountRead ==
    ASSUME CountInv, NEW c \in Clients, ReadParticipant(c) PROVE CountExact'
<1>1. /\ TypeOK /\ CountExact
      /\ UNCHANGED <<counted, failed, creation, status>> /\ overlapped \subseteq overlapped'
      /\ req[c].step = "look"
  BY DEF CountInv, KnowInv, ReadParticipant, roomVars
<1>2. /\ \A d \in Clients : d # c => req'[d] = req[d]
      /\ req'[c].step = "write"
  BY <1>1, ReadFrame
<1>3. \A u \in Users, k \in {1, -1} : Counting(u, k)' = Counting(u, k)
  BY <1>1, <1>2, NotCounting
<1>4. \A u \in Users : IsCounted(u)' <=> IsCounted(u)
  BY <1>1 DEF IsCounted
<1> QED
  BY <1>1, <1>3, <1>4, Steady, ConstantsAssumption

\* Moving on, except for counting and for failing to
LEMMA CountMoveOn ==
    ASSUME CountInv, TypeOK', NEW c \in Clients, MovesOn(c),
           ~IncrementParticipantCount(c), ~RequestFails(c)
    PROVE  CountExact'
<1>1. /\ KnowInv /\ CountExact
      /\ UNCHANGED <<counted, failed, creation, status, overlapped>>
  BY DEF CountInv, MovesOn, Send, SendMessage, FindRoom, EnsureAccessible, Return,
         DuplicateParticipant, MessageStep, CacheHit, EnsureActive, CacheMember, Post,
         roomVars, history
<1>2. req[c].step # "count"
  BY DEF MovesOn, Send, SendMessage, FindRoom, EnsureAccessible, Return,
         DuplicateParticipant, MessageStep, CacheHit, EnsureActive, CacheMember, Post,
         Goto, Idle
<1>3. \A u \in Users, k \in {1, -1} : Counting(u, k)' = Counting(u, k)
  BY <1>1, <1>2, KnowMoveOn, NotCounting
<1>4. \A u \in Users : IsCounted(u)' <=> IsCounted(u)
  BY <1>1 DEF IsCounted
<1> QED
  BY <1>1, <1>3, <1>4, Steady, ConstantsAssumption

\* The steps of the room: the host's document is counted already, and when
\* create fails the host is no longer accounted for
LEMMA CountRoom ==
    ASSUME CountInv,
           \/ InsertHost \/ HostRefused \/ CreationFails \/ SetRoomStatus \/ RemoveRoom
           \/ (\E u \in Users : ExpireKey(u)) \/ UNCHANGED vars
    PROVE  CountExact'
<1> USE DEF InsertHost, HostRefused, CreationFails, SetRoomStatus, RemoveRoom, ExpireKey,
            vars, roomVars, history
<1>1. /\ CountExact /\ UNCHANGED <<req, counted>>
      /\ overlapped \subseteq overlapped' /\ failed \subseteq failed'
  BY DEF CountInv
<1>2. \A u \in Users, k \in {1, -1} : Counting(u, k)' = Counting(u, k)
  BY <1>1, SameRequests
<1>3. \A u \in Users : u # Host => (IsCounted(u)' <=> IsCounted(u))
  BY DEF IsCounted, CountInv, KnowInv, TypeOK
<1>4. Undisturbed(Host)' => (IsCounted(Host)' <=> IsCounted(Host))
  <2>1. CASE InsertHost
    BY <2>1, ConstantsAssumption DEF IsCounted, CountInv, KnowInv, TypeOK
  <2>2. CASE HostRefused
    BY <2>2 DEF CountInv, KnowInv, HostUntouched, Undisturbed
  <2>3. CASE CreationFails
    BY <2>3 DEF Undisturbed
  <2>4. CASE SetRoomStatus \/ RemoveRoom \/ (\E u \in Users : ExpireKey(u)) \/ UNCHANGED vars
    BY <2>4 DEF IsCounted
  <2> QED
    BY <2>1, <2>2, <2>3, <2>4
<1> QED
  BY <1>1, <1>2, <1>3, <1>4, Steady, ConstantsAssumption

\* A new document is one more active participant; a rewritten one changes by
\* what the request then moves the count
LEMMA CountWrite ==
    ASSUME CountInv, TypeOK', NEW c \in Clients,
           CreateParticipant(c) \/ UpdateParticipant(c)
    PROVE  CountExact'
<1>v. PICK v \in Users : v = About(c)
  BY DEF CountInv, KnowInv, TypeOK, Request, About
<1>0. /\ TypeOK /\ KnowInv /\ CountExact
      /\ status \in [Users -> Statuses]
      /\ UNCHANGED <<counted, overlapped, failed, creation>>
  BY DEF CountInv, KnowInv, TypeOK, CreateParticipant, UpdateParticipant, roomVars, history
<1>1. req[c].step = "write"
  BY DEF CreateParticipant, UpdateParticipant, Goto
<1>2. Undisturbed(v) => ~(v = Host /\ creation = "pending")
  BY <1>v, <1>0, <1>1 DEF KnowInv, HostUntouched, Undisturbed
<1>3. CASE CreateParticipant(c)
  <2>1. Goto(c, "write", "count") /\ "count" \in Steps /\ status[v] = "none"
        /\ status' = [status EXCEPT ![v] = "ACTIVE"]
    BY <1>v, <1>3 DEF CreateParticipant, Steps
  <2>2. /\ \A d \in Clients : d # c => req'[d] = req[d]
        /\ req'[c].step = "count" /\ About(c)' = v
    BY <1>v, <1>0, <2>1, GotoFrame DEF About
  <2>3. Delta(c)' = 1
    BY <1>0, <1>3, KnowCreateParticipant
  <2>4. /\ \A u \in Users : u # v => (IsCounted(u)' <=> IsCounted(u))
        /\ Undisturbed(v) => ~IsCounted(v) /\ IsCounted(v)'
    BY <1>0, <1>2, <2>1 DEF IsCounted
  <2> QED
    BY <1>v, <1>0, <1>1, <2>2, <2>3, <2>4, WritesCounted
<1>4. CASE UpdateParticipant(c)
  <2> DEFINE to == IF Delta(c) = 0 THEN "idle" ELSE "count"
  <2>1. Goto(c, "write", to) /\ to \in Steps /\ req[c].seen # "none"
        /\ status' = [status EXCEPT ![v] = Outcome(c)]
    BY <1>v, <1>4 DEF UpdateParticipant, Steps
  <2>2. /\ \A d \in Clients : d # c => req'[d] = req[d]
        /\ req'[c].step = to
        /\ to # "idle" => About(c)' = v /\ req'[c].op = req[c].op /\ req'[c].seen = req[c].seen
    BY <1>v, <1>0, <2>1, GotoFrame DEF About, Idle
  <2>3. to # "idle" => Delta(c)' = Delta(c)
    BY <2>2, DeltaFrame
  <2>4. Undisturbed(v) => req[c].seen = status[v]
    BY <1>v, <1>0, <1>1, <2>1 DEF KnowInv, FreshReads, Overwrites, Undisturbed
  <2>5. \/ req[c].op = "join" /\ req[c].seen # "ACTIVE" /\ Delta(c) = 1 /\ Outcome(c) = "ACTIVE"
        \/ req[c].seen = "ACTIVE" /\ Delta(c) = -1 /\ Outcome(c) # "ACTIVE"
        \/ req[c].seen # "ACTIVE" /\ Delta(c) = 0 /\ Outcome(c) # "ACTIVE"
    BY <1>0, <1>1 DEF KnowInv, WriteSound, Delta, Outcome, Moderation
  <2>6. \A u \in Users : u # v => (IsCounted(u)' <=> IsCounted(u))
    BY <1>0, <2>1 DEF IsCounted
  <2>7. Undisturbed(v) =>
          \/ IsCounted(v) /\ Delta(c) = -1 /\ ~IsCounted(v)'
          \/ ~IsCounted(v) /\ Delta(c) = 1 /\ IsCounted(v)'
          \/ Delta(c) = 0 /\ (IsCounted(v)' <=> IsCounted(v))
    BY <1>0, <1>2, <2>1, <2>4, <2>5 DEF IsCounted
  <2>8. PICK k \in {-1, 0, 1} : k = Delta(c)
    BY Values
  <2>9. /\ k = 0 => req'[c].step = "idle"
        /\ k # 0 => req'[c].step = "count" /\ About(c)' = v /\ Delta(c)' = k
    BY <2>2, <2>3, <2>8
  <2>10. Undisturbed(v) =>
           \/ IsCounted(v) /\ k = -1 /\ ~IsCounted(v)'
           \/ ~IsCounted(v) /\ k = 1 /\ IsCounted(v)'
           \/ k = 0 /\ (IsCounted(v)' <=> IsCounted(v))
    BY <2>7, <2>8
  <2> QED
    BY <1>v, <1>0, <1>1, <2>2, <2>6, <2>9, <2>10, WritesCounted
<1> QED
  BY <1>3, <1>4

THEOREM CountStep == CountInv /\ [Next]_vars => CountInv'
<1> SUFFICES ASSUME CountInv, [Next]_vars PROVE CountInv'
  OBVIOUS
<1>0. KnowInv' /\ TypeOK'
  BY KnowStep DEF CountInv, KnowInv
<1>1. ASSUME CreateRoom PROVE CountExact'
  BY <1>1, CountCreate
<1>2. ASSUME \/ InsertHost \/ HostRefused \/ CreationFails \/ SetRoomStatus \/ RemoveRoom
             \/ (\E u \in Users : ExpireKey(u)) \/ UNCHANGED vars
      PROVE  CountExact'
  BY <1>2, CountRoom
<1>3. ASSUME NEW c \in Clients, MovesOn(c) PROVE CountExact'
  BY <1>0, <1>3, CountIncrement, CountFails, CountMoveOn
<1>4. ASSUME NEW c \in Clients, ReadParticipant(c) PROVE CountExact'
  BY <1>4, CountRead
<1>5. ASSUME NEW c \in Clients, CreateParticipant(c) \/ UpdateParticipant(c) PROVE CountExact'
  BY <1>0, <1>5, CountWrite
<1>6. CountExact'
  <2>1. CASE UNCHANGED vars
    BY <1>2, <2>1
  <2>2. CASE Next
    BY <1>1, <1>2, <1>3, <1>4, <1>5, <2>2 DEF Next, Step, MovesOn
  <2> QED
    BY <2>1, <2>2
<1> QED
  BY <1>0, <1>6 DEF CountInv

\* participantCount comes to the number of active participants
THEOREM CountCorrect == Spec => []CountExact
<1>1. Init => CountInv
  <2> SUFFICES ASSUME Init PROVE CountExact
    BY KnowInit DEF CountInv
  <2>1. \A u, k : Counting(u, k) = {}
    BY DEF Init, Counting, Idle
  <2>2. \A u \in Users : Settled(u) = 0 /\ ~IsCounted(u)
    <3>1. Cardinality({}) = 0
      BY FS_EmptySet
    <3>2. \A u, k : Cardinality(Counting(u, k)) = 0
      BY <2>1, <3>1
    <3>3. \A u \in Users : Settled(u) = 0 + 0 - 0
      BY <3>2 DEF Settled, Init
    <3> QED
      BY <3>3 DEF IsCounted, Init
  <2> QED
    BY <2>2 DEF CountExact
<1>2. CountInv => CountExact
  BY DEF CountInv
<1> QED
  BY <1>1, <1>2, CountStep, PTL DEF Spec

-----------------------------------------------------------------------------
(* Messages                                                                *)

\* A client that is not posting about u does not come to post about u by a
\* step after which u is still no participant
THEOREM SilenceCorrect == Spec => SilencedStays
<1> DEFINE Kept == \A u \in Users : Silent(u) /\ status'[u] # "ACTIVE" => Silent(u)'
<1>1. TypeOK /\ [Next]_vars => [Kept]_vars
  <2> SUFFICES ASSUME TypeOK, Next, NEW u \in Users, Silent(u), status'[u] # "ACTIVE"
               PROVE  Silent(u)'
    OBVIOUS
  <2> DEFINE Posting(d) == About(d) = u /\ req[d].step \in {"cache", "post"}
  <2>0. /\ status[u] # "ACTIVE" /\ u \notin cached
        /\ \A d \in Clients : ~Posting(d)
    BY DEF Silent
  <2>1. ASSUME NEW c \in Clients, \A d \in Clients : d # c => req'[d] = req[d],
               ~Posting(c)', u \notin cached'
        PROVE  Silent(u)'
    BY <2>0, <2>1 DEF Silent, About
  <2>2. ASSUME UNCHANGED req, cached' \subseteq cached PROVE Silent(u)'
    BY <2>0, <2>2 DEF Silent, About
  <2>3. CASE CreateRoom \/ InsertHost \/ HostRefused \/ CreationFails \/ SetRoomStatus
             \/ RemoveRoom \/ (\E v \in Users : ExpireKey(v))
    BY <2>2, <2>3
    DEF CreateRoom, InsertHost, HostRefused, CreationFails, SetRoomStatus, RemoveRoom, ExpireKey
  <2>4. ASSUME NEW c \in Clients, NEW o \in OwnOps \cup Moderation, NEW v \in Users,
               Send(c, o, v)
        PROVE  Silent(u)'
    <3>1. /\ \A d \in Clients : d # c => req'[d] = req[d]
          /\ req'[c].step = "room" /\ cached' = cached
      BY <2>4 DEF Send, TypeOK
    <3> QED
      BY <2>0, <2>1, <3>1
  <2>5. ASSUME NEW c \in Clients, SendMessage(c) PROVE Silent(u)'
    <3>1. req' = [req EXCEPT ![c] = [Idle EXCEPT !.step = "check", !.about = UserOf[c]]]
      BY <2>5 DEF SendMessage
    <3>2. /\ \A d \in Clients : d # c => req'[d] = req[d]
          /\ req'[c].step = "check" /\ cached' = cached
      BY <2>5, <3>1 DEF SendMessage, TypeOK, Idle
    <3> QED
      BY <2>0, <2>1, <3>2
  <2>6. ASSUME NEW c \in Clients, Step(c) PROVE Silent(u)'
    <3>1. cached' = cached
      BY <2>6
      DEF Step, FindRoom, EnsureAccessible, ReadParticipant, Return, CreateParticipant,
          DuplicateParticipant, UpdateParticipant, IncrementParticipantCount, RequestFails
    <3>2. /\ \A d \in Clients : d # c => req'[d] = req[d]
          /\ req'[c].step \in {"idle", "access", "look", "write", "count"}
      <4>1. CASE FindRoom(c)
        BY <4>1, GotoFrame DEF FindRoom, Steps
      <4>2. CASE EnsureAccessible(c)
        BY <4>2, GotoFrame DEF EnsureAccessible, Steps
      <4>3. CASE ReadParticipant(c)
        BY <4>3, ReadFrame
      <4>4. CASE Return(c)
        BY <4>4 DEF Return, Idle, TypeOK
      <4>5. CASE CreateParticipant(c)
        BY <4>5, GotoFrame DEF CreateParticipant, Steps
      <4>6. CASE DuplicateParticipant(c)
        BY <4>6, GotoFrame DEF DuplicateParticipant, Steps, Idle
      <4>7. CASE UpdateParticipant(c)
        BY <4>7, GotoFrame DEF UpdateParticipant, Steps, Idle
      <4>8. CASE IncrementParticipantCount(c)
        BY <4>8, GotoFrame DEF IncrementParticipantCount, Steps, Idle
      <4>9. CASE RequestFails(c)
        BY <4>9, GotoFrame DEF RequestFails, Steps, Idle
      <4> QED
        BY <2>6, <4>1, <4>2, <4>3, <4>4, <4>5, <4>6, <4>7, <4>8, <4>9 DEF Step
    <3> QED
      BY <2>0, <2>1, <3>1, <3>2
  <2>7. ASSUME NEW c \in Clients, MessageStep(c) PROVE Silent(u)'
    <3>1. /\ \A d \in Clients : d # c => req'[d] = req[d]
          /\ req'[c].step = "idle" \/ About(c)' = About(c)
      BY <2>7, GotoFrame DEF MessageStep, CacheHit, EnsureActive, CacheMember, Post, Steps, About, Idle
    <3>2. CASE About(c) # u
      <4>1. ~Posting(c)'
        BY <3>1, <3>2
      <4>2. u \notin cached'
        BY <2>0, <2>7, <3>2 DEF MessageStep, CacheHit, EnsureActive, CacheMember, Post
      <4> QED
        BY <2>1, <3>1, <4>1, <4>2
    <3>3. CASE About(c) = u
      <4>1. req[c].step \notin {"cache", "post"}
        BY <2>0, <3>3
      <4>2. EnsureActive(c)
        BY <2>0, <2>7, <3>3, <4>1 DEF MessageStep, CacheHit, CacheMember, Post, Goto
      <4>3. Goto(c, "check", "idle") /\ cached' = cached
        BY <2>0, <3>3, <4>2 DEF EnsureActive
      <4>4. req'[c].step = "idle"
        BY <4>3, GotoFrame DEF Steps, Idle
      <4> QED
        BY <2>0, <2>1, <3>1, <4>3, <4>4
    <3> QED
      BY <3>2, <3>3
  <2> QED
    BY <2>3, <2>4, <2>5, <2>6, <2>7 DEF Next
<1> QED
  BY <1>1, TypeCorrect, PTL DEF Spec, SilencedStays

==============================================================================
