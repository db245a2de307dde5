--------------------------- MODULE ListeningProofs ---------------------------
(***************************************************************************)
(* Listening for every number of songs, playlists, advertisements, devices *)
(* and requests, and every length of the history: types, that the session  *)
(* is what was started last, and that no song is lost.                     *)
(***************************************************************************)
EXTENDS Listening, NaturalsInduction, WellFoundedInduction, TLAPS

-----------------------------------------------------------------------------
(* The session is what was started last                                    *)

\* The requests and what they may hold
RequestsOK ==
    /\ live \subseteq Songs
    /\ req \in [Clients -> Request]
    /\ left \in [Clients -> Nat]
    /\ session \in Ids \cup {None}

\* Nothing that waits holds another session than the one that was started last
HoldsLatest ==
    overtaken \/ (session = latest /\ \A c \in Waiting : req[c].id = latest)

LEMMA IdleRequest == Idle \in Request
  BY DEF Idle, Request, Steps

LEMMA RequestsInit == Init => RequestsOK /\ HoldsLatest
  BY IdleRequest, ConstantsAssumption DEF Init, RequestsOK, HoldsLatest, Waiting, Idle

LEMMA BeginId ==
    ASSUME RequestsOK, NEW c \in Clients, NEW n \in Nat, NEW s, NEW q,
           Begin(<<c, n>>, s, q)
    PROVE  session' \in Ids /\ session' = latest' /\ overtaken' = (Waiting # {})
  BY DEF Begin, Saved, Ids

LEMMA AnsweredOK ==
    ASSUME RequestsOK, NEW c \in Clients, Answered(c)
    PROVE  /\ req' \in [Clients -> Request]
           /\ Waiting' \subseteq Waiting
           /\ \A d \in Waiting' : req'[d] = req[d]
<1>1. \A d \in Clients : req'[d] = IF d = c THEN Idle ELSE req[d]
  BY DEF RequestsOK, Answered
<1>2. Idle.step = "idle"
  BY DEF Idle
<1> QED
  BY <1>1, <1>2, IdleRequest DEF RequestsOK, Answered, Waiting

LEMMA AskedOK ==
    ASSUME RequestsOK, NEW c \in Clients, Free(c), Asked(c)
    PROVE  left' \in [Clients -> Nat] /\ left[c] \in Nat
  BY DEF RequestsOK, Asked, Free

\* Every step keeps the requests what they may be
LEMMA RequestsStep == RequestsOK /\ [Next]_vars => RequestsOK'
<1> SUFFICES ASSUME RequestsOK, [Next]_vars PROVE RequestsOK'
  OBVIOUS
<1> USE DEF RequestsOK, library
<1>1. CASE UNCHANGED vars
  BY <1>1 DEF vars
<1>2. ASSUME NEW c \in Clients, StartSong(c) PROVE RequestsOK'
  <2>1. PICK s \in Songs : Begin(<<c, left[c]>>, s, <<>>)
    BY <1>2 DEF StartSong
  <2>2. left' \in [Clients -> Nat] /\ left[c] \in Nat
    BY <1>2, AskedOK DEF StartSong
  <2>3. session' \in Ids
    BY <2>1, <2>2, BeginId
  <2> QED
    BY <1>2, <2>2, <2>3 DEF StartSong
<1>3. ASSUME NEW c \in Clients, Start(c) PROVE RequestsOK'
  <2>1. left' \in [Clients -> Nat] /\ left[c] \in Nat
    BY <1>3, AskedOK DEF Start
  <2>2. PICK s \in Songs, p \in Playlists, step \in {"playlist", "album"}, both \in BOOLEAN :
          req' = [req EXCEPT ![c] = [Idle EXCEPT !.step = step, !.nr = left[c], !.song = s,
                                                 !.list = p, !.both = both]]
    BY <1>3 DEF Start
  <2>3. [Idle EXCEPT !.step = step, !.nr = left[c], !.song = s, !.list = p, !.both = both]
          \in Request
    BY <2>1, <2>2, IdleRequest DEF Request, Steps, Idle
  <2> QED
    BY <1>3, <2>1, <2>2, <2>3 DEF Start
<1>4. ASSUME NEW c \in Clients, FetchPlaylist(c) PROVE RequestsOK'
  <2>1. CASE Begin(<<c, req[c].nr>>, req[c].song, Without(playlists[req[c].list].songs, req[c].song))
             /\ Answered(c)
    <3>1. req[c].nr \in Nat
      BY DEF Request
    <3>2. session' \in Ids
      BY <2>1, <3>1, BeginId
    <3> QED
      BY <1>4, <2>1, <3>2, AnsweredOK DEF FetchPlaylist
  <2>2. CASE UNCHANGED session /\ Answered(c)
    BY <1>4, <2>2, AnsweredOK DEF FetchPlaylist
  <2>3. CASE UNCHANGED session /\ req' = [req EXCEPT ![c].step = "album"]
    <3>1. [req[c] EXCEPT !.step = "album"] \in Request
      BY DEF Request, Steps
    <3> QED
      BY <1>4, <2>3, <3>1 DEF FetchPlaylist
  <2> QED
    BY <1>4, <2>1, <2>2, <2>3 DEF FetchPlaylist
<1>5. ASSUME NEW c \in Clients, FetchAlbum(c) PROVE RequestsOK'
  <2>1. CASE Begin(<<c, req[c].nr>>, req[c].song, AlbumQueue(req[c].song))
    <3>1. req[c].nr \in Nat
      BY DEF Request
    <3>2. session' \in Ids
      BY <2>1, <3>1, BeginId
    <3> QED
      BY <1>5, <3>2, AnsweredOK DEF FetchAlbum
  <2>2. CASE UNCHANGED session
    BY <1>5, <2>2, AnsweredOK DEF FetchAlbum
  <2> QED
    BY <1>5, <2>1, <2>2 DEF FetchAlbum
<1>6. ASSUME NEW c \in Clients, Next_(c) PROVE RequestsOK'
  <2>1. left' \in [Clients -> Nat]
    BY <1>6, AskedOK DEF Next_
  <2>2. \A step \in {"ads", "random"} : [Idle EXCEPT !.id = session, !.step = step] \in Request
    BY <1>6, IdleRequest DEF Next_, Request, Steps
  <2>3. req' = req \/ \E step \in {"ads", "random"} :
                        req' = [req EXCEPT ![c] = [Idle EXCEPT !.id = session, !.step = step]]
    BY <1>6 DEF Next_
  <2> QED
    BY <1>6, <2>1, <2>2, <2>3 DEF Next_
<1>7. ASSUME NEW c \in Clients, Advertise(c) \/ NoAds(c) \/ RandomSong(c) PROVE RequestsOK'
  <2>1. [req[c] EXCEPT !.step = "random"] \in Request
    BY DEF Request, Steps
  <2>2. req' \in [Clients -> Request]
    BY <1>7, <2>1, AnsweredOK DEF Advertise, NoAds, RandomSong
  <2>3. req[c].id \in Ids \cup {None}
    BY DEF Request
  <2>4. session' = session \/ session' = req[c].id
    BY <1>7 DEF Advertise, NoAds, RandomSong
  <2> QED
    BY <1>7, <2>2, <2>3, <2>4 DEF Advertise, NoAds, RandomSong
<1>8. ASSUME NEW c \in Clients, Previous(c) \/ PlayFromQueue(c) PROVE RequestsOK'
  BY <1>8, AskedOK DEF Previous, PlayFromQueue
<1>9. ASSUME NEW c \in Clients, AskAdd(c) PROVE RequestsOK'
  <2>1. PICK p \in Playlists, s \in live :
          req' = [req EXCEPT ![c] = [Idle EXCEPT !.step = "add", !.song = s, !.list = p]]
    BY <1>9 DEF AskAdd
  <2>2. [Idle EXCEPT !.step = "add", !.song = s, !.list = p] \in Request
    BY IdleRequest DEF Request, Steps
  <2> QED
    BY <1>9, <2>1, <2>2, AskedOK DEF AskAdd
<1>10. ASSUME NEW c \in Clients, AddSong(c) PROVE RequestsOK'
  BY <1>10, AnsweredOK DEF AddSong
<1>11. CASE CreateList \/ RemoveSong \/ ReplaceList \/ DeleteList \/ ChangeAd \/ DeleteSong
  BY <1>11 DEF CreateList, RemoveSong, ReplaceList, DeleteList, ChangeAd, DeleteSong
<1>12. CASE Restart
  BY <1>12, IdleRequest DEF Restart
<1> QED
  BY <1>1, <1>2, <1>3, <1>4, <1>5, <1>6, <1>7, <1>8, <1>9, <1>10, <1>11, <1>12 DEF Next

\* Only a start makes a session the last one, and it sees who waits
LEMMA HoldsLatestStep == RequestsOK /\ HoldsLatest /\ [Next]_vars => HoldsLatest'
<1> SUFFICES ASSUME RequestsOK, HoldsLatest, [Next]_vars PROVE HoldsLatest'
  OBVIOUS
<1>0. \A d \in Waiting : d \in Clients
  BY DEF Waiting
<1>1. CASE UNCHANGED <<req, session, latest, overtaken>>
  <2>1. Waiting' = Waiting
    BY <1>1 DEF Waiting
  <2> QED
    BY <1>1, <2>1 DEF HoldsLatest
\* A start, with its request answered or without one
<1>2. ASSUME NEW c \in Clients, NEW n \in Nat, NEW s, NEW q, Begin(<<c, n>>, s, q),
             UNCHANGED req \/ Answered(c)
      PROVE  HoldsLatest'
  <2>1. session' = latest' /\ overtaken' = (Waiting # {})
    BY <1>2, BeginId
  <2>2. Waiting' \subseteq Waiting
    BY <1>2, AnsweredOK DEF Waiting
  <2> QED
    BY <2>1, <2>2 DEF HoldsLatest
\* A request that is answered without a start
<1>3. ASSUME NEW c \in Clients, Answered(c), UNCHANGED <<latest, overtaken>>,
             session' = session \/ (c \in Waiting /\ session' = req[c].id)
      PROVE  HoldsLatest'
  BY <1>3, <1>0, AnsweredOK DEF HoldsLatest
\* A request that goes on to another step
<1>4. ASSUME NEW c \in Clients, UNCHANGED <<session, latest, overtaken>>,
             NEW r, req' = [req EXCEPT ![c] = r],
             r.step \in {"ads", "random"} => r.id = session \/ (c \in Waiting /\ r.id = req[c].id)
      PROVE  HoldsLatest'
  <2>1. \A d \in Clients : req'[d] = IF d = c THEN r ELSE req[d]
    BY <1>4 DEF RequestsOK
  <2>2. \A d \in Waiting' : d \in Clients /\ req'[d].step \in {"ads", "random"}
    BY DEF Waiting
  <2>3. \A d \in Waiting' : d # c => d \in Waiting
    BY <2>1, <2>2 DEF Waiting
  <2> QED
    BY <1>4, <2>1, <2>2, <2>3 DEF HoldsLatest
<1>5. ASSUME NEW c \in Clients, StartSong(c) PROVE HoldsLatest'
  <2>1. left[c] \in Nat
    BY DEF RequestsOK
  <2> QED
    BY <1>2, <1>5, <2>1 DEF StartSong
<1>6. ASSUME NEW c \in Clients, Start(c) PROVE HoldsLatest'
  <2>1. PICK s \in Songs, p \in Playlists, step \in {"playlist", "album"}, both \in BOOLEAN :
          req' = [req EXCEPT ![c] = [Idle EXCEPT !.step = step, !.nr = left[c], !.song = s,
                                                 !.list = p, !.both = both]]
    BY <1>6 DEF Start
  <2>2. [Idle EXCEPT !.step = step, !.nr = left[c], !.song = s, !.list = p, !.both = both].step
          \notin {"ads", "random"}
    BY <2>1 DEF Idle
  <2>3. UNCHANGED <<session, latest, overtaken>>
    BY <1>6 DEF Start
  <2> QED
    BY <1>4, <2>1, <2>2, <2>3
<1>7. ASSUME NEW c \in Clients, FetchPlaylist(c) PROVE HoldsLatest'
  <2>1. req[c].nr \in Nat /\ req[c] \in Request
    BY DEF RequestsOK, Request
  <2>2. CASE UNCHANGED <<session, latest, overtaken>> /\ req' = [req EXCEPT ![c].step = "album"]
    <3>1. req' = [req EXCEPT ![c] = [req[c] EXCEPT !.step = "album"]]
      BY <2>2
    <3>2. [req[c] EXCEPT !.step = "album"].step = "album"
      BY <2>1 DEF Request
    <3>3. UNCHANGED <<session, latest, overtaken>>
      BY <2>2
    <3> QED
      BY <1>4, <3>1, <3>2, <3>3
  <2>3. CASE UNCHANGED <<session, latest, overtaken>> /\ Answered(c)
    BY <1>3, <2>3
  <2>4. CASE Begin(<<c, req[c].nr>>, req[c].song, Without(playlists[req[c].list].songs, req[c].song))
             /\ Answered(c)
    BY <1>2, <2>1, <2>4
  <2> QED
    BY <1>7, <2>2, <2>3, <2>4 DEF FetchPlaylist
<1>8. ASSUME NEW c \in Clients, FetchAlbum(c) PROVE HoldsLatest'
  <2>1. req[c].nr \in Nat
    BY DEF RequestsOK, Request
  <2>2. CASE UNCHANGED <<session, latest, overtaken>>
    BY <1>3, <1>8, <2>2 DEF FetchAlbum
  <2>3. CASE Begin(<<c, req[c].nr>>, req[c].song, AlbumQueue(req[c].song))
    BY <1>2, <1>8, <2>1, <2>3 DEF FetchAlbum
  <2> QED
    BY <1>8, <2>2, <2>3 DEF FetchAlbum
<1>9. ASSUME NEW c \in Clients, Next_(c) PROVE HoldsLatest'
  <2>1. CASE UNCHANGED req
    BY <1>1, <1>9, <2>1 DEF Next_
  <2>2. ASSUME NEW step, req' = [req EXCEPT ![c] = [Idle EXCEPT !.id = session, !.step = step]]
        PROVE  HoldsLatest'
    <3>1. [Idle EXCEPT !.id = session, !.step = step].id = session
      BY DEF Idle
    <3>2. UNCHANGED <<session, latest, overtaken>>
      BY <1>9 DEF Next_
    <3> QED
      BY <1>4, <2>2, <3>1, <3>2
  <2> QED
    BY <1>9, <2>1, <2>2 DEF Next_
<1>10. ASSUME NEW c \in Clients, Advertise(c) \/ NoAds(c) \/ RandomSong(c) PROVE HoldsLatest'
  <2>1. c \in Waiting /\ UNCHANGED <<latest, overtaken>>
    BY <1>10 DEF Waiting, At, Advertise, NoAds, RandomSong
  <2>2. CASE Answered(c) /\ session' \in {session, req[c].id}
    BY <1>3, <2>1, <2>2
  <2>3. CASE req' = [req EXCEPT ![c].step = "random"] /\ UNCHANGED session
    <3>1. req' = [req EXCEPT ![c] = [req[c] EXCEPT !.step = "random"]]
      BY <2>3
    <3>2. [req[c] EXCEPT !.step = "random"].id = req[c].id
      BY DEF RequestsOK, Request
    <3>3. UNCHANGED <<session, latest, overtaken>>
      BY <2>1, <2>3
    <3> QED
      BY <1>4, <2>1, <3>1, <3>2, <3>3
  <2> QED
    BY <1>10, <2>2, <2>3 DEF Advertise, NoAds, RandomSong
<1>11. ASSUME NEW c \in Clients, Previous(c) \/ PlayFromQueue(c) PROVE HoldsLatest'
  BY <1>1, <1>11 DEF Previous, PlayFromQueue
<1>12. ASSUME NEW c \in Clients, AskAdd(c) PROVE HoldsLatest'
  <2>1. PICK p \in Playlists, s \in live :
          req' = [req EXCEPT ![c] = [Idle EXCEPT !.step = "add", !.song = s, !.list = p]]
    BY <1>12 DEF AskAdd
  <2>2. [Idle EXCEPT !.step = "add", !.song = s, !.list = p].step = "add"
    BY DEF Idle
  <2>3. UNCHANGED <<session, latest, overtaken>>
    BY <1>12 DEF AskAdd
  <2> QED
    BY <1>4, <2>1, <2>2, <2>3
<1>13. ASSUME NEW c \in Clients, AddSong(c) PROVE HoldsLatest'
  BY <1>3, <1>13 DEF AddSong
<1>14. CASE CreateList \/ RemoveSong \/ ReplaceList \/ DeleteList \/ ChangeAd \/ DeleteSong
  BY <1>1, <1>14 DEF CreateList, RemoveSong, ReplaceList, DeleteList, ChangeAd, DeleteSong
<1>15. CASE Restart
  BY <1>15 DEF Restart, HoldsLatest, Waiting, Idle
<1>16. CASE UNCHANGED vars
  BY <1>1, <1>16 DEF vars
<1> QED
  BY <1>5, <1>6, <1>7, <1>8, <1>9, <1>10, <1>11, <1>12, <1>13, <1>14, <1>15, <1>16 DEF Next

\* The session is what was started last, unless a next that was waiting when it
\* started has put the old one back, whatever the number of devices
\* (PlayerService.start, getNextTrack and saveSession).
THEOREM LatestCorrect == Spec => []LatestStartPlays
<1>1. Init => RequestsOK /\ HoldsLatest
  BY RequestsInit
<1>2. RequestsOK /\ HoldsLatest /\ [Next]_vars => (RequestsOK /\ HoldsLatest)'
  BY RequestsStep, HoldsLatestStep
<1>3. HoldsLatest => LatestStartPlays
  BY DEF HoldsLatest, LatestStartPlays
<1> QED
  BY <1>1, <1>2, <1>3, PTL DEF Spec

-----------------------------------------------------------------------------
(* Sequences of songs                                                      *)

\* A set of numbers that is not empty has a least one
LEMMA LeastNumber ==
    ASSUME NEW N \in SUBSET Nat, N # {}
    PROVE  \E m \in N : \A i \in N : m <= i
<1>1. PICK m \in N : \A i \in N : ~(<<i, m>> \in OpToRel(<, Nat))
  BY NatLessThanWellFounded, WFMin
<1>2. \A i \in N : ~(i < m)
  BY <1>1 DEF OpToRel
<1> QED
  BY <1>2

\* f holds what is left of the first n songs of seq, for every n up to last
Filters(seq, S, last, f) ==
    /\ f \in [0 .. last -> Seq(Songs)]
    /\ f[0] = <<>>
    /\ \A n \in 1 .. last : f[n] = IF seq[n] \in S THEN Append(f[n - 1], seq[n]) ELSE f[n - 1]

\* By the least number of songs for which there is none
LEMMA FiltersExist ==
    ASSUME NEW seq \in Seq(Songs), NEW S
    PROVE  \E f : Filters(seq, S, Len(seq), f)
<1> DEFINE N == {n \in 0 .. Len(seq) : ~\E f : Filters(seq, S, n, f)}
<1>0. Len(seq) \in Nat
  OBVIOUS
<1>1. SUFFICES ASSUME N # {} PROVE FALSE
  BY <1>0
<1>2. PICK m \in N : \A i \in N : m <= i
  <2>1. N \in SUBSET Nat
    OBVIOUS
  <2> HIDE DEF N
  <2> QED
    BY <1>1, <2>1, LeastNumber
<1>3. m # 0
  <2>1. Filters(seq, S, 0, [n \in 0 .. 0 |-> <<>>])
    BY DEF Filters
  <2> QED
    BY <2>1
<1>4. m - 1 \in 0 .. Len(seq) /\ m \in 1 .. Len(seq) /\ m - 1 \notin N
  BY <1>2, <1>3
<1>5. PICK f : Filters(seq, S, m - 1, f)
  BY <1>4
<1> DEFINE next == IF seq[m] \in S THEN Append(f[m - 1], seq[m]) ELSE f[m - 1]
           g == [n \in 0 .. m |-> IF n = m THEN next ELSE f[n]]
<1>6. next \in Seq(Songs)
  <2>1. f[m - 1] \in Seq(Songs) /\ seq[m] \in Songs
    BY <1>4, <1>5 DEF Filters
  <2> QED
    BY <2>1
<1>7. \A n \in 0 .. m : n = m \/ n \in 0 .. (m - 1)
  BY <1>4
<1>8. \A n \in 1 .. m : n - 1 \in 0 .. (m - 1) /\ n - 1 # m /\ n - 1 \in 0 .. m /\ (n = m \/ n \in 1 .. (m - 1))
  BY <1>4
<1> HIDE DEF next
<1>9. g \in [0 .. m -> Seq(Songs)]
  BY <1>5, <1>6, <1>7 DEF Filters
<1>10. g[0] = <<>>
  BY <1>4, <1>5 DEF Filters
<1>11. \A n \in 1 .. m : g[n] = IF seq[n] \in S THEN Append(g[n - 1], seq[n]) ELSE g[n - 1]
  <2> TAKE n \in 1 .. m
  <2>1. g[n - 1] = f[n - 1] /\ g[n] = IF n = m THEN next ELSE f[n]
    BY <1>8
  <2>2. CASE n = m
    BY <1>4, <2>1, <2>2 DEF next
  <2>3. CASE n # m /\ n \in 1 .. (m - 1)
    BY <1>5, <2>1, <2>3 DEF Filters
  <2> QED
    BY <1>8, <2>2, <2>3
<1>12. Filters(seq, S, m, g)
  <2> HIDE DEF g
  <2> QED
    BY <1>9, <1>10, <1>11 DEF Filters
<1> QED
  BY <1>12

\* A filtered sequence of songs is a sequence of songs: filter computes what Filters says
LEMMA ThoseAreSongs ==
    ASSUME NEW seq \in Seq(Songs), NEW S
    PROVE  Those(seq, S) \in Seq(Songs)
<1> DEFINE e(k) == [n \in 0 .. Len(seq) |->
                      IF n = 0 THEN <<>>
                      ELSE IF seq[n] \in S THEN Append(k[n - 1], seq[n]) ELSE k[n - 1]]
           those == CHOOSE k : k = e(k)
<1>1. Those(seq, S) = those[Len(seq)] /\ Len(seq) \in Nat
  BY DEF Those
<1>2. PICK f : Filters(seq, S, Len(seq), f)
  BY FiltersExist
<1>3. f = e(f)
  <2>1. \A n \in 0 .. Len(seq) : n = 0 \/ n \in 1 .. Len(seq)
    BY <1>1
  <2>2. \A n \in 0 .. Len(seq) : f[n] = e(f)[n]
    BY <1>2, <2>1 DEF Filters
  <2>3. f = [n \in 0 .. Len(seq) |-> f[n]]
    BY <1>2 DEF Filters
  <2>4. e(f) = [n \in 0 .. Len(seq) |-> e(f)[n]]
    OBVIOUS
  <2> HIDE DEF e
  <2> QED
    BY <2>2, <2>3, <2>4
<1>4. those = e(those)
  <2> HIDE DEF e
  <2> QED
    BY <1>3
<1>5. /\ those[0] = <<>>
      /\ \A n \in 1 .. Len(seq) :
            those[n] = IF seq[n] \in S THEN Append(those[n - 1], seq[n]) ELSE those[n - 1]
  <2>1. 0 \in 0 .. Len(seq) /\ \A n \in 1 .. Len(seq) : n \in 0 .. Len(seq) /\ n # 0
    BY <1>1
  <2>2. \A n \in 0 .. Len(seq) : those[n] = e(those)[n]
    BY <1>4
  <2> HIDE DEF those
  <2> QED
    BY <2>1, <2>2
<1> HIDE DEF those, e
<1> DEFINE N == {n \in 0 .. Len(seq) : those[n] # f[n]}
<1>6. N = {}
  <2>1. SUFFICES ASSUME N # {} PROVE FALSE
    OBVIOUS
  <2>2. PICK m \in N : \A i \in N : m <= i
    <3>1. N \in SUBSET Nat
      OBVIOUS
    <3> HIDE DEF N
    <3> QED
      BY <2>1, <3>1, LeastNumber
  <2>3. m # 0
    BY <1>2, <1>5 DEF Filters
  <2>4. m \in 1 .. Len(seq) /\ m - 1 \in 0 .. Len(seq) /\ m - 1 \notin N
    BY <1>1, <2>2, <2>3
  <2>5. those[m - 1] = f[m - 1]
    BY <2>4
  <2> QED
    BY <1>2, <1>5, <2>4, <2>5 DEF Filters
<1>7. those[Len(seq)] = f[Len(seq)] /\ f[Len(seq)] \in Seq(Songs)
  BY <1>1, <1>2, <1>6 DEF Filters
<1> QED
  BY <1>1, <1>7

LEMMA WithoutIsSongs ==
    ASSUME NEW seq \in Seq(Songs), NEW s
    PROVE  Without(seq, s) \in Seq(Songs)
  BY ThoseAreSongs DEF Without

LEMMA SingleRange == ASSUME NEW s \in Songs PROVE <<s>> \in Seq(Songs) /\ Range(<<s>>) = {s}
  BY DEF Range

LEMMA TailRange ==
    ASSUME NEW q \in Seq(Songs), q # <<>>
    PROVE  /\ Head(q) \in Songs /\ Tail(q) \in Seq(Songs) /\ Len(Tail(q)) = Len(q) - 1
           /\ Range(q) = {Head(q)} \cup Range(Tail(q))
<1>1. \A i \in 1..Len(q) : q[i] = Head(q) \/ (i - 1 \in 1..Len(Tail(q)) /\ Tail(q)[i - 1] = q[i])
  OBVIOUS
<1>2. \A i \in 1..Len(Tail(q)) : Tail(q)[i] = q[i + 1] /\ i + 1 \in 1..Len(q)
  OBVIOUS
<1>3. DOMAIN q = 1..Len(q) /\ DOMAIN Tail(q) = 1..Len(Tail(q)) /\ 1 \in 1..Len(q) /\ Head(q) = q[1]
  OBVIOUS
<1>4. Range(Tail(q)) \subseteq Range(q)
  BY <1>2, <1>3 DEF Range
<1>5. Range(q) \subseteq {Head(q)} \cup Range(Tail(q))
  BY <1>1, <1>3 DEF Range
<1>6. Head(q) \in Songs /\ Tail(q) \in Seq(Songs) /\ Len(Tail(q)) = Len(q) - 1
  OBVIOUS
<1> QED
  BY <1>3, <1>4, <1>5, <1>6 DEF Range

LEMMA ConcatRange ==
    ASSUME NEW q \in Seq(Songs), NEW r \in Seq(Songs)
    PROVE  q \o r \in Seq(Songs) /\ Range(q \o r) = Range(q) \cup Range(r)
<1>1. /\ DOMAIN q = 1..Len(q) /\ DOMAIN r = 1..Len(r)
      /\ DOMAIN (q \o r) = 1..(Len(q) + Len(r))
      /\ Len(q) \in Nat /\ Len(r) \in Nat
  OBVIOUS
<1>2. \A i \in 1..Len(q) : (q \o r)[i] = q[i] /\ i \in 1..(Len(q) + Len(r))
  OBVIOUS
<1>3. \A i \in 1..Len(r) : (q \o r)[Len(q) + i] = r[i] /\ Len(q) + i \in 1..(Len(q) + Len(r))
  OBVIOUS
<1>4. \A i \in 1..(Len(q) + Len(r)) :
        \/ i \in 1..Len(q) /\ (q \o r)[i] = q[i]
        \/ i - Len(q) \in 1..Len(r) /\ (q \o r)[i] = r[i - Len(q)]
  OBVIOUS
<1>5. Range(q \o r) \subseteq Range(q) \cup Range(r)
  BY <1>1, <1>4 DEF Range
<1>6. Range(q) \subseteq Range(q \o r)
  BY <1>1, <1>2 DEF Range
<1>7. Range(r) \subseteq Range(q \o r)
  BY <1>1, <1>3 DEF Range
<1> QED
  BY <1>5, <1>6, <1>7

\* A piece of a sequence: its elements are those between its ends
LEMMA PieceRange ==
    ASSUME NEW q \in Seq(Songs), NEW a \in Nat \ {0}, NEW b \in Nat, b <= Len(q)
    PROVE  /\ SubSeq(q, a, b) \in Seq(Songs)
           /\ Len(SubSeq(q, a, b)) = (IF a <= b THEN b - a + 1 ELSE 0)
           /\ Range(SubSeq(q, a, b)) = {q[i] : i \in a..b}
<1>1. /\ SubSeq(q, a, b) \in Seq(Songs)
      /\ Len(SubSeq(q, a, b)) = (IF a <= b THEN b - a + 1 ELSE 0)
      /\ DOMAIN SubSeq(q, a, b) = 1..(b - a + 1)
  OBVIOUS
<1>2. \A i \in 1..(b - a + 1) : SubSeq(q, a, b)[i] = q[a + i - 1] /\ a + i - 1 \in a..b
  OBVIOUS
<1>3. \A i \in a..b : i - a + 1 \in 1..(b - a + 1) /\ a + (i - a + 1) - 1 = i
  OBVIOUS
<1>4. Range(SubSeq(q, a, b)) \subseteq {q[i] : i \in a..b}
  BY <1>1, <1>2 DEF Range
<1>5. \A i \in a..b : q[i] \in Range(SubSeq(q, a, b))
  <2> TAKE i \in a..b
  <2>1. SubSeq(q, a, b)[i - a + 1] = q[i]
    BY <1>2, <1>3
  <2> QED
    BY <1>1, <1>3, <2>1 DEF Range
<1> QED
  BY <1>1, <1>4, <1>5

LEMMA CappedRange ==
    ASSUME NEW q \in Seq(Songs), NEW n \in Nat
    PROVE  /\ Capped(q, n) \in Seq(Songs) /\ Len(Capped(q, n)) <= n
           /\ Range(q) \subseteq Range(Capped(q, n)) \cup Range(SubSeq(q, n + 1, Len(q)))
<1> DEFINE m == IF Len(q) < n THEN Len(q) ELSE n
<1>1. m \in Nat /\ m <= Len(q) /\ m <= n /\ (n < Len(q) => m = n) /\ (n >= Len(q) => m = Len(q))
      /\ Len(q) \in Nat
  OBVIOUS
<1>2. Capped(q, n) = SubSeq(q, 1, m)
  BY DEF Capped
<1> HIDE DEF m
<1>3. /\ SubSeq(q, 1, m) \in Seq(Songs) /\ Len(SubSeq(q, 1, m)) = m
      /\ Range(SubSeq(q, 1, m)) = {q[i] : i \in 1..m}
  BY <1>1, PieceRange
<1>4. Range(SubSeq(q, n + 1, Len(q))) = {q[i] : i \in (n + 1)..Len(q)}
  BY <1>1, PieceRange
<1>5. \A i \in 1..Len(q) : i \in 1..m \/ i \in (n + 1)..Len(q)
  BY <1>1
<1>6. Range(q) = {q[i] : i \in 1..Len(q)}
  BY DEF Range
<1> QED
  BY <1>1, <1>2, <1>3, <1>4, <1>5, <1>6

LEMMA SplitRange ==
    ASSUME NEW q \in Seq(Songs), NEW i \in DOMAIN q
    PROVE  /\ q[i] \in Songs
           /\ SubSeq(q, 1, i - 1) \in Seq(Songs) /\ SubSeq(q, i + 1, Len(q)) \in Seq(Songs)
           /\ Range(q) = Range(SubSeq(q, 1, i - 1)) \cup {q[i]} \cup Range(SubSeq(q, i + 1, Len(q)))
<1>1. i \in Nat \ {0} /\ i - 1 \in Nat /\ i <= Len(q) /\ i - 1 <= Len(q) /\ Len(q) \in Nat
      /\ q[i] \in Songs
  OBVIOUS
<1>2. SubSeq(q, 1, i - 1) \in Seq(Songs) /\ Range(SubSeq(q, 1, i - 1)) = {q[j] : j \in 1..(i - 1)}
  BY <1>1, PieceRange
<1>3. /\ SubSeq(q, i + 1, Len(q)) \in Seq(Songs)
      /\ Range(SubSeq(q, i + 1, Len(q))) = {q[j] : j \in (i + 1)..Len(q)}
  BY <1>1, PieceRange
<1>4. Range(q) = {q[j] : j \in 1..Len(q)}
  BY DEF Range
<1>5. \A j \in 1..Len(q) : j \in 1..(i - 1) \/ j = i \/ j \in (i + 1)..Len(q)
  BY <1>1
<1>6. \A j \in (1..(i - 1)) \cup {i} \cup ((i + 1)..Len(q)) : j \in 1..Len(q)
  BY <1>1
<1> QED
  BY <1>1, <1>2, <1>3, <1>4, <1>5, <1>6

-----------------------------------------------------------------------------
(* What the steps do to one session                                        *)

ContextOK(k) ==
    /\ k \in Context
    /\ k.count < AdEvery
    /\ Len(k.hist) <= (IF NextCap > QueueCap THEN NextCap ELSE QueueCap)

\* What start queued is there, whatever plays
Covered(k) == k.kept \subseteq Range(k.queue) \cup Range(k.hist)

\* or is known to have been discarded
Settled(k) == k.crossed \/ Covered(k)
Ready(k)   == k.crossed \/ (k.ad = None /\ Covered(k))

\* Nothing of a session is lost, and an advertisement replaces no song
Keeps(k) ==
    /\ k.kept \subseteq Range(k.queue) \cup {k.cur} \cup Range(k.hist)
    /\ k.ad # None => Settled(k)

\* k is j, but for what is marked as crossed
Marked(k, j) ==
    /\ ContextOK(k)
    /\ k.cur = j.cur /\ k.queue = j.queue /\ k.hist = j.hist /\ k.count = j.count
    /\ k.ad = j.ad /\ k.kept = j.kept
    /\ j.crossed => k.crossed

LEMMA MarkedOK ==
    ASSUME NEW j, NEW k, Marked(k, j)
    PROVE  (Keeps(j) => Keeps(k)) /\ (Settled(j) => Settled(k)) /\ (Ready(j) => Ready(k))
  BY DEF Marked, Keeps, Settled, Ready, Covered

LEMMA CrossedMarks ==
    ASSUME NEW x \in DOMAIN ctx, ContextOK(ctx[x]), NEW c
    PROVE  /\ Marked(Crossed(c, x), ctx[x])
           /\ \A d \in Waiting \ {c} : req[d].id = x => Crossed(c, x).crossed
  BY DEF Crossed, Marked, ContextOK, Context

LEMMA ChangedMarks ==
    ASSUME NEW c, session \in DOMAIN ctx, ContextOK(ctx[session])
    PROVE  /\ Marked(Changed(c), ctx[session])
           /\ Changed(c).ad # None => Changed(c).crossed
           /\ \A d \in Waiting \ {c} : req[d].id = session => Changed(c).crossed
<1> DEFINE k == Crossed(c, session)
<1>1. Marked(k, ctx[session]) /\ \A d \in Waiting \ {c} : req[d].id = session => k.crossed
  BY CrossedMarks
<1>2. Changed(c) = [k EXCEPT !.crossed = @ \/ k.ad # None]
  BY DEF Changed
<1> HIDE DEF k
<1> QED
  BY <1>1, <1>2 DEF Marked, ContextOK, Context

LEMMA NewContextOK ==
    ASSUME NEW s \in Songs, NEW q \in Seq(Songs)
    PROVE  ContextOK(NewContext(s, q)) /\ Keeps(NewContext(s, q))
<1>1. Range(q) \subseteq Songs /\ <<>> \in Seq(Songs) /\ Len(<<>>) = 0
  BY DEF Range
<1>2. NewContext(s, q) \in Context
  BY <1>1 DEF NewContext, Context
<1>3. NewContext(s, q).count = 0 /\ NewContext(s, q).hist = <<>> /\ NewContext(s, q).ad = None
      /\ NewContext(s, q).kept = Range(q) \cup {s}
      /\ NewContext(s, q).cur = s /\ NewContext(s, q).queue = q
  BY DEF NewContext
<1>4. 0 < AdEvery /\ 0 <= NextCap /\ 0 <= QueueCap
  BY ConstantsAssumption
<1> QED
  BY <1>1, <1>2, <1>3, <1>4 DEF ContextOK, Keeps

LEMMA RememberOK ==
    ASSUME NEW k, ContextOK(k), NEW songs \in Seq(Songs), NEW cap \in {NextCap, QueueCap},
           NEW r, r = Remember(k, songs, cap)
    PROVE  /\ ContextOK(r)
           /\ r.cur = k.cur /\ r.queue = k.queue /\ r.count = k.count /\ r.ad = k.ad
           /\ r.crossed = k.crossed /\ r.kept \subseteq k.kept
           /\ r.kept \cap (Range(songs) \cup Range(k.hist)) \subseteq Range(r.hist)
<1> DEFINE all == songs \o k.hist
<1>1. k.hist \in Seq(Songs)
  BY DEF ContextOK, Context
<1>2. all \in Seq(Songs) /\ Range(all) = Range(songs) \cup Range(k.hist)
  BY <1>1, ConcatRange
<1>3. cap \in Nat /\ cap <= (IF NextCap > QueueCap THEN NextCap ELSE QueueCap)
      /\ NextCap \in Nat /\ QueueCap \in Nat
  BY ConstantsAssumption
<1>4. r = [k EXCEPT !.hist = Capped(all, cap),
                    !.kept = @ \ Range(SubSeq(all, cap + 1, Len(all)))]
  BY DEF Remember
<1> HIDE DEF all
<1>5. /\ Capped(all, cap) \in Seq(Songs) /\ Len(Capped(all, cap)) <= cap
      /\ Range(all) \subseteq Range(Capped(all, cap)) \cup Range(SubSeq(all, cap + 1, Len(all)))
  BY <1>2, <1>3, CappedRange
<1>6. Len(Capped(all, cap)) \in Nat
  BY <1>5
<1>7. /\ r \in Context /\ r.hist = Capped(all, cap)
      /\ r.kept = k.kept \ Range(SubSeq(all, cap + 1, Len(all)))
      /\ r.cur = k.cur /\ r.queue = k.queue /\ r.count = k.count /\ r.ad = k.ad
      /\ r.crossed = k.crossed
  BY <1>4, <1>5 DEF ContextOK, Context
<1> QED
  BY <1>2, <1>3, <1>5, <1>6, <1>7 DEF ContextOK

\* A song or an advertisement has ended: what the session keeps is not what plays
LEMMA EndedOK ==
    ASSUME NEW k, ContextOK(k), Keeps(k), NEW s \in Songs, NEW y, y = Ended(k, s)
    PROVE  ContextOK(y) /\ Keeps(y) /\ Ready(y) /\ y.ad = None /\ y.crossed = k.crossed
<1> DEFINE r == Remember(k, <<s>>, NextCap)
           e == IF k.ad # None THEN [k EXCEPT !.ad = None]
                ELSE [r EXCEPT !.kept = IF s = k.cur THEN @ ELSE @ \ {k.cur}]
<1>1. /\ ContextOK(r)
      /\ r.cur = k.cur /\ r.queue = k.queue /\ r.count = k.count /\ r.ad = k.ad
      /\ r.crossed = k.crossed /\ r.kept \subseteq k.kept
      /\ r.kept \cap ({s} \cup Range(k.hist)) \subseteq Range(r.hist)
  <2>1. <<s>> \in Seq(Songs) /\ Range(<<s>>) = {s}
    BY SingleRange
  <2> HIDE DEF r
  <2>2. r = Remember(k, <<s>>, NextCap)
    BY DEF r
  <2> QED
    BY <2>1, <2>2, RememberOK
<1>2. y = IF Premium THEN e ELSE [e EXCEPT !.count = IF @ + 1 >= AdEvery THEN 0 ELSE @ + 1]
  BY DEF Ended
<1>3. e = IF k.ad # None THEN [k EXCEPT !.ad = None]
          ELSE [r EXCEPT !.kept = IF s = k.cur THEN @ ELSE @ \ {k.cur}]
  OBVIOUS
<1> HIDE DEF e, r
<1>4. ContextOK(e) /\ e.ad = None /\ Keeps(e) /\ Ready(e) /\ e.crossed = k.crossed
  <2>1. CASE k.ad # None
    <3>1. e = [k EXCEPT !.ad = None]
      BY <1>3, <2>1
    <3>2. /\ e \in Context /\ e.ad = None /\ e.count = k.count /\ e.hist = k.hist
          /\ e.crossed = k.crossed /\ e.kept = k.kept /\ e.queue = k.queue /\ e.cur = k.cur
      BY <3>1 DEF ContextOK, Context
    <3> QED
      BY <2>1, <3>2 DEF ContextOK, Keeps, Ready, Settled, Covered
  <2>2. CASE k.ad = None
    <3>1. e = [r EXCEPT !.kept = IF s = k.cur THEN @ ELSE @ \ {k.cur}]
      BY <1>3, <2>2
    <3>2. /\ e \in Context /\ e.ad = None /\ e.count = k.count /\ e.hist = r.hist
          /\ e.crossed = k.crossed /\ e.queue = k.queue /\ e.cur = k.cur
          /\ e.kept = IF s = k.cur THEN r.kept ELSE r.kept \ {k.cur}
      BY <1>1, <2>2, <3>1 DEF ContextOK, Context
    <3>3. e.kept \subseteq Range(k.queue) \cup {s} \cup Range(k.hist) /\ e.kept \subseteq r.kept
      BY <1>1, <3>2 DEF Keeps
    <3> QED
      BY <1>1, <3>2, <3>3 DEF ContextOK, Keeps, Ready, Covered
  <2> QED
    BY <2>1, <2>2
<1>5. e.count \in Nat /\ AdEvery \in Nat \ {0} /\ e.count < AdEvery /\ e \in Context
  BY <1>4, ConstantsAssumption DEF ContextOK, Context
<1>6. CASE Premium
  BY <1>2, <1>4, <1>6
<1>7. CASE ~Premium
  <2>1. PICK n \in Nat : n < AdEvery /\ y = [e EXCEPT !.count = n]
    BY <1>2, <1>5, <1>7
  <2>2. /\ y \in Context /\ y.count = n /\ y.ad = e.ad /\ y.hist = e.hist /\ y.kept = e.kept
        /\ y.queue = e.queue /\ y.crossed = e.crossed /\ y.cur = e.cur
    BY <1>5, <2>1 DEF Context
  <2> QED
    BY <1>4, <2>1, <2>2 DEF ContextOK, Keeps, Ready, Covered
<1> QED
  BY <1>6, <1>7

LEMMA PlayOK ==
    ASSUME NEW k, ContextOK(k), Ready(k), NEW s \in Songs, NEW r, r = Play(k, s), Keeps(k)
    PROVE  ContextOK(r) /\ Keeps(r) /\ r.queue = k.queue /\ r.crossed = k.crossed
<1>1. /\ r \in Context /\ r.cur = s /\ r.count = k.count /\ r.hist = k.hist
      /\ r.crossed = k.crossed /\ r.queue = k.queue /\ r.ad = k.ad
      /\ r.kept = IF k.crossed THEN k.kept \ {k.cur} ELSE k.kept
  BY DEF Play, ContextOK, Context
<1> QED
  BY <1>1 DEF ContextOK, Keeps, Ready, Settled, Covered

LEMMA PlayQueueOK ==
    ASSUME NEW k, ContextOK(k), Keeps(k), Ready(k), k.queue # <<>>, NEW r, r = PlayQueue(k)
    PROVE  ContextOK(r) /\ Keeps(r) /\ r.crossed = k.crossed
<1>1. k.queue \in Seq(Songs) /\ k \in Context
  BY DEF ContextOK, Context
<1>2. Head(k.queue) \in Songs /\ Tail(k.queue) \in Seq(Songs)
      /\ Range(k.queue) = {Head(k.queue)} \cup Range(Tail(k.queue))
  BY <1>1, TailRange
<1>3. r = [Play(k, Head(k.queue)) EXCEPT !.queue = Tail(@)]
  BY DEF PlayQueue
<1>4. /\ r \in Context /\ r.cur = Head(k.queue) /\ r.queue = Tail(k.queue)
      /\ r.count = k.count /\ r.hist = k.hist /\ r.crossed = k.crossed /\ r.ad = k.ad
      /\ r.kept = IF k.crossed THEN k.kept \ {k.cur} ELSE k.kept
  BY <1>1, <1>2, <1>3 DEF Play, Context
<1> QED
  BY <1>2, <1>4 DEF ContextOK, Keeps, Ready, Settled, Covered

LEMMA PreviousOK ==
    ASSUME NEW k, ContextOK(k), Keeps(k), k.hist # <<>>, k.ad # None => k.crossed,
           NEW r, r = [k EXCEPT !.cur = Head(k.hist), !.hist = Tail(@), !.queue = <<k.cur>> \o @]
    PROVE  ContextOK(r) /\ Keeps(r) /\ r.crossed = k.crossed
<1>1. k.queue \in Seq(Songs) /\ k.hist \in Seq(Songs) /\ k.cur \in Songs /\ k \in Context
  BY DEF ContextOK, Context
<1>2. /\ Head(k.hist) \in Songs /\ Tail(k.hist) \in Seq(Songs)
      /\ Len(Tail(k.hist)) = Len(k.hist) - 1
      /\ Range(k.hist) = {Head(k.hist)} \cup Range(Tail(k.hist))
  BY <1>1, TailRange
<1>3. <<k.cur>> \in Seq(Songs) /\ Range(<<k.cur>>) = {k.cur}
  BY <1>1, SingleRange
<1>4. <<k.cur>> \o k.queue \in Seq(Songs)
      /\ Range(<<k.cur>> \o k.queue) = {k.cur} \cup Range(k.queue)
  BY <1>1, <1>3, ConcatRange
<1>5. /\ r \in Context /\ r.cur = Head(k.hist) /\ r.hist = Tail(k.hist)
      /\ r.queue = <<k.cur>> \o k.queue /\ r.count = k.count /\ r.ad = k.ad
      /\ r.crossed = k.crossed /\ r.kept = k.kept
  BY <1>1, <1>2, <1>4 DEF Context
<1>6. Len(k.hist) \in Nat
  BY <1>1
<1>7. ContextOK(r)
  BY <1>2, <1>5, <1>6, ConstantsAssumption DEF ContextOK
<1> QED
  BY <1>2, <1>4, <1>5, <1>7 DEF Keeps, Settled

LEMMA ChosenOK ==
    ASSUME NEW k, ContextOK(k), Keeps(k), k.ad # None => k.crossed, NEW i \in DOMAIN k.queue,
           NEW r, r = [Remember(k, Passed(k, i), QueueCap) EXCEPT
                          !.cur = k.queue[i], !.queue = SubSeq(@, i + 1, Len(@))]
    PROVE  ContextOK(r) /\ Keeps(r) /\ r.crossed = k.crossed
<1>1. k.queue \in Seq(Songs) /\ k.hist \in Seq(Songs) /\ k.cur \in Songs
  BY DEF ContextOK, Context
<1>2. /\ k.queue[i] \in Songs /\ SubSeq(k.queue, 1, i - 1) \in Seq(Songs)
      /\ SubSeq(k.queue, i + 1, Len(k.queue)) \in Seq(Songs)
      /\ Range(k.queue) = Range(SubSeq(k.queue, 1, i - 1)) \cup {k.queue[i]}
                            \cup Range(SubSeq(k.queue, i + 1, Len(k.queue)))
  BY <1>1, SplitRange
<1>3. <<k.cur>> \in Seq(Songs) /\ Range(<<k.cur>>) = {k.cur}
  BY <1>1, SingleRange
<1>4. Passed(k, i) \in Seq(Songs)
      /\ Range(Passed(k, i)) = {k.cur} \cup Range(SubSeq(k.queue, 1, i - 1))
  BY <1>2, <1>3, ConcatRange DEF Passed
<1>5. PICK m : m = Remember(k, Passed(k, i), QueueCap)
  OBVIOUS
<1>6. /\ ContextOK(m) /\ m.queue = k.queue /\ m.ad = k.ad /\ m.count = k.count
      /\ m.crossed = k.crossed /\ m.kept \subseteq k.kept
      /\ m.kept \cap (Range(Passed(k, i)) \cup Range(k.hist)) \subseteq Range(m.hist)
  BY <1>4, <1>5, RememberOK
<1>7. r = [m EXCEPT !.cur = k.queue[i], !.queue = SubSeq(@, i + 1, Len(@))]
  BY <1>5
<1>8. /\ r \in Context /\ r.cur = k.queue[i] /\ r.queue = SubSeq(k.queue, i + 1, Len(k.queue))
      /\ r.hist = m.hist /\ r.count = m.count /\ r.ad = k.ad /\ r.crossed = k.crossed
      /\ r.kept = m.kept
  <2>1. PICK a, b : a = k.queue[i] /\ b = SubSeq(k.queue, i + 1, Len(k.queue))
    OBVIOUS
  <2>2. r = [m EXCEPT !.cur = a, !.queue = b]
    BY <1>6, <1>7, <2>1
  <2>3. a \in Songs /\ b \in Seq(Songs) /\ m \in Context
    BY <1>2, <1>6, <2>1 DEF ContextOK
  <2>4. r \in Context /\ r.cur = a /\ r.queue = b /\ r.hist = m.hist /\ r.count = m.count
        /\ r.ad = m.ad /\ r.crossed = m.crossed /\ r.kept = m.kept
    BY <2>2, <2>3 DEF Context
  <2> QED
    BY <1>6, <2>1, <2>4
<1>9. ContextOK(r)
  BY <1>6, <1>8 DEF ContextOK
<1>10. r.kept \subseteq Range(r.queue) \cup {r.cur} \cup Range(r.hist)
  <2>1. r.kept \subseteq Range(k.queue) \cup {k.cur} \cup Range(k.hist)
    BY <1>6, <1>8 DEF Keeps
  <2> QED
    BY <1>2, <1>4, <1>6, <1>8, <2>1
<1> QED
  BY <1>8, <1>9, <1>10 DEF Keeps, Settled

-----------------------------------------------------------------------------
(* All sessions                                                            *)

ContextsOK == \A x \in DOMAIN ctx : ContextOK(ctx[x]) /\ Keeps(ctx[x])

\* What waits will find a session it may change
WaitingOK == \A c \in Waiting : req[c].id \in DOMAIN ctx /\ Ready(ctx[req[c].id])

\* A start request makes an object of its own
IdsOK ==
    /\ DOMAIN ctx \subseteq Ids
    /\ session \in DOMAIN ctx \cup {None}
    /\ \A c \in Clients, n \in Nat : <<c, n>> \in DOMAIN ctx => left[c] < n
    /\ \A c \in Clients : req[c].step \in {"playlist", "album"} =>
          left[c] < req[c].nr /\ <<c, req[c].nr>> \notin DOMAIN ctx

\* The songs and what the requests ask for
LibraryOK ==
    /\ playlists \in [Playlists -> Playlist]
    /\ ads \in [Ads -> Ad]
    /\ edits \in Nat
    /\ latest \in Ids \cup {None}
    /\ overtaken \in BOOLEAN
    /\ \A c \in Clients : req[c].step \in {"playlist", "album", "add"} =>
          req[c].list \in Playlists /\ req[c].song \in Songs

LEMMA BeginOK ==
    ASSUME RequestsOK, ContextsOK, WaitingOK, NEW c \in Clients, NEW n \in Nat,
           <<c, n>> \notin DOMAIN ctx, NEW s \in Songs, NEW q \in Seq(Songs),
           Begin(<<c, n>>, s, q), UNCHANGED req \/ Answered(c)
    PROVE  ContextsOK' /\ WaitingOK'
<1>1. PICK x : x = <<c, n>>
  OBVIOUS
<1>2. ctx' = [y \in DOMAIN ctx \cup {x} |-> IF y = x THEN NewContext(s, q) ELSE ctx[y]]
  BY <1>1 DEF Begin
<1>3. x \notin DOMAIN ctx /\ DOMAIN ctx' = DOMAIN ctx \cup {x} /\ ctx'[x] = NewContext(s, q)
      /\ \A y \in DOMAIN ctx : ctx'[y] = ctx[y]
  BY <1>1, <1>2
<1>4. ContextsOK'
  BY <1>3, NewContextOK DEF ContextsOK
<1>5. Waiting' \subseteq Waiting /\ \A d \in Waiting' : req'[d] = req[d]
  BY AnsweredOK DEF Waiting
<1>6. WaitingOK'
  BY <1>3, <1>5 DEF WaitingOK
<1> QED
  BY <1>4, <1>6

\* The object of one session is changed, and nothing but the request c, which has it
LEMMA ChangeOK ==
    ASSUME ContextsOK, WaitingOK, NEW c \in Clients, NEW x \in DOMAIN ctx, NEW k,
           ctx' = [ctx EXCEPT ![x] = k], ContextOK(k), Keeps(k),
           \A d \in Waiting \ {c} : req[d].id = x => k.crossed,
           \A d \in Clients \ {c} : req'[d] = req[d],
           c \in Waiting' => req'[c].id = x /\ Ready(k)
    PROVE  ContextsOK' /\ WaitingOK'
<1>1. DOMAIN ctx' = DOMAIN ctx /\ ctx'[x] = k /\ \A y \in DOMAIN ctx : y # x => ctx'[y] = ctx[y]
  OBVIOUS
<1>2. ContextsOK'
  BY <1>1 DEF ContextsOK
<1>3. \A d \in Waiting' : d # c => d \in Waiting /\ req'[d] = req[d]
  BY DEF Waiting
<1>4. WaitingOK'
  BY <1>1, <1>3 DEF WaitingOK, Ready
<1> QED
  BY <1>2, <1>4

\* No session is changed
LEMMA FrameOK ==
    ASSUME ContextsOK, WaitingOK, UNCHANGED ctx, NEW c \in Clients,
           \A d \in Clients \ {c} : req'[d] = req[d],
           c \in Waiting' => c \in Waiting /\ req'[c].id = req[c].id
    PROVE  ContextsOK' /\ WaitingOK'
<1>1. ContextsOK'
  BY DEF ContextsOK
<1>2. \A d \in Waiting' : d \in Waiting /\ req'[d].id = req[d].id
  BY DEF Waiting
<1> QED
  BY <1>1, <1>2 DEF WaitingOK

SessionsOK == ContextsOK /\ WaitingOK

\* An answered request waits for nothing, and the others go on as they were
LEMMA AnsweredIdle ==
    ASSUME RequestsOK, NEW c \in Clients, Answered(c)
    PROVE  /\ req'[c].step = "idle" /\ c \notin Waiting'
           /\ \A d \in Clients \ {c} : req'[d] = req[d]
<1>1. req'[c] = Idle /\ \A d \in Clients \ {c} : req'[d] = req[d]
  BY DEF RequestsOK, Answered
<1> QED
  BY <1>1 DEF Idle, Waiting

\* What a start queues are songs
LEMMA AlbumQueueOK ==
    ASSUME live \subseteq Songs, NEW s \in Songs
    PROVE  AlbumQueue(s) \in Seq(Songs)
<1> DEFINE list == Those(Album, live)
<1>1. list \in Seq(Songs)
  BY ConstantsAssumption, ThoseAreSongs
<1>2. AlbumQueue(s) = LET from == {i \in DOMAIN list : list[i] = s}
                      IN IF from = {} THEN list
                         ELSE SubSeq(list, 1 + CHOOSE i \in from : TRUE, Len(list))
  BY DEF AlbumQueue
<1> HIDE DEF list
<1>3. PICK from : from = {i \in DOMAIN list : list[i] = s}
  OBVIOUS
<1>4. CASE from = {}
  BY <1>1, <1>2, <1>3, <1>4
<1>5. CASE from # {}
  <2>1. PICK i : i = CHOOSE j \in from : TRUE
    OBVIOUS
  <2>2. i \in 1..Len(list)
    BY <1>1, <1>3, <1>5, <2>1
  <2>3. 1 + i \in Nat \ {0} /\ Len(list) \in Nat /\ Len(list) <= Len(list)
    BY <1>1, <2>2
  <2>4. SubSeq(list, 1 + i, Len(list)) \in Seq(Songs)
    BY <1>1, <2>3, PieceRange
  <2> QED
    BY <1>2, <1>3, <1>5, <2>1, <2>4
<1> QED
  BY <1>4, <1>5

LEMMA PlaylistQueueOK ==
    ASSUME LibraryOK, NEW p \in Playlists, NEW s \in Songs
    PROVE  Without(playlists[p].songs, s) \in Seq(Songs)
  BY WithoutIsSongs DEF LibraryOK, Playlist

\* No step loses a song that is kept
LEMMA SessionsStep ==
    RequestsOK /\ LibraryOK /\ IdsOK /\ SessionsOK /\ [Next]_vars
        => SessionsOK'
<1> SUFFICES ASSUME RequestsOK, LibraryOK, IdsOK, SessionsOK, [Next]_vars
             PROVE  SessionsOK'
  OBVIOUS
<1> USE DEF SessionsOK
<1>0. ASSUME session # None
      PROVE  session \in DOMAIN ctx /\ ContextOK(ctx[session]) /\ Keeps(ctx[session])
  BY <1>0 DEF IdsOK, ContextsOK
<1>1. ASSUME UNCHANGED <<ctx, req>> PROVE SessionsOK'
  BY <1>1 DEF ContextsOK, WaitingOK, Waiting
<1>2. ASSUME NEW c \in Clients, StartSong(c) PROVE SessionsOK'
  <2>1. PICK s \in Songs : Begin(<<c, left[c]>>, s, <<>>)
    BY <1>2 DEF StartSong
  <2>2. left[c] \in Nat
    BY DEF RequestsOK
  <2>3. <<c, left[c]>> \notin DOMAIN ctx
    BY <2>2 DEF IdsOK
  <2>4. UNCHANGED req
    BY <1>2 DEF StartSong
  <2>5. <<>> \in Seq(Songs)
    OBVIOUS
  <2> QED
    BY <2>1, <2>2, <2>3, <2>4, <2>5, BeginOK
<1>3. ASSUME NEW c \in Clients, Start(c) \/ AskAdd(c) PROVE SessionsOK'
  <2>1. PICK r : req' = [req EXCEPT ![c] = r] /\ r.step \notin {"ads", "random"}
    <3>1. ASSUME Start(c)
          PROVE  \E r : req' = [req EXCEPT ![c] = r] /\ r.step \notin {"ads", "random"}
      <4>1. PICK s \in Songs, p \in Playlists, step \in {"playlist", "album"}, both \in BOOLEAN :
              req' = [req EXCEPT ![c] = [Idle EXCEPT !.step = step, !.nr = left[c], !.song = s,
                                                     !.list = p, !.both = both]]
        BY <3>1 DEF Start
      <4>2. [Idle EXCEPT !.step = step, !.nr = left[c], !.song = s, !.list = p, !.both = both].step
              = step
        BY DEF Idle
      <4> QED
        BY <4>1, <4>2
    <3>2. ASSUME AskAdd(c)
          PROVE  \E r : req' = [req EXCEPT ![c] = r] /\ r.step \notin {"ads", "random"}
      <4>1. PICK p \in Playlists, s \in live :
              req' = [req EXCEPT ![c] = [Idle EXCEPT !.step = "add", !.song = s, !.list = p]]
        BY <3>2 DEF AskAdd
      <4>2. [Idle EXCEPT !.step = "add", !.song = s, !.list = p].step = "add"
        BY DEF Idle
      <4> QED
        BY <4>1, <4>2
    <3> QED
      BY <1>3, <3>1, <3>2
  <2>2. \A d \in Clients \ {c} : req'[d] = req[d]
    BY <2>1
  <2>3. req'[c].step \notin {"ads", "random"}
    BY <2>1 DEF RequestsOK
  <2>4. c \notin Waiting' /\ UNCHANGED ctx
    BY <1>3, <2>3 DEF Waiting, Start, AskAdd
  <2> QED
    BY <2>2, <2>4, FrameOK
<1>4. ASSUME NEW c \in Clients, FetchPlaylist(c) PROVE SessionsOK'
  <2>1. req[c] \in Request /\ req[c].nr \in Nat /\ req[c].step = "playlist"
    BY <1>4 DEF RequestsOK, Request, FetchPlaylist, At
  <2>2. CASE Begin(<<c, req[c].nr>>, req[c].song, Without(playlists[req[c].list].songs, req[c].song))
             /\ Answered(c)
    <3>1. req[c].song \in Songs /\ req[c].list \in Playlists
      BY <2>1 DEF LibraryOK
    <3>2. Without(playlists[req[c].list].songs, req[c].song) \in Seq(Songs)
      BY <3>1, PlaylistQueueOK
    <3>3. <<c, req[c].nr>> \notin DOMAIN ctx
      BY <2>1 DEF IdsOK
    <3> QED
      BY <2>1, <2>2, <3>1, <3>2, <3>3, BeginOK
  <2>3. CASE UNCHANGED ctx /\ Answered(c)
    <3>1. \A d \in Clients \ {c} : req'[d] = req[d]
      BY <2>3 DEF Answered
    <3>2. c \notin Waiting'
      BY <2>3, AnsweredIdle
    <3> QED
      BY <2>3, <3>1, <3>2, FrameOK
  <2>4. CASE UNCHANGED ctx /\ req' = [req EXCEPT ![c].step = "album"]
    <3>1. \A d \in Clients \ {c} : req'[d] = req[d]
      BY <2>4
    <3>2. req'[c].step = "album"
      BY <2>1, <2>4 DEF RequestsOK, Request
    <3>3. c \notin Waiting'
      BY <3>2 DEF Waiting
    <3> QED
      BY <2>4, <3>1, <3>3, FrameOK
  <2> QED
    BY <1>4, <2>2, <2>3, <2>4 DEF FetchPlaylist
<1>5. ASSUME NEW c \in Clients, FetchAlbum(c) PROVE SessionsOK'
  <2>1. req[c].nr \in Nat /\ req[c].step = "album" /\ Answered(c)
    BY <1>5 DEF RequestsOK, Request, FetchAlbum, At
  <2>2. CASE Begin(<<c, req[c].nr>>, req[c].song, AlbumQueue(req[c].song))
    <3>1. req[c].song \in Songs
      BY <2>1 DEF LibraryOK
    <3>2. AlbumQueue(req[c].song) \in Seq(Songs)
      BY <3>1, AlbumQueueOK DEF RequestsOK
    <3>3. <<c, req[c].nr>> \notin DOMAIN ctx
      BY <2>1 DEF IdsOK
    <3> QED
      BY <2>1, <2>2, <3>1, <3>2, <3>3, BeginOK
  <2>3. CASE UNCHANGED ctx
    <3>1. \A d \in Clients \ {c} : req'[d] = req[d]
      BY <2>1 DEF Answered
    <3>2. c \notin Waiting'
      BY <2>1, AnsweredIdle
    <3> QED
      BY <2>3, <3>1, <3>2, FrameOK
  <2> QED
    BY <1>5, <2>2, <2>3 DEF FetchAlbum
<1>6. ASSUME NEW c \in Clients, Next_(c) PROVE SessionsOK'
  <2>1. session \in DOMAIN ctx /\ ContextOK(ctx[session]) /\ Keeps(ctx[session])
    BY <1>0, <1>6 DEF Next_
  <2>2. PICK k : k = Crossed(c, session)
    OBVIOUS
  <2>3. /\ ContextOK(k) /\ Keeps(k)
        /\ \A d \in Waiting \ {c} : req[d].id = session => k.crossed
    BY <2>1, <2>2, CrossedMarks, MarkedOK DEF Marked
  <2>4. PICK s \in Songs :
          LET x  == Ended(k, s)
              ad == ~Premium /\ x.count = 0
          IN IF ad \/ x.queue = <<>>
             THEN /\ ctx' = [ctx EXCEPT ![session] = x]
                  /\ req' = [req EXCEPT ![c] = [Idle EXCEPT !.id = session,
                                  !.step = IF ad THEN "ads" ELSE "random"]]
             ELSE ctx' = [ctx EXCEPT ![session] = PlayQueue(x)] /\ UNCHANGED req
    BY <1>6, <2>2 DEF Next_
  <2>5. PICK x : x = Ended(k, s)
    OBVIOUS
  <2>6. ContextOK(x) /\ Keeps(x) /\ Ready(x) /\ x.crossed = k.crossed
    BY <2>3, <2>5, EndedOK
  <2>7. CASE /\ ctx' = [ctx EXCEPT ![session] = x]
             /\ \E step : req' = [req EXCEPT ![c] = [Idle EXCEPT !.id = session, !.step = step]]
    <3>1. \A d \in Clients \ {c} : req'[d] = req[d]
      BY <2>7
    <3>2. req'[c].id = session
      BY <2>7 DEF RequestsOK, Idle
    <3> QED
      BY <2>1, <2>3, <2>6, <2>7, <3>1, <3>2, ChangeOK
  <2>8. CASE x.queue # <<>> /\ ctx' = [ctx EXCEPT ![session] = PlayQueue(x)] /\ UNCHANGED req
    <3>1. PICK y : y = PlayQueue(x)
      OBVIOUS
    <3>2. ContextOK(y) /\ Keeps(y) /\ y.crossed = k.crossed
      BY <2>6, <2>8, <3>1, PlayQueueOK
    <3>3. c \notin Waiting'
      BY <1>6, <2>8 DEF Waiting, Next_, Free, At
    <3>4. \A d \in Clients \ {c} : req'[d] = req[d]
      BY <2>8
    <3>5. ctx' = [ctx EXCEPT ![session] = y]
      BY <2>8, <3>1
    <3> QED
      BY <2>1, <2>3, <3>2, <3>3, <3>4, <3>5, ChangeOK
  <2> QED
    BY <2>4, <2>5, <2>7, <2>8
<1>7. ASSUME NEW c \in Clients, Advertise(c) \/ NoAds(c) \/ RandomSong(c) PROVE SessionsOK'
  <2>1. c \in Waiting
    BY <1>7 DEF Waiting, Advertise, NoAds, RandomSong, At
  <2>2. PICK x : x = req[c].id
    OBVIOUS
  <2>3. x \in DOMAIN ctx /\ ContextOK(ctx[x]) /\ Keeps(ctx[x]) /\ Ready(ctx[x])
    BY <2>1, <2>2 DEF ContextsOK, WaitingOK
  <2>4. PICK k : k = Crossed(c, x)
    OBVIOUS
  <2>5. /\ ContextOK(k) /\ Keeps(k) /\ Ready(k) /\ k.queue = ctx[x].queue
        /\ \A d \in Waiting \ {c} : req[d].id = x => k.crossed
    BY <2>3, <2>4, CrossedMarks, MarkedOK DEF Marked
  \* The object is changed, and the request answered
  <2>6. ASSUME NEW r, ctx' = [ctx EXCEPT ![x] = r], ContextOK(r), Keeps(r),
               r.crossed = k.crossed, Answered(c)
        PROVE  SessionsOK'
    <3>1. \A d \in Clients \ {c} : req'[d] = req[d]
      BY <2>6 DEF Answered
    <3>2. c \notin Waiting'
      BY <2>6, AnsweredIdle
    <3> QED
      BY <2>3, <2>5, <2>6, <3>1, <3>2, ChangeOK
  \* Nothing is changed
  <2>7. ASSUME UNCHANGED ctx, Answered(c) PROVE SessionsOK'
    <3>1. \A d \in Clients \ {c} : req'[d] = req[d]
      BY <2>7 DEF Answered
    <3>2. c \notin Waiting'
      BY <2>7, AnsweredIdle
    <3> QED
      BY <2>7, <3>1, <3>2, FrameOK
  <2>8. CASE Advertise(c)
    <3>1. PICK a \in Ads : ctx' = [ctx EXCEPT ![x] = [k EXCEPT !.ad = a]]
      BY <2>2, <2>4, <2>8 DEF Advertise, Offered
    <3>2. PICK r : r = [k EXCEPT !.ad = a]
      OBVIOUS
    <3>3. /\ r \in Context /\ r.cur = k.cur /\ r.queue = k.queue /\ r.hist = k.hist
          /\ r.count = k.count /\ r.crossed = k.crossed /\ r.kept = k.kept
      BY <2>5, <3>2 DEF ContextOK, Context
    <3>4. ContextOK(r) /\ Keeps(r)
      BY <2>5, <3>3 DEF ContextOK, Keeps, Ready, Settled, Covered
    <3>5. ctx' = [ctx EXCEPT ![x] = r] /\ Answered(c)
      BY <2>8, <3>1, <3>2 DEF Advertise
    <3> QED
      BY <2>6, <3>3, <3>4, <3>5
  <2>9. CASE NoAds(c)
    <3>1. CASE req' = [req EXCEPT ![c].step = "random"] /\ UNCHANGED ctx
      <4>1. \A d \in Clients \ {c} : req'[d] = req[d]
        BY <3>1
      <4>2. req'[c].id = req[c].id
        BY <3>1 DEF RequestsOK, Request
      <4> QED
        BY <2>1, <3>1, <4>1, <4>2, FrameOK
    <3>2. CASE k.queue # <<>> /\ ctx' = [ctx EXCEPT ![x] = PlayQueue(k)] /\ Answered(c)
      <4>1. PICK y : y = PlayQueue(k)
        OBVIOUS
      <4>2. ContextOK(y) /\ Keeps(y) /\ y.crossed = k.crossed
        BY <2>5, <3>2, <4>1, PlayQueueOK
      <4>3. ctx' = [ctx EXCEPT ![x] = y]
        BY <3>2, <4>1
      <4> QED
        BY <2>6, <3>2, <4>2, <4>3
    <3> QED
      BY <2>2, <2>4, <2>5, <2>9, <3>1, <3>2 DEF NoAds
  <2>10. CASE RandomSong(c)
    <3>1. CASE UNCHANGED ctx
      BY <2>7, <2>10, <3>1 DEF RandomSong
    <3>2. CASE \E s \in live : ctx' = [ctx EXCEPT ![x] = Play(k, s)]
      <4>1. PICK s \in live : ctx' = [ctx EXCEPT ![x] = Play(k, s)]
        BY <3>2
      <4>2. s \in Songs
        BY DEF RequestsOK
      <4>3. PICK y : y = Play(k, s)
        OBVIOUS
      <4>4. ContextOK(y) /\ Keeps(y) /\ y.crossed = k.crossed
        BY <2>5, <4>2, <4>3, PlayOK
      <4>5. ctx' = [ctx EXCEPT ![x] = y] /\ Answered(c)
        BY <2>10, <4>1, <4>3 DEF RandomSong
      <4> QED
        BY <2>6, <4>4, <4>5
    <3> QED
      BY <2>2, <2>4, <2>10, <3>1, <3>2 DEF RandomSong
  <2> QED
    BY <1>7, <2>8, <2>9, <2>10
<1>8. ASSUME NEW c \in Clients, Previous(c) \/ PlayFromQueue(c) PROVE SessionsOK'
  <2>1. session \in DOMAIN ctx /\ ContextOK(ctx[session]) /\ Keeps(ctx[session])
    BY <1>0, <1>8 DEF Previous, PlayFromQueue
  <2>2. PICK k : k = Changed(c)
    OBVIOUS
  <2>3. /\ ContextOK(k) /\ Keeps(k)
        /\ k.ad # None => k.crossed
        /\ k.hist = ctx[session].hist /\ k.queue = ctx[session].queue
        /\ \A d \in Waiting \ {c} : req[d].id = session => k.crossed
    BY <2>1, <2>2, ChangedMarks, MarkedOK DEF Marked
  <2>4. c \notin Waiting' /\ UNCHANGED req
    BY <1>8 DEF Waiting, Previous, PlayFromQueue, Free, At
  <2>5. ASSUME NEW r, ctx' = [ctx EXCEPT ![session] = r], ContextOK(r), Keeps(r),
               r.crossed = k.crossed
        PROVE  SessionsOK'
    <3>1. \A d \in Clients \ {c} : req'[d] = req[d]
      BY <2>4
    <3> QED
      BY <2>1, <2>3, <2>4, <2>5, <3>1, ChangeOK
  <2>6. CASE Previous(c)
    <3>1. PICK r : r = [k EXCEPT !.cur = Head(k.hist), !.hist = Tail(@), !.queue = <<k.cur>> \o @]
      OBVIOUS
    <3>2. ctx' = [ctx EXCEPT ![session] = r] /\ k.hist # <<>>
      BY <2>2, <2>3, <2>6, <3>1 DEF Previous
    <3>3. ContextOK(r) /\ Keeps(r) /\ r.crossed = k.crossed
      BY <2>3, <3>1, <3>2, PreviousOK
    <3> QED
      BY <2>5, <3>2, <3>3
  <2>7. CASE PlayFromQueue(c)
    <3>1. PICK i \in DOMAIN ctx[session].queue :
            ctx' = [ctx EXCEPT ![session] =
                [Remember(k, Passed(k, i), QueueCap) EXCEPT
                    !.cur = k.queue[i], !.queue = SubSeq(@, i + 1, Len(@))]]
      BY <2>2, <2>7 DEF PlayFromQueue
    <3>2. i \in DOMAIN k.queue
      BY <2>3
    <3>3. PICK r : r = [Remember(k, Passed(k, i), QueueCap) EXCEPT
                    !.cur = k.queue[i], !.queue = SubSeq(@, i + 1, Len(@))]
      OBVIOUS
    <3>4. ContextOK(r) /\ Keeps(r) /\ r.crossed = k.crossed
      BY <2>3, <3>2, <3>3, ChosenOK
    <3>5. ctx' = [ctx EXCEPT ![session] = r]
      BY <3>1, <3>3
    <3> QED
      BY <2>5, <3>4, <3>5
  <2> QED
    BY <1>8, <2>6, <2>7
<1>9. ASSUME NEW c \in Clients, AddSong(c) PROVE SessionsOK'
  <2>1. Answered(c) /\ UNCHANGED ctx
    BY <1>9 DEF AddSong
  <2>2. \A d \in Clients \ {c} : req'[d] = req[d]
    BY <2>1 DEF Answered
  <2>3. c \notin Waiting'
    BY <2>1, AnsweredIdle
  <2> QED
    BY <2>1, <2>2, <2>3, FrameOK
<1>10. CASE CreateList \/ RemoveSong \/ ReplaceList \/ DeleteList \/ ChangeAd \/ DeleteSong
  BY <1>1, <1>10 DEF CreateList, RemoveSong, ReplaceList, DeleteList, ChangeAd, DeleteSong
<1>11. CASE Restart
  <2>1. DOMAIN ctx' = {} /\ Waiting' = {}
    BY <1>11 DEF Restart, Waiting, Idle
  <2> QED
    BY <2>1 DEF ContextsOK, WaitingOK
<1>12. CASE UNCHANGED vars
  BY <1>1, <1>12 DEF vars
<1> QED
  BY <1>2, <1>3, <1>4, <1>5, <1>6, <1>7, <1>8, <1>9, <1>10, <1>11, <1>12 DEF Next

\* A client's requests are numbered downwards: one names no object twice
LEMMA IdsStep == RequestsOK /\ IdsOK /\ WaitingOK /\ [Next]_vars => IdsOK'
<1> SUFFICES ASSUME RequestsOK, IdsOK, WaitingOK, [Next]_vars PROVE IdsOK'
  OBVIOUS
<1>0. \A d \in Clients : left[d] \in Nat /\ req[d] \in Request /\ req[d].nr \in Nat
  BY DEF RequestsOK, Request
\* The objects stay, the session is one of them, and a start that waits is none
<1>1. ASSUME NEW c \in Clients, DOMAIN ctx' = DOMAIN ctx, session' \in DOMAIN ctx \cup {None},
             UNCHANGED left, \A d \in Clients \ {c} : req'[d] = req[d],
             req'[c].step \in {"playlist", "album"} =>
                req[c].step \in {"playlist", "album"} /\ req'[c].nr = req[c].nr
      PROVE  IdsOK'
  BY <1>1 DEF IdsOK
\* c asks, and a start that it asks for has the number of the request
<1>2. ASSUME NEW c \in Clients, DOMAIN ctx' = DOMAIN ctx, UNCHANGED session,
             Free(c), Asked(c), \A d \in Clients \ {c} : req'[d] = req[d],
             req'[c].step \in {"playlist", "album"} => req'[c].nr = left[c]
      PROVE  IdsOK'
  <2>1. \A d \in Clients : left'[d] = IF d = c THEN left[d] - 1 ELSE left[d]
    BY <1>2 DEF RequestsOK, Asked
  <2>2. \A d \in Clients, n \in Nat : <<d, n>> \in DOMAIN ctx' => left'[d] < n
    BY <1>0, <1>2, <2>1 DEF IdsOK
  <2>3. <<c, left[c]>> \notin DOMAIN ctx
    BY <1>0 DEF IdsOK
  <2>4. \A d \in Clients : req'[d].step \in {"playlist", "album"} =>
          left'[d] < req'[d].nr /\ <<d, req'[d].nr>> \notin DOMAIN ctx'
    BY <1>0, <1>2, <2>1, <2>3 DEF IdsOK
  <2> QED
    BY <1>2, <2>2, <2>4 DEF IdsOK
\* c makes the object n
<1>3. ASSUME NEW c \in Clients, NEW n \in Nat, NEW s, NEW q, Begin(<<c, n>>, s, q),
             \A d \in Clients : left'[d] \in Nat /\ left'[d] <= left[d], left'[c] < n,
             \A d \in Clients \ {c} : req'[d] = req[d] /\ left'[d] = left[d],
             req'[c].step = "idle"
      PROVE  IdsOK'
  <2>1. PICK x : x = <<c, n>>
    OBVIOUS
  <2>2. DOMAIN ctx' = DOMAIN ctx \cup {x} /\ session' = x
    BY <1>3, <2>1 DEF Begin, Saved
  <2>3. x \in Ids
    BY <2>1 DEF Ids
  <2>4. \A d \in Clients, m \in Nat : <<d, m>> \in DOMAIN ctx' => left'[d] < m
    <3> TAKE d \in Clients, m \in Nat
    <3>1. CASE <<d, m>> \in DOMAIN ctx
      <4>1. left[d] < m
        BY <3>1 DEF IdsOK
      <4> QED
        BY <1>0, <1>3, <4>1
    <3>2. CASE <<d, m>> = x
      BY <1>3, <2>1, <3>2
    <3> QED
      BY <2>2, <3>1, <3>2
  <2>5. \A d \in Clients : req'[d].step \in {"playlist", "album"} =>
          left'[d] < req'[d].nr /\ <<d, req'[d].nr>> \notin DOMAIN ctx'
    BY <1>3, <2>1, <2>2 DEF IdsOK
  <2> QED
    BY <2>2, <2>3, <2>4, <2>5 DEF IdsOK
<1>4. ASSUME NEW c \in Clients, StartSong(c) PROVE IdsOK'
  <2>1. PICK s \in Songs : Begin(<<c, left[c]>>, s, <<>>)
    BY <1>4 DEF StartSong
  <2>2. \A d \in Clients : left'[d] = IF d = c THEN left[d] - 1 ELSE left[d]
    BY <1>4 DEF RequestsOK, StartSong, Asked
  <2>3. left[c] > 0 /\ UNCHANGED req /\ req[c].step = "idle"
    BY <1>4 DEF StartSong, Free, At
  <2>4. (\A d \in Clients : left'[d] \in Nat /\ left'[d] <= left[d]) /\ left'[c] < left[c]
    BY <1>0, <2>2, <2>3
  <2> QED
    BY <1>0, <1>3, <2>1, <2>2, <2>3, <2>4
<1>5. ASSUME NEW c \in Clients, Start(c) PROVE IdsOK'
  <2>1. PICK s \in Songs, p \in Playlists, step \in {"playlist", "album"}, both \in BOOLEAN :
          req' = [req EXCEPT ![c] = [Idle EXCEPT !.step = step, !.nr = left[c], !.song = s,
                                                 !.list = p, !.both = both]]
    BY <1>5 DEF Start
  <2>2. [Idle EXCEPT !.step = step, !.nr = left[c], !.song = s, !.list = p, !.both = both].nr
          = left[c]
    BY DEF Idle
  <2>3. req'[c].nr = left[c] /\ \A d \in Clients \ {c} : req'[d] = req[d]
    BY <2>1, <2>2 DEF RequestsOK
  <2>4. Free(c) /\ Asked(c) /\ DOMAIN ctx' = DOMAIN ctx /\ UNCHANGED session
    BY <1>5 DEF Start
  <2> QED
    BY <1>2, <2>3, <2>4
<1>6. ASSUME NEW c \in Clients, Begin(<<c, req[c].nr>>, req[c].song, AlbumQueue(req[c].song))
                \/ Begin(<<c, req[c].nr>>, req[c].song,
                         Without(playlists[req[c].list].songs, req[c].song)),
             req[c].step \in {"playlist", "album"}, Answered(c), UNCHANGED left
      PROVE  IdsOK'
  <2>1. left[c] < req[c].nr
    BY <1>6 DEF IdsOK
  <2>2. (\A d \in Clients \ {c} : req'[d] = req[d]) /\ req'[c].step = "idle"
    BY <1>6, AnsweredIdle
  <2>3. \A d \in Clients : left'[d] \in Nat /\ left'[d] <= left[d]
    BY <1>0, <1>6
  <2> QED
    BY <1>0, <1>3, <1>6, <2>1, <2>2, <2>3
<1>7. ASSUME NEW c \in Clients, FetchPlaylist(c) PROVE IdsOK'
  <2>1. req[c].step = "playlist" /\ UNCHANGED left
    BY <1>7 DEF FetchPlaylist, At
  <2>2. CASE Begin(<<c, req[c].nr>>, req[c].song, Without(playlists[req[c].list].songs, req[c].song))
             /\ Answered(c)
    BY <1>6, <2>1, <2>2
  <2>3. CASE UNCHANGED <<ctx, session>> /\ Answered(c)
    <3>1. (\A d \in Clients \ {c} : req'[d] = req[d]) /\ req'[c].step = "idle"
      BY <2>3, AnsweredIdle
    <3> QED
      BY <1>1, <2>1, <2>3, <3>1 DEF IdsOK
  <2>4. CASE UNCHANGED <<ctx, session>> /\ req' = [req EXCEPT ![c].step = "album"]
    <3>1. (\A d \in Clients \ {c} : req'[d] = req[d]) /\ req'[c].nr = req[c].nr
      BY <1>0, <2>4 DEF RequestsOK, Request
    <3> QED
      BY <1>1, <2>1, <2>4, <3>1 DEF IdsOK
  <2> QED
    BY <1>7, <2>2, <2>3, <2>4 DEF FetchPlaylist
<1>8. ASSUME NEW c \in Clients, FetchAlbum(c) PROVE IdsOK'
  <2>1. req[c].step = "album" /\ UNCHANGED left /\ Answered(c)
    BY <1>8 DEF FetchAlbum, At
  <2>2. CASE Begin(<<c, req[c].nr>>, req[c].song, AlbumQueue(req[c].song))
    BY <1>6, <2>1, <2>2
  <2>3. CASE UNCHANGED <<ctx, session>>
    <3>1. (\A d \in Clients \ {c} : req'[d] = req[d]) /\ req'[c].step = "idle"
      BY <2>1, AnsweredIdle
    <3> QED
      BY <1>1, <2>1, <2>3, <3>1 DEF IdsOK
  <2> QED
    BY <1>8, <2>2, <2>3 DEF FetchAlbum
<1>9. ASSUME NEW c \in Clients, Next_(c) PROVE IdsOK'
  <2>1. Free(c) /\ Asked(c) /\ DOMAIN ctx' = DOMAIN ctx /\ UNCHANGED session
    BY <1>9 DEF Next_
  <2>2. UNCHANGED req \/ \E step \in {"ads", "random"} :
                            req' = [req EXCEPT ![c] = [Idle EXCEPT !.id = session, !.step = step]]
    BY <1>9 DEF Next_
  <2>3. \A step : [Idle EXCEPT !.id = session, !.step = step].step = step
    BY DEF Idle
  <2>4. (\A d \in Clients \ {c} : req'[d] = req[d]) /\ req'[c].step \notin {"playlist", "album"}
    BY <2>1, <2>2, <2>3 DEF RequestsOK, Free, At
  <2> QED
    BY <1>2, <2>1, <2>4
<1>10. ASSUME NEW c \in Clients, Advertise(c) \/ NoAds(c) \/ RandomSong(c) PROVE IdsOK'
  <2>1. c \in Waiting /\ UNCHANGED left
    BY <1>10 DEF Waiting, Advertise, NoAds, RandomSong, At
  <2>2. req[c].id \in DOMAIN ctx
    BY <2>1 DEF WaitingOK
  <2>3. DOMAIN ctx' = DOMAIN ctx /\ session' \in {session, req[c].id}
    BY <1>10 DEF Advertise, NoAds, RandomSong
  <2>4. Answered(c) \/ req' = [req EXCEPT ![c].step = "random"]
    BY <1>10 DEF Advertise, NoAds, RandomSong
  <2>5. req'[c].step \notin {"playlist", "album"}
    BY <1>0, <2>4, AnsweredIdle DEF RequestsOK, Request
  <2>6. \A d \in Clients \ {c} : req'[d] = req[d]
    <3>1. CASE Answered(c)
      BY <3>1, AnsweredIdle
    <3>2. CASE req' = [req EXCEPT ![c].step = "random"]
      BY <3>2
    <3> QED
      BY <2>4, <3>1, <3>2
  <2>7. session' \in DOMAIN ctx \cup {None}
    BY <2>2, <2>3 DEF IdsOK
  <2> QED
    BY <1>1, <2>1, <2>3, <2>5, <2>6, <2>7
<1>11. ASSUME NEW c \in Clients, Previous(c) \/ PlayFromQueue(c) PROVE IdsOK'
  <2>1. Free(c) /\ Asked(c) /\ DOMAIN ctx' = DOMAIN ctx /\ UNCHANGED <<session, req>>
    BY <1>11 DEF Previous, PlayFromQueue
  <2>2. req'[c].step = "idle"
    BY <2>1 DEF Free, At
  <2> QED
    BY <1>2, <2>1, <2>2
<1>12. ASSUME NEW c \in Clients, AskAdd(c) PROVE IdsOK'
  <2>1. PICK p \in Playlists, s \in live :
          req' = [req EXCEPT ![c] = [Idle EXCEPT !.step = "add", !.song = s, !.list = p]]
    BY <1>12 DEF AskAdd
  <2>2. [Idle EXCEPT !.step = "add", !.song = s, !.list = p].step = "add"
    BY DEF Idle
  <2>3. (\A d \in Clients \ {c} : req'[d] = req[d]) /\ req'[c].step = "add"
    BY <2>1, <2>2 DEF RequestsOK
  <2>4. Free(c) /\ Asked(c) /\ DOMAIN ctx' = DOMAIN ctx /\ UNCHANGED session
    BY <1>12 DEF AskAdd
  <2> QED
    BY <1>2, <2>3, <2>4
<1>13. ASSUME NEW c \in Clients, AddSong(c) PROVE IdsOK'
  <2>1. Answered(c) /\ UNCHANGED <<ctx, session, left>>
    BY <1>13 DEF AddSong
  <2>2. (\A d \in Clients \ {c} : req'[d] = req[d]) /\ req'[c].step = "idle"
    BY <2>1, AnsweredIdle
  <2> QED
    BY <1>1, <2>1, <2>2 DEF IdsOK
<1>14. CASE CreateList \/ RemoveSong \/ ReplaceList \/ DeleteList \/ ChangeAd \/ DeleteSong
  BY <1>14 DEF IdsOK, CreateList, RemoveSong, ReplaceList, DeleteList, ChangeAd, DeleteSong
<1>15. CASE Restart
  BY <1>15 DEF IdsOK, Restart, Idle
<1>16. CASE UNCHANGED vars
  BY <1>16 DEF IdsOK, vars
<1> QED
  BY <1>4, <1>5, <1>7, <1>8, <1>9, <1>10, <1>11, <1>12, <1>13, <1>14, <1>15, <1>16 DEF Next

\* What a playlist may become, and what the requests ask for
LEMMA LibraryStep == RequestsOK /\ LibraryOK /\ [Next]_vars => LibraryOK'
<1> SUFFICES ASSUME RequestsOK, LibraryOK, [Next]_vars PROVE LibraryOK'
  OBVIOUS
\* A request goes on, is answered, or asks for a song and a list that there are
<1>1. ASSUME NEW c \in Clients, UNCHANGED <<playlists, ads, edits>>, latest' \in Ids \cup {None},
             overtaken' \in BOOLEAN, \A d \in Clients \ {c} : req'[d] = req[d],
             req'[c].step \in {"playlist", "album", "add"} =>
                req'[c].list \in Playlists /\ req'[c].song \in Songs
      PROVE  LibraryOK'
  BY <1>1 DEF LibraryOK
<1>2. latest \in Ids \cup {None} /\ overtaken \in BOOLEAN
  BY DEF LibraryOK
<1>3. ASSUME NEW c \in Clients, NEW n \in Nat, NEW s, NEW q, Begin(<<c, n>>, s, q)
      PROVE  latest' \in Ids \cup {None} /\ overtaken' \in BOOLEAN
  BY <1>3, BeginId DEF RequestsOK
<1>4. ASSUME NEW c \in Clients, Answered(c)
      PROVE  req'[c].step = "idle" /\ \A d \in Clients \ {c} : req'[d] = req[d]
  BY <1>4, AnsweredIdle
<1>5. ASSUME NEW c \in Clients, StartSong(c) PROVE LibraryOK'
  <2>1. left[c] \in Nat
    BY DEF RequestsOK
  <2>2. latest' \in Ids \cup {None} /\ overtaken' \in BOOLEAN
    BY <1>3, <1>5, <2>1 DEF StartSong
  <2>3. UNCHANGED <<playlists, ads, edits, req>>
    BY <1>5 DEF StartSong, library
  <2> QED
    BY <2>2, <2>3 DEF LibraryOK
<1>6. ASSUME NEW c \in Clients, Start(c) PROVE LibraryOK'
  <2>1. PICK s \in Songs, p \in Playlists, step \in {"playlist", "album"}, both \in BOOLEAN :
          req' = [req EXCEPT ![c] = [Idle EXCEPT !.step = step, !.nr = left[c], !.song = s,
                                                 !.list = p, !.both = both]]
    BY <1>6 DEF Start
  <2>2. PICK r : r = [Idle EXCEPT !.step = step, !.nr = left[c], !.song = s,
                                  !.list = p, !.both = both]
    OBVIOUS
  <2>3. r.song = s /\ r.list = p
    BY <2>2 DEF Idle
  <2>4. req'[c] = r /\ \A d \in Clients \ {c} : req'[d] = req[d]
    BY <2>1, <2>2 DEF RequestsOK
  <2>5. UNCHANGED <<playlists, ads, edits, latest, overtaken>>
    BY <1>6 DEF Start, library
  <2> QED
    BY <1>1, <1>2, <2>1, <2>3, <2>4, <2>5
<1>7. ASSUME NEW c \in Clients, FetchPlaylist(c) PROVE LibraryOK'
  <2>1. req[c] \in Request /\ req[c].nr \in Nat /\ req[c].step = "playlist"
    BY <1>7 DEF RequestsOK, Request, FetchPlaylist, At
  <2>2. req[c].list \in Playlists /\ req[c].song \in Songs
    BY <2>1 DEF LibraryOK
  <2>3. UNCHANGED <<playlists, ads, edits>>
    BY <1>7 DEF FetchPlaylist, library
  <2>4. CASE Begin(<<c, req[c].nr>>, req[c].song, Without(playlists[req[c].list].songs, req[c].song))
             /\ Answered(c)
    BY <1>1, <1>3, <1>4, <2>1, <2>3, <2>4
  <2>5. CASE UNCHANGED <<latest, overtaken>> /\ Answered(c)
    BY <1>1, <1>2, <1>4, <2>3, <2>5
  <2>6. CASE UNCHANGED <<latest, overtaken>> /\ req' = [req EXCEPT ![c].step = "album"]
    <3>1. req'[c].list = req[c].list /\ req'[c].song = req[c].song
          /\ \A d \in Clients \ {c} : req'[d] = req[d]
      BY <2>1, <2>6 DEF RequestsOK, Request
    <3> QED
      BY <1>1, <1>2, <2>2, <2>3, <2>6, <3>1
  <2> QED
    BY <1>7, <2>4, <2>5, <2>6 DEF FetchPlaylist
<1>8. ASSUME NEW c \in Clients, FetchAlbum(c) PROVE LibraryOK'
  <2>1. req[c].nr \in Nat /\ Answered(c) /\ UNCHANGED <<playlists, ads, edits>>
    BY <1>8 DEF RequestsOK, Request, FetchAlbum, library
  <2>2. latest' \in Ids \cup {None} /\ overtaken' \in BOOLEAN
    BY <1>2, <1>3, <1>8, <2>1 DEF FetchAlbum
  <2> QED
    BY <1>1, <1>4, <2>1, <2>2
<1>9. ASSUME NEW c \in Clients, Next_(c) PROVE LibraryOK'
  <2>1. UNCHANGED req \/ \E step \in {"ads", "random"} :
                            req' = [req EXCEPT ![c] = [Idle EXCEPT !.id = session, !.step = step]]
    BY <1>9 DEF Next_
  <2>2. \A step : [Idle EXCEPT !.id = session, !.step = step].step = step
    BY DEF Idle
  <2>3. req[c].step = "idle" /\ UNCHANGED <<playlists, ads, edits, latest, overtaken>>
    BY <1>9 DEF Next_, library, Free, At
  <2>4. (\A d \in Clients \ {c} : req'[d] = req[d]) /\ req'[c].step \in {"idle", "ads", "random"}
    BY <2>1, <2>2, <2>3 DEF RequestsOK
  <2> QED
    BY <1>1, <1>2, <2>3, <2>4
<1>10. ASSUME NEW c \in Clients, Advertise(c) \/ NoAds(c) \/ RandomSong(c) PROVE LibraryOK'
  <2>1. UNCHANGED <<playlists, ads, edits, latest, overtaken>>
    BY <1>10 DEF Advertise, NoAds, RandomSong, library
  <2>2. CASE Answered(c)
    BY <1>1, <1>2, <1>4, <2>1, <2>2
  <2>3. CASE req' = [req EXCEPT ![c].step = "random"]
    <3>1. req'[c].step = "random" /\ \A d \in Clients \ {c} : req'[d] = req[d]
      BY <2>3 DEF RequestsOK, Request
    <3> QED
      BY <1>1, <1>2, <2>1, <3>1
  <2> QED
    BY <1>10, <2>2, <2>3 DEF Advertise, NoAds, RandomSong
<1>11. ASSUME NEW c \in Clients, Previous(c) \/ PlayFromQueue(c) PROVE LibraryOK'
  BY <1>11 DEF Previous, PlayFromQueue, library, LibraryOK
<1>12. ASSUME NEW c \in Clients, AskAdd(c) PROVE LibraryOK'
  <2>1. PICK p \in Playlists, s \in live :
          req' = [req EXCEPT ![c] = [Idle EXCEPT !.step = "add", !.song = s, !.list = p]]
    BY <1>12 DEF AskAdd
  <2>2. PICK r : r = [Idle EXCEPT !.step = "add", !.song = s, !.list = p]
    OBVIOUS
  <2>3. r.song \in Songs /\ r.list = p
    BY <2>2 DEF Idle, RequestsOK
  <2>4. req'[c] = r /\ \A d \in Clients \ {c} : req'[d] = req[d]
    BY <2>1, <2>2 DEF RequestsOK
  <2>5. UNCHANGED <<playlists, ads, edits, latest, overtaken>>
    BY <1>12 DEF AskAdd, library
  <2> QED
    BY <1>1, <1>2, <2>1, <2>3, <2>4, <2>5
\* A playlist gets other songs, or is made or deleted
<1>13. ASSUME NEW p \in Playlists, NEW l \in Playlist, Set(p, l)
       PROVE  playlists' \in [Playlists -> Playlist]
  BY <1>13 DEF LibraryOK, Set
<1>14. ASSUME NEW p \in Playlists, NEW songs \in Seq(Songs)
       PROVE  [playlists[p] EXCEPT !.songs = songs] \in Playlist
  BY DEF LibraryOK, Playlist
<1>15. ASSUME NEW c \in Clients, AddSong(c) PROVE LibraryOK'
  <2>1. Answered(c) /\ UNCHANGED <<ads, edits, latest, overtaken>> /\ req[c].step = "add"
    BY <1>15 DEF AddSong, At
  <2>2. req[c].list \in Playlists /\ req[c].song \in Songs
    BY <2>1 DEF LibraryOK
  <2>3. playlists[req[c].list].songs \in Seq(Songs)
    BY <2>2 DEF LibraryOK, Playlist
  <2>4. Append(playlists[req[c].list].songs, req[c].song) \in Seq(Songs)
    BY <2>2, <2>3
  <2>5. playlists' \in [Playlists -> Playlist]
    BY <1>13, <1>14, <1>15, <2>2, <2>4 DEF AddSong, LibraryOK
  <2>6. req'[c].step = "idle" /\ \A d \in Clients \ {c} : req'[d] = req[d]
    BY <1>4, <2>1
  <2> QED
    BY <2>1, <2>5, <2>6 DEF LibraryOK
\* The library changes underneath
<1>16. ASSUME Edit, ads' \in [Ads -> Ad], playlists' \in [Playlists -> Playlist],
              UNCHANGED <<req, latest, overtaken>>
       PROVE  LibraryOK'
  BY <1>16 DEF LibraryOK, Edit
<1>17. CASE CreateList
  <2>1. PICK p \in Playlists, new \in NewLists :
          Set(p, [playlists[p] EXCEPT !.made = TRUE, !.songs = new])
    BY <1>17 DEF CreateList
  <2>2. new \in Seq(Songs)
    BY ConstantsAssumption
  <2>3. [playlists[p] EXCEPT !.made = TRUE, !.songs = new] \in Playlist
    BY <2>2 DEF LibraryOK, Playlist
  <2> QED
    BY <1>13, <1>16, <1>17, <2>1, <2>3 DEF CreateList, LibraryOK
<1>18. CASE RemoveSong
  <2>1. PICK p \in Playlists, s \in Songs : Set(p, [playlists[p] EXCEPT !.songs = Without(@, s)])
    BY <1>18 DEF RemoveSong
  <2>2. Without(playlists[p].songs, s) \in Seq(Songs)
    BY PlaylistQueueOK
  <2>3. [playlists[p] EXCEPT !.songs = Without(@, s)] \in Playlist
    BY <1>14, <2>2
  <2> QED
    BY <1>13, <1>16, <1>18, <2>1, <2>3 DEF RemoveSong, LibraryOK
<1>19. CASE ReplaceList
  <2>1. PICK p \in Playlists, new \in NewLists : Set(p, [playlists[p] EXCEPT !.songs = new])
    BY <1>19 DEF ReplaceList
  <2>2. new \in Seq(Songs)
    BY ConstantsAssumption
  <2> QED
    BY <1>13, <1>14, <1>16, <1>19, <2>1, <2>2 DEF ReplaceList, LibraryOK
<1>20. CASE DeleteList
  <2>1. PICK p \in Playlists : Set(p, [playlists[p] EXCEPT !.deleted = TRUE])
    BY <1>20 DEF DeleteList
  <2>2. [playlists[p] EXCEPT !.deleted = TRUE] \in Playlist
    BY DEF LibraryOK, Playlist
  <2> QED
    BY <1>13, <1>16, <1>20, <2>1, <2>2 DEF DeleteList, LibraryOK
<1>21. CASE ChangeAd
  <2>1. PICK a \in Ads : \E new \in {[ads[a] EXCEPT !.active = TRUE],
                                      [ads[a] EXCEPT !.active = FALSE],
                                      [ads[a] EXCEPT !.deleted = TRUE]} :
          ads' = [ads EXCEPT ![a] = new]
    BY <1>21 DEF ChangeAd
  <2>2. ads[a] \in Ad
    BY DEF LibraryOK
  <2>3. \E new \in Ad : ads' = [ads EXCEPT ![a] = new]
    BY <2>1, <2>2 DEF Ad
  <2>4. ads' \in [Ads -> Ad]
    BY <2>3 DEF LibraryOK
  <2> QED
    BY <1>16, <1>21, <2>4 DEF ChangeAd, LibraryOK
<1>22. CASE DeleteSong
  BY <1>16, <1>22 DEF DeleteSong, LibraryOK
<1>23. CASE Restart
  <2>1. \A c \in Clients : req'[c].step = "idle"
    BY <1>23 DEF Restart, Idle
  <2>2. UNCHANGED <<playlists, ads>> /\ latest' = None /\ overtaken' = FALSE
    BY <1>23 DEF Restart, library
  <2>3. edits' \in Nat
    BY <1>23 DEF Restart, Edit, LibraryOK
  <2> QED
    BY <2>1, <2>2, <2>3 DEF LibraryOK
<1>24. CASE UNCHANGED vars
  BY <1>24 DEF vars, LibraryOK
<1> QED
  BY <1>5, <1>6, <1>7, <1>8, <1>9, <1>10, <1>11, <1>12, <1>15, <1>17, <1>18, <1>19, <1>20, <1>21,
     <1>22, <1>23, <1>24 DEF Next

-----------------------------------------------------------------------------
(* The theorems                                                            *)

IInv == RequestsOK /\ LibraryOK /\ IdsOK /\ SessionsOK

LEMMA IInvInit == Init => IInv
<1> SUFFICES ASSUME Init PROVE IInv
  OBVIOUS
<1>1. RequestsOK
  BY RequestsInit
<1>2. DOMAIN ctx = {} /\ Waiting = {} /\ \A c \in Clients : req[c].step = "idle"
  BY DEF Init, Waiting, Idle
<1>3. LibraryOK
  <2>1. PICK there \in SUBSET Playlists :
          playlists = [p \in Playlists |-> [made |-> p \in there, deleted |-> FALSE,
                                            songs |-> IF p \in there THEN InitialList ELSE <<>>]]
    BY DEF Init
  <2>2. \A p \in Playlists : (p \in there) \in BOOLEAN
    OBVIOUS
  <2>3. \A p \in Playlists : (IF p \in there THEN InitialList ELSE <<>>) \in Seq(Songs)
    BY ConstantsAssumption
  <2>4. playlists \in [Playlists -> Playlist]
    BY <2>1, <2>2, <2>3 DEF Playlist
  <2>5. ads \in [Ads -> Ad]
    BY DEF Init, Ad
  <2> QED
    BY <1>2, <2>4, <2>5, ConstantsAssumption DEF Init, LibraryOK
<1>4. IdsOK
  BY <1>2 DEF Init, IdsOK
<1>5. SessionsOK
  BY <1>2 DEF SessionsOK, ContextsOK, WaitingOK
<1> QED
  BY <1>1, <1>3, <1>4, <1>5 DEF IInv

LEMMA IInvStep == IInv /\ [Next]_vars => IInv'
<1> SUFFICES ASSUME IInv, [Next]_vars PROVE IInv'
  OBVIOUS
<1>1. RequestsOK'
  BY RequestsStep DEF IInv
<1>2. LibraryOK'
  BY LibraryStep DEF IInv
<1>3. IdsOK'
  BY IdsStep DEF IInv, SessionsOK
<1>4. SessionsOK'
  BY SessionsStep DEF IInv
<1> QED
  BY <1>1, <1>2, <1>3, <1>4 DEF IInv

LEMMA IInvImplies == IInv => TypeOK /\ NoSongLost
<1> SUFFICES ASSUME IInv PROVE TypeOK /\ NoSongLost
  OBVIOUS
<1>1. TypeOK
  BY DEF IInv, RequestsOK, LibraryOK, IdsOK, SessionsOK, ContextsOK, ContextOK, TypeOK
<1>2. NoSongLost
  BY DEF IInv, SessionsOK, ContextsOK, Keeps, NoSongLost
<1> QED
  BY <1>1, <1>2

\* The types of sessions, playlists and requests; the history is never longer than it
\* may be, nor the calls counted up to an advertisement that is not asked for
\* (PlayerService.getNextTrack and playFromQueue).
THEOREM TypeCorrect == Spec => []TypeOK
<1>1. Init => IInv
  BY IInvInit
<1>2. IInv /\ [Next]_vars => IInv'
  BY IInvStep
<1>3. IInv => TypeOK
  BY IInvImplies
<1> QED
  BY <1>1, <1>2, <1>3, PTL DEF Spec

\* What start queued stays to be heard or to go back to, in any order of requests on
\* any number of devices, but for what NoSongLost names (PlayerService).
THEOREM SongsCorrect == Spec => []NoSongLost
<1>1. Init => IInv
  BY IInvInit
<1>2. IInv /\ [Next]_vars => IInv'
  BY IInvStep
<1>3. IInv => NoSongLost
  BY IInvImplies
<1> QED
  BY <1>1, <1>2, <1>3, PTL DEF Spec

==============================================================================
