---------------------------- MODULE ReleaseProofs ----------------------------
(***************************************************************************)
(* Release for every number of songs, albums, followers, connections and   *)
(* chunks: types, that the albums' tracks and the songs' albums agree, and *)
(* that every follower is told once.                                       *)
(***************************************************************************)
EXTENDS Release, FiniteSetTheorems, WellFoundedInduction, TLAPS

-----------------------------------------------------------------------------
(* Requests and documents                                                  *)

CatalogOK ==
    /\ song \in [Songs -> Song]
    /\ tracks \in [Albums -> SUBSET Songs]
    /\ total \in [Albums -> Int]
    /\ req \in [Clients -> Request]
    /\ stale \in [Clients -> SUBSET Albums]
    /\ loose \subseteq Songs

\* A song that is being created is not there, and its creator is the only one; a song
\* that is updated, or announced, is there
Admitted(c) ==
    ~At(c, "idle") =>
        /\ At(c, "find") => req[c].op = "update"
        /\ At(c, "enqueue") => req[c].op = "create"
        /\ req[c].op = "create" /\ ~At(c, "enqueue") =>
              song[Sg(c)].state = "none" /\ req[c].old = None
        /\ req[c].op = "update" \/ At(c, "enqueue") => song[Sg(c)].state # "none"
        /\ req[c].op = "create" =>
              \A d \in Clients \ {c} :
                  ~At(d, "idle") /\ req[d].op = "create" => Sg(d) # Sg(c)

RequestsInv == \A c \in Clients : Admitted(c)

\* Tracks can be counted, and a song that is not there has no album
Countable ==
    /\ \A a \in Albums : IsFiniteSet(tracks[a])
    /\ \A s \in Songs : song[s].state = "none" => song[s].album = None

LEMMA IdleRequest == Idle \in Request /\ Idle.step = "idle"
<1>1. (CHOOSE s \in Songs : TRUE) \in Songs
  BY ConstantsAssumption
<1> QED
  BY <1>1 DEF Idle, Request, Dto

\* A step of c leaves the other requests alone
LEMMA GotoFrame ==
    ASSUME req \in [Clients -> Request], NEW c \in Clients,
           NEW to \in {"idle", "begin", "commit", "enqueue"}, Goto(c, to)
    PROVE  /\ req' \in [Clients -> Request] /\ req'[c].step = to
           /\ \A d \in Clients \ {c} : req'[d] = req[d]
           /\ to # "idle" => /\ req'[c].op = req[c].op /\ req'[c].song = req[c].song
                             /\ req'[c].dto = req[c].dto /\ req'[c].old = req[c].old
<1>1. CASE to = "idle"
  BY <1>1, IdleRequest DEF Goto
<1>2. CASE to # "idle"
  <2>1. req' = [req EXCEPT ![c] = [req[c] EXCEPT !.step = to]]
    BY <1>2 DEF Goto
  <2>2. [req[c] EXCEPT !.step = to] \in Request
    BY DEF Request
  <2>3. req'[c] = [req[c] EXCEPT !.step = to] /\ \A d \in Clients \ {c} : req'[d] = req[d]
    BY <2>1
  <2> QED
    BY <1>2, <2>1, <2>2, <2>3 DEF Request
<1> QED
  BY <1>1, <1>2

LEMMA WrittenOK ==
    ASSUME CatalogOK, NEW s \in Songs, NEW dto \in Dto
    PROVE  /\ Written(s, dto) \in Song
           /\ Written(s, dto).state # "none"
           /\ Written(s, dto).album = Field(dto.album, song[s].album)
<1>1. song[s] \in Song
  BY DEF CatalogOK
<1>2. /\ Field(dto.album, song[s].album) \in Albums \cup {None}
      /\ Field(dto.release, song[s].release) \in Releases
      /\ Field(dto.at, song[s].at) \in Dates \cup {None}
  BY <1>1 DEF Song, Dto, Field
<1>3. Written(s, dto) = [song[s] EXCEPT !.state = IF @ = "none" THEN "live" ELSE @,
                           !.album = Field(dto.album, @),
                           !.release = Field(dto.release, @), !.at = Field(dto.at, @)]
  BY DEF Written
<1> QED
  BY <1>1, <1>2, <1>3 DEF Song

\* The documents a commit writes
LEMMA CommitOK ==
    ASSUME CatalogOK, NEW c \in Clients, Commit(c)
    PROVE  /\ song' \in [Songs -> Song]
           /\ song'[Sg(c)] = Written(Sg(c), req[c].dto)
           /\ \A s \in Songs \ {Sg(c)} : song'[s] = song[s]
           /\ tracks' \in [Albums -> SUBSET Songs] /\ total' \in [Albums -> Int]
           /\ stale' \in [Clients -> SUBSET Albums] /\ loose' \subseteq Songs
           /\ Sg(c) \in Songs /\ req[c].dto \in Dto
<1>1. Sg(c) \in Songs /\ req[c].dto \in Dto /\ req[c].old \in Albums \cup {None}
  BY DEF CatalogOK, Request, Sg
<1>2. Written(Sg(c), req[c].dto) \in Song
  BY <1>1, WrittenOK
<1>3. song' = [song EXCEPT ![Sg(c)] = Written(Sg(c), req[c].dto)]
  BY DEF Commit
<1>4. Pulled(c) \subseteq Albums /\ Pushed(c) \subseteq Albums
  BY <1>1 DEF Pulled, Pushed, Leaves, Enters, Dto
<1>5. tracks' \in [Albums -> SUBSET Songs]
  BY <1>1 DEF Commit, CatalogOK
<1>6. total' \in [Albums -> Int]
  BY DEF Commit, CatalogOK
<1>7. stale' \in [Clients -> SUBSET Albums]
  <2>1. PICK f : f = Forget(stale, c)
    OBVIOUS
  <2>2. f \in [Clients -> SUBSET Albums]
    BY <2>1 DEF Forget, CatalogOK
  <2>3. stale' = Committed(f, Open \ {c}, Pulled(c) \cup Pushed(c))
    BY <2>1 DEF Commit
  <2> QED
    BY <1>4, <2>2, <2>3 DEF Committed
<1>8. loose' \subseteq Songs
  BY <1>1 DEF Commit, CatalogOK
<1> QED
  BY <1>1, <1>2, <1>3, <1>5, <1>6, <1>7, <1>8 DEF CatalogOK

\* The steps that change songs outside of a request
Moderation ==
    \/ \E s \in Songs : UpdateStatus(s) \/ RemoveSong(s) \/ Tick(s)
    \/ PublishDue

\* They leave the albums alone, and make no song and take none away
LEMMA ModerationKeeps ==
    ASSUME CatalogOK, Moderation
    PROVE  /\ song' \in [Songs -> Song] /\ UNCHANGED <<tracks, total, requests, loose>>
           /\ \A s \in Songs : /\ song'[s].state = "none" <=> song[s].state = "none"
                               /\ song'[s].album = song[s].album
<1> USE DEF CatalogOK
<1>1. ASSUME NEW s \in Songs, NEW doc \in Song, SetSong(s, doc), doc.album = song[s].album,
             doc.state = "none" <=> song[s].state = "none"
      PROVE  /\ song' \in [Songs -> Song] /\ UNCHANGED <<tracks, total, requests, loose>>
             /\ \A t \in Songs : /\ song'[t].state = "none" <=> song[t].state = "none"
                                 /\ song'[t].album = song[t].album
  BY <1>1 DEF SetSong
<1>2. ASSUME NEW s \in Songs
      PROVE  song[s] \in Song
  OBVIOUS
<1>3. ASSUME NEW s \in Songs, UpdateStatus(s)
      PROVE  /\ song' \in [Songs -> Song] /\ UNCHANGED <<tracks, total, requests, loose>>
             /\ \A t \in Songs : /\ song'[t].state = "none" <=> song[t].state = "none"
                                 /\ song'[t].album = song[t].album
  <2>1. PICK doc : doc = [song[s] EXCEPT !.active = ~@]
    OBVIOUS
  <2>2. doc \in Song /\ doc.album = song[s].album /\ doc.state = song[s].state
    BY <1>2, <2>1 DEF Song
  <2> QED
    BY <1>1, <1>3, <2>1, <2>2 DEF UpdateStatus
<1>4. ASSUME NEW s \in Songs, RemoveSong(s)
      PROVE  /\ song' \in [Songs -> Song] /\ UNCHANGED <<tracks, total, requests, loose>>
             /\ \A t \in Songs : /\ song'[t].state = "none" <=> song[t].state = "none"
                                 /\ song'[t].album = song[t].album
  <2>1. PICK doc : doc = [song[s] EXCEPT !.state = "deleted"]
    OBVIOUS
  <2>2. doc \in Song /\ doc.album = song[s].album /\ doc.state = "deleted"
    BY <1>2, <2>1 DEF Song
  <2>3. song[s].state = "live" /\ SetSong(s, doc)
    BY <1>4, <2>1 DEF RemoveSong, Free
  <2> QED
    BY <1>1, <2>2, <2>3
<1>5. ASSUME NEW s \in Songs, Tick(s)
      PROVE  /\ song' \in [Songs -> Song] /\ UNCHANGED <<tracks, total, requests, loose>>
             /\ \A t \in Songs : /\ song'[t].state = "none" <=> song[t].state = "none"
                                 /\ song'[t].album = song[t].album
  <2>1. PICK doc : doc = [song[s] EXCEPT !.at = "past"]
    OBVIOUS
  <2>2. doc \in Song /\ doc.album = song[s].album /\ doc.state = song[s].state
    BY <1>2, <2>1 DEF Song, Dates
  <2> QED
    BY <1>1, <1>5, <2>1, <2>2 DEF Tick
<1>6. ASSUME PublishDue
      PROVE  /\ song' \in [Songs -> Song] /\ UNCHANGED <<tracks, total, requests, loose>>
             /\ \A t \in Songs : /\ song'[t].state = "none" <=> song[t].state = "none"
                                 /\ song'[t].album = song[t].album
  <2>1. song' = [s \in Songs |-> IF Due(s) THEN [song[s] EXCEPT !.release = "PUBLISHED"]
                                 ELSE song[s]]
    BY <1>6 DEF PublishDue
  <2>2. \A s \in Songs : /\ [song[s] EXCEPT !.release = "PUBLISHED"] \in Song
                         /\ [song[s] EXCEPT !.release = "PUBLISHED"].state = song[s].state
                         /\ [song[s] EXCEPT !.release = "PUBLISHED"].album = song[s].album
    BY <1>2 DEF Song, Releases
  <2>3. UNCHANGED <<tracks, total, requests, loose>>
    BY <1>6 DEF PublishDue
  <2> QED
    BY <1>2, <2>1, <2>2, <2>3
<1> QED
  BY <1>3, <1>4, <1>5, <1>6 DEF Moderation

\* The steps of the cron, of the followers, of the jobs and of the sockets
Elsewhere ==
    \/ FindScheduled \/ NotifyFollowersBatch \/ CronFails
    \/ \E u \in Users : Follow(u) \/ Unfollow(u) \/ \E s \in Songs : SendPush(s, u)
    \/ \E s \in Songs : RunJob(s) \/ JobFails(s)
    \/ \E k \in Sockets : Connect(k) \/ Disconnect(k)

LEMMA ElsewhereKeeps == Elsewhere => UNCHANGED <<catalog, requests, loose>>
  BY DEF Elsewhere, FindScheduled, NotifyFollowersBatch, CronFails, Follow, Unfollow, SendPush,
         RunJob, StartJob, ReadPage, InsertPage, PushPage, JobFails, Connect, Disconnect

\* The steps of a request before and after its commit
LEMMA Cases ==
    [Next]_vars =>
        \/ UNCHANGED vars \/ Moderation \/ Elsewhere
        \/ \E c \in Clients :
            \/ \E o \in {"create", "update"}, offer \in Offers[c] : Send(c, o, offer[1], offer[2])
            \/ FindSong(c) \/ Begin(c) \/ Enqueue(c) \/ Fail(c) \/ Abort(c) \/ Commit(c)
  BY DEF Next, Moderation, Elsewhere, EndTransaction, Autopublish

LEMMA SendOK ==
    ASSUME CatalogOK, NEW c \in Clients, NEW o \in {"create", "update"},
           NEW offer \in Offers[c], Send(c, o, offer[1], offer[2])
    PROVE  /\ offer[1] \in Songs
           /\ req' \in [Clients -> Request]
           /\ \A d \in Clients \ {c} : req'[d] = req[d]
           /\ req'[c].step = (IF o = "create" THEN "begin" ELSE "find")
           /\ req'[c].op = o /\ req'[c].song = offer[1] /\ req'[c].old = None
<1>1. PICK s, dto : s = offer[1] /\ dto = offer[2]
  OBVIOUS
<1>2. s \in Songs /\ dto \in Dto
  BY <1>1, ConstantsAssumption
<1>3. PICK r : r = [Idle EXCEPT !.step = IF o = "create" THEN "begin" ELSE "find",
                                !.op = o, !.song = s, !.dto = dto]
  OBVIOUS
<1>4. Idle.old = None
  BY DEF Idle
<1>5. /\ r \in Request /\ r.step = (IF o = "create" THEN "begin" ELSE "find")
      /\ r.op = o /\ r.song = s /\ r.old = None
  BY <1>2, <1>3, <1>4, IdleRequest DEF Request
<1>6. req' = [req EXCEPT ![c] = r]
  BY <1>1, <1>3 DEF Send
<1> QED
  BY <1>1, <1>2, <1>5, <1>6 DEF CatalogOK

LEMMA CatalogStep == CatalogOK /\ [Next]_vars => CatalogOK'
<1> SUFFICES ASSUME CatalogOK, [Next]_vars PROVE CatalogOK'
  OBVIOUS
<1>1. CASE UNCHANGED vars
  BY <1>1 DEF vars, CatalogOK
<1>2. CASE Moderation
  BY <1>2, ModerationKeeps DEF CatalogOK, requests
<1>3. CASE Elsewhere
  BY <1>3, ElsewhereKeeps DEF CatalogOK, catalog, requests
<1>4. ASSUME NEW c \in Clients, NEW o \in {"create", "update"}, NEW offer \in Offers[c],
             Send(c, o, offer[1], offer[2])
      PROVE  CatalogOK'
  <2>1. req' \in [Clients -> Request]
    BY <1>4, SendOK
  <2>2. UNCHANGED <<song, tracks, total, stale, loose>>
    BY <1>4 DEF Send, catalog
  <2> QED
    BY <2>1, <2>2 DEF CatalogOK
<1>5. ASSUME NEW c \in Clients, FindSong(c) PROVE CatalogOK'
  <2>1. [req[c] EXCEPT !.step = "begin", !.old = song[Sg(c)].album] \in Request
    BY DEF CatalogOK, Request, Song, Sg
  <2> QED
    BY <1>5, <2>1 DEF FindSong, CatalogOK, catalog
<1>6. ASSUME NEW c \in Clients, Begin(c) PROVE CatalogOK'
  BY <1>6, GotoFrame DEF Begin, CatalogOK, catalog
<1>7. ASSUME NEW c \in Clients, Enqueue(c) PROVE CatalogOK'
  BY <1>7, GotoFrame DEF Enqueue, CatalogOK, catalog
<1>8. ASSUME NEW c \in Clients, Fail(c) \/ Abort(c) PROVE CatalogOK'
  <2>1. Goto(c, "idle") /\ stale' = Forget(stale, c) /\ UNCHANGED <<song, tracks, total, loose>>
    BY <1>8 DEF Fail, Abort, catalog
  <2> QED
    BY <2>1, GotoFrame DEF CatalogOK, Forget
<1>9. ASSUME NEW c \in Clients, Commit(c) PROVE CatalogOK'
  <2>1. Goto(c, "enqueue") \/ Goto(c, "idle")
    BY <1>9 DEF Commit
  <2>2. req' \in [Clients -> Request]
    BY <2>1, GotoFrame DEF CatalogOK
  <2> QED
    BY <1>9, <2>2, CommitOK DEF CatalogOK
<1> QED
  BY <1>1, <1>2, <1>3, <1>4, <1>5, <1>6, <1>7, <1>8, <1>9, Cases

\* A step of c changes no other request; which songs there are changes by a commit
LEMMA RequestsStep == CatalogOK /\ RequestsInv /\ [Next]_vars => RequestsInv'
<1> SUFFICES ASSUME CatalogOK, RequestsInv, [Next]_vars PROVE RequestsInv'
  OBVIOUS
<1>0. \A c \in Clients : req[c] \in Request /\ Sg(c) \in Songs
  BY DEF CatalogOK, Request, Sg
<1>1. ASSUME UNCHANGED req, \A s \in Songs : song'[s].state = "none" <=> song[s].state = "none"
      PROVE  RequestsInv'
  BY <1>0, <1>1 DEF RequestsInv, Admitted, At, Sg
<1>2. ASSUME NEW c \in Clients, \A d \in Clients \ {c} : req'[d] = req[d],
             \A d \in Clients \ {c} : ~At(d, "idle") =>
                (song'[Sg(d)].state = "none" <=> song[Sg(d)].state = "none"),
             Admitted(c)'
      PROVE  RequestsInv'
  BY <1>0, <1>2 DEF RequestsInv, Admitted, At, Sg
<1>3. ASSUME NEW c \in Clients, \A d \in Clients \ {c} : req'[d] = req[d], UNCHANGED song,
             req'[c].step = "idle"
      PROVE  RequestsInv'
  <2>1. Admitted(c)'
    BY <1>3 DEF Admitted, At
  <2> QED
    BY <1>2, <1>3, <2>1
<1>4. CASE UNCHANGED vars
  BY <1>1, <1>4 DEF vars
<1>5. CASE Moderation
  BY <1>1, <1>5, ModerationKeeps DEF requests
<1>6. CASE Elsewhere
  BY <1>1, <1>6, ElsewhereKeeps DEF catalog, requests
<1>7. ASSUME NEW c \in Clients, NEW o \in {"create", "update"}, NEW offer \in Offers[c],
             Send(c, o, offer[1], offer[2])
      PROVE  RequestsInv'
  <2>1. /\ \A d \in Clients \ {c} : req'[d] = req[d]
        /\ req'[c].step = (IF o = "create" THEN "begin" ELSE "find")
        /\ req'[c].op = o /\ req'[c].song = offer[1] /\ req'[c].old = None
    BY <1>7, SendOK
  <2>2. UNCHANGED song
    BY <1>7 DEF Send, catalog
  <2>3. CASE o = "create"
    <3>1. song[offer[1]].state = "none" /\ \A d \in Clients : At(d, "idle") \/ Sg(d) # offer[1]
      BY <1>7, <2>3 DEF Send
    <3>2. Admitted(c)'
      BY <2>1, <2>2, <2>3, <3>1 DEF Admitted, At, Sg
    <3> QED
      BY <1>2, <2>1, <2>2, <3>2
  <2>4. CASE o = "update"
    <3>1. song[offer[1]].state # "none"
      BY <1>7, <2>4 DEF Send
    <3>2. Admitted(c)'
      BY <2>1, <2>2, <2>4, <3>1 DEF Admitted, At, Sg
    <3> QED
      BY <1>2, <2>1, <2>2, <3>2
  <2> QED
    BY <2>3, <2>4
<1>8. ASSUME NEW c \in Clients, FindSong(c) PROVE RequestsInv'
  <2>1. UNCHANGED song /\ At(c, "find")
    BY <1>8 DEF FindSong, catalog
  <2>2. /\ req' = [req EXCEPT ![c] = [req[c] EXCEPT !.step = "begin", !.old = song[Sg(c)].album]]
    BY <1>8 DEF FindSong
  <2>3. /\ req'[c].step = "begin" /\ req'[c].op = req[c].op /\ req'[c].song = req[c].song
        /\ \A d \in Clients \ {c} : req'[d] = req[d]
    BY <1>0, <2>2 DEF CatalogOK, Request
  <2>4. req[c].op = "update" /\ song[Sg(c)].state # "none"
    BY <2>1 DEF RequestsInv, Admitted, At
  <2>5. Admitted(c)'
    BY <2>1, <2>3, <2>4 DEF Admitted, At, Sg
  <2> QED
    BY <1>2, <2>1, <2>3, <2>5
<1>9. ASSUME NEW c \in Clients, Begin(c) PROVE RequestsInv'
  <2>1. UNCHANGED song /\ At(c, "begin")
    BY <1>9 DEF Begin, catalog
  <2>2. CASE Goto(c, "idle")
    BY <1>3, <2>1, <2>2, GotoFrame DEF CatalogOK
  <2>3. CASE Goto(c, "commit")
    <3>1. /\ req'[c].step = "commit" /\ req'[c].op = req[c].op /\ req'[c].song = req[c].song
          /\ req'[c].old = req[c].old
          /\ \A d \in Clients \ {c} : req'[d] = req[d]
      BY <2>3, GotoFrame DEF CatalogOK
    <3>2. Admitted(c)'
      BY <2>1, <3>1 DEF RequestsInv, Admitted, At, Sg
    <3> QED
      BY <1>2, <2>1, <3>1, <3>2
  <2> QED
    BY <1>9, <2>2, <2>3 DEF Begin
<1>10. ASSUME NEW c \in Clients, Enqueue(c) \/ Fail(c) \/ Abort(c) PROVE RequestsInv'
  <2>1. UNCHANGED song /\ Goto(c, "idle")
    BY <1>10 DEF Enqueue, Fail, Abort, catalog
  <2> QED
    BY <1>3, <2>1, GotoFrame DEF CatalogOK
<1>11. ASSUME NEW c \in Clients, Commit(c) PROVE RequestsInv'
  <2>1. /\ song'[Sg(c)] = Written(Sg(c), req[c].dto)
        /\ \A s \in Songs \ {Sg(c)} : song'[s] = song[s]
        /\ Sg(c) \in Songs /\ req[c].dto \in Dto
    BY <1>11, CommitOK
  <2>2. song'[Sg(c)].state # "none"
    BY <2>1, WrittenOK
  <2>3. At(c, "commit")
    BY <1>11 DEF Commit
  \* Nobody else is about to create the song, so those who know it know it is there
  <2>4. \A d \in Clients \ {c} : ~At(d, "idle") =>
          (song'[Sg(d)].state = "none" <=> song[Sg(d)].state = "none")
    <3> SUFFICES ASSUME NEW d \in Clients \ {c}, ~At(d, "idle"), Sg(d) = Sg(c)
                 PROVE  song[Sg(d)].state # "none"
      BY <1>0, <2>1, <2>2
    <3>1. Admitted(c) /\ Admitted(d) /\ req[c].op \in {"create", "update"}
          /\ req[d].op \in {"create", "update"}
      BY <1>0 DEF RequestsInv, Request
    <3> QED
      BY <2>3, <3>1 DEF Admitted, At
  <2>5. CASE Goto(c, "idle")
    <3>1. req'[c].step = "idle" /\ \A d \in Clients \ {c} : req'[d] = req[d]
      BY <2>5, GotoFrame DEF CatalogOK
    <3>2. Admitted(c)'
      BY <3>1 DEF Admitted, At
    <3> QED
      BY <1>2, <2>4, <3>1, <3>2
  <2>6. CASE Goto(c, "enqueue") /\ req[c].op = "create"
    <3>1. /\ req'[c].step = "enqueue" /\ req'[c].op = req[c].op /\ req'[c].song = req[c].song
          /\ \A d \in Clients \ {c} : req'[d] = req[d]
      BY <2>6, GotoFrame DEF CatalogOK
    <3>2. Admitted(c)'
      BY <2>2, <2>3, <2>6, <3>1 DEF RequestsInv, Admitted, At, Sg
    <3> QED
      BY <1>2, <2>4, <3>1, <3>2
  <2> QED
    BY <1>11, <2>5, <2>6 DEF Commit
<1> QED
  BY <1>4, <1>5, <1>6, <1>7, <1>8, <1>9, <1>10, <1>11, Cases

-----------------------------------------------------------------------------
(* Tracks and albums                                                       *)

\* A commit adds the song to the tracks of one album and to its total, and takes it
\* from another's
LEMMA CountStep ==
    ASSUME CatalogOK, Countable, TrackLists, NEW c \in Clients, Commit(c), NEW a \in Albums
    PROVE  IsFiniteSet(tracks'[a]) /\ total'[a] = Cardinality(tracks'[a])
<1>1. IsFiniteSet(tracks[a]) /\ total[a] = Cardinality(tracks[a]) /\ total[a] \in Int
  BY DEF CatalogOK, Countable, TrackLists
<1>2. tracks'[a] = IF a \in Pushed(c) THEN tracks[a] \cup {Sg(c)}
                   ELSE IF a \in Pulled(c) THEN tracks[a] \ {Sg(c)} ELSE tracks[a]
  BY DEF Commit
<1>3. total'[a] = total[a] + (IF a \in Pushed(c) THEN 1 ELSE IF a \in Pulled(c) THEN -1 ELSE 0)
  BY DEF Commit
<1>4. (a \in Pushed(c) => Sg(c) \notin tracks[a]) /\ (a \in Pulled(c) => Sg(c) \in tracks[a])
  BY DEF Pushed, Pulled
<1>5. CASE a \in Pushed(c)
  <2>1. IsFiniteSet(tracks[a] \cup {Sg(c)})
        /\ Cardinality(tracks[a] \cup {Sg(c)}) = Cardinality(tracks[a]) + 1
    BY <1>1, <1>4, <1>5, FS_AddElement
  <2> QED
    BY <1>1, <1>2, <1>3, <1>5, <2>1
<1>6. CASE a \notin Pushed(c) /\ a \in Pulled(c)
  <2>1. IsFiniteSet(tracks[a] \ {Sg(c)})
        /\ Cardinality(tracks[a] \ {Sg(c)}) = Cardinality(tracks[a]) - 1
    BY <1>1, <1>4, <1>6, FS_RemoveElement
  <2> QED
    BY <1>1, <1>2, <1>3, <1>6, <2>1
<1>7. CASE a \notin Pushed(c) /\ a \notin Pulled(c)
  BY <1>1, <1>2, <1>3, <1>7
<1> QED
  BY <1>5, <1>6, <1>7

\* and the song's own album agrees, unless the song is loose
LEMMA AlbumStep ==
    ASSUME CatalogOK, RequestsInv, Countable, TrackLists, NEW c \in Clients, Commit(c),
           NEW a \in Albums, NEW s \in Songs \ loose'
    PROVE  s \in tracks'[a] <=> song'[s].album = a
<1>1. /\ song'[Sg(c)] = Written(Sg(c), req[c].dto)
      /\ \A t \in Songs \ {Sg(c)} : song'[t] = song[t]
      /\ Sg(c) \in Songs /\ req[c].dto \in Dto
  BY CommitOK
<1>2. s \notin loose /\ (s \in tracks[a] <=> song[s].album = a)
  BY DEF Commit, TrackLists
<1>3. tracks'[a] = IF a \in Pushed(c) THEN tracks[a] \cup {Sg(c)}
                   ELSE IF a \in Pulled(c) THEN tracks[a] \ {Sg(c)} ELSE tracks[a]
  BY DEF Commit
<1>4. CASE s # Sg(c)
  BY <1>1, <1>2, <1>3, <1>4
<1>5. CASE s = Sg(c)
  <2>1. song'[s].album = Field(req[c].dto.album, song[s].album)
    BY <1>1, <1>5, WrittenOK
  <2>2. ~Loosens(c)
    BY <1>5 DEF Commit
  <2>3. a # None /\ req[c].op \in {"create", "update"}
    BY ConstantsAssumption DEF CatalogOK, Request
  <2>4. req[c].old = song[s].album
    <3>1. CASE req[c].op = "create"
      <4>1. song[s].state = "none" /\ req[c].old = None
        BY <1>5, <3>1 DEF Commit, RequestsInv, Admitted, At
      <4> QED
        BY <4>1 DEF Countable
    <3>2. CASE req[c].op = "update"
      BY <1>5, <2>2, <3>2 DEF Loosens
    <3> QED
      BY <2>3, <3>1, <3>2
  <2>5. req[c].old = None \/ req[c].dto.album # None
    <3>1. CASE req[c].op = "create"
      BY <1>5, <3>1 DEF Commit, RequestsInv, Admitted, At
    <3>2. CASE req[c].op = "update"
      BY <2>2, <3>2 DEF Loosens
    <3> QED
      BY <2>3, <3>1, <3>2
  <2>6. a \in Pushed(c) <=> /\ a = req[c].dto.album /\ a # song[s].album /\ s \notin tracks[a]
    BY <1>5, <2>3, <2>4 DEF Pushed, Enters
  <2>7. a \in Pulled(c) <=> /\ a = song[s].album /\ a # req[c].dto.album /\ s \in tracks[a]
    BY <1>5, <2>3, <2>4 DEF Pulled, Leaves
  <2> QED
    BY <1>2, <1>3, <1>5, <2>1, <2>3, <2>4, <2>5, <2>6, <2>7 DEF Field
<1> QED
  BY <1>4, <1>5

LEMMA TracksStep ==
    CatalogOK /\ RequestsInv /\ Countable /\ TrackLists /\ [Next]_vars => (Countable /\ TrackLists)'
<1> SUFFICES ASSUME CatalogOK, RequestsInv, Countable, TrackLists, [Next]_vars
             PROVE  (Countable /\ TrackLists)'
  OBVIOUS
<1>1. ASSUME UNCHANGED <<tracks, total, loose>>,
             \A s \in Songs : /\ song'[s].state = "none" <=> song[s].state = "none"
                              /\ song'[s].album = song[s].album
      PROVE  (Countable /\ TrackLists)'
  BY <1>1 DEF Countable, TrackLists
<1>2. CASE UNCHANGED vars
  BY <1>1, <1>2 DEF vars
<1>3. CASE Moderation
  BY <1>1, <1>3, ModerationKeeps
<1>4. CASE Elsewhere
  BY <1>1, <1>4, ElsewhereKeeps DEF catalog
<1>5. ASSUME NEW c \in Clients,
             \/ \E o \in {"create", "update"}, offer \in Offers[c] : Send(c, o, offer[1], offer[2])
             \/ FindSong(c) \/ Begin(c) \/ Enqueue(c) \/ Fail(c) \/ Abort(c)
      PROVE  (Countable /\ TrackLists)'
  <2>1. UNCHANGED <<catalog, loose>>
    BY <1>5 DEF Send, FindSong, Begin, Enqueue, Fail, Abort
  <2> QED
    BY <1>1, <2>1 DEF catalog
<1>6. ASSUME NEW c \in Clients, Commit(c) PROVE (Countable /\ TrackLists)'
  <2>1. \A s \in Songs : song'[s].state = "none" => song'[s].album = None
    BY <1>6, CommitOK, WrittenOK DEF Countable
  <2>2. Countable'
    BY <1>6, <2>1, CountStep DEF Countable
  <2>3. TrackLists'
    BY <1>6, CountStep, AlbumStep DEF TrackLists
  <2> QED
    BY <2>2, <2>3
<1> QED
  BY <1>2, <1>3, <1>4, <1>5, <1>6, Cases

CatalogInv == CatalogOK /\ RequestsInv /\ Countable /\ TrackLists

LEMMA CatalogInit == Init => CatalogInv
<1> SUFFICES ASSUME Init PROVE CatalogInv
  OBVIOUS
<1>1. CatalogOK
  <2>1. [state |-> "none", release |-> "DRAFT", at |-> None, active |-> TRUE, album |-> None] \in Song
    BY DEF Song, Releases
  <2> QED
    BY <2>1, IdleRequest DEF Init, CatalogOK
<1>2. RequestsInv
  BY IdleRequest DEF Init, RequestsInv, Admitted, At
<1>3. \A a \in Albums : tracks[a] = {} /\ total[a] = 0
  BY DEF Init
<1>4. \A s \in Songs : song[s].album = None
  BY DEF Init
<1>5. Countable /\ TrackLists
  BY <1>3, <1>4, FS_EmptySet, ConstantsAssumption DEF Countable, TrackLists
<1> QED
  BY <1>1, <1>2, <1>5 DEF CatalogInv

LEMMA CatalogInvStep == CatalogInv /\ [Next]_vars => CatalogInv'
  BY CatalogStep, RequestsStep, TracksStep DEF CatalogInv

\* total_songs is the number of tracks, and the tracks and the songs' albums agree, but
\* for the updates the property names, whatever the requests of any number of
\* connections do to one another (SongService.create and update).
THEOREM TracksCorrect == Spec => []TrackLists
<1>1. CatalogInv => TrackLists
  BY DEF CatalogInv
<1> QED
  BY <1>1, CatalogInit, CatalogInvStep, PTL DEF Spec

-----------------------------------------------------------------------------
(* The fan-out of a song                                                   *)

\* A set of positions has a last one, and a first one
LEMMA LastExists ==
    ASSUME NEW n \in Nat, NEW T \in SUBSET (1..n), T # {}
    PROVE  \E i \in T : \A j \in T : j <= i
<1> DEFINE V == {i..n : i \in T}
<1>1. \A i \in T : i..n \in SUBSET (1..n)
  OBVIOUS
<1>2. V \subseteq FiniteSubsetsOf(1..n)
  BY <1>1, FS_Interval, FS_FiniteSubsetsOfFinite
<1>3. V # {}
  OBVIOUS
<1>4. PICK X \in V : \A Y \in V : ~(<<Y, X>> \in StrictSubsetOrdering(1..n))
  <2> HIDE DEF V
  <2> QED
    BY <1>2, <1>3, FS_StrictSubsetOrderingWellFounded, WFMin
<1>5. PICK i \in T : X = i..n
  OBVIOUS
<1>6. \A j \in T : j > i => (j..n) \subseteq (i..n) /\ j..n # i..n
  OBVIOUS
<1>7. \A j \in T : j > i => <<j..n, X>> \in StrictSubsetOrdering(1..n)
  BY <1>1, <1>5, <1>6 DEF StrictSubsetOrdering
<1>8. \A j \in T : ~(j > i)
  BY <1>4, <1>7
<1> QED
  BY <1>8

LEMMA FirstExists ==
    ASSUME NEW n \in Nat, NEW T \in SUBSET (1..n), T # {}
    PROVE  \E i \in T : \A j \in T : i <= j
<1> DEFINE V == {1..i : i \in T}
<1>1. \A i \in T : 1..i \in SUBSET (1..n)
  OBVIOUS
<1>2. V \subseteq FiniteSubsetsOf(1..n)
  BY <1>1, FS_Interval, FS_FiniteSubsetsOfFinite
<1>3. V # {}
  OBVIOUS
<1>4. PICK X \in V : \A Y \in V : ~(<<Y, X>> \in StrictSubsetOrdering(1..n))
  <2> HIDE DEF V
  <2> QED
    BY <1>2, <1>3, FS_StrictSubsetOrderingWellFounded, WFMin
<1>5. PICK i \in T : X = 1..i
  OBVIOUS
<1>6. \A j \in T : j < i => (1..j) \subseteq (1..i) /\ 1..j # 1..i
  OBVIOUS
<1>7. \A j \in T : j < i => <<1..j, X>> \in StrictSubsetOrdering(1..n)
  BY <1>1, <1>5, <1>6 DEF StrictSubsetOrdering
<1>8. \A j \in T : ~(j < i)
  BY <1>4, <1>7
<1> QED
  BY <1>8

\* A page has every document from the cursor up to any of its own, and is empty only
\* when there is none left
LEMMA PageOK ==
    ASSUME NEW cursor \in Nat, Len(follows) \in Nat
    PROVE  /\ Page(cursor) \subseteq After(cursor)
           /\ \A i \in Page(cursor), j \in After(cursor) : j <= i => j \in Page(cursor)
           /\ Page(cursor) = {} => After(cursor) = {}
<1> DEFINE To(i) == {j \in After(cursor) : j <= i}
<1>1. After(cursor) \subseteq 1..Len(follows) /\ IsFiniteSet(1..Len(follows))
  BY FS_Interval DEF After
<1>2. \A i : IsFiniteSet(To(i)) /\ Cardinality(To(i)) \in Nat
  BY <1>1, FS_Subset, FS_CardinalityType
<1>3. Page(cursor) = {i \in After(cursor) : Cardinality(To(i)) <= Chunk}
  BY DEF Page
<1>4. \A i \in Page(cursor), j \in After(cursor) : j <= i => j \in Page(cursor)
  <2> SUFFICES ASSUME NEW i \in Page(cursor), NEW j \in After(cursor), j <= i
               PROVE  Cardinality(To(j)) <= Chunk
    BY <1>3
  <2>1. i \in Nat /\ j \in Nat /\ \A k \in After(cursor) : k \in Nat
    BY <1>1, <1>3
  <2>2. To(j) \in SUBSET To(i)
    <3>1. \A k \in After(cursor) : k <= j => k <= i
      BY <2>1
    <3> QED
      BY <3>1
  <2>3. Cardinality(To(j)) <= Cardinality(To(i))
    BY <1>2, <2>2, FS_Subset
  <2>4. Cardinality(To(i)) <= Chunk
    BY <1>3
  <2> HIDE DEF To
  <2> QED
    BY <1>2, <2>3, <2>4, ConstantsAssumption
<1>5. ASSUME After(cursor) # {} PROVE Page(cursor) # {}
  <2>1. PICK i \in After(cursor) : \A j \in After(cursor) : i <= j
    BY <1>1, <1>5, FirstExists
  <2>2. To(i) = {i}
    BY <1>1, <2>1
  <2>3. Cardinality(To(i)) = 1
    BY <2>2, FS_Singleton
  <2>4. Cardinality(To(i)) <= Chunk
    BY <2>3, ConstantsAssumption
  <2> QED
    BY <1>3, <2>4
<1> QED
  BY <1>3, <1>4, <1>5

Statuses == {"none", "waiting", "read", "insert", "push", "done", "failed"}

JobRecord == [status : Statuses, cursor : Nat, page : SUBSET (Nat \X Users), tries : 0 .. Attempts]

AudienceOK ==
    /\ follows \in Seq(Users \cup {None})
    /\ rejoined \subseteq Users
    /\ \A i, j \in DOMAIN follows :
        follows[i] = follows[j] /\ follows[i] \notin rejoined => i = j \/ follows[i] = None

FanoutOK ==
    /\ job \in [Songs -> JobRecord]
    /\ notifs \in [Songs -> [Users -> Nat]]
    /\ pushes \subseteq Songs \X Users /\ shown \subseteq Songs \X Users
    /\ loyal \in [Songs -> SUBSET Users]
    /\ retried \subseteq Songs
    /\ \A s \in Songs :
        /\ job[s].cursor <= Len(follows)
        /\ \A f \in job[s].page : job[s].cursor < f[1] /\ f[1] <= Len(follows)
        /\ IsFiniteSet(job[s].page)
        /\ job[s].status \in {"insert", "push"} => job[s].page # {}
        /\ job[s].status \in {"waiting", "read", "insert", "push"} => job[s].tries > 0

\* The song is there before its job, which its creator adds
JobsInv ==
    /\ \A s \in Songs : song[s].state = "none" => job[s].status = "none"
    /\ \A c \in Clients :
        ~At(c, "idle") /\ req[c].op = "create" => job[Sg(c)].status = "none"

\* The documents of page j up to its last one, given by its positions
Reached(j, i) == \E f \in j.page : i <= f[1]

\* Whoever has followed since the job began is told, or comes after the cursor
Covers(s) ==
    /\ loyal[s] \subseteq Followers
    /\ \A i \in DOMAIN follows : follows[i] \in loyal[s] =>
        LET u == follows[i]
        IN /\ job[s].status \in {"read", "insert", "push"} /\ i <= job[s].cursor => notifs[s][u] > 0
           /\ job[s].status = "insert" /\ i > job[s].cursor /\ Reached(job[s], i) =>
                 <<i, u>> \in job[s].page
           /\ job[s].status = "push" /\ Reached(job[s], i) => notifs[s][u] > 0
           /\ job[s].status = "done" => notifs[s][u] > 0

\* Who is told once comes before the cursor, or is in the page that was inserted
Once(s) ==
    s \notin retried => \A u \in Users \ rejoined :
        LET j == job[s]
        IN /\ notifs[s][u] <= 1
           /\ j.status \in {"none", "waiting"} => notifs[s][u] = 0
           /\ j.status \in {"read", "insert"} /\ notifs[s][u] > 0 =>
                 \A i \in DOMAIN follows : follows[i] = u => i <= j.cursor
           /\ j.status = "push" /\ notifs[s][u] > 0 =>
                 \A i \in DOMAIN follows : follows[i] = u => i <= j.cursor \/ Reached(j, i)
           /\ j.status = "insert" => \A f, g \in j.page : f[2] = u /\ g[2] = u => f = g
           /\ j.status = "insert" => \A f \in j.page :
                 f[2] = u => /\ notifs[s][u] = 0
                             /\ \A i \in DOMAIN follows : follows[i] = u => i = f[1]

\* What is pushed or shown is stored
Stored(s) ==
    /\ \A u \in Users : <<s, u>> \in pushes \cup shown => notifs[s][u] > 0
    /\ job[s].status = "push" => \A f \in job[s].page : notifs[s][f[2]] > 0

FanoutInv == AudienceOK /\ FanoutOK /\ JobsInv /\ \A s \in Songs : Covers(s) /\ Once(s) /\ Stored(s)

LEMMA FollowersUnchanged == UNCHANGED follows => Followers' = Followers
  BY DEF Followers

\* A job that a step does not touch
LEMMA FrameJob ==
    ASSUME NEW s \in Songs, UNCHANGED <<follows, rejoined>>, job'[s] = job[s],
           notifs'[s] = notifs[s], loyal'[s] = loyal[s], s \in retried => s \in retried',
           \A u \in Users : <<s, u>> \in pushes' \cup shown' => <<s, u>> \in pushes \cup shown,
           Covers(s), Once(s), Stored(s)
    PROVE  Covers(s)' /\ Once(s)' /\ Stored(s)'
<1>1. Covers(s)'
  BY FollowersUnchanged DEF Covers, Reached
<1>2. Once(s)'
  BY DEF Once, Reached
<1>3. Stored(s)'
  BY DEF Stored
<1> QED
  BY <1>1, <1>2, <1>3

\* Nobody may create a song that has a job
LEMMA JobsStep == CatalogInv /\ FanoutOK /\ JobsInv /\ [Next]_vars => JobsInv'
<1> SUFFICES ASSUME CatalogInv, FanoutOK, JobsInv, [Next]_vars PROVE JobsInv'
  OBVIOUS
<1> USE DEF CatalogInv
<1>0. \A c \in Clients : Sg(c) \in Songs /\ req[c] \in Request
  BY DEF CatalogOK, Request, Sg
\* c is the only client that may have begun to create something
<1>1. ASSUME NEW c \in Clients, \A d \in Clients \ {c} : req'[d] = req[d], UNCHANGED job,
             \A s \in Songs : song'[s].state = "none" => song[s].state = "none",
             req'[c].step # "idle" /\ req'[c].op = "create" =>
                \/ song[req'[c].song].state = "none" /\ req'[c].song \in Songs
                \/ req[c].step # "idle" /\ req[c].op = "create" /\ req'[c].song = req[c].song
      PROVE  JobsInv'
  BY <1>1 DEF JobsInv, At, Sg
<1>2. ASSUME UNCHANGED <<req, job>>,
             \A s \in Songs : song'[s].state = "none" => song[s].state = "none"
      PROVE  JobsInv'
  BY <1>2 DEF JobsInv, At, Sg
<1>3. CASE UNCHANGED vars
  BY <1>2, <1>3 DEF vars
<1>4. CASE Moderation
  <2>1. UNCHANGED job
    BY <1>4 DEF Moderation, UpdateStatus, RemoveSong, Tick, PublishDue, SetSong, fanout
  <2> QED
    BY <1>2, <1>4, <2>1, ModerationKeeps DEF requests
\* A job that runs stays one
<1>5. CASE Elsewhere
  <2>1. UNCHANGED <<song, req>>
    BY <1>5, ElsewhereKeeps DEF catalog, requests
  <2>2. \A s \in Songs : job[s].status = "none" => job'[s].status = "none"
    <3>1. CASE UNCHANGED job
      BY <3>1
    <3>2. ASSUME NEW s \in Songs, RunJob(s) \/ JobFails(s)
          PROVE  job[s].status # "none" /\ \A t \in Songs \ {s} : job'[t] = job[t]
      BY <3>2 DEF FanoutOK, RunJob, StartJob, ReadPage, InsertPage, PushPage, Step, JobFails
    <3>3. CASE \E s \in Songs : RunJob(s) \/ JobFails(s)
      BY <3>2, <3>3
    <3>4. UNCHANGED job \/ \E s \in Songs : RunJob(s) \/ JobFails(s)
      BY <1>5 DEF Elsewhere, FindScheduled, NotifyFollowersBatch, CronFails, Follow, Unfollow,
                  SendPush, Connect, Disconnect, fanout
    <3> QED
      BY <3>1, <3>3, <3>4
  <2> QED
    BY <1>0, <2>1, <2>2 DEF JobsInv, At, Sg
<1>6. ASSUME NEW c \in Clients, NEW o \in {"create", "update"}, NEW offer \in Offers[c],
             Send(c, o, offer[1], offer[2])
      PROVE  JobsInv'
  <2>1. /\ offer[1] \in Songs /\ \A d \in Clients \ {c} : req'[d] = req[d]
        /\ req'[c].op = o /\ req'[c].song = offer[1]
    BY <1>6, SendOK
  <2>2. o = "create" => song[offer[1]].state = "none"
    BY <1>6 DEF Send
  <2>3. UNCHANGED <<song, job>>
    BY <1>6 DEF Send, catalog, fanout
  <2> QED
    BY <1>1, <2>1, <2>2, <2>3
<1>7. ASSUME NEW c \in Clients, FindSong(c) PROVE JobsInv'
  <2>1. At(c, "find") /\ UNCHANGED <<song, job>>
    BY <1>7 DEF FindSong, catalog, fanout
  <2>2. req' = [req EXCEPT ![c] = [req[c] EXCEPT !.step = "begin", !.old = song[Sg(c)].album]]
    BY <1>7 DEF FindSong
  <2>3. /\ req'[c].op = req[c].op /\ req'[c].song = req[c].song
        /\ \A d \in Clients \ {c} : req'[d] = req[d]
    BY <1>0, <2>2 DEF CatalogOK, Request
  <2> QED
    BY <1>1, <2>1, <2>3 DEF At
<1>8. ASSUME NEW c \in Clients, NEW to \in {"idle", "begin", "commit", "enqueue"}, Goto(c, to),
             ~At(c, "idle"), UNCHANGED job,
             \A s \in Songs : song'[s].state = "none" => song[s].state = "none"
      PROVE  JobsInv'
  <2>1. /\ \A d \in Clients \ {c} : req'[d] = req[d]
        /\ req'[c].step = to
        /\ to # "idle" => req'[c].op = req[c].op /\ req'[c].song = req[c].song
    BY <1>8, GotoFrame DEF CatalogOK
  <2> QED
    BY <1>1, <1>8, <2>1 DEF At
<1>9. ASSUME NEW c \in Clients, Begin(c) \/ Fail(c) \/ Abort(c) PROVE JobsInv'
  <2>1. Goto(c, "idle") \/ Goto(c, "commit")
    BY <1>9 DEF Begin, Fail, Abort
  <2>2. ~At(c, "idle") /\ UNCHANGED <<song, job>>
    BY <1>9 DEF Begin, Fail, Abort, At, catalog, fanout
  <2> QED
    BY <1>8, <2>1, <2>2
<1>10. ASSUME NEW c \in Clients, Commit(c) PROVE JobsInv'
  <2>1. Goto(c, "idle") \/ Goto(c, "enqueue")
    BY <1>10 DEF Commit
  <2>2. ~At(c, "idle") /\ UNCHANGED job
    BY <1>10 DEF Commit, At, fanout
  <2>3. \A s \in Songs : song'[s].state = "none" => song[s].state = "none"
    BY <1>10, CommitOK, WrittenOK
  <2> QED
    BY <1>8, <2>1, <2>2, <2>3
<1>11. ASSUME NEW c \in Clients, Enqueue(c) PROVE JobsInv'
  <2>1. At(c, "enqueue") /\ Goto(c, "idle") /\ UNCHANGED song
    BY <1>11 DEF Enqueue, catalog
  <2>2. req'[c].step = "idle" /\ \A d \in Clients \ {c} : req'[d] = req[d]
    BY <2>1, GotoFrame DEF CatalogOK
  <2>3. Admitted(c)
    BY DEF RequestsInv
  <2>4. song[Sg(c)].state # "none"
        /\ \A d \in Clients \ {c} : ~At(d, "idle") /\ req[d].op = "create" => Sg(d) # Sg(c)
    BY <2>1, <2>3 DEF Admitted, At
  <2>5. \A s \in Songs \ {Sg(c)} : job'[s] = job[s]
    BY <1>11 DEF Enqueue, FanoutOK
  <2> QED
    BY <1>0, <2>1, <2>2, <2>4, <2>5 DEF JobsInv, At, Sg
<1> QED
  BY <1>3, <1>4, <1>5, <1>6, <1>7, <1>9, <1>10, <1>11, Cases

\* Follow documents come and go; those of who follows since before stay where they are
LEMMA AudienceStep ==
    AudienceOK /\ [Next]_vars => AudienceOK' /\ (follows' = follows \/ Len(follows') >= Len(follows))
<1> SUFFICES ASSUME AudienceOK, [Next]_vars
             PROVE  AudienceOK' /\ (follows' = follows \/ Len(follows') >= Len(follows))
  OBVIOUS
<1> USE DEF AudienceOK
<1>1. CASE UNCHANGED <<follows, rejoined>>
  BY <1>1
<1>2. ASSUME NEW u \in Users, Follow(u)
      PROVE  AudienceOK' /\ Len(follows') >= Len(follows)
  <2>1. follows' = Append(follows, u) /\ rejoined' = rejoined \cup {u}
    BY <1>2 DEF Follow
  <2>2. /\ follows' \in Seq(Users \cup {None}) /\ Len(follows') = Len(follows) + 1
        /\ DOMAIN follows' = 1..(Len(follows) + 1) /\ DOMAIN follows = 1..Len(follows)
        /\ Len(follows) \in Nat
        /\ \A i \in 1..Len(follows) : follows'[i] = follows[i]
        /\ follows'[Len(follows) + 1] = u
    BY <2>1
  <2>3. \A i \in DOMAIN follows' : i \in DOMAIN follows \/ follows'[i] = u
    BY <2>2
  <2> QED
    BY <2>1, <2>2, <2>3
<1>3. ASSUME NEW u \in Users, Unfollow(u)
      PROVE  AudienceOK' /\ Len(follows') >= Len(follows)
  <2>1. follows' = [i \in DOMAIN follows |-> IF follows[i] = u THEN None ELSE follows[i]]
        /\ rejoined' = rejoined
    BY <1>3 DEF Unfollow
  <2>2. follows' \in Seq(Users \cup {None}) /\ Len(follows') = Len(follows)
    BY <2>1
  <2> QED
    BY <2>1, <2>2
<1>4. UNCHANGED <<follows, rejoined>> \/ \E u \in Users : Follow(u) \/ Unfollow(u)
  BY DEF Next, EndTransaction, Autopublish, RunJob, Send, FindSong, Begin, Enqueue, Fail, Abort, Commit,
         UpdateStatus, RemoveSong, Tick, SetSong, StartJob, ReadPage, InsertPage, PushPage, JobFails,
         FindScheduled, PublishDue, NotifyFollowersBatch, CronFails, SendPush, Connect, Disconnect,
         audience, vars
<1> QED
  BY <1>1, <1>2, <1>3, <1>4

LEMMA FollowKeeps ==
    ASSUME AudienceOK, FanoutOK, NEW u \in Users, Follow(u), NEW s \in Songs,
           Covers(s), Once(s), Stored(s)
    PROVE  Covers(s)' /\ Once(s)' /\ Stored(s)'
<1>1. /\ follows' = Append(follows, u) /\ rejoined' = rejoined \cup {u} /\ u \notin Followers
      /\ UNCHANGED <<job, notifs, pushes, shown, loyal, retried>>
  BY DEF Follow, fanout, screens
<1>2. /\ DOMAIN follows' = DOMAIN follows \cup {Len(follows) + 1}
      /\ \A i \in DOMAIN follows : follows'[i] = follows[i]
      /\ follows'[Len(follows) + 1] = u
  BY <1>1 DEF AudienceOK
<1>3. Followers \subseteq Followers'
  BY <1>2 DEF Followers
<1>4. u \notin loyal[s]
  BY <1>1 DEF Covers
<1>5. Covers(s)'
  BY <1>1, <1>2, <1>3, <1>4 DEF Covers, Reached
<1>6. Once(s)'
  BY <1>1, <1>2 DEF Once, Reached
<1>7. Stored(s)'
  BY <1>1 DEF Stored
<1> QED
  BY <1>5, <1>6, <1>7

LEMMA UnfollowKeeps ==
    ASSUME AudienceOK, FanoutOK, NEW u \in Users, Unfollow(u), NEW s \in Songs,
           Covers(s), Once(s), Stored(s)
    PROVE  Covers(s)' /\ Once(s)' /\ Stored(s)'
<1>1. /\ follows' = [i \in DOMAIN follows |-> IF follows[i] = u THEN None ELSE follows[i]]
      /\ loyal' = [t \in Songs |-> loyal[t] \ {u}]
      /\ UNCHANGED <<job, notifs, pushes, shown, rejoined, retried>>
  BY DEF Unfollow, fanout, screens
<1>2. /\ DOMAIN follows' = DOMAIN follows /\ None \notin Users /\ loyal[s] \subseteq Users
      /\ \A i \in DOMAIN follows : follows'[i] = IF follows[i] = u THEN None ELSE follows[i]
  BY <1>1, ConstantsAssumption DEF FanoutOK
<1>3. loyal'[s] \subseteq loyal[s] /\ u \notin loyal'[s]
  BY <1>1
<1>4. Followers \ {u} \subseteq Followers'
  BY <1>2 DEF Followers
<1>5. \A i \in DOMAIN follows' : follows'[i] \in Users => follows'[i] = follows[i]
  BY <1>2
<1>6. Covers(s)'
  <2>1. loyal'[s] \subseteq Followers'
    BY <1>3, <1>4 DEF Covers
  <2>2. \A i \in DOMAIN follows' : follows'[i] \in loyal'[s] =>
          follows[i] \in loyal[s] /\ follows'[i] = follows[i]
    BY <1>2, <1>3, <1>5
  <2> QED
    BY <1>1, <1>2, <2>1, <2>2 DEF Covers, Reached
<1>7. Once(s)'
  <2>1. \A v \in Users, i \in DOMAIN follows' : follows'[i] = v => follows[i] = v
    BY <1>5
  <2> QED
    BY <1>1, <1>2, <2>1 DEF Once, Reached
<1>8. Stored(s)'
  BY <1>1 DEF Stored
<1> QED
  BY <1>6, <1>7, <1>8

\* What a step of the job of s does to the others
LEMMA OtherJobs ==
    ASSUME FanoutOK, NEW s \in Songs, RunJob(s) \/ JobFails(s)
    PROVE  /\ UNCHANGED <<follows, rejoined, loyal, shown>>
           /\ retried \subseteq retried' /\ \A t \in Songs \ {s} : t \in retried' => t \in retried
           /\ \A t \in Songs \ {s} :
                /\ job'[t] = job[t] /\ notifs'[t] = notifs[t]
                /\ \A u \in Users : <<t, u>> \in pushes' => <<t, u>> \in pushes
<1>1. CASE StartJob(s) \/ ReadPage(s) \/ JobFails(s)
  BY <1>1 DEF FanoutOK, StartJob, ReadPage, JobFails, Step, audience, screens
<1>2. CASE InsertPage(s)
  BY <1>2 DEF FanoutOK, InsertPage, Step, audience, screens
<1>3. CASE PushPage(s)
  BY <1>3 DEF FanoutOK, PushPage, Step, audience, screens
<1> QED
  BY <1>1, <1>2, <1>3 DEF RunJob

\* The types of a job, for a step that gives it the record j
LEMMA JobTypes ==
    ASSUME FanoutOK, NEW s \in Songs, NEW j \in JobRecord, job' = [job EXCEPT ![s] = j],
           UNCHANGED <<follows, loyal, shown>>, retried' \subseteq Songs,
           notifs' \in [Songs -> [Users -> Nat]], pushes' \subseteq Songs \X Users,
           j.cursor <= Len(follows), \A f \in j.page : j.cursor < f[1] /\ f[1] <= Len(follows),
           IsFiniteSet(j.page), j.status \in {"insert", "push"} => j.page # {},
           j.status \in {"waiting", "read", "insert", "push"} => j.tries > 0
    PROVE  FanoutOK'
<1>1. job' \in [Songs -> JobRecord] /\ job'[s] = j /\ \A t \in Songs \ {s} : job'[t] = job[t]
  BY DEF FanoutOK
<1> QED
  BY <1>1 DEF FanoutOK

LEMMA StartJobOK ==
    ASSUME AudienceOK, FanoutOK, NEW s \in Songs, Covers(s), Once(s), Stored(s), StartJob(s)
    PROVE  FanoutOK' /\ Covers(s)' /\ Once(s)' /\ Stored(s)'
<1>1. PICK j : j = [job[s] EXCEPT !.status = "read", !.cursor = 0, !.page = {}]
  OBVIOUS
<1>2. job[s] \in JobRecord /\ job[s].status = "waiting" /\ job' = [job EXCEPT ![s] = j]
      /\ Len(follows) \in Nat
  BY <1>1 DEF StartJob, Step, FanoutOK, AudienceOK
<1>3. j \in JobRecord /\ j.status = "read" /\ j.cursor = 0 /\ j.page = {} /\ j.tries = job[s].tries
  BY <1>1, <1>2 DEF JobRecord, Statuses
<1>4. job'[s] = j /\ UNCHANGED <<follows, rejoined, notifs, pushes, shown, loyal, retried>>
  BY <1>2 DEF StartJob, FanoutOK, audience, screens
<1>5. FanoutOK'
  <2>1. j.tries > 0
    BY <1>2, <1>3 DEF FanoutOK
  <2>2. IsFiniteSet(j.page) /\ (\A f \in j.page : j.cursor < f[1] /\ f[1] <= Len(follows))
        /\ j.cursor <= Len(follows) /\ ~(j.status \in {"insert", "push"})
    BY <1>2, <1>3, FS_EmptySet
  <2>3. /\ UNCHANGED <<follows, loyal, shown>> /\ retried' \subseteq Songs
        /\ notifs' \in [Songs -> [Users -> Nat]] /\ pushes' \subseteq Songs \X Users
    BY <1>4 DEF FanoutOK
  <2> QED
    BY <1>2, <1>3, <2>1, <2>2, <2>3, JobTypes
<1>6. \A i \in DOMAIN follows : ~(i <= 0)
  BY DEF AudienceOK
<1>7. Covers(s)'
  BY <1>3, <1>4, <1>6, FollowersUnchanged DEF Covers
<1>8. Once(s)'
  BY <1>2, <1>3, <1>4 DEF Once
<1>9. Stored(s)'
  BY <1>3, <1>4 DEF Stored
<1> QED
  BY <1>5, <1>7, <1>8, <1>9

LEMMA ReadPageOK ==
    ASSUME AudienceOK, FanoutOK, NEW s \in Songs, Covers(s), Once(s), Stored(s), ReadPage(s)
    PROVE  FanoutOK' /\ Covers(s)' /\ Once(s)' /\ Stored(s)'
<1>1. PICK page : page = Page(job[s].cursor)
  OBVIOUS
<1>2. PICK j : j = [job[s] EXCEPT !.status = IF page = {} THEN "done" ELSE "insert",
                                  !.page = {<<i, follows[i]>> : i \in page}]
  OBVIOUS
<1>3. job[s] \in JobRecord /\ job[s].status = "read" /\ job' = [job EXCEPT ![s] = j]
  BY <1>1, <1>2 DEF ReadPage, Step, FanoutOK
<1>4. /\ job[s].cursor \in Nat /\ Len(follows) \in Nat /\ None \notin Users
      /\ \A i \in 1..Len(follows) : follows[i] \in Users \cup {None}
      /\ DOMAIN follows = 1..Len(follows)
  BY <1>3, ConstantsAssumption DEF JobRecord, AudienceOK
<1>5. /\ page \subseteq After(job[s].cursor)
      /\ \A i \in page, k \in After(job[s].cursor) : k <= i => k \in page
      /\ page = {} => After(job[s].cursor) = {}
  BY <1>1, <1>4, PageOK
<1>6. \A i : i \in After(job[s].cursor) <=>
               i \in 1..Len(follows) /\ i > job[s].cursor /\ follows[i] \in Users
  BY <1>4 DEF After
<1>7. {<<i, follows[i]>> : i \in page} \in SUBSET (Nat \X Users)
  BY <1>4, <1>5, <1>6
<1>8. /\ j \in JobRecord /\ j.status = (IF page = {} THEN "done" ELSE "insert")
      /\ j.cursor = job[s].cursor /\ j.page = {<<i, follows[i]>> : i \in page}
      /\ j.tries = job[s].tries
  BY <1>2, <1>3, <1>7 DEF JobRecord, Statuses
<1>9. job'[s] = j /\ UNCHANGED <<follows, rejoined, notifs, pushes, shown, loyal, retried>>
  BY <1>3 DEF ReadPage, FanoutOK, audience, screens
<1>10. FanoutOK'
  <2>1. job[s].tries > 0 /\ job[s].cursor <= Len(follows)
    BY <1>3 DEF FanoutOK
  <2>2. IsFiniteSet(j.page)
    <3>1. IsFiniteSet(page)
      <4>1. IsFiniteSet(1..Len(follows)) /\ page \in SUBSET (1..Len(follows))
        BY <1>4, <1>5, <1>6, FS_Interval
      <4> QED
        BY <4>1, FS_Subset
    <3>2. [i \in page |-> <<i, follows[i]>>] \in Surjection(page, j.page)
      BY <1>8 DEF Surjection
    <3> QED
      BY <3>1, <3>2, FS_Surjection
  <2>3. \A f \in j.page : j.cursor < f[1] /\ f[1] <= Len(follows)
    BY <1>5, <1>6, <1>8, <1>4
  <2>4. j.status = "insert" => j.page # {}
    BY <1>8
  <2> QED
    BY <1>3, <1>8, <1>9, <2>1, <2>2, <2>3, <2>4, JobTypes DEF FanoutOK
<1>11. Covers(s)'
  <2>1. loyal[s] \subseteq Users
    BY DEF FanoutOK
  <2>2. ASSUME NEW i \in DOMAIN follows, follows[i] \in loyal[s], i <= job[s].cursor
        PROVE  notifs[s][follows[i]] > 0
    BY <1>3, <2>2 DEF Covers
  <2>3. ASSUME NEW i \in DOMAIN follows, follows[i] \in loyal[s], i > job[s].cursor, Reached(j, i)
        PROVE  <<i, follows[i]>> \in j.page
    <3>1. i \in After(job[s].cursor)
      BY <1>4, <1>6, <2>1, <2>3
    <3>2. PICK k \in page : i <= k
      BY <1>8, <2>3 DEF Reached
    <3>3. i \in page
      BY <1>5, <3>1, <3>2
    <3> QED
      BY <1>8, <3>3
  <2>4. ASSUME NEW i \in DOMAIN follows, follows[i] \in loyal[s], page = {}
        PROVE  notifs[s][follows[i]] > 0
    <3>1. i \notin After(job[s].cursor)
      BY <1>5, <2>4
    <3>2. i <= job[s].cursor
      BY <1>4, <1>6, <2>1, <2>4, <3>1
    <3> QED
      BY <2>2, <2>4, <3>2
  <2> QED
    BY <1>8, <1>9, <2>2, <2>3, <2>4, FollowersUnchanged DEF Covers
<1>12. Once(s)'
  <2> SUFFICES ASSUME s \notin retried, NEW u \in Users, u \notin rejoined
               PROVE  /\ notifs[s][u] <= 1
                      /\ j.status = "insert" /\ notifs[s][u] > 0 =>
                            \A i \in DOMAIN follows : follows[i] = u => i <= j.cursor
                      /\ j.status = "insert" => \A f, g \in j.page : f[2] = u /\ g[2] = u => f = g
                      /\ j.status = "insert" => \A f \in j.page :
                            f[2] = u => /\ notifs[s][u] = 0
                                        /\ \A i \in DOMAIN follows : follows[i] = u => i = f[1]
    BY <1>8, <1>9 DEF Once
  <2>1. notifs[s][u] <= 1 /\ notifs[s][u] \in Nat
        /\ (notifs[s][u] > 0 => \A i \in DOMAIN follows : follows[i] = u => i <= job[s].cursor)
    BY <1>3 DEF Once, FanoutOK
  <2>2. \A f \in j.page : f = <<f[1], f[2]>> /\ f[1] \in DOMAIN follows
                          /\ follows[f[1]] = f[2] /\ f[1] > job[s].cursor
    BY <1>4, <1>5, <1>6, <1>8
  <2>3. \A i, k \in DOMAIN follows : follows[i] = u /\ follows[k] = u => i = k
    BY <1>4 DEF AudienceOK
  <2>4. \A f \in j.page : f[2] = u =>
          notifs[s][u] = 0 /\ \A i \in DOMAIN follows : follows[i] = u => i = f[1]
    <3> SUFFICES ASSUME NEW f \in j.page, f[2] = u
                 PROVE  notifs[s][u] = 0 /\ \A i \in DOMAIN follows : follows[i] = u => i = f[1]
      OBVIOUS
    <3>1. f[1] \in DOMAIN follows /\ follows[f[1]] = u /\ ~(f[1] <= job[s].cursor)
      BY <1>4, <2>2
    <3> QED
      BY <2>1, <2>3, <3>1
  <2>5. \A f, g \in j.page : f[2] = u /\ g[2] = u => f = g
    BY <2>2, <2>3
  <2> QED
    BY <1>8, <2>1, <2>4, <2>5
<1>13. Stored(s)'
  BY <1>8, <1>9 DEF Stored
<1> QED
  BY <1>10, <1>11, <1>12, <1>13

\* The notifications a page adds for u
Added(s, u) == Cardinality({f \in job[s].page : f[2] = u})

LEMMA AddedOK ==
    ASSUME FanoutOK, NEW s \in Songs, NEW u \in Users
    PROVE  /\ Added(s, u) \in Nat
           /\ Added(s, u) > 0 <=> \E f \in job[s].page : f[2] = u
           /\ (\A f, g \in job[s].page : f[2] = u /\ g[2] = u => f = g) => Added(s, u) <= 1
<1>1. PICK S : S = {f \in job[s].page : f[2] = u}
  OBVIOUS
<1>2. IsFiniteSet(job[s].page) /\ S \in SUBSET job[s].page
  BY <1>1 DEF FanoutOK
<1>3. IsFiniteSet(S) /\ Added(s, u) = Cardinality(S)
  BY <1>1, <1>2, FS_Subset DEF Added
<1>4. Cardinality(S) \in Nat /\ (Cardinality(S) = 0 <=> S = {})
  BY <1>3, FS_CardinalityType, FS_EmptySet
<1>5. ASSUME \A f, g \in job[s].page : f[2] = u /\ g[2] = u => f = g
      PROVE  Cardinality(S) <= 1
  <2>1. CASE S = {}
    BY <1>4, <2>1
  <2>2. CASE S # {}
    <3>1. PICK f \in S : TRUE
      BY <2>2
    <3>2. S = {f}
      BY <1>1, <1>5, <3>1
    <3> QED
      BY <3>2, FS_Singleton
  <2> QED
    BY <2>1, <2>2
<1>6. S # {} <=> \E f \in job[s].page : f[2] = u
  BY <1>1
<1> QED
  BY <1>3, <1>4, <1>5, <1>6

LEMMA InsertPageOK ==
    ASSUME AudienceOK, FanoutOK, NEW s \in Songs, Covers(s), Once(s), Stored(s), InsertPage(s)
    PROVE  FanoutOK' /\ Covers(s)' /\ Once(s)' /\ Stored(s)'
<1>1. PICK j : j = [job[s] EXCEPT !.status = "push"]
  OBVIOUS
<1>2. job[s] \in JobRecord /\ job[s].status = "insert" /\ job' = [job EXCEPT ![s] = j]
  BY <1>1 DEF InsertPage, Step, FanoutOK
<1>3. /\ j \in JobRecord /\ j.status = "push" /\ j.cursor = job[s].cursor /\ j.page = job[s].page
      /\ j.tries = job[s].tries
  BY <1>1, <1>2 DEF JobRecord, Statuses
<1>4. job'[s] = j /\ UNCHANGED <<follows, rejoined, pushes, shown, loyal, retried>>
  BY <1>2 DEF InsertPage, FanoutOK, audience, screens
<1>5. notifs' = [notifs EXCEPT ![s] = [u \in Users |-> @[u] + Added(s, u)]]
  BY DEF InsertPage, Added
<1>6. /\ notifs' \in [Songs -> [Users -> Nat]]
      /\ \A u \in Users : notifs'[s][u] = notifs[s][u] + Added(s, u)
  <2>1. [u \in Users |-> notifs[s][u] + Added(s, u)] \in [Users -> Nat]
    BY AddedOK DEF FanoutOK
  <2> QED
    BY <1>5, <2>1 DEF FanoutOK
<1>7. \A u \in Users :
        /\ notifs[s][u] \in Nat /\ Added(s, u) \in Nat
        /\ notifs[s][u] > 0 => notifs'[s][u] > 0
        /\ \A f \in job[s].page : f[2] = u => notifs'[s][u] > 0
        /\ Added(s, u) = 0 \/ \E f \in job[s].page : f[2] = u
  BY <1>6, AddedOK DEF FanoutOK
<1>8. FanoutOK'
  <2>1. /\ job[s].tries > 0 /\ job[s].cursor <= Len(follows) /\ IsFiniteSet(job[s].page)
        /\ job[s].page # {}
        /\ \A f \in job[s].page : job[s].cursor < f[1] /\ f[1] <= Len(follows)
    BY <1>2 DEF FanoutOK
  <2>2. UNCHANGED <<follows, loyal, shown>> /\ retried' \subseteq Songs
        /\ pushes' \subseteq Songs \X Users
    BY <1>4 DEF FanoutOK
  <2> QED
    BY <1>2, <1>3, <1>6, <2>1, <2>2, JobTypes
<1>9. Covers(s)'
  <2>1. loyal[s] \subseteq Users
    BY DEF FanoutOK
  <2>2. ASSUME NEW i \in DOMAIN follows, follows[i] \in loyal[s], i <= job[s].cursor
        PROVE  notifs'[s][follows[i]] > 0
    BY <1>2, <1>7, <2>1, <2>2 DEF Covers
  <2>3. ASSUME NEW i \in DOMAIN follows, follows[i] \in loyal[s], i > job[s].cursor,
               Reached(job[s], i)
        PROVE  notifs'[s][follows[i]] > 0
    <3>1. <<i, follows[i]>> \in job[s].page
      BY <1>2, <2>3 DEF Covers
    <3> QED
      BY <1>7, <2>1, <2>3, <3>1
  <2>4. \A i \in DOMAIN follows : i <= job[s].cursor \/ i > job[s].cursor
    BY <1>2 DEF AudienceOK, JobRecord
  <2>5. \A i : Reached(j, i) <=> Reached(job[s], i)
    BY <1>3 DEF Reached
  <2> QED
    BY <1>3, <1>4, <2>2, <2>3, <2>4, <2>5, FollowersUnchanged DEF Covers
<1>10. Once(s)'
  <2> SUFFICES ASSUME s \notin retried, NEW u \in Users, u \notin rejoined
               PROVE  /\ notifs'[s][u] <= 1
                      /\ notifs'[s][u] > 0 =>
                            \A i \in DOMAIN follows : follows[i] = u => i <= j.cursor \/ Reached(j, i)
    BY <1>3, <1>4 DEF Once
  <2>1. /\ notifs[s][u] <= 1
        /\ notifs[s][u] > 0 => \A i \in DOMAIN follows : follows[i] = u => i <= job[s].cursor
        /\ \A f, g \in job[s].page : f[2] = u /\ g[2] = u => f = g
        /\ \A f \in job[s].page :
              f[2] = u => /\ notifs[s][u] = 0
                          /\ \A i \in DOMAIN follows : follows[i] = u => i = f[1]
    BY <1>2 DEF Once
  <2>2. Added(s, u) <= 1
    BY <2>1, AddedOK
  <2>3. CASE \E f \in job[s].page : f[2] = u
    <3>1. PICK f \in job[s].page : f[2] = u
      BY <2>3
    <3>2. notifs[s][u] = 0 /\ \A i \in DOMAIN follows : follows[i] = u => i = f[1]
      BY <2>1, <3>1
    <3>3. f[1] \in Nat
      BY <1>2 DEF JobRecord
    <3>4. \A i \in DOMAIN follows : follows[i] = u => Reached(j, i)
      BY <1>3, <3>2, <3>3 DEF Reached
    <3> QED
      BY <1>6, <1>7, <2>2, <3>2, <3>4
  <2>4. CASE ~\E f \in job[s].page : f[2] = u
    <3>1. notifs'[s][u] = notifs[s][u]
      BY <1>6, <1>7, <2>4
    <3> QED
      BY <1>3, <2>1, <3>1
  <2> QED
    BY <2>3, <2>4
<1>11. Stored(s)'
  <2>1. \A f \in job[s].page : f[2] \in Users
    BY <1>2 DEF JobRecord
  <2> QED
    BY <1>3, <1>4, <1>7, <2>1 DEF Stored
<1> QED
  BY <1>8, <1>9, <1>10, <1>11

LEMMA PushPageOK ==
    ASSUME AudienceOK, FanoutOK, NEW s \in Songs, Covers(s), Once(s), Stored(s), PushPage(s)
    PROVE  FanoutOK' /\ Covers(s)' /\ Once(s)' /\ Stored(s)'
<1>1. PICK j : j = [job[s] EXCEPT !.status = "read", !.cursor = Cursor(s), !.page = {}]
  OBVIOUS
<1>2. job[s] \in JobRecord /\ job[s].status = "push" /\ job' = [job EXCEPT ![s] = j]
      /\ Len(follows) \in Nat
  BY <1>1 DEF PushPage, Step, FanoutOK, AudienceOK
\* The cursor is the last position of the page
<1>3. /\ Cursor(s) \in Nat /\ Cursor(s) <= Len(follows) /\ job[s].cursor < Cursor(s)
      /\ \A f \in job[s].page : f[1] <= Cursor(s)
      /\ \E f \in job[s].page : f[1] = Cursor(s)
  <2>1. PICK T : T = {f[1] : f \in job[s].page}
    OBVIOUS
  <2>2. /\ \A f \in job[s].page : f[1] \in Nat /\ job[s].cursor < f[1] /\ f[1] <= Len(follows)
        /\ job[s].page # {} /\ job[s].cursor \in Nat
    BY <1>2 DEF FanoutOK, JobRecord
  <2>3. T \in SUBSET (1..Len(follows)) /\ T # {}
    BY <1>2, <2>1, <2>2
  <2>4. \E i \in T : \A k \in T : k <= i
    BY <1>2, <2>3, LastExists
  <2>5. Cursor(s) \in T /\ \A k \in T : k <= Cursor(s)
    BY <2>1, <2>4 DEF Cursor, Last
  <2> QED
    BY <2>1, <2>2, <2>5
<1>4. /\ j \in JobRecord /\ j.status = "read" /\ j.cursor = Cursor(s) /\ j.page = {}
      /\ j.tries = job[s].tries
  BY <1>1, <1>2, <1>3 DEF JobRecord, Statuses
<1>5. /\ job'[s] = j /\ UNCHANGED <<follows, rejoined, notifs, shown, loyal, retried>>
      /\ pushes' = pushes \cup ({s} \X Receivers(s))
  BY <1>2 DEF PushPage, FanoutOK, audience, screens
<1>6. Receivers(s) \subseteq Users
  BY <1>2 DEF Receivers, JobRecord
<1>7. FanoutOK'
  <2>1. j.tries > 0
    BY <1>2, <1>4 DEF FanoutOK
  <2>2. IsFiniteSet(j.page) /\ (\A f \in j.page : j.cursor < f[1] /\ f[1] <= Len(follows))
        /\ j.cursor <= Len(follows) /\ ~(j.status \in {"insert", "push"})
    BY <1>3, <1>4, FS_EmptySet
  <2>3. /\ UNCHANGED <<follows, loyal, shown>> /\ retried' \subseteq Songs
        /\ notifs' \in [Songs -> [Users -> Nat]] /\ pushes' \subseteq Songs \X Users
    BY <1>5, <1>6 DEF FanoutOK
  <2> QED
    BY <1>2, <1>4, <2>1, <2>2, <2>3, JobTypes
<1>8. \A i \in DOMAIN follows : i <= Cursor(s) => Reached(job[s], i)
  BY <1>3 DEF Reached
<1>9. Covers(s)'
  BY <1>2, <1>4, <1>5, <1>8, FollowersUnchanged DEF Covers
<1>10. Once(s)'
  <2> SUFFICES ASSUME s \notin retried, NEW u \in Users, u \notin rejoined
               PROVE  /\ notifs[s][u] <= 1
                      /\ notifs[s][u] > 0 =>
                            \A i \in DOMAIN follows : follows[i] = u => i <= Cursor(s)
    BY <1>4, <1>5 DEF Once
  <2>1. /\ notifs[s][u] <= 1
        /\ notifs[s][u] > 0 => \A i \in DOMAIN follows :
              follows[i] = u => i <= job[s].cursor \/ Reached(job[s], i)
    BY <1>2 DEF Once
  <2>2. \A i \in DOMAIN follows : i <= job[s].cursor \/ Reached(job[s], i) => i <= Cursor(s)
    <3>1. \A i \in DOMAIN follows : i \in Nat
      BY DEF AudienceOK
    <3>2. job[s].cursor \in Nat /\ \A f \in job[s].page : f[1] \in Nat
      BY <1>2 DEF JobRecord
    <3> QED
      BY <1>3, <3>1, <3>2 DEF Reached
  <2> QED
    BY <2>1, <2>2
<1>11. Stored(s)'
  <2>1. \A u \in Users : <<s, u>> \in pushes' \cup shown' =>
          <<s, u>> \in pushes \cup shown \/ \E f \in job[s].page : f[2] = u
    BY <1>5 DEF Receivers
  <2> QED
    BY <1>2, <1>4, <1>5, <2>1 DEF Stored
<1> QED
  BY <1>7, <1>9, <1>10, <1>11

LEMMA JobFailsOK ==
    ASSUME AudienceOK, FanoutOK, NEW s \in Songs, Covers(s), Once(s), Stored(s), JobFails(s)
    PROVE  FanoutOK' /\ Covers(s)' /\ Once(s)' /\ Stored(s)'
<1>1. PICK j : j = [NoJob EXCEPT !.tries = job[s].tries - 1,
                                 !.status = IF job[s].tries > 1 THEN "waiting" ELSE "failed"]
  OBVIOUS
<1>2. /\ job[s] \in JobRecord /\ job[s].tries > 0 /\ job' = [job EXCEPT ![s] = j]
      /\ Len(follows) \in Nat
  BY <1>1 DEF JobFails, FanoutOK, AudienceOK
<1>3. /\ j \in JobRecord /\ j.status \in {"waiting", "failed"} /\ j.cursor = 0 /\ j.page = {}
      /\ j.status = "waiting" => j.tries > 0
  <2>1. /\ j.status = (IF job[s].tries > 1 THEN "waiting" ELSE "failed")
        /\ j.tries = job[s].tries - 1 /\ j.cursor = 0 /\ j.page = {}
        /\ j = [status |-> j.status, cursor |-> j.cursor, page |-> j.page, tries |-> j.tries]
    BY <1>1 DEF NoJob
  <2>2. job[s].tries - 1 \in 0..Attempts /\ (job[s].tries > 1 => job[s].tries - 1 > 0)
    BY <1>2, ConstantsAssumption DEF JobRecord
  <2>3. j.status \in Statuses /\ j.cursor \in Nat /\ j.page \in SUBSET (Nat \X Users)
    BY <2>1 DEF Statuses
  <2> QED
    BY <2>1, <2>2, <2>3 DEF JobRecord
<1>4. /\ job'[s] = j /\ retried' = retried \cup {s}
      /\ UNCHANGED <<follows, rejoined, notifs, pushes, shown, loyal>>
  BY <1>2 DEF JobFails, FanoutOK, audience, screens
<1>5. FanoutOK'
  <2>1. IsFiniteSet(j.page) /\ (\A f \in j.page : j.cursor < f[1] /\ f[1] <= Len(follows))
        /\ j.cursor <= Len(follows) /\ ~(j.status \in {"insert", "push"})
        /\ (j.status \in {"waiting", "read", "insert", "push"} => j.tries > 0)
    BY <1>2, <1>3, FS_EmptySet
  <2>2. /\ UNCHANGED <<follows, loyal, shown>> /\ retried' \subseteq Songs
        /\ notifs' \in [Songs -> [Users -> Nat]] /\ pushes' \subseteq Songs \X Users
    BY <1>4 DEF FanoutOK
  <2> QED
    BY <1>2, <1>3, <2>1, <2>2, JobTypes
<1>6. Covers(s)'
  BY <1>3, <1>4, FollowersUnchanged DEF Covers
<1>7. Once(s)'
  BY <1>4 DEF Once
<1>8. Stored(s)'
  BY <1>3, <1>4 DEF Stored
<1> QED
  BY <1>5, <1>6, <1>7, <1>8

LEMMA EnqueueOK ==
    ASSUME CatalogInv, FanoutInv, NEW c \in Clients, Enqueue(c), NEW s \in Songs
    PROVE  FanoutOK' /\ Covers(s)' /\ Once(s)' /\ Stored(s)'
<1>1. PICK j : j = [NoJob EXCEPT !.status = "waiting", !.tries = Attempts]
  OBVIOUS
<1>2. PICK t : t = Sg(c)
  OBVIOUS
<1>3. t \in Songs /\ Admitted(c) /\ At(c, "enqueue")
  BY <1>2 DEF CatalogInv, CatalogOK, RequestsInv, Request, Sg, Enqueue
<1>4. job[t].status = "none"
  BY <1>2, <1>3 DEF Admitted, At, FanoutInv, JobsInv
<1>5. /\ j \in JobRecord /\ j.status = "waiting" /\ j.cursor = 0 /\ j.page = {} /\ j.tries > 0
  <2>1. /\ j.status = "waiting" /\ j.tries = Attempts /\ j.cursor = 0 /\ j.page = {}
        /\ j = [status |-> j.status, cursor |-> j.cursor, page |-> j.page, tries |-> j.tries]
    BY <1>1 DEF NoJob
  <2>2. Attempts \in 0..Attempts /\ Attempts > 0
    BY ConstantsAssumption
  <2>3. j.status \in Statuses /\ j.cursor \in Nat /\ j.page \in SUBSET (Nat \X Users)
    BY <2>1 DEF Statuses
  <2> QED
    BY <2>1, <2>2, <2>3 DEF JobRecord
<1>6. Followers \subseteq Users /\ Len(follows) \in Nat
  BY DEF Followers, FanoutInv, AudienceOK
<1>7. /\ job' = [job EXCEPT ![t] = j] /\ loyal' = [loyal EXCEPT ![t] = Followers]
      /\ UNCHANGED <<follows, rejoined, notifs, pushes, shown, retried>>
  BY <1>1, <1>2 DEF Enqueue, audience, screens
<1>8. FanoutOK'
  <2>1. FanoutOK
    BY DEF FanoutInv
  <2>2. job' \in [Songs -> JobRecord] /\ loyal' \in [Songs -> SUBSET Users]
    BY <1>3, <1>5, <1>6, <1>7, <2>1 DEF FanoutOK
  <2>3. /\ notifs' \in [Songs -> [Users -> Nat]] /\ pushes' \subseteq Songs \X Users
        /\ shown' \subseteq Songs \X Users /\ retried' \subseteq Songs /\ follows' = follows
    BY <1>7, <2>1 DEF FanoutOK
  <2>4. ASSUME NEW r \in Songs
        PROVE  /\ job'[r].cursor <= Len(follows)
               /\ \A f \in job'[r].page : job'[r].cursor < f[1] /\ f[1] <= Len(follows)
               /\ IsFiniteSet(job'[r].page)
               /\ job'[r].status \in {"insert", "push"} => job'[r].page # {}
               /\ job'[r].status \in {"waiting", "read", "insert", "push"} => job'[r].tries > 0
    <3>1. CASE r = t
      <4>1. job'[r] = j
        BY <1>3, <1>7, <2>1, <3>1 DEF FanoutOK
      <4>2. IsFiniteSet(job'[r].page)
        BY <1>5, <4>1, FS_EmptySet
      <4>3. /\ job'[r].cursor = 0 /\ job'[r].page = {} /\ job'[r].tries > 0
            /\ job'[r].status = "waiting"
        BY <1>5, <4>1
      <4>4. ~(job'[r].status \in {"insert", "push"}) /\ job'[r].cursor <= Len(follows)
        BY <1>6, <4>3
      <4>5. \A f \in job'[r].page : job'[r].cursor < f[1] /\ f[1] <= Len(follows)
        BY <4>3
      <4> QED
        BY <4>2, <4>3, <4>4, <4>5
    <3>2. CASE r # t
      <4>1. job'[r] = job[r]
        BY <1>3, <1>7, <2>1, <3>2 DEF FanoutOK
      <4> QED
        BY <2>1, <4>1 DEF FanoutOK
    <3> QED
      BY <3>1, <3>2
  <2> QED
    BY <2>2, <2>3, <2>4 DEF FanoutOK
<1>9. CASE s # t
  <2>1. job'[s] = job[s] /\ loyal'[s] = loyal[s] /\ Covers(s) /\ Once(s) /\ Stored(s)
    BY <1>7, <1>9 DEF FanoutInv
  <2>2. /\ UNCHANGED <<follows, rejoined>> /\ notifs'[s] = notifs[s]
        /\ s \in retried => s \in retried'
    BY <1>7
  <2>3. \A u \in Users : <<s, u>> \in pushes' \cup shown' => <<s, u>> \in pushes \cup shown
    BY <1>7
  <2> QED
    BY <1>8, <2>1, <2>2, <2>3, FrameJob
<1>10. CASE s = t
  <2>1. job'[s] = j /\ loyal'[s] = Followers /\ Covers(s) /\ Once(s) /\ Stored(s)
    BY <1>3, <1>7, <1>10 DEF FanoutInv, FanoutOK
  <2>2. Covers(s)'
    BY <1>5, <1>7, <2>1, FollowersUnchanged DEF Covers
  <2>3. Once(s)'
    BY <1>4, <1>5, <1>7, <1>10, <2>1 DEF Once
  <2>4. Stored(s)'
    BY <1>5, <1>7, <2>1 DEF Stored
  <2> QED
    BY <1>8, <2>2, <2>3, <2>4
<1> QED
  BY <1>9, <1>10

LEMMA SendPushOK ==
    ASSUME FanoutInv, NEW s \in Songs, NEW u \in Users, SendPush(s, u), NEW t \in Songs
    PROVE  FanoutOK' /\ Covers(t)' /\ Once(t)' /\ Stored(t)'
<1>1. /\ <<s, u>> \in pushes /\ pushes' = pushes \ {<<s, u>>}
      /\ shown' = shown \/ shown' = shown \cup {<<s, u>>}
      /\ UNCHANGED <<follows, rejoined, job, notifs, loyal, retried>>
  BY DEF SendPush, audience
<1>2. FanoutOK'
  BY <1>1 DEF FanoutInv, FanoutOK
<1>3. /\ Covers(t) /\ Once(t) /\ Stored(t) /\ UNCHANGED <<follows, rejoined>>
      /\ job'[t] = job[t] /\ notifs'[t] = notifs[t] /\ loyal'[t] = loyal[t]
      /\ t \in retried => t \in retried'
  BY <1>1 DEF FanoutInv
<1>4. \A v \in Users : <<t, v>> \in pushes' \cup shown' => <<t, v>> \in pushes \cup shown
  BY <1>1
<1> QED
  BY <1>2, <1>3, <1>4, FrameJob

LEMMA FanoutStep == CatalogInv /\ FanoutInv /\ [Next]_vars => FanoutInv'
<1> SUFFICES ASSUME CatalogInv, FanoutInv, [Next]_vars PROVE FanoutInv'
  OBVIOUS
<1>0. AudienceOK /\ FanoutOK /\ JobsInv
  BY DEF FanoutInv
<1>1. AudienceOK' /\ (follows' = follows \/ Len(follows') >= Len(follows))
  BY <1>0, AudienceStep
<1>2. JobsInv'
  BY <1>0, JobsStep
<1> SUFFICES FanoutOK' /\ \A s \in Songs : Covers(s)' /\ Once(s)' /\ Stored(s)'
  BY <1>1, <1>2 DEF FanoutInv
<1>3. \A s \in Songs : Covers(s) /\ Once(s) /\ Stored(s)
  BY DEF FanoutInv
<1>4. ASSUME UNCHANGED <<follows, rejoined, job, notifs, pushes, shown, loyal, retried>>
      PROVE  FanoutOK' /\ \A s \in Songs : Covers(s)' /\ Once(s)' /\ Stored(s)'
  <2>1. FanoutOK'
    BY <1>0, <1>4 DEF FanoutOK
  <2>2. ASSUME NEW s \in Songs
        PROVE  Covers(s)' /\ Once(s)' /\ Stored(s)'
    <3>1. /\ Covers(s) /\ Once(s) /\ Stored(s) /\ UNCHANGED <<follows, rejoined>>
          /\ job'[s] = job[s] /\ notifs'[s] = notifs[s] /\ loyal'[s] = loyal[s]
          /\ s \in retried => s \in retried'
      BY <1>3, <1>4
    <3>2. \A v \in Users : <<s, v>> \in pushes' \cup shown' => <<s, v>> \in pushes \cup shown
      BY <1>4
    <3> QED
      BY <3>1, <3>2, FrameJob
  <2> QED
    BY <2>1, <2>2
<1>5. ASSUME NEW u \in Users, Follow(u) \/ Unfollow(u)
      PROVE  FanoutOK' /\ \A s \in Songs : Covers(s)' /\ Once(s)' /\ Stored(s)'
  <2>1. \A s \in Songs : Covers(s)' /\ Once(s)' /\ Stored(s)'
    BY <1>0, <1>3, <1>5, FollowKeeps, UnfollowKeeps
  <2>2. UNCHANGED <<job, notifs, pushes, shown, retried>>
        /\ (loyal' = loyal \/ loyal' = [t \in Songs |-> loyal[t] \ {u}])
    BY <1>5 DEF Follow, Unfollow, fanout, screens
  <2>3. loyal' \in [Songs -> SUBSET Users]
    BY <1>0, <2>2 DEF FanoutOK
  <2>4. Len(follows) \in Nat /\ Len(follows') \in Nat /\ Len(follows) <= Len(follows')
    BY <1>0, <1>1 DEF AudienceOK
  <2>5. \A s \in Songs : job[s].cursor \in Nat /\ \A f \in job[s].page : f[1] \in Nat
    BY <1>0 DEF FanoutOK, JobRecord
  <2>6. \A s \in Songs :
          /\ job[s].cursor <= Len(follows')
          /\ \A f \in job[s].page : job[s].cursor < f[1] /\ f[1] <= Len(follows')
    BY <1>0, <2>4, <2>5 DEF FanoutOK
  <2>7. FanoutOK'
    BY <1>0, <2>2, <2>3, <2>6 DEF FanoutOK
  <2> QED
    BY <2>1, <2>7
<1>6. ASSUME NEW s \in Songs, RunJob(s) \/ JobFails(s)
      PROVE  FanoutOK' /\ \A t \in Songs : Covers(t)' /\ Once(t)' /\ Stored(t)'
  <2>1. FanoutOK' /\ Covers(s)' /\ Once(s)' /\ Stored(s)'
    BY <1>0, <1>3, <1>6, StartJobOK, ReadPageOK, InsertPageOK, PushPageOK, JobFailsOK DEF RunJob
  <2>2. ASSUME NEW t \in Songs \ {s}
        PROVE  Covers(t)' /\ Once(t)' /\ Stored(t)'
    <3>1. /\ UNCHANGED <<follows, rejoined, loyal, shown>> /\ job'[t] = job[t]
          /\ notifs'[t] = notifs[t] /\ (t \in retried => t \in retried')
          /\ \A u \in Users : <<t, u>> \in pushes' => <<t, u>> \in pushes
      BY <1>0, <1>6, OtherJobs
    <3>2. \A u \in Users : <<t, u>> \in pushes' \cup shown' => <<t, u>> \in pushes \cup shown
      BY <3>1
    <3>3. UNCHANGED <<follows, rejoined>> /\ loyal'[t] = loyal[t] /\ Covers(t) /\ Once(t) /\ Stored(t)
      BY <1>3, <3>1
    <3> QED
      BY <3>1, <3>2, <3>3, FrameJob
  <2> QED
    BY <2>1, <2>2
<1>7. ASSUME NEW c \in Clients, Enqueue(c)
      PROVE  FanoutOK' /\ \A s \in Songs : Covers(s)' /\ Once(s)' /\ Stored(s)'
  <2>1. PICK s : s = Sg(c)
    OBVIOUS
  <2>2. s \in Songs
    BY <1>1, <1>7, <2>1 DEF CatalogInv, CatalogOK, RequestsInv, Request, Sg, Enqueue
  <2> QED
    BY <1>7, <2>2, EnqueueOK
<1>8. ASSUME NEW s \in Songs, NEW u \in Users, SendPush(s, u)
      PROVE  FanoutOK' /\ \A t \in Songs : Covers(t)' /\ Once(t)' /\ Stored(t)'
  BY <1>8, SendPushOK
<1>9. CASE UNCHANGED vars
  BY <1>4, <1>9 DEF vars
<1>10. CASE Moderation
  BY <1>4, <1>10 DEF Moderation, UpdateStatus, RemoveSong, Tick, PublishDue, SetSong, fanout, audience,
                     screens
<1>11. ASSUME NEW c \in Clients,
              \/ \E o \in {"create", "update"}, offer \in Offers[c] : Send(c, o, offer[1], offer[2])
              \/ FindSong(c) \/ Begin(c) \/ Fail(c) \/ Abort(c) \/ Commit(c)
       PROVE  FanoutOK' /\ \A s \in Songs : Covers(s)' /\ Once(s)' /\ Stored(s)'
  BY <1>4, <1>11 DEF Send, FindSong, Begin, Fail, Abort, Commit, fanout, audience, screens
<1>12. CASE FindScheduled \/ NotifyFollowersBatch \/ CronFails
            \/ \E k \in Sockets : Connect(k) \/ Disconnect(k)
  BY <1>4, <1>12 DEF FindScheduled, NotifyFollowersBatch, CronFails, Connect, Disconnect, fanout,
                     audience, screens
<1> QED
  BY <1>5, <1>6, <1>7, <1>8, <1>9, <1>10, <1>11, <1>12, Cases DEF Elsewhere

-----------------------------------------------------------------------------
(* The theorems                                                            *)

\* The cron and the sockets
RestOK ==
    /\ cron.step \in {"idle", "publish", "notify"} /\ cron.due \subseteq Songs
    /\ socketToUser \in [Sockets -> Users \cup {None}]

LEMMA RestStep == RestOK /\ [Next]_vars => RestOK'
<1> SUFFICES ASSUME RestOK, [Next]_vars PROVE RestOK'
  OBVIOUS
<1> USE DEF RestOK
<1>1. CASE UNCHANGED <<cron, socketToUser>>
  BY <1>1
<1>2. ASSUME FindScheduled \/ NotifyFollowersBatch \/ CronFails PROVE RestOK'
  <2>1. UNCHANGED socketToUser
    BY <1>2 DEF FindScheduled, NotifyFollowersBatch, CronFails, screens
  <2>2. cron' = [step |-> "publish", due |-> {s \in Songs : Due(s)}]
        \/ cron' = [step |-> "idle", due |-> {}]
    BY <1>2 DEF FindScheduled, NotifyFollowersBatch, CronFails
  <2> QED
    BY <2>1, <2>2
<1>3. ASSUME PublishDue PROVE RestOK'
  <2>1. UNCHANGED socketToUser /\ cron' = [cron EXCEPT !.step = "notify"]
    BY <1>3 DEF PublishDue, screens
  <2>2. cron'.due = cron.due /\ cron'.step \in {cron.step, "notify"}
    BY <2>1
  <2> QED
    BY <2>1, <2>2
<1>4. ASSUME NEW k \in Sockets, Connect(k) \/ Disconnect(k) PROVE RestOK'
  BY <1>4, ConstantsAssumption DEF Connect, Disconnect
<1>5. \/ UNCHANGED <<cron, socketToUser>> \/ FindScheduled \/ NotifyFollowersBatch \/ CronFails
      \/ PublishDue \/ \E k \in Sockets : Connect(k) \/ Disconnect(k)
  BY DEF Next, EndTransaction, Autopublish, RunJob, Send, FindSong, Begin, Enqueue, Fail, Abort, Commit,
         UpdateStatus, RemoveSong, Tick, SetSong, StartJob, ReadPage, InsertPage, PushPage, JobFails,
         Follow, Unfollow, SendPush, screens, vars
<1> QED
  BY <1>1, <1>2, <1>3, <1>4, <1>5

IInv == CatalogInv /\ FanoutInv /\ RestOK

LEMMA IInvInit == Init => IInv
<1> SUFFICES ASSUME Init PROVE IInv
  OBVIOUS
<1>1. CatalogInv
  BY CatalogInit
<1>2. AudienceOK
  BY ConstantsAssumption DEF Init, AudienceOK
<1>3. NoJob \in JobRecord /\ NoJob.status = "none" /\ NoJob.cursor = 0 /\ NoJob.page = {}
  BY ConstantsAssumption DEF NoJob, JobRecord, Statuses
<1>4. /\ \A s \in Songs : /\ job[s] = NoJob /\ loyal[s] = {}
                          /\ \A u \in Users : notifs[s][u] = 0
      /\ pushes = {} /\ shown = {} /\ retried = {}
  BY DEF Init
<1>5. FanoutOK
  <2>1. Len(follows) \in Nat
    BY <1>2 DEF AudienceOK
  <2>2. job \in [Songs -> JobRecord]
    BY <1>3 DEF Init
  <2>3. notifs \in [Songs -> [Users -> Nat]] /\ loyal \in [Songs -> SUBSET Users]
    BY DEF Init
  <2>4. pushes \subseteq Songs \X Users /\ shown \subseteq Songs \X Users /\ retried \subseteq Songs
    BY <1>4
  <2>5. ASSUME NEW s \in Songs
        PROVE  /\ job[s].cursor <= Len(follows)
               /\ \A f \in job[s].page : job[s].cursor < f[1] /\ f[1] <= Len(follows)
               /\ IsFiniteSet(job[s].page)
               /\ job[s].status \in {"insert", "push"} => job[s].page # {}
               /\ job[s].status \in {"waiting", "read", "insert", "push"} => job[s].tries > 0
    <3>1. job[s] = NoJob
      BY <1>4
    <3>2. job[s].status = "none" /\ job[s].cursor = 0 /\ job[s].page = {}
      BY <1>3, <3>1
    <3>3. IsFiniteSet(job[s].page)
      BY <3>2, FS_EmptySet
    <3>4. /\ ~(job[s].status \in {"insert", "push"}) /\ job[s].cursor <= Len(follows)
          /\ ~(job[s].status \in {"waiting", "read", "insert", "push"})
      BY <2>1, <3>2
    <3>5. \A f \in job[s].page : job[s].cursor < f[1] /\ f[1] <= Len(follows)
      BY <3>2
    <3> QED
      BY <3>3, <3>4, <3>5
  <2> QED
    BY <2>2, <2>3, <2>4, <2>5 DEF FanoutOK
<1>6. JobsInv
  <2>1. \A c \in Clients : At(c, "idle")
    BY IdleRequest DEF Init, At
  <2> QED
    BY <1>3, <1>4, <2>1 DEF JobsInv
<1>7. \A s \in Songs : Covers(s) /\ Once(s) /\ Stored(s)
  BY <1>3, <1>4 DEF Covers, Once, Stored
<1>8. RestOK
  BY DEF Init, RestOK
<1> QED
  BY <1>1, <1>2, <1>5, <1>6, <1>7, <1>8 DEF IInv, FanoutInv

LEMMA IInvStep == IInv /\ [Next]_vars => IInv'
  BY CatalogInvStep, FanoutStep, RestStep DEF IInv

LEMMA IInvType == IInv => TypeOK
<1> SUFFICES ASSUME IInv PROVE TypeOK
  OBVIOUS
<1>1. \A s \in Songs :
        /\ job[s].status \in {"none", "waiting", "read", "insert", "push", "done", "failed"}
        /\ job[s].cursor \in 0 .. Len(follows)
        /\ job[s].page \subseteq (1 .. Len(follows)) \X Users
        /\ job[s].tries \in 0 .. Attempts
  <2> SUFFICES ASSUME NEW s \in Songs
               PROVE  /\ job[s].status \in Statuses
                      /\ job[s].cursor \in 0 .. Len(follows)
                      /\ job[s].page \subseteq (1 .. Len(follows)) \X Users
                      /\ job[s].tries \in 0 .. Attempts
    BY DEF Statuses
  <2>1. job[s] \in JobRecord /\ job[s].cursor <= Len(follows) /\ Len(follows) \in Nat
        /\ \A f \in job[s].page : job[s].cursor < f[1] /\ f[1] <= Len(follows)
    BY DEF IInv, FanoutInv, FanoutOK, AudienceOK
  <2>2. /\ job[s].cursor \in Nat /\ job[s].page \subseteq Nat \X Users
        /\ job[s].status \in Statuses /\ job[s].tries \in 0 .. Attempts
    BY <2>1 DEF JobRecord
  <2>3. \A f \in job[s].page : f = <<f[1], f[2]>> /\ f[1] \in 1 .. Len(follows) /\ f[2] \in Users
    BY <2>1, <2>2
  <2>4. job[s].page \subseteq (1 .. Len(follows)) \X Users
    BY <2>3
  <2> QED
    BY <2>1, <2>2, <2>4
<1> QED
  BY <1>1 DEF TypeOK, IInv, CatalogInv, CatalogOK, FanoutInv, FanoutOK, AudienceOK, RestOK

LEMMA IInvNotified == IInv => FollowersNotified
<1> SUFFICES ASSUME IInv, NEW s \in Songs, NEW u \in Users
             PROVE  /\ job[s].status = "done" /\ u \in loyal[s] => notifs[s][u] > 0
                    /\ s \notin retried /\ u \notin rejoined => notifs[s][u] <= 1
                    /\ <<s, u>> \in shown \cup pushes => notifs[s][u] > 0
  BY DEF FollowersNotified
<1>1. Covers(s) /\ Once(s) /\ Stored(s)
  BY DEF IInv, FanoutInv
<1>2. ASSUME job[s].status = "done", u \in loyal[s] PROVE notifs[s][u] > 0
  <2>1. PICK i \in DOMAIN follows : follows[i] = u
    BY <1>1, <1>2 DEF Covers, Followers
  <2> QED
    BY <1>1, <1>2, <2>1 DEF Covers
<1> QED
  BY <1>1, <1>2 DEF Once, Stored

-----------------------------------------------------------------------------
(* Announcement, implemented                                               *)

There == {s \in Songs : song[s].state # "none"}
State == [s \in Songs |->
            IF job[s].status \in {"none", "done", "failed"} THEN job[s].status ELSE "running"]
Told  == [s \in Songs |-> {u \in Users : notifs[s][u] > 0}]
Shown == [s \in Songs |-> {u \in Users : <<s, u>> \in shown}]

\* What the abstract specification sees
news == <<Followers, There, State, loyal, Told, Shown>>

LEMMA NewsInit == Init => News!Init
<1> SUFFICES ASSUME Init PROVE News!Init
  OBVIOUS
<1>1. Followers \in SUBSET Users
  BY ConstantsAssumption DEF Init, Followers
<1>2. There = {}
  BY DEF Init, There
<1>3. State = [s \in Songs |-> "none"]
  BY DEF Init, State, NoJob
<1>4. loyal = [s \in Songs |-> {}]
  BY DEF Init
<1>5. Told = [s \in Songs |-> {}]
  BY DEF Init, Told
<1>6. Shown = [s \in Songs |-> {}]
  BY DEF Init, Shown
<1> QED
  BY <1>1, <1>2, <1>3, <1>4, <1>5, <1>6 DEF News!Init, There, State, Told, Shown

\* A step is unseen that leaves the followers, the jobs' outcomes and the songs there
LEMMA Unseen ==
    ASSUME UNCHANGED <<follows, loyal, notifs, shown>>, State' = State, There' = There
    PROVE  UNCHANGED news
  BY FollowersUnchanged DEF news, Told, Shown

\* Requests: a song that is there stays; the commit of a creation adds it
LEMMA CommitAdds ==
    ASSUME CatalogInv, NEW c \in Clients, Commit(c)
    PROVE  Sg(c) \in Songs /\ (There' = There \/ There' = There \cup {Sg(c)})
<1>1. CatalogOK /\ Sg(c) \in Songs
  BY DEF CatalogInv, CatalogOK, Request, Sg
<1>2. PICK doc : doc = Written(Sg(c), req[c].dto)
  OBVIOUS
<1>3. song' = [song EXCEPT ![Sg(c)] = doc]
  BY <1>2 DEF Commit
<1>4. doc.state # "none"
  BY <1>1, <1>2 DEF Written, CatalogOK, Song
<1>5. \A s \in Songs : song'[s].state # "none" <=> (song[s].state # "none" \/ s = Sg(c))
  BY <1>1, <1>3, <1>4 DEF CatalogOK
<1>6. There' = There \cup {Sg(c)}
  BY <1>1, <1>5 DEF There
<1> QED
  BY <1>1, <1>6

\* The job that a creation enqueues announces the song, once
LEMMA EnqueueAnnounces ==
    ASSUME IInv, NEW c \in Clients, Enqueue(c)
    PROVE  /\ Sg(c) \in There /\ State[Sg(c)] = "none"
           /\ State' = [State EXCEPT ![Sg(c)] = "running"]
           /\ loyal' = [loyal EXCEPT ![Sg(c)] = Followers]
           /\ UNCHANGED <<Followers, There, Told, Shown>>
<1>1. PICK t : t = Sg(c)
  OBVIOUS
<1>2. t \in Songs /\ Admitted(c) /\ At(c, "enqueue")
  BY <1>1 DEF IInv, CatalogInv, CatalogOK, RequestsInv, Request, Sg, Enqueue
<1>3. job[t].status = "none" /\ song[t].state # "none" /\ job \in [Songs -> JobRecord]
  BY <1>1, <1>2 DEF Admitted, At, IInv, FanoutInv, FanoutOK, JobsInv
<1>4. PICK j : j = [NoJob EXCEPT !.status = "waiting", !.tries = Attempts]
  OBVIOUS
<1>5. /\ job' = [job EXCEPT ![t] = j] /\ loyal' = [loyal EXCEPT ![t] = Followers]
      /\ UNCHANGED <<song, follows, notifs, shown>>
  BY <1>1, <1>4 DEF Enqueue, catalog, audience, screens
<1>6. j.status = "waiting"
  BY <1>4 DEF NoJob
<1>7. t \in There /\ State[t] = "none"
  BY <1>2, <1>3 DEF There, State
<1>8. State' = [State EXCEPT ![t] = "running"]
  <2>1. job'[t].status = "waiting" /\ \A s \in Songs \ {t} : job'[s] = job[s]
    BY <1>2, <1>3, <1>5, <1>6
  <2> QED
    BY <1>2, <2>1 DEF State
<1>9. UNCHANGED <<Followers, There, Told, Shown>>
  BY <1>5, FollowersUnchanged DEF There, Told, Shown
<1> QED
  BY <1>1, <1>5, <1>7, <1>8, <1>9

\* A step of the job that changes neither its outcome nor a notification is unseen
LEMMA RunningUnseen ==
    ASSUME FanoutOK, NEW s \in Songs, NEW j \in JobRecord, job' = [job EXCEPT ![s] = j],
           job[s].status \in {"waiting", "read", "insert", "push"},
           j.status \in {"waiting", "read", "insert", "push"}
    PROVE  State' = State
<1>1. job'[s] = j /\ \A t \in Songs \ {s} : job'[t] = job[t]
  BY DEF FanoutOK
<1> QED
  BY <1>1 DEF State

\* and one that ends it makes its outcome known
LEMMA EndingSeen ==
    ASSUME FanoutOK, NEW s \in Songs, NEW j \in JobRecord, job' = [job EXCEPT ![s] = j],
           job[s].status \in {"waiting", "read", "insert", "push"},
           j.status \in {"done", "failed"}
    PROVE  State[s] = "running" /\ State' = [State EXCEPT ![s] = j.status]
<1>1. job'[s] = j /\ \A t \in Songs \ {s} : job'[t] = job[t]
  BY DEF FanoutOK
<1> QED
  BY <1>1 DEF State

LEMMA JobNews ==
    ASSUME IInv, NEW s \in Songs, RunJob(s) \/ JobFails(s)
    PROVE  News!Tell(s) \/ News!Finish(s) \/ News!GiveUp(s) \/ UNCHANGED news
<1>1. FanoutOK /\ AudienceOK /\ Covers(s) /\ Once(s) /\ Stored(s) /\ job[s] \in JobRecord
  BY DEF IInv, FanoutInv, FanoutOK
<1>2. UNCHANGED <<song, follows, loyal, shown>> /\ There' = There /\ Followers' = Followers
  <2>1. UNCHANGED <<follows, loyal, shown>>
    BY <1>1, OtherJobs
  <2>2. UNCHANGED song
    BY ElsewhereKeeps DEF Elsewhere, catalog
  <2> QED
    BY <2>1, <2>2, FollowersUnchanged DEF There
<1>3. CASE StartJob(s)
  <2>1. PICK j : j = [job[s] EXCEPT !.status = "read", !.cursor = 0, !.page = {}]
    OBVIOUS
  <2>2. j \in JobRecord /\ j.status = "read"
    BY <1>1, <2>1 DEF JobRecord, Statuses
  <2>3. job[s].status = "waiting" /\ job' = [job EXCEPT ![s] = j] /\ UNCHANGED notifs
    BY <1>3, <2>1 DEF StartJob, Step
  <2> QED
    BY <1>1, <1>2, <2>2, <2>3, RunningUnseen, Unseen
<1>4. CASE PushPage(s)
  <2>1. UNCHANGED notifs /\ job[s].status = "push"
    BY <1>4 DEF PushPage, Step
  <2>2. FanoutOK' /\ job' = [job EXCEPT ![s] = job'[s]] /\ job'[s].status = "read"
    <3>1. FanoutOK'
      BY <1>1, <1>4, PushPageOK
    <3>2. PICK j : j = [job[s] EXCEPT !.status = "read", !.cursor = Cursor(s), !.page = {}]
      OBVIOUS
    <3>3. job' = [job EXCEPT ![s] = j]
      BY <1>4, <3>2 DEF PushPage, Step
    <3>4. job'[s] = j
      BY <1>1, <3>3 DEF FanoutOK
    <3> QED
      BY <1>1, <3>1, <3>2, <3>3, <3>4 DEF JobRecord
  <2>3. job'[s] \in JobRecord
    BY <2>2 DEF FanoutOK
  <2>4. State' = State
    <3>1. PICK j \in JobRecord : j = job'[s]
      BY <2>3
    <3> QED
      BY <1>1, <2>1, <2>2, <3>1, RunningUnseen
  <2> QED
    BY <1>2, <2>1, <2>4, Unseen
<1>5. CASE InsertPage(s)
  <2>1. PICK j : j = [job[s] EXCEPT !.status = "push"]
    OBVIOUS
  <2>2. j \in JobRecord /\ j.status = "push"
    BY <1>1, <2>1 DEF JobRecord, Statuses
  <2>3. job[s].status = "insert" /\ job' = [job EXCEPT ![s] = j]
        /\ notifs' = [notifs EXCEPT ![s] = [u \in Users |-> @[u] + Added(s, u)]]
    BY <1>5, <2>1 DEF InsertPage, Step, Added
  <2>4. State' = State /\ State[s] = "running"
    <3>1. State[s] = "running"
      BY <2>3 DEF State
    <3> QED
      BY <1>1, <2>2, <2>3, <3>1, RunningUnseen
  <2>5. PICK us : us = {u \in Users : notifs'[s][u] > 0}
    OBVIOUS
  <2>6. /\ \A u \in Users : notifs[s][u] > 0 => notifs'[s][u] > 0
        /\ \A t \in Songs \ {s} : notifs'[t] = notifs[t]
    <3>1. \A u \in Users : Added(s, u) \in Nat
      BY <1>1, AddedOK
    <3>2. notifs \in [Songs -> [Users -> Nat]]
      BY <1>1 DEF FanoutOK
    <3>3. \A u \in Users : notifs'[s][u] = notifs[s][u] + Added(s, u)
      BY <2>3, <3>2
    <3>4. \A u \in Users : notifs[s][u] \in Nat
      BY <3>2
    <3> QED
      BY <2>3, <3>1, <3>2, <3>3, <3>4
  <2>7. Told' = [Told EXCEPT ![s] = @ \cup us]
    <3>1. Told[s] \cup us = us
      BY <2>5, <2>6 DEF Told
    <3>2. \A t \in Songs : Told'[t] = IF t = s THEN us ELSE Told[t]
      BY <2>5, <2>6 DEF Told
    <3> QED
      BY <3>1, <3>2 DEF Told
  <2>8. Shown' = Shown
    BY <1>2 DEF Shown
  <2>9. us \in SUBSET Users
    BY <2>5
  <2>10. News!Tell(s)
    BY <1>2, <2>4, <2>7, <2>8, <2>9 DEF News!Tell, There, State, Told, Shown
  <2> QED
    BY <2>10
<1>6. CASE ReadPage(s)
  <2>1. FanoutOK' /\ Covers(s)'
    BY <1>1, <1>6, ReadPageOK
  <2>2. PICK j : j = job'[s]
    OBVIOUS
  <2>3. /\ job[s].status = "read" /\ job' = [job EXCEPT ![s] = j] /\ UNCHANGED notifs
        /\ j.status \in {"done", "insert"}
    <3>1. PICK page : page = Page(job[s].cursor)
      OBVIOUS
    <3>2. PICK k : k = [job[s] EXCEPT !.status = IF page = {} THEN "done" ELSE "insert",
                                      !.page = {<<i, follows[i]>> : i \in page}]
      BY Zenon
    <3>3. job[s].status = "read" /\ job' = [job EXCEPT ![s] = k] /\ UNCHANGED notifs
      BY <1>6, <3>1, <3>2 DEF ReadPage, Step
    <3>4. k = j
      BY <1>1, <2>2, <3>3 DEF FanoutOK
    <3>5. k.status \in {"done", "insert"}
      BY <1>1, <3>2 DEF JobRecord
    <3> QED
      BY <3>3, <3>4, <3>5
  <2>4. j \in JobRecord
    BY <2>1, <2>2 DEF FanoutOK
  <2>5. CASE j.status = "insert"
    <3>1. State' = State
      BY <1>1, <2>3, <2>4, <2>5, RunningUnseen
    <3> QED
      BY <1>2, <2>3, <3>1, Unseen
  <2>6. CASE j.status = "done"
    <3>1. State[s] = "running" /\ State' = [State EXCEPT ![s] = "done"]
      BY <1>1, <2>3, <2>4, <2>6, EndingSeen
    <3>2. loyal[s] \subseteq Told[s]
      <4> SUFFICES ASSUME NEW u \in loyal[s] PROVE u \in Users /\ notifs[s][u] > 0
        BY DEF Told
      <4>1. u \in Users
        BY <1>1 DEF FanoutOK
      <4>2. PICK i \in DOMAIN follows : follows[i] = u
        BY <1>1 DEF Covers, Followers
      <4>3. follows' = follows /\ loyal' = loyal /\ notifs' = notifs /\ job'[s].status = "done"
        BY <1>2, <2>2, <2>3, <2>6
      <4>4. notifs'[s][u] > 0
        BY <2>1, <4>2, <4>3 DEF Covers
      <4> QED
        BY <4>1, <4>3, <4>4
    <3>3. Told' = Told /\ Shown' = Shown
      BY <1>2, <2>3 DEF Told, Shown
    <3>4. News!Finish(s)
      BY <1>2, <3>1, <3>2, <3>3 DEF News!Finish, There, State, Told, Shown
    <3> QED
      BY <3>4
  <2> QED
    BY <2>3, <2>5, <2>6
<1>7. CASE JobFails(s)
  <2>1. FanoutOK'
    BY <1>1, <1>7, JobFailsOK
  <2>2. PICK j : j = job'[s]
    OBVIOUS
  <2>3. /\ job[s].status \in {"waiting", "read", "insert", "push"}
        /\ job' = [job EXCEPT ![s] = j] /\ UNCHANGED notifs
        /\ j.status \in {"waiting", "failed"}
    <3>1. PICK k : k = [NoJob EXCEPT !.tries = job[s].tries - 1,
                                     !.status = IF job[s].tries > 1 THEN "waiting" ELSE "failed"]
      OBVIOUS
    <3>2. /\ job[s].status \in {"read", "insert", "push"} /\ job' = [job EXCEPT ![s] = k]
          /\ UNCHANGED notifs
      BY <1>7, <3>1 DEF JobFails
    <3>3. k = j
      BY <1>1, <2>2, <3>2 DEF FanoutOK
    <3>4. k.status \in {"waiting", "failed"}
      BY <3>1 DEF NoJob
    <3> QED
      BY <3>2, <3>3, <3>4
  <2>4. j \in JobRecord
    BY <2>1, <2>2 DEF FanoutOK
  <2>5. CASE j.status = "waiting"
    <3>1. State' = State
      BY <1>1, <2>3, <2>4, <2>5, RunningUnseen
    <3> QED
      BY <1>2, <2>3, <3>1, Unseen
  <2>6. CASE j.status = "failed"
    <3>1. State[s] = "running" /\ State' = [State EXCEPT ![s] = "failed"]
      BY <1>1, <2>3, <2>4, <2>6, EndingSeen
    <3>2. Told' = Told /\ Shown' = Shown
      BY <1>2, <2>3 DEF Told, Shown
    <3>3. News!GiveUp(s)
      BY <1>2, <3>1, <3>2 DEF News!GiveUp, There, State, Told, Shown
    <3> QED
      BY <3>3
  <2> QED
    BY <2>3, <2>5, <2>6
<1> QED
  BY <1>3, <1>4, <1>5, <1>6, <1>7 DEF RunJob

LEMMA FollowerNews ==
    ASSUME IInv, NEW u \in Users, Follow(u) \/ Unfollow(u)
    PROVE  News!Follow(u) \/ News!Unfollow(u)
<1>1. AudienceOK /\ FanoutOK /\ None \notin Users
  BY ConstantsAssumption DEF IInv, FanoutInv
<1>2. UNCHANGED <<song, job, notifs, shown>>
  BY DEF Follow, Unfollow, catalog, fanout, screens
<1>3. UNCHANGED <<There, State, Told, Shown>>
  BY <1>2 DEF There, State, Told, Shown
<1>4. CASE Follow(u)
  <2>1. follows' = Append(follows, u) /\ loyal' = loyal
    BY <1>4 DEF Follow
  <2>2. /\ DOMAIN follows' = DOMAIN follows \cup {Len(follows) + 1}
        /\ \A i \in DOMAIN follows : follows'[i] = follows[i]
        /\ follows'[Len(follows) + 1] = u
    BY <1>1, <2>1 DEF AudienceOK
  <2>3. Followers' = Followers \cup {u}
    BY <1>1, <2>2 DEF Followers
  <2>4. News!Follow(u)
    BY <1>3, <2>1, <2>3 DEF News!Follow, There, State, Told, Shown
  <2> QED
    BY <2>4
<1>5. CASE Unfollow(u)
  <2>1. /\ follows' = [i \in DOMAIN follows |-> IF follows[i] = u THEN None ELSE follows[i]]
        /\ loyal' = [s \in Songs |-> loyal[s] \ {u}]
    BY <1>5 DEF Unfollow
  <2>2. DOMAIN follows' = DOMAIN follows
        /\ \A i \in DOMAIN follows : follows'[i] = IF follows[i] = u THEN None ELSE follows[i]
    BY <2>1
  <2>3. Followers' = Followers \ {u}
    BY <1>1, <2>2 DEF Followers
  <2>4. News!Unfollow(u)
    BY <1>3, <2>1, <2>3 DEF News!Unfollow, There, State, Told, Shown
  <2> QED
    BY <2>4
<1> QED
  BY <1>4, <1>5

LEMMA PushNews ==
    ASSUME IInv, NEW s \in Songs, NEW u \in Users, SendPush(s, u)
    PROVE  News!Show(s) \/ UNCHANGED news
<1>1. /\ <<s, u>> \in pushes /\ (shown' = shown \/ shown' = shown \cup {<<s, u>>})
      /\ UNCHANGED <<song, follows, loyal, job, notifs>>
  BY DEF SendPush, catalog, audience
<1>2. UNCHANGED <<Followers, There, State, Told>>
  BY <1>1, FollowersUnchanged DEF There, State, Told
<1>3. u \in Told[s]
  BY <1>1 DEF IInv, FanoutInv, Stored, Told
<1>4. CASE shown' = shown
  BY <1>1, <1>2, <1>4 DEF news, Shown
<1>5. CASE shown' = shown \cup {<<s, u>>}
  <2>1. Shown' = [Shown EXCEPT ![s] = @ \cup {u}]
    <3>1. \A t \in Songs : Shown'[t] = IF t = s THEN Shown[t] \cup {u} ELSE Shown[t]
      BY <1>5 DEF Shown
    <3> QED
      BY <3>1 DEF Shown
  <2>2. News!Show(s)
    BY <1>1, <1>2, <1>3, <2>1 DEF News!Show, There, State, Told, Shown
  <2> QED
    BY <2>2
<1> QED
  BY <1>1, <1>4, <1>5

LEMMA NewsStep == IInv /\ [Next]_vars => News!Next \/ UNCHANGED news
<1> SUFFICES ASSUME IInv, [Next]_vars PROVE News!Next \/ UNCHANGED news
  OBVIOUS
<1>1. ASSUME UNCHANGED <<song, follows, job, loyal, notifs, shown>>
      PROVE  UNCHANGED news
  BY <1>1, Unseen DEF State, There
<1>2. CASE UNCHANGED vars
  BY <1>1, <1>2 DEF vars
<1>3. CASE Moderation
  <2>1. There' = There
    BY <1>3, ModerationKeeps DEF IInv, CatalogInv, There
  <2>2. UNCHANGED <<follows, job, loyal, notifs, shown>>
    BY <1>3 DEF Moderation, UpdateStatus, RemoveSong, Tick, PublishDue, SetSong, fanout, audience,
                screens
  <2> QED
    BY <2>1, <2>2, Unseen DEF State
<1>4. ASSUME NEW c \in Clients, Commit(c) PROVE News!Next \/ UNCHANGED news
  <2>1. UNCHANGED <<follows, job, loyal, notifs, shown>>
    BY <1>4 DEF Commit, fanout, audience, screens
  <2>2. UNCHANGED <<Followers, State, Told, Shown>>
    BY <2>1, FollowersUnchanged DEF State, Told, Shown
  <2>3. PICK s \in Songs : There' = There \/ There' = There \cup {s}
    BY <1>4, CommitAdds DEF IInv
  <2>4. CASE There' = There
    BY <2>1, <2>2, <2>4 DEF news
  <2>5. CASE There' = There \cup {s}
    <3>1. News!Add(s)
      BY <2>1, <2>2, <2>5 DEF News!Add, There, State, Told, Shown
    <3> QED
      BY <2>3, <3>1 DEF News!Next
  <2> QED
    BY <2>3, <2>4, <2>5
<1>5. ASSUME NEW c \in Clients, Enqueue(c) PROVE News!Next
  <2>1. PICK s \in Songs : s = Sg(c)
    BY DEF IInv, CatalogInv, CatalogOK, Request, Sg
  <2>2. News!Announce(s)
    BY <1>5, <2>1, EnqueueAnnounces DEF News!Announce, There, State, Told, Shown
  <2> QED
    BY <2>2 DEF News!Next
<1>6. ASSUME NEW c \in Clients,
             \/ \E o \in {"create", "update"}, offer \in Offers[c] : Send(c, o, offer[1], offer[2])
             \/ FindSong(c) \/ Begin(c) \/ Fail(c) \/ Abort(c)
      PROVE  UNCHANGED news
  <2>1. ASSUME NEW o, NEW offer, Send(c, o, offer[1], offer[2])
        PROVE  UNCHANGED <<song, follows, job, loyal, notifs, shown>>
    BY <2>1 DEF Send, catalog, fanout, audience, screens
  <2>2. CASE FindSong(c) \/ Begin(c) \/ Fail(c) \/ Abort(c)
    BY <2>2, <1>1 DEF FindSong, Begin, Fail, Abort, catalog, fanout, audience, screens
  <2> QED
    BY <1>1, <1>6, <2>1, <2>2
<1>7. ASSUME NEW s \in Songs, RunJob(s) \/ JobFails(s) PROVE News!Next \/ UNCHANGED news
  BY <1>7, JobNews DEF News!Next
<1>8. ASSUME NEW u \in Users, Follow(u) \/ Unfollow(u) PROVE News!Next
  BY <1>8, FollowerNews DEF News!Next
<1>9. ASSUME NEW s \in Songs, NEW u \in Users, SendPush(s, u) PROVE News!Next \/ UNCHANGED news
  BY <1>9, PushNews DEF News!Next
<1>10. CASE FindScheduled \/ NotifyFollowersBatch \/ CronFails
            \/ \E k \in Sockets : Connect(k) \/ Disconnect(k)
  BY <1>1, <1>10 DEF FindScheduled, NotifyFollowersBatch, CronFails, Connect, Disconnect, catalog,
                     fanout, audience, screens
<1> QED
  BY <1>2, <1>3, <1>4, <1>5, <1>6, <1>7, <1>8, <1>9, <1>10, Cases DEF Elsewhere

\* The pages, cursors, pushes and retries of a fan-out are one announcement of a song
\* that was committed first: created once, told to all it is owed to before it is done,
\* and over when it is over (SongService.create, FanoutFollowerConsumer).
THEOREM ReleaseImplementsAnnouncement == Spec => ImplementsAnnouncement
<1>1. Init => News!Init
  BY NewsInit
<1>2. IInv /\ [Next]_vars => [News!Next]_news
  BY NewsStep
<1> QED
  BY <1>1, <1>2, IInvInit, IInvStep, PTL
     DEF Spec, ImplementsAnnouncement, News!Spec, News!vars, news, There, State, Told, Shown

\* The types of songs, albums, requests, jobs and notifications; a cursor and a page lie
\* within the follow documents, and attempts within their limit.
THEOREM TypeCorrect == Spec => []TypeOK
  BY IInvInit, IInvStep, IInvType, PTL DEF Spec

\* A finished fan-out has told everybody who has followed since it began, nobody twice
\* but for retries and those who followed again, and what sockets show is stored, for
\* any number of followers and any chunk (FanoutFollowerConsumer, NotificationService).
THEOREM NotifiedCorrect == Spec => []FollowersNotified
  BY IInvInit, IInvStep, IInvNotified, PTL DEF Spec

==============================================================================
