-------------------------------- MODULE Release --------------------------------
(***************************************************************************)
(* The songs of one artist: SongService writes a song and its album's list *)
(* of tracks in one transaction, a cron publishes what was scheduled, and  *)
(* a song that is published when it is created is announced to the         *)
(* followers by two queued jobs: one pages through the follow documents    *)
(* and stores notifications, the other pushes them to the open sockets.    *)
(***************************************************************************)
EXTENDS Integers, FiniteSets, Sequences, MongoTx

CONSTANTS
    Songs, Albums, Users,
    Clients, Requests,  \* the artist's connections, and requests on each
    Offers,             \* what a client's requests ask of which song
    Moderated,          \* songs that are deactivated or deleted
    Sockets, UserOf,    \* sockets, and whose access token each presents
    Fans,               \* the follow documents at first, in the order of _id: one a user
    FollowChanges,      \* how often a user follows or unfollows later
    Chunk,              \* follow documents read at a time
    Attempts, Faults,   \* of a job; steps that fail
    None

Releases == {"DRAFT", "SCHEDULED", "PUBLISHED"}
Dates    == {"future", "past"}

\* The part of CreateSongDto and UpdateSongDto that matters: None is left out
Dto == [release : Releases \cup {None}, at : Dates \cup {None}, album : Albums \cup {None}]

ASSUME ConstantsAssumption ==
    /\ Songs # {}
    /\ None \notin Albums \cup Users \cup Releases \cup Dates
    /\ Offers \in [Clients -> SUBSET (Songs \X Dto)]
    /\ Moderated \subseteq Songs
    /\ Requests \in [Clients -> Nat]
    /\ UserOf \in [Sockets -> Users]
    /\ Fans \in Seq(Users \cup {None})
    /\ \A i, j \in DOMAIN Fans : Fans[i] = Fans[j] => i = j \/ Fans[i] = None
    /\ FollowChanges \in Nat
    /\ Chunk \in Nat \ {0}
    /\ Attempts \in Nat \ {0}
    /\ Faults \in Nat

VARIABLES
    song, tracks, total,    \* song documents; songs and total_songs of an album
    req, stale,             \* what each client is doing; see MongoTx
    cron,                   \* autoPublishSongs
    follows,                \* the artist's follow documents, None when deleted
    job, notifs,            \* the fan-out job of a song; its notifications
    pushes, socketToUser, shown,    \* push jobs, open sockets, what they showed
    left, changes, faults,
    loose, loyal, retried, rejoined \* history: see the properties

catalog   == <<song, tracks, total>>
requests  == <<req, stale, left>>
audience  == <<follows, changes, rejoined>>
fanout    == <<job, notifs, pushes, retried>>
screens   == <<socketToUser, shown>>
vars == <<song, tracks, total, req, stale, cron, follows, job, notifs, pushes, socketToUser,
          shown, left, changes, faults, loose, loyal, retried, rejoined>>

Song == [state : {"none", "live", "deleted"}, release : Releases, at : Dates \cup {None},
         active : BOOLEAN, album : Albums \cup {None}]

\* old: the song's album as update read it, outside of the transaction
Request == [step : {"idle", "find", "begin", "commit", "enqueue"}, op : {"create", "update"},
            song : Songs, dto : Dto, old : Albums \cup {None}]

TypeOK ==
    /\ song \in [Songs -> Song]
    /\ tracks \in [Albums -> SUBSET Songs]
    /\ total \in [Albums -> Int]
    /\ req \in [Clients -> Request]
    /\ stale \in [Clients -> SUBSET Albums]
    /\ cron.step \in {"idle", "publish", "notify"} /\ cron.due \subseteq Songs
    /\ follows \in Seq(Users \cup {None})
    /\ \A s \in Songs :
        /\ job[s].status \in {"none", "waiting", "read", "insert", "push", "done", "failed"}
        /\ job[s].cursor \in 0 .. Len(follows)
        /\ job[s].page \subseteq (1 .. Len(follows)) \X Users
        /\ job[s].tries \in 0 .. Attempts
    /\ notifs \in [Songs -> [Users -> Nat]]
    /\ pushes \subseteq Songs \X Users
    /\ socketToUser \in [Sockets -> Users \cup {None}]
    /\ shown \subseteq Songs \X Users
    /\ loose \subseteq Songs
    /\ loyal \in [Songs -> SUBSET Users]
    /\ retried \subseteq Songs
    /\ rejoined \subseteq Users

\* cursor: the _id of the last document handled; page: the ids and users in hand
NoJob == [status |-> "none", cursor |-> 0, page |-> {}, tries |-> 0]
Idle  == [step |-> "idle", op |-> "create", song |-> CHOOSE s \in Songs : TRUE,
          dto |-> [release |-> None, at |-> None, album |-> None], old |-> None]

Init ==
    /\ song = [s \in Songs |-> [state |-> "none", release |-> "DRAFT", at |-> None,
                                active |-> TRUE, album |-> None]]
    /\ tracks = [a \in Albums |-> {}]
    /\ total = [a \in Albums |-> 0]
    /\ req = [c \in Clients |-> Idle]
    /\ stale = [c \in Clients |-> {}]
    /\ cron = [step |-> "idle", due |-> {}]
    /\ follows = Fans
    /\ job = [s \in Songs |-> NoJob]
    /\ notifs = [s \in Songs |-> [u \in Users |-> 0]]
    /\ pushes = {}
    /\ socketToUser = [k \in Sockets |-> None]
    /\ shown = {}
    /\ left = Requests
    /\ changes = FollowChanges
    /\ faults = Faults
    /\ loose = {}
    /\ loyal = [s \in Songs |-> {}]
    /\ retried = {}
    /\ rejoined = {}

At(c, step) == req[c].step = step
Sg(c) == req[c].song

Goto(c, to) ==
    req' = [req EXCEPT ![c] = IF to = "idle" THEN Idle ELSE [@ EXCEPT !.step = to]]

Open == {c \in Clients : At(c, "commit")}

\* Songs written by a transaction that has not ended
Locked == {Sg(c) : c \in Open}

-----------------------------------------------------------------------------
(* Requests: SongService.create and update                                 *)

\* validReleaseAt; what it returns is not used
ValidReleaseAt(dto) ==
    /\ dto.release = "DRAFT" => dto.at = None
    /\ dto.release = "SCHEDULED" => dto.at = "future"

\* CreateSongDto requires a releseStatus, UpdateSongDto nothing
Send(c, o, s, dto) ==
    /\ At(c, "idle") /\ left[c] > 0
    /\ ValidReleaseAt(dto)
    /\ IF o = "create"
       THEN /\ dto.release # None
            /\ song[s].state = "none" /\ \A d \in Clients : At(d, "idle") \/ Sg(d) # s
       ELSE song[s].state # "none"
    /\ req' = [req EXCEPT ![c] = [Idle EXCEPT !.step = IF o = "create" THEN "begin" ELSE "find",
                                              !.op = o, !.song = s, !.dto = dto]]
    /\ left' = [left EXCEPT ![c] = @ - 1]
    /\ UNCHANGED <<catalog, stale, cron, audience, fanout, screens, faults, loose, loyal>>

\* findById: deleted songs too
FindSong(c) ==
    /\ At(c, "find")
    /\ req' = [req EXCEPT ![c] = [@ EXCEPT !.step = "begin", !.old = song[Sg(c)].album]]
    /\ UNCHANGED <<catalog, stale, left, cron, audience, fanout, screens, faults, loose, loyal>>

\* The transaction's first write, which locks the song, or throws WriteConflict
Begin(c) ==
    /\ At(c, "begin")
    /\ Goto(c, IF Sg(c) \in Locked THEN "idle" ELSE "commit")
    /\ UNCHANGED <<catalog, stale, left, cron, audience, fanout, screens, faults, loose, loyal>>

\* $set leaves alone what the dto leaves out
Field(new, old) == IF new = None THEN old ELSE new

Written(s, dto) ==
    [song[s] EXCEPT !.state = IF @ = "none" THEN "live" ELSE @, !.album = Field(dto.album, @),
                    !.release = Field(dto.release, @), !.at = Field(dto.at, @)]

\* The albums the song is taken from and put into
Leaves(c) == {a \in {req[c].old} \ {None} : a # req[c].dto.album}
Enters(c) == {a \in {req[c].dto.album} \ {None} : a # req[c].old}

\* Mutant: removeSongFromAlbum does not ask whether the song is there
PulledBlindly(c) == Leaves(c)

\* removeSongFromAlbum and addSongToAlbum match an album with or without the song
Pulled(c) == {a \in Leaves(c) : Sg(c) \in tracks[a]}

Pushed(c) == {a \in Enters(c) : Sg(c) \notin tracks[a]}

Conflict(c) == WriteConflict(stale, c, Pulled(c) \cup Pushed(c), {})

Abort(c) ==
    /\ At(c, "commit") /\ Conflict(c)
    /\ Goto(c, "idle")
    /\ stale' = Forget(stale, c)
    /\ UNCHANGED <<catalog, left, cron, audience, fanout, screens, faults, loose, loyal>>

\* Loose: an update that leaves the album out takes the song from the album's
\* tracks and not the album from the song; so does one that read an older album
Loosens(c) ==
    /\ req[c].op = "update"
    /\ req[c].old # song[Sg(c)].album \/ (req[c].old # None /\ req[c].dto.album = None)

Commit(c) ==
    /\ At(c, "commit") /\ ~Conflict(c)
    /\ song' = [song EXCEPT ![Sg(c)] = Written(Sg(c), req[c].dto)]
    /\ tracks' = [a \in Albums |->
                    IF a \in Pushed(c) THEN tracks[a] \cup {Sg(c)}
                    ELSE IF a \in Pulled(c) THEN tracks[a] \ {Sg(c)} ELSE tracks[a]]
    /\ total' = [a \in Albums |->
                    total[a] + (IF a \in Pushed(c) THEN 1 ELSE IF a \in Pulled(c) THEN -1 ELSE 0)]
    /\ stale' = Committed(Forget(stale, c), Open \ {c}, Pulled(c) \cup Pushed(c))
    /\ loose' = IF Loosens(c) THEN loose \cup {Sg(c)} ELSE loose
    /\ Goto(c, IF req[c].op = "create" /\ req[c].dto.release = "PUBLISHED"
               THEN "enqueue" ELSE "idle")
    /\ UNCHANGED <<left, cron, audience, fanout, screens, faults, loyal>>

Followers == {follows[i] : i \in DOMAIN follows} \ {None}

\* fanoutFollower, after the commit
Enqueue(c) ==
    /\ At(c, "enqueue")
    /\ job' = [job EXCEPT ![Sg(c)] = [NoJob EXCEPT !.status = "waiting", !.tries = Attempts]]
    /\ loyal' = [loyal EXCEPT ![Sg(c)] = Followers]
    /\ Goto(c, "idle")
    /\ UNCHANGED <<catalog, stale, left, cron, audience, notifs, pushes, retried, screens, faults,
                   loose>>

\* An await throws.  Once the transaction is committed nothing is undone: the song
\* stays, and the followers are not told
Fail(c) ==
    /\ faults > 0 /\ req[c].step \in {"find", "begin", "commit", "enqueue"}
    /\ faults' = faults - 1
    /\ Goto(c, "idle")
    /\ stale' = Forget(stale, c)
    /\ UNCHANGED <<catalog, left, cron, audience, fanout, screens, loose, loyal>>

-----------------------------------------------------------------------------
(* Writes of one document wait for a transaction that holds it             *)

Free(s) == s \in Moderated /\ song[s].state = "live" /\ s \notin Locked

SetSong(s, doc) ==
    /\ song' = [song EXCEPT ![s] = doc]
    /\ UNCHANGED <<tracks, total, requests, cron, audience, fanout, screens, faults, loose, loyal>>

UpdateStatus(s) ==
    /\ Free(s)
    /\ SetSong(s, [song[s] EXCEPT !.active = ~@])

\* removeForAdmin and removeForArtist leave the album's tracks and the jobs alone
RemoveSong(s) ==
    /\ Free(s)
    /\ SetSong(s, [song[s] EXCEPT !.state = "deleted"])

\* The release date of a song passes
Tick(s) ==
    /\ song[s].at = "future"
    /\ SetSong(s, [song[s] EXCEPT !.at = "past"])

-----------------------------------------------------------------------------
(* autoPublishSongs, every ten minutes                                     *)

Scheduled(s) == song[s].state = "live" /\ song[s].active /\ song[s].release = "SCHEDULED"

\* Mutant: releaseAt is compared the wrong way round
DueTooEarly(s) == Scheduled(s) /\ song[s].at = "future"

Due(s) == Scheduled(s) /\ song[s].at = "past"

FindScheduled ==
    /\ cron.step = "idle" /\ \E s \in Songs : Due(s)
    /\ cron' = [step |-> "publish", due |-> {s \in Songs : Due(s)}]
    /\ UNCHANGED <<catalog, requests, audience, fanout, screens, faults, loose, loyal>>

\* updateMany asks again what is due
PublishDue ==
    /\ cron.step = "publish" /\ \A s \in Songs : Due(s) => s \notin Locked
    /\ song' = [s \in Songs |-> IF Due(s) THEN [song[s] EXCEPT !.release = "PUBLISHED"]
                                ELSE song[s]]
    /\ cron' = [cron EXCEPT !.step = "notify"]
    /\ UNCHANGED <<tracks, total, requests, audience, fanout, screens, faults, loose, loyal>>

\* findScheduled does not project artistId: the songs are grouped under the artist
\* "undefined", whose followers cannot be found, and allSettled skips the error
NotifyFollowersBatch ==
    /\ cron.step = "notify"
    /\ cron' = [step |-> "idle", due |-> {}]
    /\ UNCHANGED <<catalog, requests, audience, fanout, screens, faults, loose, loyal>>

CronFails ==
    /\ faults > 0 /\ cron.step # "idle"
    /\ faults' = faults - 1
    /\ cron' = [step |-> "idle", due |-> {}]
    /\ UNCHANGED <<catalog, requests, audience, fanout, screens, loose, loyal>>

-----------------------------------------------------------------------------
(* The followers, and the two jobs                                         *)

\* Documents follow one another in the order of _id; Engagement has the requests
Follow(u) ==
    /\ changes > 0 /\ u \notin Followers
    /\ changes' = changes - 1
    /\ follows' = Append(follows, u)
    /\ rejoined' = rejoined \cup {u}
    /\ UNCHANGED <<catalog, requests, cron, fanout, screens, faults, loose, loyal>>

Unfollow(u) ==
    /\ changes > 0 /\ u \in Followers
    /\ changes' = changes - 1
    /\ follows' = [i \in DOMAIN follows |-> IF follows[i] = u THEN None ELSE follows[i]]
    /\ loyal' = [s \in Songs |-> loyal[s] \ {u}]
    /\ UNCHANGED <<catalog, requests, cron, fanout, screens, faults, loose, rejoined>>

Step(s, from, next) ==
    /\ job[s].status = from
    /\ job' = [job EXCEPT ![s] = next]

\* A worker takes the job up, from the first document, also when it is a retry
StartJob(s) ==
    /\ Step(s, "waiting", [job[s] EXCEPT !.status = "read", !.cursor = 0, !.page = {}])
    /\ UNCHANGED <<catalog, requests, cron, audience, notifs, pushes, retried, screens, faults,
                   loose, loyal>>

\* The documents after the cursor, the first Chunk of them
After(cursor) == {i \in cursor + 1 .. Len(follows) : follows[i] # None}
Page(cursor)  == {i \in After(cursor) : Cardinality({j \in After(cursor) : j <= i}) <= Chunk}

Last(page) == CHOOSE i \in page : \A j \in page : j <= i

\* findFollowingUserPaged
ReadPage(s) ==
    /\ LET page == Page(job[s].cursor)
       IN Step(s, "read", [job[s] EXCEPT !.status = IF page = {} THEN "done" ELSE "insert",
                                         !.page = {<<i, follows[i]>> : i \in page}])
    /\ UNCHANGED <<catalog, requests, cron, audience, notifs, pushes, retried, screens, faults,
                   loose, loyal>>

Receivers(s) == {f[2] : f \in job[s].page}

\* createNotifications: insertMany, then one push job for the page
InsertPage(s) ==
    /\ Step(s, "insert", [job[s] EXCEPT !.status = "push"])
    /\ notifs' = [notifs EXCEPT ![s] = [u \in Users |->
                     @[u] + Cardinality({f \in job[s].page : f[2] = u})]]
    /\ UNCHANGED <<catalog, requests, cron, audience, pushes, retried, screens, faults, loose,
                   loyal>>

\* Mutant: the cursor moves on by the size of a chunk instead of the last _id
CursorByChunk(s) == job[s].cursor + Chunk

Cursor(s) == Last({f[1] : f \in job[s].page})

PushPage(s) ==
    /\ Step(s, "push", [job[s] EXCEPT !.status = "read", !.cursor = Cursor(s), !.page = {}])
    /\ pushes' = pushes \cup ({s} \X Receivers(s))
    /\ UNCHANGED <<catalog, requests, cron, audience, notifs, retried, screens, faults, loose,
                   loyal>>

\* Mutant: the error is swallowed, as in the job of a product payment
JobSwallows(s) ==
    /\ faults > 0 /\ job[s].status \in {"read", "insert", "push"}
    /\ faults' = faults - 1
    /\ job' = [job EXCEPT ![s].status = "done"]
    /\ UNCHANGED <<catalog, requests, cron, audience, notifs, pushes, retried, screens, loose, loyal>>

\* The job throws or its worker dies; BullMQ has it run again while attempts are left
JobFails(s) ==
    /\ faults > 0 /\ job[s].status \in {"read", "insert", "push"}
    /\ faults' = faults - 1
    /\ job' = [job EXCEPT ![s] = [NoJob EXCEPT !.tries = job[s].tries - 1,
                   !.status = IF job[s].tries > 1 THEN "waiting" ELSE "failed"]]
    /\ retried' = retried \cup {s}
    /\ UNCHANGED <<catalog, requests, cron, audience, notifs, pushes, screens, loose, loyal>>

OnlineUsers == {socketToUser[k] : k \in Sockets} \ {None}

\* SendNotificationConsumer: one attempt, whoever is offline is passed over
SendPush(s, u) ==
    /\ <<s, u>> \in pushes
    /\ pushes' = pushes \ {<<s, u>>}
    /\ shown' = IF u \in OnlineUsers THEN shown \cup {<<s, u>>} ELSE shown
    /\ UNCHANGED <<catalog, requests, cron, audience, job, notifs, retried, socketToUser, faults,
                   loose, loyal>>

\* handleConnection and handleDisconnect
Connect(k) ==
    /\ socketToUser[k] = None
    /\ socketToUser' = [socketToUser EXCEPT ![k] = UserOf[k]]
    /\ UNCHANGED <<catalog, requests, cron, audience, fanout, shown, faults, loose, loyal>>

Disconnect(k) ==
    /\ socketToUser[k] # None
    /\ socketToUser' = [socketToUser EXCEPT ![k] = None]
    /\ UNCHANGED <<catalog, requests, cron, audience, fanout, shown, faults, loose, loyal>>

-----------------------------------------------------------------------------
EndTransaction == \E c \in Clients : Abort(c) \/ Commit(c)

Autopublish == FindScheduled \/ PublishDue \/ NotifyFollowersBatch

RunJob(s) == StartJob(s) \/ ReadPage(s) \/ InsertPage(s) \/ PushPage(s)

Next ==
    \/ \E c \in Clients :
        \/ \E o \in {"create", "update"}, offer \in Offers[c] : Send(c, o, offer[1], offer[2])
        \/ FindSong(c) \/ Begin(c) \/ Enqueue(c) \/ Fail(c)
    \/ EndTransaction
    \/ \E s \in Songs : UpdateStatus(s) \/ RemoveSong(s) \/ Tick(s) \/ RunJob(s) \/ JobFails(s)
    \/ Autopublish \/ CronFails
    \/ \E u \in Users : Follow(u) \/ Unfollow(u) \/ \E s \in Songs : SendPush(s, u)
    \/ \E k \in Sockets : Connect(k) \/ Disconnect(k)

Spec == Init /\ [][Next]_vars

\* The cron runs every ten minutes and transactions end
FairSpec == Spec /\ WF_vars(EndTransaction) /\ WF_vars(Autopublish)

-----------------------------------------------------------------------------
(* Properties                                                              *)

\* total_songs is the number of tracks, and a song is in the tracks of its album
\* and of no other, unless an update left the album out or read an older one.
TrackLists ==
    /\ \A a \in Albums : total[a] = Cardinality(tracks[a])
    /\ \A a \in Albums, s \in Songs \ loose : s \in tracks[a] <=> song[s].album = a

\* Again and again no song is waiting past its release date: no scheduled and
\* active song stays due for ever, whatever else is written to it meanwhile.
DueIsPublished == []<>(\A s \in Songs : ~(Scheduled(s) /\ song[s].at = "past"))

\* Once a song's fan-out is done, everybody who has followed the artist since it
\* began has a notification of the song; nobody has two, unless the job was
\* retried or he followed again meanwhile; and sockets show only what is stored.
FollowersNotified ==
    \A s \in Songs, u \in Users :
        /\ job[s].status = "done" /\ u \in loyal[s] => notifs[s][u] > 0
        /\ s \notin retried /\ u \notin rejoined => notifs[s][u] <= 1
        /\ <<s, u>> \in shown \cup pushes => notifs[s][u] > 0

\* The queued jobs of a song, with their pages, cursors, pushes and retries, are one
\* announcement: the song was committed first, the job is created once, it ends only
\* when everybody who has followed since then was told, and an end is final.
News == INSTANCE Announcement WITH
    followers <- Followers,
    there <- {s \in Songs : song[s].state # "none"},
    state <- [s \in Songs |->
        IF job[s].status \in {"none", "done", "failed"} THEN job[s].status ELSE "running"],
    owed <- loyal,
    told <- [s \in Songs |-> {u \in Users : notifs[s][u] > 0}],
    shown <- [s \in Songs |-> {u \in Users : <<s, u>> \in shown}]
ImplementsAnnouncement == News!Spec

==============================================================================
