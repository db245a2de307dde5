------------------------------ MODULE Listening ------------------------------
(***************************************************************************)
(* What a user listens to (PlayerService), the playlists it is taken from  *)
(* (PlaylistService) and the advertisements in between                     *)
(* (AdvertisementService).  A session is an object in the memory of the    *)
(* process.  A request that waits for the database keeps its reference to  *)
(* the object, goes on changing it, and saves it again as the session.     *)
(***************************************************************************)
EXTENDS Integers, FiniteSets, SequencesExt

CONSTANTS
    Songs, Playlists, Ads,
    Album,              \* the songs of an album, in the order of the collection
    InitialList,        \* the songs of a playlist that exists from the start
    NewLists,           \* what a playlist's songs may be replaced by
    Premium,            \* whether the user had paid when he logged in
    Clients, Requests,  \* the user's connections, and how often each asks
    Edits,              \* how often something else changes, a restart included
    AdEvery,            \* 3: the calls of next that make one advertisement
    NextCap, QueueCap,  \* 10 and 15: how much history is kept
    None

ASSUME ConstantsAssumption ==
    /\ Album \in Seq(Songs) /\ InitialList \in Seq(Songs)
    /\ NewLists \subseteq Seq(Songs)
    /\ Premium \in BOOLEAN
    /\ Requests \in [Clients -> Nat]
    /\ Edits \in Nat
    /\ AdEvery \in Nat \ {0} /\ NextCap \in Nat \ {0} /\ QueueCap \in Nat \ {0}

VARIABLES
    live,               \* the songs that are not deleted; all are published
    playlists, ads,
    ctx, session,       \* the objects, and the one that is the user's session
    req, left, edits,
    latest, overtaken   \* history: see the properties

library == <<live, playlists, ads>>
vars == <<live, playlists, ads, ctx, session, req, left, edits, latest, overtaken>>

\* An object is named by the start request that made it
Ids == Clients \X Nat

\* History, for the properties: crossed, something changed the session while a request
\* waited to change it; kept, the songs that start queued and nothing has discarded
Context == [cur : Songs, queue : Seq(Songs), hist : Seq(Songs), count : Nat,
            ad : Ads \cup {None}, crossed : BOOLEAN, kept : SUBSET Songs]

Playlist == [songs : Seq(Songs), deleted : BOOLEAN, made : BOOLEAN]
Ad       == [active : BOOLEAN, deleted : BOOLEAN]

Steps == {"idle", "playlist", "album", "ads", "random", "add"}
Request == [step : Steps, nr : Nat, id : Ids \cup {None}, song : Songs \cup {None},
            list : Playlists \cup {None}, both : BOOLEAN]

\* The types, and that the history is cut and the calls are counted up to AdEvery
TypeOK ==
    /\ live \subseteq Songs
    /\ playlists \in [Playlists -> Playlist]
    /\ ads \in [Ads -> Ad]
    /\ DOMAIN ctx \subseteq Ids
    /\ \A x \in DOMAIN ctx :
        /\ ctx[x] \in Context
        /\ ctx[x].count < AdEvery
        /\ Len(ctx[x].hist) <= (IF NextCap > QueueCap THEN NextCap ELSE QueueCap)
    /\ session \in DOMAIN ctx \cup {None}
    /\ req \in [Clients -> Request]
    /\ left \in [Clients -> Nat]
    /\ edits \in Nat
    /\ latest \in Ids \cup {None}
    /\ overtaken \in BOOLEAN

Idle == [step |-> "idle", nr |-> 0, id |-> None, song |-> None, list |-> None, both |-> FALSE]

Init ==
    /\ live = Songs
    /\ \E there \in SUBSET Playlists :
        playlists = [p \in Playlists |-> [made |-> p \in there, deleted |-> FALSE,
                                          songs |-> IF p \in there THEN InitialList ELSE <<>>]]
    /\ ads = [a \in Ads |-> [active |-> TRUE, deleted |-> FALSE]]
    /\ ctx = [x \in {} |-> None]
    /\ session = None
    /\ req = [c \in Clients |-> Idle]
    /\ left = Requests
    /\ edits = Edits
    /\ latest = None
    /\ overtaken = FALSE

At(c, step) == req[c].step = step
Free(c) == At(c, "idle") /\ left[c] > 0
Asked(c) == left' = [left EXCEPT ![c] = @ - 1]
Answered(c) == req' = [req EXCEPT ![c] = Idle]

\* filter
Those(seq, S) ==
    LET those[n \in 0 .. Len(seq)] ==
            IF n = 0 THEN <<>>
            ELSE IF seq[n] \in S THEN Append(those[n - 1], seq[n]) ELSE those[n - 1]
    IN those[Len(seq)]

Without(seq, s) == Those(seq, Songs \ {s})

\* Mutant: the history is never cut
CappedNever(seq, n) == seq

\* slice(0, n)
Capped(seq, n) == SubSeq(seq, 1, IF Len(seq) < n THEN Len(seq) ELSE n)

-----------------------------------------------------------------------------
(* start                                                                   *)

NewContext(song, queue) ==
    [cur |-> song, queue |-> queue, hist |-> <<>>, count |-> 0, ad |-> None,
     crossed |-> FALSE, kept |-> Range(queue) \cup {song}]

\* Requests that wait for the database and hold an object
Waiting == {c \in Clients : req[c].step \in {"ads", "random"}}

\* Mutant: a session that is there is kept
SavedOnce(x) == IF session = None THEN x ELSE session

\* saveSession
Saved(x) == x

Begin(x, song, queue) ==
    /\ ctx' = [y \in DOMAIN ctx \cup {x} |->
                  IF y = x THEN NewContext(song, queue) ELSE ctx[y]]
    /\ session' = Saved(x)
    /\ latest' = x
    /\ overtaken' = (Waiting # {})

StartSong(c) ==
    /\ Free(c)
    /\ \E s \in Songs : Begin(<<c, left[c]>>, s, <<>>)
    /\ Asked(c)
    /\ UNCHANGED <<library, req, edits>>

\* start with a playlist, an album, or both
Start(c) ==
    /\ Free(c)
    /\ \E s \in Songs, p \in Playlists, step \in {"playlist", "album"}, both \in BOOLEAN :
        /\ both => step = "playlist"
        /\ req' = [req EXCEPT ![c] = [Idle EXCEPT !.step = step, !.nr = left[c], !.song = s,
                                                  !.list = p, !.both = both]]
    /\ Asked(c)
    /\ UNCHANGED <<library, ctx, session, edits, latest, overtaken>>

\* A playlist that was deleted is an error, as is one without songs
FetchPlaylist(c) ==
    /\ At(c, "playlist")
    /\ LET list  == playlists[req[c].list]
           queue == Without(list.songs, req[c].song)
       IN IF ~list.made \/ list.deleted \/ list.songs = <<>>
          THEN Answered(c) /\ UNCHANGED <<ctx, session, latest, overtaken>>
          ELSE IF req[c].both
          THEN /\ req' = [req EXCEPT ![c].step = "album"]
               /\ UNCHANGED <<ctx, session, latest, overtaken>>
          ELSE Begin(<<c, req[c].nr>>, req[c].song, queue) /\ Answered(c)
    /\ UNCHANGED <<library, left, edits>>

\* The songs of the album that follow, or all but this one if it is not among them
AlbumQueue(song) ==
    LET list == Those(Album, live)
        from == {i \in DOMAIN list : list[i] = song}
    IN IF from = {} THEN list ELSE SubSeq(list, 1 + CHOOSE i \in from : TRUE, Len(list))

FetchAlbum(c) ==
    /\ At(c, "album")
    /\ Answered(c)
    /\ IF Range(Album) \cap live = {} THEN UNCHANGED <<ctx, session, latest, overtaken>>
       ELSE Begin(<<c, req[c].nr>>, req[c].song, AlbumQueue(req[c].song))
    /\ UNCHANGED <<library, left, edits>>

-----------------------------------------------------------------------------
(* next                                                                    *)

\* What the length of the history leaves no room for is discarded
Remember(x, songs, cap) ==
    LET all == songs \o x.hist
    IN [x EXCEPT !.hist = Capped(all, cap),
                 !.kept = @ \ Range(SubSeq(all, cap + 1, Len(all)))]

\* x plays s instead; what was chosen while this request waited is discarded
Play(x, s) == [x EXCEPT !.cur = s, !.kept = IF x.crossed THEN @ \ {x.cur} ELSE @]

PlayQueue(x) == [Play(x, Head(x.queue)) EXCEPT !.queue = Tail(@)]

\* Another request waits to change the session x, whose object this one changes
Crossed(c, x) ==
    [ctx[x] EXCEPT !.crossed = @ \/ \E d \in Waiting \ {c} : req[d].id = x]

\* The song that ends is the one the client names, whatever is playing; when an
\* advertisement ends, none is.  The call is counted.
Ended(x, song) ==
    LET y == IF x.ad # None THEN [x EXCEPT !.ad = None]
             ELSE [Remember(x, <<song>>, NextCap) EXCEPT
                      !.kept = IF song = x.cur THEN @ ELSE @ \ {x.cur}]
    IN IF Premium THEN y ELSE [y EXCEPT !.count = IF @ + 1 >= AdEvery THEN 0 ELSE @ + 1]

\* and the request waits for an advertisement or, without a queue, for a song
Next_(c) ==
    /\ Free(c) /\ session # None
    /\ \E song \in Songs :
        LET x  == Ended(Crossed(c, session), song)
            ad == ~Premium /\ x.count = 0
        IN IF ad \/ x.queue = <<>>
           THEN /\ ctx' = [ctx EXCEPT ![session] = x]
                /\ req' = [req EXCEPT ![c] = [Idle EXCEPT !.id = session,
                                !.step = IF ad THEN "ads" ELSE "random"]]
           ELSE ctx' = [ctx EXCEPT ![session] = PlayQueue(x)] /\ UNCHANGED req
    /\ Asked(c)
    /\ UNCHANGED <<library, session, edits, latest, overtaken>>

\* getRandomAds
Offered == {a \in Ads : ads[a].active /\ ~ads[a].deleted}

\* saveSession puts the object back, whatever the session is by now
Advertise(c) ==
    /\ At(c, "ads") /\ Offered # {}
    /\ LET x == req[c].id
       IN /\ \E a \in Offered : ctx' = [ctx EXCEPT ![x] = [Crossed(c, x) EXCEPT !.ad = a]]
          /\ session' = x
    /\ Answered(c)
    /\ UNCHANGED <<library, left, edits, latest, overtaken>>

NoAds(c) ==
    /\ At(c, "ads") /\ Offered = {}
    /\ LET x == req[c].id
       IN IF ctx[x].queue = <<>>
          THEN req' = [req EXCEPT ![c].step = "random"] /\ UNCHANGED <<ctx, session>>
          ELSE /\ ctx' = [ctx EXCEPT ![x] = PlayQueue(Crossed(c, x))]
               /\ session' = x
               /\ Answered(c)
    /\ UNCHANGED <<library, left, edits, latest, overtaken>>

\* Without a published song the request throws
RandomSong(c) ==
    /\ At(c, "random")
    /\ LET x == req[c].id
       IN IF live = {} THEN UNCHANGED <<ctx, session>>
          ELSE /\ \E s \in live : ctx' = [ctx EXCEPT ![x] = Play(Crossed(c, x), s)]
               /\ session' = x
    /\ Answered(c)
    /\ UNCHANGED <<library, left, edits, latest, overtaken>>

-----------------------------------------------------------------------------
(* previous and play-from-queue, which wait for nothing                    *)

\* An advertisement that is shown goes on, and the next call ends it
Changed(c) ==
    LET x == Crossed(c, session) IN [x EXCEPT !.crossed = @ \/ x.ad # None]

Previous(c) ==
    /\ Free(c) /\ session # None /\ ctx[session].hist # <<>>
    /\ LET x == Changed(c)
       IN ctx' = [ctx EXCEPT ![session] = [x EXCEPT !.cur = Head(x.hist), !.hist = Tail(@),
                                                    !.queue = <<x.cur>> \o @]]
    /\ Asked(c)
    /\ UNCHANGED <<library, session, req, edits, latest, overtaken>>

\* Mutant: the songs that are passed over are not recorded
PassedNone(x, i) == <<x.cur>>

\* Into the history: the current song, then those that are passed over
Passed(x, i) == <<x.cur>> \o SubSeq(x.queue, 1, i - 1)

PlayFromQueue(c) ==
    /\ Free(c) /\ session # None
    /\ \E i \in DOMAIN ctx[session].queue :
        LET x == Changed(c)
        IN /\ \A j \in 1..(i - 1) : x.queue[j] # x.queue[i]
           /\ ctx' = [ctx EXCEPT ![session] =
                [Remember(x, Passed(x, i), QueueCap) EXCEPT
                    !.cur = x.queue[i], !.queue = SubSeq(@, i + 1, Len(@))]]
    /\ Asked(c)
    /\ UNCHANGED <<library, session, req, edits, latest, overtaken>>

-----------------------------------------------------------------------------
(* Playlists, advertisements and songs change underneath                   *)

Edit == edits > 0 /\ edits' = edits - 1
Set(p, list) == playlists' = [playlists EXCEPT ![p] = list]

\* addSongToPlaylist looks for the song first
AskAdd(c) ==
    /\ Free(c)
    /\ \E p \in Playlists, s \in live :
        req' = [req EXCEPT ![c] = [Idle EXCEPT !.step = "add", !.song = s, !.list = p]]
    /\ Asked(c)
    /\ UNCHANGED <<library, ctx, session, edits, latest, overtaken>>

AddSong(c) ==
    /\ At(c, "add")
    /\ LET list == playlists[req[c].list]
       IN IF ~list.made \/ req[c].song \in Range(list.songs) THEN UNCHANGED playlists
          ELSE Set(req[c].list, [list EXCEPT !.songs = Append(@, req[c].song)])
    /\ Answered(c)
    /\ UNCHANGED <<live, ads, ctx, session, left, edits, latest, overtaken>>

\* createPlaylist
CreateList ==
    /\ Edit
    /\ \E p \in Playlists, new \in NewLists :
        ~playlists[p].made /\ Set(p, [playlists[p] EXCEPT !.made = TRUE, !.songs = new])
    /\ UNCHANGED <<live, ads, ctx, session, req, left, latest, overtaken>>

RemoveSong ==
    /\ Edit
    /\ \E p \in Playlists, s \in Songs :
        s \in Range(playlists[p].songs)
        /\ Set(p, [playlists[p] EXCEPT !.songs = Without(@, s)])
    /\ UNCHANGED <<live, ads, ctx, session, req, left, latest, overtaken>>

\* validSongIds counts the documents: a song may be named once
ReplaceList ==
    /\ Edit
    /\ \E p \in Playlists, new \in NewLists :
        playlists[p].made /\ Set(p, [playlists[p] EXCEPT !.songs = new])
    /\ UNCHANGED <<live, ads, ctx, session, req, left, latest, overtaken>>

DeleteList ==
    /\ Edit
    /\ \E p \in Playlists :
        playlists[p].made /\ Set(p, [playlists[p] EXCEPT !.deleted = TRUE])
    /\ UNCHANGED <<live, ads, ctx, session, req, left, latest, overtaken>>

\* activeAdvertisement, deactiveAdvertisement and removeAdvertisement
ChangeAd ==
    /\ Edit
    /\ \E a \in Ads : \E new \in {[ads[a] EXCEPT !.active = TRUE],
                                  [ads[a] EXCEPT !.active = FALSE],
                                  [ads[a] EXCEPT !.deleted = TRUE]} :
        new # ads[a] /\ ads' = [ads EXCEPT ![a] = new]
    /\ UNCHANGED <<live, playlists, ctx, session, req, left, latest, overtaken>>

DeleteSong ==
    /\ Edit
    /\ \E s \in live : live' = live \ {s}
    /\ UNCHANGED <<playlists, ads, ctx, session, req, left, latest, overtaken>>

\* Sessions are in memory
Restart ==
    /\ Edit
    /\ ctx' = [x \in {} |-> None]
    /\ session' = None
    /\ req' = [c \in Clients |-> Idle]
    /\ latest' = None
    /\ overtaken' = FALSE
    /\ UNCHANGED <<library, left>>

Next ==
    \/ \E c \in Clients :
        \/ StartSong(c) \/ Start(c) \/ FetchPlaylist(c) \/ FetchAlbum(c)
        \/ Next_(c) \/ Advertise(c) \/ NoAds(c) \/ RandomSong(c)
        \/ Previous(c) \/ PlayFromQueue(c) \/ AskAdd(c) \/ AddSong(c)
    \/ CreateList \/ RemoveSong \/ ReplaceList \/ DeleteList \/ ChangeAd \/ DeleteSong
    \/ Restart

Spec == Init /\ [][Next]_vars

-----------------------------------------------------------------------------
(* Properties                                                              *)

\* The session is what was started last, unless a next that was waiting for the
\* database when it started has put the old session back.
LatestStartPlays == session # latest => overtaken

\* What start queued stays to be heard or to go back to, in any order of next,
\* previous, play-from-queue and advertisements on any device: a song leaves a
\* session by the length of the history, because next ended another song than the
\* one that was playing, or because it was chosen while another request waited for
\* the database or an advertisement was shown.
NoSongLost ==
    \A x \in DOMAIN ctx :
        ctx[x].kept \subseteq Range(ctx[x].queue) \cup {ctx[x].cur} \cup Range(ctx[x].hist)

==============================================================================
