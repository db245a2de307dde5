------------------------------ MODULE Engagement ------------------------------
(***************************************************************************)
(* Likes of songs, follows of artists, plays of songs, and the leaderboard *)
(* of likes in Redis: LikeService, FollowService, and the counters and the *)
(* nightly rebuild of SongService.  A like or a follow is a document and a *)
(* counter changed in one transaction, after checks outside of it; there   *)
(* is no unique index.  The sorted set songs:likes is moved after the      *)
(* commit, and written as a whole at night.                                *)
(***************************************************************************)
EXTENDS Integers, FiniteSets, MongoTx

CONSTANTS
    Users, Songs, Artists,
    Owner,              \* the user behind each artist
    Clients, UserOf,    \* connections, and who is logged in on them
    Uses, Requests,     \* what a client asks for, and how often
    Mortal,             \* songs and artists that may be deleted
    Place,              \* of each song in the natural order of the collection
    Batch,              \* songs the nightly rebuild means to read at a time
    Rebuilds, Faults    \* how often the cron runs, how often a step fails

Targets   == Songs \cup Artists
Adds      == {"like", "follow"}
Withdraws == {"unlike", "unfollow"}
Ops       == Adds \cup Withdraws \cup {"play"}

ASSUME ConstantsAssumption ==
    /\ Songs \cap Artists = {}
    /\ IsFiniteSet(Songs)
    /\ IsFiniteSet(Clients)
    /\ Targets # {}
    /\ Owner \in [Artists -> Users]
    /\ UserOf \in [Clients -> Users]
    /\ Uses \in [Clients -> SUBSET Ops]
    /\ Requests \in [Clients -> Nat]
    /\ Mortal \subseteq Targets
    /\ Place \in [Songs -> Nat]
    /\ Batch \in Nat \ {0}
    /\ Rebuilds \in Nat
    /\ Faults \in Nat

VARIABLES
    live,               \* songs and artists that are not deleted
    docs,               \* like and follow documents
    count,              \* likes of a song, followers of an artist
    told,               \* NEW_FOLLOW notifications, by artist and follower
    views, listens,     \* a song's views, and its documents in listens
    board,              \* the sorted set songs:likes: songs to scores
    req, stale,         \* what each client is doing; see MongoTx
    rebuild,            \* the nightly rebuild
    left, rebuilds, faults,
    doubled, drifted, disturbed     \* history: see the properties

counters == <<docs, count, told>>
plays    == <<views, listens>>
nightly  == <<rebuild, rebuilds>>
vars == <<live, docs, count, told, views, listens, board, req, stale, rebuild, left,
          rebuilds, faults, doubled, drifted, disturbed>>

Steps == {"idle", "exists", "check", "begin", "commit", "score", "zrem", "record"}

\* A document: the request that made it and what it is about
Doc == [by : Clients, nr : Nat, target : Targets]
NoDoc == [by |-> "nobody"]

Empty == [s \in {} |-> 0]

\* A request; doc is what its transaction inserts or deletes, and hit says that
\* the counter was above zero in the transaction's snapshot
Request == [step : Steps, op : Ops, target : Targets, nr : Nat, doc : Doc \cup {NoDoc},
            hit : BOOLEAN]

TypeOK ==
    /\ live \subseteq Targets
    /\ docs \subseteq Doc
    /\ count \in [Targets -> Int]
    /\ told \in [Artists -> [Users -> Nat]]
    /\ views \in [Songs -> Nat]
    /\ listens \in [Songs -> Nat]
    /\ \E S \in SUBSET Songs : board \in [S -> Int]
    /\ req \in [Clients -> Request]
    /\ stale \in [Clients -> SUBSET Targets]
    /\ \E S \in SUBSET Songs :
        rebuild \in [step : {"idle", "page", "write"}, limit : Nat, items : [S -> Int]]
    /\ left \in [Clients -> Nat]
    /\ rebuilds \in Nat
    /\ faults \in Nat
    /\ doubled \subseteq Users \X Targets
    /\ drifted \subseteq Targets
    /\ disturbed \subseteq Songs

Idle == [step |-> "idle", op |-> "play", target |-> CHOOSE t \in Targets : TRUE, nr |-> 0,
         doc |-> NoDoc, hit |-> TRUE]

Init ==
    /\ live = Targets
    /\ docs = {}
    /\ count = [t \in Targets |-> 0]
    /\ told = [a \in Artists |-> [u \in Users |-> 0]]
    /\ views = [s \in Songs |-> 0]
    /\ listens = [s \in Songs |-> 0]
    /\ board = Empty
    /\ req = [c \in Clients |-> Idle]
    /\ stale = [c \in Clients |-> {}]
    /\ rebuild = [step |-> "idle", limit |-> 0, items |-> Empty]
    /\ left = Requests
    /\ rebuilds = Rebuilds
    /\ faults = Faults
    /\ doubled = {}
    /\ drifted = {}
    /\ disturbed = {}

Target(c) == req[c].target
At(c, step) == req[c].step = step

Goto(c, to) ==
    req' = [req EXCEPT ![c] = IF to = "idle" THEN Idle ELSE [@ EXCEPT !.step = to]]

\* The documents of a user about a target
DocsOf(u, t) == {d \in docs : UserOf[d.by] = u /\ d.target = t}

\* Transactions that have taken their snapshot
Open == {c \in Clients : At(c, "commit")}

-----------------------------------------------------------------------------
(* Checks outside of the transaction                                       *)

\* An unlike does not ask whether the song exists
FirstStep(o) == CASE o = "play" -> "record" [] o = "unlike" -> "check" [] OTHER -> "exists"

\* Mutant: a play is recorded before it is counted
SendRecorded(c, o, t) ==
    /\ At(c, "idle") /\ left[c] > 0 /\ o \in Uses[c]
    /\ t \in IF o \in {"follow", "unfollow"} THEN Artists ELSE Songs
    /\ req' = [req EXCEPT ![c] = [Idle EXCEPT !.step = FirstStep(o), !.op = o,
                                              !.target = t, !.nr = left[c]]]
    /\ left' = [left EXCEPT ![c] = @ - 1]
    /\ listens' = IF o = "play" THEN [listens EXCEPT ![t] = @ + 1] ELSE listens
    /\ UNCHANGED <<live, counters, views, board, stale, nightly, faults, doubled, drifted,
                   disturbed>>

Send(c, o, t) ==
    /\ At(c, "idle") /\ left[c] > 0 /\ o \in Uses[c]
    /\ t \in IF o \in {"follow", "unfollow"} THEN Artists ELSE Songs
    /\ req' = [req EXCEPT ![c] = [Idle EXCEPT !.step = FirstStep(o), !.op = o,
                                              !.target = t, !.nr = left[c]]]
    /\ left' = [left EXCEPT ![c] = @ - 1]
    /\ views' = IF o = "play" THEN [views EXCEPT ![t] = @ + 1] ELSE views
    /\ UNCHANGED <<live, counters, listens, board, stale, nightly, faults, doubled, drifted,
                   disturbed>>

\* getUserIdById
OwnArtist(c) == Target(c) \in Artists /\ Owner[Target(c)] = UserOf[c]

\* throwIfNotExist of a song; ensureExists of an artist who is somebody else
Admitted(c) == Target(c) \in live /\ ~OwnArtist(c)

Exists(c) ==
    /\ At(c, "exists")
    /\ Goto(c, IF Admitted(c) THEN "check" ELSE "idle")
    /\ UNCHANGED <<live, counters, plays, board, stale, nightly, left, faults, doubled,
                   drifted, disturbed>>

\* Requests of the same kind, user and target that have passed their check
Rivals(c) == {d \in Clients \ {c} :
    /\ req[d].step \in {"begin", "commit"}
    /\ req[d].op = req[c].op
    /\ Target(d) = Target(c)
    /\ UserOf[d] = UserOf[c]}

\* Mutant: like and follow do not look for a document first
PassesUnchecked(c) == req[c].op \in Adds \/ DocsOf(UserOf[c], Target(c)) # {}

Passes(c) == (req[c].op \in Adds) <=> DocsOf(UserOf[c], Target(c)) = {}

Check(c) ==
    /\ At(c, "check")
    /\ Goto(c, IF Passes(c) THEN "begin" ELSE "idle")
    /\ doubled' = IF req[c].op \in Adds /\ Passes(c) /\ Rivals(c) # {}
                  THEN doubled \cup {<<UserOf[c], Target(c)>>} ELSE doubled
    /\ drifted' = IF req[c].op \in Withdraws /\ Passes(c) /\ Rivals(c) # {}
                  THEN drifted \cup {Target(c)} ELSE drifted
    /\ UNCHANGED <<live, counters, plays, board, stale, nightly, left, faults, disturbed>>

-----------------------------------------------------------------------------
(* The transaction: a document, then the counter                           *)

NewDoc(c) == [by |-> c, nr |-> req[c].nr, target |-> Target(c)]

\* The snapshot is taken by the first write: the insertion of a new document
BeginAdd(c) ==
    /\ At(c, "begin") /\ req[c].op \in Adds
    /\ req' = [req EXCEPT ![c] = [@ EXCEPT !.step = "commit", !.hit = TRUE, !.doc = NewDoc(c)]]
    /\ UNCHANGED <<live, counters, plays, board, stale, nightly, left, faults, doubled,
                   drifted, disturbed>>

\* or deleteOne of one that exists, unless another transaction is deleting it
BeginWithdraw(c) ==
    /\ At(c, "begin") /\ req[c].op \in Withdraws
    /\ LET found == DocsOf(UserOf[c], Target(c))
           held  == {req[d].doc : d \in Open}
       IN \/ \E d \in IF found = {} THEN {NoDoc} ELSE found \ held :
                req' = [req EXCEPT ![c] = [@ EXCEPT
                           !.step = "commit", !.doc = d, !.hit = count[Target(c)] > 0]]
          \/ found \cap held # {} /\ Goto(c, "idle")
    /\ UNCHANGED <<live, counters, plays, board, stale, nightly, left, faults, doubled,
                   drifted, disturbed>>

\* Likes are not taken below zero
LikesDelta(c) == IF req[c].op = "like" THEN 1 ELSE IF req[c].hit THEN -1 ELSE 0

\* incrementFollower and decrementFollower, which are not conditional
FollowersDelta(c) == IF req[c].op = "follow" THEN 1 ELSE -1

Delta(c) == IF Target(c) \in Songs THEN LikesDelta(c) ELSE FollowersDelta(c)

\* The counter was committed by another transaction since the snapshot
Conflict(c) == Delta(c) # 0 /\ WriteConflict(stale, c, {Target(c)}, {})

\* Mutant: unlike, which swallows its errors, goes on to Redis after an abort
AfterAbortSwallowed(c) == IF req[c].op = "unlike" THEN "score" ELSE "idle"

AfterAbort(c) == "idle"

\* createNotification is called along with the counter and is not in the session
Tell(c) ==
    told' = IF req[c].op = "follow"
            THEN [told EXCEPT ![Target(c)][UserOf[c]] = @ + 1] ELSE told

\* Mutant: the counter is changed without the session
AbortUnsessioned(c) ==
    /\ At(c, "commit") /\ Conflict(c)
    /\ Goto(c, AfterAbort(c))
    /\ stale' = Forget(stale, c)
    /\ count' = [count EXCEPT ![Target(c)] = @ + Delta(c)]
    /\ Tell(c)
    /\ UNCHANGED <<live, docs, plays, board, nightly, left, faults, doubled, drifted,
                   disturbed>>

Abort(c) ==
    /\ At(c, "commit") /\ Conflict(c)
    /\ Goto(c, AfterAbort(c))
    /\ stale' = Forget(stale, c)
    /\ Tell(c)
    /\ UNCHANGED <<live, docs, count, plays, board, nightly, left, faults, doubled, drifted,
                   disturbed>>

AfterCommit(c) == IF Target(c) \in Songs THEN "score" ELSE "idle"

\* An unlike that found the counter at zero still lowers the score
Commit(c) ==
    /\ At(c, "commit") /\ ~Conflict(c)
    /\ docs' = IF req[c].op \in Adds THEN docs \cup {req[c].doc} ELSE docs \ {req[c].doc}
    /\ count' = [count EXCEPT ![Target(c)] = @ + Delta(c)]
    /\ Tell(c)
    /\ stale' = Committed(Forget(stale, c), Open \ {c},
                          IF Delta(c) = 0 THEN {} ELSE {Target(c)})
    /\ Goto(c, AfterCommit(c))
    /\ disturbed' = IF Delta(c) = 0 THEN disturbed \cup {Target(c)} ELSE disturbed
    /\ UNCHANGED <<live, plays, board, nightly, left, faults, doubled, drifted>>

-----------------------------------------------------------------------------
(* The sorted set, after the commit                                        *)

Score(s) == IF s \in DOMAIN board THEN board[s] ELSE 0

Points(c) == IF req[c].op = "like" THEN 1 ELSE -1

Zincrby(c) ==
    /\ At(c, "score")
    /\ LET score == Score(Target(c)) + Points(c)
       IN /\ board' = [s \in DOMAIN board \cup {Target(c)} |->
                          IF s = Target(c) THEN score ELSE board[s]]
          /\ Goto(c, IF req[c].op = "unlike" /\ score <= 0 THEN "zrem" ELSE "idle")
    /\ UNCHANGED <<live, counters, plays, stale, nightly, left, faults, doubled, drifted,
                   disturbed>>

\* Likes may have come or be missing since: what is removed need not be zero
Zrem(c) ==
    /\ At(c, "zrem")
    /\ board' = [s \in DOMAIN board \ {Target(c)} |-> board[s]]
    /\ Goto(c, "idle")
    /\ disturbed' = IF Score(Target(c)) = 0 THEN disturbed ELSE disturbed \cup {Target(c)}
    /\ UNCHANGED <<live, counters, plays, stale, nightly, left, faults, doubled, drifted>>

-----------------------------------------------------------------------------
(* Plays, failures, deletions and the nightly rebuild                      *)

RecordListen(c) ==
    /\ At(c, "record")
    /\ listens' = [listens EXCEPT ![Target(c)] = @ + 1]
    /\ Goto(c, "idle")
    /\ UNCHANGED <<live, counters, views, board, stale, nightly, left, faults, doubled,
                   drifted, disturbed>>

\* findTopByViews leaves deleted songs out, and blocked ones, which do not matter here
ByViews == [s \in Songs \cap live |-> views[s]]

\* getTopSongsByTimeFrame groups the documents in listens, and looks the songs up
\* afterwards; the time is that of the whole behaviour
ByListens == [s \in {t \in Songs : listens[t] > 0} |-> listens[s]]

\* getLeaderboard, before it is cut to ten songs
Leaderboard(type) == IF type = "all" THEN ByViews ELSE ByListens

\* An await throws: a transaction is aborted, with the notification sent or not,
\* and an error of Redis is swallowed
Fail(c) ==
    /\ faults > 0 /\ ~At(c, "idle")
    /\ faults' = faults - 1
    /\ Goto(c, "idle")
    /\ stale' = Forget(stale, c)
    /\ \/ At(c, "commit") /\ Tell(c)
       \/ UNCHANGED told
    /\ disturbed' = IF req[c].step \in {"score", "zrem"}
                    THEN disturbed \cup {Target(c)} ELSE disturbed
    /\ UNCHANGED <<live, docs, count, plays, board, nightly, left, doubled, drifted>>

\* Deleting a song or an artist leaves its documents, counters and score alone
DeleteTarget(t) ==
    /\ t \in live \cap Mortal
    /\ live' = live \ {t}
    /\ UNCHANGED <<counters, plays, board, req, stale, nightly, left, faults, doubled,
                   drifted, disturbed>>

StartRebuild ==
    /\ rebuild.step = "idle" /\ rebuilds > 0
    /\ rebuild' = [rebuild EXCEPT !.step = "page"]
    /\ rebuilds' = rebuilds - 1
    /\ UNCHANGED <<live, counters, plays, board, req, stale, left, faults, doubled, drifted,
                   disturbed>>

\* A song's rank in the natural order, among those that are not deleted
Rank(s) == Cardinality({t \in Songs \cap live : Place[t] <= Place[s]})

\* findForLeaderboard takes (skip, limit) and is called with (BATCH_SIZE, skip):
\* it always skips Batch songs, and its limit, 0 for none at first, grows by Batch
Page == {s \in Songs \cap live :
            Rank(s) > Batch /\ (rebuild.limit = 0 \/ Rank(s) <= Batch + rebuild.limit)}

\* Once the limit covers every song, raising it makes no difference
ReadPage ==
    /\ rebuild.step = "page"
    /\ LET liked == {s \in Page : count[s] > 0}
       IN rebuild' =
            IF Page = {} THEN [rebuild EXCEPT !.step = "write"]
            ELSE [rebuild EXCEPT
                    !.limit = IF Batch + @ < Cardinality(Songs) THEN @ + Batch ELSE @,
                    !.items = [s \in DOMAIN @ \cup liked |->
                                 IF s \in liked THEN count[s] ELSE @[s]]]
    /\ UNCHANGED <<live, counters, plays, board, req, stale, left, rebuilds, faults,
                   doubled, drifted, disturbed>>

\* zaddMany deletes the key and adds the items
Replaced(items) == items

\* Without items the key is deleted
WriteBoard ==
    /\ rebuild.step = "write"
    /\ board' = IF DOMAIN rebuild.items = {} THEN Empty ELSE Replaced(rebuild.items)
    /\ rebuild' = [step |-> "idle", limit |-> 0, items |-> Empty]
    /\ disturbed' = Songs
    /\ UNCHANGED <<live, counters, plays, req, stale, left, rebuilds, faults, doubled,
                   drifted>>

Next ==
    \/ \E c \in Clients :
        \/ \E o \in Ops, t \in Targets : Send(c, o, t)
        \/ Exists(c) \/ Check(c)
        \/ BeginAdd(c) \/ BeginWithdraw(c) \/ Abort(c) \/ Commit(c)
        \/ Zincrby(c) \/ Zrem(c)
        \/ RecordListen(c) \/ Fail(c)
    \/ \E t \in Targets : DeleteTarget(t)
    \/ StartRebuild \/ ReadPage \/ WriteBoard

Spec == Init /\ [][Next]_vars

-----------------------------------------------------------------------------
(* Properties                                                              *)

\* likes and followers are the numbers of documents, unless two unlikes or
\* unfollows of one user were past their check at once: the second deletes
\* nothing and lowers the counter all the same.
CountsExact ==
    \A t \in Targets \ drifted : count[t] = Cardinality({d \in docs : d.target = t})

\* A user likes a song or follows an artist at most once, unless two of his
\* requests were past the check of validLike or throwIfFollowed at once.
OneEach ==
    \A u \in Users, t \in Targets :
        <<u, t>> \notin doubled => Cardinality(DocsOf(u, t)) <= 1

\* songs:likes shows a song's likes, give or take the requests that have yet to
\* reach Redis, until an error, a zrem that races a like, an unlike at zero likes
\* or the nightly rebuild disturbs the song's score.
BoardCounts ==
    \A s \in Songs \ disturbed :
        LET late(o) == {c \in Clients : At(c, "score") /\ req[c].op = o /\ Target(c) = s}
        IN Score(s) + Cardinality(late("like")) - Cardinality(late("unlike")) = count[s]

\* The chart of a week or a month, counted from the documents in listens, shows no
\* song with more plays than its views in the chart of all time, whatever fails
\* between the two writes of a play.  A song that was deleted is in the former only.
ChartsAgree ==
    \A s \in DOMAIN Leaderboard("all") \cap DOMAIN Leaderboard("month") :
        Leaderboard("month")[s] <= Leaderboard("all")[s]

\* README.md: every night at 3:00 the likes are scanned and written to Redis, so
\* that what the rebuild leaves there are the likes of the songs.
RebuildKeepsBoard ==
    [][rebuild.step = "write" /\ rebuild'.step = "idle" =>
         \A s \in live \cap Songs : count[s] > 0 => s \in DOMAIN board']_vars

==============================================================================
