--------------------------- MODULE EngagementProofs ---------------------------
(***************************************************************************)
(* Engagement for every number of users, songs, artists, connections and   *)
(* requests: types, the counters of likes and followers, one document per  *)
(* user and target, the scores of the leaderboard, and the charts.         *)
(***************************************************************************)
EXTENDS Engagement, FiniteSetTheorems, TLAPS

-----------------------------------------------------------------------------
(* Requests                                                                *)

\* Before its transaction ends, and inside of it
Before == {"exists", "check", "begin", "commit"}
Inside == {"begin", "commit"}

\* A request is numbered, and follows are about artists, as likes are about songs
Sound(c) ==
    ~At(c, "idle") =>
        /\ req[c].nr > left[c]
        /\ req[c].op \in {"follow", "unfollow"} <=> Target(c) \in Artists
        /\ At(c, "record") <=> req[c].op = "play"
        /\ req[c].step \in {"score", "zrem"} => Target(c) \in Songs

\* A new document is what its transaction will insert, and what it will delete is
\* a document of the same user about the same target
DocFits(c) ==
    At(c, "commit") =>
        /\ req[c].op \in Adds => req[c].doc = NewDoc(c) /\ req[c].hit
        /\ req[c].op \in Withdraws /\ req[c].doc # NoDoc =>
              /\ req[c].doc \in Doc
              /\ UserOf[req[c].doc.by] = UserOf[c]
              /\ req[c].doc.target = Target(c)

RequestsSound == \A c \in Clients : Sound(c) /\ DocFits(c)

\* A client that does nothing remembers nothing
LEMMA IdleType == Idle \in Request /\ Idle.step = "idle"
  BY ConstantsAssumption DEF Idle, Request, Steps, Ops, Adds, Withdraws

\* A step of a request leaves the other requests alone
LEMMA GotoFrame ==
    ASSUME req \in [Clients -> Request], NEW c \in Clients, NEW to \in Steps, Goto(c, to)
    PROVE  /\ req' \in [Clients -> Request]
           /\ \A d \in Clients : d # c => req'[d] = req[d]
           /\ req'[c].step = to
           /\ to # "idle" => /\ req'[c].op = req[c].op /\ req'[c].target = req[c].target
                             /\ req'[c].nr = req[c].nr /\ req'[c].doc = req[c].doc
                             /\ req'[c].hit = req[c].hit
  BY IdleType DEF Goto, Request

\* What a commit adds to the snapshots of others, and what ends with a transaction
LEMMA StaleType ==
    ASSUME stale \in [Clients -> SUBSET Targets], NEW c \in Clients, NEW S, NEW T \in SUBSET Targets
    PROVE  /\ Forget(stale, c) \in [Clients -> SUBSET Targets]
           /\ Committed(Forget(stale, c), S, T) \in [Clients -> SUBSET Targets]
  BY DEF Forget, Committed

\* A notification is counted for the follower
LEMMA ToldType ==
    ASSUME told \in [Artists -> [Users -> Nat]], NEW c \in Clients, Tell(c) PROVE
    told' \in [Artists -> [Users -> Nat]]
<1>1. UserOf[c] \in Users
  BY ConstantsAssumption
<1>2. \A a \in Artists : [told[a] EXCEPT ![UserOf[c]] = @ + 1] \in [Users -> Nat]
  BY <1>1
<1>3. CASE req[c].op = "follow"
  BY <1>2, <1>3 DEF Tell
<1>4. CASE req[c].op # "follow"
  BY <1>4 DEF Tell
<1> QED
  BY <1>3, <1>4

\* What a request adds to a counter
LEMMA DeltaType == ASSUME NEW c PROVE Delta(c) \in {-1, 0, 1}
  BY DEF Delta, LikesDelta, FollowersDelta

-----------------------------------------------------------------------------
(* Types                                                                   *)

\* The initial state is well typed
LEMMA TypeInit == Init => TypeOK
<1> SUFFICES ASSUME Init PROVE TypeOK
  OBVIOUS
<1>1. Empty \in [{} -> Int] /\ {} \in SUBSET Songs
  BY DEF Empty
<1>2. req \in [Clients -> Request]
  BY IdleType DEF Init
<1>3. rebuild \in [step : {"idle", "page", "write"}, limit : Nat, items : [{} -> Int]]
  BY <1>1 DEF Init
<1>4. \E S \in SUBSET Songs : board \in [S -> Int]
  BY <1>1 DEF Init
<1>5. \E S \in SUBSET Songs :
        rebuild \in [step : {"idle", "page", "write"}, limit : Nat, items : [S -> Int]]
  BY <1>1, <1>3
<1> QED
  BY <1>2, <1>4, <1>5, ConstantsAssumption DEF Init, TypeOK

\* Each action keeps the types
LEMMA TypeNext == TypeOK /\ RequestsSound /\ [Next]_vars => TypeOK'
<1> SUFFICES ASSUME TypeOK, RequestsSound, [Next]_vars PROVE TypeOK'
  OBVIOUS
<1> USE DEF counters, plays, nightly
<1>0. req \in [Clients -> Request] /\ stale \in [Clients -> SUBSET Targets]
      /\ told \in [Artists -> [Users -> Nat]]
  BY DEF TypeOK
<1>1. ASSUME NEW c \in Clients, NEW o \in Ops, NEW t \in Targets, Send(c, o, t) PROVE TypeOK'
  <2>1. left[c] \in Nat /\ left[c] > 0
    BY <1>1 DEF Send, TypeOK
  <2>2. [Idle EXCEPT !.step = FirstStep(o), !.op = o, !.target = t, !.nr = left[c]] \in Request
    BY <2>1, IdleType DEF Request, FirstStep, Steps
  <2>3. req' \in [Clients -> Request]
    BY <1>0, <1>1, <2>2 DEF Send
  <2>4. left' \in [Clients -> Nat]
    BY <1>1, <2>1 DEF Send, TypeOK
  <2>5. views' \in [Songs -> Nat]
    BY <1>1 DEF Send, TypeOK, Targets
  <2> QED
    BY <1>1, <2>3, <2>4, <2>5 DEF Send, TypeOK
<1>2. ASSUME NEW c \in Clients, Exists(c) PROVE TypeOK'
  <2>1. req' \in [Clients -> Request]
    BY <1>0, <1>2, GotoFrame DEF Exists, Steps
  <2> QED
    BY <1>2, <2>1 DEF Exists, TypeOK
<1>3. ASSUME NEW c \in Clients, Check(c) PROVE TypeOK'
  <2>1. req' \in [Clients -> Request]
    BY <1>0, <1>3, GotoFrame DEF Check, Steps
  <2>2. UserOf[c] \in Users /\ Target(c) \in Targets
    BY <1>0, ConstantsAssumption DEF Target, Request
  <2>3. doubled' \subseteq Users \X Targets /\ drifted' \subseteq Targets
    BY <1>3, <2>2 DEF Check, TypeOK
  <2> QED
    BY <1>3, <2>1, <2>3 DEF Check, TypeOK
<1>4. ASSUME NEW c \in Clients, BeginAdd(c) PROVE TypeOK'
  <2>1. NewDoc(c) \in Doc
    BY <1>0 DEF NewDoc, Doc, Target, Request
  <2>2. req' \in [Clients -> Request]
    BY <1>0, <1>4, <2>1 DEF BeginAdd, Request, Steps
  <2> QED
    BY <1>4, <2>2 DEF BeginAdd, TypeOK
<1>5. ASSUME NEW c \in Clients, BeginWithdraw(c) PROVE TypeOK'
  <2>1. req' \in [Clients -> Request]
    <3>1. CASE Goto(c, "idle")
      BY <1>0, <3>1, GotoFrame DEF Steps
    <3>2. CASE ~Goto(c, "idle")
      <4>1. PICK d \in docs \cup {NoDoc} :
              req' = [req EXCEPT ![c] = [@ EXCEPT
                         !.step = "commit", !.doc = d, !.hit = count[Target(c)] > 0]]
        BY <1>5, <3>2 DEF BeginWithdraw, DocsOf
      <4>2. d \in Doc \cup {NoDoc}
        BY DEF TypeOK
      <4>3. (count[Target(c)] > 0) \in BOOLEAN
        OBVIOUS
      <4> QED
        BY <1>0, <4>1, <4>2, <4>3 DEF Request, Steps
    <3> QED
      BY <3>1, <3>2
  <2> QED
    BY <1>5, <2>1 DEF BeginWithdraw, TypeOK
<1>6. ASSUME NEW c \in Clients, Abort(c) PROVE TypeOK'
  <2>1. req' \in [Clients -> Request]
    BY <1>0, <1>6, GotoFrame DEF Abort, AfterAbort, Steps
  <2>2. stale' \in [Clients -> SUBSET Targets]
    BY <1>0, <1>6, StaleType DEF Abort
  <2>3. told' \in [Artists -> [Users -> Nat]]
    BY <1>0, <1>6, ToldType DEF Abort
  <2> QED
    BY <1>6, <2>1, <2>2, <2>3 DEF Abort, TypeOK
<1>7. ASSUME NEW c \in Clients, Commit(c) PROVE TypeOK'
  <2>0. Target(c) \in Targets
    BY <1>0 DEF Target, Request
  <2>1. req' \in [Clients -> Request]
    BY <1>0, <1>7, GotoFrame DEF Commit, AfterCommit, Steps
  <2>2. stale' \in [Clients -> SUBSET Targets]
    <3>1. (IF Delta(c) = 0 THEN {} ELSE {Target(c)}) \in SUBSET Targets
      BY <2>0
    <3> QED
      BY <1>0, <1>7, <3>1, StaleType DEF Commit
  <2>3. told' \in [Artists -> [Users -> Nat]]
    BY <1>0, <1>7, ToldType DEF Commit
  <2>4. docs' \subseteq Doc
    <3>1. NewDoc(c) \in Doc
      BY <1>0 DEF NewDoc, Doc, Target, Request
    <3>2. req[c].op \in Adds => req[c].doc = NewDoc(c)
      BY <1>7 DEF Commit, RequestsSound, DocFits
    <3> QED
      BY <1>7, <3>1, <3>2 DEF Commit, TypeOK
  <2>5. count' \in [Targets -> Int]
    BY <1>7, <2>0, DeltaType DEF Commit, TypeOK
  <2>6. disturbed' \subseteq Songs
    <3>1. Delta(c) = 0 => Target(c) \in Songs
      BY DEF Delta, FollowersDelta
    <3> QED
      BY <1>7, <3>1 DEF Commit, TypeOK
  <2> QED
    BY <1>7, <2>1, <2>2, <2>3, <2>4, <2>5, <2>6 DEF Commit, TypeOK
<1>8. ASSUME NEW c \in Clients, Zincrby(c) PROVE TypeOK'
  <2>1. req' \in [Clients -> Request]
    BY <1>0, <1>8, GotoFrame DEF Zincrby, Steps
  <2>2. PICK S \in SUBSET Songs : board \in [S -> Int]
    BY DEF TypeOK
  <2>3. Target(c) \in Songs
    BY <1>8 DEF Zincrby, RequestsSound, Sound, At
  <2>4. Score(Target(c)) + Points(c) \in Int
    BY <2>2 DEF Score, Points
  <2>5. board' \in [S \cup {Target(c)} -> Int] /\ S \cup {Target(c)} \in SUBSET Songs
    BY <1>8, <2>2, <2>3, <2>4 DEF Zincrby
  <2> QED
    BY <1>8, <2>1, <2>5 DEF Zincrby, TypeOK
<1>9. ASSUME NEW c \in Clients, Zrem(c) PROVE TypeOK'
  <2>1. req' \in [Clients -> Request]
    BY <1>0, <1>9, GotoFrame DEF Zrem, Steps
  <2>2. PICK S \in SUBSET Songs : board \in [S -> Int]
    BY DEF TypeOK
  <2>3. Target(c) \in Songs
    BY <1>9 DEF Zrem, RequestsSound, Sound, At
  <2>4. board' \in [S \ {Target(c)} -> Int] /\ S \ {Target(c)} \in SUBSET Songs
    BY <1>9, <2>2 DEF Zrem
  <2>5. disturbed' \subseteq Songs
    BY <1>9, <2>3 DEF Zrem, TypeOK
  <2> QED
    BY <1>9, <2>1, <2>4, <2>5 DEF Zrem, TypeOK
<1>10. ASSUME NEW c \in Clients, RecordListen(c) PROVE TypeOK'
  <2>1. req' \in [Clients -> Request]
    BY <1>0, <1>10, GotoFrame DEF RecordListen, Steps
  <2>2. listens' \in [Songs -> Nat]
    <3>1. listens \in [Songs -> Nat] /\ listens' = [listens EXCEPT ![Target(c)] = @ + 1]
      BY <1>10 DEF RecordListen, TypeOK
    <3>2. DOMAIN listens' = Songs /\ \A s \in Songs : listens'[s] \in {listens[s], listens[s] + 1}
      BY <3>1
    <3>3. ASSUME NEW s \in Songs PROVE listens'[s] \in Nat
      <4>1. listens[s] \in Nat /\ listens'[s] \in {listens[s], listens[s] + 1}
        BY <3>1, <3>2
      <4> QED
        BY <4>1
    <3>4. listens' = [s \in Songs |-> listens'[s]]
      BY <3>1
    <3> QED
      BY <3>3, <3>4
  <2> QED
    BY <1>10, <2>1, <2>2 DEF RecordListen, TypeOK
<1>11. ASSUME NEW c \in Clients, Fail(c) PROVE TypeOK'
  <2>1. req' \in [Clients -> Request]
    BY <1>0, <1>11, GotoFrame DEF Fail, Steps
  <2>2. stale' \in [Clients -> SUBSET Targets]
    BY <1>0, <1>11, StaleType DEF Fail
  <2>3. told' \in [Artists -> [Users -> Nat]]
    BY <1>0, <1>11, ToldType DEF Fail
  <2>4. disturbed' \subseteq Songs
    BY <1>11 DEF Fail, RequestsSound, Sound, At, TypeOK
  <2>5. faults' \in Nat
    BY <1>11 DEF Fail, TypeOK
  <2> QED
    BY <1>11, <2>1, <2>2, <2>3, <2>4, <2>5 DEF Fail, TypeOK
<1>12. ASSUME NEW t \in Targets, DeleteTarget(t) PROVE TypeOK'
  BY <1>12 DEF DeleteTarget, TypeOK
<1>13. ASSUME StartRebuild PROVE TypeOK'
  <2>1. PICK S \in SUBSET Songs :
          rebuild \in [step : {"idle", "page", "write"}, limit : Nat, items : [S -> Int]]
    BY DEF TypeOK
  <2>2. rebuild' \in [step : {"idle", "page", "write"}, limit : Nat, items : [S -> Int]]
    BY <1>13, <2>1 DEF StartRebuild
  <2>3. rebuilds' \in Nat
    BY <1>13 DEF StartRebuild, TypeOK
  <2> QED
    BY <1>13, <2>2, <2>3 DEF StartRebuild, TypeOK
<1>14. ASSUME ReadPage PROVE TypeOK'
  <2>1. PICK S \in SUBSET Songs :
          rebuild \in [step : {"idle", "page", "write"}, limit : Nat, items : [S -> Int]]
    BY DEF TypeOK
  <2> DEFINE liked == {s \in Page : count[s] > 0}
             limit == IF Batch + rebuild.limit < Cardinality(Songs)
                      THEN rebuild.limit + Batch ELSE rebuild.limit
             items == [s \in DOMAIN rebuild.items \cup liked |->
                         IF s \in liked THEN count[s] ELSE rebuild.items[s]]
  <2>2. limit \in Nat
    BY <2>1, ConstantsAssumption
  <2>3. liked \subseteq Songs
    BY DEF Page
  <2>4. items \in [S \cup liked -> Int]
    BY <2>1, <2>3 DEF TypeOK, Targets
  <2>5. rebuild' \in [step : {"idle", "page", "write"}, limit : Nat, items : [S \cup liked -> Int]]
        \/ rebuild' \in [step : {"idle", "page", "write"}, limit : Nat, items : [S -> Int]]
    <3>1. rebuild' = [rebuild EXCEPT !.step = "write"]
          \/ rebuild' = [rebuild EXCEPT !.limit = limit, !.items = items]
      BY <1>14 DEF ReadPage
    <3> HIDE DEF limit, items
    <3> QED
      BY <2>1, <2>2, <2>4, <3>1
  <2>6. \E T \in SUBSET Songs :
          rebuild' \in [step : {"idle", "page", "write"}, limit : Nat, items : [T -> Int]]
    BY <2>3, <2>5
  <2> QED
    BY <1>14, <2>6 DEF ReadPage, TypeOK
<1>15. ASSUME WriteBoard PROVE TypeOK'
  <2>0. Empty \in [{} -> Int] /\ {} \in SUBSET Songs
    BY DEF Empty
  <2>1. \E S \in SUBSET Songs :
          rebuild' \in [step : {"idle", "page", "write"}, limit : Nat, items : [S -> Int]]
    BY <1>15, <2>0 DEF WriteBoard
  <2>2. \E S \in SUBSET Songs : board' \in [S -> Int]
    <3>1. PICK S \in SUBSET Songs : rebuild.items \in [S -> Int]
      BY DEF TypeOK
    <3> QED
      BY <1>15, <2>0, <3>1 DEF WriteBoard, Replaced
  <2> QED
    BY <1>15, <2>1, <2>2 DEF WriteBoard, TypeOK
<1>16. CASE UNCHANGED vars
  BY <1>16 DEF vars, TypeOK
<1> QED
  BY <1>1, <1>2, <1>3, <1>4, <1>5, <1>6, <1>7, <1>8, <1>9, <1>10, <1>11, <1>12, <1>13, <1>14,
     <1>15, <1>16 DEF Next

-----------------------------------------------------------------------------
(* What transactions know                                                  *)

\* Documents are finitely many, and a request's own is new
Fresh(c) ==
    \A d \in docs : d.by = c =>
        d.nr > left[c] /\ (req[c].step \in Before => d.nr # req[c].nr)

FreshDocs == IsFiniteSet(docs) /\ \A c \in Clients : Fresh(c)

\* Unless two requests were past their check at once, what the check saw still holds
Knows(c) ==
    LET u == UserOf[c]
        t == Target(c)
    IN /\ req[c].op \in Adds /\ req[c].step \in Inside /\ <<u, t>> \notin doubled =>
             DocsOf(u, t) = {} /\ Rivals(c) = {}
       /\ req[c].op \in Withdraws /\ req[c].step \in Inside /\ t \notin drifted =>
             /\ Rivals(c) = {}
             /\ At(c, "begin") => DocsOf(u, t) # {}
             /\ At(c, "commit") => req[c].doc \in docs /\ req[c].hit

DocInv ==
    /\ TypeOK
    /\ RequestsSound
    /\ FreshDocs
    /\ \A c \in Clients : Knows(c)
    /\ CountsExact
    /\ OneEach

\* A step of one request that is not inside a transaction afterwards, and leaves
\* the documents and the counters alone
LEMMA Quiet ==
    ASSUME DocInv, TypeOK', NEW c \in Clients, UNCHANGED <<docs, count, doubled, drifted>>,
           \A d \in Clients : d # c => req'[d] = req[d] /\ left'[d] = left[d],
           req'[c].step \notin Inside, Sound(c)', Fresh(c)'
    PROVE  DocInv'
<1>1. RequestsSound'
  <2>1. ASSUME NEW d \in Clients, d # c PROVE Sound(d)' /\ DocFits(d)'
    BY <2>1 DEF DocInv, RequestsSound, Sound, DocFits, At, Target, NewDoc
  <2>2. DocFits(c)'
    BY DEF DocFits, At, Inside
  <2> QED
    BY <2>1, <2>2 DEF RequestsSound
<1>2. FreshDocs'
  <2>1. ASSUME NEW d \in Clients, d # c PROVE Fresh(d)'
    BY <2>1 DEF DocInv, FreshDocs, Fresh
  <2> QED
    BY <2>1 DEF DocInv, FreshDocs
<1>3. ASSUME NEW d \in Clients PROVE Knows(d)'
  <2>1. CASE d = c
    BY <2>1 DEF Knows
  <2>2. CASE d # c
    <3>1. Knows(d)
      BY DEF DocInv
    <3>2. Rivals(d)' \subseteq Rivals(d)
      BY <2>2 DEF Rivals, Inside, Target
    <3>3. \A u, t : DocsOf(u, t)' = DocsOf(u, t)
      BY DEF DocsOf
    <3> QED
      BY <2>2, <3>1, <3>2, <3>3 DEF Knows, At, Target
  <2> QED
    BY <2>1, <2>2
<1>4. CountsExact' /\ OneEach'
  BY DEF DocInv, CountsExact, OneEach, DocsOf
<1> QED
  BY <1>1, <1>2, <1>3, <1>4 DEF DocInv

\* A step of the nightly rebuild, or a deletion
LEMMA Unrelated ==
    ASSUME DocInv, TypeOK', UNCHANGED <<docs, count, doubled, drifted, req, left>>
    PROVE  DocInv'
<1>1. RequestsSound' /\ FreshDocs' /\ CountsExact' /\ OneEach'
  BY DEF DocInv, RequestsSound, Sound, DocFits, At, Target, NewDoc, FreshDocs, Fresh,
         CountsExact, OneEach, DocsOf
<1>2. \A c \in Clients : Knows(c)'
  BY DEF DocInv, Knows, Rivals, DocsOf, At, Target
<1> QED
  BY <1>1, <1>2 DEF DocInv

\* Requests of one client about different kinds of targets are different requests
LEMMA SameOp ==
    ASSUME RequestsSound, NEW c \in Clients, NEW d \in Clients,
           req[c].op \in Withdraws, req[d].op \in Withdraws, ~At(c, "idle"), ~At(d, "idle"),
           Target(c) = Target(d)
    PROVE  req[c].op = req[d].op
  BY DEF RequestsSound, Sound, Withdraws

LEMMA SameAdd ==
    ASSUME RequestsSound, NEW c \in Clients, NEW d \in Clients,
           req[c].op \in Adds, req[d].op \in Adds, ~At(c, "idle"), ~At(d, "idle"),
           Target(c) = Target(d)
    PROVE  req[c].op = req[d].op
  BY DEF RequestsSound, Sound, Adds

\* A request that passes its check knows, and those it races are known to race
LEMMA KnowCheck == ASSUME DocInv, TypeOK', NEW c \in Clients, Check(c) PROVE DocInv'
<1> USE DEF counters
<1>0. UNCHANGED <<docs, count, left>> /\ doubled \subseteq doubled' /\ drifted \subseteq drifted'
      /\ At(c, "check") /\ Goto(c, IF Passes(c) THEN "begin" ELSE "idle")
  BY DEF Check
<1>1. req \in [Clients -> Request]
  BY DEF DocInv, TypeOK
<1>2. CASE ~Passes(c)
  <2>1. Goto(c, "idle") /\ UNCHANGED <<doubled, drifted>>
    BY <1>0, <1>2 DEF Check
  <2>2. /\ \A d \in Clients : d # c => req'[d] = req[d]
        /\ req'[c].step = "idle"
    BY <1>1, <2>1, GotoFrame DEF Steps
  <2>3. Sound(c)'
    BY <2>2 DEF Sound, At
  <2>4. Fresh(c)'
    BY <1>0, <2>2 DEF DocInv, FreshDocs, Fresh, Before
  <2> QED
    BY <1>0, <2>1, <2>2, <2>3, <2>4, Quiet DEF Inside
<1>3. CASE Passes(c)
  <2>1. Goto(c, "begin")
    BY <1>0, <1>3
  <2>2. /\ \A d \in Clients : d # c => req'[d] = req[d]
        /\ req'[c].step = "begin" /\ req'[c].op = req[c].op /\ req'[c].target = req[c].target
        /\ req'[c].nr = req[c].nr
    BY <1>1, <2>1, GotoFrame DEF Steps
  <2>3. Sound(c) /\ Fresh(c) /\ req[c].step = "check"
    BY <1>0 DEF DocInv, RequestsSound, FreshDocs, At
  <2>4. RequestsSound'
    <3>1. ASSUME NEW d \in Clients, d # c PROVE Sound(d)' /\ DocFits(d)'
      BY <1>0, <2>2, <3>1 DEF DocInv, RequestsSound, Sound, DocFits, At, Target, NewDoc
    <3>2. Sound(c)' /\ DocFits(c)'
      BY <1>0, <2>2, <2>3 DEF Sound, DocFits, At, Target
    <3> QED
      BY <3>1, <3>2 DEF RequestsSound
  <2>5. FreshDocs'
    <3>1. ASSUME NEW d \in Clients, d # c PROVE Fresh(d)'
      BY <1>0, <2>2, <3>1 DEF DocInv, FreshDocs, Fresh
    <3>2. Fresh(c)'
      BY <1>0, <2>2, <2>3 DEF Fresh, Before
    <3> QED
      BY <1>0, <3>1, <3>2 DEF DocInv, FreshDocs
  <2>6. \A u, t : DocsOf(u, t)' = DocsOf(u, t)
    BY <1>0 DEF DocsOf
  <2>7. ASSUME NEW d \in Clients, d # c PROVE Knows(d)'
    <3>0. Knows(d) /\ req'[d] = req[d]
      BY <2>2, <2>7 DEF DocInv
    <3>1. CASE c \notin Rivals(d)'
      <4>1. Rivals(d)' \subseteq Rivals(d)
        BY <2>2, <2>7, <3>1 DEF Rivals, Target
      <4> QED
        BY <1>0, <2>6, <3>0, <4>1 DEF Knows, At, Target
    <3>2. CASE c \in Rivals(d)' /\ req[d].step \in Inside
      <4>1. d \in Rivals(c)
        BY <2>2, <3>0, <3>2, <2>7 DEF Rivals, Target, Inside
      <4>2. req[c].op = req[d].op /\ Target(c) = Target(d) /\ UserOf[c] = UserOf[d]
        BY <4>1 DEF Rivals
      <4>3. req[c].op \in Adds => <<UserOf[c], Target(c)>> \in doubled'
        BY <1>3, <4>1 DEF Check
      <4>4. req[c].op \in Withdraws => Target(c) \in drifted'
        BY <1>3, <4>1 DEF Check
      <4> QED
        BY <3>0, <4>2, <4>3, <4>4 DEF Knows, Target
    <3>3. CASE req[d].step \notin Inside
      BY <3>0, <3>3 DEF Knows
    <3> QED
      BY <3>1, <3>2, <3>3
  <2>8. Knows(c)'
    <3>1. Rivals(c)' = Rivals(c)
      BY <2>2 DEF Rivals, Target
    <3>2. CASE req[c].op \in Adds
      <4>1. req[c].op \notin Withdraws
        BY <3>2 DEF Adds, Withdraws
      <4>2. DocsOf(UserOf[c], Target(c)) = {}
        BY <1>3, <3>2 DEF Passes
      <4>3. Rivals(c) = {} \/ <<UserOf[c], Target(c)>> \in doubled'
        BY <1>3, <3>2 DEF Check
      <4> QED
        BY <2>2, <2>6, <3>1, <4>1, <4>2, <4>3 DEF Knows, Target
    <3>3. CASE req[c].op \notin Adds
      <4>1. DocsOf(UserOf[c], Target(c)) # {}
        BY <1>3, <3>3 DEF Passes
      <4>2. req[c].op \in Withdraws => Rivals(c) = {} \/ Target(c) \in drifted'
        BY <1>3 DEF Check
      <4> QED
        BY <2>2, <2>6, <3>1, <3>3, <4>1, <4>2 DEF Knows, Target, At
    <3> QED
      BY <3>2, <3>3
  <2>9. CountsExact' /\ OneEach'
    BY <1>0, <2>6 DEF DocInv, CountsExact, OneEach
  <2> QED
    BY <2>4, <2>5, <2>7, <2>8, <2>9 DEF DocInv
<1> QED
  BY <1>2, <1>3

\* A marker that is no document
LEMMA NoDocument == NoDoc \notin Doc
  BY DEF NoDoc, Doc

\* The transaction of a like or a follow begins with its document
LEMMA KnowBeginAdd == ASSUME DocInv, TypeOK', NEW c \in Clients, BeginAdd(c) PROVE DocInv'
<1> USE DEF counters
<1>0. UNCHANGED <<docs, count, left, doubled, drifted>> /\ req[c].step = "begin" /\ req[c].op \in Adds
  BY DEF BeginAdd, At
<1>1. /\ \A d \in Clients : d # c => req'[d] = req[d]
      /\ req'[c].step = "commit" /\ req'[c].op = req[c].op /\ req'[c].target = req[c].target
      /\ req'[c].nr = req[c].nr /\ req'[c].doc = NewDoc(c) /\ req'[c].hit
  BY DEF BeginAdd, DocInv, TypeOK, Request
<1>2. RequestsSound'
  <2>1. ASSUME NEW d \in Clients, d # c PROVE Sound(d)' /\ DocFits(d)'
    BY <1>0, <1>1, <2>1 DEF DocInv, RequestsSound, Sound, DocFits, At, Target, NewDoc
  <2>2. Sound(c) /\ req[c].op \notin Withdraws
    BY <1>0 DEF DocInv, RequestsSound, Adds, Withdraws
  <2>3. Sound(c)' /\ DocFits(c)'
    BY <1>0, <1>1, <2>2 DEF Sound, DocFits, At, Target, NewDoc
  <2> QED
    BY <2>1, <2>3 DEF RequestsSound
<1>3. FreshDocs'
  <2>1. ASSUME NEW d \in Clients PROVE Fresh(d)'
    BY <1>0, <1>1 DEF DocInv, FreshDocs, Fresh, Before
  <2> QED
    BY <1>0, <2>1 DEF DocInv, FreshDocs
<1>4. \A u, t : DocsOf(u, t)' = DocsOf(u, t)
  BY <1>0 DEF DocsOf
<1>5. ASSUME NEW d \in Clients PROVE Knows(d)'
  <2>1. Rivals(d)' = Rivals(d)
    BY <1>0, <1>1 DEF Rivals, Target
  <2>2. Knows(d)
    BY DEF DocInv
  <2>3. CASE d = c
    BY <1>0, <1>1, <1>4, <2>1, <2>2, <2>3 DEF Knows, At, Target, Adds, Withdraws, Inside
  <2>4. CASE d # c
    BY <1>0, <1>1, <1>4, <2>1, <2>2, <2>4 DEF Knows, At, Target
  <2> QED
    BY <2>3, <2>4
<1>6. CountsExact' /\ OneEach'
  BY <1>0, <1>4 DEF DocInv, CountsExact, OneEach
<1> QED
  BY <1>2, <1>3, <1>5, <1>6 DEF DocInv

\* A counter is above zero where a document exists
LEMMA Counted ==
    ASSUME DocInv, NEW t \in Targets, t \notin drifted, NEW u, DocsOf(u, t) # {}
    PROVE  count[t] > 0
<1> DEFINE all == {d \in docs : d.target = t}
<1>1. IsFiniteSet(all) /\ all # {}
  BY FS_Subset DEF DocInv, FreshDocs, DocsOf
<1>2. Cardinality(all) \in Nat /\ Cardinality(all) # 0
  BY <1>1, FS_CardinalityType, FS_EmptySet
<1>3. count[t] = Cardinality(all)
  BY DEF DocInv, CountsExact
<1> QED
  BY <1>2, <1>3

\* The transaction of an unlike or an unfollow begins with the deletion
LEMMA KnowBeginWithdraw ==
    ASSUME DocInv, TypeOK', NEW c \in Clients, BeginWithdraw(c) PROVE DocInv'
<1> USE DEF counters
<1> DEFINE u == UserOf[c]
           t == Target(c)
           held == {req[d].doc : d \in Open}
<1>0. UNCHANGED <<docs, count, left, doubled, drifted>> /\ req[c].step = "begin"
      /\ req[c].op \in Withdraws
  BY DEF BeginWithdraw, At
<1>r. req \in [Clients -> Request] /\ t \in Targets
  BY DEF DocInv, TypeOK, Target, Request
<1>1. CASE Goto(c, "idle")
  <2>1. /\ \A d \in Clients : d # c => req'[d] = req[d]
        /\ req'[c].step = "idle"
    BY <1>r, <1>1, GotoFrame DEF Steps
  <2>2. Sound(c)' /\ Fresh(c)'
    BY <1>0, <2>1 DEF DocInv, FreshDocs, Sound, At, Fresh, Before
  <2> QED
    BY <1>0, <2>1, <2>2, Quiet DEF Inside
<1>2. CASE ~Goto(c, "idle")
  <2>1. PICK d \in IF DocsOf(u, t) = {} THEN {NoDoc} ELSE DocsOf(u, t) \ held :
          req' = [req EXCEPT ![c] = [@ EXCEPT !.step = "commit", !.doc = d, !.hit = count[t] > 0]]
    BY <1>2 DEF BeginWithdraw
  <2>2. /\ \A e \in Clients : e # c => req'[e] = req[e]
        /\ req'[c].step = "commit" /\ req'[c].op = req[c].op /\ req'[c].target = req[c].target
        /\ req'[c].nr = req[c].nr /\ req'[c].doc = d /\ req'[c].hit = (count[t] > 0)
    BY <1>r, <2>1 DEF Request
  <2>3. d = NoDoc \/ d \in DocsOf(u, t)
    BY <2>1
  <2>4. RequestsSound'
    <3>1. ASSUME NEW e \in Clients, e # c PROVE Sound(e)' /\ DocFits(e)'
      BY <1>0, <2>2, <3>1 DEF DocInv, RequestsSound, Sound, DocFits, At, Target, NewDoc
    <3>2. Sound(c) /\ req[c].op \notin Adds
      BY <1>0 DEF DocInv, RequestsSound, Adds, Withdraws
    <3>3. Sound(c)'
      BY <1>0, <2>2, <3>2 DEF Sound, At, Target
    <3>4. DocFits(c)'
      BY <2>2, <2>3, <3>2 DEF DocFits, DocsOf, DocInv, TypeOK, Target
    <3> QED
      BY <3>1, <3>3, <3>4 DEF RequestsSound
  <2>5. FreshDocs'
    <3>1. ASSUME NEW e \in Clients PROVE Fresh(e)'
      BY <1>0, <2>2 DEF DocInv, FreshDocs, Fresh, Before
    <3> QED
      BY <1>0, <3>1 DEF DocInv, FreshDocs
  <2>6. \A v, s : DocsOf(v, s)' = DocsOf(v, s)
    BY <1>0 DEF DocsOf
  <2>7. ASSUME NEW e \in Clients PROVE Knows(e)'
    <3>1. Rivals(e)' = Rivals(e)
      BY <1>0, <2>2 DEF Rivals, Target
    <3>2. Knows(e)
      BY DEF DocInv
    <3>3. CASE e # c
      BY <1>0, <2>2, <2>6, <3>1, <3>2, <3>3 DEF Knows, At, Target
    <3>4. CASE e = c
      <4>1. req[c].op \notin Adds
        BY <1>0 DEF Adds, Withdraws
      <4>2. t \notin drifted => DocsOf(u, t) # {} /\ Rivals(c) = {}
        BY <1>0, <3>2, <3>4 DEF Knows, At, Inside
      <4>3. t \notin drifted => d \in docs /\ count[t] > 0
        BY <1>r, <2>1, <4>2, Counted DEF DocsOf
      <4> QED
        BY <1>0, <2>2, <3>1, <3>4, <4>1, <4>2, <4>3 DEF Knows, At, Target
    <3> QED
      BY <3>3, <3>4
  <2>8. CountsExact' /\ OneEach'
    BY <1>0, <2>6 DEF DocInv, CountsExact, OneEach
  <2> QED
    BY <2>4, <2>5, <2>7, <2>8 DEF DocInv
<1> QED
  BY <1>1, <1>2

\* A commit changes one document and, if it does, the counter of its target
LEMMA CommitFacts ==
    ASSUME DocInv, NEW c \in Clients, Commit(c)
    PROVE  /\ UNCHANGED <<left, doubled, drifted>>
           /\ req[c].step = "commit" /\ req[c].op \in Adds \cup Withdraws
           /\ \A d \in Clients : d # c => req'[d] = req[d]
           /\ req'[c].step \notin Before /\ Sound(c)'
           /\ req[c].op \in Adds => /\ docs' = docs \cup {NewDoc(c)} /\ NewDoc(c) \notin docs
                                    /\ Delta(c) = 1
           /\ req[c].op \in Withdraws =>
                /\ docs' = docs \ {req[c].doc}
                /\ req[c].doc # NoDoc => /\ UserOf[req[c].doc.by] = UserOf[c]
                                         /\ req[c].doc.target = Target(c)
           /\ count' = [count EXCEPT ![Target(c)] = @ + Delta(c)]
<1> USE DEF nightly, plays
<1>1. UNCHANGED <<left, doubled, drifted>> /\ req[c].step = "commit"
      /\ Goto(c, AfterCommit(c)) /\ count' = [count EXCEPT ![Target(c)] = @ + Delta(c)]
      /\ docs' = IF req[c].op \in Adds THEN docs \cup {req[c].doc} ELSE docs \ {req[c].doc}
  BY DEF Commit, At
<1>2. req \in [Clients -> Request]
  BY DEF DocInv, TypeOK
<1>3. Sound(c) /\ DocFits(c) /\ Fresh(c)
  BY DEF DocInv, RequestsSound, FreshDocs
<1>4. req[c].op \in Adds \cup Withdraws
  BY <1>1, <1>2, <1>3 DEF Sound, At, Request, Ops
<1>5. /\ \A d \in Clients : d # c => req'[d] = req[d]
      /\ req'[c].step = AfterCommit(c)
      /\ AfterCommit(c) # "idle" => /\ req'[c].op = req[c].op /\ req'[c].target = req[c].target
                                    /\ req'[c].nr = req[c].nr
  BY <1>1, <1>2, GotoFrame DEF AfterCommit, Steps
<1>6. Sound(c)'
  BY <1>1, <1>3, <1>5 DEF Sound, At, Target, AfterCommit
<1>7. ASSUME req[c].op \in Adds
      PROVE  docs' = docs \cup {NewDoc(c)} /\ NewDoc(c) \notin docs /\ Delta(c) = 1
  <2>1. docs' = docs \cup {NewDoc(c)}
    BY <1>1, <1>3, <1>7 DEF DocFits, At
  <2>2. NewDoc(c) \notin docs
    BY <1>1, <1>3 DEF Fresh, NewDoc, Before
  <2>3. Target(c) \in Songs => req[c].op = "like"
    BY <1>1, <1>3, <1>7, ConstantsAssumption DEF Sound, At, Adds
  <2>4. Target(c) \notin Songs => req[c].op = "follow"
    <3>1. Target(c) \in Targets
      BY <1>2 DEF Target, Request
    <3> QED
      BY <1>1, <1>3, <1>7, <3>1 DEF Sound, At, Adds, Targets
  <2> QED
    BY <2>1, <2>2, <2>3, <2>4 DEF Delta, LikesDelta, FollowersDelta
<1>8. ASSUME req[c].op \in Withdraws
      PROVE  /\ docs' = docs \ {req[c].doc}
             /\ req[c].doc # NoDoc => /\ UserOf[req[c].doc.by] = UserOf[c]
                                      /\ req[c].doc.target = Target(c)
  <2>1. req[c].op \notin Adds
    BY <1>8 DEF Adds, Withdraws
  <2> QED
    BY <1>1, <1>3, <1>8, <2>1 DEF DocFits, At
<1>9. req'[c].step \notin Before
  BY <1>5 DEF Before, AfterCommit
<1> QED
  BY <1>1, <1>4, <1>5, <1>6, <1>7, <1>8, <1>9

\* The counters still count, and who waits to commit still knows
LEMMA KnowCommit == ASSUME DocInv, TypeOK', NEW c \in Clients, Commit(c) PROVE DocInv'
<1> DEFINE u == UserOf[c]
           t == Target(c)
           About(s) == {d \in docs : d.target = s}
<1>0. /\ UNCHANGED <<left, doubled, drifted>>
      /\ req[c].step = "commit" /\ req[c].op \in Adds \cup Withdraws
      /\ \A d \in Clients : d # c => req'[d] = req[d]
      /\ req'[c].step \notin Before /\ Sound(c)'
  BY CommitFacts
<1>a. req[c].op \in Adds =>
        docs' = docs \cup {NewDoc(c)} /\ NewDoc(c) \notin docs /\ Delta(c) = 1
  BY CommitFacts
<1>w. req[c].op \in Withdraws =>
        /\ docs' = docs \ {req[c].doc}
        /\ req[c].doc # NoDoc => UserOf[req[c].doc.by] = u /\ req[c].doc.target = t
  BY CommitFacts
<1>c. count' = [count EXCEPT ![t] = @ + Delta(c)]
  BY CommitFacts
<1>t. t \in Targets /\ u \in Users /\ NoDoc \notin docs /\ count \in [Targets -> Int]
  BY NoDocument, ConstantsAssumption DEF DocInv, TypeOK, Target, Request
<1>x. req[c].op \in Adds => req[c].op \notin Withdraws
  BY DEF Adds, Withdraws
<1>k. Knows(c) /\ Sound(c)
  BY DEF DocInv, RequestsSound
<1>1. RequestsSound'
  <2>1. ASSUME NEW d \in Clients, d # c PROVE Sound(d)' /\ DocFits(d)'
    BY <1>0, <2>1 DEF DocInv, RequestsSound, Sound, DocFits, At, Target, NewDoc
  <2>2. DocFits(c)'
    BY <1>0 DEF DocFits, At, Before
  <2> QED
    BY <1>0, <2>1, <2>2 DEF RequestsSound
<1>2. FreshDocs'
  <2>1. IsFiniteSet(docs')
    BY <1>0, <1>a, <1>w, FS_AddElement, FS_RemoveElement DEF DocInv, FreshDocs
  <2>2. \A d \in docs' : d \in docs \/ d = NewDoc(c)
    BY <1>0, <1>a, <1>w
  <2>3. NewDoc(c).by = c /\ NewDoc(c).nr = req[c].nr /\ req[c].nr > left[c]
    BY <1>0, <1>k DEF NewDoc, Sound, At
  <2>4. ASSUME NEW d \in Clients PROVE Fresh(d)'
    <3>1. Fresh(d)
      BY DEF DocInv, FreshDocs
    <3>2. CASE d = c
      BY <1>0, <2>2, <2>3, <3>1, <3>2 DEF Fresh
    <3>3. CASE d # c
      BY <1>0, <2>2, <2>3, <3>1, <3>3 DEF Fresh
    <3> QED
      BY <3>2, <3>3
  <2> QED
    BY <2>1, <2>4 DEF FreshDocs
<1>3. \A v, s : <<v, s>> # <<u, t>> => DocsOf(v, s)' = DocsOf(v, s)
  <2>1. NewDoc(c).target = t /\ UserOf[NewDoc(c).by] = u
    BY DEF NewDoc
  <2> QED
    BY <1>0, <1>a, <1>w, <1>t, <2>1 DEF DocsOf
<1>4. ASSUME NEW d \in Clients PROVE Knows(d)'
  <2>1. CASE d = c
    BY <1>0, <2>1 DEF Knows, Inside, Before
  <2>2. CASE d # c
    <3>0. Knows(d) /\ req'[d] = req[d]
      BY <1>0, <2>2 DEF DocInv
    <3>1. Rivals(d)' \subseteq Rivals(d)
      BY <1>0, <2>2 DEF Rivals, Target, Before
    <3>v. PICK v, s : v = UserOf[d] /\ s = Target(d)
      OBVIOUS
    <3>s. Target(d)' = s
      BY <3>0, <3>v DEF Target
    <3>2. CASE req[d].step \notin Inside
      BY <3>0, <3>2 DEF Knows
    <3>3. CASE req[d].step \in Inside /\ c \in Rivals(d)
      BY <1>0, <3>0, <3>1, <3>3 DEF Knows, Target
    <3>4. CASE req[d].step \in Inside /\ c \notin Rivals(d) /\ req[d].op \in Adds
      <4>1. req[d].op \notin Withdraws
        BY <3>4 DEF Adds, Withdraws
      <4>2. DocsOf(v, s) = {} => DocsOf(v, s)' = {}
        <5>1. CASE req[c].op \in Adds
          <6>1. ~At(c, "idle") /\ ~At(d, "idle")
            BY <1>0, <3>4 DEF At, Inside
          <6>2. t # s \/ u # v
            BY <1>0, <2>2, <3>4, <3>v, <5>1, <6>1, SameAdd DEF Rivals, DocInv
          <6> QED
            BY <1>3, <6>2
        <5>2. CASE req[c].op \in Withdraws
          BY <1>w, <5>2 DEF DocsOf
        <5> QED
          BY <1>0, <5>1, <5>2
      <4> QED
        BY <1>0, <3>0, <3>1, <3>4, <3>v, <3>s, <4>1, <4>2 DEF Knows
    <3>5. CASE req[d].step \in Inside /\ c \notin Rivals(d) /\ req[d].op \in Withdraws
      <4>1. req[d].op \notin Adds
        BY <3>5 DEF Adds, Withdraws
      <4>2. DocsOf(v, s) \subseteq DocsOf(v, s)'
        <5>1. CASE req[c].op \in Adds
          BY <1>a, <5>1 DEF DocsOf
        <5>2. CASE req[c].op \in Withdraws
          <6>1. ~At(c, "idle") /\ ~At(d, "idle")
            BY <1>0, <3>5 DEF At, Inside
          <6>2. t # s \/ u # v
            BY <1>0, <2>2, <3>5, <3>v, <5>2, <6>1, SameOp DEF Rivals, DocInv
          <6> QED
            BY <1>3, <6>2
        <5> QED
          BY <1>0, <5>1, <5>2
      <4>3. At(d, "commit") /\ req[d].doc \in docs => req[d].doc \in docs'
        <5>1. DocFits(d)
          BY DEF DocInv, RequestsSound
        <5>2. At(d, "commit") /\ req[d].doc \in docs =>
                req[d].doc \in DocsOf(v, s)
          BY <1>t, <3>5, <3>v, <5>1 DEF DocFits, DocsOf
        <5> QED
          BY <4>2, <5>2 DEF DocsOf
      <4> QED
        BY <1>0, <3>0, <3>1, <3>5, <3>v, <3>s, <4>1, <4>2, <4>3 DEF Knows, At
    <3>6. req[d].op \in Adds \cup Withdraws \/ req[d].step \notin Inside
      BY DEF DocInv, RequestsSound, Sound, At, Inside, TypeOK, Request, Ops
    <3> QED
      BY <3>2, <3>3, <3>4, <3>5, <3>6
  <2> QED
    BY <2>1, <2>2
<1>5. CountsExact'
  <2> SUFFICES ASSUME NEW s \in Targets, s \notin drifted
               PROVE  count'[s] = Cardinality(About(s)')
    BY <1>0 DEF CountsExact
  <2>0. IsFiniteSet(About(s)) /\ count[s] = Cardinality(About(s))
    BY FS_Subset DEF DocInv, FreshDocs, CountsExact
  <2>1. CASE s # t
    <3>1. About(s)' = About(s)
      BY <1>0, <1>a, <1>w, <1>t, <2>1 DEF NewDoc
    <3> QED
      BY <1>c, <1>t, <2>0, <2>1, <3>1
  <2>2. CASE s = t /\ req[c].op \in Adds
    <3>1. About(s)' = About(s) \cup {NewDoc(c)} /\ NewDoc(c) \notin About(s)
      BY <1>a, <2>2 DEF NewDoc
    <3>2. Cardinality(About(s)') = Cardinality(About(s)) + 1
      BY <2>0, <3>1, FS_AddElement
    <3> QED
      BY <1>a, <1>c, <1>t, <2>0, <2>2, <3>2
  <2>3. CASE s = t /\ req[c].op \in Withdraws
    <3>1. req[c].doc \in docs /\ req[c].hit
      BY <1>0, <1>k, <2>3 DEF Knows, At, Inside
    <3>2. req[c].doc \in About(s) /\ About(s)' = About(s) \ {req[c].doc}
      BY <1>t, <1>w, <2>3, <3>1
    <3>3. Cardinality(About(s)') = Cardinality(About(s)) - 1
      <4>1. PICK A, B, d : A = About(s) /\ B = About(s)' /\ d = req[c].doc
        OBVIOUS
      <4>2. IsFiniteSet(A) /\ d \in A /\ B = A \ {d}
        BY <2>0, <3>2, <4>1
      <4>3. Cardinality(B) = Cardinality(A) - 1
        BY <4>2, FS_RemoveElement
      <4> QED
        BY <4>1, <4>3
    <3>4. Delta(c) = -1
      BY <2>3, <3>1 DEF Delta, LikesDelta, FollowersDelta, Withdraws
    <3> QED
      BY <1>c, <1>t, <2>0, <2>3, <3>3, <3>4
  <2> QED
    BY <1>0, <2>1, <2>2, <2>3
<1>6. OneEach'
  <2> SUFFICES ASSUME NEW v \in Users, NEW s \in Targets, <<v, s>> \notin doubled
               PROVE  Cardinality(DocsOf(v, s)') <= 1
    BY <1>0 DEF OneEach
  <2>0. IsFiniteSet(DocsOf(v, s)) /\ Cardinality(DocsOf(v, s)) <= 1
    BY FS_Subset DEF DocInv, FreshDocs, OneEach, DocsOf
  <2>1. CASE <<v, s>> # <<u, t>>
    BY <1>3, <2>0, <2>1
  <2>2. CASE <<v, s>> = <<u, t>> /\ req[c].op \in Adds
    <3>1. DocsOf(v, s) = {}
      BY <1>0, <1>k, <2>2 DEF Knows, Inside
    <3>2. DocsOf(v, s)' = {NewDoc(c)}
      BY <1>a, <2>2, <3>1 DEF DocsOf, NewDoc
    <3> QED
      BY <3>2, FS_Singleton
  <2>3. CASE req[c].op \in Withdraws
    <3>1. DocsOf(v, s)' \subseteq DocsOf(v, s)
      BY <1>w, <2>3 DEF DocsOf
    <3>2. Cardinality(DocsOf(v, s)') <= Cardinality(DocsOf(v, s))
      BY <2>0, <3>1, FS_Subset
    <3>3. Cardinality(DocsOf(v, s)') \in Nat /\ Cardinality(DocsOf(v, s)) \in Nat
      BY <2>0, <3>1, FS_Subset, FS_CardinalityType
    <3> QED
      BY <2>0, <3>2, <3>3
  <2> QED
    BY <1>0, <2>1, <2>2, <2>3
<1> QED
  BY <1>1, <1>2, <1>4, <1>5, <1>6 DEF DocInv

\* A request that is not inside a transaction moves on, or a client sends one
LEMMA KnowOutside ==
    ASSUME DocInv, TypeOK', NEW c \in Clients,
           \/ \E o \in Ops, t \in Targets : Send(c, o, t)
           \/ Exists(c) \/ Abort(c) \/ Zincrby(c) \/ Zrem(c) \/ RecordListen(c) \/ Fail(c)
    PROVE  DocInv'
<1> USE DEF counters, plays, nightly
<1>1. req \in [Clients -> Request] /\ left \in [Clients -> Nat] /\ Sound(c) /\ Fresh(c)
  BY DEF DocInv, TypeOK, RequestsSound, FreshDocs
<1>2. CASE \E o \in Ops, t \in Targets : Send(c, o, t)
  <2>1. PICK o \in Ops, t \in Targets : Send(c, o, t)
    BY <1>2
  <2>2. /\ left[c] > 0 /\ left' = [left EXCEPT ![c] = @ - 1]
        /\ t \in IF o \in {"follow", "unfollow"} THEN Artists ELSE Songs
        /\ UNCHANGED <<docs, count, doubled, drifted>>
        /\ \A d \in Clients : d # c => req'[d] = req[d]
        /\ req'[c] = [Idle EXCEPT !.step = FirstStep(o), !.op = o, !.target = t, !.nr = left[c]]
    BY <1>1, <2>1 DEF Send
  <2>3. req'[c].step = FirstStep(o) /\ req'[c].op = o /\ req'[c].target = t /\ req'[c].nr = left[c]
    BY <2>2 DEF Idle
  <2>4. FirstStep(o) \in {"record", "check", "exists"} /\ (FirstStep(o) = "record" <=> o = "play")
    BY DEF FirstStep
  <2>5. left'[c] = left[c] - 1 /\ left[c] \in Nat /\ \A d \in Clients : d # c => left'[d] = left[d]
    BY <1>1, <2>2
  <2>6. Sound(c)'
    <3>1. left[c] > left'[c]
      BY <2>5
    <3>2. o \in {"follow", "unfollow"} <=> t \in Artists
      BY <2>2, ConstantsAssumption
    <3> QED
      BY <2>3, <2>4, <3>1, <3>2 DEF Sound, At, Target
  <2>7. Fresh(c)'
    <3>1. ASSUME NEW d \in docs, d.by = c PROVE d.nr > left'[c] /\ d.nr # req'[c].nr
      <4>1. d.nr \in Nat /\ d.nr > left[c]
        BY <1>1, <3>1 DEF Fresh, DocInv, TypeOK, Doc
      <4> QED
        BY <2>3, <2>5, <4>1
    <3> QED
      BY <2>2, <3>1 DEF Fresh
  <2>8. req'[c].step \notin Inside
    BY <2>3, <2>4 DEF Inside
  <2> QED
    BY <2>2, <2>5, <2>6, <2>7, <2>8, Quiet
<1>3. ASSUME NEW to \in {"idle", "check", "zrem"}, Goto(c, to),
             UNCHANGED <<docs, count, doubled, drifted, left>>,
             to = "check" => At(c, "exists"), to = "zrem" => At(c, "score")
      PROVE  DocInv'
  <2>1. /\ \A d \in Clients : d # c => req'[d] = req[d]
        /\ req'[c].step = to
        /\ to # "idle" => /\ req'[c].op = req[c].op /\ req'[c].target = req[c].target
                          /\ req'[c].nr = req[c].nr
    BY <1>1, <1>3, GotoFrame DEF Steps
  <2>2. Sound(c)'
    BY <1>1, <1>3, <2>1 DEF Sound, At, Target
  <2>3. Fresh(c)'
    <3>1. to \in Before => req[c].step \in Before
      BY <1>3 DEF Before, At
    <3> QED
      BY <1>1, <1>3, <2>1, <3>1 DEF Fresh, Before
  <2> QED
    BY <1>3, <2>1, <2>2, <2>3, Quiet DEF Inside
<1>4. CASE Exists(c)
  <2>1. CASE Admitted(c)
    BY <1>3, <1>4, <2>1 DEF Exists, Steps
  <2>2. CASE ~Admitted(c)
    BY <1>3, <1>4, <2>2 DEF Exists, Steps
  <2> QED
    BY <2>1, <2>2
<1>5. CASE Abort(c)
  BY <1>3, <1>5 DEF Abort, AfterAbort, Steps
<1>6. CASE Zincrby(c)
  <2>1. Goto(c, "zrem") \/ Goto(c, "idle")
    BY <1>6 DEF Zincrby
  <2> QED
    BY <1>3, <1>6, <2>1 DEF Zincrby, Steps
<1>7. CASE Zrem(c) \/ RecordListen(c) \/ Fail(c)
  BY <1>3, <1>7 DEF Zrem, RecordListen, Fail, Steps
<1> QED
  BY <1>2, <1>4, <1>5, <1>6, <1>7

\* What transactions know is kept by every step
LEMMA DocNext == DocInv /\ [Next]_vars => DocInv'
<1> SUFFICES ASSUME DocInv, [Next]_vars PROVE DocInv'
  OBVIOUS
<1> USE DEF counters
<1>0. TypeOK'
  BY TypeNext DEF DocInv
<1>1. ASSUME NEW c \in Clients,
             \/ \E o \in Ops, t \in Targets : Send(c, o, t)
             \/ Exists(c) \/ Abort(c) \/ Zincrby(c) \/ Zrem(c) \/ RecordListen(c) \/ Fail(c)
      PROVE  DocInv'
  BY <1>0, <1>1, KnowOutside
<1>2. ASSUME NEW c \in Clients, Check(c) PROVE DocInv'
  BY <1>0, <1>2, KnowCheck
<1>3. ASSUME NEW c \in Clients, BeginAdd(c) PROVE DocInv'
  BY <1>0, <1>3, KnowBeginAdd
<1>4. ASSUME NEW c \in Clients, BeginWithdraw(c) PROVE DocInv'
  BY <1>0, <1>4, KnowBeginWithdraw
<1>5. ASSUME NEW c \in Clients, Commit(c) PROVE DocInv'
  BY <1>0, <1>5, KnowCommit
<1>6. CASE (\E t \in Targets : DeleteTarget(t)) \/ StartRebuild \/ ReadPage \/ WriteBoard
  BY <1>0, <1>6, Unrelated DEF DeleteTarget, StartRebuild, ReadPage, WriteBoard
<1>7. CASE UNCHANGED vars
  BY <1>0, <1>7, Unrelated DEF vars
<1> QED
  BY <1>1, <1>2, <1>3, <1>4, <1>5, <1>6, <1>7 DEF Next

\* Nothing is known at first
LEMMA DocInit == Init => DocInv
<1> SUFFICES ASSUME Init PROVE DocInv
  OBVIOUS
<1>1. TypeOK
  BY TypeInit
<1>2. \A c \in Clients : req[c] = Idle
  BY DEF Init
<1>3. RequestsSound
  BY <1>2, IdleType DEF RequestsSound, Sound, DocFits, At
<1>4. FreshDocs
  BY FS_EmptySet DEF Init, FreshDocs, Fresh
<1>5. \A c \in Clients : Knows(c)
  BY <1>2, IdleType DEF Knows, Inside
<1>6. CountsExact
  <2> SUFFICES ASSUME NEW t \in Targets PROVE count[t] = Cardinality({d \in docs : d.target = t})
    BY DEF CountsExact
  <2>1. {d \in docs : d.target = t} = {} /\ count[t] = 0
    BY DEF Init
  <2> QED
    BY <2>1, FS_EmptySet
<1>7. OneEach
  <2> SUFFICES ASSUME NEW u \in Users, NEW t \in Targets PROVE Cardinality(DocsOf(u, t)) <= 1
    BY DEF OneEach
  <2>1. DocsOf(u, t) = {}
    BY DEF Init, DocsOf
  <2> QED
    BY <2>1, FS_EmptySet
<1> QED
  BY <1>1, <1>3, <1>4, <1>5, <1>6, <1>7 DEF DocInv

-----------------------------------------------------------------------------
(* Theorems about documents and counters                                   *)

\* What transactions know holds throughout
LEMMA DocAlways == Spec => []DocInv
  BY DocInit, DocNext, PTL DEF Spec

\* Every variable keeps its type
THEOREM TypeCorrect == Spec => []TypeOK
<1>1. DocInv => TypeOK
  BY DEF DocInv
<1> QED
  BY <1>1, DocAlways, PTL

\* The likes of a song and the followers of an artist are their documents, unless
\* two withdrawals of one user were past their check at once
THEOREM CountersExact == Spec => []CountsExact
<1>1. DocInv => CountsExact
  BY DEF DocInv
<1> QED
  BY <1>1, DocAlways, PTL

\* A user likes or follows once, unless two of his requests were past their check
\* at once
THEOREM OneDocument == Spec => []OneEach
<1>1. DocInv => OneEach
  BY DEF DocInv
<1> QED
  BY <1>1, DocAlways, PTL

-----------------------------------------------------------------------------
(* Who is about to write: plays, and scores                                *)

Recording(s) == {c \in Clients : At(c, "record") /\ Target(c) = s}
Late(o, s)   == {c \in Clients : At(c, "score") /\ req[c].op = o /\ Target(c) = s}

\* Clients are finitely many, and so are those about to write
LEMMA Writers ==
    ASSUME NEW s, NEW o
    PROVE  /\ IsFiniteSet(Recording(s)) /\ Cardinality(Recording(s)) \in Nat
           /\ IsFiniteSet(Late(o, s)) /\ Cardinality(Late(o, s)) \in Nat
<1>1. IsFiniteSet(Recording(s)) /\ IsFiniteSet(Late(o, s))
  BY ConstantsAssumption, FS_Subset DEF Recording, Late
<1> QED
  BY <1>1, FS_CardinalityType

\* The same, one step later
LEMMA WritersNext ==
    ASSUME NEW s, NEW o
    PROVE  /\ IsFiniteSet(Recording(s)') /\ Cardinality(Recording(s)') \in Nat
           /\ IsFiniteSet(Late(o, s)') /\ Cardinality(Late(o, s)') \in Nat
<1>1. IsFiniteSet(Recording(s)') /\ IsFiniteSet(Late(o, s)')
  BY ConstantsAssumption, FS_Subset DEF Recording, Late
<1> QED
  BY <1>1, FS_CardinalityType

\* A step of a request that is not sent in it: only a commit goes on to the score,
\* and no other request moves
Moves(c) ==
    \/ Exists(c) \/ Check(c) \/ BeginAdd(c) \/ BeginWithdraw(c) \/ Abort(c) \/ Commit(c)
    \/ Zincrby(c) \/ Zrem(c) \/ RecordListen(c) \/ Fail(c)

LEMMA MovesFrame ==
    ASSUME TypeOK, NEW c \in Clients, Moves(c)
    PROVE  /\ \A d \in Clients : d # c => req'[d] = req[d]
           /\ req'[c].step # "record"
           /\ Commit(c) \/ req'[c].step # "score"
<1>1. req \in [Clients -> Request]
  BY DEF TypeOK
<1>2. ASSUME NEW to \in Steps \ {"record"}, Goto(c, to), Commit(c) \/ to # "score"
      PROVE  /\ \A d \in Clients : d # c => req'[d] = req[d]
             /\ req'[c].step # "record"
             /\ Commit(c) \/ req'[c].step # "score"
  BY <1>1, <1>2, GotoFrame
<1>3. CASE Commit(c)
  <2>1. Goto(c, AfterCommit(c)) /\ AfterCommit(c) \in Steps \ {"record"}
    BY <1>3 DEF Commit, AfterCommit, Steps
  <2> QED
    BY <1>2, <1>3, <2>1
<1>4. CASE Exists(c) \/ Check(c) \/ Zincrby(c) \/ Zrem(c) \/ RecordListen(c) \/ Fail(c) \/ Abort(c)
  <2>1. \E to \in {"idle", "check", "begin", "zrem"} : Goto(c, to)
    BY <1>4 DEF Exists, Check, Zincrby, Zrem, RecordListen, Fail, Abort, AfterAbort
  <2> QED
    BY <1>2, <2>1 DEF Steps
<1>5. CASE BeginAdd(c) \/ BeginWithdraw(c)
  <2>1. CASE Goto(c, "idle")
    BY <1>2, <2>1 DEF Steps
  <2>2. CASE ~Goto(c, "idle")
    <3>1. \E d, b : req' = [req EXCEPT ![c] = [@ EXCEPT !.step = "commit", !.doc = d, !.hit = b]]
      <4>1. CASE BeginAdd(c)
        BY <4>1 DEF BeginAdd
      <4>2. CASE BeginWithdraw(c)
        <5>1. \E d \in {NoDoc} \cup docs :
                req' = [req EXCEPT ![c] = [@ EXCEPT
                           !.step = "commit", !.doc = d, !.hit = count[Target(c)] > 0]]
          BY <2>2, <4>2 DEF BeginWithdraw, DocsOf
        <5> QED
          BY <5>1
      <4> QED
        BY <1>5, <4>1, <4>2
    <3> QED
      BY <1>1, <3>1 DEF Request
  <2> QED
    BY <2>1, <2>2
<1> QED
  BY <1>3, <1>4, <1>5 DEF Moves

-----------------------------------------------------------------------------
(* Plays                                                                   *)

\* A listen is written after the view it belongs to
PlaysInv ==
    /\ DocInv
    /\ \A s \in Songs : listens[s] + Cardinality(Recording(s)) <= views[s]

LEMMA PlaysNext == PlaysInv /\ [Next]_vars => PlaysInv'
<1> SUFFICES ASSUME PlaysInv, [Next]_vars,
                    NEW s \in Songs
             PROVE  listens'[s] + Cardinality(Recording(s)') <= views'[s]
  BY DocNext DEF PlaysInv
<1> USE DEF counters, plays, nightly
<1>1. /\ req \in [Clients -> Request]
      /\ listens \in [Songs -> Nat] /\ views \in [Songs -> Nat]
      /\ listens[s] \in Nat /\ views[s] \in Nat
  BY DEF PlaysInv, DocInv, TypeOK
<1>2. listens[s] + Cardinality(Recording(s)) <= views[s]
  BY DEF PlaysInv
<1>3. /\ IsFiniteSet(Recording(s)) /\ Cardinality(Recording(s)) \in Nat
      /\ IsFiniteSet(Recording(s)') /\ Cardinality(Recording(s)') \in Nat
  BY Writers, WritersNext
<1>4. ASSUME UNCHANGED plays, Recording(s)' \subseteq Recording(s)
      PROVE  listens'[s] + Cardinality(Recording(s)') <= views'[s]
  <2>1. Cardinality(Recording(s)') <= Cardinality(Recording(s))
    BY <1>3, <1>4, FS_Subset
  <2> QED
    BY <1>1, <1>2, <1>3, <1>4, <2>1
<1>5. ASSUME NEW c \in Clients, NEW o \in Ops, NEW t \in Targets, Send(c, o, t)
      PROVE  listens'[s] + Cardinality(Recording(s)') <= views'[s]
  <2>1. /\ \A d \in Clients : d # c => req'[d] = req[d]
        /\ req'[c].step = FirstStep(o) /\ req'[c].target = t
        /\ c \notin Recording(s)
        /\ UNCHANGED listens
        /\ views' = IF o = "play" THEN [views EXCEPT ![t] = @ + 1] ELSE views
    BY <1>1, <1>5 DEF Send, Idle, At, Recording
  <2>2. CASE o = "play" /\ t = s
    <3>1. Recording(s)' = Recording(s) \cup {c}
      BY <2>1, <2>2 DEF Recording, At, Target, FirstStep
    <3>2. Cardinality(Recording(s)') = Cardinality(Recording(s)) + 1
      BY <1>3, <2>1, <3>1, FS_AddElement
    <3>3. views'[s] = views[s] + 1
      BY <1>1, <2>1, <2>2
    <3> QED
      BY <1>1, <1>2, <1>3, <2>1, <3>2, <3>3
  <2>3. CASE o # "play" \/ t # s
    <3>1. Recording(s)' = Recording(s)
      BY <2>1, <2>3 DEF Recording, At, Target, FirstStep
    <3>2. views'[s] = views[s]
      BY <1>1, <2>1, <2>3
    <3> QED
      BY <1>2, <2>1, <3>1, <3>2
  <2> QED
    BY <2>2, <2>3
<1>6. ASSUME NEW c \in Clients, Moves(c)
      PROVE  listens'[s] + Cardinality(Recording(s)') <= views'[s]
  <2>1. Recording(s)' = Recording(s) \ {c}
    <3>1. /\ \A d \in Clients : d # c => req'[d] = req[d]
          /\ req'[c].step # "record"
      BY <1>6, MovesFrame DEF PlaysInv, DocInv
    <3> QED
      BY <3>1 DEF Recording, At, Target
  <2>2. CASE RecordListen(c) /\ Target(c) = s
    <3>1. c \in Recording(s) /\ UNCHANGED views /\ listens'[s] = listens[s] + 1
      BY <1>1, <2>2 DEF RecordListen, Recording
    <3>2. Cardinality(Recording(s)') = Cardinality(Recording(s)) - 1
      BY <1>3, <2>1, <3>1, FS_RemoveElement
    <3> QED
      BY <1>1, <1>2, <1>3, <3>1, <3>2
  <2>3. CASE RecordListen(c) /\ Target(c) # s
    <3>1. UNCHANGED views /\ listens'[s] = listens[s] /\ c \notin Recording(s)
      BY <1>1, <2>3 DEF RecordListen, Recording
    <3>2. Recording(s)' = Recording(s)
      BY <2>1, <3>1
    <3> QED
      BY <1>2, <3>1, <3>2
  <2>4. CASE ~RecordListen(c)
    <3>1. UNCHANGED plays
      BY <1>6, <2>4 DEF Moves, Exists, Check, BeginAdd, BeginWithdraw, Abort, Commit, Zincrby,
                        Zrem, Fail
    <3> QED
      BY <1>4, <2>1, <3>1
  <2> QED
    BY <2>2, <2>3, <2>4
<1>7. CASE \/ \E t \in Targets : DeleteTarget(t)
           \/ StartRebuild \/ ReadPage \/ WriteBoard \/ UNCHANGED vars
  <2>1. UNCHANGED <<plays, req>>
    BY <1>7 DEF DeleteTarget, StartRebuild, ReadPage, WriteBoard, vars
  <2> QED
    BY <1>4, <2>1 DEF Recording, At, Target
<1> QED
  BY <1>5, <1>6, <1>7 DEF Next, Moves

\* No chart of a time frame shows more plays than that of all time
THEOREM ChartsConsistent == Spec => []ChartsAgree
<1>1. Init => PlaysInv
  <2> SUFFICES ASSUME Init, NEW s \in Songs
               PROVE  listens[s] + Cardinality(Recording(s)) <= views[s]
    BY DocInit DEF PlaysInv
  <2>1. Recording(s) = {} /\ listens[s] = 0 /\ views[s] = 0
    BY IdleType DEF Init, Recording, At
  <2> QED
    BY <2>1, FS_EmptySet
<1>2. PlaysInv => ChartsAgree
  <2> SUFFICES ASSUME PlaysInv,
                      NEW s \in DOMAIN Leaderboard("all") \cap DOMAIN Leaderboard("month")
               PROVE  Leaderboard("month")[s] <= Leaderboard("all")[s]
    BY DEF ChartsAgree
  <2>1. s \in Songs /\ Leaderboard("month")[s] = listens[s] /\ Leaderboard("all")[s] = views[s]
    BY DEF Leaderboard, ByViews, ByListens
  <2>2. listens[s] \in Nat /\ views[s] \in Nat /\ listens[s] + Cardinality(Recording(s)) <= views[s]
    BY <2>1 DEF PlaysInv, DocInv, TypeOK
  <2>3. Cardinality(Recording(s)) \in Nat
    BY Writers
  <2> QED
    BY <2>1, <2>2, <2>3
<1> QED
  BY <1>1, <1>2, PlaysNext, PTL DEF Spec

-----------------------------------------------------------------------------
(* Scores                                                                  *)

BoardInv == DocInv /\ BoardCounts

\* What BoardCounts says of one song
Balanced(s) ==
    Score(s) + Cardinality(Late("like", s)) - Cardinality(Late("unlike", s)) = count[s]

LEMMA Balances == BoardCounts <=> \A s \in Songs \ disturbed : Balanced(s)
  BY DEF BoardCounts, Balanced, Late

LEMMA ScoreType == ASSUME TypeOK, NEW s PROVE Score(s) \in Int
<1>1. PICK S \in SUBSET Songs : board \in [S -> Int]
  BY DEF TypeOK
<1> QED
  BY <1>1 DEF Score

\* A commit is followed by the score, a score is due no longer
LEMMA BoardNext == BoardInv /\ [Next]_vars => BoardInv'
<1> SUFFICES ASSUME BoardInv, [Next]_vars,
                    NEW s \in Songs, s \notin disturbed'
             PROVE  Balanced(s)'
  BY DocNext DEF BoardInv, Balances, BoardCounts, Balanced, Late
<1> USE DEF counters, plays, nightly
<1>1. /\ TypeOK /\ RequestsSound /\ req \in [Clients -> Request]
      /\ count \in [Targets -> Int] /\ count[s] \in Int /\ Score(s) \in Int
  BY ScoreType DEF BoardInv, DocInv, TypeOK, Targets
<1>2. s \notin disturbed => Balanced(s)
  BY Balances DEF BoardInv
<1>3. \A o : /\ IsFiniteSet(Late(o, s)) /\ Cardinality(Late(o, s)) \in Nat
             /\ IsFiniteSet(Late(o, s)') /\ Cardinality(Late(o, s)') \in Nat
  BY Writers, WritersNext
<1>4. ASSUME Score(s)' = Score(s), count'[s] = count[s], disturbed \subseteq disturbed',
             \A o \in {"like", "unlike"} : Late(o, s)' = Late(o, s)
      PROVE  Balanced(s)'
  <2>1. Balanced(s)
    BY <1>2, <1>4
  <2> QED
    BY <1>4, <2>1 DEF Balanced
<1>5. ASSUME NEW c \in Clients, NEW o \in Ops, NEW t \in Targets, Send(c, o, t) PROVE Balanced(s)'
  <2>1. /\ \A d \in Clients : d # c => req'[d] = req[d]
        /\ req'[c].step = FirstStep(o) /\ req[c].step = "idle"
        /\ UNCHANGED <<board, count, disturbed>>
    BY <1>1, <1>5 DEF Send, Idle, At
  <2>2. FirstStep(o) # "score"
    BY DEF FirstStep
  <2>3. \A p : Late(p, s)' = Late(p, s)
    BY <2>1, <2>2 DEF Late, At, Target
  <2> QED
    BY <1>4, <2>1, <2>3 DEF Score
<1>6. ASSUME NEW c \in Clients, Moves(c), ~Commit(c) PROVE Balanced(s)'
  <2>1. \A o : Late(o, s)' = Late(o, s) \ {c}
    <3>1. /\ \A d \in Clients : d # c => req'[d] = req[d]
          /\ req'[c].step # "score"
      BY <1>1, <1>6, MovesFrame
    <3> QED
      BY <3>1 DEF Late, At, Target
  <2>2. CASE Zincrby(c) /\ Target(c) = s
    <3>1. At(c, "score") /\ UNCHANGED <<count, disturbed>>
          /\ board' = [q \in DOMAIN board \cup {s} |->
                         IF q = s THEN Score(s) + Points(c) ELSE board[q]]
      BY <2>2 DEF Zincrby
    <3>2. Score(s)' = Score(s) + Points(c)
      BY <3>1 DEF Score
    <3>3. req[c].op \in {"like", "unlike"}
      <4>1. Sound(c) /\ req[c].op \in Ops
        BY <1>1 DEF RequestsSound, Request
      <4> QED
        BY <2>2, <3>1, <4>1, ConstantsAssumption DEF Sound, At, Ops, Adds, Withdraws
    <3>4. Balanced(s)
      BY <1>2, <3>1
    <3>5. CASE req[c].op = "like"
      <4>1. c \in Late("like", s) /\ c \notin Late("unlike", s) /\ Points(c) = 1
        BY <2>2, <3>1, <3>5 DEF Late, Points
      <4>2. Cardinality(Late("like", s)') = Cardinality(Late("like", s)) - 1
        BY <1>3, <2>1, <4>1, FS_RemoveElement
      <4>3. Late("unlike", s)' = Late("unlike", s)
        BY <2>1, <4>1
      <4> QED
        BY <1>1, <1>3, <3>1, <3>2, <3>4, <4>1, <4>2, <4>3 DEF Balanced
    <3>6. CASE req[c].op = "unlike"
      <4>1. c \in Late("unlike", s) /\ c \notin Late("like", s) /\ Points(c) = -1
        BY <2>2, <3>1, <3>6 DEF Late, Points
      <4>2. Cardinality(Late("unlike", s)') = Cardinality(Late("unlike", s)) - 1
        BY <1>3, <2>1, <4>1, FS_RemoveElement
      <4>3. Late("like", s)' = Late("like", s)
        BY <2>1, <4>1
      <4> QED
        BY <1>1, <1>3, <3>1, <3>2, <3>4, <4>1, <4>2, <4>3 DEF Balanced
    <3> QED
      BY <3>3, <3>5, <3>6
  <2>3. CASE ~(Zincrby(c) /\ Target(c) = s)
    <3>1. UNCHANGED count /\ disturbed \subseteq disturbed'
      BY <1>6 DEF Moves, Exists, Check, BeginAdd, BeginWithdraw, Abort, Zincrby, Zrem,
                  RecordListen, Fail
    <3>2. Score(s)' = Score(s)
      <4>1. CASE Zincrby(c)
        BY <2>3, <4>1 DEF Zincrby, Score
      <4>2. CASE Zrem(c)
        BY <4>2, ScoreType DEF Zrem, Score
      <4>3. CASE ~Zincrby(c) /\ ~Zrem(c)
        BY <1>6, <4>3 DEF Moves, Exists, Check, BeginAdd, BeginWithdraw, Abort, RecordListen,
                          Fail, Score
      <4> QED
        BY <4>1, <4>2, <4>3
    <3>3. \A o : c \notin Late(o, s)
      <4>1. CASE Target(c) # s
        BY <4>1 DEF Late
      <4>2. CASE Target(c) = s /\ ~Zincrby(c)
        BY <1>6, <4>2 DEF Moves, Exists, Check, BeginAdd, BeginWithdraw, Abort, Zrem, RecordListen,
                          Fail, Late, At
      <4> QED
        BY <2>3, <4>1, <4>2
    <3>4. \A o : Late(o, s)' = Late(o, s)
      BY <2>1, <3>3
    <3> QED
      BY <1>4, <3>1, <3>2, <3>4
  <2> QED
    BY <2>2, <2>3
<1>7. ASSUME NEW c \in Clients, Commit(c) PROVE Balanced(s)'
  <2>1. /\ \A d \in Clients : d # c => req'[d] = req[d]
        /\ count' = [count EXCEPT ![Target(c)] = @ + Delta(c)]
        /\ req[c].step = "commit" /\ req[c].op \in Adds \cup Withdraws
        /\ UNCHANGED board /\ disturbed \subseteq disturbed'
        /\ Delta(c) = 0 => Target(c) \in disturbed'
    BY <1>7, CommitFacts DEF BoardInv, Commit
  <2>2. \A o : c \notin Late(o, s)
    BY <2>1 DEF Late, At
  <2>3. Score(s)' = Score(s)
    BY <2>1 DEF Score
  <2>4. CASE Target(c) # s
    <3>1. count'[s] = count[s]
      BY <1>1, <2>1, <2>4 DEF Targets
    <3>2. req'[c].step # "score" \/ Target(c)' = Target(c)
      BY <1>1, <1>7, GotoFrame DEF Commit, AfterCommit, Steps, Target
    <3>3. \A o : Late(o, s)' = Late(o, s)
      BY <2>1, <2>2, <2>4, <3>2 DEF Late, At, Target
    <3> QED
      BY <1>4, <2>1, <2>3, <3>1, <3>3
  <2>5. CASE Target(c) = s
    <3>1. /\ req'[c].step = "score" /\ req'[c].op = req[c].op /\ req'[c].target = s
      <4>1. Goto(c, "score")
        BY <1>7, <2>5 DEF Commit, AfterCommit
      <4> QED
        BY <1>1, <2>5, <4>1, GotoFrame DEF Steps, Target
    <3>2. \A o : Late(o, s)' = IF o = req[c].op THEN Late(o, s) \cup {c} ELSE Late(o, s)
      BY <2>1, <2>2, <3>1 DEF Late, At, Target
    <3>3. req[c].op \in {"like", "unlike"}
      BY <1>1, <2>1, <2>5, ConstantsAssumption DEF RequestsSound, Sound, At, Adds, Withdraws
    <3>4. Delta(c) # 0 /\ Balanced(s) /\ Delta(c) = LikesDelta(c) /\ s \notin disturbed
      BY <1>2, <2>1, <2>5 DEF Delta
    <3>5. count'[s] = count[s] + Delta(c)
      BY <1>1, <2>1, <2>5 DEF Targets
    <3>6. CASE req[c].op = "like"
      <4>1. Cardinality(Late("like", s)') = Cardinality(Late("like", s)) + 1
        BY <1>3, <2>2, <3>2, <3>6, FS_AddElement
      <4>2. Late("unlike", s)' = Late("unlike", s) /\ Delta(c) = 1
        BY <3>2, <3>4, <3>6 DEF LikesDelta
      <4> QED
        BY <1>1, <1>3, <2>3, <3>4, <3>5, <4>1, <4>2 DEF Balanced
    <3>7. CASE req[c].op = "unlike"
      <4>1. Cardinality(Late("unlike", s)') = Cardinality(Late("unlike", s)) + 1
        BY <1>3, <2>2, <3>2, <3>7, FS_AddElement
      <4>2. Late("like", s)' = Late("like", s) /\ Delta(c) = -1
        BY <3>2, <3>4, <3>7 DEF LikesDelta
      <4> QED
        BY <1>1, <1>3, <2>3, <3>4, <3>5, <4>1, <4>2 DEF Balanced
    <3> QED
      BY <3>3, <3>6, <3>7
  <2> QED
    BY <2>4, <2>5
<1>8. CASE WriteBoard
  BY <1>8 DEF WriteBoard
<1>9. CASE (\E t \in Targets : DeleteTarget(t)) \/ StartRebuild \/ ReadPage \/ UNCHANGED vars
  <2>1. UNCHANGED <<board, count, disturbed, req>>
    BY <1>9 DEF DeleteTarget, StartRebuild, ReadPage, vars
  <2> QED
    BY <1>4, <2>1 DEF Score, Late, At, Target
<1> QED
  BY <1>5, <1>6, <1>7, <1>8, <1>9 DEF Next, Moves

\* songs:likes counts the likes, give or take the requests on their way to Redis,
\* while nothing disturbs the song's score
THEOREM BoardFollowsLikes == Spec => []BoardCounts
<1>1. Init => BoardInv
  <2> SUFFICES ASSUME Init, NEW s \in Songs PROVE Balanced(s)
    BY DocInit, Balances DEF BoardInv
  <2>1. Late("like", s) = {} /\ Late("unlike", s) = {} /\ Score(s) = 0 /\ count[s] = 0
    BY IdleType DEF Init, Late, At, Score, Empty, Targets
  <2> QED
    BY <2>1, FS_EmptySet DEF Balanced
<1>2. BoardInv => BoardCounts
  BY DEF BoardInv
<1> QED
  BY <1>1, <1>2, BoardNext, PTL DEF Spec

==============================================================================
