---------------------------- MODULE AccountsProofs ----------------------------
(***************************************************************************)
(* Accounts for every number of users, connections, requests and codes:    *)
(* types, one account per address and name, one profile per artist, one    *)
(* reset token per code.                                                   *)
(***************************************************************************)
EXTENDS Accounts, FiniteSetTheorems, TLAPS

-----------------------------------------------------------------------------
(* Requests                                                                *)

\* Where a request of each kind may be
StepsOf(o) ==
    CASE o = "register" -> {"look", "create", "cart", "commit"}
      [] o = "add" -> {"create", "cart", "commit"}
      [] o = "google" -> {"byGoogle", "byMail", "link", "create", "cart", "commit", "token"}
      [] o \in {"toggle", "change"} -> {"read", "write"}
      [] o = "setRole" -> {"check", "write"}
      [] o = "decide" -> {"open", "role", "profile", "artist", "commit"}
      [] o = "login" -> {"read", "token", "roleName"}
      [] o = "refresh" -> {"read", "findUser"}
      [] o = "forgot" -> {"save", "enqueue"}
      [] o = "confirm" -> {"find", "delete"}
      [] o = "reset" -> {"findUser", "write"}
      [] OTHER -> {}

\* Steps that write to, or about, an account found earlier
NeedsUser == {"link", "token", "write"}

\* What a request of each kind carries
Carries(c) ==
    /\ req[c].op \in Creates => req[c].mail \in Mails /\ req[c].name \in Names
    /\ req[c].op \in {"add", "setRole"} => req[c].value \in Roles
    /\ req[c].op = "decide" =>
          /\ req[c].claim \in Claims /\ req[c].value \in Verdicts
          /\ req[c].step \in {"role", "profile", "artist"} => req[c].value = "approved"
    /\ req[c].op \in {"toggle", "refresh", "setRole", "change"} => req[c].user \in DOMAIN users
    /\ req[c].op \in {"change", "reset"} => req[c].value \in Passwords
    /\ req[c].op \in {"forgot", "confirm", "reset"} => req[c].mail \in Mails
    /\ req[c].step \in NeedsUser => req[c].user \in DOMAIN users

Sound(c) ==
    IF At(c, "idle") THEN req[c] = Idle
    ELSE req[c].nr > left[c] /\ req[c].step \in StepsOf(req[c].op) /\ Carries(c)

AccountsSound == \A c \in Clients : Sound(c)

\* A client that does nothing remembers nothing
LEMMA IdleType == Idle \in Request /\ Idle.step = "idle"
  BY DEF Idle, Request, Steps, Ops, Creates, Codes

\* A step of a request leaves the other requests alone
LEMMA GotoFrame ==
    ASSUME req \in [Clients -> Request], NEW c \in Clients, NEW to \in Steps, Goto(c, to)
    PROVE  /\ req' \in [Clients -> Request]
           /\ \A d \in Clients : d # c => req'[d] = req[d]
           /\ req'[c].step = to
           /\ to = "idle" => req'[c] = Idle
           /\ to # "idle" => req'[c] = [req[c] EXCEPT !.step = to]
<1>1. [req[c] EXCEPT !.step = to] \in Request
  BY DEF Request
<1> QED
  BY <1>1, IdleType DEF Goto

\* Locks and snapshots are of documents
Documents == Ids \cup Claims

LEMMA StaleType ==
    ASSUME stale \in [Clients -> SUBSET Documents], NEW c \in Clients, NEW S,
           NEW T \in SUBSET Documents
    PROVE  /\ Forget(stale, c) \in [Clients -> SUBSET Documents]
           /\ Committed(stale, S, T) \in [Clients -> SUBSET Documents]
           /\ Committed(Forget(stale, c), S, T) \in [Clients -> SUBSET Documents]
  BY DEF Forget, Committed

\* A write to an account outside of a transaction
LEMMA UpdateType ==
    ASSUME TypeOK, NEW u \in DOMAIN users, NEW user \in User, Update(u, user)
    PROVE  /\ DOMAIN users' = DOMAIN users /\ users' \in [DOMAIN users' -> User]
           /\ users'[u] = user /\ \A v \in DOMAIN users : v # u => users'[v] = users[v]
           /\ stale' \in [Clients -> SUBSET Documents]
<1>1. stale \in [Clients -> SUBSET Documents] /\ users \in [DOMAIN users -> User]
  BY DEF TypeOK, Documents
<1>2. {u} \in SUBSET Documents
  BY DEF TypeOK, Documents
<1>3. stale' \in [Clients -> SUBSET Documents]
  BY <1>1, <1>2 DEF Update, Committed
<1> QED
  BY <1>1, <1>3 DEF Update

-----------------------------------------------------------------------------
(* A request is sent                                                       *)

\* What the n-th request of a client knows of itself
LEMMA SendFields ==
    ASSUME TypeOK, NEW c \in Clients, NEW o \in topic \ {"remove", "submit", "logout"},
           NEW arg \in Argument(o), Send(c, o, arg)
    PROVE  /\ req' \in [Clients -> Request]
           /\ \A d \in Clients : d # c => req'[d] = req[d]
           /\ req'[c].step = FirstStep(o) /\ req'[c].op = o /\ req'[c].nr = left[c]
           /\ FirstStep(o) \in StepsOf(o) /\ o \in Ops
           /\ req'[c].seen = FALSE
           /\ Carries(c)'
           /\ req'[c].todo = IF o = "register" THEN {"mail", "name"} ELSE {}
           /\ o = "confirm" => req'[c].code \in {otp.code : otp \in mailed}
           /\ o = "setRole" => req'[c].value # "ARTIST"
           /\ left' = [left EXCEPT ![c] = @ - 1] /\ left[c] \in Nat /\ left[c] > 0
<1>1. o \in Ops /\ left[c] \in Nat /\ left[c] > 0 /\ left' = [left EXCEPT ![c] = @ - 1]
  BY ConstantsAssumption DEF TypeOK, Send
<1>2. FirstStep(o) \in StepsOf(o) /\ FirstStep(o) \in Steps /\ FirstStep(o) \notin NeedsUser
      /\ FirstStep(o) \notin {"role", "profile", "artist"}
  BY <1>1 DEF FirstStep, StepsOf, Ops, Creates, Steps, NeedsUser
<1>3. DOMAIN Idle = {"step", "op", "nr", "user", "mail", "name", "value", "claim", "code",
                     "todo", "seen"}
  BY DEF Idle
<1> DEFINE new == [f \in DOMAIN Idle |->
                    CASE f \in DOMAIN arg -> arg[f]
                      [] f = "step" -> FirstStep(o)
                      [] f = "op" -> o
                      [] f = "nr" -> left[c]
                      [] f = "todo" /\ o = "register" -> {"mail", "name"}
                      [] OTHER -> Idle[f]]
<1>4. req' = [req EXCEPT ![c] = new] /\ req \in [Clients -> Request]
  BY DEF Send, TypeOK
<1>5. UNCHANGED <<users, mailed>>
  BY DEF Send, people, codes
<1> DEFINE P == /\ new \in Request
                /\ new.step = FirstStep(o) /\ new.op = o /\ new.nr = left[c] /\ new.seen = FALSE
                /\ new.todo = IF o = "register" THEN {"mail", "name"} ELSE {}
                /\ o \in Creates => new.mail \in Mails /\ new.name \in Names
                /\ o \in {"add", "setRole"} => new.value \in Roles
                /\ o = "decide" => new.claim \in Claims /\ new.value \in Verdicts
                /\ o \in {"toggle", "refresh", "setRole", "change"} => new.user \in DOMAIN users
                /\ o \in {"change", "reset"} => new.value \in Passwords
                /\ o \in {"forgot", "confirm", "reset"} => new.mail \in Mails
                /\ o = "confirm" => new.code \in {otp.code : otp \in mailed}
                /\ o = "setRole" => new.value # "ARTIST"
<1>6. P
  <2>0. DOMAIN users \subseteq Ids /\ mailed \subseteq Otp /\ DOMAIN issued \subseteq Otp
    BY DEF TypeOK
  <2>1. CASE o \in {"register", "google"}
    <3>1. arg \in [mail : Mails, name : Names]
      BY <2>1 DEF Argument
    <3>2. DOMAIN arg = {"mail", "name"} /\ arg.mail \in Mails /\ arg.name \in Names
      BY <3>1
    <3> QED
      BY <1>1, <1>2, <1>3, <2>1, <3>2 DEF Request, Idle, Codes, Creates
  <2>2. CASE o = "add"
    <3>1. arg \in [mail : Mails, name : Names, value : Roles]
      BY <2>2 DEF Argument
    <3>2. DOMAIN arg = {"mail", "name", "value"}
          /\ arg.mail \in Mails /\ arg.name \in Names /\ arg.value \in Roles
      BY <3>1
    <3> QED
      BY <1>1, <1>2, <1>3, <2>2, <3>2 DEF Request, Idle, Codes, Creates
  <2>3. CASE o \in {"toggle", "refresh"}
    <3>1. arg \in [user : DOMAIN users]
      BY <2>3 DEF Argument
    <3>2. DOMAIN arg = {"user"} /\ arg.user \in DOMAIN users
      BY <3>1
    <3> QED
      BY <1>1, <1>2, <1>3, <2>0, <2>3, <3>2 DEF Request, Idle, Codes, Creates
  <2>4. CASE o = "setRole"
    <3>1. arg \in [user : DOMAIN users, value : Roles \ {"ARTIST"}]
      BY <2>4 DEF Argument
    <3>2. DOMAIN arg = {"user", "value"} /\ arg.user \in DOMAIN users /\ arg.value \in Roles
          /\ arg.value # "ARTIST"
      BY <3>1
    <3> QED
      BY <1>1, <1>2, <1>3, <2>0, <2>4, <3>2 DEF Request, Idle, Codes, Creates
  <2>5. CASE o = "change"
    <3>1. arg \in [user : DOMAIN users, value : Passwords]
      BY <2>5 DEF Argument
    <3>2. DOMAIN arg = {"user", "value"} /\ arg.user \in DOMAIN users /\ arg.value \in Passwords
      BY <3>1
    <3> QED
      BY <1>1, <1>2, <1>3, <2>0, <2>5, <3>2 DEF Request, Idle, Codes, Creates
  <2>6. CASE o = "decide"
    <3>1. arg \in [claim : Claims, value : Verdicts]
      BY <2>6 DEF Argument
    <3>2. DOMAIN arg = {"claim", "value"} /\ arg.claim \in Claims /\ arg.value \in Verdicts
      BY <3>1
    <3> QED
      BY <1>1, <1>2, <1>3, <2>6, <3>2 DEF Request, Idle, Codes, Creates
  <2>7. CASE o = "login"
    <3>1. arg \in [name : Names]
      BY <2>7 DEF Argument
    <3>2. DOMAIN arg = {"name"} /\ arg.name \in Names
      BY <3>1
    <3> QED
      BY <1>1, <1>2, <1>3, <2>7, <3>2 DEF Request, Idle, Codes, Creates
  <2>8. CASE o = "forgot"
    <3>1. arg \in [mail : Mails]
      BY <2>8 DEF Argument
    <3>2. DOMAIN arg = {"mail"} /\ arg.mail \in Mails
      BY <3>1
    <3> QED
      BY <1>1, <1>2, <1>3, <2>8, <3>2 DEF Request, Idle, Codes, Creates
  <2>9. CASE o = "confirm"
    <3>1. arg \in [mail : Mails, code : {otp.code : otp \in mailed}]
      BY <2>9 DEF Argument
    <3>2. DOMAIN arg = {"mail", "code"} /\ arg.mail \in Mails
          /\ arg.code \in {otp.code : otp \in mailed}
      BY <3>1
    <3>3. arg.code \in Codes
      BY <2>0, <3>2 DEF Otp
    <3> QED
      BY <1>1, <1>2, <1>3, <2>9, <3>2, <3>3 DEF Request, Idle, Creates
  <2>10. CASE o = "reset"
    <3>1. arg \in [mail : {otp.mail : otp \in DOMAIN issued}, value : Passwords]
      BY <2>10 DEF Argument
    <3>2. DOMAIN arg = {"mail", "value"} /\ arg.value \in Passwords
          /\ arg.mail \in {otp.mail : otp \in DOMAIN issued}
      BY <3>1
    <3>3. arg.mail \in Mails
      BY <2>0, <3>2 DEF Otp
    <3> QED
      BY <1>1, <1>2, <1>3, <2>10, <3>2, <3>3 DEF Request, Idle, Codes, Creates
  <2> QED
    BY <1>1, <2>1, <2>2, <2>3, <2>4, <2>5, <2>6, <2>7, <2>8, <2>9, <2>10 DEF Ops, Creates
<1> HIDE DEF new
<1>7. req'[c] = new
  BY <1>4
<1>8. Carries(c)'
  BY <1>2, <1>5, <1>6, <1>7 DEF Carries
<1> QED
  BY <1>1, <1>2, <1>4, <1>5, <1>6, <1>7, <1>8

-----------------------------------------------------------------------------
(* Types and the course of requests                                        *)

BaseInv == TypeOK /\ AccountsSound

\* Requests of other clients stay sound
LEMMA OthersSound ==
    ASSUME AccountsSound, NEW c \in Clients, DOMAIN users \subseteq DOMAIN users',
           \A d \in Clients : d # c => req'[d] = req[d] /\ left'[d] = left[d],
           Sound(c)'
    PROVE  AccountsSound'
<1> SUFFICES ASSUME NEW d \in Clients, d # c PROVE Sound(d)'
  BY DEF AccountsSound
<1>1. Sound(d) /\ req'[d] = req[d] /\ left'[d] = left[d]
  BY DEF AccountsSound
<1> QED
  BY <1>1 DEF Sound, At, Carries

\* A request that goes on as its kind does stays sound
LEMMA GotoSound ==
    ASSUME BaseInv, NEW c \in Clients, NEW to \in Steps, Goto(c, to), ~At(c, "idle"),
           left' = left, DOMAIN users \subseteq DOMAIN users',
           to # "idle" =>
              /\ to \in StepsOf(req[c].op)
              /\ to \in {"role", "profile", "artist"} => req[c].value = "approved"
              /\ to \in NeedsUser => req[c].user \in DOMAIN users
    PROVE  req' \in [Clients -> Request] /\ AccountsSound'
<1>1. /\ req' \in [Clients -> Request]
      /\ \A d \in Clients : d # c => req'[d] = req[d]
      /\ req'[c].step = to
      /\ to = "idle" => req'[c] = Idle
      /\ to # "idle" => req'[c] = [req[c] EXCEPT !.step = to]
  BY GotoFrame DEF BaseInv, TypeOK
<1>2. Sound(c) /\ req[c] \in Request
  BY DEF BaseInv, AccountsSound, TypeOK
<1>3. CASE to = "idle"
  BY <1>1, <1>3, OthersSound DEF BaseInv, Sound, At
<1>4. CASE to # "idle"
  <2>1. /\ req'[c].op = req[c].op /\ req'[c].nr = req[c].nr /\ req'[c].mail = req[c].mail
        /\ req'[c].name = req[c].name /\ req'[c].value = req[c].value
        /\ req'[c].claim = req[c].claim /\ req'[c].user = req[c].user
    BY <1>1, <1>2, <1>4 DEF Request
  <2>2. Sound(c)'
    BY <1>1, <1>2, <1>4, <2>1 DEF Sound, At, Carries
  <2> QED
    BY <1>1, <2>2, OthersSound DEF BaseInv
<1> QED
  BY <1>1, <1>3, <1>4

\* A request that also remembers an account it found, or what it saw
LEMMA FoundSound ==
    ASSUME BaseInv, NEW c \in Clients, ~At(c, "idle"), NEW to \in Steps \ {"idle"},
           NEW u \in Ids \cup {None}, NEW todo \in SUBSET {"mail", "name"}, NEW seen \in BOOLEAN,
           req' = [req EXCEPT ![c] = [@ EXCEPT !.step = to, !.user = u, !.todo = todo,
                                               !.seen = seen]],
           left' = left, DOMAIN users \subseteq DOMAIN users',
           /\ to \in StepsOf(req[c].op)
           /\ to \in {"role", "profile", "artist"} => req[c].value = "approved"
           /\ u = req[c].user \/ u \in DOMAIN users'
           /\ to \in NeedsUser => u \in DOMAIN users'
    PROVE  /\ req' \in [Clients -> Request] /\ AccountsSound'
           /\ \A d \in Clients : d # c => req'[d] = req[d]
           /\ req'[c] = [req[c] EXCEPT !.step = to, !.user = u, !.todo = todo, !.seen = seen]
<1>1. Sound(c) /\ req[c] \in Request /\ req \in [Clients -> Request]
  BY DEF BaseInv, AccountsSound, TypeOK
<1>2. [req[c] EXCEPT !.step = to, !.user = u, !.todo = todo, !.seen = seen] \in Request
  BY <1>1 DEF Request
<1>3. /\ req' \in [Clients -> Request]
      /\ \A d \in Clients : d # c => req'[d] = req[d]
      /\ req'[c] = [req[c] EXCEPT !.step = to, !.user = u, !.todo = todo, !.seen = seen]
  BY <1>1, <1>2
<1>4. /\ req'[c].op = req[c].op /\ req'[c].nr = req[c].nr /\ req'[c].mail = req[c].mail
      /\ req'[c].name = req[c].name /\ req'[c].value = req[c].value
      /\ req'[c].claim = req[c].claim /\ req'[c].user = u /\ req'[c].step = to
  BY <1>1, <1>3 DEF Request
<1>5. Sound(c)'
  BY <1>1, <1>4 DEF Sound, At, Carries
<1> QED
  BY <1>3, <1>5, OthersSound DEF BaseInv

\* The documents apart from requests
DataType ==
    /\ DOMAIN users \subseteq Ids
    /\ users \in [DOMAIN users -> User]
    /\ carts \in [DOMAIN users -> Nat]
    /\ claims \in [Claims -> Verdicts \cup {"none", "pending"}]
    /\ artists \subseteq Profile
    /\ tokens \subseteq Jwt
    /\ otps \subseteq Otp /\ outbox \subseteq Otp /\ mailed \subseteq Otp
    /\ issued \in [DOMAIN issued -> Nat] /\ DOMAIN issued \subseteq Otp
    /\ topic \in Topics
    /\ stale \in [Clients -> SUBSET Documents]
    /\ left \in [Clients -> Nat]
    /\ faults \in Nat
    /\ twins \subseteq Names
    /\ raced \subseteq Ids
    /\ doubled \subseteq Otp

LEMMA Parts == TypeOK <=> DataType /\ req \in [Clients -> Request]
  BY DEF TypeOK, DataType, Documents

LEMMA PartsNext == TypeOK' <=> DataType' /\ req' \in [Clients -> Request]
  BY DEF TypeOK, DataType, Documents

Data == <<users, carts, claims, artists, tokens, otps, outbox, mailed, issued, topic, stale,
          left, faults, twins, raced, doubled>>

LEMMA DataQuiet == DataType /\ UNCHANGED Data => DataType'
  BY DEF DataType, Data

\* The requests that read, and move on
LEMMA BaseReads ==
    ASSUME BaseInv, NEW c \in Clients,
           \/ Look(c) \/ ByGoogle(c) \/ ByMail(c) \/ Create(c) \/ CreateCart(c)
           \/ Authenticate(c) \/ RoleName(c) \/ FindToken(c) \/ Refresh(c)
           \/ FindForReset(c) \/ FindPassword(c) \/ ReadStatus(c) \/ CheckProfile(c)
           \/ UpdateClaim(c) \/ CheckArtist(c)
    PROVE  BaseInv' /\ UNCHANGED Data /\ \A d \in Clients : d # c => req'[d] = req[d]
<1> USE DEF people, approval, codes, history
<1>1. UNCHANGED Data /\ ~At(c, "idle")
  BY DEF Data, Look, ByGoogle, ByMail, Create, CreateCart, Authenticate, RoleName, FindToken,
         Refresh, FindForReset, FindPassword, ReadStatus, CheckProfile, UpdateClaim, CheckArtist, At
<1> SUFFICES BaseInv' /\ \A d \in Clients : d # c => req'[d] = req[d]
  BY <1>1
<1>2. /\ DataType' /\ left' = left /\ users' = users
      /\ req \in [Clients -> Request] /\ Sound(c) /\ req[c] \in Request
      /\ DOMAIN users \subseteq Ids
  BY <1>1, Parts, DataQuiet DEF BaseInv, Data, DataType, AccountsSound
<1>3. req[c].step \in StepsOf(req[c].op) /\ Carries(c)
  BY <1>1, <1>2 DEF Sound
<1>4. ASSUME NEW to \in Steps, Goto(c, to),
             to # "idle" =>
                /\ to \in StepsOf(req[c].op)
                /\ to \in {"role", "profile", "artist"} => req[c].value = "approved"
                /\ to \in NeedsUser => req[c].user \in DOMAIN users
      PROVE  BaseInv' /\ \A d \in Clients : d # c => req'[d] = req[d]
  BY <1>1, <1>2, <1>4, GotoSound, GotoFrame, PartsNext DEF BaseInv
<1>5. ASSUME NEW to \in Steps \ {"idle"},
             NEW u \in Ids \cup {None}, NEW todo \in SUBSET {"mail", "name"}, NEW seen \in BOOLEAN,
             req' = [req EXCEPT ![c] = [@ EXCEPT !.step = to, !.user = u, !.todo = todo,
                                                 !.seen = seen]],
             /\ to \in StepsOf(req[c].op)
             /\ to \in {"role", "profile", "artist"} => req[c].value = "approved"
             /\ u = req[c].user \/ u \in DOMAIN users
             /\ to \in NeedsUser => u \in DOMAIN users
      PROVE  BaseInv' /\ \A d \in Clients : d # c => req'[d] = req[d]
  <2>1. u = req[c].user \/ u \in DOMAIN users'
    BY <1>2, <1>5
  <2>2. to \in NeedsUser => u \in DOMAIN users'
    BY <1>2, <1>5
  <2>3. req' \in [Clients -> Request] /\ AccountsSound' /\ \A d \in Clients : d # c => req'[d] = req[d]
    BY <1>1, <1>2, <1>5, <2>1, <2>2, FoundSound
  <2> QED
    BY <1>2, <2>3, PartsNext DEF BaseInv
<1>6. Goto(c, "idle") => BaseInv' /\ \A d \in Clients : d # c => req'[d] = req[d]
  BY <1>4 DEF Steps
<1>7. CASE Look(c)
  <2>1. PICK f \in req[c].todo :
          LET seen == req[c].seen \/ Exists(c, f)
              todo == req[c].todo \ {f}
          IN IF todo # {} THEN req' = [req EXCEPT ![c].todo = todo, ![c].seen = seen]
             ELSE IF seen THEN Goto(c, "idle")
             ELSE req' = [req EXCEPT ![c].todo = {}, ![c].step = "create"]
    BY <1>7 DEF Look
  <2>2. req[c].op = "register" /\ req[c].step = "look"
    BY <1>3, <1>7, <1>2 DEF Look, At, StepsOf, Request, Ops, Creates
  <2> DEFINE seen == req[c].seen \/ Exists(c, f)
             todo == req[c].todo \ {f}
  <2>3. todo \in SUBSET {"mail", "name"} /\ seen \in BOOLEAN /\ req[c].seen \in BOOLEAN
        /\ req[c].user \in Ids \cup {None}
    BY <1>2 DEF Request
  <2>4. CASE todo # {}
    <3>1. req' = [req EXCEPT ![c] = [@ EXCEPT !.step = "look", !.user = req[c].user,
                                              !.todo = todo, !.seen = seen]]
      <4>1. req' = [req EXCEPT ![c] = [@ EXCEPT !.todo = todo, !.seen = seen]]
        BY <1>2, <2>1, <2>4
      <4>2. req[c] = [req[c] EXCEPT !.step = "look", !.user = req[c].user]
        BY <1>2, <2>2 DEF Request
      <4> HIDE DEF todo, seen
      <4> QED
        BY <1>2, <4>1, <4>2 DEF Request
    <3>2. "look" \in StepsOf(req[c].op)
      BY <2>2 DEF StepsOf
    <3> QED
      BY <1>5, <2>3, <3>1, <3>2 DEF Steps, NeedsUser
  <2>5. CASE todo = {} /\ seen
    BY <1>6, <2>1, <2>5
  <2>6. CASE todo = {} /\ ~seen
    <3>1. req' = [req EXCEPT ![c] = [@ EXCEPT !.step = "create", !.user = req[c].user,
                                              !.todo = {}, !.seen = req[c].seen]]
      BY <1>2, <2>1, <2>2, <2>6 DEF Request
    <3>2. "create" \in StepsOf(req[c].op)
      BY <2>2 DEF StepsOf
    <3> QED
      BY <1>5, <2>3, <3>1, <3>2 DEF Steps, NeedsUser
  <2> QED
    BY <1>1, <2>4, <2>5, <2>6
<1>8. ASSUME NEW u \in DOMAIN users, NEW to \in Steps \ {"idle", "role", "profile", "artist"},
             req' = [req EXCEPT ![c].step = to, ![c].user = u], to \in StepsOf(req[c].op)
      PROVE  BaseInv' /\ \A d \in Clients : d # c => req'[d] = req[d]
  <2>1. req' = [req EXCEPT ![c] = [@ EXCEPT !.step = to, !.user = u,
                                            !.todo = req[c].todo, !.seen = req[c].seen]]
    BY <1>2, <1>8 DEF Request
  <2>2. u \in Ids /\ req[c].todo \in SUBSET {"mail", "name"} /\ req[c].seen \in BOOLEAN
    BY <1>2 DEF Request
  <2> QED
    BY <1>5, <2>1, <2>2, <1>8
<1>9. ASSUME NEW to \in Steps \ {"idle"}, NEW seen \in BOOLEAN, to \in StepsOf(req[c].op),
             to \in {"role", "profile", "artist"} => req[c].value = "approved",
             to \in NeedsUser => req[c].user \in DOMAIN users,
             req' = [req EXCEPT ![c].step = to, ![c].seen = seen]
      PROVE  BaseInv' /\ \A d \in Clients : d # c => req'[d] = req[d]
  <2>1. req' = [req EXCEPT ![c] = [@ EXCEPT !.step = to, !.user = req[c].user,
                                            !.todo = req[c].todo, !.seen = seen]]
    BY <1>2, <1>9 DEF Request
  <2>2. req[c].user \in Ids \cup {None} /\ req[c].todo \in SUBSET {"mail", "name"}
    BY <1>2 DEF Request
  <2> QED
    BY <1>5, <2>1, <2>2, <1>9
<1>10. CASE ByGoogle(c)
  <2>1. req[c].op = "google"
    BY <1>2, <1>3, <1>10 DEF ByGoogle, At, StepsOf, Request, Ops, Creates
  <2>2. Goto(c, "byMail") \/ \E u \in DOMAIN users : req' = [req EXCEPT ![c].step = "token", ![c].user = u]
    BY <1>10 DEF ByGoogle
  <2> QED
    BY <1>4, <1>8, <2>1, <2>2 DEF StepsOf, Steps, NeedsUser
<1>11. CASE ByMail(c)
  <2>1. req[c].op = "google"
    BY <1>2, <1>3, <1>11 DEF ByMail, At, StepsOf, Request, Ops, Creates
  <2>2. Goto(c, "create") \/ \E u \in DOMAIN users : req' = [req EXCEPT ![c].step = "link", ![c].user = u]
    BY <1>11 DEF ByMail
  <2> QED
    BY <1>4, <1>8, <2>1, <2>2 DEF StepsOf, Steps, NeedsUser
<1>12. CASE Create(c) \/ CreateCart(c)
  <2>1. req[c].op \in Creates
    BY <1>2, <1>3, <1>12 DEF Create, CreateCart, At, StepsOf, Request, Ops, Creates
  <2>2. Goto(c, "idle") \/ Goto(c, "cart") \/ Goto(c, "commit")
    BY <1>12 DEF Create, CreateCart
  <2>3. {"cart", "commit"} \subseteq StepsOf(req[c].op)
    BY <2>1 DEF StepsOf, Creates
  <2> QED
    BY <1>4, <1>6, <2>2, <2>3 DEF Steps, NeedsUser
<1>13. CASE Authenticate(c)
  <2>1. Goto(c, "idle") \/ \E u \in DOMAIN users : req' = [req EXCEPT ![c].step = "token", ![c].user = u]
    BY <1>13 DEF Authenticate
  <2>2. "token" \in StepsOf(req[c].op)
    BY <1>13 DEF Authenticate, StepsOf
  <2> QED
    BY <1>6, <1>8, <2>1, <2>2 DEF Steps
<1>14. CASE RoleName(c) \/ Refresh(c)
  BY <1>6, <1>14 DEF RoleName, Refresh
<1>15. CASE FindToken(c)
  <2>1. "findUser" \in StepsOf(req[c].op)
    BY <1>15 DEF FindToken, StepsOf
  <2>2. Goto(c, "idle") \/ Goto(c, "findUser")
    BY <1>15 DEF FindToken
  <2> QED
    BY <1>4, <1>6, <2>1, <2>2 DEF Steps, NeedsUser
<1>16. CASE FindForReset(c)
  <2>1. Goto(c, "idle") \/ \E u \in DOMAIN users : req' = [req EXCEPT ![c].step = "write", ![c].user = u]
    BY <1>16 DEF FindForReset
  <2>2. "write" \in StepsOf(req[c].op)
    BY <1>16 DEF FindForReset, StepsOf
  <2> QED
    BY <1>6, <1>8, <2>1, <2>2 DEF Steps
<1>17. CASE FindPassword(c)
  <2>1. "write" \in StepsOf(req[c].op) /\ req[c].user \in DOMAIN users
    BY <1>3, <1>17 DEF FindPassword, StepsOf, Carries
  <2>2. Goto(c, "idle") \/ Goto(c, "write")
    BY <1>17 DEF FindPassword
  <2> QED
    BY <1>4, <1>6, <2>1, <2>2 DEF Steps, NeedsUser
<1>18. CASE ReadStatus(c)
  <2>1. "write" \in StepsOf(req[c].op) /\ req[c].user \in DOMAIN users
    BY <1>3, <1>18 DEF ReadStatus, StepsOf, Carries
  <2>2. users[req[c].user].active \in BOOLEAN
    BY <1>2, <2>1 DEF BaseInv, TypeOK, User
  <2>3. Goto(c, "idle") \/
        req' = [req EXCEPT ![c].step = "write", ![c].seen = users[req[c].user].active]
    BY <1>18 DEF ReadStatus
  <2> QED
    BY <1>6, <1>9, <2>1, <2>2, <2>3 DEF Steps
<1>19. CASE CheckProfile(c)
  <2>1. req[c].op = "setRole"
    BY <1>2, <1>3, <1>19 DEF CheckProfile, At, StepsOf, Request, Ops, Creates
  <2>2. Goto(c, "idle") \/ Goto(c, "write")
    BY <1>19 DEF CheckProfile
  <2> QED
    BY <1>3, <1>4, <1>6, <2>1, <2>2 DEF Steps, StepsOf, Carries
<1>20. CASE UpdateClaim(c)
  <2>1. req[c].op = "decide"
    BY <1>2, <1>3, <1>20 DEF UpdateClaim, At, StepsOf, Request, Ops, Creates
  <2>2. \/ Goto(c, "idle")
        \/ /\ req[c].value = "approved"
           /\ req' = [req EXCEPT ![c].step = "role", ![c].seen = HasProfile(Subject(c))]
        \/ req' = [req EXCEPT ![c].step = "commit", ![c].seen = HasProfile(Subject(c))]
    BY <1>20 DEF UpdateClaim
  <2>3. {"role", "commit"} \subseteq StepsOf(req[c].op) /\ HasProfile(Subject(c)) \in BOOLEAN
    BY <2>1 DEF StepsOf, HasProfile
  <2> QED
    BY <1>6, <1>9, <2>2, <2>3 DEF Steps, NeedsUser
<1>21. CASE CheckArtist(c)
  <2>1. req[c].op = "decide"
    BY <1>2, <1>3, <1>21 DEF CheckArtist, At, StepsOf, Request, Ops, Creates
  <2>2. Goto(c, "commit") \/ Goto(c, "artist")
    BY <1>21 DEF CheckArtist
  <2>3. req[c].value = "approved"
    BY <1>3, <1>21, <2>1 DEF CheckArtist, At, Carries
  <2> QED
    BY <1>4, <2>1, <2>2, <2>3 DEF StepsOf, Steps, NeedsUser
<1> QED
  BY <1>1, <1>7, <1>10, <1>11, <1>12, <1>13, <1>14, <1>15, <1>16, <1>17, <1>18, <1>19, <1>20, <1>21

\* A request is sent
LEMMA BaseSend ==
    ASSUME BaseInv, NEW c \in Clients, NEW o \in topic \ {"remove", "submit", "logout"},
           NEW arg \in Argument(o), Send(c, o, arg)
    PROVE  BaseInv'
<1> USE DEF people, approval, codes, history
<1>1. /\ TypeOK /\ AccountsSound /\ DataType
  BY Parts DEF BaseInv
<1>2. /\ req' \in [Clients -> Request]
      /\ \A d \in Clients : d # c => req'[d] = req[d]
      /\ req'[c].step = FirstStep(o) /\ req'[c].op = o /\ req'[c].nr = left[c]
      /\ FirstStep(o) \in StepsOf(o) /\ o \in Ops
      /\ Carries(c)'
      /\ left' = [left EXCEPT ![c] = @ - 1] /\ left[c] \in Nat /\ left[c] > 0
  BY <1>1, SendFields
<1>3. left' \in [Clients -> Nat] /\ left'[c] = left[c] - 1
      /\ \A d \in Clients : d # c => left'[d] = left[d]
  BY <1>1, <1>2 DEF DataType
<1>4. Sound(c)'
  <2>1. FirstStep(o) # "idle"
    BY <1>2 DEF FirstStep, Ops, Creates, StepsOf
  <2>2. left[c] > left'[c]
    BY <1>2, <1>3
  <2> QED
    BY <1>2, <2>1, <2>2 DEF Sound, At
<1>5. users' = users /\ DataType'
  BY <1>1, <1>3 DEF Send, DataType
<1> QED
  BY <1>1, <1>2, <1>3, <1>4, <1>5, OthersSound, PartsNext DEF BaseInv

\* Requests that are one call, and what happens without one
LEMMA BaseCalls ==
    ASSUME BaseInv,
           \/ \E c \in Clients : Remove(c) \/ Submit(c) \/ Logout(c)
           \/ \E o \in outbox : SendEmail(o)
           \/ Expire \/ UNCHANGED vars
    PROVE  BaseInv' /\ req' = req /\ DOMAIN users' = DOMAIN users /\ DOMAIN stale' = DOMAIN stale
<1> USE DEF people, approval, codes, history
<1>1. /\ TypeOK /\ AccountsSound /\ DataType /\ req \in [Clients -> Request]
  BY Parts DEF BaseInv
<1>0. ASSUME DataType', req' = req, DOMAIN users' = DOMAIN users,
             \A c \in Clients : At(c, "idle") \/ left'[c] = left[c]
      PROVE  BaseInv'
  <2>1. ASSUME NEW c \in Clients PROVE Sound(c)'
    <3>1. Sound(c) /\ req'[c] = req[c] /\ (At(c, "idle") \/ left'[c] = left[c])
      BY <1>0, <1>1 DEF AccountsSound
    <3> QED
      BY <1>0, <3>1 DEF Sound, At, Carries
  <2> QED
    BY <1>0, <1>1, <2>1, PartsNext DEF BaseInv, AccountsSound
<1>2. ASSUME NEW c \in Clients, At(c, "idle"), left[c] > 0, left' = [left EXCEPT ![c] = @ - 1]
      PROVE  left' \in [Clients -> Nat] /\ \A d \in Clients : At(d, "idle") \/ left'[d] = left[d]
  BY <1>1, <1>2 DEF DataType
<1>3. ASSUME NEW c \in Clients, Remove(c)
      PROVE  BaseInv' /\ req' = req /\ DOMAIN users' = DOMAIN users /\ DOMAIN stale' = DOMAIN stale
  <2>1. left' \in [Clients -> Nat] /\ \A d \in Clients : At(d, "idle") \/ left'[d] = left[d]
    BY <1>2, <1>3 DEF Remove
  <2>2. PICK u \in DOMAIN users : Update(u, [users[u] EXCEPT !.deleted = TRUE])
    BY <1>3 DEF Remove
  <2>3. [users[u] EXCEPT !.deleted = TRUE] \in User
    <3>1. users[u] \in User
      BY <1>1 DEF DataType
    <3> QED
      BY <3>1 DEF User
  <2>4. /\ DOMAIN users' = DOMAIN users /\ users' \in [DOMAIN users' -> User]
        /\ stale' \in [Clients -> SUBSET Documents]
    BY <1>1, <2>2, <2>3, UpdateType
  <2>5. DataType' /\ req' = req /\ DOMAIN stale = Clients
    BY <1>1, <1>3, <2>1, <2>4 DEF Remove, DataType
  <2> QED
    BY <1>0, <2>1, <2>4, <2>5
<1>4. ASSUME NEW c \in Clients, Submit(c)
      PROVE  BaseInv' /\ req' = req /\ DOMAIN users' = DOMAIN users /\ DOMAIN stale' = DOMAIN stale
  <2>1. left' \in [Clients -> Nat] /\ \A d \in Clients : At(d, "idle") \/ left'[d] = left[d]
    BY <1>2, <1>4 DEF Submit
  <2>2. DataType' /\ req' = req /\ users' = users /\ stale' = stale
    BY <1>1, <1>4, <2>1 DEF Submit, DataType
  <2> QED
    BY <1>0, <2>1, <2>2
<1>5. ASSUME NEW c \in Clients, Logout(c)
      PROVE  BaseInv' /\ req' = req /\ DOMAIN users' = DOMAIN users /\ DOMAIN stale' = DOMAIN stale
  <2>1. left' \in [Clients -> Nat] /\ \A d \in Clients : At(d, "idle") \/ left'[d] = left[d]
    BY <1>2, <1>5 DEF Logout
  <2>2. DataType' /\ req' = req /\ users' = users /\ stale' = stale
    BY <1>1, <1>5, <2>1 DEF Logout, DataType
  <2> QED
    BY <1>0, <2>1, <2>2
<1>6. CASE (\E o \in outbox : SendEmail(o)) \/ Expire \/ UNCHANGED vars
  <2>1. DataType' /\ req' = req /\ users' = users /\ left' = left /\ stale' = stale
    BY <1>1, <1>6 DEF SendEmail, Expire, vars, DataType
  <2> QED
    BY <1>0, <2>1
<1> QED
  BY <1>3, <1>4, <1>5, <1>6

\* Writes to an account
LEMMA BaseUpdates ==
    ASSUME BaseInv, NEW c \in Clients,
           Link(c) \/ WritePassword(c) \/ WriteStatus(c) \/ WriteRole(c)
    PROVE  /\ BaseInv' /\ DOMAIN users' = DOMAIN users
           /\ req[c].user \in DOMAIN users
           /\ \A d \in Clients : d # c => req'[d] = req[d]
           /\ \A v \in DOMAIN users : /\ users'[v].mail = users[v].mail
                                      /\ users'[v].name = users[v].name
                                      /\ users'[v].deleted = users[v].deleted
                                      /\ ~WriteRole(c) \/ v # req[c].user =>
                                            users'[v].role = users[v].role
<1> USE DEF people, approval, codes, history
<1>1. /\ TypeOK /\ DataType /\ req \in [Clients -> Request] /\ Sound(c) /\ req[c] \in Request
  BY Parts DEF BaseInv, AccountsSound
<1>2. req[c].step \in StepsOf(req[c].op) /\ Carries(c) /\ ~At(c, "idle")
      /\ req[c].step \in NeedsUser
  BY <1>1 DEF Sound, Link, WritePassword, WriteStatus, WriteRole, At, NeedsUser
<1> DEFINE u == req[c].user
<1>3. u \in DOMAIN users /\ users[u] \in User
  BY <1>1, <1>2 DEF Carries, DataType
<1>4. ASSUME NEW user \in User, Update(u, user), NEW to \in {"idle", "token"}, Goto(c, to),
             to = "token" => At(c, "link"),
             UNCHANGED <<carts, claims, artists, tokens, otps, outbox, mailed, issued, topic,
                         left, faults, twins, raced, doubled>>
      PROVE  /\ BaseInv' /\ DOMAIN users' = DOMAIN users
             /\ \A d \in Clients : d # c => req'[d] = req[d]
             /\ users'[u] = user /\ \A v \in DOMAIN users : v # u => users'[v] = users[v]
  <2>1. /\ DOMAIN users' = DOMAIN users /\ users' \in [DOMAIN users' -> User]
        /\ users'[u] = user /\ \A v \in DOMAIN users : v # u => users'[v] = users[v]
        /\ stale' \in [Clients -> SUBSET Documents]
    BY <1>1, <1>3, <1>4, UpdateType
  <2>2. DataType'
    BY <1>1, <1>4, <2>1 DEF DataType
  <2>3. to = "token" => to \in StepsOf(req[c].op)
    <3>1. At(c, "link") => req[c].op = "google"
      BY <1>1, <1>2 DEF At, StepsOf, Request, Ops, Creates
    <3> QED
      BY <1>4, <3>1 DEF StepsOf
  <2>4. req' \in [Clients -> Request] /\ AccountsSound'
    BY <1>2, <1>3, <1>4, <2>1, <2>3, GotoSound DEF Steps
  <2>5. \A d \in Clients : d # c => req'[d] = req[d]
    BY <1>1, <1>4, GotoFrame DEF Steps
  <2> QED
    BY <2>1, <2>2, <2>4, <2>5, PartsNext DEF BaseInv
<1>5. CASE Link(c)
  <2>1. [users[u] EXCEPT !.google = TRUE] \in User
    BY <1>3 DEF User
  <2>2. At(c, "link") /\ ~WriteRole(c)
    BY <1>5 DEF Link, WriteRole, At
  <2>3. /\ BaseInv' /\ DOMAIN users' = DOMAIN users
        /\ \A d \in Clients : d # c => req'[d] = req[d]
        /\ users'[u] = [users[u] EXCEPT !.google = TRUE]
        /\ \A v \in DOMAIN users : v # u => users'[v] = users[v]
    BY <1>4, <1>5, <2>1, <2>2 DEF Link
  <2> QED
    BY <1>3, <2>3 DEF User
<1>6. CASE WritePassword(c)
  <2>1. [users[u] EXCEPT !.password = req[c].value] \in User
    BY <1>2, <1>3, <1>6 DEF User, WritePassword, Carries
  <2>2. /\ BaseInv' /\ DOMAIN users' = DOMAIN users
        /\ \A d \in Clients : d # c => req'[d] = req[d]
        /\ users'[u] = [users[u] EXCEPT !.password = req[c].value]
        /\ \A v \in DOMAIN users : v # u => users'[v] = users[v]
    BY <1>4, <1>6, <2>1 DEF WritePassword
  <2> QED
    BY <1>3, <2>2 DEF User
<1>7. CASE WriteStatus(c)
  <2>1. [users[u] EXCEPT !.active = ~req[c].seen] \in User
    BY <1>1, <1>3 DEF User, Request
  <2>2. /\ BaseInv' /\ DOMAIN users' = DOMAIN users
        /\ \A d \in Clients : d # c => req'[d] = req[d]
        /\ users'[u] = [users[u] EXCEPT !.active = ~req[c].seen]
        /\ \A v \in DOMAIN users : v # u => users'[v] = users[v]
    BY <1>4, <1>7, <2>1 DEF WriteStatus
  <2> QED
    BY <1>3, <2>2 DEF User
<1>8. CASE WriteRole(c)
  <2>1. [users[u] EXCEPT !.role = req[c].value] \in User
    BY <1>2, <1>3, <1>8 DEF User, WriteRole, Carries
  <2>2. /\ BaseInv' /\ DOMAIN users' = DOMAIN users
        /\ \A d \in Clients : d # c => req'[d] = req[d]
        /\ users'[u] = [users[u] EXCEPT !.role = req[c].value]
        /\ \A v \in DOMAIN users : v # u => users'[v] = users[v]
    BY <1>4, <1>8, <2>1 DEF WriteRole
  <2> QED
    BY <1>3, <1>8, <2>2 DEF User
<1> QED
  BY <1>3, <1>5, <1>6, <1>7, <1>8

\* Steps that write tokens and codes, and those that may abort a transaction
LEMMA BaseWrites ==
    ASSUME BaseInv, NEW c \in Clients,
           \/ SaveToken(c) \/ SaveOtp(c) \/ Enqueue(c) \/ FindOtp(c) \/ DeleteOtp(c)
           \/ UpdateRole(c) \/ CreateArtist(c) \/ Fail(c)
    PROVE  /\ BaseInv' /\ UNCHANGED <<users, carts, artists, claims, left>>
           /\ \A d \in Clients : d # c => req'[d] = req[d]
<1> USE DEF people, approval, codes, history
<1>1. /\ TypeOK /\ DataType /\ req \in [Clients -> Request] /\ Sound(c) /\ req[c] \in Request
  BY Parts DEF BaseInv, AccountsSound
<1>2. ~At(c, "idle") /\ UNCHANGED <<users, carts, artists, claims, left>>
  BY DEF SaveToken, SaveOtp, Enqueue, FindOtp, DeleteOtp, UpdateRole, CreateArtist, Fail, At
<1>3. req[c].step \in StepsOf(req[c].op) /\ Carries(c)
  BY <1>1, <1>2 DEF Sound
<1>4. ASSUME DataType', NEW to \in Steps, Goto(c, to),
             to # "idle" =>
                /\ to \in StepsOf(req[c].op)
                /\ to \in {"role", "profile", "artist"} => req[c].value = "approved"
                /\ to \in NeedsUser => req[c].user \in DOMAIN users
      PROVE  BaseInv' /\ \A d \in Clients : d # c => req'[d] = req[d]
  BY <1>1, <1>2, <1>4, GotoSound, GotoFrame, PartsNext DEF BaseInv
<1>5. CASE SaveToken(c)
  <2>1. req[c].user \in Ids /\ req[c].nr \in Nat
    BY <1>1, <1>3, <1>5 DEF SaveToken, At, Carries, NeedsUser, DataType, Request
  <2>2. Token(c) \in Jwt /\ Hash(Token(c)) \in Jwt
    BY <2>1 DEF Token, Jwt, Hash, New, Made
  <2>3. DataType'
    BY <1>1, <1>5, <2>2 DEF SaveToken, DataType
  <2>4. req[c].op = "login" => "roleName" \in StepsOf(req[c].op)
    BY DEF StepsOf
  <2>5. CASE req[c].op = "login"
    BY <1>4, <1>5, <2>3, <2>4, <2>5, <1>2 DEF SaveToken, Steps, NeedsUser
  <2>6. CASE req[c].op # "login"
    BY <1>4, <1>5, <2>3, <2>6, <1>2 DEF SaveToken, Steps
  <2> QED
    BY <1>2, <2>5, <2>6
<1>6. ASSUME req[c].step \in {"save", "enqueue"} PROVE NewOtp(c) \in Otp /\ req[c].op = "forgot"
  <2>1. req[c].op = "forgot"
    BY <1>1, <1>3, <1>6 DEF StepsOf, Request, Ops, Creates
  <2> QED
    BY <1>1, <1>3, <2>1 DEF Carries, NewOtp, Otp, New, Codes, Made, Request
<1>7. CASE SaveOtp(c)
  <2>1. NewOtp(c) \in Otp /\ "enqueue" \in StepsOf(req[c].op)
    BY <1>6, <1>7 DEF SaveOtp, At, StepsOf
  <2>2. DataType'
    BY <1>1, <1>7, <2>1 DEF SaveOtp, DataType
  <2> QED
    BY <1>2, <1>4, <1>7, <2>1, <2>2 DEF SaveOtp, Steps, NeedsUser
<1>8. CASE Enqueue(c)
  <2>1. NewOtp(c) \in Otp
    BY <1>6, <1>8 DEF Enqueue, At
  <2>2. DataType'
    BY <1>1, <1>8, <2>1 DEF Enqueue, DataType
  <2> QED
    BY <1>2, <1>4, <1>8, <2>2 DEF Enqueue, Steps
<1>9. ASSUME req[c].step \in {"find", "delete"} PROVE Confirms(c) \in Otp /\ req[c].op = "confirm"
  <2>1. req[c].op = "confirm"
    BY <1>1, <1>3, <1>9 DEF StepsOf, Request, Ops, Creates
  <2> QED
    BY <1>1, <1>3, <2>1 DEF Carries, Confirms, Otp, Request
<1>10. CASE FindOtp(c)
  <2>1. Confirms(c) \in Otp /\ "delete" \in StepsOf(req[c].op)
    BY <1>9, <1>10 DEF FindOtp, At, StepsOf
  <2>2. DataType'
    BY <1>1, <1>10, <2>1 DEF FindOtp, DataType
  <2>3. Goto(c, "delete") \/ Goto(c, "idle")
    BY <1>10 DEF FindOtp
  <2> QED
    BY <1>2, <1>4, <2>1, <2>2, <2>3 DEF Steps, NeedsUser
<1>11. CASE DeleteOtp(c)
  <2>1. Confirms(c) \in Otp
    BY <1>9, <1>11 DEF DeleteOtp, At
  <2>2. issued' \in [DOMAIN issued' -> Nat] /\ DOMAIN issued' \subseteq Otp
    <3>1. \A o \in DOMAIN issued : issued[o] \in Nat
      BY <1>1 DEF DataType
    <3>2. \A o \in DOMAIN issued \cup {Confirms(c)} :
            (IF o \in DOMAIN issued THEN issued[o] ELSE 0) + (IF o = Confirms(c) THEN 1 ELSE 0) \in Nat
      BY <3>1
    <3> QED
      BY <1>1, <1>11, <2>1, <3>2 DEF DeleteOtp, DataType
  <2>3. DataType'
    BY <1>1, <1>11, <2>2 DEF DeleteOtp, UsedUp, DataType
  <2> QED
    BY <1>2, <1>4, <1>11, <2>3 DEF DeleteOtp, Steps
<1>12. CASE UpdateRole(c) \/ CreateArtist(c) \/ Fail(c)
  <2>1. Forget(stale, c) \in [Clients -> SUBSET Documents]
    BY <1>1, StaleType DEF DataType
  <2>2. CASE Abort(c)
    <3>1. DataType'
      BY <1>1, <1>12, <2>1, <2>2 DEF UpdateRole, CreateArtist, Fail, Abort, DataType
    <3> QED
      BY <1>2, <1>4, <2>2, <3>1 DEF Abort, Steps
  <2>3. CASE ~Abort(c)
    <3>1. req[c].op = "decide" /\ req[c].value = "approved"
      BY <1>1, <1>3, <1>12, <2>3 DEF UpdateRole, CreateArtist, Fail, At, StepsOf, Request, Ops,
                                     Creates, Carries
    <3>2. DataType' /\ (Goto(c, "profile") \/ Goto(c, "commit"))
      BY <1>1, <1>12, <2>3 DEF UpdateRole, CreateArtist, Fail, DataType
    <3> QED
      BY <1>2, <1>4, <3>1, <3>2 DEF Steps, StepsOf, NeedsUser
  <2> QED
    BY <2>2, <2>3
<1> QED
  BY <1>2, <1>5, <1>7, <1>8, <1>10, <1>11, <1>12

\* An account is created with its cart
LEMMA BaseCreate ==
    ASSUME BaseInv, NEW c \in Clients, CommitCreate(c)
    PROVE  /\ BaseInv' /\ \A d \in Clients : d # c => req'[d] = req[d]
           /\ req'[c] = Idle \/ req'[c] = [req[c] EXCEPT !.step = "token", !.user = New(c)]
           /\ New(c) \in Made /\ req[c].op \in Creates /\ req[c].nr > left[c]
           /\ req[c].mail \in Mails /\ req[c].name \in Names
           /\ DOMAIN users' = DOMAIN users \cup {New(c)}
<1> USE DEF people, approval, codes, history
<1>1. /\ TypeOK /\ DataType /\ req \in [Clients -> Request] /\ Sound(c) /\ req[c] \in Request
  BY Parts DEF BaseInv, AccountsSound
<1>2. /\ req[c].step \in StepsOf(req[c].op) /\ Carries(c) /\ ~At(c, "idle")
      /\ req[c].nr > left[c] /\ req[c].op \in Creates /\ At(c, "commit")
  BY <1>1 DEF Sound, CommitCreate, At
<1>3. New(c) \in Made /\ req[c].mail \in Mails /\ req[c].name \in Names
  BY <1>1, <1>2 DEF New, Made, Request, Carries
<1>4. NewUser(c) \in User
  <2>1. (IF req[c].op = "add" THEN req[c].value ELSE "USER") \in Roles
    BY <1>2, ConstantsAssumption DEF Carries
  <2>2. (CHOOSE p \in Passwords : TRUE) \in Passwords
    BY ConstantsAssumption
  <2> QED
    BY <1>3, <2>1, <2>2 DEF NewUser, User
<1>5. /\ users' = [u \in DOMAIN users \cup {New(c)} |-> IF u = New(c) THEN NewUser(c) ELSE users[u]]
      /\ carts' = [u \in DOMAIN users' |-> IF u = New(c) THEN 1 ELSE carts[u]]
      /\ twins' \in {twins, twins \cup {req[c].name}}
      /\ UNCHANGED <<claims, artists, tokens, otps, outbox, mailed, issued, stale, left, faults,
                     raced, doubled, topic>>
      /\ req' = [req EXCEPT ![c] = IF req[c].op = "google"
                                   THEN [@ EXCEPT !.step = "token", !.user = New(c)] ELSE Idle]
  BY DEF CommitCreate
<1>6. DOMAIN users' = DOMAIN users \cup {New(c)} /\ users' \in [DOMAIN users' -> User]
  BY <1>1, <1>4, <1>5 DEF DataType
<1>7. carts' \in [DOMAIN users' -> Nat]
  BY <1>1, <1>5, <1>6 DEF DataType
<1>8. DataType'
  BY <1>1, <1>3, <1>5, <1>6, <1>7 DEF DataType, Ids
<1>9. CASE req[c].op = "google"
  <2>1. req' = [req EXCEPT ![c] = [@ EXCEPT !.step = "token", !.user = New(c),
                                            !.todo = req[c].todo, !.seen = req[c].seen]]
    BY <1>1, <1>5, <1>9 DEF Request
  <2>2. /\ req' \in [Clients -> Request] /\ AccountsSound'
        /\ \A d \in Clients : d # c => req'[d] = req[d]
    <3>1. "token" \in StepsOf(req[c].op) /\ New(c) \in Ids \cup {None} /\ New(c) \in DOMAIN users'
          /\ DOMAIN users \subseteq DOMAIN users'
      BY <1>3, <1>6, <1>9 DEF StepsOf, Ids
    <3>2. req[c].todo \in SUBSET {"mail", "name"} /\ req[c].seen \in BOOLEAN
      BY <1>1 DEF Request
    <3>3. "token" \in Steps \ {"idle"} /\ left' = left
      BY <1>5 DEF Steps
    <3> QED
      BY <1>2, <2>1, <3>1, <3>2, <3>3, FoundSound
  <2> QED
    BY <1>1, <1>2, <1>3, <1>5, <1>6, <1>8, <1>9, <2>2, PartsNext DEF BaseInv
<1>10. CASE req[c].op # "google"
  <2>1. Goto(c, "idle")
    BY <1>5, <1>10 DEF Goto
  <2>2. req' \in [Clients -> Request] /\ AccountsSound'
    BY <1>2, <1>5, <1>6, <2>1, GotoSound DEF Steps
  <2> QED
    BY <1>1, <1>2, <1>3, <1>5, <1>6, <1>8, <1>10, <2>2, PartsNext DEF BaseInv
<1> QED
  BY <1>9, <1>10

\* A request is decided
LEMMA BaseDecide ==
    ASSUME BaseInv, NEW c \in Clients, CommitDecision(c)
    PROVE  /\ BaseInv' /\ \A d \in Clients : d # c => req'[d] = req[d]
           /\ req'[c] = Idle /\ DOMAIN users' = DOMAIN users
           /\ req[c].claim \in Claims /\ Subject(c) \in Known /\ New(c) \in Made
           /\ req[c].value \in Verdicts
<1> USE DEF people, approval, codes, history
<1>1. /\ TypeOK /\ DataType /\ req \in [Clients -> Request] /\ Sound(c) /\ req[c] \in Request
  BY Parts DEF BaseInv, AccountsSound
<1>2. /\ req[c].step \in StepsOf(req[c].op) /\ Carries(c) /\ ~At(c, "idle")
      /\ req[c].op = "decide" /\ At(c, "commit")
  BY <1>1 DEF Sound, CommitDecision, At
<1>3. /\ req[c].claim \in Claims /\ Subject(c) \in Known /\ New(c) \in Made
      /\ req[c].value \in Verdicts
  BY <1>1, <1>2, ConstantsAssumption DEF Carries, Subject, New, Made, Request
<1> DEFINE u == Subject(c)
<1>4. /\ claims' = [claims EXCEPT ![req[c].claim] = req[c].value]
      /\ users' \in {users, [users EXCEPT ![u].role = "ARTIST"]}
      /\ artists' \in {artists, artists \cup {[user |-> u, by |-> New(c)]}}
      /\ raced' \in {raced, raced \cup {u}}
      /\ stale' = Committed(Forget(stale, c), Open \ {c}, HeldBy(c))
      /\ Goto(c, "idle")
      /\ UNCHANGED <<carts, tokens, otps, outbox, mailed, issued, left, faults, twins, doubled, topic>>
  BY DEF CommitDecision
<1>5. DOMAIN users' = DOMAIN users /\ users' \in [DOMAIN users' -> User]
  <2>1. \A v \in DOMAIN users : [users[v] EXCEPT !.role = "ARTIST"] \in User
    <3>1. \A v \in DOMAIN users : users[v] \in User
      BY <1>1 DEF DataType
    <3> QED
      BY <3>1, ConstantsAssumption DEF User
  <2> QED
    BY <1>1, <1>4, <2>1 DEF DataType
<1>6. stale' \in [Clients -> SUBSET Documents]
  <2>1. HeldBy(c) \in SUBSET Documents
    BY <1>3 DEF HeldBy, Subject, Documents, Ids
  <2> QED
    BY <1>1, <1>4, <2>1, StaleType DEF DataType
<1>7. artists' \subseteq Profile /\ raced' \subseteq Ids
  BY <1>1, <1>3, <1>4 DEF DataType, Profile, Ids
<1>8. claims' \in [Claims -> Verdicts \cup {"none", "pending"}]
  BY <1>1, <1>3, <1>4 DEF DataType
<1>9. DataType'
  BY <1>1, <1>4, <1>5, <1>6, <1>7, <1>8 DEF DataType
<1>10. /\ req' \in [Clients -> Request] /\ AccountsSound'
       /\ req'[c] = Idle /\ \A d \in Clients : d # c => req'[d] = req[d]
  BY <1>1, <1>2, <1>4, <1>5, GotoSound, GotoFrame DEF Steps
<1> QED
  BY <1>3, <1>5, <1>9, <1>10, PartsNext DEF BaseInv

-----------------------------------------------------------------------------
(* The base of the theorems                                                *)

LEMMA BaseNext == BaseInv /\ [Next]_vars => BaseInv'
<1> SUFFICES ASSUME BaseInv, [Next]_vars PROVE BaseInv'
  OBVIOUS
<1>1. ASSUME NEW c \in Clients, NEW o \in topic \ {"remove", "submit", "logout"},
             NEW arg \in Argument(o), Send(c, o, arg)
      PROVE  BaseInv'
  BY <1>1, BaseSend
<1>2. CASE \/ \E c \in Clients : Remove(c) \/ Submit(c) \/ Logout(c)
           \/ \E o \in outbox : SendEmail(o)
           \/ Expire \/ UNCHANGED vars
  BY <1>2, BaseCalls
<1>3. ASSUME NEW c \in Clients,
             \/ Look(c) \/ ByGoogle(c) \/ ByMail(c) \/ Create(c) \/ CreateCart(c)
             \/ Authenticate(c) \/ RoleName(c) \/ FindToken(c) \/ Refresh(c)
             \/ FindForReset(c) \/ FindPassword(c) \/ ReadStatus(c) \/ CheckProfile(c)
             \/ UpdateClaim(c) \/ CheckArtist(c)
      PROVE  BaseInv'
  BY <1>3, BaseReads
<1>4. ASSUME NEW c \in Clients, Link(c) \/ WritePassword(c) \/ WriteStatus(c) \/ WriteRole(c)
      PROVE  BaseInv'
  BY <1>4, BaseUpdates
<1>5. ASSUME NEW c \in Clients,
             \/ SaveToken(c) \/ SaveOtp(c) \/ Enqueue(c) \/ FindOtp(c) \/ DeleteOtp(c)
             \/ UpdateRole(c) \/ CreateArtist(c) \/ Fail(c)
      PROVE  BaseInv'
  BY <1>5, BaseWrites
<1>6. ASSUME NEW c \in Clients, CommitCreate(c) PROVE BaseInv'
  BY <1>6, BaseCreate
<1>7. ASSUME NEW c \in Clients, CommitDecision(c) PROVE BaseInv'
  BY <1>7, BaseDecide
<1> QED
  BY <1>1, <1>2, <1>3, <1>4, <1>5, <1>6, <1>7 DEF Next

LEMMA BaseInit == Init => BaseInv
<1> SUFFICES ASSUME Init PROVE BaseInv
  OBVIOUS
<1>1. DataType
  <2>1. (CHOOSE p \in Passwords : TRUE) \in Passwords
    BY ConstantsAssumption
  <2>2. users \in [Known -> User]
    BY <2>1, ConstantsAssumption DEF Init, User
  <2>3. otps \subseteq Otp
    BY ConstantsAssumption DEF Init, Otp, Codes
  <2> QED
    BY <2>2, <2>3, ConstantsAssumption DEF Init, DataType, Ids, Documents
<1>2. req \in [Clients -> Request] /\ AccountsSound
  BY IdleType DEF Init, AccountsSound, Sound, At
<1> QED
  BY <1>1, <1>2, Parts DEF BaseInv

\* Every variable keeps its type
THEOREM TypeCorrect == Spec => []TypeOK
<1>1. BaseInv => TypeOK
  BY DEF BaseInv
<1> QED
  BY <1>1, BaseInit, BaseNext, PTL DEF Spec

\* A step of a request, unless the request is sent in it
Moves(c) ==
    \/ Look(c) \/ ByGoogle(c) \/ ByMail(c) \/ Link(c)
    \/ Create(c) \/ CreateCart(c) \/ CommitCreate(c)
    \/ Authenticate(c) \/ SaveToken(c) \/ RoleName(c) \/ FindToken(c) \/ Refresh(c)
    \/ SaveOtp(c) \/ Enqueue(c) \/ FindOtp(c) \/ DeleteOtp(c)
    \/ FindForReset(c) \/ FindPassword(c) \/ WritePassword(c)
    \/ ReadStatus(c) \/ WriteStatus(c) \/ CheckProfile(c) \/ WriteRole(c)
    \/ UpdateClaim(c) \/ UpdateRole(c) \/ CheckArtist(c) \/ CreateArtist(c)
    \/ CommitDecision(c) \/ Fail(c)

\* What a request was about it stays about
LEMMA Kept ==
    ASSUME BaseInv, NEW c \in Clients, Moves(c)
    PROVE  /\ ~At(c, "idle") /\ left' = left
           /\ \A d \in Clients : d # c => req'[d] = req[d]
           /\ \/ req'[c] = Idle
              \/ /\ req'[c].op = req[c].op /\ req'[c].nr = req[c].nr
                 /\ req'[c].mail = req[c].mail /\ req'[c].name = req[c].name
                 /\ req'[c].claim = req[c].claim /\ req'[c].value = req[c].value
                 /\ req'[c].code = req[c].code
           /\ Sound(c)' /\ Sound(c) /\ req[c] \in Request
<1> USE DEF people, approval, codes, history
<1>1. /\ req \in [Clients -> Request] /\ req[c] \in Request /\ Sound(c)
  BY DEF BaseInv, TypeOK, AccountsSound
<1>2. ~At(c, "idle") /\ left' = left
  BY DEF Moves, Look, ByGoogle, ByMail, Link, Create, CreateCart, CommitCreate, Authenticate,
         SaveToken, RoleName, FindToken, Refresh, SaveOtp, Enqueue, FindOtp, DeleteOtp,
         FindForReset, FindPassword, WritePassword, ReadStatus, WriteStatus, CheckProfile,
         WriteRole, UpdateClaim, UpdateRole, CheckArtist, CreateArtist, CommitDecision, Fail, At
<1>3. BaseInv' /\ \A d \in Clients : d # c => req'[d] = req[d]
  BY BaseReads, BaseUpdates, BaseWrites, BaseCreate, BaseDecide DEF Moves
<1>4. ASSUME NEW to \in Steps, Goto(c, to)
      PROVE  \/ req'[c] = Idle
             \/ /\ req'[c].op = req[c].op /\ req'[c].nr = req[c].nr
                /\ req'[c].mail = req[c].mail /\ req'[c].name = req[c].name
                /\ req'[c].claim = req[c].claim /\ req'[c].value = req[c].value
                /\ req'[c].code = req[c].code
  <2>1. req'[c] = Idle \/ req'[c] = [req[c] EXCEPT !.step = to]
    BY <1>1, <1>4, GotoFrame
  <2> QED
    BY <1>1, <2>1 DEF Request
<1>5. ASSUME NEW to, NEW u, req' = [req EXCEPT ![c].step = to, ![c].user = u]
      PROVE  /\ req'[c].op = req[c].op /\ req'[c].nr = req[c].nr
             /\ req'[c].mail = req[c].mail /\ req'[c].name = req[c].name
             /\ req'[c].claim = req[c].claim /\ req'[c].value = req[c].value
             /\ req'[c].code = req[c].code
  BY <1>1, <1>5 DEF Request
<1>6. ASSUME NEW to, NEW seen, req' = [req EXCEPT ![c].step = to, ![c].seen = seen]
      PROVE  /\ req'[c].op = req[c].op /\ req'[c].nr = req[c].nr
             /\ req'[c].mail = req[c].mail /\ req'[c].name = req[c].name
             /\ req'[c].claim = req[c].claim /\ req'[c].value = req[c].value
             /\ req'[c].code = req[c].code
  BY <1>1, <1>6 DEF Request
<1>7. CASE \E to \in Steps : Goto(c, to)
  BY <1>1, <1>2, <1>3, <1>4, <1>7 DEF BaseInv, AccountsSound
<1>8. CASE \E to, u : req' = [req EXCEPT ![c].step = to, ![c].user = u]
  BY <1>1, <1>2, <1>3, <1>5, <1>8 DEF BaseInv, AccountsSound
<1>9. CASE \E to, seen : req' = [req EXCEPT ![c].step = to, ![c].seen = seen]
  BY <1>1, <1>2, <1>3, <1>6, <1>9 DEF BaseInv, AccountsSound
<1>10. CASE Look(c)
  <2>1. \/ Goto(c, "idle")
        \/ \E todo, seen : req' = [req EXCEPT ![c].todo = todo, ![c].seen = seen]
        \/ req' = [req EXCEPT ![c].todo = {}, ![c].step = "create"]
    BY <1>10 DEF Look
  <2>2. \/ Goto(c, "idle")
        \/ /\ req'[c].op = req[c].op /\ req'[c].nr = req[c].nr
           /\ req'[c].mail = req[c].mail /\ req'[c].name = req[c].name
           /\ req'[c].claim = req[c].claim /\ req'[c].value = req[c].value
           /\ req'[c].code = req[c].code
    <3>1. ASSUME NEW todo, NEW seen, req' = [req EXCEPT ![c].todo = todo, ![c].seen = seen]
          PROVE  /\ req'[c].op = req[c].op /\ req'[c].nr = req[c].nr
                 /\ req'[c].mail = req[c].mail /\ req'[c].name = req[c].name
                 /\ req'[c].claim = req[c].claim /\ req'[c].value = req[c].value
                 /\ req'[c].code = req[c].code
      BY <1>1, <3>1 DEF Request
    <3>2. ASSUME req' = [req EXCEPT ![c].todo = {}, ![c].step = "create"]
          PROVE  /\ req'[c].op = req[c].op /\ req'[c].nr = req[c].nr
                 /\ req'[c].mail = req[c].mail /\ req'[c].name = req[c].name
                 /\ req'[c].claim = req[c].claim /\ req'[c].value = req[c].value
                 /\ req'[c].code = req[c].code
      BY <1>1, <3>2 DEF Request
    <3> QED
      BY <2>1, <3>1, <3>2
  <2>3. "idle" \in Steps
    BY DEF Steps
  <2> QED
    BY <1>1, <1>2, <1>3, <1>7, <2>2, <2>3 DEF BaseInv, AccountsSound
<1>11. CASE CommitCreate(c)
  <2>1. req'[c] = Idle \/ req'[c] = [req[c] EXCEPT !.step = "token", !.user = New(c)]
    BY <1>11, BaseCreate
  <2> QED
    BY <1>1, <1>2, <1>3, <2>1 DEF BaseInv, AccountsSound, Request
<1>12. CASE ByGoogle(c) \/ ByMail(c) \/ Authenticate(c) \/ FindForReset(c)
  <2>1. \/ \E to \in Steps : Goto(c, to)
        \/ \E to, u : req' = [req EXCEPT ![c].step = to, ![c].user = u]
    BY <1>12 DEF ByGoogle, ByMail, Authenticate, FindForReset, Steps
  <2> QED
    BY <1>7, <1>8, <2>1
<1>13. CASE ReadStatus(c) \/ UpdateClaim(c)
  <2>1. \/ \E to \in Steps : Goto(c, to)
        \/ \E to, seen : req' = [req EXCEPT ![c].step = to, ![c].seen = seen]
    BY <1>13 DEF ReadStatus, UpdateClaim, Steps
  <2> QED
    BY <1>7, <1>9, <2>1
<1>14. CASE \/ Link(c) \/ Create(c) \/ CreateCart(c) \/ SaveToken(c) \/ RoleName(c) \/ FindToken(c)
            \/ Refresh(c) \/ SaveOtp(c) \/ Enqueue(c) \/ FindOtp(c) \/ DeleteOtp(c)
  <2>1. \E to \in {"idle", "token", "cart", "commit", "roleName", "findUser", "enqueue", "delete"} :
          Goto(c, to)
    BY <1>14 DEF Link, Create, CreateCart, SaveToken, RoleName, FindToken, Refresh, SaveOtp,
                 Enqueue, FindOtp, DeleteOtp
  <2> QED
    BY <1>7, <2>1 DEF Steps
<1>15. CASE \/ FindPassword(c) \/ WritePassword(c) \/ WriteStatus(c) \/ CheckProfile(c)
            \/ WriteRole(c) \/ UpdateRole(c) \/ CheckArtist(c) \/ CreateArtist(c)
            \/ CommitDecision(c) \/ Fail(c)
  <2>1. \E to \in {"idle", "write", "profile", "commit", "artist"} : Goto(c, to)
    BY <1>15 DEF FindPassword, WritePassword, WriteStatus, CheckProfile, WriteRole, UpdateRole,
                 CheckArtist, CreateArtist, CommitDecision, Fail, Abort
  <2> QED
    BY <1>7, <2>1 DEF Steps
<1> QED
  BY <1>10, <1>11, <1>12, <1>13, <1>14, <1>15 DEF Moves

-----------------------------------------------------------------------------
(* One account per address and name                                        *)

\* The account of the request is not there yet; it is in a transaction; its name
\* has been looked for and not been found
Unborn(c)   == req[c].op \in Creates /\ req[c].step \notin {"token", "link"}
Making(c)   == req[c].op \in Creates /\ req[c].step \in {"cart", "commit"}
Searched(c) == req[c].op = "register" /\ "name" \notin req[c].todo /\ ~req[c].seen

\* Numbers of accounts were used before
IdFresh(c) == \A n \in Nat : <<c, n>> \in DOMAIN users =>
                  n > left[c] /\ (Unborn(c) => n # req[c].nr)

\* The index keeps the address for who has inserted it
MailFree(c) == Making(c) =>
    /\ \A u \in DOMAIN users : users[u].mail # req[c].mail
    /\ \A d \in Clients \ {c} : Making(d) => req[d].mail # req[c].mail

\* Who has taken the name since a request looked for it is a known twin
NameFree(c) == Searched(c) /\ req[c].name \notin twins =>
    \A u \in DOMAIN users : Live(u) => users[u].name # req[c].name

Looked(c) == req[c].op = "register" /\ req[c].step \in {"create", "cart", "commit"} => Searched(c)

WholeInv ==
    /\ BaseInv
    /\ AccountsWhole
    /\ \A c \in Clients : IdFresh(c) /\ MailFree(c) /\ NameFree(c) /\ Looked(c)

\* No account is created, and none gets another address or name or comes to life
Similar ==
    /\ DOMAIN users' = DOMAIN users
    /\ \A u \in DOMAIN users : /\ users'[u].mail = users[u].mail
                               /\ users'[u].name = users[u].name
                               /\ users[u].deleted => users'[u].deleted
    /\ carts' = carts /\ twins' = twins
    /\ \A t \in tokens' : t \in tokens \/ t.user \in DOMAIN users

LEMMA WholeQuiet ==
    ASSUME WholeInv, BaseInv', Similar,
           \A c \in Clients : /\ IdFresh(c)' /\ NameFree(c)' /\ Looked(c)'
                              /\ Making(c)' => Making(c) /\ req'[c].mail = req[c].mail
    PROVE  WholeInv'
<1>1. \A u \in DOMAIN users' : Live(u)' => Live(u)
  BY DEF Similar, Live, BaseInv, TypeOK, User
<1>2. AccountsWhole'
  BY <1>1 DEF WholeInv, AccountsWhole, Similar
<1>3. ASSUME NEW c \in Clients PROVE MailFree(c)'
  <2>1. MailFree(c)
    BY DEF WholeInv
  <2> QED
    BY <2>1 DEF MailFree, Similar
<1> QED
  BY <1>2, <1>3 DEF WholeInv

\* A request that does not move, and one that is not about a new account
LEMMA WholeOther ==
    ASSUME WholeInv, BaseInv, Similar, NEW c \in Clients, left'[c] <= left[c], left'[c] \in Nat,
           left[c] \in Nat,
           req'[c] = req[c] \/ (~Unborn(c)' /\ req'[c].op # "register")
    PROVE  /\ IdFresh(c)' /\ NameFree(c)' /\ Looked(c)'
           /\ Making(c)' => Making(c) /\ req'[c].mail = req[c].mail
<1>1. IdFresh(c) /\ NameFree(c) /\ Looked(c)
  BY DEF WholeInv
<1>2. \A u \in DOMAIN users' : Live(u)' => Live(u)
  BY DEF Similar, Live, BaseInv, TypeOK, User
<1>3. ASSUME NEW n \in Nat, <<c, n>> \in DOMAIN users' PROVE n > left'[c]
  <2>1. n > left[c]
    BY <1>1, <1>3 DEF IdFresh, Similar
  <2> QED
    BY <2>1
<1>4. CASE req'[c] = req[c]
  <2>1. IdFresh(c)'
    BY <1>1, <1>3, <1>4 DEF IdFresh, Unborn, Similar
  <2>2. NameFree(c)' /\ Looked(c)'
    BY <1>1, <1>2, <1>4 DEF NameFree, Searched, Looked, Similar
  <2> QED
    BY <1>4, <2>1, <2>2 DEF Making
<1>5. CASE ~Unborn(c)' /\ req'[c].op # "register"
  BY <1>3, <1>5 DEF IdFresh, NameFree, Looked, Searched, Making, Unborn
<1> QED
  BY <1>4, <1>5

\* Requests that are not about a new account, and calls
LEMMA WholeElse ==
    ASSUME WholeInv, BaseInv', Similar, left' \in [Clients -> Nat], left \in [Clients -> Nat],
           \A c \in Clients : /\ left'[c] <= left[c]
                              /\ req'[c] = req[c] \/ (~Unborn(c)' /\ req'[c].op # "register")
    PROVE  WholeInv'
<1>1. BaseInv
  BY DEF WholeInv
<1>2. ASSUME NEW c \in Clients
      PROVE  /\ IdFresh(c)' /\ NameFree(c)' /\ Looked(c)'
             /\ Making(c)' => Making(c) /\ req'[c].mail = req[c].mail
  BY <1>1, <1>2, WholeOther
<1> QED
  BY <1>2, WholeQuiet

\* A request for a new account that moves on
LEMMA WholeMoves ==
    ASSUME WholeInv, BaseInv', Similar, left' = left, NEW c \in Clients,
           \A d \in Clients : d # c => req'[d] = req[d],
           req'[c].nr = req[c].nr \/ ~Unborn(c)', Unborn(c)' => Unborn(c),
           NameFree(c)', Looked(c)',
           Making(c)' => Making(c) /\ req'[c].mail = req[c].mail
    PROVE  WholeInv'
<1>1. BaseInv /\ left \in [Clients -> Nat]
  BY DEF WholeInv, BaseInv, TypeOK
<1>2. ASSUME NEW d \in Clients, d # c
      PROVE  /\ IdFresh(d)' /\ NameFree(d)' /\ Looked(d)'
             /\ Making(d)' => Making(d) /\ req'[d].mail = req[d].mail
  <2>1. left'[d] <= left[d] /\ left'[d] \in Nat /\ left[d] \in Nat /\ req'[d] = req[d]
    BY <1>1, <1>2
  <2> QED
    BY <1>1, <2>1, WholeOther
<1>3. IdFresh(c)'
  BY DEF WholeInv, IdFresh, Similar
<1> QED
  BY <1>2, <1>3, WholeQuiet

\* Requests of other kinds, and calls
LEMMA WholeApart ==
    ASSUME WholeInv, BaseInv',
           \/ \E c \in Clients : Remove(c) \/ Submit(c) \/ Logout(c)
           \/ \E o \in outbox : SendEmail(o)
           \/ Expire \/ UNCHANGED vars
           \/ \E c \in Clients : Moves(c) /\ req[c].op \notin Creates
    PROVE  WholeInv'
<1> USE DEF people, approval, codes, history
<1>1. BaseInv /\ users \in [DOMAIN users -> User] /\ left \in [Clients -> Nat]
      /\ left' \in [Clients -> Nat] /\ req \in [Clients -> Request]
  BY DEF WholeInv, BaseInv, TypeOK
<1>2. CASE \/ \E c \in Clients : Submit(c) \/ Logout(c)
           \/ \E o \in outbox : SendEmail(o)
           \/ Expire \/ UNCHANGED vars
  <2>1. Similar
    BY <1>2 DEF Submit, Logout, SendEmail, Expire, vars, Similar
  <2>2. req' = req
    BY <1>2 DEF Submit, Logout, SendEmail, Expire, vars
  <2>3. \A c \in Clients : left'[c] <= left[c]
    <3>1. left' = left \/ \E c \in Clients : left' = [left EXCEPT ![c] = @ - 1]
      BY <1>2 DEF Submit, Logout, SendEmail, Expire, vars
    <3> QED
      BY <1>1, <3>1
  <2> QED
    BY <1>1, <2>1, <2>2, <2>3, WholeElse
<1>3. ASSUME NEW c \in Clients, Remove(c) PROVE WholeInv'
  <2>1. PICK u \in DOMAIN users : Update(u, [users[u] EXCEPT !.deleted = TRUE])
    BY <1>3 DEF Remove
  <2>2. users[u] \in User /\ [users[u] EXCEPT !.deleted = TRUE] \in User
    <3>1. users[u] \in User
      BY <1>1
    <3> QED
      BY <3>1 DEF User
  <2>3. /\ DOMAIN users' = DOMAIN users /\ users'[u] = [users[u] EXCEPT !.deleted = TRUE]
        /\ \A v \in DOMAIN users : v # u => users'[v] = users[v]
    BY <1>1, <2>1, <2>2, UpdateType DEF BaseInv
  <2>4. UNCHANGED <<carts, twins, tokens, req>> /\ left' = [left EXCEPT ![c] = @ - 1]
    BY <1>3 DEF Remove
  <2>5. Similar
    BY <2>2, <2>3, <2>4 DEF Similar, User
  <2> QED
    BY <1>1, <2>4, <2>5, WholeElse
<1>4. ASSUME NEW c \in Clients, Moves(c), req[c].op \notin Creates PROVE WholeInv'
  <2>1. /\ left' = left /\ \A d \in Clients : d # c => req'[d] = req[d]
        /\ req'[c] = Idle \/ req'[c].op = req[c].op
        /\ Sound(c) /\ req[c].step \in StepsOf(req[c].op) /\ Carries(c) /\ req[c] \in Request
    BY <1>1, <1>4, Kept DEF Sound
  <2>2. ~Unborn(c)' /\ req'[c].op # "register"
    BY <1>4, <2>1 DEF Unborn, Idle, Creates
  <2>3. ~Look(c) /\ ~ByGoogle(c) /\ ~ByMail(c) /\ ~Create(c) /\ ~CreateCart(c) /\ ~CommitCreate(c)
    BY <1>4, <2>1 DEF Look, ByGoogle, ByMail, Create, CreateCart, CommitCreate, At, StepsOf,
                      Request, Ops, Creates
  <2>4. Similar
    <3>1. CASE Link(c) \/ WritePassword(c) \/ WriteStatus(c) \/ WriteRole(c)
      <4>1. UNCHANGED <<carts, twins, tokens>>
        BY <3>1 DEF Link, WritePassword, WriteStatus, WriteRole
      <4> QED
        BY <1>1, <3>1, <4>1, BaseUpdates DEF Similar
    <3>2. CASE CommitDecision(c)
      <4>1. UNCHANGED <<carts, twins, tokens>>
            /\ users' \in {users, [users EXCEPT ![Subject(c)].role = "ARTIST"]}
        BY <3>2 DEF CommitDecision
      <4>2. \A u \in DOMAIN users : users[u] \in User
        BY <1>1
      <4> QED
        BY <1>1, <4>1, <4>2 DEF Similar, User
    <3>3. CASE SaveToken(c)
      <4>1. UNCHANGED <<users, carts, twins>> /\ tokens' = tokens \cup {Hash(Token(c))}
            /\ At(c, "token")
        BY <3>3 DEF SaveToken
      <4>2. Hash(Token(c)).user = req[c].user
        BY DEF Hash, Token
      <4>3. req[c].user \in DOMAIN users
        BY <2>1, <4>1 DEF Carries, NeedsUser, At
      <4> QED
        BY <4>1, <4>2, <4>3 DEF Similar
    <3>4. CASE ~(\/ Link(c) \/ WritePassword(c) \/ WriteStatus(c) \/ WriteRole(c)
                 \/ CommitDecision(c) \/ SaveToken(c))
      BY <1>4, <2>3, <3>4 DEF Similar, Moves, Authenticate, RoleName, FindToken, Refresh, SaveOtp,
         Enqueue, FindOtp, DeleteOtp, FindForReset, FindPassword, ReadStatus, CheckProfile,
         UpdateClaim, UpdateRole, CheckArtist, CreateArtist, Fail
    <3> QED
      BY <3>1, <3>2, <3>3, <3>4
  <2> QED
    BY <1>1, <2>1, <2>2, <2>4, WholeElse
<1> QED
  BY <1>2, <1>3, <1>4

\* A request for a new account is sent, looks, and inserts
LEMMA WholeMaking ==
    ASSUME WholeInv, BaseInv', NEW c \in Clients, Moves(c), req[c].op \in Creates,
           ~CommitCreate(c)
    PROVE  WholeInv'
<1> USE DEF people, approval, codes, history
<1>1. BaseInv /\ users \in [DOMAIN users -> User] /\ left \in [Clients -> Nat]
      /\ req \in [Clients -> Request] /\ NameFree(c) /\ Looked(c)
  BY DEF WholeInv, BaseInv, TypeOK
<1>2. /\ left' = left /\ \A d \in Clients : d # c => req'[d] = req[d]
      /\ \/ req'[c] = Idle
         \/ /\ req'[c].op = req[c].op /\ req'[c].nr = req[c].nr
            /\ req'[c].mail = req[c].mail /\ req'[c].name = req[c].name
      /\ Sound(c) /\ req[c].step \in StepsOf(req[c].op) /\ Carries(c) /\ req[c] \in Request
  BY <1>1, Kept DEF Sound
<1>3. \/ Look(c) \/ ByGoogle(c) \/ ByMail(c) \/ Link(c) \/ Create(c) \/ CreateCart(c)
      \/ SaveToken(c) \/ Fail(c)
  BY <1>2 DEF Moves, Authenticate, RoleName, FindToken, Refresh, SaveOtp, Enqueue, FindOtp,
              DeleteOtp, FindForReset, FindPassword, WritePassword, ReadStatus, WriteStatus,
              CheckProfile, WriteRole, UpdateClaim, UpdateRole, CheckArtist, CreateArtist,
              CommitDecision, At, StepsOf, Creates
<1>4. Idle.op = "logout"
  BY DEF Idle
<1>5. ASSUME Similar, req'[c] = Idle \/ (~Unborn(c)' /\ req'[c].op # "register")
      PROVE  WholeInv'
  <2>1. ~Unborn(c)' /\ req'[c].op # "register"
    BY <1>4, <1>5 DEF Unborn, Creates
  <2> QED
    BY <1>1, <1>2, <1>5, <2>1, WholeElse
<1>6. CASE Fail(c) \/ SaveToken(c) \/ Link(c)
  <2>1. Similar
    <3>1. CASE Fail(c)
      BY <3>1 DEF Fail, Similar
    <3>2. CASE SaveToken(c)
      <4>1. Hash(Token(c)).user = req[c].user
        BY DEF Hash, Token
      <4>2. req[c].user \in DOMAIN users
        BY <1>2, <3>2 DEF SaveToken, Carries, NeedsUser, At
      <4> QED
        BY <3>2, <4>1, <4>2 DEF Similar, SaveToken
    <3>3. CASE Link(c)
      <4>1. UNCHANGED <<carts, twins, tokens>>
        BY <3>3 DEF Link
      <4> QED
        BY <1>1, <3>3, <4>1, BaseUpdates DEF Similar
    <3> QED
      BY <1>6, <3>1, <3>2, <3>3
  <2>2. CASE Fail(c) \/ SaveToken(c)
    <3>1. Goto(c, "idle")
      BY <2>2 DEF Fail, SaveToken, Abort, Creates
    <3>2. "idle" \in Steps
      BY DEF Steps
    <3>3. req'[c] = Idle
      BY <1>1, <3>1, <3>2, GotoFrame
    <3> QED
      BY <1>5, <2>1, <3>3
  <2>3. CASE Link(c)
    <3>1. req'[c].step = "token" /\ req[c].op = "google"
      <4>1. Goto(c, "token") /\ req[c].step = "link"
        BY <2>3 DEF Link, At
      <4> QED
        BY <1>1, <1>2, <4>1, GotoFrame DEF Steps, StepsOf, Creates
    <3> QED
      BY <1>2, <1>4, <1>5, <2>1, <3>1 DEF Unborn
  <2> QED
    BY <1>6, <2>2, <2>3
<1>7. CASE ByGoogle(c) \/ ByMail(c)
  <2>1. Similar
    BY <1>7 DEF ByGoogle, ByMail, Similar
  <2>2. req[c].op = "google" /\ Unborn(c)
    BY <1>2, <1>7 DEF ByGoogle, ByMail, At, StepsOf, Creates, Unborn
  <2>3. req'[c].step \in {"token", "link", "byMail", "create"}
    <3>1. Goto(c, "byMail") \/ Goto(c, "create")
          \/ \E to \in {"token", "link"} : \E u : req' = [req EXCEPT ![c].step = to, ![c].user = u]
      BY <1>7 DEF ByGoogle, ByMail
    <3>2. ASSUME NEW to \in {"token", "link"}, NEW u, req' = [req EXCEPT ![c].step = to, ![c].user = u]
          PROVE  req'[c].step = to
      BY <1>1, <3>2 DEF Request
    <3> QED
      BY <1>1, <3>1, <3>2, GotoFrame DEF Steps
  <2>4. req'[c].op # "register"
    BY <1>2, <1>4, <2>2
  <2>5. NameFree(c)' /\ Looked(c)' /\ ~Making(c)'
    BY <2>3, <2>4 DEF NameFree, Searched, Looked, Making
  <2>6. req'[c].nr = req[c].nr \/ ~Unborn(c)'
    BY <1>2, <1>4 DEF Unborn, Creates
  <2>7. /\ Unborn(c)' => Unborn(c)
        /\ Making(c)' => Making(c) /\ req'[c].mail = req[c].mail
    BY <2>2, <2>5
  <2> HIDE DEF people, approval, codes, history
  <2> QED
    BY <1>2, <2>1, <2>5, <2>6, <2>7, WholeMoves
<1>8. CASE CreateCart(c)
  <2>1. Similar /\ Goto(c, "commit") /\ At(c, "cart")
    BY <1>8 DEF CreateCart, Similar
  <2>2. req'[c] = [req[c] EXCEPT !.step = "commit"]
    BY <1>1, <2>1, GotoFrame DEF Steps
  <2>3. /\ req'[c].op = req[c].op /\ req'[c].nr = req[c].nr /\ req'[c].mail = req[c].mail
        /\ req'[c].name = req[c].name /\ req'[c].todo = req[c].todo /\ req'[c].seen = req[c].seen
        /\ req'[c].step = "commit"
    BY <1>2, <2>2 DEF Request
  <2>4. Unborn(c) /\ Making(c)
    BY <2>1 DEF Unborn, Making, At
  <2>5. NameFree(c)' /\ Looked(c)'
    <3>1. twins' = twins /\ \A u \in DOMAIN users' : Live(u)' => Live(u)
      BY <1>8 DEF CreateCart, Live
    <3> QED
      BY <1>1, <2>1, <2>3, <3>1 DEF NameFree, Searched, Looked, At, Similar
  <2> QED
    BY <1>2, <2>1, <2>3, <2>4, <2>5, WholeMoves
<1>9. CASE Look(c)
  <2>1. req[c].op = "register" /\ req[c].step = "look" /\ Unborn(c)
    BY <1>2, <1>9 DEF Look, At, StepsOf, Creates, Unborn
  <2>2. PICK f \in req[c].todo :
          LET seen == req[c].seen \/ Exists(c, f)
              todo == req[c].todo \ {f}
          IN IF todo # {} THEN req' = [req EXCEPT ![c].todo = todo, ![c].seen = seen]
             ELSE IF seen THEN Goto(c, "idle")
             ELSE req' = [req EXCEPT ![c].todo = {}, ![c].step = "create"]
    BY <1>9 DEF Look
  <2>3. Similar /\ users' = users /\ twins' = twins
    BY <1>9 DEF Look, Similar
  <2>4. f \in {"mail", "name"} /\ req[c].todo \subseteq {"mail", "name"} /\ req[c].seen \in BOOLEAN
    BY <1>2 DEF Request
  <2>5. CASE Goto(c, "idle")
    BY <1>1, <1>5, <2>3, <2>5, GotoFrame DEF Steps
  <2>6. ASSUME ~Goto(c, "idle")
        PROVE  /\ req'[c].todo = req[c].todo \ {f}
               /\ req'[c].seen = (req[c].seen \/ Exists(c, f))
               /\ IF req[c].todo \ {f} # {} THEN req'[c].step = "look"
                  ELSE req'[c].step = "create" /\ ~req'[c].seen
    <3>1. CASE req[c].todo \ {f} # {}
      <4>1. PICK todo, seen : todo = req[c].todo \ {f} /\ seen = (req[c].seen \/ Exists(c, f))
        OBVIOUS
      <4>2. req' = [req EXCEPT ![c].todo = todo, ![c].seen = seen]
        BY <2>2, <3>1, <4>1
      <4>3. req'[c].todo = todo /\ req'[c].seen = seen /\ req'[c].step = req[c].step
        BY <1>1, <1>2, <4>2 DEF Request
      <4> QED
        BY <2>1, <3>1, <4>1, <4>3
    <3>2. CASE req[c].todo \ {f} = {}
      <4>1. ~(req[c].seen \/ Exists(c, f)) /\ req' = [req EXCEPT ![c].todo = {}, ![c].step = "create"]
        BY <2>2, <2>6, <3>2
      <4>2. req'[c].todo = {} /\ req'[c].step = "create" /\ req'[c].seen = req[c].seen
        BY <1>1, <1>2, <4>1 DEF Request
      <4> QED
        BY <2>4, <3>2, <4>1, <4>2
    <3> QED
      BY <3>1, <3>2
  <2>7. CASE ~Goto(c, "idle")
    <3>1. \/ req'[c].op = req[c].op /\ req'[c].nr = req[c].nr /\ req'[c].name = req[c].name
          \/ req'[c] = Idle
      BY <1>2
    <3>2. Looked(c)' /\ ~Making(c)'
      BY <2>4, <2>6, <2>7, <3>1 DEF Looked, Searched, Making
    <3>3. NameFree(c)'
      <4> SUFFICES ASSUME req'[c].op = "register", "name" \notin req'[c].todo, ~req'[c].seen,
                          req'[c].name \notin twins,
                          NEW u \in DOMAIN users, Live(u)
                   PROVE  users[u].name # req'[c].name
        BY <2>3 DEF NameFree, Searched, Live
      <4>1. req'[c].name = req[c].name
        BY <1>4, <3>1
      <4>2. ~req[c].seen /\ ~Exists(c, f)
        BY <2>6, <2>7
      <4>3. CASE f = "name"
        BY <4>1, <4>2, <4>3 DEF Exists
      <4>4. CASE f # "name"
        <5>1. "name" \notin req[c].todo
          BY <2>6, <2>7, <4>4
        <5> QED
          BY <1>1, <2>1, <4>1, <4>2, <5>1 DEF NameFree, Searched
      <4> QED
        BY <4>3, <4>4
    <3>4. req'[c].nr = req[c].nr \/ ~Unborn(c)'
      BY <1>4, <3>1 DEF Unborn, Creates
    <3>5. /\ Unborn(c)' => Unborn(c)
          /\ Making(c)' => Making(c) /\ req'[c].mail = req[c].mail
      BY <2>1, <3>2
    <3> QED
      BY <1>2, <2>3, <3>2, <3>3, <3>4, <3>5, WholeMoves
  <2> QED
    BY <2>5, <2>7
<1>10. CASE Create(c)
  <2>1. Similar /\ users' = users /\ twins' = twins /\ At(c, "create")
        /\ (Taken(c) => Goto(c, "idle")) /\ (~Taken(c) => Goto(c, "cart"))
    BY <1>10 DEF Create, Similar
  <2>2. CASE Taken(c)
    BY <1>1, <1>5, <2>1, <2>2, GotoFrame DEF Steps
  <2>3. CASE ~Taken(c)
    <3>1. req'[c] = [req[c] EXCEPT !.step = "cart"]
      BY <1>1, <2>1, <2>3, GotoFrame DEF Steps
    <3>2. /\ req'[c].op = req[c].op /\ req'[c].nr = req[c].nr /\ req'[c].mail = req[c].mail
          /\ req'[c].name = req[c].name /\ req'[c].todo = req[c].todo /\ req'[c].seen = req[c].seen
          /\ req'[c].step = "cart"
      BY <1>2, <3>1 DEF Request
    <3>3. NameFree(c)' /\ Looked(c)'
      BY <1>1, <2>1, <3>2 DEF NameFree, Searched, Looked, At, Live
    <3>4. ASSUME NEW d \in Clients
          PROVE  /\ MailFree(d)'
                 /\ IdFresh(d)' /\ NameFree(d)' /\ Looked(d)'
      <4>1. CASE d = c
        <5>1. MailFree(c)'
          <6>1. \A u \in DOMAIN users : users[u].mail # req[c].mail
            BY <2>3 DEF Taken
          <6>2. \A e \in Clients \ {c} : Making(e)' => req'[e].mail # req[c].mail
            BY <1>2, <2>3 DEF Taken, Making
          <6> QED
            BY <2>1, <3>2, <6>1, <6>2 DEF MailFree
        <5>2. IdFresh(c)'
          <6>1. IdFresh(c) /\ Unborn(c)
            BY <2>1 DEF WholeInv, Unborn, At
          <6> QED
            BY <1>2, <2>1, <3>2, <6>1 DEF IdFresh
        <5> QED
          BY <3>3, <4>1, <5>1, <5>2
      <4>2. CASE d # c
        <5>1. req'[d] = req[d] /\ left'[d] = left[d] /\ left[d] \in Nat
          BY <1>1, <1>2, <4>2
        <5>2. IdFresh(d)' /\ NameFree(d)' /\ Looked(d)'
          BY <1>1, <2>1, <5>1, WholeOther
        <5>3. MailFree(d)'
          <6> SUFFICES ASSUME Making(d)
                       PROVE  /\ \A u \in DOMAIN users : users[u].mail # req[d].mail
                              /\ \A e \in Clients \ {d} : Making(e)' => req'[e].mail # req[d].mail
            BY <2>1, <5>1 DEF MailFree, Making
          <6>1. MailFree(d)
            BY DEF WholeInv
          <6>2. req[d].mail # req[c].mail
            BY <2>3, <4>2 DEF Taken, Making
          <6>3. \A e \in Clients \ {c, d} : Making(e)' => req'[e].mail # req[d].mail
            BY <1>2, <6>1 DEF MailFree, Making
          <6> QED
            BY <3>2, <6>1, <6>2, <6>3 DEF MailFree
        <5> QED
          BY <5>2, <5>3
      <4> QED
        BY <4>1, <4>2
    <3>5. AccountsWhole'
      BY <1>10 DEF Create, WholeInv, AccountsWhole, Live
    <3> QED
      BY <3>4, <3>5 DEF WholeInv
  <2> QED
    BY <2>2, <2>3
<1> QED
  BY <1>3, <1>6, <1>7, <1>8, <1>9, <1>10

\* A new request has looked for nothing and uses a number of its own
LEMMA WholeSend ==
    ASSUME WholeInv, BaseInv', NEW c \in Clients, NEW o \in topic \ {"remove", "submit", "logout"},
           NEW arg \in Argument(o), Send(c, o, arg)
    PROVE  WholeInv'
<1> USE DEF people, approval, codes, history
<1>1. BaseInv /\ TypeOK /\ left \in [Clients -> Nat] /\ IdFresh(c)
  BY DEF WholeInv, BaseInv, TypeOK
<1>2. /\ \A d \in Clients : d # c => req'[d] = req[d]
      /\ req'[c].step = FirstStep(o) /\ req'[c].op = o /\ req'[c].nr = left[c]
      /\ FirstStep(o) \in StepsOf(o) /\ o \in Ops
      /\ req'[c].todo = IF o = "register" THEN {"mail", "name"} ELSE {}
      /\ left' = [left EXCEPT ![c] = @ - 1] /\ left[c] \in Nat /\ left[c] > 0
  BY <1>1, SendFields
<1>3. left'[c] = left[c] - 1 /\ left'[c] \in Nat /\ \A d \in Clients : d # c => left'[d] = left[d]
  BY <1>1, <1>2
<1>4. Similar
  BY DEF Send, Similar
<1>5. ASSUME NEW d \in Clients, d # c
      PROVE  /\ IdFresh(d)' /\ NameFree(d)' /\ Looked(d)'
             /\ Making(d)' => Making(d) /\ req'[d].mail = req[d].mail
  <2>1. left'[d] <= left[d] /\ left'[d] \in Nat /\ left[d] \in Nat /\ req'[d] = req[d]
    BY <1>1, <1>2, <1>3, <1>5
  <2> QED
    BY <1>1, <1>4, <2>1, WholeOther
<1>6. IdFresh(c)'
  <2> SUFFICES ASSUME NEW n \in Nat, <<c, n>> \in DOMAIN users
               PROVE  n > left'[c] /\ n # req'[c].nr
    BY <1>4 DEF IdFresh, Similar
  <2>1. n > left[c]
    BY <1>1 DEF IdFresh
  <2> QED
    BY <1>2, <1>3, <2>1
<1>7. NameFree(c)' /\ Looked(c)' /\ ~Making(c)'
  <2>1. o = "register" => FirstStep(o) = "look"
    BY DEF FirstStep
  <2>2. o \in Creates => FirstStep(o) \notin {"cart", "commit"}
    BY DEF FirstStep, Creates
  <2> QED
    BY <1>2, <2>1, <2>2 DEF NameFree, Searched, Looked, Making
<1> QED
  BY <1>1, <1>4, <1>5, <1>6, <1>7, WholeQuiet

\* An account is created: its address was free, its number unused, and its name
\* free for who has looked for it
LEMMA WholeCreate ==
    ASSUME WholeInv, BaseInv', NEW c \in Clients, CommitCreate(c)
    PROVE  WholeInv'
<1> USE DEF people, approval, codes, history
<1>1. /\ BaseInv /\ AccountsWhole /\ IdFresh(c) /\ MailFree(c) /\ NameFree(c) /\ Looked(c)
      /\ users \in [DOMAIN users -> User] /\ left \in [Clients -> Nat]
      /\ req[c] \in Request
  BY DEF WholeInv, BaseInv, TypeOK
<1>2. /\ \A d \in Clients : d # c => req'[d] = req[d]
      /\ req'[c] = Idle \/ req'[c] = [req[c] EXCEPT !.step = "token", !.user = New(c)]
      /\ New(c) \in Made /\ req[c].op \in Creates /\ req[c].nr > left[c]
      /\ DOMAIN users' = DOMAIN users \cup {New(c)}
  BY <1>1, BaseCreate
<1>3. /\ users' = [u \in DOMAIN users \cup {New(c)} |-> IF u = New(c) THEN NewUser(c) ELSE users[u]]
      /\ carts' = [u \in DOMAIN users' |-> IF u = New(c) THEN 1 ELSE carts[u]]
      /\ twins' = IF req[c].op # "register" \/ Namesakes(c) # {}
                  THEN twins \cup {req[c].name} ELSE twins
      /\ tokens' = tokens /\ left' = left /\ At(c, "commit")
      /\ req' = [req EXCEPT ![c] = IF req[c].op = "google"
                                   THEN [@ EXCEPT !.step = "token", !.user = New(c)] ELSE Idle]
  BY DEF CommitCreate
<1>4. Unborn(c) /\ Making(c)
  BY <1>2, <1>3 DEF Unborn, Making, At
<1>5. New(c) \notin DOMAIN users /\ New(c) = <<c, req[c].nr>> /\ req[c].nr \in Nat
  BY <1>1, <1>4 DEF IdFresh, New, Request
<1>6. /\ users'[New(c)].mail = req[c].mail /\ users'[New(c)].name = req[c].name
      /\ \A u \in DOMAIN users : users'[u] = users[u] /\ carts'[u] = carts[u]
      /\ carts'[New(c)] = 1
  <2>1. NewUser(c).mail = req[c].mail /\ NewUser(c).name = req[c].name
    BY DEF NewUser
  <2> QED
    BY <1>2, <1>3, <1>5, <2>1
<1>7. req'[c].op # "register" /\ ~Unborn(c)' /\ ~Making(c)'
  <2>1. CASE req[c].op = "google"
    <3>1. req'[c] = [req[c] EXCEPT !.step = "token", !.user = New(c)]
      BY <1>1, <1>3, <2>1 DEF BaseInv, TypeOK
    <3>2. req'[c].op = "google" /\ req'[c].step = "token"
      BY <1>1, <2>1, <3>1 DEF Request
    <3> QED
      BY <3>2 DEF Unborn, Making
  <2>2. CASE req[c].op # "google"
    <3>1. req'[c] = Idle
      BY <1>1, <1>3, <2>2 DEF BaseInv, TypeOK
    <3> QED
      BY <3>1 DEF Unborn, Making, Idle, Creates
  <2> QED
    BY <2>1, <2>2
<1>8. ASSUME req[c].name \notin twins'
      PROVE  \A u \in DOMAIN users : Live(u) => users[u].name # req[c].name
  BY <1>1, <1>3, <1>8 DEF Looked, NameFree, At
<1>9. AccountsWhole'
  <2>1. \A u, v \in DOMAIN users' : users'[u].mail = users'[v].mail => u = v
    BY <1>1, <1>2, <1>4, <1>6 DEF AccountsWhole, MailFree
  <2>2. \A u \in DOMAIN users' : carts'[u] = 1
    BY <1>1, <1>2, <1>6 DEF AccountsWhole
  <2>3. \A t \in tokens' : t.user \in DOMAIN users'
    BY <1>1, <1>2, <1>3 DEF AccountsWhole
  <2>4. ASSUME NEW u \in DOMAIN users', NEW v \in DOMAIN users', Live(u)', Live(v)',
               users'[u].name = users'[v].name, users'[u].name \notin twins'
        PROVE  u = v
    <3>1. twins \subseteq twins'
      BY <1>3
    <3>2. \A w \in DOMAIN users : Live(w)' => Live(w)
      BY <1>6 DEF Live
    <3>3. CASE u \in DOMAIN users /\ v \in DOMAIN users
      BY <1>1, <1>6, <2>4, <3>1, <3>2, <3>3 DEF AccountsWhole
    <3>4. CASE u = New(c) \/ v = New(c)
      BY <1>2, <1>6, <1>8, <2>4, <3>2, <3>4
    <3> QED
      BY <1>2, <3>3, <3>4
  <2> QED
    BY <2>1, <2>2, <2>3, <2>4 DEF AccountsWhole
<1>10. ASSUME NEW d \in Clients
       PROVE  IdFresh(d)' /\ MailFree(d)' /\ NameFree(d)' /\ Looked(d)'
  <2>1. CASE d = c
    <3>1. IdFresh(c)'
      BY <1>1, <1>2, <1>3, <1>5, <1>7 DEF IdFresh
    <3> QED
      BY <1>7, <2>1, <3>1 DEF MailFree, NameFree, Searched, Looked
  <2>2. CASE d # c
    <3>1. IdFresh(d) /\ MailFree(d) /\ NameFree(d) /\ Looked(d) /\ req'[d] = req[d]
      BY <1>2, <2>2 DEF WholeInv
    <3>2. IdFresh(d)'
      BY <1>2, <1>3, <1>5, <2>2, <3>1 DEF IdFresh, Unborn
    <3>3. MailFree(d)'
      <4> SUFFICES ASSUME Making(d)
                   PROVE  /\ \A u \in DOMAIN users' : users'[u].mail # req[d].mail
                          /\ \A e \in Clients \ {d} : Making(e)' => req'[e].mail # req[d].mail
        BY <3>1 DEF MailFree, Making
      <4>1. req[d].mail # req[c].mail
        BY <1>1, <1>4, <2>2 DEF MailFree
      <4>2. \A u \in DOMAIN users' : users'[u].mail # req[d].mail
        BY <1>2, <1>6, <3>1, <4>1 DEF MailFree
      <4>3. ASSUME NEW e \in Clients \ {d}, Making(e)' PROVE req'[e].mail # req[d].mail
        <5>1. e # c /\ req'[e] = req[e]
          BY <1>2, <1>7, <4>3
        <5> QED
          BY <3>1, <4>3, <5>1 DEF MailFree, Making
      <4> QED
        BY <4>2, <4>3
    <3>4. NameFree(d)'
      <4> SUFFICES ASSUME Searched(d), req[d].name \notin twins', NEW u \in DOMAIN users', Live(u)'
                   PROVE  users'[u].name # req[d].name
        BY <3>1 DEF NameFree, Searched
      <4>1. CASE u \in DOMAIN users
        BY <1>3, <1>6, <3>1, <4>1 DEF NameFree, Live
      <4>2. CASE u = New(c)
        <5>1. req[d].name = req[c].name => d \in Namesakes(c)
          BY <2>2 DEF Namesakes, Searched, Creates
        <5> QED
          BY <1>3, <1>6, <4>2, <5>1
      <4> QED
        BY <1>2, <4>1, <4>2
    <3>5. Looked(d)'
      BY <3>1 DEF Looked, Searched
    <3> QED
      BY <3>2, <3>3, <3>4, <3>5
  <2> QED
    BY <2>1, <2>2
<1> QED
  BY <1>9, <1>10 DEF WholeInv

LEMMA WholeNext == WholeInv /\ [Next]_vars => WholeInv'
<1> SUFFICES ASSUME WholeInv, [Next]_vars PROVE WholeInv'
  OBVIOUS
<1>1. BaseInv'
  BY BaseNext DEF WholeInv
<1>2. ASSUME NEW c \in Clients, NEW o \in topic \ {"remove", "submit", "logout"},
             NEW arg \in Argument(o), Send(c, o, arg)
      PROVE  WholeInv'
  BY <1>1, <1>2, WholeSend
<1>3. ASSUME NEW c \in Clients, Moves(c) PROVE WholeInv'
  BY <1>1, <1>3, WholeApart, WholeMaking, WholeCreate
<1>4. CASE \/ \E c \in Clients : Remove(c) \/ Submit(c) \/ Logout(c)
           \/ \E o \in outbox : SendEmail(o)
           \/ Expire \/ UNCHANGED vars
  BY <1>1, <1>4, WholeApart
<1> QED
  BY <1>2, <1>3, <1>4 DEF Next, Moves

LEMMA WholeInit == Init => WholeInv
<1> SUFFICES ASSUME Init PROVE WholeInv
  OBVIOUS
<1>1. BaseInv
  BY BaseInit
<1>2. DOMAIN users = Known /\ \A u \in Known : users[u].mail = MailOf[u] /\ users[u].name = NameOf[u]
  BY DEF Init
<1>3. AccountsWhole
  BY <1>2, ConstantsAssumption DEF Init, AccountsWhole
<1>4. ASSUME NEW c \in Clients PROVE IdFresh(c) /\ MailFree(c) /\ NameFree(c) /\ Looked(c)
  <2>1. \A n \in Nat : <<c, n>> \notin Known
    BY ConstantsAssumption DEF Made
  <2>2. req[c].op = "logout"
    BY DEF Init, Idle
  <2> QED
    BY <1>2, <2>1, <2>2 DEF IdFresh, MailFree, NameFree, Looked, Making, Searched, Creates
<1> QED
  BY <1>1, <1>3, <1>4 DEF WholeInv

\* One account to an address, one cart to an account, tokens of accounts that were
\* created, and one live account to a name outside of twins, whatever the order of
\* registrations, additions, Google sign-ins, changes and removals
THEOREM AccountsCorrect == Spec => []AccountsWhole
<1>1. WholeInv => AccountsWhole
  BY DEF WholeInv
<1> QED
  BY <1>1, WholeInit, WholeNext, PTL DEF Spec

-----------------------------------------------------------------------------
(* One profile per artist                                                  *)

\* An approval that has locked its subject; a request that neither approves nor
\* is about to write a role
Locking(c) == /\ req[c].op = "decide" /\ req[c].value = "approved"
              /\ req[c].step \in {"profile", "artist", "commit"}
Apart(c)   == req[c].op \notin {"decide", "setRole"} \/ req[c].step \in {"open", "check"}

\* What an approval found is still so once it holds the lock; before, a change
\* shows in what is stale for its snapshot
Snapped(c) ==
    /\ Locking(c) => req[c].seen = HasProfile(Subject(c))
    /\ req[c].op = "decide" /\ req[c].step = "role" =>
          req[c].seen = HasProfile(Subject(c)) \/ Subject(c) \in stale[c]

\* A profile made since a change of role looked for one is a race
Watched(c) == req[c].op = "setRole" /\ req[c].step = "write" /\ HasProfile(req[c].user) =>
                  req[c].user \in raced

ArtInv ==
    /\ BaseInv
    /\ ArtistsWhole
    /\ Known \subseteq DOMAIN users
    /\ \A a \in artists : a.user \in Known
    /\ \A c \in Clients : Snapped(c) /\ Watched(c)
    /\ \A c, d \in Clients : c # d /\ Locking(c) /\ Locking(d) => Subject(c) # Subject(d)

\* Nothing is approved, and no artist loses the role unless by a race
Alike ==
    /\ artists' = artists /\ raced' = raced
    /\ Known \subseteq DOMAIN users'
    /\ \A v \in Claims : claims'[v] = "approved" => claims[v] = "approved"
    /\ \A u \in Known : users'[u].role = users[u].role \/ u \in raced \/ ~HasProfile(u)

\* Commits only add to what is stale for the others
LEMMA StaleGrows ==
    ASSUME stale \in [Clients -> SUBSET Documents], NEW c \in Clients, Moves(c)
    PROVE  \A d \in Clients : d # c => stale[d] \subseteq stale'[d]
<1>1. ASSUME NEW S, NEW T
      PROVE  \A d \in Clients : /\ stale[d] \subseteq Committed(stale, S, T)[d]
                                /\ d # c => /\ stale[d] \subseteq Forget(stale, c)[d]
                                            /\ stale[d] \subseteq Committed(Forget(stale, c), S, T)[d]
  BY DEF Committed, Forget
<1>2. \/ stale' = stale
      \/ \E S, T : stale' = Committed(stale, S, T) \/ stale' = Committed(Forget(stale, c), S, T)
      \/ stale' = Forget(stale, c)
  BY DEF Moves, Look, ByGoogle, ByMail, Link, Create, CreateCart, CommitCreate, Authenticate,
         SaveToken, RoleName, FindToken, Refresh, SaveOtp, Enqueue, FindOtp, DeleteOtp,
         FindForReset, FindPassword, WritePassword, ReadStatus, WriteStatus, CheckProfile,
         WriteRole, UpdateClaim, UpdateRole, CheckArtist, CreateArtist, CommitDecision, Fail,
         Abort, Update
<1> QED
  BY <1>1, <1>2

LEMMA ArtStays ==
    ASSUME ArtInv, artists' = artists, raced' = raced, NEW d \in Clients, req'[d] = req[d],
           stale[d] \subseteq stale'[d]
    PROVE  /\ Snapped(d)' /\ Watched(d)'
           /\ Locking(d)' <=> Locking(d)
           /\ Subject(d)' = Subject(d)
<1>1. Snapped(d) /\ Watched(d)
  BY DEF ArtInv
<1>2. (Locking(d)' <=> Locking(d)) /\ Subject(d)' = Subject(d)
  BY DEF Locking, Subject
<1>3. Snapped(d)'
  BY <1>1 DEF Snapped, Locking, Subject, HasProfile
<1>4. Watched(d)'
  BY <1>1 DEF Watched, HasProfile
<1> QED
  BY <1>2, <1>3, <1>4

LEMMA ArtWhole == ASSUME ArtInv, Alike PROVE ArtistsWhole'
<1>1. \A a \in artists : users'[a.user].role = "ARTIST" \/ a.user \in raced
  BY DEF ArtInv, ArtistsWhole, Alike, HasProfile
<1>2. \A v \in Claims : claims'[v] = "approved" => HasProfile(ClaimOf[v])
  BY DEF ArtInv, ArtistsWhole, Alike
<1> QED
  BY <1>1, <1>2 DEF ArtInv, ArtistsWhole, Alike, HasProfile

\* One request moves
LEMMA ArtMoves ==
    ASSUME ArtInv, BaseInv', Alike, NEW c \in Clients,
           \A d \in Clients : d # c => req'[d] = req[d] /\ stale[d] \subseteq stale'[d],
           Snapped(c)', Watched(c)',
           Locking(c)' => \A d \in Clients \ {c} : Locking(d) => Subject(d) # Subject(c)'
    PROVE  ArtInv'
<1>1. artists' = artists /\ raced' = raced
  BY DEF Alike
<1>2. \A d \in Clients : d # c => /\ Snapped(d)' /\ Watched(d)'
                                  /\ Locking(d)' <=> Locking(d)
                                  /\ Subject(d)' = Subject(d)
  BY <1>1, ArtStays
<1>3. \A d, e \in Clients : d # e /\ Locking(d)' /\ Locking(e)' => Subject(d)' # Subject(e)'
  BY <1>2 DEF ArtInv
<1> QED
  BY <1>1, <1>2, <1>3, ArtWhole DEF ArtInv, Alike

\* Requests stay where they are, or are of another kind
LEMMA ArtElse ==
    ASSUME ArtInv, BaseInv', Alike,
           \A d \in Clients : (req'[d] = req[d] /\ stale[d] \subseteq stale'[d]) \/ Apart(d)'
    PROVE  ArtInv'
<1>1. artists' = artists /\ raced' = raced
  BY DEF Alike
<1>2. ASSUME NEW d \in Clients
      PROVE  /\ Snapped(d)' /\ Watched(d)'
             /\ Locking(d)' => Locking(d) /\ Subject(d)' = Subject(d)
  <2>1. CASE Apart(d)'
    BY <2>1 DEF Apart, Snapped, Watched, Locking
  <2>2. CASE req'[d] = req[d] /\ stale[d] \subseteq stale'[d]
    BY <1>1, <2>2, ArtStays
  <2> QED
    BY <2>1, <2>2
<1>3. \A d, e \in Clients : d # e /\ Locking(d)' /\ Locking(e)' => Subject(d)' # Subject(e)'
  BY <1>2 DEF ArtInv
<1> QED
  BY <1>1, <1>2, <1>3, ArtWhole DEF ArtInv, Alike

\* Requests of other kinds, and calls
LEMMA ArtApart ==
    ASSUME ArtInv, BaseInv',
           \/ \E c \in Clients, o \in topic \ {"remove", "submit", "logout"} :
                \E arg \in Argument(o) : Send(c, o, arg)
           \/ \E c \in Clients : Remove(c) \/ Submit(c) \/ Logout(c)
           \/ \E o \in outbox : SendEmail(o)
           \/ Expire \/ UNCHANGED vars
           \/ \E c \in Clients : Moves(c) /\ req[c].op \notin {"decide", "setRole"}
    PROVE  ArtInv'
<1> USE DEF people, approval, codes, history
<1>1. /\ BaseInv /\ TypeOK /\ users \in [DOMAIN users -> User] /\ Known \subseteq DOMAIN users
      /\ stale \in [Clients -> SUBSET Documents]
      /\ claims \in [Claims -> Verdicts \cup {"none", "pending"}]
  BY DEF ArtInv, BaseInv, TypeOK, Documents
<1>2. ASSUME NEW c \in Clients, NEW o \in topic \ {"remove", "submit", "logout"},
             NEW arg \in Argument(o), Send(c, o, arg)
      PROVE  ArtInv'
  <2>1. /\ \A d \in Clients : d # c => req'[d] = req[d]
        /\ req'[c].step = FirstStep(o) /\ req'[c].op = o
    BY <1>1, <1>2, SendFields
  <2>2. FirstStep("decide") = "open" /\ FirstStep("setRole") = "check"
    BY DEF FirstStep
  <2>3. Apart(c)'
    BY <2>1, <2>2 DEF Apart
  <2>4. Alike /\ stale' = stale
    BY <1>1, <1>2 DEF Send, Alike
  <2> QED
    BY <2>1, <2>3, <2>4, ArtElse
<1>3. CASE \/ \E c \in Clients : Submit(c) \/ Logout(c)
           \/ \E o \in outbox : SendEmail(o)
           \/ Expire \/ UNCHANGED vars
  <2>1. req' = req /\ stale' = stale
    BY <1>3 DEF Submit, Logout, SendEmail, Expire, vars
  <2>2. Alike
    <3>1. \A v \in Claims : claims'[v] = "approved" => claims[v] = "approved"
      BY <1>1, <1>3 DEF Submit, Logout, SendEmail, Expire, vars
    <3> QED
      BY <1>1, <1>3, <3>1 DEF Submit, Logout, SendEmail, Expire, vars, Alike
  <2> QED
    BY <2>1, <2>2, ArtElse
<1>4. ASSUME NEW c \in Clients, Remove(c) PROVE ArtInv'
  <2>1. PICK u \in DOMAIN users : Update(u, [users[u] EXCEPT !.deleted = TRUE])
    BY <1>4 DEF Remove
  <2>2. users[u] \in User /\ [users[u] EXCEPT !.deleted = TRUE] \in User
    <3>1. users[u] \in User
      BY <1>1
    <3> QED
      BY <3>1 DEF User
  <2>3. /\ DOMAIN users' = DOMAIN users /\ users'[u] = [users[u] EXCEPT !.deleted = TRUE]
        /\ \A v \in DOMAIN users : v # u => users'[v] = users[v]
    BY <1>1, <2>1, <2>2, UpdateType
  <2>4. UNCHANGED <<artists, raced, claims, req>>
    BY <1>4 DEF Remove
  <2>5. Alike
    BY <1>1, <2>2, <2>3, <2>4 DEF Alike, User
  <2>6. \A d \in Clients : stale[d] \subseteq stale'[d]
    BY <1>1, <2>1 DEF Update, Committed
  <2> QED
    BY <2>4, <2>5, <2>6, ArtElse
<1>5. ASSUME NEW c \in Clients, Moves(c), req[c].op \notin {"decide", "setRole"} PROVE ArtInv'
  <2>1. /\ \A d \in Clients : d # c => req'[d] = req[d]
        /\ req'[c] = Idle \/ req'[c].op = req[c].op
        /\ ~At(c, "idle") /\ Sound(c) /\ req[c] \in Request
    BY <1>1, <1>5, Kept
  <2>2. Apart(c)'
    BY <1>5, <2>1 DEF Apart, Idle
  <2>3. \A d \in Clients : d # c => stale[d] \subseteq stale'[d]
    BY <1>1, <1>5, StaleGrows
  <2>4. req[c].step \in StepsOf(req[c].op) /\ req[c].op \in Ops
    BY <2>1 DEF Sound, Request
  <2>5. /\ ~WriteRole(c) /\ ~CheckProfile(c) /\ ~CommitDecision(c)
        /\ ~UpdateClaim(c) /\ ~UpdateRole(c) /\ ~CheckArtist(c) /\ ~CreateArtist(c)
    BY <1>5, <2>4 DEF WriteRole, CheckProfile, CommitDecision, UpdateClaim, UpdateRole,
                      CheckArtist, CreateArtist, At, StepsOf, Ops, Creates
  <2>6. UNCHANGED <<artists, raced, claims>>
    BY <1>5, <2>5 DEF Moves, Look, ByGoogle, ByMail, Link, Create, CreateCart, CommitCreate,
       Authenticate, SaveToken, RoleName, FindToken, Refresh, SaveOtp, Enqueue, FindOtp, DeleteOtp,
       FindForReset, FindPassword, WritePassword, ReadStatus, WriteStatus, Fail
  <2>7. Known \subseteq DOMAIN users' /\ \A u \in Known : users'[u].role = users[u].role
    <3>1. CASE Link(c) \/ WritePassword(c) \/ WriteStatus(c)
      BY <1>1, <2>5, <3>1, BaseUpdates
    <3>2. CASE CommitCreate(c)
      <4>1. New(c) \notin Known
        BY <1>1, <3>2, BaseCreate, ConstantsAssumption
      <4> QED
        BY <1>1, <3>2, <4>1 DEF CommitCreate
    <3>3. CASE ~(Link(c) \/ WritePassword(c) \/ WriteStatus(c) \/ CommitCreate(c))
      <4>1. users' = users
        BY <1>5, <2>5, <3>3 DEF Moves, Look, ByGoogle, ByMail, Create, CreateCart,
           Authenticate, SaveToken, RoleName, FindToken, Refresh, SaveOtp, Enqueue, FindOtp,
           DeleteOtp, FindForReset, FindPassword, ReadStatus, Fail
      <4> QED
        BY <1>1, <4>1
    <3> QED
      BY <3>1, <3>2, <3>3
  <2>8. Alike
    BY <2>6, <2>7 DEF Alike
  <2> QED
    BY <2>1, <2>2, <2>3, <2>8, ArtElse
<1> QED
  BY <1>2, <1>3, <1>4, <1>5

\* An administrator changes a role
LEMMA ArtRole ==
    ASSUME ArtInv, BaseInv', NEW c \in Clients, Moves(c), req[c].op = "setRole"
    PROVE  ArtInv'
<1> USE DEF people, approval, codes, history
<1>1. /\ BaseInv /\ users \in [DOMAIN users -> User] /\ Known \subseteq DOMAIN users
      /\ stale \in [Clients -> SUBSET Documents] /\ req \in [Clients -> Request] /\ Watched(c)
  BY DEF ArtInv, BaseInv, TypeOK, Documents
<1>2. /\ \A d \in Clients : d # c => req'[d] = req[d]
      /\ req'[c] = Idle \/ req'[c].op = req[c].op
      /\ Sound(c) /\ req[c].step \in StepsOf(req[c].op) /\ req[c] \in Request
  BY <1>1, Kept DEF Sound
<1>3. \A d \in Clients : d # c => stale[d] \subseteq stale'[d]
  BY <1>1, StaleGrows
<1>4. CheckProfile(c) \/ WriteRole(c) \/ Fail(c)
  BY <1>2 DEF Moves, Look, ByGoogle, ByMail, Link, Create, CreateCart, CommitCreate,
     Authenticate, SaveToken, RoleName, FindToken, Refresh, SaveOtp, Enqueue, FindOtp, DeleteOtp,
     FindForReset, FindPassword, WritePassword, ReadStatus, WriteStatus, UpdateClaim, UpdateRole,
     CheckArtist, CreateArtist, CommitDecision, At, StepsOf, Creates
<1>5. ASSUME Alike, Goto(c, "idle") PROVE ArtInv'
  <2>1. "idle" \in Steps
    BY DEF Steps
  <2>2. req'[c] = Idle
    BY <1>1, <1>5, <2>1, GotoFrame
  <2>3. Apart(c)'
    BY <2>2 DEF Apart, Idle
  <2> QED
    BY <1>2, <1>3, <1>5, <2>3, ArtElse
<1>6. CASE CheckProfile(c)
  <2>1. Alike
    BY <1>1, <1>6 DEF CheckProfile, Alike
  <2>2. CASE Refused(c)
    BY <1>5, <1>6, <2>1, <2>2 DEF CheckProfile
  <2>3. CASE ~Refused(c)
    <3>1. Goto(c, "write") /\ "write" \in Steps
      BY <1>6, <2>3 DEF CheckProfile, Steps
    <3>2. req'[c] = [req[c] EXCEPT !.step = "write"]
      BY <1>1, <3>1, GotoFrame
    <3>3. req'[c].user = req[c].user /\ req'[c].op = "setRole"
      BY <1>2, <3>2 DEF Request
    <3>4. Snapped(c)' /\ ~Locking(c)'
      BY <3>3 DEF Snapped, Locking
    <3>5. Watched(c)'
      BY <2>1, <2>3, <3>3 DEF Watched, Refused, HasProfile, Alike
    <3> QED
      BY <1>2, <1>3, <2>1, <3>4, <3>5, ArtMoves
  <2> QED
    BY <2>2, <2>3
<1>7. CASE WriteRole(c)
  <2>1. UNCHANGED <<artists, raced, claims>> /\ Goto(c, "idle") /\ At(c, "write")
    BY <1>7 DEF WriteRole
  <2>2. /\ DOMAIN users' = DOMAIN users
        /\ \A v \in DOMAIN users : v # req[c].user => users'[v].role = users[v].role
    BY <1>1, <1>7, BaseUpdates
  <2>3. HasProfile(req[c].user) => req[c].user \in raced
    BY <1>1, <2>1 DEF Watched, At
  <2>4. Alike
    BY <1>1, <2>1, <2>2, <2>3 DEF Alike
  <2> QED
    BY <1>5, <2>1, <2>4
<1>8. CASE Fail(c)
  <2>1. Alike /\ Goto(c, "idle")
    BY <1>1, <1>8 DEF Fail, Abort, Alike
  <2> QED
    BY <1>5, <2>1
<1> QED
  BY <1>4, <1>6, <1>7, <1>8

\* A decision goes on, up to its commit
LEMMA ArtDecide ==
    ASSUME ArtInv, BaseInv', NEW c \in Clients, Moves(c), req[c].op = "decide",
           ~CommitDecision(c)
    PROVE  ArtInv'
<1> USE DEF people, approval, codes, history
<1>1. /\ BaseInv /\ Known \subseteq DOMAIN users /\ Snapped(c)
      /\ stale \in [Clients -> SUBSET Documents] /\ req \in [Clients -> Request]
  BY DEF ArtInv, BaseInv, TypeOK, Documents
<1>2. /\ \A d \in Clients : d # c => req'[d] = req[d]
      /\ req'[c] = Idle \/ (req'[c].op = req[c].op /\ req'[c].claim = req[c].claim
                            /\ req'[c].value = req[c].value)
      /\ Sound(c) /\ req[c].step \in StepsOf(req[c].op) /\ Carries(c) /\ req[c] \in Request
  BY <1>1, Kept DEF Sound
<1>3. \A d \in Clients : d # c => stale[d] \subseteq stale'[d]
  BY <1>1, StaleGrows
<1>4. UpdateClaim(c) \/ UpdateRole(c) \/ CheckArtist(c) \/ CreateArtist(c) \/ Fail(c)
  BY <1>2 DEF Moves, Look, ByGoogle, ByMail, Link, Create, CreateCart, CommitCreate,
     Authenticate, SaveToken, RoleName, FindToken, Refresh, SaveOtp, Enqueue, FindOtp, DeleteOtp,
     FindForReset, FindPassword, WritePassword, ReadStatus, WriteStatus, CheckProfile, WriteRole,
     At, StepsOf, Creates
<1>5. Alike /\ users' = users /\ artists' = artists
  BY <1>1, <1>4 DEF UpdateClaim, UpdateRole, CheckArtist, CreateArtist, Fail, Alike
<1>6. ASSUME Goto(c, "idle") PROVE ArtInv'
  <2>1. "idle" \in Steps
    BY DEF Steps
  <2>2. req'[c] = Idle
    BY <1>1, <1>6, <2>1, GotoFrame
  <2>3. Apart(c)'
    BY <2>2 DEF Apart, Idle
  <2> QED
    BY <1>2, <1>3, <1>5, <2>3, ArtElse
\* A step of an approval that holds its subject
<1>7. ASSUME NEW to \in {"profile", "artist", "commit"}, Goto(c, to), req[c].value = "approved",
             req[c].seen = HasProfile(Subject(c)),
             \A d \in Clients \ {c} : Locking(d) => Subject(d) # Subject(c)
      PROVE  ArtInv'
  <2>1. to \in Steps /\ to # "idle"
    BY DEF Steps
  <2>2. req'[c] = [req[c] EXCEPT !.step = to]
    BY <1>1, <1>7, <2>1, GotoFrame
  <2>3. /\ req'[c].op = "decide" /\ req'[c].claim = req[c].claim /\ req'[c].seen = req[c].seen
        /\ req'[c].step = to
    BY <1>2, <2>2 DEF Request
  <2>4. Subject(c)' = Subject(c)
    BY <2>3 DEF Subject
  <2>5. Snapped(c)'
    BY <1>5, <1>7, <2>3 DEF Snapped, HasProfile, Subject
  <2>6. Watched(c)'
    BY <2>3 DEF Watched
  <2> QED
    BY <1>2, <1>3, <1>5, <1>7, <2>4, <2>5, <2>6, ArtMoves
<1>8. ASSUME Locking(c)
      PROVE  /\ req[c].value = "approved" /\ req[c].seen = HasProfile(Subject(c))
             /\ \A d \in Clients \ {c} : Locking(d) => Subject(d) # Subject(c)
  BY <1>1, <1>8 DEF ArtInv, Locking, Snapped
<1>9. CASE UpdateClaim(c)
  <2>1. CASE req[c].claim \in Held(c)
    BY <1>6, <1>9, <2>1 DEF UpdateClaim
  <2>2. CASE req[c].claim \notin Held(c)
    <3>1. PICK to, seen : /\ to = IF req[c].value = "approved" THEN "role" ELSE "commit"
                          /\ seen = HasProfile(Subject(c))
      OBVIOUS
    <3>2. req' = [req EXCEPT ![c].step = to, ![c].seen = seen]
      BY <1>9, <2>2, <3>1 DEF UpdateClaim
    <3>3. /\ req'[c].op = "decide" /\ req'[c].claim = req[c].claim /\ req'[c].seen = seen
          /\ req'[c].step = to /\ req'[c].value = req[c].value
      BY <1>1, <1>2, <3>2 DEF Request
    <3>4. ~Locking(c)' /\ Watched(c)'
      BY <3>1, <3>3 DEF Locking, Watched
    <3>5. Snapped(c)'
      BY <1>5, <3>1, <3>3, <3>4 DEF Snapped, HasProfile, Subject
    <3> QED
      BY <1>2, <1>3, <1>5, <3>4, <3>5, ArtMoves
  <2> QED
    BY <2>1, <2>2
<1>10. CASE UpdateRole(c)
  <2>1. CASE WriteConflict(stale, c, {Subject(c)}, Held(c))
    BY <1>6, <1>10, <2>1 DEF UpdateRole, Abort
  <2>2. CASE ~WriteConflict(stale, c, {Subject(c)}, Held(c))
    <3>1. Goto(c, "profile") /\ req[c].step = "role" /\ req[c].value = "approved"
      BY <1>2, <1>10, <2>2 DEF UpdateRole, At, Carries
    <3>2. Subject(c) \notin stale[c] /\ Subject(c) \notin Held(c)
      BY <2>2 DEF WriteConflict
    <3>3. req[c].seen = HasProfile(Subject(c))
      BY <1>1, <3>1, <3>2 DEF Snapped
    <3>4. ASSUME NEW d \in Clients \ {c}, Locking(d) PROVE Subject(d) # Subject(c)
      <4>1. d \in Open /\ Subject(d) \in HeldBy(d)
        BY <3>4 DEF Open, Locking, HeldBy, Subject, At
      <4> QED
        BY <3>2, <4>1 DEF Held
    <3> QED
      BY <1>7, <3>1, <3>3, <3>4
  <2> QED
    BY <2>1, <2>2
<1>11. CASE CheckArtist(c)
  <2>1. Locking(c) /\ (Goto(c, "commit") \/ Goto(c, "artist"))
    BY <1>2, <1>11 DEF CheckArtist, Locking, At, Carries
  <2> QED
    BY <1>7, <1>8, <2>1
<1>12. CASE CreateArtist(c)
  <2>1. Locking(c) /\ (Goto(c, "commit") \/ Goto(c, "idle"))
    BY <1>2, <1>12 DEF CreateArtist, Locking, At, Carries, Abort
  <2> QED
    BY <1>6, <1>7, <1>8, <2>1
<1>13. CASE Fail(c)
  BY <1>6, <1>13 DEF Fail, Abort
<1> QED
  BY <1>4, <1>9, <1>10, <1>11, <1>12, <1>13

\* A decision commits: an approval that found no profile is the only one for its
\* subject that holds the lock, and who has not locked him yet will conflict
LEMMA ArtCommit ==
    ASSUME ArtInv, BaseInv', NEW c \in Clients, CommitDecision(c)
    PROVE  ArtInv'
<1> USE DEF people, approval, codes, history
<1> DEFINE u == Subject(c)
<1>1. /\ BaseInv /\ users \in [DOMAIN users -> User] /\ Known \subseteq DOMAIN users
      /\ stale \in [Clients -> SUBSET Documents] /\ req \in [Clients -> Request] /\ Snapped(c)
      /\ claims \in [Claims -> Verdicts \cup {"none", "pending"}]
      /\ ArtistsWhole
  BY DEF ArtInv, BaseInv, TypeOK, Documents
<1>2. /\ \A d \in Clients : d # c => req'[d] = req[d]
      /\ req'[c] = Idle /\ DOMAIN users' = DOMAIN users
      /\ req[c].claim \in Claims /\ u \in Known /\ New(c) \in Made
      /\ req[c].value \in Verdicts
  BY <1>1, BaseDecide
<1>3. \A d \in Clients : d # c => stale[d] \subseteq stale'[d]
  BY <1>1, StaleGrows DEF Moves
<1>4. Apart(c)'
  BY <1>2 DEF Apart, Idle
<1>5. CASE req[c].value # "approved"
  <2>1. claims' = [claims EXCEPT ![req[c].claim] = req[c].value]
        /\ UNCHANGED <<users, artists, raced>>
    BY <1>5 DEF CommitDecision
  <2>2. Alike
    BY <1>1, <1>2, <1>5, <2>1 DEF Alike
  <2> QED
    BY <1>2, <1>3, <1>4, <2>2, ArtElse
<1>6. CASE req[c].value = "approved"
  <2>1. /\ claims' = [claims EXCEPT ![req[c].claim] = "approved"]
        /\ users' = [users EXCEPT ![u].role = "ARTIST"]
        /\ artists' = IF req[c].seen THEN artists ELSE artists \cup {[user |-> u, by |-> New(c)]}
        /\ raced' = IF \E d \in Clients : At(d, "write") /\ req[d].op = "setRole" /\ req[d].user = u
                    THEN raced \cup {u} ELSE raced
        /\ stale' = Committed(Forget(stale, c), Open \ {c}, HeldBy(c))
        /\ req[c].op = "decide" /\ At(c, "commit")
    BY <1>6 DEF CommitDecision
  <2>2. Locking(c) /\ req[c].seen = HasProfile(u)
    BY <1>1, <1>6, <2>1 DEF Locking, Snapped, At
  <2>3. \A d \in Clients \ {c} : Locking(d) => Subject(d) # u
    BY <2>2 DEF ArtInv
  <2> DEFINE own == [user |-> u, by |-> New(c)]
  <2>4. own.user = u
    OBVIOUS
  <2>5. /\ artists \subseteq artists' /\ \A a \in artists' : a.user = u \/ a \in artists
        /\ \E a \in artists' : a.user = u
    BY <2>1, <2>2, <2>4 DEF HasProfile
  <2>6. \A a, b \in artists' : a.user = b.user => a = b
    <3> HIDE DEF u
    <3> QED
      BY <1>1, <2>1, <2>2, <2>4 DEF HasProfile, ArtistsWhole
  <2>7. \A v \in Claims : claims'[v] = "approved" => \E a \in artists' : a.user = ClaimOf[v]
    <3>1. u = ClaimOf[req[c].claim]
      BY DEF Subject
    <3> HIDE DEF u
    <3> QED
      BY <1>1, <1>2, <2>1, <2>5, <3>1 DEF HasProfile, ArtistsWhole
  <2>8. /\ users'[u].role = "ARTIST" /\ raced \subseteq raced'
        /\ \A v \in Known : v # u => users'[v].role = users[v].role
    <3>1. users[u] \in User
      BY <1>1, <1>2
    <3> HIDE DEF u
    <3> QED
      BY <1>1, <1>2, <2>1, <3>1 DEF User
  <2>9. \A a \in artists' : users'[a.user].role = "ARTIST" \/ a.user \in raced'
    <3> HIDE DEF u
    <3> QED
      BY <1>1, <2>5, <2>8 DEF ArtInv, ArtistsWhole
  <2>10. \A a \in artists' : a.user \in Known
    <3> HIDE DEF u
    <3> QED
      BY <1>2, <2>5 DEF ArtInv
  <2>11. ASSUME NEW v, v # u
         PROVE  (\E a \in artists' : a.user = v) <=> HasProfile(v)
    <3> HIDE DEF u
    <3> QED
      BY <2>5, <2>11 DEF HasProfile
  <2>12. ASSUME NEW d \in Clients, d # c
         PROVE  /\ Snapped(d)' /\ Watched(d)'
                /\ Locking(d)' <=> Locking(d)
                /\ Subject(d)' = Subject(d)
    <3>1. req'[d] = req[d] /\ Snapped(d) /\ Watched(d)
      BY <1>2, <2>12 DEF ArtInv
    <3>2. (Locking(d)' <=> Locking(d)) /\ Subject(d)' = Subject(d)
      BY <3>1 DEF Locking, Subject
    <3>3. ASSUME Locking(d) PROVE req[d].seen = \E a \in artists' : a.user = Subject(d)
      <4>1. Subject(d) # u
        BY <2>3, <2>12, <3>3
      <4>2. (\E a \in artists' : a.user = Subject(d)) <=> HasProfile(Subject(d))
        BY <2>11, <4>1
      <4>3. req[d].seen = HasProfile(Subject(d)) /\ HasProfile(Subject(d)) \in BOOLEAN
        BY <3>1, <3>3 DEF Snapped, HasProfile
      <4> QED
        BY <4>2, <4>3
    <3>4. ASSUME req[d].op = "decide", req[d].step = "role"
          PROVE  \/ req[d].seen = \E a \in artists' : a.user = Subject(d)
                 \/ Subject(d) \in stale'[d]
      <4>1. CASE Subject(d) = u
        <5>1. d \in Open \ {c} /\ u \in HeldBy(c)
          BY <1>6, <2>1, <2>12, <3>4 DEF Open, HeldBy, Subject, At
        <5> HIDE DEF u
        <5>2. u \in stale'[d]
          BY <1>1, <2>1, <5>1 DEF Committed, Forget
        <5> QED
          BY <4>1, <5>2
      <4>2. CASE Subject(d) # u
        <5>1. (\E a \in artists' : a.user = Subject(d)) <=> HasProfile(Subject(d))
          BY <2>11, <4>2
        <5>2. /\ req[d].seen = HasProfile(Subject(d)) \/ Subject(d) \in stale[d]
              /\ HasProfile(Subject(d)) \in BOOLEAN
          BY <3>1, <3>4 DEF Snapped, HasProfile
        <5>3. stale[d] \subseteq stale'[d]
          BY <1>3, <2>12
        <5> QED
          BY <5>1, <5>2, <5>3
      <4> QED
        BY <4>1, <4>2
    <3>5. Snapped(d)'
      BY <3>1, <3>2, <3>3, <3>4 DEF Snapped, HasProfile
    <3>6. ASSUME req[d].op = "setRole", req[d].step = "write", \E a \in artists' : a.user = req[d].user
          PROVE  req[d].user \in raced'
      <4>1. CASE req[d].user = u
        <5> HIDE DEF u
        <5> QED
          BY <2>1, <3>6, <4>1 DEF At
      <4>2. CASE req[d].user # u
        BY <2>8, <2>11, <3>1, <3>6, <4>2 DEF Watched
      <4> QED
        BY <4>1, <4>2
    <3>7. Watched(d)'
      BY <3>1, <3>6 DEF Watched, HasProfile
    <3> QED
      BY <3>2, <3>5, <3>7
  <2>13. Snapped(c)' /\ Watched(c)' /\ ~Locking(c)'
    BY <1>4 DEF Apart, Snapped, Watched, Locking
  <2>14. ArtistsWhole'
    BY <2>6, <2>7, <2>9 DEF ArtistsWhole, HasProfile
  <2>15. \A d, e \in Clients : d # e /\ Locking(d)' /\ Locking(e)' => Subject(d)' # Subject(e)'
    BY <2>12, <2>13 DEF ArtInv
  <2> QED
    BY <1>1, <1>2, <2>10, <2>12, <2>13, <2>14, <2>15 DEF ArtInv
<1> QED
  BY <1>5, <1>6

LEMMA ArtNext == ArtInv /\ [Next]_vars => ArtInv'
<1> SUFFICES ASSUME ArtInv, [Next]_vars PROVE ArtInv'
  OBVIOUS
<1>1. BaseInv'
  BY BaseNext DEF ArtInv
<1>2. ASSUME NEW c \in Clients, Moves(c) PROVE ArtInv'
  BY <1>1, <1>2, ArtApart, ArtRole, ArtDecide, ArtCommit
<1>3. CASE \/ \E c \in Clients, o \in topic \ {"remove", "submit", "logout"} :
                \E arg \in Argument(o) : Send(c, o, arg)
           \/ \E c \in Clients : Remove(c) \/ Submit(c) \/ Logout(c)
           \/ \E o \in outbox : SendEmail(o)
           \/ Expire \/ UNCHANGED vars
  BY <1>1, <1>3, ArtApart
<1> QED
  BY <1>2, <1>3 DEF Next, Moves

LEMMA ArtInit == Init => ArtInv
<1> SUFFICES ASSUME Init PROVE ArtInv
  OBVIOUS
<1>1. BaseInv
  BY BaseInit
<1>2. DOMAIN users = Known /\ artists = {} /\ \A v \in Claims : claims[v] # "approved"
  BY DEF Init
<1>3. \A c \in Clients : req[c].op = "logout"
  BY DEF Init, Idle
<1> QED
  BY <1>1, <1>2, <1>3 DEF ArtInv, ArtistsWhole, Snapped, Watched, Locking

\* However requests of one user are approved at the same time, he has one profile
\* and, but for a race with an administrator, the role ARTIST
THEOREM ArtistsCorrect == Spec => []ArtistsWhole
<1>1. ArtInv => ArtistsWhole
  BY DEF ArtInv
<1> QED
  BY <1>1, ArtInit, ArtNext, PTL DEF Spec

-----------------------------------------------------------------------------
(* One reset token per code                                                *)

\* A code is not one that is still to be made
Fresh(code) == \A c \in Clients, n \in Nat : code = <<c, n>> =>
                   n > left[c] /\ (At(c, "save") => n # req[c].nr)

\* A code that can be used has given no token, and no confirmation under way has
\* found one that has, nor one that another has found, unless it is known as doubled
OtpInv ==
    /\ BaseInv
    /\ OneTokenPerCode
    /\ \A o \in otps \cup outbox \cup mailed \cup DOMAIN issued : Fresh(o.code)
    /\ \A c \in Clients : req[c].op = "confirm" => Fresh(req[c].code)
    /\ otps \cap DOMAIN issued = {}
    /\ \A c \in Clients : At(c, "delete") /\ Confirms(c) \in DOMAIN issued =>
                              Confirms(c) \in doubled
    /\ \A c, d \in Clients : c # d /\ At(c, "delete") /\ At(d, "delete")
                             /\ Confirms(c) = Confirms(d) => Confirms(c) \in doubled

LEMMA FreshKept ==
    ASSUME left \in [Clients -> Nat], left' \in [Clients -> Nat],
           \A c \in Clients : /\ left'[c] <= left[c]
                              /\ At(c, "save")' => \/ At(c, "save") /\ req'[c].nr = req[c].nr
                                                   \/ req'[c].nr = left[c]
    PROVE  \A code : Fresh(code) => Fresh(code)'
<1> SUFFICES ASSUME NEW code, Fresh(code), NEW c \in Clients, NEW n \in Nat, code = <<c, n>>
             PROVE  n > left'[c] /\ (At(c, "save")' => n # req'[c].nr)
  BY DEF Fresh
<1>1. n > left[c] /\ (At(c, "save") => n # req[c].nr)
  BY DEF Fresh
<1>2. left[c] \in Nat /\ left'[c] \in Nat /\ left'[c] <= left[c]
  OBVIOUS
<1> QED
  BY <1>1, <1>2

\* Codes are as they were, but for what has expired or was sent
LEMMA OtpQuiet ==
    ASSUME OtpInv, BaseInv', otps' \subseteq otps,
           outbox' \cup mailed' \subseteq outbox \cup mailed, issued' = issued, doubled' = doubled,
           \A code : Fresh(code) => Fresh(code)',
           \A c \in Clients : /\ req'[c].op = "confirm" => Fresh(req'[c].code)
                              /\ At(c, "delete")' => At(c, "delete") /\ Confirms(c)' = Confirms(c)
    PROVE  OtpInv'
<1>1. OneTokenPerCode'
  BY DEF OtpInv, OneTokenPerCode
<1>2. \A o \in otps' \cup outbox' \cup mailed' \cup DOMAIN issued' : Fresh(o.code)'
  BY DEF OtpInv
<1>3. \A c \in Clients : req'[c].op = "confirm" => Fresh(req[c].code)'
  <2> SUFFICES ASSUME NEW c \in Clients, req'[c].op = "confirm" PROVE Fresh(req[c].code)'
    OBVIOUS
  <2>1. PICK code : code = req'[c].code
    OBVIOUS
  <2>2. Fresh(code)'
    BY <2>1
  <2> QED
    BY <2>1, <2>2 DEF Fresh
<1> QED
  BY <1>1, <1>2, <1>3 DEF OtpInv

\* Steps that are not about codes
LEMMA OtpApart ==
    ASSUME OtpInv, BaseInv',
           \/ \E c \in Clients, o \in topic \ {"remove", "submit", "logout"} :
                \E arg \in Argument(o) : Send(c, o, arg)
           \/ \E c \in Clients : Remove(c) \/ Submit(c) \/ Logout(c)
           \/ \E o \in outbox : SendEmail(o)
           \/ Expire \/ UNCHANGED vars
    PROVE  OtpInv'
<1> USE DEF people, approval, codes, history
<1>1. BaseInv /\ TypeOK /\ left \in [Clients -> Nat] /\ left' \in [Clients -> Nat]
  BY DEF OtpInv, BaseInv, TypeOK
<1>2. ASSUME NEW c \in Clients, NEW o \in topic \ {"remove", "submit", "logout"},
             NEW arg \in Argument(o), Send(c, o, arg)
      PROVE  OtpInv'
  <2>1. /\ \A d \in Clients : d # c => req'[d] = req[d]
        /\ req'[c].step = FirstStep(o) /\ req'[c].op = o /\ req'[c].nr = left[c]
        /\ o \in Ops /\ FirstStep(o) \in StepsOf(o)
        /\ o = "confirm" => req'[c].code \in {otp.code : otp \in mailed}
        /\ left' = [left EXCEPT ![c] = @ - 1] /\ left[c] \in Nat /\ left[c] > 0
    BY <1>1, <1>2, SendFields
  <2>2. \A d \in Clients : left'[d] <= left[d]
    BY <1>1, <2>1
  <2>3. \A code : Fresh(code) => Fresh(code)'
    BY <1>1, <2>1, <2>2, FreshKept DEF At
  <2>4. UNCHANGED <<otps, outbox, mailed, issued, doubled>>
    BY <1>2 DEF Send
  <2>5. o = "confirm" => Fresh(req'[c].code)
    BY <2>1 DEF OtpInv
  <2>6. FirstStep(o) # "delete"
    BY <2>1 DEF FirstStep, StepsOf, Ops, Creates
  <2>7. \A d \in Clients : /\ req'[d].op = "confirm" => Fresh(req'[d].code)
                           /\ At(d, "delete")' => At(d, "delete") /\ Confirms(d)' = Confirms(d)
    BY <2>1, <2>5, <2>6 DEF OtpInv, At, Confirms
  <2> QED
    BY <2>3, <2>4, <2>7, OtpQuiet
<1>3. CASE \/ \E c \in Clients : Remove(c) \/ Submit(c) \/ Logout(c)
           \/ \E o \in outbox : SendEmail(o)
           \/ Expire \/ UNCHANGED vars
  <2>1. req' = req
    BY <1>3 DEF Remove, Submit, Logout, SendEmail, Expire, vars
  <2>2. left' = left \/ \E c \in Clients : left' = [left EXCEPT ![c] = @ - 1]
    BY <1>3 DEF Remove, Submit, Logout, SendEmail, Expire, vars
  <2>3. \A c \in Clients : left'[c] <= left[c]
    BY <1>1, <2>2
  <2>4. \A code : Fresh(code) => Fresh(code)'
    BY <1>1, <2>1, <2>3, FreshKept DEF At
  <2>5. /\ otps' \subseteq otps /\ outbox' \cup mailed' \subseteq outbox \cup mailed
        /\ issued' = issued /\ doubled' = doubled
    BY <1>3 DEF Remove, Submit, Logout, SendEmail, Expire, vars
  <2>6. \A c \in Clients : /\ req'[c].op = "confirm" => Fresh(req'[c].code)
                           /\ At(c, "delete")' => At(c, "delete") /\ Confirms(c)' = Confirms(c)
    BY <2>1 DEF OtpInv, At, Confirms
  <2> QED
    BY <2>4, <2>5, <2>6, OtpQuiet
<1> QED
  BY <1>2, <1>3

\* A request moves on; nothing but Send leads to "save"
LEMMA OtpMoves ==
    ASSUME OtpInv, BaseInv', NEW c \in Clients, Moves(c)
    PROVE  /\ \A d \in Clients : d # c => req'[d] = req[d]
           /\ req'[c] = Idle \/ (/\ req'[c].op = req[c].op /\ req'[c].nr = req[c].nr
                                 /\ req'[c].mail = req[c].mail /\ req'[c].code = req[c].code)
           /\ ~At(c, "save")'
           /\ \A code : Fresh(code) => Fresh(code)'
           /\ \A d \in Clients : req'[d].op = "confirm" => Fresh(req'[d].code)
           /\ Sound(c) /\ Sound(c)' /\ req[c] \in Request /\ left' = left
           /\ ~At(c, "idle") /\ req[c].step \in StepsOf(req[c].op)
           /\ req[c].op = "forgot" => SaveOtp(c) \/ Enqueue(c) \/ Fail(c)
           /\ req[c].op = "confirm" => FindOtp(c) \/ DeleteOtp(c) \/ Fail(c)
           /\ req[c].op \notin {"forgot", "confirm"} =>
                 UNCHANGED <<otps, outbox, mailed, issued, doubled>>
<1> USE DEF people, approval, codes, history
<1>1. BaseInv /\ left \in [Clients -> Nat] /\ req \in [Clients -> Request]
  BY DEF OtpInv, BaseInv, TypeOK
<1>2. /\ \A d \in Clients : d # c => req'[d] = req[d]
      /\ req'[c] = Idle \/ (/\ req'[c].op = req[c].op /\ req'[c].nr = req[c].nr
                            /\ req'[c].mail = req[c].mail /\ req'[c].code = req[c].code)
      /\ Sound(c) /\ Sound(c)' /\ req[c] \in Request /\ left' = left /\ ~At(c, "idle")
  BY <1>1, Kept
<1>3. req[c].step \in StepsOf(req[c].op) /\ req[c].op \in Ops
  BY <1>2 DEF Sound, Request
<1>4. req[c].op = "forgot" => SaveOtp(c) \/ Enqueue(c) \/ Fail(c)
  BY <1>3 DEF Moves, Look, ByGoogle, ByMail, Link, Create, CreateCart, CommitCreate,
     Authenticate, SaveToken, RoleName, FindToken, Refresh, FindOtp, DeleteOtp,
     FindForReset, FindPassword, WritePassword, ReadStatus, WriteStatus, CheckProfile, WriteRole,
     UpdateClaim, UpdateRole, CheckArtist, CreateArtist, CommitDecision, At, StepsOf, Creates
<1>5. req[c].op = "confirm" => FindOtp(c) \/ DeleteOtp(c) \/ Fail(c)
  BY <1>3 DEF Moves, Look, ByGoogle, ByMail, Link, Create, CreateCart, CommitCreate,
     Authenticate, SaveToken, RoleName, FindToken, Refresh, SaveOtp, Enqueue,
     FindForReset, FindPassword, WritePassword, ReadStatus, WriteStatus, CheckProfile, WriteRole,
     UpdateClaim, UpdateRole, CheckArtist, CreateArtist, CommitDecision, At, StepsOf, Creates
<1>6. ASSUME req[c].op \notin {"forgot", "confirm"}
      PROVE  UNCHANGED <<otps, outbox, mailed, issued, doubled>>
  <2>1. ~SaveOtp(c) /\ ~Enqueue(c) /\ ~FindOtp(c) /\ ~DeleteOtp(c)
    BY <1>3, <1>6 DEF SaveOtp, Enqueue, FindOtp, DeleteOtp, At, StepsOf, Ops, Creates
  <2> QED
    BY <2>1 DEF Moves, Look, ByGoogle, ByMail, Link, Create, CreateCart, CommitCreate,
       Authenticate, SaveToken, RoleName, FindToken, Refresh,
       FindForReset, FindPassword, WritePassword, ReadStatus, WriteStatus, CheckProfile, WriteRole,
       UpdateClaim, UpdateRole, CheckArtist, CreateArtist, CommitDecision, Fail
<1>7. ~At(c, "save")'
  <2> SUFFICES ASSUME req'[c].step = "save" PROVE FALSE
    BY DEF At
  <2>1. req'[c] # Idle /\ "save" \in StepsOf(req'[c].op) /\ req'[c].op = req[c].op
    BY <1>2 DEF Sound, At, Idle
  <2>2. req[c].op = "forgot"
    BY <1>3, <2>1 DEF StepsOf, Ops, Creates
  <2>3. Goto(c, "idle") \/ Goto(c, "enqueue")
    BY <1>4, <2>2 DEF SaveOtp, Enqueue, Fail, Abort
  <2>4. "idle" \in Steps /\ "enqueue" \in Steps
    BY DEF Steps
  <2> QED
    BY <1>1, <2>3, <2>4, GotoFrame
<1>8. \A code : Fresh(code) => Fresh(code)'
  <2>1. \A d \in Clients : /\ left'[d] <= left[d]
                           /\ At(d, "save")' => At(d, "save") /\ req'[d].nr = req[d].nr
    BY <1>1, <1>2, <1>7 DEF At
  <2>2. left' \in [Clients -> Nat]
    BY <1>1, <1>2
  <2> QED
    BY <1>1, <2>1, <2>2, FreshKept
<1>9. \A d \in Clients : req'[d].op = "confirm" => Fresh(req'[d].code)
  <2>1. Idle.op # "confirm"
    BY DEF Idle
  <2> QED
    BY <1>2, <2>1 DEF OtpInv
<1> QED
  BY <1>2, <1>3, <1>4, <1>5, <1>6, <1>7, <1>8, <1>9

\* Requests of other kinds, and the making of a code
LEMMA OtpMake ==
    ASSUME OtpInv, BaseInv', NEW c \in Clients, Moves(c), req[c].op # "confirm"
    PROVE  OtpInv'
<1> USE DEF people, approval, codes, history
<1>1. /\ \A d \in Clients : d # c => req'[d] = req[d]
      /\ req'[c] = Idle \/ (/\ req'[c].op = req[c].op /\ req'[c].nr = req[c].nr
                            /\ req'[c].mail = req[c].mail /\ req'[c].code = req[c].code)
      /\ ~At(c, "save")'
      /\ \A code : Fresh(code) => Fresh(code)'
      /\ \A d \in Clients : req'[d].op = "confirm" => Fresh(req'[d].code)
      /\ Sound(c) /\ Sound(c)' /\ req[c] \in Request /\ left' = left
      /\ ~At(c, "idle")
      /\ req[c].op = "forgot" => SaveOtp(c) \/ Enqueue(c) \/ Fail(c)
      /\ req[c].op # "forgot" => UNCHANGED <<otps, outbox, mailed, issued, doubled>>
  BY OtpMoves
<1>2. ~At(c, "delete")'
  <2> SUFFICES ASSUME req'[c].step = "delete" PROVE FALSE
    BY DEF At
  <2>1. req'[c] # Idle /\ "delete" \in StepsOf(req'[c].op) /\ req'[c].op = req[c].op
    BY <1>1 DEF Sound, At, Idle
  <2>2. req[c].op \in Ops
    BY <1>1 DEF Request
  <2> QED
    BY <2>1, <2>2 DEF StepsOf, Ops, Creates
<1>3. \A d \in Clients : At(d, "delete")' => At(d, "delete") /\ Confirms(d)' = Confirms(d)
  BY <1>1, <1>2 DEF At, Confirms
<1>4. CASE UNCHANGED <<otps, outbox, mailed, issued, doubled>>
  BY <1>1, <1>3, <1>4, OtpQuiet
<1>5. PICK new : new = New(c)
  OBVIOUS
<1>6. Fresh(new)'
  <2>1. req[c].nr > left[c]
    BY <1>1 DEF Sound
  <2> SUFFICES ASSUME NEW d \in Clients, NEW n \in Nat, new = <<d, n>>
               PROVE  n > left'[d] /\ ~At(d, "save")'
    BY DEF Fresh
  <2>2. d = c /\ n = req[c].nr
    BY <1>5 DEF New
  <2> QED
    BY <1>1, <2>1, <2>2
<1>7. CASE SaveOtp(c) \/ Enqueue(c)
  <2>1. /\ otps' = otps \/ (otps' = otps \cup {NewOtp(c)} /\ At(c, "save"))
        /\ outbox' = outbox \/ outbox' = outbox \cup {NewOtp(c)}
        /\ mailed' = mailed /\ issued' = issued /\ doubled' = doubled
    BY <1>7 DEF SaveOtp, Enqueue
  <2>2. NewOtp(c).code = New(c)
    BY DEF NewOtp
  <2>3. At(c, "save") => NewOtp(c) \notin DOMAIN issued
    <3>1. Fresh(New(c)) => (At(c, "save") => FALSE)
      BY <1>1 DEF Fresh, New, Request
    <3> QED
      BY <2>2, <3>1 DEF OtpInv
  <2>4. \A o \in otps' \cup outbox' \cup mailed' \cup DOMAIN issued' : Fresh(o.code)'
    <3> SUFFICES ASSUME NEW o \in otps' \cup outbox' \cup mailed' \cup DOMAIN issued'
                 PROVE  Fresh(o.code)'
      OBVIOUS
    <3>1. CASE o \in otps \cup outbox \cup mailed \cup DOMAIN issued
      BY <1>1, <3>1 DEF OtpInv
    <3>2. CASE o = NewOtp(c)
      BY <1>5, <1>6, <2>2, <3>2
    <3> QED
      BY <2>1, <3>1, <3>2
  <2>5. \A d \in Clients : req'[d].op = "confirm" => Fresh(req[d].code)'
    <3> SUFFICES ASSUME NEW d \in Clients, req'[d].op = "confirm" PROVE Fresh(req[d].code)'
      OBVIOUS
    <3>1. PICK code : code = req'[d].code
      OBVIOUS
    <3>2. Fresh(code)'
      BY <1>1, <3>1
    <3> QED
      BY <3>1, <3>2 DEF Fresh
  <2>6. otps' \cap DOMAIN issued' = {} /\ OneTokenPerCode'
    BY <2>1, <2>3 DEF OtpInv, OneTokenPerCode
  <2>7. \A d \in Clients : At(d, "delete")' /\ Confirms(d)' \in DOMAIN issued' =>
                               Confirms(d)' \in doubled'
    BY <1>3, <2>1 DEF OtpInv
  <2>8. \A d, e \in Clients : d # e /\ At(d, "delete")' /\ At(e, "delete")'
                              /\ Confirms(d)' = Confirms(e)' => Confirms(d)' \in doubled'
    BY <1>3, <2>1 DEF OtpInv
  <2> QED
    BY <2>4, <2>5, <2>6, <2>7, <2>8 DEF OtpInv
<1>8. CASE Fail(c)
  BY <1>4, <1>8 DEF Fail
<1> QED
  BY <1>1, <1>4, <1>7, <1>8

\* A code is found, and used up
LEMMA OtpConfirm ==
    ASSUME OtpInv, BaseInv', NEW c \in Clients, Moves(c), req[c].op = "confirm"
    PROVE  OtpInv'
<1> USE DEF people, approval, codes, history
<1>1. /\ \A d \in Clients : d # c => req'[d] = req[d]
      /\ \A code : Fresh(code) => Fresh(code)'
      /\ \A d \in Clients : req'[d].op = "confirm" => Fresh(req'[d].code)
      /\ req[c] \in Request
      /\ FindOtp(c) \/ DeleteOtp(c) \/ Fail(c)
  BY OtpMoves
<1>2. req \in [Clients -> Request] /\ issued \in [DOMAIN issued -> Nat]
      /\ "idle" \in Steps /\ "delete" \in Steps
  BY DEF OtpInv, BaseInv, TypeOK, Steps
<1>3. \A d \in Clients : d # c => /\ At(d, "delete")' <=> At(d, "delete")
                                  /\ Confirms(d)' = Confirms(d)
  BY <1>1 DEF At, Confirms
<1>4. \A d \in Clients : req'[d].op = "confirm" => Fresh(req[d].code)'
  <2> SUFFICES ASSUME NEW d \in Clients, req'[d].op = "confirm" PROVE Fresh(req[d].code)'
    OBVIOUS
  <2>1. PICK code : code = req'[d].code
    OBVIOUS
  <2>2. Fresh(code)'
    BY <1>1, <2>1
  <2> QED
    BY <2>1, <2>2 DEF Fresh
<1>5. ASSUME Goto(c, "idle") PROVE ~At(c, "delete")'
  BY <1>2, <1>5, GotoFrame DEF At
<1>6. ASSUME Goto(c, "idle"), UNCHANGED <<otps, outbox, mailed, issued>>, doubled \subseteq doubled'
      PROVE  OtpInv'
  <2>1. \A o \in otps' \cup outbox' \cup mailed' \cup DOMAIN issued' : Fresh(o.code)'
    BY <1>1, <1>6 DEF OtpInv
  <2>2. OneTokenPerCode' /\ otps' \cap DOMAIN issued' = {}
    BY <1>6 DEF OtpInv, OneTokenPerCode
  <2>3. \A d \in Clients : At(d, "delete")' /\ Confirms(d)' \in DOMAIN issued' =>
                               Confirms(d)' \in doubled'
    BY <1>3, <1>5, <1>6 DEF OtpInv
  <2>4. \A d, e \in Clients : d # e /\ At(d, "delete")' /\ At(e, "delete")'
                              /\ Confirms(d)' = Confirms(e)' => Confirms(d)' \in doubled'
    BY <1>3, <1>5, <1>6 DEF OtpInv
  <2> QED
    BY <1>4, <2>1, <2>2, <2>3, <2>4 DEF OtpInv
<1>7. CASE FindOtp(c)
  <2>1. /\ UNCHANGED <<otps, outbox, mailed, issued>> /\ doubled \subseteq doubled'
        /\ (\E d \in Clients \ {c} : At(d, "delete") /\ Confirms(d) = Confirms(c)) =>
              Confirms(c) \in doubled'
        /\ \/ Goto(c, "idle")
           \/ Goto(c, "delete") /\ Confirms(c) \in otps
    BY <1>7 DEF FindOtp
  <2>2. CASE Goto(c, "delete") /\ Confirms(c) \in otps
    <3>1. req'[c] = [req[c] EXCEPT !.step = "delete"]
      BY <1>2, <2>2, GotoFrame
    <3>2. Confirms(c)' = Confirms(c)
      BY <1>1, <3>1 DEF Confirms, Request
    <3>3. \A o \in otps' \cup outbox' \cup mailed' \cup DOMAIN issued' : Fresh(o.code)'
      BY <1>1, <2>1 DEF OtpInv
    <3>4. OneTokenPerCode' /\ otps' \cap DOMAIN issued' = {}
      BY <2>1 DEF OtpInv, OneTokenPerCode
    <3>5. \A d \in Clients : At(d, "delete")' /\ Confirms(d)' \in DOMAIN issued' =>
                                 Confirms(d)' \in doubled'
      BY <1>3, <2>1, <2>2, <3>2 DEF OtpInv
    <3>6. \A d, e \in Clients : d # e /\ At(d, "delete")' /\ At(e, "delete")'
                                /\ Confirms(d)' = Confirms(e)' => Confirms(d)' \in doubled'
      BY <1>3, <2>1, <3>2 DEF OtpInv
    <3> QED
      BY <1>4, <3>3, <3>4, <3>5, <3>6 DEF OtpInv
  <2> QED
    BY <1>6, <2>1, <2>2
<1>8. CASE DeleteOtp(c)
  <2> DEFINE code == Confirms(c)
  <2>1. /\ otps' = otps \ {code} /\ At(c, "delete")
        /\ issued' = [o \in DOMAIN issued \cup {code} |->
                        (IF o \in DOMAIN issued THEN issued[o] ELSE 0)
                        + (IF o = code THEN 1 ELSE 0)]
        /\ Goto(c, "idle") /\ UNCHANGED <<outbox, mailed, doubled>>
    BY <1>8 DEF DeleteOtp, UsedUp
  <2>2. code.code = req[c].code /\ Fresh(req[c].code)
    BY DEF Confirms, OtpInv
  <2> HIDE DEF code
  <2>3. DOMAIN issued' = DOMAIN issued \cup {code}
    BY <2>1
  <2>4. \A o \in otps' \cup outbox' \cup mailed' \cup DOMAIN issued' : Fresh(o.code)'
    BY <1>1, <2>1, <2>2, <2>3 DEF OtpInv
  <2>5. code \in DOMAIN issued => code \in doubled
    BY <2>1 DEF OtpInv, code
  <2>6. OneTokenPerCode'
    <3> SUFFICES ASSUME NEW o \in DOMAIN issued', o \notin doubled PROVE issued'[o] <= 1
      BY <2>1 DEF OneTokenPerCode
    <3>1. CASE o = code
      BY <2>1, <2>3, <2>5, <3>1
    <3>2. CASE o # code
      <4>1. o \in DOMAIN issued /\ issued[o] \in Nat /\ issued[o] <= 1
        BY <1>2, <2>3, <3>2 DEF OtpInv, OneTokenPerCode
      <4> QED
        BY <2>1, <3>2, <4>1
    <3> QED
      BY <3>1, <3>2
  <2>7. otps' \cap DOMAIN issued' = {}
    BY <2>1, <2>3 DEF OtpInv
  <2>8. \A d \in Clients : At(d, "delete")' /\ Confirms(d)' \in DOMAIN issued' =>
                               Confirms(d)' \in doubled'
    <3> SUFFICES ASSUME NEW d \in Clients, At(d, "delete")', Confirms(d)' \in DOMAIN issued'
                 PROVE  Confirms(d)' \in doubled'
      OBVIOUS
    <3>1. d # c /\ At(d, "delete") /\ Confirms(d)' = Confirms(d)
      BY <1>3, <1>5, <2>1
    <3>2. CASE Confirms(d) = code
      BY <2>1, <3>1, <3>2 DEF OtpInv, code
    <3>3. CASE Confirms(d) # code
      BY <2>1, <2>3, <3>1, <3>3 DEF OtpInv
    <3> QED
      BY <3>2, <3>3
  <2>9. \A d, e \in Clients : d # e /\ At(d, "delete")' /\ At(e, "delete")'
                              /\ Confirms(d)' = Confirms(e)' => Confirms(d)' \in doubled'
    BY <1>3, <1>5, <2>1 DEF OtpInv
  <2> QED
    BY <1>4, <2>4, <2>6, <2>7, <2>8, <2>9 DEF OtpInv
<1>9. CASE Fail(c)
  BY <1>6, <1>9 DEF Fail, Abort
<1> QED
  BY <1>1, <1>7, <1>8, <1>9

LEMMA OtpNext == OtpInv /\ [Next]_vars => OtpInv'
<1> SUFFICES ASSUME OtpInv, [Next]_vars PROVE OtpInv'
  OBVIOUS
<1>1. BaseInv'
  BY BaseNext DEF OtpInv
<1>2. ASSUME NEW c \in Clients, Moves(c) PROVE OtpInv'
  BY <1>1, <1>2, OtpMake, OtpConfirm
<1>3. CASE \/ \E c \in Clients, o \in topic \ {"remove", "submit", "logout"} :
                \E arg \in Argument(o) : Send(c, o, arg)
           \/ \E c \in Clients : Remove(c) \/ Submit(c) \/ Logout(c)
           \/ \E o \in outbox : SendEmail(o)
           \/ Expire \/ UNCHANGED vars
  BY <1>1, <1>3, OtpApart
<1> QED
  BY <1>2, <1>3 DEF Next, Moves

LEMMA OtpInit == Init => OtpInv
<1> SUFFICES ASSUME Init PROVE OtpInv
  OBVIOUS
<1>1. BaseInv
  BY BaseInit
<1>2. /\ \A o \in otps \cup outbox \cup mailed : o.code = None
      /\ DOMAIN issued = {}
  BY DEF Init
<1>3. \A c \in Clients : req[c].op = "logout" /\ req[c].step = "idle"
  BY DEF Init, Idle
<1>4. Fresh(None)
  BY ConstantsAssumption DEF Fresh, Ids, Made
<1> QED
  BY <1>1, <1>2, <1>3, <1>4 DEF OtpInv, OneTokenPerCode, At

\* A code gives one reset token, unless two confirmations found it before either
\* deleted it, however codes are asked for, mailed, tried and expire
THEOREM TokensCorrect == Spec => []OneTokenPerCode
<1>1. OtpInv => OneTokenPerCode
  BY DEF OtpInv
<1> QED
  BY <1>1, OtpInit, OtpNext, PTL DEF Spec

==============================================================================
