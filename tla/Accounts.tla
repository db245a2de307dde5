------------------------------- MODULE Accounts -------------------------------
(***************************************************************************)
(* Accounts and what hangs on them: registration, Google sign-in, sessions *)
(* and one-time codes (AuthService), administration of users (UserService) *)
(* and the approval that makes a user an artist                            *)
(* (ArtistVerificationService).  An account is created with its cart in    *)
(* one transaction, after checks outside of it; only the e-mail address    *)
(* has a unique index.  An approval changes the request, the user's role   *)
(* and the artist profiles in one transaction.                             *)
(***************************************************************************)
EXTENDS Integers, FiniteSets, MongoTx

CONSTANTS
    Known, Mails, Names,    \* accounts of the initial state; addresses, names
    MailOf, NameOf,         \* of those accounts
    Roles, Passwords,
    Claims, ClaimOf,        \* verification requests, and who makes them
    Pending,                \* the requests made already
    Clients, Requests,      \* connections, and how often each asks
    Topics,                 \* what the requests of one behaviour may be
    None,
    Faults                  \* how often an await throws

Creates == {"register", "add", "google"}
Ops     == Creates \cup {"toggle", "setRole", "remove", "submit", "decide", "login",
                         "refresh", "logout", "forgot", "confirm", "reset", "change"}
Verdicts == {"approved", "rejected"}

\* The n-th request of a client, and what it makes: an account, a jti, a code
Made == Clients \X Nat
Ids  == Known \cup Made
Codes == {None} \cup Made

ASSUME ConstantsAssumption ==
    /\ IsFiniteSet(Known) /\ IsFiniteSet(Clients)
    /\ Known \cap Made = {} /\ Claims \cap Ids = {} /\ None \notin Ids
    /\ MailOf \in [Known -> Mails] /\ NameOf \in [Known -> Names]
    /\ \A u, v \in Known : MailOf[u] = MailOf[v] \/ NameOf[u] = NameOf[v] => u = v
    /\ Passwords # {}
    /\ {"USER", "ARTIST"} \subseteq Roles
    /\ ClaimOf \in [Claims -> Known]
    /\ Pending \subseteq Claims
    /\ Topics \subseteq SUBSET Ops
    /\ Requests \in [Clients -> Nat]
    /\ Faults \in Nat

VARIABLES
    users, carts,           \* accounts by id; how many carts each has
    claims, artists,        \* status of the requests; artist profiles by maker
    tokens,                 \* documents of refresh tokens
    otps, outbox, mailed,   \* codes that can be used, jobs, codes in a mailbox
    issued,                 \* the codes reset tokens were given for, with a count
    topic, req, stale, left, faults,
    twins, raced, doubled   \* history: see the properties

people   == <<users, carts>>
approval == <<claims, artists>>
codes    == <<otps, outbox, mailed, issued>>
history  == <<twins, raced, doubled, topic>>
vars == <<users, carts, claims, artists, tokens, otps, outbox, mailed, issued, topic, req,
          stale, left, faults, twins, raced, doubled>>

User == [mail : Mails, name : Names, role : Roles, password : Passwords \cup {None},
         google : BOOLEAN, active : BOOLEAN, deleted : BOOLEAN]
Profile == [user : Ids, by : Made]

\* A refresh token: whose it is and its jti; Google's payload has no jti.  Its
\* document holds the hash of the signed token.
Jwt   == [user : Ids, jti : Made \cup {None}, hashed : BOOLEAN]
Hash(jwt) == [jwt EXCEPT !.hashed = TRUE]
Otp   == [code : Codes, mail : Mails]

Steps == {"idle", "look", "create", "cart", "commit", "byGoogle", "byMail", "link", "token",
          "read", "check", "write", "open", "role", "profile", "artist", "roleName",
          "findUser", "save", "enqueue", "find", "delete"}

\* todo: the reads of a registration under way; seen: what an earlier read found
Request == [step : Steps, op : Ops, nr : Nat, user : Ids \cup {None}, mail : Mails \cup {None},
            name : Names \cup {None}, value : Roles \cup Passwords \cup Verdicts \cup {None},
            claim : Claims \cup {None}, code : Codes, todo : SUBSET {"mail", "name"},
            seen : BOOLEAN]

TypeOK ==
    /\ DOMAIN users \subseteq Ids
    /\ users \in [DOMAIN users -> User]
    /\ carts \in [DOMAIN users -> Nat]
    /\ claims \in [Claims -> Verdicts \cup {"none", "pending"}]
    /\ artists \subseteq Profile
    /\ tokens \subseteq Jwt
    /\ otps \subseteq Otp /\ outbox \subseteq Otp /\ mailed \subseteq Otp
    /\ issued \in [DOMAIN issued -> Nat] /\ DOMAIN issued \subseteq Otp
    /\ topic \in Topics
    /\ req \in [Clients -> Request]
    /\ stale \in [Clients -> SUBSET (Ids \cup Claims)]
    /\ left \in [Clients -> Nat]
    /\ faults \in Nat
    /\ twins \subseteq Names
    /\ raced \subseteq Ids
    /\ doubled \subseteq Otp

Idle == [step |-> "idle", op |-> "logout", nr |-> 0, user |-> None, mail |-> None,
         name |-> None, value |-> None, claim |-> None, code |-> None, todo |-> {},
         seen |-> FALSE]

\* Accounts with a password and a code that is in its owner's mailbox
Init ==
    /\ users = [u \in Known |-> [mail |-> MailOf[u], name |-> NameOf[u], role |-> "USER",
                                 password |-> CHOOSE p \in Passwords : TRUE,
                                 google |-> FALSE, active |-> TRUE, deleted |-> FALSE]]
    /\ carts = [u \in Known |-> 1]
    /\ claims = [v \in Claims |-> IF v \in Pending THEN "pending" ELSE "none"]
    /\ artists = {}
    /\ tokens = {}
    /\ otps = {[code |-> None, mail |-> MailOf[u]] : u \in Known}
    /\ mailed = otps
    /\ outbox = {}
    /\ issued = [o \in {} |-> 0]
    /\ topic \in Topics
    /\ req = [c \in Clients |-> Idle]
    /\ stale = [c \in Clients |-> {}]
    /\ left = Requests
    /\ faults = Faults
    /\ twins = {} /\ raced = {} /\ doubled = {}

At(c, step) == req[c].step = step

Goto(c, to) ==
    req' = [req EXCEPT ![c] = IF to = "idle" THEN Idle ELSE [@ EXCEPT !.step = to]]

\* The id of what a request makes
New(c) == <<c, req[c].nr>>

Live(u) == u \in DOMAIN users /\ ~users[u].deleted

HasProfile(u) == \E a \in artists : a.user = u

\* Approvals that have taken their snapshot, and what they have locked
Open == {c \in Clients : req[c].step \in {"role", "profile", "artist"}
                         \/ (At(c, "commit") /\ req[c].op = "decide")}
HeldBy(c) == {req[c].claim} \cup IF req[c].value = "approved" /\ ~At(c, "role")
                                 THEN {ClaimOf[req[c].claim]} ELSE {}
Held(c) == UNION {HeldBy(d) : d \in Open \ {c}}

\* A write outside of a transaction waits for the lock of one
Free(u) == u \notin UNION {HeldBy(d) : d \in Open}
Update(u, user) ==
    /\ Free(u)
    /\ users' = [users EXCEPT ![u] = user]
    /\ stale' = Committed(stale, Open, {u})

-----------------------------------------------------------------------------
(* Requests                                                                *)

FirstStep(o) ==
    CASE o = "register" -> "look"
      [] o = "add" -> "create"
      [] o = "google" -> "byGoogle"
      [] o \in {"toggle", "change", "login", "refresh"} -> "read"
      [] o = "setRole" -> "check"
      [] o = "decide" -> "open"
      [] o = "forgot" -> "save"
      [] o = "confirm" -> "find"
      [] o = "reset" -> "findUser"

\* What the requests with several steps carry
Argument(o) ==
    CASE o \in {"register", "google"} -> [mail : Mails, name : Names]
      [] o = "add" -> [mail : Mails, name : Names, value : Roles]
      [] o \in {"toggle", "refresh"} -> [user : DOMAIN users]
      [] o = "setRole" -> [user : DOMAIN users, value : Roles \ {"ARTIST"}]
      [] o = "change" -> [user : DOMAIN users, value : Passwords]
      [] o = "decide" -> [claim : Claims, value : Verdicts]
      [] o = "login" -> [name : Names]
      [] o = "forgot" -> [mail : Mails]
      [] o = "confirm" -> [mail : Mails, code : {otp.code : otp \in mailed}]
      [] o = "reset" -> [mail : {otp.mail : otp \in DOMAIN issued}, value : Passwords]

\* A role of ARTIST is refused by updateSystemRole, so it is not enumerated; a
\* decision is about a request that was made
Send(c, o, arg) ==
    /\ At(c, "idle") /\ left[c] > 0 /\ o \in topic
    /\ o = "decide" => claims[arg.claim] # "none"
    /\ req' = [req EXCEPT ![c] =
                 [f \in DOMAIN Idle |->
                    CASE f \in DOMAIN arg -> arg[f]
                      [] f = "step" -> FirstStep(o)
                      [] f = "op" -> o
                      [] f = "nr" -> left[c]
                      [] f = "todo" /\ o = "register" -> {"mail", "name"}
                      [] OTHER -> Idle[f]]]
    /\ left' = [left EXCEPT ![c] = @ - 1]
    /\ UNCHANGED <<people, approval, tokens, codes, stale, faults, history>>

\* Requests that are one call of the database
Remove(c) ==
    /\ At(c, "idle") /\ left[c] > 0 /\ "remove" \in topic
    /\ \E u \in {v \in DOMAIN users : Live(v)} : Update(u, [users[u] EXCEPT !.deleted = TRUE])
    /\ left' = [left EXCEPT ![c] = @ - 1]
    /\ UNCHANGED <<carts, approval, tokens, codes, req, faults, history>>

Submit(c) ==
    /\ At(c, "idle") /\ left[c] > 0 /\ "submit" \in topic
    /\ \E v \in Claims : claims[v] = "none" /\ claims' = [claims EXCEPT ![v] = "pending"]
    /\ left' = [left EXCEPT ![c] = @ - 1]
    /\ UNCHANGED <<people, artists, tokens, codes, req, stale, faults, history>>

\* deleteByToken looks for the token itself, and the documents hold its hash
Logout(c) ==
    /\ At(c, "idle") /\ left[c] > 0 /\ "logout" \in topic
    /\ \E t \in tokens : tokens' = tokens \ {[t EXCEPT !.hashed = FALSE]}
    /\ left' = [left EXCEPT ![c] = @ - 1]
    /\ UNCHANGED <<people, approval, codes, req, stale, faults, history>>

-----------------------------------------------------------------------------
(* Creating an account: register, POST /users, and a first Google sign-in  *)

\* Mutant: register looks for the e-mail address alone
ExistsMail(c, field) ==
    field = "mail" /\ \E u \in DOMAIN users : Live(u) /\ users[u].mail = req[c].mail

\* existUserByEmail and existUserByUsername, in either order
Exists(c, field) == \E u \in DOMAIN users : Live(u) /\ users[u][field] = req[c][field]

Look(c) ==
    /\ At(c, "look")
    /\ \E f \in req[c].todo :
        LET seen == req[c].seen \/ Exists(c, f)
            todo == req[c].todo \ {f}
        IN IF todo # {} THEN req' = [req EXCEPT ![c].todo = todo, ![c].seen = seen]
           ELSE IF seen THEN Goto(c, "idle")
           ELSE req' = [req EXCEPT ![c].todo = {}, ![c].step = "create"]
    /\ UNCHANGED <<people, approval, tokens, codes, stale, left, faults, history>>

\* Two finders that do not ask whether the account was removed
ByGoogle(c) ==
    /\ At(c, "byGoogle")
    /\ LET found == {u \in DOMAIN users : users[u].google /\ users[u].mail = req[c].mail}
       IN IF found = {} THEN Goto(c, "byMail")
          ELSE \E u \in found : req' = [req EXCEPT ![c].step = "token", ![c].user = u]
    /\ UNCHANGED <<people, approval, tokens, codes, stale, left, faults, history>>

ByMail(c) ==
    /\ At(c, "byMail")
    /\ LET found == {u \in DOMAIN users : users[u].mail = req[c].mail}
       IN IF found = {} THEN Goto(c, "create")
          ELSE \E u \in found : req' = [req EXCEPT ![c].step = "link", ![c].user = u]
    /\ UNCHANGED <<people, approval, tokens, codes, stale, left, faults, history>>

Link(c) ==
    /\ At(c, "link")
    /\ Update(req[c].user, [users[req[c].user] EXCEPT !.google = TRUE])
    /\ Goto(c, "token")
    /\ UNCHANGED <<carts, approval, tokens, codes, left, faults, history>>

\* The index counts removed accounts, and what other transactions have inserted
Taken(c) ==
    \/ \E u \in DOMAIN users : users[u].mail = req[c].mail
    \/ \E d \in Clients \ {c} : /\ req[d].op \in Creates
                                /\ req[d].step \in {"cart", "commit"}
                                /\ req[d].mail = req[c].mail

Create(c) ==
    /\ At(c, "create")
    /\ Goto(c, IF Taken(c) THEN "idle" ELSE "cart")
    /\ UNCHANGED <<people, approval, tokens, codes, stale, left, faults, history>>

CreateCart(c) ==
    /\ At(c, "cart")
    /\ Goto(c, "commit")
    /\ UNCHANGED <<people, approval, tokens, codes, stale, left, faults, history>>

NewUser(c) ==
    [mail |-> req[c].mail, name |-> req[c].name,
     role |-> IF req[c].op = "add" THEN req[c].value ELSE "USER",
     password |-> IF req[c].op = "google" THEN None ELSE CHOOSE p \in Passwords : TRUE,
     google |-> req[c].op = "google", active |-> TRUE, deleted |-> FALSE]

\* Requests that will use the name and have looked for it, or do not look
Namesakes(c) == {d \in Clients \ {c} : /\ req[d].op \in Creates
                                       /\ req[d].name = req[c].name
                                       /\ "name" \notin req[d].todo}

CommitCreate(c) ==
    /\ At(c, "commit") /\ req[c].op \in Creates
    /\ users' = [u \in DOMAIN users \cup {New(c)} |->
                    IF u = New(c) THEN NewUser(c) ELSE users[u]]
    /\ carts' = [u \in DOMAIN users' |-> IF u = New(c) THEN 1 ELSE carts[u]]
    /\ req' = [req EXCEPT ![c] = IF req[c].op = "google"
                                 THEN [@ EXCEPT !.step = "token", !.user = New(c)] ELSE Idle]
    /\ twins' = IF req[c].op # "register" \/ Namesakes(c) # {}
                THEN twins \cup {req[c].name} ELSE twins
    /\ UNCHANGED <<approval, tokens, codes, stale, left, faults, raced, doubled, topic>>

-----------------------------------------------------------------------------
(* Sessions                                                                *)

\* validateUser: an account of that name that has a password; the status is not
\* asked for
Authenticate(c) ==
    /\ At(c, "read") /\ req[c].op = "login"
    /\ \/ \E u \in DOMAIN users :
            /\ Live(u) /\ users[u].name = req[c].name /\ users[u].password # None
            /\ req' = [req EXCEPT ![c].step = "token", ![c].user = u]
       \/ Goto(c, "idle")      \* no such account, or another password
    /\ UNCHANGED <<people, approval, tokens, codes, stale, left, faults, history>>

Token(c) == [user |-> req[c].user, hashed |-> FALSE,
             jti |-> IF req[c].op = "login" THEN New(c) ELSE None]

\* generateRefreshTokenResponse; a login goes on to the name of the role
SaveToken(c) ==
    /\ At(c, "token")
    /\ tokens' = tokens \cup {Hash(Token(c))}
    /\ Goto(c, IF req[c].op = "login" THEN "roleName" ELSE "idle")
    /\ UNCHANGED <<people, approval, codes, stale, left, faults, history>>

RoleName(c) ==
    /\ At(c, "roleName")
    /\ Goto(c, "idle")
    /\ UNCHANGED <<people, approval, tokens, codes, stale, left, faults, history>>

\* refreshToken: findToken, then the account
FindToken(c) ==
    /\ At(c, "read") /\ req[c].op = "refresh"
    /\ Goto(c, IF \E t \in tokens : t.user = req[c].user THEN "findUser" ELSE "idle")
    /\ UNCHANGED <<people, approval, tokens, codes, stale, left, faults, history>>

Refresh(c) ==
    /\ At(c, "findUser") /\ req[c].op = "refresh"
    /\ Goto(c, "idle")
    /\ UNCHANGED <<people, approval, tokens, codes, stale, left, faults, history>>

\* The TTL indexes of tokens and one-time codes
Expire ==
    /\ \/ \E t \in tokens : tokens' = tokens \ {t} /\ UNCHANGED otps
       \/ \E o \in otps : otps' = otps \ {o} /\ UNCHANGED tokens
    /\ UNCHANGED <<people, approval, outbox, mailed, issued, req, stale, left, faults, history>>

-----------------------------------------------------------------------------
(* One-time codes and passwords                                            *)

NewOtp(c) == [code |-> New(c), mail |-> req[c].mail]

\* forgotPassword does not ask whether there is such an account
SaveOtp(c) ==
    /\ At(c, "save")
    /\ otps' = otps \cup {NewOtp(c)}
    /\ Goto(c, "enqueue")
    /\ UNCHANGED <<people, approval, tokens, outbox, mailed, issued, stale, left, faults,
                   history>>

Enqueue(c) ==
    /\ At(c, "enqueue")
    /\ outbox' = outbox \cup {NewOtp(c)}
    /\ Goto(c, "idle")
    /\ UNCHANGED <<people, approval, tokens, otps, mailed, issued, stale, left, faults, history>>

\* EmailConsumer
SendEmail(o) ==
    /\ outbox' = outbox \ {o}
    /\ mailed' = mailed \cup {o}
    /\ UNCHANGED <<people, approval, tokens, otps, issued, req, stale, left, faults, history>>

Confirms(c) == [code |-> req[c].code, mail |-> req[c].mail]

FindOtp(c) ==
    /\ At(c, "find")
    /\ Goto(c, IF Confirms(c) \in otps THEN "delete" ELSE "idle")
    /\ doubled' = IF \E d \in Clients \ {c} : At(d, "delete") /\ Confirms(d) = Confirms(c)
                  THEN doubled \cup {Confirms(c)} ELSE doubled
    /\ UNCHANGED <<people, approval, tokens, codes, stale, left, faults, twins, raced, topic>>

\* Mutant: a confirmed code is left for its TTL index
UsedUpLater(o) == otps

\* deleteOtp does not say whether it deleted; the reset token is signed next
UsedUp(o) == otps \ {o}

DeleteOtp(c) ==
    /\ At(c, "delete")
    /\ otps' = UsedUp(Confirms(c))
    /\ issued' = [o \in DOMAIN issued \cup {Confirms(c)} |->
                    (IF o \in DOMAIN issued THEN issued[o] ELSE 0)
                    + (IF o = Confirms(c) THEN 1 ELSE 0)]
    /\ Goto(c, "idle")
    /\ UNCHANGED <<people, approval, tokens, outbox, mailed, stale, left, faults, history>>

\* resetPassword and changePassword look an account up and write its password;
\* only the second asks that it is live and active
FindForReset(c) ==
    /\ At(c, "findUser") /\ req[c].op = "reset"
    /\ LET found == {u \in DOMAIN users : users[u].mail = req[c].mail}
       IN IF found = {} THEN Goto(c, "idle")
          ELSE \E u \in found : req' = [req EXCEPT ![c].step = "write", ![c].user = u]
    /\ UNCHANGED <<people, approval, tokens, codes, stale, left, faults, history>>

\* The old password is the account's or it is not
FindPassword(c) ==
    /\ At(c, "read") /\ req[c].op = "change"
    /\ \/ /\ Live(req[c].user) /\ users[req[c].user].active
          /\ users[req[c].user].password # None
          /\ Goto(c, "write")
       \/ Goto(c, "idle")
    /\ UNCHANGED <<people, approval, tokens, codes, stale, left, faults, history>>

WritePassword(c) ==
    /\ At(c, "write") /\ req[c].op \in {"reset", "change"}
    /\ Update(req[c].user, [users[req[c].user] EXCEPT !.password = req[c].value])
    /\ Goto(c, "idle")
    /\ UNCHANGED <<carts, approval, tokens, codes, left, faults, history>>

-----------------------------------------------------------------------------
(* Administration                                                          *)

\* changeStatus reads, and writes the opposite
ReadStatus(c) ==
    /\ At(c, "read") /\ req[c].op = "toggle"
    /\ IF Live(req[c].user)
       THEN req' = [req EXCEPT ![c].step = "write", ![c].seen = users[req[c].user].active]
       ELSE Goto(c, "idle")
    /\ UNCHANGED <<people, approval, tokens, codes, stale, left, faults, history>>

WriteStatus(c) ==
    /\ At(c, "write") /\ req[c].op = "toggle"
    /\ Update(req[c].user, [users[req[c].user] EXCEPT !.active = ~req[c].seen])
    /\ Goto(c, "idle")
    /\ UNCHANGED <<carts, approval, tokens, codes, left, faults, history>>

\* Mutant: updateSystemRole does not look for an artist profile
RefusedNever(c) == FALSE

Refused(c) == HasProfile(req[c].user)

\* updateSystemRole: checkExistByUserId, then updateRole
CheckProfile(c) ==
    /\ At(c, "check")
    /\ Goto(c, IF Refused(c) THEN "idle" ELSE "write")
    /\ UNCHANGED <<people, approval, tokens, codes, stale, left, faults, history>>

WriteRole(c) ==
    /\ At(c, "write") /\ req[c].op = "setRole"
    /\ Update(req[c].user, [users[req[c].user] EXCEPT !.role = req[c].value])
    /\ Goto(c, "idle")
    /\ UNCHANGED <<carts, approval, tokens, codes, left, faults, history>>

-----------------------------------------------------------------------------
(* ArtistVerificationService.updateStatus                                  *)

Subject(c) == ClaimOf[req[c].claim]

\* The first write takes the snapshot; the status the request had is not asked for
UpdateClaim(c) ==
    /\ At(c, "open")
    /\ IF req[c].claim \in Held(c) THEN Goto(c, "idle")
       ELSE req' = [req EXCEPT ![c].step = IF req[c].value = "approved" THEN "role" ELSE "commit",
                               ![c].seen = HasProfile(Subject(c))]
    /\ UNCHANGED <<people, approval, tokens, codes, stale, left, faults, history>>

Abort(c) == Goto(c, "idle") /\ stale' = Forget(stale, c)

\* updateRoleInternal locks the account's document
UpdateRole(c) ==
    /\ At(c, "role")
    /\ IF WriteConflict(stale, c, {Subject(c)}, Held(c)) THEN Abort(c)
       ELSE Goto(c, "profile") /\ UNCHANGED stale
    /\ UNCHANGED <<people, approval, tokens, codes, left, faults, history>>

\* checkExistByUserId in the session answers from the snapshot
CheckArtist(c) ==
    /\ At(c, "profile")
    /\ Goto(c, IF req[c].seen THEN "commit" ELSE "artist")
    /\ UNCHANGED <<people, approval, tokens, codes, stale, left, faults, history>>

\* ArtistService.create looks again, outside of the session
CreateArtist(c) ==
    /\ At(c, "artist")
    /\ IF HasProfile(Subject(c)) THEN Abort(c)
       ELSE Goto(c, "commit") /\ UNCHANGED stale
    /\ UNCHANGED <<people, approval, tokens, codes, left, faults, history>>

CommitDecision(c) ==
    /\ At(c, "commit") /\ req[c].op = "decide"
    /\ LET u == Subject(c)
           approved == req[c].value = "approved"
       IN /\ claims' = [claims EXCEPT ![req[c].claim] = req[c].value]
          /\ users' = IF approved THEN [users EXCEPT ![u].role = "ARTIST"] ELSE users
          /\ artists' = IF approved /\ ~req[c].seen
                        THEN artists \cup {[user |-> u, by |-> New(c)]} ELSE artists
          /\ raced' = IF approved /\ \E d \in Clients : At(d, "write") /\ req[d].op = "setRole"
                                                        /\ req[d].user = u
                      THEN raced \cup {u} ELSE raced
    /\ stale' = Committed(Forget(stale, c), Open \ {c}, HeldBy(c))
    /\ Goto(c, "idle")
    /\ UNCHANGED <<carts, tokens, codes, left, faults, twins, doubled, topic>>

\* An await throws; the transaction under way is aborted
Fail(c) ==
    /\ faults > 0 /\ ~At(c, "idle")
    /\ faults' = faults - 1
    /\ Abort(c)
    /\ UNCHANGED <<people, approval, tokens, codes, left, history>>

-----------------------------------------------------------------------------
Next ==
    \/ \E c \in Clients :
        \/ \E o \in topic \ {"remove", "submit", "logout"} :
             \E arg \in Argument(o) : Send(c, o, arg)
        \/ Remove(c) \/ Submit(c) \/ Logout(c)
        \/ Look(c) \/ ByGoogle(c) \/ ByMail(c) \/ Link(c)
        \/ Create(c) \/ CreateCart(c) \/ CommitCreate(c)
        \/ Authenticate(c) \/ SaveToken(c) \/ RoleName(c) \/ FindToken(c) \/ Refresh(c)
        \/ SaveOtp(c) \/ Enqueue(c) \/ FindOtp(c) \/ DeleteOtp(c)
        \/ FindForReset(c) \/ FindPassword(c) \/ WritePassword(c)
        \/ ReadStatus(c) \/ WriteStatus(c) \/ CheckProfile(c) \/ WriteRole(c)
        \/ UpdateClaim(c) \/ UpdateRole(c) \/ CheckArtist(c) \/ CreateArtist(c)
        \/ CommitDecision(c) \/ Fail(c)
    \/ \E o \in outbox : SendEmail(o)
    \/ Expire

Spec == Init /\ [][Next]_vars

-----------------------------------------------------------------------------
(* Properties                                                              *)

\* Registrations, additions and Google sign-ins in any order leave one account
\* to an e-mail address and one cart to an account; refresh tokens belong to
\* accounts that were created; and two live accounts share a name only if one was
\* created without a check of the name or both had passed it.
AccountsWhole ==
    /\ \A u, v \in DOMAIN users : users[u].mail = users[v].mail => u = v
    /\ \A u \in DOMAIN users : carts[u] = 1
    /\ \A t \in tokens : t.user \in DOMAIN users
    /\ \A u, v \in DOMAIN users :
        Live(u) /\ Live(v) /\ users[u].name = users[v].name /\ users[u].name \notin twins
            => u = v

\* However many requests of a user are approved, and by whomever, he has one
\* artist profile; an approved request has its user's profile; and the profile's
\* user has the role ARTIST, unless an administrator's change of his role had
\* passed its check when the approval committed.
ArtistsWhole ==
    /\ \A a, b \in artists : a.user = b.user => a = b
    /\ \A v \in Claims : claims[v] = "approved" => HasProfile(ClaimOf[v])
    /\ \A a \in artists : users[a.user].role = "ARTIST" \/ a.user \in raced

\* A one-time code is good for one reset token, unless two confirmations had
\* found it before either deleted it.
OneTokenPerCode == \A o \in DOMAIN issued \ doubled : issued[o] <= 1

==============================================================================
