----------------------------- MODULE PlanPayment -----------------------------
(***************************************************************************)
(* Buying a plan: PaymentService, the plan queue, and the crons that end   *)
(* subscriptions, take premium away and clean up unpaid payments.  A paid  *)
(* order becomes a job which creates the user's subscription to the plan   *)
(* or extends it, all in one MongoDB transaction; BullMQ retries a job     *)
(* that throws.  Time is counted in months.                                *)
(***************************************************************************)
EXTENDS MongoTx, Integers, FiniteSets

CONSTANTS
    Orders, Users, Plans, Deliveries, CancelRequests,
    Owner, PlanOf,      \* who orders which plan
    Months, Price,      \* of a plan
    DeliveryOf, CancelOf,
    Attempts,           \* defaultJobOptions.attempts
    Budget              \* how often each disturbance may happen

Disturbances == {"tick", "fault", "crash", "cleanup"}

ASSUME ConstantsAssumption ==
    /\ IsFiniteSet(Orders) /\ IsFiniteSet(Deliveries)
    /\ Owner \in [Orders -> Users]
    /\ PlanOf \in [Orders -> Plans]
    /\ Months \in [Plans -> Nat \ {0}]
    /\ Price \in [Plans -> Nat]
    /\ DeliveryOf \in [Deliveries -> Orders]
    /\ CancelOf \in [CancelRequests -> Orders]
    /\ Attempts \in Nat \ {0}
    /\ Budget \in [Disturbances -> Nat]
    \* subscriptions, payments and users are documents of different collections
    /\ Deliveries \cap Users = {} /\ Orders \cap Users = {}

VARIABLES
    link,               \* PayOS payment links
    payment, deleted,   \* status of the payments, and the soft-deleted ones
    subs, premium,      \* subscriptions, and users with isPremium
    credited,           \* how often a payment was applied to a subscription
    req,                \* createPaymentPlan requests
    dlv, draft, failures, stale, stalled,   \* webhook deliveries, their jobs
    cancel,             \* cancelPayment requests
    expired,            \* users the morning cron has still to handle
    now, budget

recordVars == <<payment, deleted>>
planVars   == <<subs, premium, credited>>
jobVars    == <<dlv, draft, failures, stale, stalled>>

vars == <<link, recordVars, planVars, req, jobVars, cancel, expired, now, budget>>

-----------------------------------------------------------------------------
LinkStates    == {"none", "open", "paid", "failed", "cancelled"}
PaymentStatus == {"none", "pending", "succeeded", "failed", "cancelled"}
RequestStates == {"start", "store", "created", "failed"}
InTransaction == {"read", "wrote"}
JobStates     == InTransaction \cup {"queued", "committed", "completed", "dead"}
DeliveryStates == {"idle", "found", "ignored", "refused"} \cup JobStates
CancelStates  == {"idle", "asking", "answered", "done"}

\* A subscription is named after the delivery whose job created it
Subscription == [by : Deliveries, user : Users, plan : Plans, from : Nat, end : Nat,
                 total : Nat, status : {"active", "expired"}]

Docs == Deliveries \cup Orders \cup Users     \* subscriptions, payments, users

TypeOK ==
    /\ link \in [Orders -> LinkStates]
    /\ payment \in [Orders -> PaymentStatus]
    /\ deleted \subseteq Orders
    /\ subs \subseteq Subscription
    /\ premium \subseteq Users
    /\ credited \in [Orders -> Nat]
    /\ req \in [Orders -> RequestStates]
    /\ dlv \in [Deliveries -> DeliveryStates]
    /\ draft \in [Deliveries -> Subscription]
    /\ failures \in [Deliveries -> 0 .. Attempts]
    /\ stale \in [Deliveries -> SUBSET Docs]
    /\ stalled \subseteq Deliveries
    /\ cancel \in [CancelRequests -> CancelStates]
    /\ expired \subseteq Users
    /\ now \in Nat
    /\ budget \in [Disturbances -> Nat]

User(d) == Owner[DeliveryOf[d]]
Plan(d) == PlanOf[DeliveryOf[d]]

NewSubscription(d) ==
    [by |-> d, user |-> User(d), plan |-> Plan(d), from |-> now,
     end |-> now + Months[Plan(d)], total |-> Price[Plan(d)], status |-> "active"]

Existing(d) == {s \in subs : s.user = User(d) /\ s.plan = Plan(d)}

Init ==
    /\ link = [o \in Orders |-> "none"]
    /\ payment = [o \in Orders |-> "none"]
    /\ deleted = {}
    /\ subs = {}
    /\ premium = {}
    /\ credited = [o \in Orders |-> 0]
    /\ req = [o \in Orders |-> "start"]
    /\ dlv = [d \in Deliveries |-> "idle"]
    /\ now = 0
    /\ draft = [d \in Deliveries |-> NewSubscription(d)]
    /\ failures = [d \in Deliveries |-> 0]
    /\ stale = [d \in Deliveries |-> {}]
    /\ stalled = {}
    /\ cancel = [c \in CancelRequests |-> "idle"]
    /\ expired = {}
    /\ budget = Budget

Spend(what) ==
    /\ budget[what] > 0
    /\ budget' = [budget EXCEPT ![what] = @ - 1]

Goto(pc, from, to, who) ==
    /\ pc[who] = from
    /\ pc' = [pc EXCEPT ![who] = to]

Open == {d \in Deliveries : dlv[d] \in InTransaction}

\* Mutant: the user is updated without { session }
WrittenButUser(d) == {draft[d].by, DeliveryOf[d]}

\* The documents the transaction of d writes
WrittenBy(d) == {draft[d].by, DeliveryOf[d], User(d)}

Locked == UNION {WrittenBy(d) : d \in {e \in Deliveries : dlv[e] = "wrote"}}

-----------------------------------------------------------------------------
(* createPaymentPlan                                                       *)

OpenLink(o) ==
    /\ Goto(req, "start", "store", o)
    /\ link' = [link EXCEPT ![o] = "open"]
    /\ UNCHANGED <<recordVars, planVars, jobVars, cancel, expired, now, budget>>

StorePayment(o) ==
    /\ Goto(req, "store", "created", o)
    /\ payment' = [payment EXCEPT ![o] = "pending"]
    /\ UNCHANGED <<link, deleted, planVars, jobVars, cancel, expired, now, budget>>

RequestFails(o) ==
    /\ Goto(req, "start", "failed", o) \/ Goto(req, "store", "failed", o)
    /\ Spend("fault")
    /\ UNCHANGED <<link, recordVars, planVars, jobVars, cancel, expired, now>>

-----------------------------------------------------------------------------
(* PayOS: the outcome of a link is final                                   *)

Settle(o, outcome) ==
    /\ payment[o] # "none" /\ link[o] = "open"
    /\ link' = [link EXCEPT ![o] = outcome]
    /\ UNCHANGED <<recordVars, planVars, req, jobVars, cancel, expired, now, budget>>

-----------------------------------------------------------------------------
(* handleWebhook and processingPlan                                        *)

ReceiveWebhook(d) ==
    LET o == DeliveryOf[d] IN
    /\ link[o] \in {"paid", "failed"}
    /\ Goto(dlv, "idle", IF payment[o] = "succeeded" THEN "ignored" ELSE "found", d)
    /\ UNCHANGED <<link, recordVars, planVars, req, draft, failures, stale, stalled,
                   cancel, expired, now, budget>>

\* Mutant: the webhook marks the payment as paid before the job runs
EnqueueMarkingPaid(d) ==
    LET o == DeliveryOf[d] IN
    /\ link[o] = "paid"
    /\ Goto(dlv, "found", "queued", d)
    /\ payment' = [payment EXCEPT ![o] = "succeeded"]
    /\ stale' = Committed(stale, Open, {o})
    /\ UNCHANGED <<link, deleted, planVars, req, draft, failures, stalled, cancel,
                   expired, now, budget>>

EnqueueJob(d) ==
    /\ link[DeliveryOf[d]] = "paid"
    /\ Goto(dlv, "found", "queued", d)
    /\ UNCHANGED <<link, recordVars, planVars, req, draft, failures, stale, stalled,
                   cancel, expired, now, budget>>

MarkPaymentFailed(d) ==
    LET o == DeliveryOf[d] IN
    /\ link[o] = "failed"
    /\ Goto(dlv, "found", "refused", d)
    /\ payment' = [payment EXCEPT ![o] = "failed"]
    /\ stale' = Committed(stale, Open, {o})
    /\ UNCHANGED <<link, deleted, planVars, req, draft, failures, stalled, cancel,
                   expired, now, budget>>

-----------------------------------------------------------------------------
(* processSuccessfulPaymentPlan, run by a worker of the plan queue         *)

\* Mutant: an extension starts from today
BeginFromNow(d) ==
    /\ Goto(dlv, "queued", "read", d)
    /\ \/ /\ Existing(d) = {}
          /\ draft' = [draft EXCEPT ![d] = NewSubscription(d)]
       \/ \E s \in Existing(d) :
            draft' = [draft EXCEPT ![d] = [s EXCEPT !.end = now + Months[Plan(d)]]]
    /\ UNCHANGED <<link, recordVars, planVars, req, failures, stale, stalled, cancel,
                   expired, now, budget>>

\* The first read of the transaction decides what it will write
BeginJob(d) ==
    /\ Goto(dlv, "queued", "read", d)
    /\ \/ /\ Existing(d) = {}
          /\ draft' = [draft EXCEPT ![d] = NewSubscription(d)]
       \/ \E s \in Existing(d) :
            draft' = [draft EXCEPT ![d] = [s EXCEPT !.end = @ + Months[Plan(d)]]]
    /\ UNCHANGED <<link, recordVars, planVars, req, failures, stale, stalled, cancel,
                   expired, now, budget>>

JobConflict(d) == WriteConflict(stale, d, WrittenBy(d), Locked)

\* Subscription, payment and user are written, and locked until the commit
WriteJob(d) ==
    /\ ~JobConflict(d)
    /\ Goto(dlv, "read", "wrote", d)
    /\ UNCHANGED <<link, recordVars, planVars, req, draft, failures, stale, stalled,
                   cancel, expired, now, budget>>

\* An update sets the end only
Stored(new) ==
    LET old == {s \in subs : s.by = new.by} IN
    IF old = {} THEN subs \cup {new}
    ELSE (subs \ old) \cup {[s EXCEPT !.end = new.end] : s \in old}

CommitJob(d) ==
    LET o == DeliveryOf[d] IN
    /\ Goto(dlv, "wrote", "committed", d)
    /\ subs' = Stored(draft[d])
    /\ payment' = [payment EXCEPT ![o] = "succeeded"]
    /\ premium' = premium \cup {User(d)}
    /\ credited' = [credited EXCEPT ![o] = @ + 1]
    /\ stale' = Forget(Committed(stale, Open, WrittenBy(d)), d)
    /\ UNCHANGED <<link, deleted, req, draft, failures, stalled, cancel, expired, now,
                   budget>>

CompleteJob(d) ==
    /\ Goto(dlv, "committed", "completed", d)
    /\ UNCHANGED <<link, recordVars, planVars, req, draft, failures, stale, stalled,
                   cancel, expired, now, budget>>

\* Mutant: the error is swallowed, as in the job of a product payment
FailSilently(d) ==
    /\ \/ dlv[d] = "read" /\ JobConflict(d) /\ UNCHANGED budget
       \/ dlv[d] \in InTransaction /\ Spend("fault")
    /\ dlv' = [dlv EXCEPT ![d] = "completed"]
    /\ UNCHANGED failures
    /\ stale' = Forget(stale, d)
    /\ UNCHANGED <<link, recordVars, planVars, req, draft, stalled, cancel, expired, now>>

\* Mutant: an error after the commit is thrown on like one before it
FailCommitted(d) ==
    /\ dlv[d] \in InTransaction \cup {"committed"} /\ Spend("fault")
    /\ dlv' = [dlv EXCEPT ![d] = IF failures[d] + 1 < Attempts THEN "queued" ELSE "dead"]
    /\ failures' = [failures EXCEPT ![d] = @ + 1]
    /\ stale' = Forget(stale, d)
    /\ UNCHANGED <<link, recordVars, planVars, req, draft, stalled, cancel, expired, now>>

\* The error is thrown on, and BullMQ retries while attempts are left
FailJob(d) ==
    /\ \/ dlv[d] = "read" /\ JobConflict(d) /\ UNCHANGED budget
       \/ dlv[d] \in InTransaction /\ Spend("fault")
    /\ dlv' = [dlv EXCEPT ![d] = IF failures[d] + 1 < Attempts THEN "queued" ELSE "dead"]
    /\ failures' = [failures EXCEPT ![d] = @ + 1]
    /\ stale' = Forget(stale, d)
    /\ UNCHANGED <<link, recordVars, planVars, req, draft, stalled, cancel, expired, now>>

\* The worker dies: MongoDB aborts, BullMQ re-runs a stalled job once
CrashWorker(d) ==
    /\ dlv[d] \in InTransaction \cup {"committed"}
    /\ Spend("crash")
    /\ dlv' = [dlv EXCEPT ![d] = IF d \in stalled THEN "dead" ELSE "queued"]
    /\ stalled' = stalled \cup {d}
    /\ stale' = Forget(stale, d)
    /\ UNCHANGED <<link, recordVars, planVars, req, draft, failures, cancel, expired, now>>

-----------------------------------------------------------------------------
(* cancelPayment                                                           *)

CheckCancelled(c) ==
    LET o == CancelOf[c] IN
    /\ payment[o] # "none"
    /\ Goto(cancel, "idle", IF payment[o] = "cancelled" THEN "done" ELSE "asking", c)
    /\ UNCHANGED <<link, recordVars, planVars, req, jobVars, expired, now, budget>>

\* Mutant: the reply's status is not compared with CANCELLED
AskPayosOnly(c) ==
    LET o == CancelOf[c] IN
    /\ Goto(cancel, "asking", "answered", c)
    /\ link' = [link EXCEPT ![o] = IF @ = "open" THEN "cancelled" ELSE @]
    /\ UNCHANGED <<recordVars, planVars, req, jobVars, expired, now, budget>>

\* PayOS cancels an open link and replies with the link's status
AskPayos(c) ==
    LET o == CancelOf[c]
        status == IF link[o] = "open" THEN "cancelled" ELSE link[o]
    IN
    /\ Goto(cancel, "asking", IF status = "cancelled" THEN "answered" ELSE "done", c)
    /\ link' = [link EXCEPT ![o] = status]
    /\ UNCHANGED <<recordVars, planVars, req, jobVars, expired, now, budget>>

RecordCancelled(c) ==
    LET o == CancelOf[c] IN
    /\ Goto(cancel, "answered", "done", c)
    /\ payment' = [payment EXCEPT ![o] = "cancelled"]
    /\ stale' = Committed(stale, Open, {o})
    /\ UNCHANGED <<link, deleted, planVars, req, dlv, draft, failures, stalled, expired,
                   now, budget>>

-----------------------------------------------------------------------------
(* The crons.  Outside a transaction, a write waits for locked documents   *)

Tick ==
    /\ Spend("tick")
    /\ now' = now + 1
    /\ UNCHANGED <<link, recordVars, planVars, req, jobVars, cancel, expired>>

Over(s) == s.end < now

\* changeStatusWhenExpired, document by document
ExpireSubscription(s) ==
    /\ Over(s) /\ s.by \notin Locked
    /\ subs' = (subs \ {s}) \cup {[s EXCEPT !.status = "expired"]}
    /\ stale' = Committed(stale, Open, {s.by})
    /\ UNCHANGED <<link, recordVars, premium, credited, req, dlv, draft, failures,
                   stalled, cancel, expired, now, budget>>

FindExpired ==
    /\ expired = {}
    /\ expired' = {s.user : s \in {t \in subs : t.status = "active" /\ Over(t)}}
    /\ UNCHANGED <<link, recordVars, planVars, req, jobVars, cancel, now, budget>>

\* updateExpiredPremiumUsers, document by document
ClearPremium(u) ==
    /\ u \in expired /\ u \notin Locked
    /\ expired' = expired \ {u}
    /\ premium' = premium \ {u}
    /\ stale' = Committed(stale, Open, premium \cap {u})
    /\ UNCHANGED <<link, recordVars, subs, credited, req, dlv, draft, failures, stalled,
                   cancel, now, budget>>

\* A payment that is still pending after ten minutes
RemoveUnpaid(o) ==
    /\ payment[o] = "pending" /\ o \notin deleted /\ o \notin Locked
    /\ Spend("cleanup")
    /\ deleted' = deleted \cup {o}
    /\ stale' = Committed(stale, Open, {o})
    /\ UNCHANGED <<link, payment, planVars, req, dlv, draft, failures, stalled, cancel,
                   expired, now>>

-----------------------------------------------------------------------------
RequestStep(o) == OpenLink(o) \/ StorePayment(o) \/ RequestFails(o)

WebhookStep(d) == ReceiveWebhook(d) \/ EnqueueJob(d) \/ MarkPaymentFailed(d)

JobStep(d) == BeginJob(d) \/ WriteJob(d) \/ CommitJob(d) \/ CompleteJob(d) \/ FailJob(d)

CancelStep(c) == CheckCancelled(c) \/ AskPayos(c) \/ RecordCancelled(c)

ExpireCron == \E s \in subs : ExpireSubscription(s)
MorningCron == FindExpired \/ \E u \in Users : ClearPremium(u)

Next ==
    \/ \E o \in Orders : RequestStep(o) \/ \E outcome \in {"paid", "failed"} : Settle(o, outcome)
    \/ \E d \in Deliveries : WebhookStep(d) \/ JobStep(d) \/ CrashWorker(d)
    \/ \E c \in CancelRequests : CancelStep(c)
    \/ ExpireCron \/ MorningCron
    \/ \E o \in Orders : RemoveUnpaid(o)
    \/ Tick

Spec == Init /\ [][Next]_vars

\* PayOS keeps delivering, workers keep taking jobs, the crons keep running
Fairness ==
    /\ \A o \in Orders : WF_vars(RequestStep(o))
    /\ \A d \in Deliveries : WF_vars(WebhookStep(d)) /\ WF_vars(JobStep(d))
    /\ \A c \in CancelRequests : WF_vars(CancelStep(c))
    /\ WF_vars(ExpireCron) /\ WF_vars(MorningCron)

FairSpec == Spec /\ Fairness

-----------------------------------------------------------------------------
(* The status stored for an order never contradicts the outcome PayOS gave *)
(* its link.                                                               *)
StatusMatchesPayos ==
    \A o \in Orders :
        /\ payment[o] = "succeeded" => link[o] = "paid"
        /\ payment[o] = "failed" => link[o] = "failed"
        /\ payment[o] = "cancelled" => link[o] = "cancelled"

(* However many jobs of a user run at once, a user has one subscription to *)
(* a plan: the first purchases conflict on the user's document.            *)
OneSubscription ==
    \A s, t \in subs : s.user = t.user /\ s.plan = t.plan => s = t

Bought(u, p) == {o \in Orders : Owner[o] = u /\ PlanOf[o] = p /\ payment[o] = "succeeded"}

(* No extension is lost: a subscription lasts at least the months of all   *)
(* the payments that succeeded for it.                                     *)
NoLostExtension ==
    \A u \in Users, p \in Plans :
        Bought(u, p) # {} =>
            \E s \in subs : /\ s.user = u /\ s.plan = p
                            /\ s.end - s.from >= Months[p] * Cardinality(Bought(u, p))

\* Deliveries of an order whose job went through, or died doing so twice; and
\* those whose worker died once
Passed(o) == {d \in Deliveries :
                /\ DeliveryOf[d] = o
                /\ dlv[d] \in {"committed", "completed"} \/ (dlv[d] = "dead" /\ d \in stalled)}
Stalled(o) == {d \in stalled : DeliveryOf[d] = o}

(* A delivery credits its payment once, however often its job fails and is *)
(* retried, and a second time at most if its worker died.                  *)
CreditedPerRun ==
    \A o \in Orders : credited[o] <= Cardinality(Passed(o)) + Cardinality(Stalled(o))

(* A payment and what it buys go through the life cycle of an order: the   *)
(* subscription is credited in the step that records the success.          *)
Lifecycle == INSTANCE OrderLifecycle WITH
    purchase <- [o \in Orders |-> IF payment[o] = "none" THEN "none"
                                  ELSE IF credited[o] = 0 THEN "pending" ELSE "confirmed"]
ImplementsLifecycle == Lifecycle!Spec

(* A plan that was paid for is credited although workers fail: the error   *)
(* is thrown on and the job retried.                                       *)
PaidPlanIsCredited == \A o \in Orders : link[o] = "paid" ~> credited[o] > 0

=============================================================================
