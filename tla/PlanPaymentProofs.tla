-------------------------- MODULE PlanPaymentProofs ---------------------------
(***************************************************************************)
(* Proofs about PlanPayment for any number of orders, users, plans,        *)
(* deliveries, cancel requests and disturbances: its types, that a user    *)
(* has one subscription to a plan, that the status of a payment is that of *)
(* PayOS, that a payment and what it buys implement OrderLifecycle, how    *)
(* often a payment is credited, and that no extension is lost.             *)
(***************************************************************************)
EXTENDS PlanPayment, FiniteSetTheorems, TLAPS

-----------------------------------------------------------------------------
\* A disturbance leaves a natural number of further ones
LEMMA SpendType ==
    ASSUME NEW w \in Disturbances, budget \in [Disturbances -> Nat], Spend(w)
    PROVE  budget' \in [Disturbances -> Nat]
  BY DEF Spend

\* Commits only add documents to what transactions have seen go stale
LEMMA CommittedType ==
    ASSUME NEW D \in SUBSET Docs, stale \in [Deliveries -> SUBSET Docs]
    PROVE  Committed(stale, Open, D) \in [Deliveries -> SUBSET Docs]
  BY DEF Committed

\* A transaction that ends forgets
LEMMA ForgetType ==
    ASSUME NEW f \in [Deliveries -> SUBSET Docs], NEW d \in Deliveries
    PROVE  Forget(f, d) \in [Deliveries -> SUBSET Docs]
  BY DEF Forget

\* The subscription a job would create is one
LEMMA NewType == ASSUME NEW d \in Deliveries, now \in Nat
                 PROVE  NewSubscription(d) \in Subscription
<1>1. User(d) \in Users /\ Plan(d) \in Plans /\ Months[Plan(d)] \in Nat /\ Price[Plan(d)] \in Nat
  BY ConstantsAssumption DEF User, Plan
<1> QED
  BY <1>1 DEF NewSubscription, Subscription

\* A job writes documents
LEMMA WrittenType == ASSUME NEW d \in Deliveries, TypeOK PROVE WrittenBy(d) \in SUBSET Docs
<1>1. draft[d].by \in Deliveries
  BY DEF TypeOK, Subscription
<1> QED
  BY <1>1, ConstantsAssumption DEF WrittenBy, Docs, User

\* A stored subscription is one
LEMMA StoredType ==
    ASSUME NEW r \in Subscription, subs \subseteq Subscription
    PROVE  Stored(r) \subseteq Subscription
<1>1. \A s \in subs : [s EXCEPT !.end = r.end] \in Subscription
  BY DEF Subscription
<1> QED
  BY <1>1 DEF Stored

\* A subscription that expires remains one
LEMMA ExpiredType ==
    ASSUME NEW s \in Subscription PROVE [s EXCEPT !.status = "expired"] \in Subscription
  BY DEF Subscription

\* A job that is not dead has attempts left: TypeOK alone does not say so
AttemptsLeft == \A d \in Deliveries : dlv[d] # "dead" => failures[d] + 1 <= Attempts

TypeInv == TypeOK /\ AttemptsLeft

\* The initial state is well typed
LEMMA TypeInit == Init => TypeInv
<1> SUFFICES ASSUME Init PROVE TypeOK /\ AttemptsLeft
  BY DEF TypeInv
<1>0. AttemptsLeft
  BY ConstantsAssumption DEF Init, AttemptsLeft
<1>1. \A d \in Deliveries : NewSubscription(d) \in Subscription
  BY NewType DEF Init
<1>2. draft \in [Deliveries -> Subscription]
  BY <1>1 DEF Init
<1> QED
  BY <1>0, <1>2, ConstantsAssumption
     DEF Init, TypeOK, LinkStates, PaymentStatus, RequestStates, DeliveryStates, CancelStates

\* Each action keeps the types
LEMMA TypeNext == TypeOK /\ AttemptsLeft /\ [Next]_vars => TypeOK'
<1> SUFFICES ASSUME TypeOK, AttemptsLeft, [Next]_vars PROVE TypeOK'
  OBVIOUS
<1> USE ConstantsAssumption DEF vars, recordVars, planVars, jobVars
<1>0. stale \in [Deliveries -> SUBSET Docs]
  BY DEF TypeOK
<1>1. ASSUME NEW o \in Orders, OpenLink(o) PROVE TypeOK'
  BY <1>1 DEF OpenLink, TypeOK, Goto, RequestStates, LinkStates
<1>2. ASSUME NEW o \in Orders, StorePayment(o) PROVE TypeOK'
  BY <1>2 DEF StorePayment, TypeOK, Goto, RequestStates, PaymentStatus
<1>3. ASSUME NEW o \in Orders, RequestFails(o) PROVE TypeOK'
  BY <1>3, SpendType DEF RequestFails, TypeOK, Goto, RequestStates, Disturbances
<1>4. ASSUME NEW o \in Orders, NEW s \in {"paid", "failed"}, Settle(o, s) PROVE TypeOK'
  BY <1>4 DEF Settle, TypeOK, LinkStates
<1>5. ASSUME NEW d \in Deliveries, ReceiveWebhook(d) PROVE TypeOK'
  BY <1>5 DEF ReceiveWebhook, TypeOK, Goto, DeliveryStates
<1>6. ASSUME NEW d \in Deliveries, EnqueueJob(d) PROVE TypeOK'
  BY <1>6 DEF EnqueueJob, TypeOK, Goto, DeliveryStates, JobStates
<1>7. ASSUME NEW d \in Deliveries, MarkPaymentFailed(d) PROVE TypeOK'
  <2>1. {DeliveryOf[d]} \in SUBSET Docs
    BY DEF Docs
  <2>2. stale' \in [Deliveries -> SUBSET Docs]
    BY <1>0, <1>7, <2>1, CommittedType DEF MarkPaymentFailed
  <2> QED
    BY <1>7, <2>2 DEF MarkPaymentFailed, TypeOK, Goto, DeliveryStates, PaymentStatus
<1>8. ASSUME NEW d \in Deliveries, BeginJob(d) PROVE TypeOK'
  <2>1. NewSubscription(d) \in Subscription
    BY NewType DEF TypeOK
  <2>2. \A s \in Existing(d) : [s EXCEPT !.end = @ + Months[Plan(d)]] \in Subscription
    BY DEF Existing, TypeOK, Subscription, Plan
  <2>3. draft' \in [Deliveries -> Subscription]
    BY <1>8, <2>1, <2>2 DEF BeginJob, TypeOK
  <2> QED
    BY <1>8, <2>3 DEF BeginJob, TypeOK, Goto, DeliveryStates, JobStates, InTransaction
<1>9. ASSUME NEW d \in Deliveries, WriteJob(d) PROVE TypeOK'
  BY <1>9 DEF WriteJob, TypeOK, Goto, DeliveryStates, JobStates, InTransaction
<1>10. ASSUME NEW d \in Deliveries, CommitJob(d) PROVE TypeOK'
  <2>1. stale' \in [Deliveries -> SUBSET Docs]
    BY <1>0, <1>10, WrittenType, CommittedType, ForgetType DEF CommitJob
  <2>2. subs' \subseteq Subscription
    BY <1>10, StoredType DEF CommitJob, TypeOK
  <2>3. premium' \subseteq Users
    BY <1>10 DEF CommitJob, TypeOK, User
  <2>4. payment' \in [Orders -> PaymentStatus] /\ credited' \in [Orders -> Nat]
    BY <1>10 DEF CommitJob, TypeOK, PaymentStatus
  <2>5. dlv' \in [Deliveries -> DeliveryStates]
    BY <1>10 DEF CommitJob, TypeOK, Goto, DeliveryStates, JobStates
  <2> QED
    BY <1>10, <2>1, <2>2, <2>3, <2>4, <2>5 DEF CommitJob, TypeOK
<1>11. ASSUME NEW d \in Deliveries, CompleteJob(d) PROVE TypeOK'
  BY <1>11 DEF CompleteJob, TypeOK, Goto, DeliveryStates, JobStates
<1>12. ASSUME NEW d \in Deliveries, FailJob(d) PROVE TypeOK'
  <2>1. stale' \in [Deliveries -> SUBSET Docs]
    BY <1>0, <1>12, ForgetType DEF FailJob
  <2>2. budget' \in [Disturbances -> Nat]
    BY <1>12, SpendType DEF FailJob, TypeOK, Disturbances
  <2>3. dlv' \in [Deliveries -> DeliveryStates]
    BY <1>12 DEF FailJob, TypeOK, DeliveryStates, JobStates
  <2>4. failures' \in [Deliveries -> 0 .. Attempts]
    <3>1. dlv[d] # "dead"
      BY <1>12 DEF FailJob, InTransaction
    <3>2. failures[d] \in Nat /\ failures[d] + 1 <= Attempts
      BY <3>1 DEF TypeOK, AttemptsLeft
    <3>3. failures[d] + 1 \in 0 .. Attempts
      BY <3>2
    <3> QED
      BY <1>12, <3>3 DEF FailJob, TypeOK
  <2> QED
    BY <1>12, <2>1, <2>2, <2>3, <2>4 DEF FailJob, TypeOK
<1>13. ASSUME NEW d \in Deliveries, CrashWorker(d) PROVE TypeOK'
  <2>1. stale' \in [Deliveries -> SUBSET Docs]
    BY <1>0, <1>13, ForgetType DEF CrashWorker
  <2>2. budget' \in [Disturbances -> Nat]
    BY <1>13, SpendType DEF CrashWorker, TypeOK, Disturbances
  <2> QED
    BY <1>13, <2>1, <2>2 DEF CrashWorker, TypeOK, DeliveryStates, JobStates
<1>14. ASSUME NEW c \in CancelRequests, CheckCancelled(c) PROVE TypeOK'
  BY <1>14 DEF CheckCancelled, TypeOK, Goto, CancelStates
<1>15. ASSUME NEW c \in CancelRequests, AskPayos(c) PROVE TypeOK'
  BY <1>15 DEF AskPayos, TypeOK, Goto, CancelStates, LinkStates
<1>16. ASSUME NEW c \in CancelRequests, RecordCancelled(c) PROVE TypeOK'
  <2>1. {CancelOf[c]} \in SUBSET Docs
    BY DEF Docs
  <2>2. stale' \in [Deliveries -> SUBSET Docs]
    BY <1>0, <1>16, <2>1, CommittedType DEF RecordCancelled
  <2> QED
    BY <1>16, <2>2 DEF RecordCancelled, TypeOK, Goto, CancelStates, PaymentStatus
<1>17. CASE Tick
  BY <1>17, SpendType DEF Tick, TypeOK, Disturbances
<1>18. ASSUME NEW s \in subs, ExpireSubscription(s) PROVE TypeOK'
  <2>1. {s.by} \in SUBSET Docs
    BY DEF Docs, TypeOK, Subscription
  <2>2. stale' \in [Deliveries -> SUBSET Docs]
    BY <1>0, <1>18, <2>1, CommittedType DEF ExpireSubscription
  <2>3. [s EXCEPT !.status = "expired"] \in Subscription
    BY ExpiredType DEF TypeOK
  <2> QED
    BY <1>18, <2>2, <2>3 DEF ExpireSubscription, TypeOK
<1>19. CASE FindExpired
  <2>1. \A s \in subs : s.user \in Users
    BY DEF TypeOK, Subscription
  <2> QED
    BY <1>19, <2>1 DEF FindExpired, TypeOK
<1>20. ASSUME NEW u \in Users, ClearPremium(u) PROVE TypeOK'
  <2>1. premium \cap {u} \in SUBSET Docs
    BY DEF Docs
  <2>2. stale' \in [Deliveries -> SUBSET Docs]
    BY <1>0, <1>20, <2>1, CommittedType DEF ClearPremium
  <2> QED
    BY <1>20, <2>2 DEF ClearPremium, TypeOK
<1>21. ASSUME NEW o \in Orders, RemoveUnpaid(o) PROVE TypeOK'
  <2>1. {o} \in SUBSET Docs
    BY DEF Docs
  <2>2. stale' \in [Deliveries -> SUBSET Docs]
    BY <1>0, <1>21, <2>1, CommittedType DEF RemoveUnpaid
  <2>3. budget' \in [Disturbances -> Nat]
    BY <1>21, SpendType DEF RemoveUnpaid, TypeOK, Disturbances
  <2> QED
    BY <1>21, <2>2, <2>3 DEF RemoveUnpaid, TypeOK
<1>22. CASE UNCHANGED vars
  BY <1>22 DEF TypeOK
<1> QED
  BY <1>1, <1>2, <1>3, <1>4, <1>5, <1>6, <1>7, <1>8, <1>9, <1>10, <1>11, <1>12, <1>13,
     <1>14, <1>15, <1>16, <1>17, <1>18, <1>19, <1>20, <1>21, <1>22
     DEF Next, RequestStep, WebhookStep, JobStep, CancelStep, ExpireCron, MorningCron

\* Each action keeps an attempt for the jobs that are not dead
LEMMA AttemptsNext == TypeOK /\ AttemptsLeft /\ [Next]_vars => AttemptsLeft'
<1> SUFFICES ASSUME TypeOK, AttemptsLeft, [Next]_vars, NEW d \in Deliveries, dlv'[d] # "dead"
             PROVE  failures'[d] + 1 <= Attempts
  BY DEF AttemptsLeft
<1> USE DEF vars, recordVars, planVars, jobVars
<1>0. failures[d] \in Nat /\ (dlv[d] # "dead" => failures[d] + 1 <= Attempts)
  BY DEF TypeOK, AttemptsLeft
<1>1. CASE UNCHANGED <<dlv, failures>>
  BY <1>0, <1>1
<1>2. ASSUME NEW e \in Deliveries, UNCHANGED failures, dlv[e] # "dead",
             NEW to, dlv' = [dlv EXCEPT ![e] = to]
      PROVE  failures'[d] + 1 <= Attempts
  BY <1>0, <1>2 DEF TypeOK
<1>3. ASSUME NEW e \in Deliveries, WebhookStep(e) PROVE failures'[d] + 1 <= Attempts
  BY <1>2, <1>3 DEF WebhookStep, ReceiveWebhook, EnqueueJob, MarkPaymentFailed, Goto
<1>4. ASSUME NEW e \in Deliveries, FailJob(e) PROVE failures'[d] + 1 <= Attempts
  <2>1. CASE d = e
    <3>1. dlv'[d] = IF failures[d] + 1 < Attempts THEN "queued" ELSE "dead"
      BY <1>4, <2>1 DEF FailJob, TypeOK
    <3>2. failures[d] + 1 < Attempts /\ failures'[d] = failures[d] + 1
      BY <1>4, <2>1, <3>1 DEF FailJob, TypeOK
    <3> QED
      BY <1>0, <3>2, ConstantsAssumption
  <2>2. CASE d # e
    BY <1>0, <1>4, <2>2 DEF FailJob, TypeOK
  <2> QED
    BY <2>1, <2>2
<1>5. ASSUME NEW e \in Deliveries, CrashWorker(e) PROVE failures'[d] + 1 <= Attempts
  BY <1>2, <1>5 DEF CrashWorker, InTransaction
<1>6. ASSUME NEW e \in Deliveries, BeginJob(e) \/ WriteJob(e) \/ CommitJob(e) \/ CompleteJob(e)
      PROVE  failures'[d] + 1 <= Attempts
  BY <1>2, <1>6 DEF BeginJob, WriteJob, CommitJob, CompleteJob, Goto
<1>7. ASSUME NEW o \in Orders,
             RequestStep(o) \/ RemoveUnpaid(o)
             \/ \E outcome \in {"paid", "failed"} : Settle(o, outcome)
      PROVE  UNCHANGED <<dlv, failures>>
  BY <1>7 DEF RequestStep, OpenLink, StorePayment, RequestFails, RemoveUnpaid, Settle
<1>8. ASSUME NEW c \in CancelRequests, CancelStep(c) PROVE UNCHANGED <<dlv, failures>>
  BY <1>8 DEF CancelStep, CheckCancelled, AskPayos, RecordCancelled
<1>9. CASE ExpireCron \/ MorningCron \/ Tick \/ UNCHANGED vars
  BY <1>1, <1>9 DEF ExpireCron, ExpireSubscription, MorningCron, FindExpired, ClearPremium, Tick
<1> QED
  BY <1>1, <1>3, <1>4, <1>5, <1>6, <1>7, <1>8, <1>9 DEF Next, JobStep

(* Every variable keeps its type; among them that no job is attempted more *)
(* often than BullMQ was told to.                                          *)
THEOREM TypeCorrect == Spec => []TypeOK
<1>1. Init => TypeInv
  BY TypeInit
<1>2. TypeInv /\ [Next]_vars => TypeInv'
  BY TypeNext, AttemptsNext DEF TypeInv
<1>3. TypeInv => TypeOK
  BY DEF TypeInv
<1> QED
  BY <1>1, <1>2, <1>3, PTL DEF Spec

-----------------------------------------------------------------------------
(* One subscription per user and plan.                                     *)

\* A subscription belongs to the user and the plan of the job that made it
Provenance == \A s \in subs : s.user = User(s.by) /\ s.plan = Plan(s.by)

\* Unless the user's document was written since the snapshot of d, what d
\* will write fits the subscriptions there are
DraftInv ==
    \A d \in Open :
        User(d) \notin stale[d] =>
            \/ /\ Existing(d) = {}
               /\ draft[d].by = d /\ draft[d].user = User(d) /\ draft[d].plan = Plan(d)
            \/ \E s \in Existing(d) : s.by = draft[d].by

\* Jobs that wrote are of different users, and their snapshots still hold
LockInv ==
    \A d \in Deliveries :
        dlv[d] = "wrote" =>
            /\ User(d) \notin stale[d]
            /\ \A e \in Deliveries \ {d} : dlv[e] = "wrote" => User(e) # User(d)

SubsInv ==
    /\ OneSubscription
    /\ Provenance
    /\ DraftInv
    /\ LockInv

\* Subscriptions are given a new end or status, but not a new owner
SameOwners ==
    \/ UNCHANGED subs
    \/ \E s \in subs, r \in Subscription :
         /\ r.by = s.by /\ r.user = s.user /\ r.plan = s.plan
         /\ subs' = (subs \ {s}) \cup {r}

\* Then users own what they owned before
LEMMA Replaced ==
    ASSUME SameOwners, OneSubscription, Provenance
    PROVE  /\ OneSubscription' /\ Provenance'
           /\ \A d \in Deliveries : Existing(d) = {} => Existing(d)' = {}
           /\ \A d \in Deliveries : \A s \in Existing(d) :
                 \E t \in Existing(d)' : t.by = s.by
<1>1. CASE UNCHANGED subs
  BY <1>1 DEF OneSubscription, Provenance, Existing, User, Plan
<1>2. ASSUME NEW s \in subs, NEW r \in Subscription,
             r.by = s.by /\ r.user = s.user /\ r.plan = s.plan,
             subs' = (subs \ {s}) \cup {r}
      PROVE  /\ OneSubscription' /\ Provenance'
             /\ \A d \in Deliveries : Existing(d) = {} => Existing(d)' = {}
             /\ \A d \in Deliveries : \A q \in Existing(d) :
                   \E t \in Existing(d)' : t.by = q.by
  <2>1. OneSubscription'
    BY <1>2 DEF OneSubscription
  <2>2. Provenance'
    BY <1>2 DEF Provenance, User, Plan
  <2>3. ASSUME NEW d \in Deliveries, Existing(d) = {} PROVE Existing(d)' = {}
    BY <1>2, <2>3 DEF Existing, User, Plan
  <2>4. ASSUME NEW d \in Deliveries, NEW q \in Existing(d)
        PROVE  \E t \in Existing(d)' : t.by = q.by
    <3>1. CASE q = s
      BY <1>2, <2>4, <3>1 DEF Existing, User, Plan
    <3>2. CASE q # s
      BY <1>2, <2>4, <3>2 DEF Existing, User, Plan
    <3> QED
      BY <3>1, <3>2
  <2> QED
    BY <2>1, <2>2, <2>3, <2>4
<1> QED
  BY <1>1, <1>2 DEF SameOwners

\* Steps that open no transaction, take no lock and write no owner
LEMMA Kept ==
    ASSUME SubsInv, SameOwners, UNCHANGED draft,
           \A e \in Deliveries :
               /\ dlv'[e] \in InTransaction => dlv'[e] = dlv[e]
               /\ dlv'[e] \in InTransaction /\ User(e) \in stale[e] => User(e) \in stale'[e]
               /\ dlv'[e] = "wrote" => User(e) \notin stale'[e]
    PROVE  SubsInv'
<1>1. /\ OneSubscription' /\ Provenance'
      /\ \A d \in Deliveries : Existing(d) = {} => Existing(d)' = {}
      /\ \A d \in Deliveries : \A s \in Existing(d) : \E t \in Existing(d)' : t.by = s.by
  BY Replaced DEF SubsInv
<1>2. LockInv'
  BY DEF SubsInv, LockInv, InTransaction, User
<1>3. ASSUME NEW d \in Open', User(d) \notin stale'[d]
      PROVE  \/ /\ Existing(d)' = {}
                /\ draft'[d].by = d /\ draft'[d].user = User(d) /\ draft'[d].plan = Plan(d)
             \/ \E s \in Existing(d)' : s.by = draft'[d].by
  <2>1. d \in Deliveries /\ d \in Open /\ User(d) \notin stale[d]
    BY <1>3 DEF Open, InTransaction
  <2>2. \/ /\ Existing(d) = {}
           /\ draft[d].by = d /\ draft[d].user = User(d) /\ draft[d].plan = Plan(d)
        \/ \E s \in Existing(d) : s.by = draft[d].by
    BY <2>1 DEF SubsInv, DraftInv
  <2> QED
    BY <1>1, <2>1, <2>2
<1>4. DraftInv'
  BY <1>3 DEF DraftInv, User, Plan
<1> QED
  BY <1>1, <1>2, <1>4 DEF SubsInv

\* Users are neither payments nor subscriptions
LEMMA Disjoint ==
    ASSUME NEW d \in Deliveries
    PROVE  User(d) \in Users /\ User(d) \notin Orders /\ User(d) \notin Deliveries
  BY ConstantsAssumption DEF User

\* A write outside a transaction, to a document no job with the user wrote
LEMMA WriteOutside ==
    ASSUME TypeOK, SubsInv, SameOwners, UNCHANGED <<dlv, draft>>, NEW D,
           stale' = Committed(stale, Open, D),
           \A d \in Deliveries : dlv[d] = "wrote" => User(d) \notin D
    PROVE  SubsInv'
<1> SUFFICES ASSUME NEW e \in Deliveries
             PROVE  /\ User(e) \in stale[e] => User(e) \in stale'[e]
                    /\ dlv'[e] = "wrote" => User(e) \notin stale'[e]
  BY Kept
<1>1. stale'[e] = IF e \in Open THEN stale[e] \cup D ELSE stale[e]
  BY DEF Committed, TypeOK
<1>2. dlv[e] = "wrote" => User(e) \notin stale[e]
  BY DEF SubsInv, LockInv
<1> QED
  BY <1>1, <1>2

\* A job that commits creates the user's subscription or moves its end
LEMMA Stores ==
    ASSUME TypeOK, SubsInv, NEW d \in Deliveries, dlv[d] = "wrote"
    PROVE  \/ /\ Existing(d) = {}
              /\ draft[d].by = d /\ draft[d].user = User(d) /\ draft[d].plan = Plan(d)
              /\ Stored(draft[d]) = subs \cup {draft[d]}
           \/ \E s \in Existing(d), r \in Subscription :
                /\ r.by = s.by /\ r.user = s.user /\ r.plan = s.plan
                /\ Stored(draft[d]) = (subs \ {s}) \cup {r}
<1>1. d \in Open /\ User(d) \notin stale[d]
  BY DEF SubsInv, LockInv, Open, InTransaction
<1>2. \/ /\ Existing(d) = {}
         /\ draft[d].by = d /\ draft[d].user = User(d) /\ draft[d].plan = Plan(d)
      \/ \E s \in Existing(d) : s.by = draft[d].by
  BY <1>1 DEF SubsInv, DraftInv
<1>3. CASE /\ Existing(d) = {}
           /\ draft[d].by = d /\ draft[d].user = User(d) /\ draft[d].plan = Plan(d)
  <2>1. \A s \in subs : s.by # d
    BY <1>3 DEF Existing, SubsInv, Provenance
  <2> QED
    BY <1>3, <2>1 DEF Stored
<1>4. ASSUME NEW s \in Existing(d), s.by = draft[d].by
      PROVE  \E r \in Subscription :
                /\ r.by = s.by /\ r.user = s.user /\ r.plan = s.plan
                /\ Stored(draft[d]) = (subs \ {s}) \cup {r}
  <2>1. s \in subs /\ s \in Subscription
    BY DEF Existing, TypeOK
  <2>2. \A t \in subs : t.by = draft[d].by => t = s
    BY <1>4, <2>1 DEF SubsInv, Provenance, OneSubscription
  <2>3. {t \in subs : t.by = draft[d].by} = {s}
    BY <1>4, <2>1, <2>2
  <2>4. draft[d].end \in Nat
    BY DEF TypeOK, Subscription
  <2> DEFINE r == [s EXCEPT !.end = draft[d].end]
  <2>5. r \in Subscription /\ r.by = s.by /\ r.user = s.user /\ r.plan = s.plan
    BY <2>1, <2>4 DEF Subscription
  <2>6. {[t EXCEPT !.end = draft[d].end] : t \in {s}} = {r}
    OBVIOUS
  <2>7. Stored(draft[d]) = (subs \ {s}) \cup {r}
    BY <2>3, <2>6 DEF Stored
  <2> QED
    BY <2>5, <2>7
<1> QED
  BY <1>2, <1>3, <1>4

\* A commit outdates the snapshots of the user's other jobs, and keeps the rest
LEMMA CommitKeeps ==
    ASSUME TypeOK, SubsInv, NEW d \in Deliveries, CommitJob(d)
    PROVE  SubsInv'
<1>0. /\ dlv[d] = "wrote" /\ dlv' = [dlv EXCEPT ![d] = "committed"]
      /\ subs' = Stored(draft[d]) /\ UNCHANGED draft
      /\ stale' = Forget(Committed(stale, Open, WrittenBy(d)), d)
  BY DEF CommitJob, Goto
<1>1. ASSUME NEW e \in Deliveries, e # d
      PROVE  /\ dlv'[e] = dlv[e]
             /\ e \in Open => stale'[e] = stale[e] \cup WrittenBy(d)
             /\ e \notin Open => stale'[e] = stale[e]
  BY <1>0, <1>1 DEF Forget, Committed, TypeOK
<1>2. dlv'[d] = "committed" /\ stale'[d] = {}
  BY <1>0 DEF Forget, Committed, TypeOK
<1>3. User(d) \in WrittenBy(d)
  BY DEF WrittenBy
<1>4. \A e \in Deliveries : User(e) # User(d) => User(e) \notin WrittenBy(d)
  <2>1. draft[d].by \in Deliveries /\ DeliveryOf[d] \in Orders
    BY ConstantsAssumption DEF TypeOK, Subscription
  <2> QED
    BY <2>1, Disjoint DEF WrittenBy
<1>5. LockInv'
  <2> SUFFICES ASSUME NEW e \in Deliveries, dlv'[e] = "wrote"
               PROVE  /\ User(e) \notin stale'[e]
                      /\ \A f \in Deliveries \ {e} : dlv'[f] = "wrote" => User(f) # User(e)
    BY DEF LockInv, User
  <2>1. e # d /\ dlv[e] = "wrote"
    BY <1>1, <1>2
  <2>2. User(e) # User(d) /\ User(e) \notin stale[e]
    BY <1>0, <2>1 DEF SubsInv, LockInv
  <2>3. User(e) \notin stale'[e]
    BY <1>1, <1>4, <2>1, <2>2
  <2>4. \A f \in Deliveries \ {e} : dlv'[f] = "wrote" => User(f) # User(e)
    BY <1>1, <1>2, <2>1 DEF SubsInv, LockInv
  <2> QED
    BY <2>3, <2>4
<1>6. ASSUME NEW e \in Open', User(e) \notin stale'[e]
      PROVE  /\ e \in Open /\ User(e) \notin stale[e] /\ User(e) # User(d) /\ e # d
  <2>1. e # d /\ e \in Deliveries /\ e \in Open
    BY <1>1, <1>2, <1>6 DEF Open, InTransaction
  <2> QED
    BY <1>1, <1>3, <1>6, <2>1
<1>7. CASE /\ Existing(d) = {}
           /\ draft[d].by = d /\ draft[d].user = User(d) /\ draft[d].plan = Plan(d)
           /\ Stored(draft[d]) = subs \cup {draft[d]}
  <2>1. OneSubscription'
    <3>1. \A s \in subs : ~(s.user = User(d) /\ s.plan = Plan(d))
      BY <1>7 DEF Existing
    <3> QED
      BY <1>0, <1>7, <3>1 DEF SubsInv, OneSubscription
  <2>2. Provenance'
    BY <1>0, <1>7 DEF SubsInv, Provenance, User, Plan
  <2>3. DraftInv'
    <3>1. ASSUME NEW e \in Deliveries, User(e) # User(d) PROVE Existing(e)' = Existing(e)
      BY <1>0, <1>7, <3>1 DEF Existing, User, Plan
    <3>2. Open' \subseteq Deliveries
      BY DEF Open
    <3>3. ASSUME NEW e \in Open', User(e) \notin stale'[e]
          PROVE  \/ /\ Existing(e)' = {}
                    /\ draft'[e].by = e /\ draft'[e].user = User(e) /\ draft'[e].plan = Plan(e)
                 \/ \E s \in Existing(e)' : s.by = draft'[e].by
      BY <1>0, <1>6, <3>1, <3>2, <3>3 DEF SubsInv, DraftInv
    <3> QED
      BY <3>3 DEF DraftInv, User, Plan
  <2> QED
    BY <1>5, <2>1, <2>2, <2>3 DEF SubsInv
<1>8. CASE \E s \in Existing(d), r \in Subscription :
              /\ r.by = s.by /\ r.user = s.user /\ r.plan = s.plan
              /\ Stored(draft[d]) = (subs \ {s}) \cup {r}
  <2>1. SameOwners
    BY <1>0, <1>8 DEF SameOwners, Existing
  <2>2. ASSUME NEW e \in Deliveries
        PROVE  /\ dlv'[e] \in InTransaction => dlv'[e] = dlv[e]
               /\ dlv'[e] \in InTransaction /\ User(e) \in stale[e] => User(e) \in stale'[e]
               /\ dlv'[e] = "wrote" => User(e) \notin stale'[e]
    BY <1>1, <1>2, <1>5 DEF LockInv, InTransaction, User
  <2> QED
    BY <1>0, <2>1, <2>2, Kept
<1> QED
  BY <1>0, <1>7, <1>8, Stores

\* What a job reads in its snapshot, it will write
LEMMA BeginKeeps ==
    ASSUME TypeOK, SubsInv, NEW d \in Deliveries, BeginJob(d)
    PROVE  SubsInv'
<1>0. /\ dlv[d] = "queued" /\ dlv' = [dlv EXCEPT ![d] = "read"]
      /\ UNCHANGED <<subs, stale>>
      /\ \A e \in Deliveries \ {d} : draft'[e] = draft[e]
  BY DEF BeginJob, Goto, planVars, TypeOK
<1>1. /\ dlv'[d] = "read"
      /\ \A e \in Deliveries \ {d} : dlv'[e] = dlv[e]
  BY <1>0 DEF TypeOK
<1>2. OneSubscription' /\ Provenance'
  BY <1>0 DEF SubsInv, OneSubscription, Provenance, User, Plan
<1>3. LockInv'
  BY <1>0, <1>1 DEF SubsInv, LockInv, User
<1>4. \/ /\ Existing(d) = {}
         /\ draft'[d].by = d /\ draft'[d].user = User(d) /\ draft'[d].plan = Plan(d)
      \/ \E s \in Existing(d) : s.by = draft'[d].by
  <2>1. CASE Existing(d) = {} /\ draft' = [draft EXCEPT ![d] = NewSubscription(d)]
    BY <2>1 DEF NewSubscription, TypeOK
  <2>2. ASSUME NEW s \in Existing(d),
               draft' = [draft EXCEPT ![d] = [s EXCEPT !.end = @ + Months[Plan(d)]]]
        PROVE  s.by = draft'[d].by
    <3>1. s \in Subscription
      BY DEF Existing, TypeOK
    <3>2. draft'[d] = [s EXCEPT !.end = @ + Months[Plan(d)]]
      BY <2>2 DEF TypeOK
    <3> QED
      BY <3>1, <3>2 DEF Subscription
  <2> QED
    BY <2>1, <2>2 DEF BeginJob
<1>5. DraftInv'
  <2>1. \A e \in Open' : e \in Deliveries /\ (e # d => e \in Open)
    BY <1>1 DEF Open
  <2>2. \A e \in Deliveries : Existing(e)' = Existing(e)
    BY <1>0 DEF Existing, User, Plan
  <2>3. ASSUME NEW e \in Open', User(e) \notin stale'[e]
        PROVE  \/ /\ Existing(e)' = {}
                  /\ draft'[e].by = e /\ draft'[e].user = User(e) /\ draft'[e].plan = Plan(e)
               \/ \E s \in Existing(e)' : s.by = draft'[e].by
    <3>1. CASE e = d
      BY <1>4, <2>1, <2>2, <3>1
    <3>2. CASE e # d
      BY <1>0, <2>1, <2>2, <2>3, <3>2 DEF SubsInv, DraftInv
    <3> QED
      BY <3>1, <3>2
  <2> QED
    BY <2>3 DEF DraftInv, User, Plan
<1> QED
  BY <1>2, <1>3, <1>5 DEF SubsInv

\* A job writes only if its user is neither locked nor outdated
LEMMA WriteKeeps ==
    ASSUME TypeOK, SubsInv, NEW d \in Deliveries, WriteJob(d)
    PROVE  SubsInv'
<1>0. /\ dlv[d] = "read" /\ dlv' = [dlv EXCEPT ![d] = "wrote"]
      /\ UNCHANGED <<subs, draft, stale>>
  BY DEF WriteJob, Goto, planVars
<1>1. /\ dlv'[d] = "wrote"
      /\ \A e \in Deliveries \ {d} : dlv'[e] = dlv[e]
  BY <1>0 DEF TypeOK
<1>2. User(d) \notin stale[d] /\ User(d) \notin Locked
  BY DEF WriteJob, JobConflict, WriteConflict, WrittenBy
<1>3. \A e \in Deliveries : dlv[e] = "wrote" => User(e) # User(d)
  BY <1>2 DEF Locked, WrittenBy
<1>4. LockInv'
  BY <1>0, <1>1, <1>2, <1>3 DEF SubsInv, LockInv, User
<1>5. OneSubscription' /\ Provenance'
  BY <1>0 DEF SubsInv, OneSubscription, Provenance, User, Plan
<1>6. Open' = Open
  BY <1>0, <1>1 DEF Open, InTransaction
<1>7. DraftInv'
  BY <1>0, <1>6 DEF SubsInv, DraftInv, Existing, User, Plan
<1> QED
  BY <1>4, <1>5, <1>7 DEF SubsInv

\* A delivery that is in no transaction before or after a step
LEMMA Elsewhere ==
    ASSUME TypeOK, SubsInv, UNCHANGED <<subs, draft, stale>>, NEW d \in Deliveries,
           NEW to \in DeliveryStates \ InTransaction, dlv' = [dlv EXCEPT ![d] = to]
    PROVE  SubsInv'
<1> SUFFICES ASSUME NEW e \in Deliveries
             PROVE  /\ dlv'[e] \in InTransaction => dlv'[e] = dlv[e]
                    /\ dlv'[e] = "wrote" => User(e) \notin stale'[e]
  BY Kept DEF SameOwners
<1>1. dlv'[e] = IF e = d THEN to ELSE dlv[e]
  BY DEF TypeOK
<1> QED
  BY <1>1 DEF SubsInv, LockInv, InTransaction

\* A delivery whose transaction aborts
LEMMA AbortKeeps ==
    ASSUME TypeOK, SubsInv, UNCHANGED <<subs, draft>>, NEW d \in Deliveries,
           NEW to \in DeliveryStates \ InTransaction, dlv' = [dlv EXCEPT ![d] = to],
           stale' = Forget(stale, d)
    PROVE  SubsInv'
<1> SUFFICES ASSUME NEW e \in Deliveries
             PROVE  /\ dlv'[e] \in InTransaction => dlv'[e] = dlv[e]
                    /\ dlv'[e] \in InTransaction /\ User(e) \in stale[e] => User(e) \in stale'[e]
                    /\ dlv'[e] = "wrote" => User(e) \notin stale'[e]
  BY Kept DEF SameOwners
<1>1. /\ dlv'[e] = IF e = d THEN to ELSE dlv[e]
      /\ stale'[e] = IF e = d THEN {} ELSE stale[e]
  BY DEF TypeOK, Forget
<1> QED
  BY <1>1 DEF SubsInv, LockInv, InTransaction

\* Steps that touch no job and no subscription
LEMMA Unrelated == SubsInv /\ UNCHANGED <<subs, dlv, draft, stale>> => SubsInv'
  BY DEF SubsInv, OneSubscription, Provenance, DraftInv, LockInv, Existing, Open, User, Plan

\* Each action keeps the invariant
LEMMA SubsNext == TypeOK /\ SubsInv /\ [Next]_vars => SubsInv'
<1> SUFFICES ASSUME TypeOK, SubsInv, [Next]_vars PROVE SubsInv'
  OBVIOUS
<1> USE DEF vars, recordVars, planVars, jobVars
<1>1. ASSUME NEW o \in Orders,
             RequestStep(o) \/ \E outcome \in {"paid", "failed"} : Settle(o, outcome)
      PROVE  SubsInv'
  BY <1>1, Unrelated DEF RequestStep, OpenLink, StorePayment, RequestFails, Settle
<1>2. ASSUME NEW d \in Deliveries, ReceiveWebhook(d) PROVE SubsInv'
  BY <1>2, Elsewhere DEF ReceiveWebhook, Goto, DeliveryStates, JobStates, InTransaction
<1>3. ASSUME NEW d \in Deliveries, EnqueueJob(d) PROVE SubsInv'
  BY <1>3, Elsewhere DEF EnqueueJob, Goto, DeliveryStates, JobStates, InTransaction
<1>4. ASSUME NEW d \in Deliveries, MarkPaymentFailed(d) PROVE SubsInv'
  <2> DEFINE o == DeliveryOf[d]
  <2>1. /\ dlv[d] = "found" /\ dlv' = [dlv EXCEPT ![d] = "refused"] /\ o \in Orders
        /\ UNCHANGED <<subs, draft>> /\ stale' = Committed(stale, Open, {o})
    BY <1>4, ConstantsAssumption DEF MarkPaymentFailed, Goto
  <2> SUFFICES ASSUME NEW e \in Deliveries
               PROVE  /\ dlv'[e] \in InTransaction => dlv'[e] = dlv[e]
                      /\ User(e) \in stale[e] => User(e) \in stale'[e]
                      /\ dlv'[e] = "wrote" => User(e) \notin stale'[e]
    BY <2>1, Kept DEF SameOwners
  <2>2. dlv'[e] = IF e = d THEN "refused" ELSE dlv[e]
    BY <2>1 DEF TypeOK
  <2>3. stale'[e] = IF e \in Open THEN stale[e] \cup {o} ELSE stale[e]
    BY <2>1 DEF Committed, TypeOK
  <2>4. User(e) # o
    BY <2>1, Disjoint
  <2> QED
    BY <2>2, <2>3, <2>4 DEF SubsInv, LockInv, InTransaction
<1>5. ASSUME NEW d \in Deliveries, CompleteJob(d) PROVE SubsInv'
  BY <1>5, Elsewhere DEF CompleteJob, Goto, DeliveryStates, JobStates, InTransaction
<1>6. ASSUME NEW d \in Deliveries, FailJob(d) PROVE SubsInv'
  <2> DEFINE to == IF failures[d] + 1 < Attempts THEN "queued" ELSE "dead"
  <2>1. /\ dlv' = [dlv EXCEPT ![d] = to] /\ stale' = Forget(stale, d)
        /\ UNCHANGED <<subs, draft>>
    BY <1>6 DEF FailJob
  <2>2. to \in {"queued", "dead"}
    OBVIOUS
  <2>3. to \in DeliveryStates \ InTransaction
    BY <2>2 DEF DeliveryStates, JobStates, InTransaction
  <2> HIDE DEF to
  <2> QED
    BY <2>1, <2>3, AbortKeeps
<1>7. ASSUME NEW d \in Deliveries, CrashWorker(d) PROVE SubsInv'
  BY <1>7, AbortKeeps DEF CrashWorker, DeliveryStates, JobStates, InTransaction
<1>8. ASSUME NEW c \in CancelRequests, CheckCancelled(c) \/ AskPayos(c) PROVE SubsInv'
  BY <1>8, Unrelated DEF CheckCancelled, AskPayos
<1>9. ASSUME NEW c \in CancelRequests, RecordCancelled(c) PROVE SubsInv'
  BY <1>9, WriteOutside, Disjoint, ConstantsAssumption DEF RecordCancelled, SameOwners
<1>10. ASSUME NEW s \in subs, ExpireSubscription(s) PROVE SubsInv'
  <2> DEFINE r == [s EXCEPT !.status = "expired"]
  <2>1. s \in Subscription
    BY DEF TypeOK
  <2>2. r \in Subscription /\ r.by = s.by /\ r.user = s.user /\ r.plan = s.plan
    BY <2>1, ExpiredType DEF Subscription
  <2>3. s.by \in Deliveries
    BY <2>1 DEF Subscription
  <2>4. SameOwners
    BY <1>10, <2>2 DEF ExpireSubscription, SameOwners
  <2>5. \A d \in Deliveries : User(d) \notin {s.by}
    BY <2>3, Disjoint
  <2> QED
    BY <1>10, <2>4, <2>5, WriteOutside DEF ExpireSubscription
<1>11. ASSUME NEW u \in Users, ClearPremium(u) PROVE SubsInv'
  <2>1. \A d \in Deliveries : dlv[d] = "wrote" => User(d) # u
    BY <1>11 DEF ClearPremium, Locked, WrittenBy
  <2> QED
    BY <1>11, <2>1, WriteOutside DEF ClearPremium, SameOwners
<1>12. ASSUME NEW o \in Orders, RemoveUnpaid(o) PROVE SubsInv'
  BY <1>12, WriteOutside, Disjoint DEF RemoveUnpaid, SameOwners
<1>13. CASE Tick \/ FindExpired \/ UNCHANGED vars
  BY <1>13, Unrelated DEF Tick, FindExpired
<1> QED
  BY <1>1, <1>2, <1>3, <1>4, <1>5, <1>6, <1>7, <1>8, <1>9, <1>10, <1>11, <1>12, <1>13,
     BeginKeeps, WriteKeeps, CommitKeeps
     DEF Next, WebhookStep, JobStep, CancelStep, ExpireCron, MorningCron

(* A user has one subscription to a plan, whatever jobs run at once: jobs  *)
(* of one user conflict on the user's document, written in the same        *)
(* transaction as the subscription.                                        *)
THEOREM OneSubscriptionCorrect == Spec => []OneSubscription
<1>1. Init => TypeInv /\ SubsInv
  BY TypeInit DEF Init, SubsInv, OneSubscription, Provenance, DraftInv, LockInv, Open, InTransaction
<1>2. TypeInv /\ SubsInv /\ [Next]_vars => (TypeInv /\ SubsInv)'
  BY TypeNext, AttemptsNext, SubsNext DEF TypeInv
<1>3. TypeInv /\ SubsInv => OneSubscription
  BY DEF SubsInv
<1> QED
  BY <1>1, <1>2, <1>3, PTL DEF Spec


-----------------------------------------------------------------------------
(* What is stored agrees with PayOS, and is the life cycle of an order.    *)

\* A payment is stored after its link was opened, and PayOS settles it later
RequestInv ==
    \A o \in Orders :
        /\ req[o] = "start" => link[o] = "none"
        /\ req[o] \in {"start", "store"} => payment[o] = "none"
        /\ link[o] \in {"paid", "failed", "cancelled"} => payment[o] # "none"

DeliveryInv ==
    \A d \in Deliveries : dlv[d] \in JobStates => link[DeliveryOf[d]] = "paid"

CancelInv ==
    \A c \in CancelRequests :
        /\ cancel[c] = "asking" => payment[CancelOf[c]] # "none"
        /\ cancel[c] = "answered" => link[CancelOf[c]] = "cancelled"

CreditedIffSucceeded == \A o \in Orders : credited[o] > 0 <=> payment[o] = "succeeded"

OutcomeInv ==
    /\ StatusMatchesPayos
    /\ CreditedIffSucceeded
    /\ RequestInv
    /\ DeliveryInv
    /\ CancelInv

LEMMA OutcomeInit == Init => OutcomeInv
  BY ConstantsAssumption
     DEF Init, OutcomeInv, StatusMatchesPayos, CreditedIffSucceeded, RequestInv, DeliveryInv,
         CancelInv, JobStates, InTransaction

\* The variables the invariant speaks of
outcomeVars == <<link, payment, credited, req, dlv, cancel>>

\* Each action keeps the invariant
LEMMA OutcomeNext == TypeOK /\ OutcomeInv /\ [Next]_vars => OutcomeInv'
<1> SUFFICES ASSUME TypeOK, OutcomeInv, [Next]_vars PROVE OutcomeInv'
  OBVIOUS
<1> USE ConstantsAssumption
        DEF vars, recordVars, planVars, jobVars, OutcomeInv, StatusMatchesPayos,
            CreditedIffSucceeded, RequestInv, DeliveryInv, CancelInv
<1>0. /\ link \in [Orders -> LinkStates]
      /\ payment \in [Orders -> PaymentStatus]
      /\ credited \in [Orders -> Nat]
      /\ req \in [Orders -> RequestStates]
      /\ dlv \in [Deliveries -> DeliveryStates]
      /\ cancel \in [CancelRequests -> CancelStates]
  BY DEF TypeOK
<1>1. ASSUME NEW o \in Orders, OpenLink(o) PROVE OutcomeInv'
  BY <1>0, <1>1 DEF OpenLink, Goto, JobStates, InTransaction
<1>2. ASSUME NEW o \in Orders, StorePayment(o) PROVE OutcomeInv'
  BY <1>0, <1>2 DEF StorePayment, Goto
<1>3. ASSUME NEW o \in Orders, RequestFails(o) PROVE OutcomeInv'
  BY <1>0, <1>3 DEF RequestFails, Goto
<1>4. ASSUME NEW o \in Orders, NEW s \in {"paid", "failed"}, Settle(o, s) PROVE OutcomeInv'
  BY <1>0, <1>4 DEF Settle, JobStates, InTransaction
<1>5. ASSUME NEW d \in Deliveries, ReceiveWebhook(d) \/ EnqueueJob(d) PROVE OutcomeInv'
  BY <1>0, <1>5 DEF ReceiveWebhook, EnqueueJob, Goto, JobStates, InTransaction
<1>6. ASSUME NEW d \in Deliveries, MarkPaymentFailed(d) PROVE OutcomeInv'
  BY <1>0, <1>6 DEF MarkPaymentFailed, Goto, JobStates, InTransaction
<1>7. ASSUME NEW d \in Deliveries, BeginJob(d) \/ WriteJob(d) \/ CompleteJob(d) PROVE OutcomeInv'
  BY <1>0, <1>7 DEF BeginJob, WriteJob, CompleteJob, Goto, JobStates, InTransaction
<1>8. ASSUME NEW d \in Deliveries, CommitJob(d) PROVE OutcomeInv'
  BY <1>0, <1>8 DEF CommitJob, Goto, JobStates, InTransaction
<1>9. ASSUME NEW d \in Deliveries, FailJob(d) \/ CrashWorker(d) PROVE OutcomeInv'
  BY <1>0, <1>9 DEF FailJob, CrashWorker, JobStates, InTransaction
<1>10. ASSUME NEW c \in CancelRequests, CheckCancelled(c) PROVE OutcomeInv'
  BY <1>0, <1>10 DEF CheckCancelled, Goto
<1>11. ASSUME NEW c \in CancelRequests, AskPayos(c) PROVE OutcomeInv'
  BY <1>0, <1>11 DEF AskPayos, Goto, JobStates, InTransaction
<1>12. ASSUME NEW c \in CancelRequests, RecordCancelled(c) PROVE OutcomeInv'
  BY <1>0, <1>12 DEF RecordCancelled, Goto
<1>13. CASE UNCHANGED outcomeVars
  BY <1>13 DEF outcomeVars
<1>14. ASSUME \/ ExpireCron \/ MorningCron \/ Tick \/ UNCHANGED vars
              \/ \E o \in Orders : RemoveUnpaid(o)
       PROVE  UNCHANGED outcomeVars
  BY <1>14 DEF ExpireCron, ExpireSubscription, MorningCron, FindExpired, ClearPremium, Tick,
               RemoveUnpaid, outcomeVars
<1> QED
  BY <1>1, <1>2, <1>3, <1>4, <1>5, <1>6, <1>7, <1>8, <1>9, <1>10, <1>11, <1>12, <1>13, <1>14
     DEF Next, RequestStep, WebhookStep, JobStep, CancelStep

(* The status stored for a payment never contradicts PayOS, for any number *)
(* of orders, webhooks, jobs and cancel requests.                          *)
THEOREM OutcomeCorrect == Spec => []StatusMatchesPayos
<1>1. OutcomeInv => StatusMatchesPayos
  BY DEF OutcomeInv
<1> QED
  BY <1>1, OutcomeInit, OutcomeNext, TypeCorrect, PTL DEF Spec

\* What the life cycle calls the purchase of an order
Purchase == [o \in Orders |-> IF payment[o] = "none" THEN "none"
                              ELSE IF credited[o] = 0 THEN "pending" ELSE "confirmed"]

\* Only four actions touch a payment or what it has bought
LEMMA RecordSteps ==
    ASSUME [Next]_vars
    PROVE  \/ UNCHANGED <<payment, credited>>
           \/ \E o \in Orders : StorePayment(o)
           \/ \E d \in Deliveries : MarkPaymentFailed(d) \/ CommitJob(d)
           \/ \E c \in CancelRequests : RecordCancelled(c)
<1> USE DEF recordVars, planVars
<1>1. ASSUME NEW o \in Orders,
             RequestStep(o) \/ RemoveUnpaid(o) \/ \E s \in {"paid", "failed"} : Settle(o, s)
      PROVE  UNCHANGED <<payment, credited>> \/ StorePayment(o)
  BY <1>1 DEF RequestStep, OpenLink, RequestFails, RemoveUnpaid, Settle
<1>2. ASSUME NEW d \in Deliveries, WebhookStep(d) \/ JobStep(d) \/ CrashWorker(d)
      PROVE  UNCHANGED <<payment, credited>> \/ MarkPaymentFailed(d) \/ CommitJob(d)
  BY <1>2 DEF WebhookStep, ReceiveWebhook, EnqueueJob, JobStep, BeginJob, WriteJob, CompleteJob,
              FailJob, CrashWorker
<1>3. ASSUME NEW c \in CancelRequests, CancelStep(c)
      PROVE  UNCHANGED <<payment, credited>> \/ RecordCancelled(c)
  BY <1>3 DEF CancelStep, CheckCancelled, AskPayos
<1>4. CASE ExpireCron \/ MorningCron \/ Tick \/ UNCHANGED vars
  BY <1>4 DEF ExpireCron, ExpireSubscription, MorningCron, FindExpired, ClearPremium, Tick, vars
<1> QED
  BY <1>1, <1>2, <1>3, <1>4 DEF Next

\* Each of them is a step of the life cycle, or none
LEMMA LifecycleNext ==
    ASSUME TypeOK, OutcomeInv, [Next]_vars
    PROVE  [Lifecycle!Next]_<<payment, Purchase>>
<1>0. payment \in [Orders -> PaymentStatus] /\ credited \in [Orders -> Nat]
  BY DEF TypeOK
<1>1. ASSUME NEW o \in Orders, StorePayment(o) PROVE Lifecycle!Create(o)
  <2>1. payment[o] = "none" /\ payment' = [payment EXCEPT ![o] = "pending"] /\ credited' = credited
        /\ credited[o] = 0
    BY <1>0, <1>1 DEF StorePayment, Goto, OutcomeInv, RequestInv, CreditedIffSucceeded, planVars
  <2> QED
    BY <1>0, <2>1 DEF Lifecycle!Create
<1>2. ASSUME NEW d \in Deliveries, MarkPaymentFailed(d)
      PROVE  Lifecycle!Close(DeliveryOf[d]) \/ UNCHANGED <<payment, Purchase>>
  <2> DEFINE o == DeliveryOf[d]
  <2>1. /\ o \in Orders /\ link[o] = "failed" /\ payment[o] # "none"
        /\ payment' = [payment EXCEPT ![o] = "failed"] /\ credited' = credited
    BY <1>2, ConstantsAssumption DEF MarkPaymentFailed, OutcomeInv, RequestInv, planVars
  <2>2. payment[o] \in {"pending", "failed"}
    BY <1>0, <2>1 DEF OutcomeInv, StatusMatchesPayos, PaymentStatus
  <2>3. Purchase' = Purchase
    BY <1>0, <2>1 DEF Purchase
  <2> QED
    BY <1>0, <2>1, <2>2, <2>3 DEF Lifecycle!Close, Purchase
<1>3. ASSUME NEW d \in Deliveries, CommitJob(d)
      PROVE  Lifecycle!Fulfil(DeliveryOf[d]) \/ UNCHANGED <<payment, Purchase>>
  <2> DEFINE o == DeliveryOf[d]
  <2>1. /\ o \in Orders /\ link[o] = "paid" /\ payment[o] # "none"
        /\ payment' = [payment EXCEPT ![o] = "succeeded"]
        /\ credited' = [credited EXCEPT ![o] = @ + 1]
    BY <1>3, ConstantsAssumption
       DEF CommitJob, Goto, OutcomeInv, DeliveryInv, RequestInv, JobStates, InTransaction
  <2>2. payment[o] \in {"pending", "succeeded"}
    BY <1>0, <2>1 DEF OutcomeInv, StatusMatchesPayos, PaymentStatus
  <2>3. (payment[o] = "succeeded" => credited[o] > 0) /\ credited[o] \in Nat
    BY <1>0, <2>1 DEF OutcomeInv, CreditedIffSucceeded
  <2> HIDE DEF o
  <2>4. Purchase' = [Purchase EXCEPT ![o] = "confirmed"]
    <3>1. payment'[o] = "succeeded" /\ credited'[o] # 0
      BY <1>0, <2>1, <2>3
    <3>2. \A x \in Orders : x # o => payment'[x] = payment[x] /\ credited'[x] = credited[x]
      BY <1>0, <2>1
    <3> QED
      BY <2>1, <3>1, <3>2 DEF Purchase
  <2>5. CASE payment[o] = "succeeded"
    <3>1. Purchase[o] = "confirmed" /\ payment' = payment
      BY <1>0, <2>1, <2>3, <2>5 DEF Purchase
    <3> QED
      BY <2>4, <3>1 DEF Purchase
  <2>6. CASE payment[o] = "pending"
    <3>1. Lifecycle!Fulfil(o)
      BY <2>1, <2>4, <2>6 DEF Lifecycle!Fulfil, Purchase
    <3> QED
      BY <3>1 DEF o
  <2> QED
    BY <2>2, <2>5, <2>6
<1>4. ASSUME NEW c \in CancelRequests, RecordCancelled(c)
      PROVE  Lifecycle!Close(CancelOf[c]) \/ UNCHANGED <<payment, Purchase>>
  <2> DEFINE o == CancelOf[c]
  <2>1. /\ o \in Orders /\ link[o] = "cancelled" /\ payment[o] # "none"
        /\ payment' = [payment EXCEPT ![o] = "cancelled"] /\ credited' = credited
    BY <1>4, ConstantsAssumption
       DEF RecordCancelled, Goto, OutcomeInv, CancelInv, RequestInv, planVars
  <2>2. payment[o] \in {"pending", "cancelled"}
    BY <1>0, <2>1 DEF OutcomeInv, StatusMatchesPayos, PaymentStatus
  <2>3. Purchase' = Purchase
    BY <1>0, <2>1 DEF Purchase
  <2> QED
    BY <1>0, <2>1, <2>2, <2>3 DEF Lifecycle!Close, Purchase
<1>5. ASSUME UNCHANGED <<payment, credited>> PROVE UNCHANGED <<payment, Purchase>>
  BY <1>5 DEF Purchase
<1> QED
  BY <1>1, <1>2, <1>3, <1>4, <1>5, RecordSteps, ConstantsAssumption DEF Lifecycle!Next

(* A payment and the subscription it buys follow the life cycle: one       *)
(* outcome, kept, and the credit in the very step that records a success.  *)
THEOREM PlanPaymentImplementsLifecycle == Spec => ImplementsLifecycle
<1>1. Init => Lifecycle!Init
  BY DEF Init, Lifecycle!Init
<1>2. TypeOK /\ OutcomeInv /\ [Next]_vars => [Lifecycle!Next]_<<payment, Purchase>>
  BY LifecycleNext
<1> QED
  BY <1>1, <1>2, OutcomeInit, OutcomeNext, TypeCorrect, PTL
     DEF Spec, Lifecycle!Spec, ImplementsLifecycle, Purchase


-----------------------------------------------------------------------------
(* How often a payment is credited                                         *)

\* Sets of deliveries are finite
LEMMA Counted ==
    ASSUME NEW S \in SUBSET Deliveries
    PROVE  /\ IsFiniteSet(S) /\ Cardinality(S) \in Nat
           /\ \A T \in SUBSET S : Cardinality(T) <= Cardinality(S)
           /\ \A d \in S : Cardinality(S \ {d}) = Cardinality(S) - 1
           /\ \A d \in Deliveries \ S : Cardinality(S \cup {d}) = Cardinality(S) + 1
<1>1. IsFiniteSet(S)
  BY FS_Subset, ConstantsAssumption
<1>2. Cardinality(S) \in Nat
  BY <1>1, FS_CardinalityType
<1>3. \A T \in SUBSET S : Cardinality(T) <= Cardinality(S)
  BY <1>1, FS_Subset
<1>4. \A d \in S : Cardinality(S \ {d}) = Cardinality(S) - 1
  BY <1>1, FS_RemoveElement
<1>5. \A d \in Deliveries \ S : Cardinality(S \cup {d}) = Cardinality(S) + 1
  BY <1>1, FS_AddElement
<1> QED
  BY <1>1, <1>2, <1>3, <1>4, <1>5

\* Nothing is credited, and runs only pass
RunsKept ==
    /\ credited' = credited
    /\ \A o \in Orders : Passed(o) \subseteq Passed(o)' /\ Stalled(o) \subseteq Stalled(o)'

\* All steps but commits and crashes are such
LEMMA RunSteps ==
    ASSUME TypeOK, [Next]_vars
    PROVE  RunsKept \/ \E d \in Deliveries : CommitJob(d) \/ CrashWorker(d)
<1>0. dlv \in [Deliveries -> DeliveryStates]
  BY DEF TypeOK
<1>1. ASSUME NEW d \in Deliveries, credited' = credited, stalled' = stalled,
             dlv[d] \notin {"committed", "completed", "dead"} \/ dlv'[d] = "completed",
             \A e \in Deliveries : e # d => dlv'[e] = dlv[e]
      PROVE  RunsKept
  BY <1>0, <1>1 DEF Passed, Stalled, RunsKept
<1>2. ASSUME UNCHANGED <<credited, stalled, dlv>> PROVE RunsKept
  BY <1>2 DEF Passed, Stalled, RunsKept
<1> USE DEF recordVars, planVars, jobVars
<1>3. ASSUME NEW o \in Orders,
             RequestStep(o) \/ RemoveUnpaid(o) \/ \E s \in {"paid", "failed"} : Settle(o, s)
      PROVE  RunsKept
  BY <1>2, <1>3 DEF RequestStep, OpenLink, StorePayment, RequestFails, RemoveUnpaid, Settle
<1>4. ASSUME NEW c \in CancelRequests, CancelStep(c) PROVE RunsKept
  BY <1>2, <1>4 DEF CancelStep, CheckCancelled, AskPayos, RecordCancelled
<1>5. CASE ExpireCron \/ MorningCron \/ Tick \/ UNCHANGED vars
  BY <1>2, <1>5 DEF ExpireCron, ExpireSubscription, MorningCron, FindExpired, ClearPremium, Tick,
                    vars
<1>6. ASSUME NEW d \in Deliveries, WebhookStep(d) PROVE RunsKept
  BY <1>0, <1>1, <1>6 DEF WebhookStep, ReceiveWebhook, EnqueueJob, MarkPaymentFailed, Goto
<1>7. ASSUME NEW d \in Deliveries, JobStep(d) PROVE RunsKept \/ CommitJob(d)
  <2>1. CASE BeginJob(d) \/ WriteJob(d) \/ CompleteJob(d)
    BY <1>0, <1>1, <2>1 DEF BeginJob, WriteJob, CompleteJob, Goto
  <2>2. CASE FailJob(d)
    BY <1>0, <1>1, <2>2 DEF FailJob, InTransaction
  <2> QED
    BY <1>7, <2>1, <2>2 DEF JobStep
<1> QED
  BY <1>3, <1>4, <1>5, <1>6, <1>7 DEF Next

LEMMA CreditedNext ==
    ASSUME TypeOK, TypeOK', CreditedPerRun, [Next]_vars
    PROVE  CreditedPerRun'
<1> SUFFICES ASSUME NEW o \in Orders
             PROVE  credited'[o] <= Cardinality(Passed(o)') + Cardinality(Stalled(o)')
  BY DEF CreditedPerRun
<1>1. /\ credited \in [Orders -> Nat] /\ credited[o] <= Cardinality(Passed(o)) + Cardinality(Stalled(o))
      /\ dlv \in [Deliveries -> DeliveryStates] /\ stalled \subseteq Deliveries
  BY DEF CreditedPerRun, TypeOK
<1>2. Passed(o) \in SUBSET Deliveries /\ Stalled(o) \in SUBSET Deliveries
  BY <1>1 DEF Passed, Stalled
<1>3. Passed(o)' \in SUBSET Deliveries /\ Stalled(o)' \in SUBSET Deliveries
  BY DEF Passed, Stalled, TypeOK
<1>4. PICK p, t, p1, t1 \in Nat :
        /\ p = Cardinality(Passed(o)) /\ t = Cardinality(Stalled(o))
        /\ p1 = Cardinality(Passed(o)') /\ t1 = Cardinality(Stalled(o)')
  BY <1>2, <1>3, Counted
<1>5. ASSUME Passed(o) \subseteq Passed(o)' PROVE p <= p1
  BY <1>3, <1>4, <1>5, Counted
<1>6. ASSUME Stalled(o) \subseteq Stalled(o)' PROVE t <= t1
  BY <1>3, <1>4, <1>6, Counted
<1>7. CASE RunsKept
  BY <1>1, <1>4, <1>5, <1>6, <1>7 DEF RunsKept
<1>8. ASSUME NEW d \in Deliveries, CommitJob(d)
      PROVE  credited'[o] <= p1 + t1
  <2>1. /\ dlv[d] = "wrote" /\ dlv' = [dlv EXCEPT ![d] = "committed"] /\ stalled' = stalled
        /\ credited' = [credited EXCEPT ![DeliveryOf[d]] = @ + 1]
    BY <1>8 DEF CommitJob, Goto
  <2>2. Stalled(o) \subseteq Stalled(o)'
    BY <2>1 DEF Stalled
  <2>3. CASE DeliveryOf[d] = o
    <3>1. Passed(o)' = Passed(o) \cup {d} /\ d \notin Passed(o)
      BY <1>1, <2>1, <2>3 DEF Passed
    <3>2. p1 = p + 1
      BY <1>2, <1>4, <3>1, Counted
    <3>3. credited'[o] = credited[o] + 1
      BY <1>1, <2>1, <2>3
    <3> QED
      BY <1>1, <1>4, <1>6, <2>2, <3>2, <3>3
  <2>4. CASE DeliveryOf[d] # o
    <3>1. Passed(o) \subseteq Passed(o)'
      BY <1>1, <2>1, <2>4 DEF Passed
    <3>2. credited'[o] = credited[o]
      BY <1>1, <2>1, <2>4
    <3> QED
      BY <1>1, <1>4, <1>5, <1>6, <2>2, <3>1, <3>2
  <2> QED
    BY <2>3, <2>4
<1>9. ASSUME NEW d \in Deliveries, CrashWorker(d)
      PROVE  credited'[o] <= p1 + t1
  <2>1. /\ dlv[d] \in InTransaction \cup {"committed"} /\ stalled' = stalled \cup {d}
        /\ dlv' = [dlv EXCEPT ![d] = IF d \in stalled THEN "dead" ELSE "queued"]
        /\ credited' = credited
    BY <1>9 DEF CrashWorker, planVars
  <2>2. Stalled(o) \subseteq Stalled(o)'
    BY <2>1 DEF Stalled
  <2>3. CASE d \in stalled \/ DeliveryOf[d] # o
    <3>1. Passed(o) \subseteq Passed(o)'
      BY <1>1, <2>1, <2>3 DEF Passed
    <3> QED
      BY <1>1, <1>4, <1>5, <1>6, <2>1, <2>2, <3>1
  <2>4. CASE d \notin stalled /\ DeliveryOf[d] = o
    <3>1. Stalled(o)' = Stalled(o) \cup {d} /\ d \notin Stalled(o)
      BY <2>1, <2>4 DEF Stalled
    <3>2. t1 = t + 1
      BY <1>2, <1>4, <3>1, Counted
    <3>3. Passed(o) \ {d} \subseteq Passed(o)'
      BY <1>1, <2>1 DEF Passed
    <3>4. Cardinality(Passed(o) \ {d}) <= p1
      BY <1>3, <1>4, <3>3, Counted
    <3>5. Cardinality(Passed(o) \ {d}) >= p - 1
      <4>1. CASE d \in Passed(o)
        BY <1>2, <1>4, <4>1, Counted
      <4>2. CASE d \notin Passed(o)
        <5>1. Passed(o) \ {d} = Passed(o)
          BY <4>2
        <5> QED
          BY <1>4, <5>1
      <4> QED
        BY <4>1, <4>2
    <3>6. Cardinality(Passed(o) \ {d}) \in Nat
      <4>1. Passed(o) \ {d} \in SUBSET Deliveries
        BY <1>2
      <4> QED
        BY <4>1, Counted
    <3> QED
      BY <1>1, <1>4, <2>1, <3>2, <3>4, <3>5, <3>6
  <2> QED
    BY <2>3, <2>4
<1> QED
  BY <1>4, <1>7, <1>8, <1>9, RunSteps

(* A delivery credits its payment once, and a second time at most if its   *)
(* worker died, for any number of deliveries, attempts and crashes.        *)
THEOREM CreditsCorrect == Spec => []CreditedPerRun
<1>1. ASSUME Init PROVE CreditedPerRun
  <2> SUFFICES ASSUME NEW o \in Orders
               PROVE  credited[o] <= Cardinality(Passed(o)) + Cardinality(Stalled(o))
    BY DEF CreditedPerRun
  <2>1. credited[o] = 0 /\ Stalled(o) \in SUBSET Deliveries /\ Passed(o) \in SUBSET Deliveries
    BY <1>1 DEF Init, Stalled, Passed
  <2>2. Cardinality(Passed(o)) \in Nat /\ Cardinality(Stalled(o)) \in Nat
    BY <2>1, Counted
  <2> QED
    BY <2>1, <2>2
<1> QED
  BY <1>1, CreditedNext, TypeCorrect, PTL DEF Spec

-----------------------------------------------------------------------------
(* No extension is lost                                                    *)

\* What was bought has a subscription, and that lasts long enough
Served == \A o \in Orders :
    payment[o] = "succeeded" => \E s \in subs : s.user = Owner[o] /\ s.plan = PlanOf[o]

Lasts == \A s \in subs :
    s.end >= s.from + Months[s.plan] * Cardinality(Bought(s.user, s.plan))

\* Unless the user's document was written since the snapshot of d, d adds the
\* months of its plan to what there is
EndInv ==
    \A d \in Open :
        User(d) \notin stale[d] =>
            \/ Existing(d) = {} /\ draft[d].end = draft[d].from + Months[Plan(d)]
            \/ \E s \in Existing(d) : draft[d].end = s.end + Months[Plan(d)]

ExtensionInv == Served /\ Lasts /\ EndInv

\* Sets of orders are finite
LEMMA OrdersCounted ==
    ASSUME NEW S \in SUBSET Orders
    PROVE  /\ Cardinality(S) \in Nat
           /\ \A o \in Orders : Cardinality(S \cup {o}) \in {Cardinality(S), Cardinality(S) + 1}
<1>1. IsFiniteSet(S)
  BY FS_Subset, ConstantsAssumption
<1> QED
  BY <1>1, FS_CardinalityType, FS_AddElement

LEMMA BoughtType == \A u, p : Bought(u, p) \in SUBSET Orders
  BY DEF Bought

\* Subscriptions that last equally long
SameSpan(s, t) == s.user = t.user /\ s.plan = t.plan /\ s.from = t.from /\ s.end = t.end

SameSpans ==
    \/ UNCHANGED subs
    \/ \E s \in subs, r \in Subscription : SameSpan(s, r) /\ subs' = (subs \ {s}) \cup {r}

\* Steps that open no transaction, add no success and move no end
LEMMA QuietKeeps ==
    ASSUME ExtensionInv, SameSpans, UNCHANGED draft,
           \A o \in Orders : payment'[o] = "succeeded" <=> payment[o] = "succeeded",
           \A e \in Deliveries : dlv'[e] \in InTransaction =>
               dlv[e] \in InTransaction /\ (User(e) \in stale[e] => User(e) \in stale'[e])
    PROVE  ExtensionInv'
<1>1. \A s \in subs : \E t \in subs' : SameSpan(s, t)
  BY DEF SameSpans, SameSpan
<1>2. \A t \in subs' : \E s \in subs : SameSpan(s, t)
  BY DEF SameSpans, SameSpan
<1>3. Served'
  BY <1>1 DEF ExtensionInv, Served, SameSpan
<1>4. \A u, p : Bought(u, p)' = Bought(u, p)
  BY DEF Bought
<1>5. Lasts'
  <2> SUFFICES ASSUME NEW t \in subs'
               PROVE  t.end >= t.from + Months[t.plan] * Cardinality(Bought(t.user, t.plan))
    BY <1>4 DEF Lasts
  <2>1. PICK s \in subs : SameSpan(s, t)
    BY <1>2
  <2>2. s.end >= s.from + Months[s.plan] * Cardinality(Bought(s.user, s.plan))
    BY DEF ExtensionInv, Lasts
  <2> QED
    BY <2>1, <2>2 DEF SameSpan
<1>6. ASSUME NEW e \in Open', User(e) \notin stale'[e]
      PROVE  \/ Existing(e)' = {} /\ draft'[e].end = draft'[e].from + Months[Plan(e)]
             \/ \E s \in Existing(e)' : draft'[e].end = s.end + Months[Plan(e)]
  <2>1. e \in Deliveries /\ e \in Open /\ User(e) \notin stale[e]
    BY <1>6 DEF Open
  <2>2. CASE Existing(e) = {} /\ draft[e].end = draft[e].from + Months[Plan(e)]
    <3>1. Existing(e)' = {}
      BY <1>2, <2>2 DEF Existing, SameSpan, User, Plan
    <3> QED
      BY <2>2, <3>1
  <2>3. ASSUME NEW s \in Existing(e), draft[e].end = s.end + Months[Plan(e)]
        PROVE  \E t \in Existing(e)' : draft'[e].end = t.end + Months[Plan(e)]
    <3>1. PICK t \in subs' : SameSpan(s, t)
      BY <1>1 DEF Existing
    <3>2. t \in Existing(e)' /\ t.end = s.end
      BY <3>1 DEF Existing, SameSpan, User, Plan
    <3> QED
      BY <2>3, <3>2
  <2> QED
    BY <2>1, <2>2, <2>3 DEF ExtensionInv, EndInv
<1>7. EndInv'
  BY <1>6 DEF EndInv, User, Plan
<1> QED
  BY <1>3, <1>5, <1>7 DEF ExtensionInv

\* A commit stores the end its job computed, from the start there was
LEMMA StoresEnd ==
    ASSUME TypeOK, SubsInv, EndInv, NEW d \in Deliveries, dlv[d] = "wrote"
    PROVE  \/ /\ Existing(d) = {}
              /\ draft[d].user = User(d) /\ draft[d].plan = Plan(d)
              /\ draft[d].end = draft[d].from + Months[Plan(d)]
              /\ Stored(draft[d]) = subs \cup {draft[d]}
           \/ \E s \in Existing(d), r \in Subscription :
                /\ r.user = s.user /\ r.plan = s.plan /\ r.from = s.from
                /\ r.end = s.end + Months[Plan(d)]
                /\ Stored(draft[d]) = (subs \ {s}) \cup {r}
<1>1. d \in Open /\ User(d) \notin stale[d]
  BY DEF SubsInv, LockInv, Open, InTransaction
<1>2. \/ /\ Existing(d) = {}
         /\ draft[d].by = d /\ draft[d].user = User(d) /\ draft[d].plan = Plan(d)
      \/ \E s \in Existing(d) : s.by = draft[d].by
  BY <1>1 DEF SubsInv, DraftInv
<1>3. \/ Existing(d) = {} /\ draft[d].end = draft[d].from + Months[Plan(d)]
      \/ \E s \in Existing(d) : draft[d].end = s.end + Months[Plan(d)]
  BY <1>1 DEF EndInv
<1>4. CASE Existing(d) = {}
  <2>1. draft[d].by = d /\ draft[d].user = User(d) /\ draft[d].plan = Plan(d)
    BY <1>2, <1>4
  <2>2. \A s \in subs : s.by # d
    BY <1>4 DEF Existing, SubsInv, Provenance
  <2> QED
    BY <1>3, <1>4, <2>1, <2>2 DEF Stored
<1>5. ASSUME NEW s \in Existing(d), s.by = draft[d].by
      PROVE  \E r \in Subscription :
                /\ r.user = s.user /\ r.plan = s.plan /\ r.from = s.from
                /\ r.end = s.end + Months[Plan(d)]
                /\ Stored(draft[d]) = (subs \ {s}) \cup {r}
  <2>1. s \in subs /\ s \in Subscription
    BY DEF Existing, TypeOK
  <2>2. \A t \in subs : t.by = draft[d].by => t = s
    BY <1>5, <2>1 DEF SubsInv, Provenance, OneSubscription
  <2>3. {t \in subs : t.by = draft[d].by} = {s}
    BY <1>5, <2>1, <2>2
  <2>4. \A t \in Existing(d) : t = s
    BY DEF Existing, SubsInv, OneSubscription
  <2>5. draft[d].end = s.end + Months[Plan(d)]
    BY <1>3, <2>4
  <2>6. draft[d].end \in Nat
    BY DEF TypeOK, Subscription
  <2> DEFINE r == [s EXCEPT !.end = draft[d].end]
  <2>7. /\ r \in Subscription /\ r.user = s.user /\ r.plan = s.plan /\ r.from = s.from
        /\ r.end = draft[d].end
    BY <2>1, <2>6 DEF Subscription
  <2>8. {[t EXCEPT !.end = draft[d].end] : t \in {s}} = {r}
    OBVIOUS
  <2>9. Stored(draft[d]) = (subs \ {s}) \cup {r}
    BY <2>3, <2>8 DEF Stored
  <2> QED
    BY <2>5, <2>7, <2>9
<1> QED
  BY <1>2, <1>4, <1>5

\* One more month for each unit of the factor
LEMMA OneMore == \A m, n \in Nat : m * (n + 1) = m * n + m /\ m * n \in Nat
  OBVIOUS

\* A commit adds the months of one order, and that order
LEMMA CommitExtends ==
    ASSUME TypeOK, SubsInv, ExtensionInv, NEW d \in Deliveries, CommitJob(d)
    PROVE  ExtensionInv'
<1>0. /\ dlv[d] = "wrote" /\ dlv' = [dlv EXCEPT ![d] = "committed"]
      /\ subs' = Stored(draft[d]) /\ UNCHANGED draft
      /\ payment' = [payment EXCEPT ![DeliveryOf[d]] = "succeeded"]
      /\ stale' = Forget(Committed(stale, Open, WrittenBy(d)), d)
  BY DEF CommitJob, Goto
<1>1. /\ DeliveryOf[d] \in Orders /\ User(d) = Owner[DeliveryOf[d]]
      /\ Plan(d) = PlanOf[DeliveryOf[d]] /\ Plan(d) \in Plans /\ Months[Plan(d)] \in Nat
  BY ConstantsAssumption DEF User, Plan
<1>2. Bought(User(d), Plan(d))' = Bought(User(d), Plan(d)) \cup {DeliveryOf[d]}
  BY <1>0, <1>1 DEF Bought, TypeOK, User, Plan
<1>3. ASSUME NEW u, NEW p, u # User(d) \/ p # Plan(d)
      PROVE  Bought(u, p)' = Bought(u, p)
  BY <1>0, <1>1, <1>3 DEF Bought, TypeOK
<1>4. PICK k, k1 \in Nat :
        /\ k = Cardinality(Bought(User(d), Plan(d)))
        /\ k1 = Cardinality(Bought(User(d), Plan(d)) \cup {DeliveryOf[d]})
        /\ k1 \in {k, k + 1}
  BY <1>1, OrdersCounted, BoughtType
<1>5. \A o \in Orders : payment'[o] = "succeeded" =>
        payment[o] = "succeeded" \/ o = DeliveryOf[d]
  BY <1>0 DEF TypeOK
<1>6. ASSUME NEW e \in Open', User(e) \notin stale'[e]
      PROVE  e \in Open /\ User(e) \notin stale[e] /\ User(e) # User(d)
  <2>1. e \in Deliveries /\ dlv'[e] \in InTransaction
    BY <1>6 DEF Open
  <2>2. e # d /\ dlv[e] \in InTransaction
    BY <1>0, <2>1 DEF TypeOK, InTransaction
  <2>3. stale'[e] = stale[e] \cup WrittenBy(d)
    BY <1>0, <2>1, <2>2 DEF Forget, Committed, TypeOK, Open
  <2> QED
    BY <1>6, <2>1, <2>2, <2>3 DEF Open, WrittenBy
<1>7. ASSUME \A s \in subs : s.user # User(d) => s \in subs',
             \A s \in subs' : s.user # User(d) => s \in subs
      PROVE  EndInv'
  <2>1. ASSUME NEW e \in Deliveries, User(e) # User(d) PROVE Existing(e)' = Existing(e)
    BY <1>7, <2>1 DEF Existing, User, Plan
  <2>2. ASSUME NEW e \in Open', User(e) \notin stale'[e]
        PROVE  \/ Existing(e)' = {} /\ draft'[e].end = draft'[e].from + Months[Plan(e)]
               \/ \E s \in Existing(e)' : draft'[e].end = s.end + Months[Plan(e)]
    <3>1. e \in Deliveries /\ e \in Open /\ User(e) \notin stale[e] /\ User(e) # User(d)
      BY <1>6, <2>2 DEF Open
    <3> QED
      BY <1>0, <2>1, <3>1 DEF ExtensionInv, EndInv
  <2> QED
    BY <2>2 DEF EndInv, User, Plan
<1>8. CASE /\ Existing(d) = {}
           /\ draft[d].user = User(d) /\ draft[d].plan = Plan(d)
           /\ draft[d].end = draft[d].from + Months[Plan(d)]
           /\ Stored(draft[d]) = subs \cup {draft[d]}
  <2>0. draft[d].from \in Nat
    BY DEF TypeOK, Subscription
  <2>1. Served'
    BY <1>0, <1>1, <1>5, <1>8 DEF ExtensionInv, Served
  <2>2. \A s \in subs : s.user # User(d) \/ s.plan # Plan(d)
    BY <1>8 DEF Existing
  <2>3. Bought(User(d), Plan(d)) = {}
    BY <2>2 DEF Bought, ExtensionInv, Served
  <2>4. k1 = 1
    BY <1>4, <2>3, FS_Singleton
  <2>5. Lasts'
    <3> SUFFICES ASSUME NEW s \in subs'
                 PROVE  s.end >= s.from + Months[s.plan] * Cardinality(Bought(s.user, s.plan)')
      BY DEF Lasts
    <3>1. CASE s \in subs
      <4>1. Bought(s.user, s.plan)' = Bought(s.user, s.plan)
        BY <1>3, <2>2, <3>1
      <4> QED
        BY <3>1, <4>1 DEF ExtensionInv, Lasts
    <3>2. CASE s = draft[d]
      <4>1. Cardinality(Bought(s.user, s.plan)') = 1
        BY <1>2, <1>4, <1>8, <2>4, <3>2
      <4> QED
        BY <1>1, <1>8, <2>0, <3>2, <4>1
    <3> QED
      BY <1>0, <1>8, <3>1, <3>2
  <2>6. EndInv'
    BY <1>0, <1>7, <1>8
  <2> QED
    BY <2>1, <2>5, <2>6 DEF ExtensionInv
<1>9. ASSUME NEW s \in Existing(d), NEW r \in Subscription,
             r.user = s.user /\ r.plan = s.plan /\ r.from = s.from,
             r.end = s.end + Months[Plan(d)],
             Stored(draft[d]) = (subs \ {s}) \cup {r}
      PROVE  ExtensionInv'
  <2>0. /\ s \in subs /\ s \in Subscription /\ s.user = User(d) /\ s.plan = Plan(d)
        /\ subs' = (subs \ {s}) \cup {r}
    BY <1>0, <1>9 DEF Existing, TypeOK
  <2>1. Served'
    BY <1>1, <1>5, <1>9, <2>0 DEF ExtensionInv, Served
  <2>2. Lasts'
    <3> SUFFICES ASSUME NEW t \in subs'
                 PROVE  t.end >= t.from + Months[t.plan] * Cardinality(Bought(t.user, t.plan)')
      BY DEF Lasts
    <3>1. CASE t = r
      <4>1. Cardinality(Bought(t.user, t.plan)') = k1
        BY <1>2, <1>4, <1>9, <2>0, <3>1
      <4>2. s.end >= s.from + Months[Plan(d)] * k
        BY <1>4, <2>0 DEF ExtensionInv, Lasts
      <4>3. Months[Plan(d)] * k1 <= Months[Plan(d)] * k + Months[Plan(d)]
        BY <1>1, <1>4, OneMore
      <4>4. s.end \in Nat /\ s.from \in Nat
        BY <2>0 DEF Subscription
      <4>5. Months[Plan(d)] * k1 \in Nat /\ Months[Plan(d)] * k \in Nat
        BY <1>1, OneMore
      <4>6. t.end = s.end + Months[Plan(d)] /\ t.from = s.from /\ Months[t.plan] = Months[Plan(d)]
        BY <1>9, <2>0, <3>1
      <4> DEFINE a == Months[Plan(d)] * k1
                 b == Months[Plan(d)] * k
      <4> HIDE DEF a, b
      <4>7. s.end >= s.from + b /\ a <= b + Months[Plan(d)] /\ a \in Nat /\ b \in Nat
        BY <4>2, <4>3, <4>5 DEF a, b
      <4>8. s.end + Months[Plan(d)] >= s.from + a
        BY <1>1, <4>4, <4>7
      <4> QED
        BY <4>1, <4>6, <4>8 DEF a
    <3>2. CASE t # r
      <4>1. t \in subs /\ t # s
        BY <2>0, <3>2
      <4>2. t.user # User(d) \/ t.plan # Plan(d)
        BY <2>0, <4>1 DEF SubsInv, OneSubscription
      <4>3. Bought(t.user, t.plan)' = Bought(t.user, t.plan)
        BY <1>3, <4>2
      <4> QED
        BY <4>1, <4>3 DEF ExtensionInv, Lasts
    <3> QED
      BY <3>1, <3>2
  <2>3. EndInv'
    BY <1>7, <1>9, <2>0
  <2> QED
    BY <2>1, <2>2, <2>3 DEF ExtensionInv
<1> QED
  BY <1>0, <1>8, <1>9, StoresEnd DEF ExtensionInv

\* A job adds the months of its plan to what its snapshot holds
LEMMA BeginExtends ==
    ASSUME TypeOK, ExtensionInv, NEW d \in Deliveries, BeginJob(d)
    PROVE  ExtensionInv'
<1>0. /\ dlv[d] = "queued" /\ dlv' = [dlv EXCEPT ![d] = "read"]
      /\ UNCHANGED <<subs, stale, payment>>
      /\ \A e \in Deliveries \ {d} : draft'[e] = draft[e]
  BY DEF BeginJob, Goto, planVars, recordVars, TypeOK
<1>1. \A e \in Deliveries \ {d} : dlv'[e] = dlv[e]
  BY <1>0 DEF TypeOK
<1>2. Served' /\ Lasts'
  BY <1>0 DEF ExtensionInv, Served, Lasts, Bought
<1>3. \/ Existing(d) = {} /\ draft'[d].end = draft'[d].from + Months[Plan(d)]
      \/ \E s \in Existing(d) : draft'[d].end = s.end + Months[Plan(d)]
  <2>1. CASE Existing(d) = {} /\ draft' = [draft EXCEPT ![d] = NewSubscription(d)]
    BY <2>1 DEF NewSubscription, TypeOK
  <2>2. ASSUME NEW s \in Existing(d),
               draft' = [draft EXCEPT ![d] = [s EXCEPT !.end = @ + Months[Plan(d)]]]
        PROVE  draft'[d].end = s.end + Months[Plan(d)]
    <3>1. s \in Subscription
      BY DEF Existing, TypeOK
    <3>2. draft'[d] = [s EXCEPT !.end = @ + Months[Plan(d)]]
      BY <2>2 DEF TypeOK
    <3> QED
      BY <3>1, <3>2 DEF Subscription
  <2> QED
    BY <2>1, <2>2 DEF BeginJob
<1>4. \A e \in Deliveries : Existing(e)' = Existing(e)
  BY <1>0 DEF Existing, User, Plan
<1>5. ASSUME NEW e \in Open', User(e) \notin stale'[e]
      PROVE  \/ Existing(e)' = {} /\ draft'[e].end = draft'[e].from + Months[Plan(e)]
             \/ \E s \in Existing(e)' : draft'[e].end = s.end + Months[Plan(e)]
  <2>1. e \in Deliveries /\ (e # d => e \in Open)
    BY <1>1, <1>5 DEF Open
  <2>2. CASE e = d
    BY <1>3, <1>4, <2>1, <2>2
  <2>3. CASE e # d
    BY <1>0, <1>4, <1>5, <2>1, <2>3 DEF ExtensionInv, EndInv
  <2> QED
    BY <2>2, <2>3
<1>6. EndInv'
  BY <1>5 DEF EndInv, User, Plan
<1> QED
  BY <1>2, <1>6 DEF ExtensionInv

\* A payment that succeeded was neither failed nor cancelled by PayOS
LEMMA SuccessesKept ==
    ASSUME TypeOK, OutcomeInv
    PROVE  /\ \A d \in Deliveries : MarkPaymentFailed(d) => payment[DeliveryOf[d]] # "succeeded"
           /\ \A c \in CancelRequests : RecordCancelled(c) => payment[CancelOf[c]] # "succeeded"
           /\ \A o \in Orders : StorePayment(o) => payment[o] # "succeeded"
  BY ConstantsAssumption
     DEF MarkPaymentFailed, RecordCancelled, StorePayment, Goto, OutcomeInv, StatusMatchesPayos,
         CancelInv, RequestInv

LEMMA ExtensionNext ==
    ASSUME TypeOK, SubsInv, OutcomeInv, ExtensionInv, [Next]_vars
    PROVE  ExtensionInv'
<1> USE DEF vars, recordVars, planVars, jobVars
<1>0. /\ payment \in [Orders -> PaymentStatus] /\ dlv \in [Deliveries -> DeliveryStates]
      /\ stale \in [Deliveries -> SUBSET Docs]
  BY DEF TypeOK
<1>1. ASSUME NEW o \in Orders, StorePayment(o) PROVE ExtensionInv'
  <2>1. payment[o] # "succeeded" /\ payment' = [payment EXCEPT ![o] = "pending"]
        /\ UNCHANGED <<subs, draft, dlv, stale>>
    BY <1>1, SuccessesKept DEF StorePayment
  <2> QED
    BY <1>0, <2>1, QuietKeeps DEF SameSpans
<1>2. ASSUME UNCHANGED <<payment, subs, draft, dlv, stale>> PROVE ExtensionInv'
  BY <1>2, QuietKeeps DEF SameSpans
<1>3. ASSUME NEW d \in Deliveries, NEW to, to \notin InTransaction \/ dlv[d] \in InTransaction,
             UNCHANGED <<payment, subs, draft, stale>>, dlv' = [dlv EXCEPT ![d] = to]
      PROVE  ExtensionInv'
  BY <1>0, <1>3, QuietKeeps DEF SameSpans
<1>4. ASSUME NEW d \in Deliveries, ReceiveWebhook(d) \/ EnqueueJob(d) \/ CompleteJob(d) \/ WriteJob(d)
      PROVE  ExtensionInv'
  BY <1>3, <1>4 DEF ReceiveWebhook, EnqueueJob, CompleteJob, WriteJob, Goto, InTransaction
<1>5. ASSUME NEW D, stale' = Committed(stale, Open, D)
      PROVE  \A e \in Deliveries : User(e) \in stale[e] => User(e) \in stale'[e]
  BY <1>0, <1>5 DEF Committed
<1>6. ASSUME NEW d \in Deliveries, MarkPaymentFailed(d) PROVE ExtensionInv'
  <2>1. /\ payment[DeliveryOf[d]] # "succeeded"
        /\ payment' = [payment EXCEPT ![DeliveryOf[d]] = "failed"]
        /\ dlv' = [dlv EXCEPT ![d] = "refused"] /\ UNCHANGED <<subs, draft>>
        /\ stale' = Committed(stale, Open, {DeliveryOf[d]})
    BY <1>6, SuccessesKept DEF MarkPaymentFailed, Goto
  <2>2. \A e \in Deliveries : dlv'[e] \in InTransaction =>
            dlv[e] \in InTransaction /\ (User(e) \in stale[e] => User(e) \in stale'[e])
    BY <1>0, <1>5, <2>1 DEF InTransaction
  <2>3. \A o \in Orders : payment'[o] = "succeeded" <=> payment[o] = "succeeded"
    BY <1>0, <2>1
  <2> QED
    BY <2>1, <2>2, <2>3, QuietKeeps DEF SameSpans
<1>7. ASSUME NEW d \in Deliveries, FailJob(d) \/ CrashWorker(d) PROVE ExtensionInv'
  <2>1. /\ dlv'[d] \in {"queued", "dead"} /\ UNCHANGED <<payment, subs, draft>>
        /\ \A e \in Deliveries \ {d} : dlv'[e] = dlv[e] /\ stale'[e] = stale[e]
    BY <1>0, <1>7 DEF FailJob, CrashWorker, Forget
  <2>2. \A e \in Deliveries : dlv'[e] \in InTransaction =>
            dlv[e] \in InTransaction /\ (User(e) \in stale[e] => User(e) \in stale'[e])
    BY <2>1 DEF InTransaction
  <2> QED
    BY <2>1, <2>2, QuietKeeps DEF SameSpans
<1>8. ASSUME NEW D, stale' = Committed(stale, Open, D), SameSpans, UNCHANGED <<dlv, draft>>,
             \A o \in Orders : payment'[o] = "succeeded" <=> payment[o] = "succeeded"
      PROVE  ExtensionInv'
  BY <1>5, <1>8, QuietKeeps
<1>9. ASSUME NEW c \in CancelRequests, RecordCancelled(c) PROVE ExtensionInv'
  <2>1. /\ payment[CancelOf[c]] # "succeeded"
        /\ payment' = [payment EXCEPT ![CancelOf[c]] = "cancelled"]
        /\ UNCHANGED <<subs, draft, dlv>>
        /\ stale' = Committed(stale, Open, {CancelOf[c]})
    BY <1>9, SuccessesKept DEF RecordCancelled
  <2>2. \A o \in Orders : payment'[o] = "succeeded" <=> payment[o] = "succeeded"
    BY <1>0, <2>1
  <2> QED
    BY <1>8, <2>1, <2>2 DEF SameSpans
<1>10. ASSUME NEW s \in subs, ExpireSubscription(s) PROVE ExtensionInv'
  <2> DEFINE r == [s EXCEPT !.status = "expired"]
  <2>1. s \in Subscription
    BY DEF TypeOK
  <2>2. r \in Subscription /\ SameSpan(s, r)
    BY <2>1, ExpiredType DEF Subscription, SameSpan
  <2>3. SameSpans
    BY <1>10, <2>2 DEF ExpireSubscription, SameSpans
  <2> QED
    BY <1>8, <1>10, <2>3 DEF ExpireSubscription
<1>11. ASSUME NEW u \in Users, ClearPremium(u) PROVE ExtensionInv'
  BY <1>8, <1>11 DEF ClearPremium, SameSpans
<1>12. ASSUME NEW o \in Orders, RemoveUnpaid(o) PROVE ExtensionInv'
  BY <1>8, <1>12 DEF RemoveUnpaid, SameSpans
<1>13. ASSUME NEW o \in Orders,
              OpenLink(o) \/ RequestFails(o) \/ \E s \in {"paid", "failed"} : Settle(o, s)
       PROVE  ExtensionInv'
  BY <1>2, <1>13 DEF OpenLink, RequestFails, Settle
<1>14. ASSUME NEW c \in CancelRequests, CheckCancelled(c) \/ AskPayos(c) PROVE ExtensionInv'
  BY <1>2, <1>14 DEF CheckCancelled, AskPayos
<1>15. CASE Tick \/ FindExpired \/ UNCHANGED vars
  BY <1>2, <1>15 DEF Tick, FindExpired
<1> QED
  BY <1>1, <1>4, <1>6, <1>7, <1>9, <1>10, <1>11, <1>12, <1>13, <1>14, <1>15, BeginExtends,
     CommitExtends
     DEF Next, RequestStep, WebhookStep, JobStep, CancelStep, ExpireCron, MorningCron

(* A subscription lasts at least the months of all the payments that       *)
(* succeeded for it, for any number of orders and jobs at once: a job      *)
(* whose snapshot another commit of the user outdated cannot write.        *)
THEOREM ExtensionsCorrect == Spec => []NoLostExtension
<1>1. TypeOK /\ ExtensionInv => NoLostExtension
  <2> SUFFICES ASSUME TypeOK, ExtensionInv, NEW u \in Users, NEW p \in Plans, Bought(u, p) # {}
               PROVE  \E s \in subs : /\ s.user = u /\ s.plan = p
                                      /\ s.end - s.from >= Months[p] * Cardinality(Bought(u, p))
    BY DEF NoLostExtension
  <2>1. PICK o \in Orders : o \in Bought(u, p)
    BY DEF Bought
  <2>2. PICK s \in subs : s.user = u /\ s.plan = p
    BY <2>1 DEF ExtensionInv, Served, Bought
  <2>3. s.end >= s.from + Months[p] * Cardinality(Bought(u, p))
    BY <2>2 DEF ExtensionInv, Lasts
  <2>4. s.end \in Nat /\ s.from \in Nat
    BY DEF TypeOK, Subscription
  <2>5. Months[p] * Cardinality(Bought(u, p)) \in Nat
    BY ConstantsAssumption, OrdersCounted, BoughtType, OneMore
  <2> DEFINE m == Months[p] * Cardinality(Bought(u, p))
  <2> HIDE DEF m
  <2>6. s.end - s.from >= m
    BY <2>3, <2>4, <2>5 DEF m
  <2> QED
    BY <2>2, <2>6 DEF m
<1>2. Init => TypeInv /\ SubsInv /\ OutcomeInv /\ ExtensionInv
  <2>1. Init => SubsInv
    BY DEF Init, SubsInv, OneSubscription, Provenance, DraftInv, LockInv, Open, InTransaction
  <2>2. Init => ExtensionInv
    BY DEF Init, ExtensionInv, Served, Lasts, EndInv, Open, InTransaction
  <2> QED
    BY <2>1, <2>2, TypeInit, OutcomeInit
<1>3. TypeInv /\ SubsInv /\ OutcomeInv /\ ExtensionInv /\ [Next]_vars
        => (TypeInv /\ SubsInv /\ OutcomeInv /\ ExtensionInv)'
  BY TypeNext, AttemptsNext, SubsNext, OutcomeNext, ExtensionNext DEF TypeInv
<1>4. TypeInv => TypeOK
  BY DEF TypeInv
<1> QED
  BY <1>1, <1>2, <1>3, <1>4, PTL DEF Spec
=============================================================================
