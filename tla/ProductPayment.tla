--------------------------- MODULE ProductPayment ----------------------------
(***************************************************************************)
(* Buying products: PaymentService with the services it calls.  A client's *)
(* request reserves the lines of an order in Redis, opens a PayOS link and *)
(* stores payment and purchase in one MongoDB transaction.  PayOS reports  *)
(* the outcome of the link through webhooks; a success enqueues a job that *)
(* takes the goods out of MongoDB's stock.  Cancel requests, the stock     *)
(* cron, the cart and the shop's edits run between any two steps.          *)
(***************************************************************************)
EXTENDS RedisStock, MongoTx

CONSTANTS
    Orders, Users, Deliveries, CancelRequests,
    Owner,          \* the user who places an order
    Qty, Line,      \* units of a product in an order: in all, on its largest line
    CartOrders,     \* orders whose request carries a cartId
    DeliveryOf,     \* the order a webhook delivery is about
    CancelOf,       \* the order a cancel request is about
    InitStock,
    EditStock,      \* values the shop writes to products.stock
    Budget          \* how often each disturbance may happen

Disturbances == {"expiry", "sync", "edit", "cart", "fault", "crash"}

ASSUME ConstantsAssumption ==
    /\ Products # {}
    /\ Owner \in [Orders -> Users]
    /\ Qty \in [Orders -> [Products -> Nat]]
    /\ Line \in [Orders -> [Products -> Nat]]
    /\ \A o \in Orders, p \in Products :
            Line[o][p] <= Qty[o][p] /\ (Qty[o][p] > 0 => Line[o][p] > 0)
    /\ CartOrders \subseteq Orders
    /\ DeliveryOf \in [Deliveries -> Orders]
    /\ CancelOf \in [CancelRequests -> Orders]
    /\ InitStock \in [Products -> Nat]
    /\ EditStock \subseteq Nat
    /\ Budget \in [Disturbances -> Nat]

VARIABLES
    stock, live,        \* products: stock, and the ones not deleted
    cart,               \* products in each user's cart
    link,               \* PayOS payment links
    payment, purchase,  \* status of the payments and purchase histories
    req, todo, item, got,       \* createPaymentProduct requests
    dlv, payload, stale, stalled,   \* webhook deliveries and their jobs
    cancel,             \* cancelPayment requests
    sync, syncing, synced,      \* the stock cron
    budget

shopVars    == <<stock, live, cart>>
recordVars  == <<payment, purchase>>
requestVars == <<req, todo, item, got>>
jobVars     == <<dlv, payload, stale, stalled>>
syncVars    == <<sync, syncing, synced>>

vars == <<redisVars, shopVars, link, recordVars, requestVars, jobVars, cancel,
          syncVars, budget>>

-----------------------------------------------------------------------------
LinkStates     == {"none", "open", "paid", "failed", "cancelled"}
PaymentStatus  == {"none", "pending", "succeeded", "failed", "cancelled"}
PurchaseStatus == {"none", "pending", "confirmed"}
RequestStates  == {"ensure", "load", "set", "create", "commit",
                   "created", "rejected", "failed"}
InTransaction  == {"begun", "wrote", "swept"}
RefusalStates  == {"failing", "marked", "released", "refused"}
JobStates      == InTransaction \cup {"queued", "committed", "completed", "swallowed", "dead"}
DeliveryStates == {"idle", "found", "ignored"} \cup RefusalStates \cup JobStates
CancelStates   == {"idle", "asking", "answered", "recorded", "done"}

Items(o) == Ordered(Qty[o])
Docs == Products \cup Orders \cup Users     \* the documents jobs write

TypeOK ==
    /\ RedisTypeOK
    /\ stock \in [Products -> Int]
    /\ live \subseteq Products
    /\ cart \in [Users -> SUBSET Products]
    /\ link \in [Orders -> LinkStates]
    /\ payment \in [Orders -> PaymentStatus]
    /\ purchase \in [Orders -> PurchaseStatus]
    /\ req \in [Orders -> RequestStates]
    /\ todo \in [Orders -> SUBSET Products]
    /\ item \in [Orders -> Products]
    /\ got \in [Orders -> Int]
    /\ dlv \in [Deliveries -> DeliveryStates]
    /\ payload \in [Deliveries -> [Products -> Int]]
    /\ stale \in [Deliveries -> SUBSET Docs]
    /\ stalled \subseteq Deliveries
    /\ cancel \in [CancelRequests -> CancelStates]
    /\ sync \in {"idle", "read"}
    /\ syncing \subseteq Products
    /\ synced \in [Products -> Int]
    /\ budget \in [Disturbances -> Nat]

Nothing == [p \in Products |-> 0]

Init ==
    /\ RedisInit
    /\ stock = InitStock
    /\ live = Products
    /\ cart = [u \in Users |-> Products]
    /\ link = [o \in Orders |-> "none"]
    /\ payment = [o \in Orders |-> "none"]
    /\ purchase = [o \in Orders |-> "none"]
    /\ req = [o \in Orders |-> "ensure"]
    /\ todo = [o \in Orders |-> Items(o)]
    /\ item = [o \in Orders |-> CHOOSE p \in Products : TRUE]
    /\ got = [o \in Orders |-> 0]
    /\ dlv = [d \in Deliveries |-> "idle"]
    /\ payload = [d \in Deliveries |-> Nothing]
    /\ stale = [d \in Deliveries |-> {}]
    /\ stalled = {}
    /\ cancel = [c \in CancelRequests |-> "idle"]
    /\ sync = "idle"
    /\ syncing = {}
    /\ synced = Nothing
    /\ budget = Budget

Spend(what) ==
    /\ budget[what] > 0
    /\ budget' = [budget EXCEPT ![what] = @ - 1]

Goto(pc, from, to, who) ==
    /\ pc[who] = from
    /\ pc' = [pc EXCEPT ![who] = to]

Open == {d \in Deliveries : dlv[d] \in InTransaction}

\* Product documents locked by the transactions of other jobs
Held(d) == UNION {Items(DeliveryOf[e]) :
                    e \in {x \in Deliveries \ {d} : dlv[x] \in {"wrote", "swept"}}}

Locked(p) == \E e \in Deliveries :
    dlv[e] \in {"wrote", "swept"} /\ p \in Items(DeliveryOf[e])

-----------------------------------------------------------------------------
(* createPaymentProduct: ensureRedisStock, one line after the other        *)

EnsureHit(o, p) ==
    /\ req[o] = "ensure" /\ p \in todo[o]
    /\ p \in cached
    /\ todo' = [todo EXCEPT ![o] = @ \ {p}]
    /\ UNCHANGED <<redisVars, shopVars, link, recordVars, req, item, got,
                   jobVars, cancel, syncVars, budget>>

EnsureMiss(o, p) ==
    /\ p \in todo[o] /\ p \notin cached
    /\ Goto(req, "ensure", "load", o)
    /\ item' = [item EXCEPT ![o] = p]
    /\ UNCHANGED <<redisVars, shopVars, link, recordVars, todo, got,
                   jobVars, cancel, syncVars, budget>>

LoadStock(o) ==
    /\ Goto(req, "load", "set", o)
    /\ got' = [got EXCEPT ![o] = IF item[o] \in live THEN stock[item[o]] ELSE 0]
    /\ UNCHANGED <<redisVars, shopVars, link, recordVars, todo, item,
                   jobVars, cancel, syncVars, budget>>

SetLoadedStock(o) ==
    /\ Goto(req, "set", "ensure", o)
    /\ SetCounters({item[o]}, [p \in Products |-> got[o]])
    /\ todo' = [todo EXCEPT ![o] = @ \ {item[o]}]
    /\ got' = [got EXCEPT ![o] = 0]
    /\ UNCHANGED <<shopVars, link, recordVars, item, jobVars, cancel, syncVars, budget>>

Reserve(o) ==
    /\ todo[o] = {}
    /\ Goto(req, "ensure", "create", o)
    /\ ReserveStock(Line[o], Qty[o])
    /\ UNCHANGED <<shopVars, link, recordVars, todo, item, got, jobVars, cancel,
                   syncVars, budget>>

ReserveRejected(o) ==
    /\ todo[o] = {}
    /\ ~CanReserve(Line[o])
    /\ Goto(req, "ensure", "rejected", o)
    /\ UNCHANGED <<redisVars, shopVars, link, recordVars, todo, item, got, jobVars,
                   cancel, syncVars, budget>>

\* resolveProducts and validateProductsExist
ValidOrder(o) ==
    /\ o \in CartOrders => Items(o) \subseteq cart[Owner[o]]
    /\ Line[o] = Qty[o]
    /\ Items(o) \subseteq live

OpenLink(o) ==
    /\ ValidOrder(o)
    /\ Goto(req, "create", "commit", o)
    /\ link' = [link EXCEPT ![o] = "open"]
    /\ UNCHANGED <<redisVars, shopVars, recordVars, todo, item, got, jobVars, cancel,
                   syncVars, budget>>

CommitOrder(o) ==
    /\ Goto(req, "commit", "created", o)
    /\ payment' = [payment EXCEPT ![o] = "pending"]
    /\ purchase' = [purchase EXCEPT ![o] = "pending"]
    /\ UNCHANGED <<redisVars, shopVars, link, todo, item, got, jobVars, cancel,
                   syncVars, budget>>

\* The catch block aborts the transaction and leaves the reservation in Redis
CreateFails(o) ==
    /\ \/ ~ValidOrder(o) /\ Goto(req, "create", "failed", o) /\ UNCHANGED budget
       \/ Spend("fault") /\ Goto(req, "create", "failed", o)
       \/ Spend("fault") /\ Goto(req, "commit", "failed", o)
    /\ UNCHANGED <<redisVars, shopVars, link, recordVars, todo, item, got, jobVars,
                   cancel, syncVars>>

-----------------------------------------------------------------------------
(* PayOS: the outcome of a link is final                                   *)

Settle(o, outcome) ==
    /\ payment[o] # "none" /\ link[o] = "open"
    /\ link' = [link EXCEPT ![o] = outcome]
    /\ UNCHANGED <<redisVars, shopVars, recordVars, requestVars, jobVars, cancel,
                   syncVars, budget>>

-----------------------------------------------------------------------------
(* handleWebhook                                                           *)

ReceiveWebhook(d) ==
    LET o == DeliveryOf[d] IN
    /\ link[o] \in {"paid", "failed"}
    /\ Goto(dlv, "idle", IF payment[o] = "succeeded" THEN "ignored" ELSE "found", d)
    /\ UNCHANGED <<redisVars, shopVars, link, recordVars, requestVars, payload, stale,
                   stalled, cancel, syncVars, budget>>

\* Mutant: processingProduct does not look at the code of the webhook
EnqueueAnyOutcome(d) ==
    /\ Items(DeliveryOf[d]) \subseteq live
    /\ Goto(dlv, "found", "queued", d)
    /\ payload' = [payload EXCEPT ![d] = stock]
    /\ UNCHANGED <<redisVars, shopVars, link, recordVars, requestVars, stale, stalled,
                   cancel, syncVars, budget>>

\* processingProduct: the products read here travel in the job
EnqueueJob(d) ==
    LET o == DeliveryOf[d] IN
    /\ link[o] = "paid" /\ Items(o) \subseteq live
    /\ Goto(dlv, "found", "queued", d)
    /\ payload' = [payload EXCEPT ![d] = stock]
    /\ UNCHANGED <<redisVars, shopVars, link, recordVars, requestVars, stale, stalled,
                   cancel, syncVars, budget>>

StartRefusal(d) ==
    LET o == DeliveryOf[d] IN
    /\ link[o] = "failed" /\ Items(o) \subseteq live
    /\ Goto(dlv, "found", "failing", d)
    /\ UNCHANGED <<redisVars, shopVars, link, recordVars, requestVars, payload, stale,
                   stalled, cancel, syncVars, budget>>

\* Mutant: an order whose product is gone is closed as failed
RefuseAndMarkFailed(d) ==
    LET o == DeliveryOf[d] IN
    /\ ~(Items(o) \subseteq live)
    /\ Goto(dlv, "found", "ignored", d)
    /\ payment' = [payment EXCEPT ![o] = IF @ = "pending" THEN "failed" ELSE @]
    /\ stale' = Committed(stale, Open, {o})
    /\ UNCHANGED <<redisVars, shopVars, link, purchase, requestVars, payload, stalled,
                   cancel, syncVars, budget>>

\* validateProductsExist throws: the webhook is answered with an error
RefuseWebhook(d) ==
    /\ ~(Items(DeliveryOf[d]) \subseteq live)
    /\ Goto(dlv, "found", "ignored", d)
    /\ UNCHANGED <<redisVars, shopVars, link, recordVars, requestVars, payload, stale,
                   stalled, cancel, syncVars, budget>>

\* Promise.all([markPaymentFailed, releaseStock]) in either order
MarkPaymentFailed(d) ==
    LET o == DeliveryOf[d] IN
    /\ Goto(dlv, "failing", "marked", d) \/ Goto(dlv, "released", "refused", d)
    /\ payment' = [payment EXCEPT ![o] = "failed"]
    /\ stale' = Committed(stale, Open, {o})
    /\ UNCHANGED <<redisVars, shopVars, link, purchase, requestVars, payload, stalled,
                   cancel, syncVars, budget>>

ReleaseFailed(d) ==
    /\ Goto(dlv, "failing", "released", d) \/ Goto(dlv, "marked", "refused", d)
    /\ ReleaseStock(Qty[DeliveryOf[d]])
    /\ UNCHANGED <<shopVars, link, recordVars, requestVars, payload, stale, stalled,
                   cancel, syncVars, budget>>

-----------------------------------------------------------------------------
(* processSuccessfulPaymentProduct, run by a worker of the product queue   *)

\* The first read of the transaction, of the purchase history
BeginJob(d) ==
    /\ Goto(dlv, "queued", "begun", d)
    /\ UNCHANGED <<redisVars, shopVars, link, recordVars, requestVars, payload, stale,
                   stalled, cancel, syncVars, budget>>

StockConflict(d) == WriteConflict(stale, d, Items(DeliveryOf[d]), Held(d))

\* bulkUpdateStock locks the products
WriteStock(d) ==
    /\ ~StockConflict(d)
    /\ Goto(dlv, "begun", "wrote", d)
    /\ UNCHANGED <<redisVars, shopVars, link, recordVars, requestVars, payload, stale,
                   stalled, cancel, syncVars, budget>>

\* Mutant: the job subtracts from the stock it finds, as $inc would
StockLess(d) == [p \in Products |-> stock[p] - Qty[DeliveryOf[d]][p]]

\* The absolute stock a job writes, to MongoDB and to Redis
NewStock(d) == [p \in Products |-> payload[d][p] - Qty[DeliveryOf[d]][p]]

SweepRedis(d) ==
    /\ Goto(dlv, "wrote", "swept", d)
    /\ SyncStocks(Items(DeliveryOf[d]), NewStock(d))
    /\ UNCHANGED <<shopVars, link, recordVars, requestVars, payload, stale, stalled,
                   cancel, syncVars, budget>>

RecordDocs(o) == {o, Owner[o]}      \* payment with purchase, and cart

RecordConflict(d) == WriteConflict(stale, d, RecordDocs(DeliveryOf[d]), {})

\* Purchase, payment and cart are written and the transaction commits
CommitJob(d) ==
    LET o == DeliveryOf[d]
        written == Items(o) \cup RecordDocs(o)
    IN
    /\ ~RecordConflict(d)
    /\ Goto(dlv, "swept", "committed", d)
    /\ stock' = [p \in Products |-> IF p \in Items(o) THEN NewStock(d)[p] ELSE stock[p]]
    /\ purchase' = [purchase EXCEPT ![o] = "confirmed"]
    /\ payment' = [payment EXCEPT ![o] = "succeeded"]
    /\ cart' = [cart EXCEPT ![Owner[o]] = @ \ Items(o)]
    /\ stale' = Forget(Committed(stale, Open, written), d)
    /\ UNCHANGED <<redisVars, live, link, requestVars, payload, stalled, cancel,
                   syncVars, budget>>

CompleteJob(d) ==
    /\ Goto(dlv, "committed", "completed", d)
    /\ UNCHANGED <<redisVars, shopVars, link, recordVars, requestVars, payload, stale,
                   stalled, cancel, syncVars, budget>>

\* Mutant: the purchase history is updated without { session }
SwallowWithoutRollback(d) ==
    /\ \/ dlv[d] = "begun" /\ StockConflict(d) /\ UNCHANGED <<purchase, budget>>
       \/ dlv[d] \in {"begun", "wrote"} /\ Spend("fault") /\ UNCHANGED purchase
       \/ /\ dlv[d] = "swept"
          /\ (RecordConflict(d) /\ UNCHANGED budget) \/ Spend("fault")
          /\ purchase' = [purchase EXCEPT ![DeliveryOf[d]] = "confirmed"]
    /\ dlv' = [dlv EXCEPT ![d] = "swallowed"]
    /\ stale' = Forget(stale, d)
    /\ UNCHANGED <<redisVars, shopVars, link, payment, requestVars, payload, stalled,
                   cancel, syncVars>>

\* The catch block aborts and returns, so BullMQ completes the job
SwallowError(d) ==
    /\ \/ dlv[d] = "begun" /\ StockConflict(d) /\ UNCHANGED budget
       \/ dlv[d] = "swept" /\ RecordConflict(d) /\ UNCHANGED budget
       \/ dlv[d] \in InTransaction /\ Spend("fault")
    /\ dlv' = [dlv EXCEPT ![d] = "swallowed"]
    /\ stale' = Forget(stale, d)
    /\ UNCHANGED <<redisVars, shopVars, link, recordVars, requestVars, payload, stalled,
                   cancel, syncVars>>

\* Mutant: a job whose worker died is not run again (maxStalledCount 0)
CrashLosesJob(d) ==
    /\ dlv[d] \in InTransaction \cup {"committed"}
    /\ Spend("crash")
    /\ dlv' = [dlv EXCEPT ![d] = "dead"]
    /\ stalled' = stalled \cup {d}
    /\ stale' = Forget(stale, d)
    /\ UNCHANGED <<redisVars, shopVars, link, recordVars, requestVars, payload, cancel,
                   syncVars>>

\* The worker dies: MongoDB aborts, BullMQ re-runs a stalled job once
CrashWorker(d) ==
    /\ dlv[d] \in InTransaction \cup {"committed"}
    /\ Spend("crash")
    /\ dlv' = [dlv EXCEPT ![d] = IF d \in stalled THEN "dead" ELSE "queued"]
    /\ stalled' = stalled \cup {d}
    /\ stale' = Forget(stale, d)
    /\ UNCHANGED <<redisVars, shopVars, link, recordVars, requestVars, payload, cancel,
                   syncVars>>

-----------------------------------------------------------------------------
(* cancelPayment                                                           *)

CheckCancelled(c) ==
    LET o == CancelOf[c] IN
    /\ payment[o] # "none"
    /\ Goto(cancel, "idle", IF payment[o] = "cancelled" THEN "done" ELSE "asking", c)
    /\ UNCHANGED <<redisVars, shopVars, link, recordVars, requestVars, jobVars, syncVars,
                   budget>>

\* Mutant: the reply's status is not compared with CANCELLED
AskPayosOnly(c) ==
    LET o == CancelOf[c] IN
    /\ Goto(cancel, "asking", "answered", c)
    /\ link' = [link EXCEPT ![o] = IF @ = "open" THEN "cancelled" ELSE @]
    /\ UNCHANGED <<redisVars, shopVars, recordVars, requestVars, jobVars, syncVars, budget>>

\* PayOS cancels an open link and replies with the link's status
AskPayos(c) ==
    LET o == CancelOf[c]
        status == IF link[o] = "open" THEN "cancelled" ELSE link[o]
    IN
    /\ Goto(cancel, "asking", IF status = "cancelled" THEN "answered" ELSE "done", c)
    /\ link' = [link EXCEPT ![o] = status]
    /\ UNCHANGED <<redisVars, shopVars, recordVars, requestVars, jobVars, syncVars, budget>>

RecordCancelled(c) ==
    LET o == CancelOf[c] IN
    /\ Goto(cancel, "answered", "recorded", c)
    /\ payment' = [payment EXCEPT ![o] = "cancelled"]
    /\ stale' = Committed(stale, Open, {o})
    /\ UNCHANGED <<redisVars, shopVars, link, purchase, requestVars, dlv, payload,
                   stalled, syncVars, budget>>

ReleaseCancelled(c) ==
    /\ Goto(cancel, "recorded", "done", c)
    /\ ReleaseStock(Qty[CancelOf[c]])
    /\ UNCHANGED <<shopVars, link, recordVars, requestVars, jobVars, syncVars, budget>>

-----------------------------------------------------------------------------
(* The stock cron, the shop, the cart and Redis                            *)

ReadAllStock ==
    /\ sync = "idle" /\ Spend("sync")
    /\ sync' = "read"
    /\ syncing' = live
    /\ synced' = stock
    /\ UNCHANGED <<redisVars, shopVars, link, recordVars, requestVars, jobVars, cancel>>

WriteAllStock ==
    /\ sync = "read"
    /\ sync' = "idle"
    /\ SyncStocks(syncing, synced)
    /\ syncing' = {}
    /\ synced' = Nothing
    /\ UNCHANGED <<shopVars, link, recordVars, requestVars, jobVars, cancel, budget>>

EditProduct(p, n) ==
    /\ ~Locked(p) /\ Spend("edit")
    /\ stock' = [stock EXCEPT ![p] = n]
    /\ stale' = Committed(stale, Open, {p})
    /\ UNCHANGED <<redisVars, live, cart, link, recordVars, requestVars, dlv, payload,
                   stalled, cancel, syncVars>>

RemoveProduct(p) ==
    /\ p \in live /\ ~Locked(p) /\ Spend("edit")
    /\ live' = live \ {p}
    /\ stale' = Committed(stale, Open, {p})
    /\ UNCHANGED <<redisVars, stock, cart, link, recordVars, requestVars, dlv, payload,
                   stalled, cancel, syncVars>>

EditCart(u, p) ==
    /\ Spend("cart")
    /\ \/ p \in cart[u] /\ cart' = [cart EXCEPT ![u] = @ \ {p}]
       \/ p \in live /\ cart' = [cart EXCEPT ![u] = @ \cup {p}]
    /\ stale' = Committed(stale, Open, {u})
    /\ UNCHANGED <<redisVars, stock, live, link, recordVars, requestVars, dlv, payload,
                   stalled, cancel, syncVars>>

Expire(p) ==
    /\ ExpireKey(p) /\ Spend("expiry")
    /\ UNCHANGED <<shopVars, link, recordVars, requestVars, jobVars, cancel, syncVars>>

-----------------------------------------------------------------------------
RequestStep(o) ==
    \/ \E p \in Products : EnsureHit(o, p) \/ EnsureMiss(o, p)
    \/ LoadStock(o) \/ SetLoadedStock(o)
    \/ Reserve(o) \/ ReserveRejected(o)
    \/ OpenLink(o) \/ CommitOrder(o) \/ CreateFails(o)

WebhookStep(d) ==
    \/ ReceiveWebhook(d) \/ EnqueueJob(d) \/ StartRefusal(d) \/ RefuseWebhook(d)
    \/ MarkPaymentFailed(d) \/ ReleaseFailed(d)

JobStep(d) ==
    \/ BeginJob(d) \/ WriteStock(d) \/ SweepRedis(d) \/ CommitJob(d) \/ CompleteJob(d)
    \/ SwallowError(d)

CancelStep(c) ==
    CheckCancelled(c) \/ AskPayos(c) \/ RecordCancelled(c) \/ ReleaseCancelled(c)

Disturbance ==
    \/ ReadAllStock \/ WriteAllStock
    \/ \E p \in Products, n \in EditStock : EditProduct(p, n)
    \/ \E p \in Products : RemoveProduct(p) \/ Expire(p)
    \/ \E u \in Users, p \in Products : EditCart(u, p)
    \/ \E d \in Deliveries : CrashWorker(d)

Next ==
    \/ \E o \in Orders : RequestStep(o) \/ \E outcome \in {"paid", "failed"} : Settle(o, outcome)
    \/ \E d \in Deliveries : WebhookStep(d) \/ JobStep(d)
    \/ \E c \in CancelRequests : CancelStep(c)
    \/ Disturbance

Spec == Init /\ [][Next]_vars

\* Workers keep taking jobs, PayOS keeps delivering, and requests run on
Fairness ==
    /\ \A o \in Orders : WF_vars(RequestStep(o))
    /\ \A d \in Deliveries : WF_vars(WebhookStep(d)) /\ WF_vars(JobStep(d))
    /\ \A c \in CancelRequests : WF_vars(CancelStep(c))

FairSpec == Spec /\ Fairness

-----------------------------------------------------------------------------
(* The status NovaWave stores for an order never contradicts the outcome   *)
(* PayOS gave its link, whatever the webhooks, jobs, cancel requests and   *)
(* crashes do in between.                                                  *)
StatusMatchesPayos ==
    \A o \in Orders :
        /\ payment[o] = "succeeded" => link[o] = "paid"
        /\ payment[o] = "failed" => link[o] = "failed"
        /\ payment[o] = "cancelled" => link[o] = "cancelled"

(* Payment and purchase history change together: an order is fulfilled     *)
(* exactly when its payment counts as succeeded.                           *)
ConfirmedIffSucceeded ==
    \A o \in Orders : purchase[o] = "confirmed" <=> payment[o] = "succeeded"

(* The pair (payment, purchase) goes through the life cycle of an order:   *)
(* it is created once, and its outcome is final.                           *)
Lifecycle == INSTANCE OrderLifecycle
ImplementsLifecycle == Lifecycle!Spec

(* Re-running a stalled job does not take the goods twice: where orders    *)
(* share no product and PayOS calls once, the stock in MongoDB is the      *)
(* initial one less what the confirmed purchases hold.                     *)
StockAccountsForConfirmed ==
    \A o \in Orders : \A p \in Items(o) :
        stock[p] = InitStock[p] - (IF purchase[o] = "confirmed" THEN Qty[o][p] ELSE 0)

(* What PayOS decided is eventually what the payment says, although the    *)
(* worker may die in the middle of the job.                                *)
OutcomeIsRecorded ==
    \A o \in Orders :
        /\ link[o] = "paid" ~> payment[o] = "succeeded"
        /\ link[o] = "failed" ~> payment[o] = "failed"

=============================================================================
