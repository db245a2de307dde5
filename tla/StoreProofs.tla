----------------------------- MODULE StoreProofs -----------------------------
(***************************************************************************)
(* Proofs about what a user buys in the store.                             *)
(*                                                                         *)
(*   - ProductPayment, for any number of orders, products, users,          *)
(*     deliveries and cancel requests, and any number of disturbances;     *)
(*   - Cart, for any finite set of products, any prices, quantities and    *)
(*     orders, and any number of connections and requests;                 *)
(*   - Catalog, for collections and pages of any size, and any number of   *)
(*     changes between and within the requests of a reader.                *)
(***************************************************************************)
EXTENDS ProductPayment, Store, FiniteSetTheorems, WellFoundedInduction,
        SequenceTheorems, TLAPS

-----------------------------------------------------------------------------
(* Redis counters                                                          *)

\* reserveStock leaves the counters well typed: it only touches existing keys
LEMMA ReserveType ==
    ASSUME NEW line \in [Products -> Nat], NEW qty \in [Products -> Nat],
           \A p \in Products : qty[p] > 0 => line[p] > 0,
           RedisTypeOK, ReserveStock(line, qty)
    PROVE  RedisTypeOK'
<1>1. counter' \in [Products -> Int]
  <2>1. counter \in [Products -> Int]
    BY DEF RedisTypeOK
  <2>2. [p \in Products |-> counter[p] - qty[p]] \in [Products -> Int]
    BY <2>1
  <2> QED
    BY <2>2 DEF ReserveStock
<1>2. Ordered(qty) \subseteq cached
  <2> SUFFICES ASSUME NEW p \in Products, qty[p] > 0
               PROVE  p \in cached
    BY DEF Ordered
  <2>1. Available(p) >= line[p] /\ line[p] > 0
    BY DEF ReserveStock, CanReserve, Ordered
  <2> QED
    BY <2>1 DEF Available
<1>3. cached' \subseteq Products /\ volatile' \subseteq cached'
  BY <1>2 DEF RedisTypeOK, ReserveStock
<1> QED
  BY <1>1, <1>3 DEF RedisTypeOK

\* releaseStock leaves the counters well typed
LEMMA ReleaseType ==
    ASSUME NEW qty \in [Products -> Nat], RedisTypeOK, ReleaseStock(qty)
    PROVE  RedisTypeOK'
  BY DEF RedisTypeOK, ReleaseStock, Ordered

\* SET of any integers leaves the counters well typed
LEMMA SetType ==
    ASSUME NEW S \in SUBSET Products, NEW value \in [Products -> Int],
           RedisTypeOK, SetCounters(S, value)
    PROVE  RedisTypeOK'
  BY DEF RedisTypeOK, SetCounters

\* syncStocks is a SET of integers
LEMMA SyncType ==
    ASSUME NEW S \in SUBSET Products, NEW value \in [Products -> Int],
           RedisTypeOK, SyncStocks(S, value)
    PROVE  RedisTypeOK'
<1>1. [p \in Products |-> AtLeastZero(value[p])] \in [Products -> Int]
  BY DEF AtLeastZero
<1> QED
  BY <1>1, SetType DEF SyncStocks

\* An expired key leaves the counters well typed
LEMMA ExpireType ==
    ASSUME NEW p \in Products, RedisTypeOK, ExpireKey(p)
    PROVE  RedisTypeOK'
  BY DEF RedisTypeOK, ExpireKey

\* Commits only add documents to what transactions have seen go stale
LEMMA CommittedType ==
    ASSUME NEW D \in SUBSET Docs, stale \in [Deliveries -> SUBSET Docs]
    PROVE  Committed(stale, Open, D) \in [Deliveries -> SUBSET Docs]
  BY DEF Committed

\* A transaction that ends forgets
LEMMA ForgetType ==
    ASSUME NEW s \in [Deliveries -> SUBSET Docs], NEW d \in Deliveries
    PROVE  Forget(s, d) \in [Deliveries -> SUBSET Docs]
  BY DEF Forget

\* The stock a job writes is an integer for every product
LEMMA NewStockType ==
    ASSUME NEW d \in Deliveries, payload \in [Deliveries -> [Products -> Int]]
    PROVE  NewStock(d) \in [Products -> Int]
<1>1. payload[d] \in [Products -> Int] /\ Qty[DeliveryOf[d]] \in [Products -> Nat]
  BY ConstantsAssumption
<1> QED
  BY <1>1 DEF NewStock

\* A disturbance leaves a natural number of further ones
LEMMA SpendType ==
    ASSUME NEW w \in Disturbances, budget \in [Disturbances -> Nat], Spend(w)
    PROVE  budget' \in [Disturbances -> Nat]
  BY DEF Spend

\* The products of an order are products
LEMMA ItemsType == ASSUME NEW o \in Orders PROVE Items(o) \in SUBSET Products
  BY DEF Items, Ordered

-----------------------------------------------------------------------------
\* The initial state is well typed
LEMMA TypeInit == Init => TypeOK
<1> SUFFICES ASSUME Init PROVE TypeOK
  OBVIOUS
<1>1. RedisTypeOK
  BY DEF Init, RedisInit, RedisTypeOK
<1>2. item \in [Orders -> Products]
  BY ConstantsAssumption DEF Init
<1>3. todo \in [Orders -> SUBSET Products]
  BY ItemsType DEF Init
<1>4. /\ link \in [Orders -> LinkStates]
      /\ payment \in [Orders -> PaymentStatus]
      /\ purchase \in [Orders -> PurchaseStatus]
      /\ req \in [Orders -> RequestStates]
      /\ got \in [Orders -> Int]
  BY DEF Init, LinkStates, PaymentStatus, PurchaseStatus, RequestStates
<1>5. /\ dlv \in [Deliveries -> DeliveryStates]
      /\ payload \in [Deliveries -> [Products -> Int]]
      /\ stale \in [Deliveries -> SUBSET Docs]
      /\ cancel \in [CancelRequests -> CancelStates]
  BY DEF Init, DeliveryStates, CancelStates, Nothing
<1>6. /\ stock \in [Products -> Int]
      /\ budget \in [Disturbances -> Nat]
  <2>1. InitStock \in [Products -> Nat] /\ Budget \in [Disturbances -> Nat]
    BY ConstantsAssumption
  <2> QED
    BY <2>1 DEF Init
<1>7. /\ live \subseteq Products
      /\ cart \in [Users -> SUBSET Products]
      /\ stalled \subseteq Deliveries
      /\ sync \in {"idle", "read"}
      /\ syncing \subseteq Products
      /\ synced \in [Products -> Int]
  BY DEF Init, Nothing
<1> QED
  BY <1>1, <1>2, <1>3, <1>4, <1>5, <1>6, <1>7 DEF TypeOK

-----------------------------------------------------------------------------
\* Each action keeps the types.  UNCHANGED tuples are expanded throughout.
LEMMA TypeNext == TypeOK /\ [Next]_vars => TypeOK'
<1> SUFFICES ASSUME TypeOK, [Next]_vars PROVE TypeOK'
  OBVIOUS
<1> USE ConstantsAssumption
        DEF vars, redisVars, shopVars, recordVars, requestVars, jobVars, syncVars
<1>1. ASSUME NEW o \in Orders, NEW p \in Products, EnsureHit(o, p) PROVE TypeOK'
  BY <1>1 DEF EnsureHit, TypeOK, RedisTypeOK
<1>2. ASSUME NEW o \in Orders, NEW p \in Products, EnsureMiss(o, p) PROVE TypeOK'
  BY <1>2 DEF EnsureMiss, TypeOK, RedisTypeOK, Goto, RequestStates
<1>3. ASSUME NEW o \in Orders, LoadStock(o) PROVE TypeOK'
  BY <1>3 DEF LoadStock, TypeOK, RedisTypeOK, Goto, RequestStates
<1>4. ASSUME NEW o \in Orders, ReserveRejected(o) PROVE TypeOK'
  BY <1>4 DEF ReserveRejected, TypeOK, RedisTypeOK, Goto, RequestStates
<1>5. ASSUME NEW o \in Orders, OpenLink(o) PROVE TypeOK'
  BY <1>5 DEF OpenLink, TypeOK, RedisTypeOK, Goto, RequestStates, LinkStates
<1>6. ASSUME NEW o \in Orders, CommitOrder(o) PROVE TypeOK'
  BY <1>6 DEF CommitOrder, TypeOK, RedisTypeOK, Goto, RequestStates, PaymentStatus, PurchaseStatus
<1>7. ASSUME NEW o \in Orders, CreateFails(o) PROVE TypeOK'
  <2>1. req' \in [Orders -> RequestStates]
    BY <1>7 DEF CreateFails, TypeOK, Goto, RequestStates
  <2>2. budget' \in [Disturbances -> Nat]
    BY <1>7, SpendType DEF CreateFails, TypeOK, Disturbances
  <2> QED
    BY <1>7, <2>1, <2>2 DEF CreateFails, TypeOK, RedisTypeOK
<1>8. ASSUME NEW o \in Orders, NEW s \in {"paid", "failed"}, Settle(o, s) PROVE TypeOK'
  BY <1>8 DEF Settle, TypeOK, RedisTypeOK, LinkStates
<1>9. ASSUME NEW d \in Deliveries, ReceiveWebhook(d) PROVE TypeOK'
  BY <1>9 DEF ReceiveWebhook, TypeOK, RedisTypeOK, Goto, DeliveryStates
<1>10. ASSUME NEW d \in Deliveries, EnqueueJob(d) PROVE TypeOK'
  BY <1>10 DEF EnqueueJob, TypeOK, RedisTypeOK, Goto, DeliveryStates, JobStates
<1>11. ASSUME NEW d \in Deliveries, StartRefusal(d) PROVE TypeOK'
  BY <1>11 DEF StartRefusal, TypeOK, RedisTypeOK, Goto, DeliveryStates, RefusalStates
<1>12. ASSUME NEW d \in Deliveries, RefuseWebhook(d) PROVE TypeOK'
  BY <1>12 DEF RefuseWebhook, TypeOK, RedisTypeOK, Goto, DeliveryStates
<1>13. ASSUME NEW d \in Deliveries, BeginJob(d) PROVE TypeOK'
  BY <1>13 DEF BeginJob, TypeOK, RedisTypeOK, Goto, DeliveryStates, JobStates, InTransaction
<1>14. ASSUME NEW d \in Deliveries, WriteStock(d) PROVE TypeOK'
  BY <1>14 DEF WriteStock, TypeOK, RedisTypeOK, Goto, DeliveryStates, JobStates, InTransaction
<1>15. ASSUME NEW d \in Deliveries, CompleteJob(d) PROVE TypeOK'
  BY <1>15 DEF CompleteJob, TypeOK, RedisTypeOK, Goto, DeliveryStates, JobStates
<1>16. ASSUME NEW c \in CancelRequests, CheckCancelled(c) PROVE TypeOK'
  BY <1>16 DEF CheckCancelled, TypeOK, RedisTypeOK, Goto, CancelStates
<1>17. ASSUME NEW c \in CancelRequests, AskPayos(c) PROVE TypeOK'
  BY <1>17 DEF AskPayos, TypeOK, RedisTypeOK, Goto, CancelStates, LinkStates
<1>18. ASSUME NEW o \in Orders, SetLoadedStock(o) PROVE TypeOK'
  <2>1. {item[o]} \in SUBSET Products /\ [p \in Products |-> got[o]] \in [Products -> Int]
    BY DEF TypeOK
  <2>2. RedisTypeOK'
    BY <1>18, <2>1, SetType DEF SetLoadedStock, TypeOK
  <2> QED
    BY <1>18, <2>2 DEF SetLoadedStock, TypeOK, Goto, RequestStates
<1>19. ASSUME NEW o \in Orders, Reserve(o) PROVE TypeOK'
  <2>1. /\ Line[o] \in [Products -> Nat] /\ Qty[o] \in [Products -> Nat]
        /\ \A p \in Products : Qty[o][p] > 0 => Line[o][p] > 0
    OBVIOUS
  <2>2. RedisTypeOK'
    BY <1>19, <2>1, ReserveType DEF Reserve, TypeOK
  <2> QED
    BY <1>19, <2>2 DEF Reserve, TypeOK, Goto, RequestStates
<1>20. ASSUME NEW d \in Deliveries, MarkPaymentFailed(d) PROVE TypeOK'
  <2>1. {DeliveryOf[d]} \in SUBSET Docs
    BY DEF Docs
  <2>2. stale' \in [Deliveries -> SUBSET Docs]
    BY <1>20, <2>1, CommittedType DEF MarkPaymentFailed, TypeOK
  <2> QED
    BY <1>20, <2>2 DEF MarkPaymentFailed, TypeOK, RedisTypeOK, Goto, DeliveryStates,
                       RefusalStates, PaymentStatus
<1>21. ASSUME NEW d \in Deliveries, ReleaseFailed(d) PROVE TypeOK'
  <2>1. Qty[DeliveryOf[d]] \in [Products -> Nat]
    OBVIOUS
  <2>2. RedisTypeOK'
    BY <1>21, <2>1, ReleaseType DEF ReleaseFailed, TypeOK
  <2> QED
    BY <1>21, <2>2 DEF ReleaseFailed, TypeOK, Goto, DeliveryStates, RefusalStates
<1>22. ASSUME NEW d \in Deliveries, SweepRedis(d) PROVE TypeOK'
  <2>1. NewStock(d) \in [Products -> Int]
    BY NewStockType DEF TypeOK
  <2>2. RedisTypeOK'
    BY <1>22, <2>1, SyncType, ItemsType DEF SweepRedis, TypeOK
  <2> QED
    BY <1>22, <2>2 DEF SweepRedis, TypeOK, Goto, DeliveryStates, JobStates, InTransaction
<1>23. ASSUME NEW d \in Deliveries, CommitJob(d) PROVE TypeOK'
  <2> DEFINE o == DeliveryOf[d]
             written == Items(o) \cup RecordDocs(o)
  <2>1. NewStock(d) \in [Products -> Int] /\ Items(o) \in SUBSET Products
    BY NewStockType, ItemsType DEF TypeOK
  <2>2. stale' \in [Deliveries -> SUBSET Docs]
    <3>1. written \in SUBSET Docs
      BY <2>1 DEF RecordDocs, Docs
    <3>2. Committed(stale, Open, written) \in [Deliveries -> SUBSET Docs]
      BY <3>1, CommittedType DEF TypeOK
    <3> QED
      BY <1>23, <3>2, ForgetType DEF CommitJob
  <2>3. stock' \in [Products -> Int]
    BY <1>23, <2>1 DEF CommitJob, TypeOK
  <2> QED
    BY <1>23, <2>2, <2>3 DEF CommitJob, TypeOK, RedisTypeOK, Goto, DeliveryStates,
                             JobStates, PaymentStatus, PurchaseStatus
<1>24. ASSUME NEW d \in Deliveries, SwallowError(d) PROVE TypeOK'
  <2>1. stale' \in [Deliveries -> SUBSET Docs]
    BY <1>24, ForgetType DEF SwallowError, TypeOK
  <2>2. budget' \in [Disturbances -> Nat]
    BY <1>24, SpendType DEF SwallowError, TypeOK, Disturbances
  <2> QED
    BY <1>24, <2>1, <2>2 DEF SwallowError, TypeOK, RedisTypeOK, DeliveryStates, JobStates
<1>25. ASSUME NEW d \in Deliveries, CrashWorker(d) PROVE TypeOK'
  <2>1. stale' \in [Deliveries -> SUBSET Docs]
    BY <1>25, ForgetType DEF CrashWorker, TypeOK
  <2>2. budget' \in [Disturbances -> Nat]
    BY <1>25, SpendType DEF CrashWorker, TypeOK, Disturbances
  <2> QED
    BY <1>25, <2>1, <2>2 DEF CrashWorker, TypeOK, RedisTypeOK, DeliveryStates, JobStates
<1>26. ASSUME NEW c \in CancelRequests, RecordCancelled(c) PROVE TypeOK'
  <2>1. {CancelOf[c]} \in SUBSET Docs
    BY DEF Docs
  <2>2. stale' \in [Deliveries -> SUBSET Docs]
    BY <1>26, <2>1, CommittedType DEF RecordCancelled, TypeOK
  <2> QED
    BY <1>26, <2>2 DEF RecordCancelled, TypeOK, RedisTypeOK, Goto, CancelStates,
                       PaymentStatus
<1>27. ASSUME NEW c \in CancelRequests, ReleaseCancelled(c) PROVE TypeOK'
  <2>1. Qty[CancelOf[c]] \in [Products -> Nat]
    OBVIOUS
  <2>2. RedisTypeOK'
    BY <1>27, <2>1, ReleaseType DEF ReleaseCancelled, TypeOK
  <2> QED
    BY <1>27, <2>2 DEF ReleaseCancelled, TypeOK, Goto, CancelStates
<1>28. ASSUME ReadAllStock PROVE TypeOK'
  <2>1. budget' \in [Disturbances -> Nat]
    BY <1>28, SpendType DEF ReadAllStock, TypeOK, Disturbances
  <2> QED
    BY <1>28, <2>1 DEF ReadAllStock, TypeOK, RedisTypeOK
<1>29. ASSUME WriteAllStock PROVE TypeOK'
  <2>1. RedisTypeOK'
    BY <1>29, SyncType DEF WriteAllStock, TypeOK
  <2> QED
    BY <1>29, <2>1 DEF WriteAllStock, TypeOK, Nothing
<1>30. ASSUME NEW p \in Products, NEW n \in EditStock, EditProduct(p, n) PROVE TypeOK'
  <2>1. stale' \in [Deliveries -> SUBSET Docs]
    BY <1>30, CommittedType DEF EditProduct, TypeOK, Docs
  <2>2. stock' \in [Products -> Int]
    BY <1>30 DEF EditProduct, TypeOK
  <2>3. budget' \in [Disturbances -> Nat]
    BY <1>30, SpendType DEF EditProduct, TypeOK, Disturbances
  <2> QED
    BY <1>30, <2>1, <2>2, <2>3 DEF EditProduct, TypeOK, RedisTypeOK
<1>31. ASSUME NEW p \in Products, RemoveProduct(p) PROVE TypeOK'
  <2>1. stale' \in [Deliveries -> SUBSET Docs]
    BY <1>31, CommittedType DEF RemoveProduct, TypeOK, Docs
  <2>2. budget' \in [Disturbances -> Nat]
    BY <1>31, SpendType DEF RemoveProduct, TypeOK, Disturbances
  <2> QED
    BY <1>31, <2>1, <2>2 DEF RemoveProduct, TypeOK, RedisTypeOK
<1>32. ASSUME NEW u \in Users, NEW p \in Products, EditCart(u, p) PROVE TypeOK'
  <2>1. stale' \in [Deliveries -> SUBSET Docs]
    BY <1>32, CommittedType DEF EditCart, TypeOK, Docs
  <2>2. budget' \in [Disturbances -> Nat]
    BY <1>32, SpendType DEF EditCart, TypeOK, Disturbances
  <2>3. cart' \in [Users -> SUBSET Products]
    <3>1. \/ cart' = [cart EXCEPT ![u] = @ \ {p}]
          \/ cart' = [cart EXCEPT ![u] = @ \cup {p}]
      BY <1>32 DEF EditCart
    <3> QED
      BY <3>1 DEF TypeOK
  <2> QED
    BY <1>32, <2>1, <2>2, <2>3 DEF EditCart, TypeOK, RedisTypeOK
<1>33. ASSUME NEW p \in Products, Expire(p) PROVE TypeOK'
  <2>1. RedisTypeOK'
    BY <1>33, ExpireType DEF Expire, TypeOK
  <2> QED
    BY <1>33, <2>1, SpendType DEF Expire, TypeOK, Disturbances
<1>34. CASE UNCHANGED vars
  BY <1>34 DEF TypeOK, RedisTypeOK
<1> QED
  BY <1>1, <1>2, <1>3, <1>4, <1>5, <1>6, <1>7, <1>8, <1>9, <1>10, <1>11, <1>12, <1>13,
     <1>14, <1>15, <1>16, <1>17, <1>18, <1>19, <1>20, <1>21, <1>22, <1>23, <1>24, <1>25,
     <1>26, <1>27, <1>28, <1>29, <1>30, <1>31, <1>32, <1>33, <1>34
     DEF Next, RequestStep, WebhookStep, JobStep, CancelStep, Disturbance

(* The types hold in every reachable state, for any number of orders,      *)
(* products and deliveries: among them that a Redis key with a TTL exists. *)
THEOREM TypeCorrect == Spec => []TypeOK
  BY TypeInit, TypeNext, PTL DEF Spec

-----------------------------------------------------------------------------
(* What carries the outcome of a link to the payment: requests that have   *)
(* not stored the order, deliveries and cancel requests on their way.      *)
Unstored == {"ensure", "load", "set", "create", "commit"}

RequestInv ==
    \A o \in Orders :
        /\ req[o] \in Unstored => payment[o] = "none"
        /\ req[o] \in Unstored \ {"commit"} => link[o] = "none"
        /\ link[o] \in {"paid", "failed", "cancelled"} => payment[o] # "none"

DeliveryInv ==
    \A d \in Deliveries :
        /\ dlv[d] \in JobStates => link[DeliveryOf[d]] = "paid"
        /\ dlv[d] \in RefusalStates => link[DeliveryOf[d]] = "failed"

CancelInv ==
    \A c \in CancelRequests :
        /\ cancel[c] = "asking" => payment[CancelOf[c]] # "none"
        /\ cancel[c] \in {"answered", "recorded"} => link[CancelOf[c]] = "cancelled"

OutcomeInv ==
    /\ StatusMatchesPayos
    /\ ConfirmedIffSucceeded
    /\ RequestInv
    /\ DeliveryInv
    /\ CancelInv

\* Nothing is recorded before an order is created
LEMMA OutcomeInit == Init => OutcomeInv
  BY ConstantsAssumption
     DEF Init, OutcomeInv, StatusMatchesPayos, ConfirmedIffSucceeded, RequestInv,
         DeliveryInv, CancelInv, Unstored, JobStates, RefusalStates, InTransaction

\* The variables the invariant speaks of
outcomeVars == <<link, payment, purchase, req, dlv, cancel>>

\* Each action keeps the inductive invariant
LEMMA OutcomeNext == TypeOK /\ OutcomeInv /\ [Next]_vars => OutcomeInv'
<1> SUFFICES ASSUME TypeOK, OutcomeInv, [Next]_vars PROVE OutcomeInv'
  OBVIOUS
<1> USE ConstantsAssumption
        DEF vars, redisVars, shopVars, recordVars, requestVars, jobVars, syncVars,
            OutcomeInv, StatusMatchesPayos, ConfirmedIffSucceeded, RequestInv,
            DeliveryInv, CancelInv
<1>0. /\ link \in [Orders -> LinkStates]
      /\ payment \in [Orders -> PaymentStatus]
      /\ purchase \in [Orders -> PurchaseStatus]
      /\ req \in [Orders -> RequestStates]
      /\ dlv \in [Deliveries -> DeliveryStates]
      /\ cancel \in [CancelRequests -> CancelStates]
  BY DEF TypeOK
<1>1. ASSUME NEW o \in Orders, NEW p \in Products, EnsureHit(o, p) PROVE OutcomeInv'
  BY <1>0, <1>1 DEF EnsureHit
<1>2. ASSUME NEW o \in Orders, NEW p \in Products, EnsureMiss(o, p) PROVE OutcomeInv'
  BY <1>0, <1>2 DEF EnsureMiss, Goto, Unstored
<1>3. ASSUME NEW o \in Orders, LoadStock(o) PROVE OutcomeInv'
  BY <1>0, <1>3 DEF LoadStock, Goto, Unstored
<1>4. ASSUME NEW o \in Orders, SetLoadedStock(o) PROVE OutcomeInv'
  BY <1>0, <1>4 DEF SetLoadedStock, Goto, Unstored
<1>5. ASSUME NEW o \in Orders, Reserve(o) PROVE OutcomeInv'
  BY <1>0, <1>5 DEF Reserve, Goto, Unstored
<1>6. ASSUME NEW o \in Orders, ReserveRejected(o) PROVE OutcomeInv'
  BY <1>0, <1>6 DEF ReserveRejected, Goto, Unstored
<1>7. ASSUME NEW o \in Orders, OpenLink(o) PROVE OutcomeInv'
  BY <1>0, <1>7 DEF OpenLink, Goto, Unstored, JobStates, RefusalStates,
     InTransaction
<1>8. ASSUME NEW o \in Orders, CommitOrder(o) PROVE OutcomeInv'
  BY <1>0, <1>8 DEF CommitOrder, Goto, Unstored
<1>9. ASSUME NEW o \in Orders, CreateFails(o) PROVE OutcomeInv'
  BY <1>0, <1>9 DEF CreateFails, Goto, Unstored
<1>10. ASSUME NEW o \in Orders, NEW s \in {"paid", "failed"}, Settle(o, s) PROVE OutcomeInv'
  BY <1>0, <1>10 DEF Settle, Unstored, JobStates, RefusalStates,
     InTransaction
<1>11. ASSUME NEW d \in Deliveries, ReceiveWebhook(d) PROVE OutcomeInv'
  BY <1>0, <1>11 DEF ReceiveWebhook, Goto, JobStates, RefusalStates,
     InTransaction
<1>12. ASSUME NEW d \in Deliveries, EnqueueJob(d) PROVE OutcomeInv'
  BY <1>0, <1>12 DEF EnqueueJob, Goto, JobStates, RefusalStates,
     InTransaction
<1>13. ASSUME NEW d \in Deliveries, StartRefusal(d) PROVE OutcomeInv'
  BY <1>0, <1>13 DEF StartRefusal, Goto, JobStates, RefusalStates,
     InTransaction
<1>14. ASSUME NEW d \in Deliveries, RefuseWebhook(d) PROVE OutcomeInv'
  BY <1>0, <1>14 DEF RefuseWebhook, Goto, JobStates, RefusalStates,
     InTransaction
<1>15. ASSUME NEW d \in Deliveries, MarkPaymentFailed(d) PROVE OutcomeInv'
  BY <1>0, <1>15 DEF MarkPaymentFailed, Goto, Unstored, JobStates,
     RefusalStates, InTransaction
<1>16. ASSUME NEW d \in Deliveries, ReleaseFailed(d) PROVE OutcomeInv'
  BY <1>0, <1>16 DEF ReleaseFailed, Goto, JobStates, RefusalStates,
     InTransaction
<1>17. ASSUME NEW d \in Deliveries, BeginJob(d) PROVE OutcomeInv'
  BY <1>0, <1>17 DEF BeginJob, Goto, JobStates, RefusalStates,
     InTransaction
<1>18. ASSUME NEW d \in Deliveries, WriteStock(d) PROVE OutcomeInv'
  BY <1>0, <1>18 DEF WriteStock, Goto, JobStates, RefusalStates,
     InTransaction
<1>19. ASSUME NEW d \in Deliveries, SweepRedis(d) PROVE OutcomeInv'
  BY <1>0, <1>19 DEF SweepRedis, Goto, JobStates, RefusalStates,
     InTransaction
<1>20. ASSUME NEW d \in Deliveries, CommitJob(d) PROVE OutcomeInv'
  BY <1>0, <1>20 DEF CommitJob, Goto, Unstored, JobStates, RefusalStates,
     InTransaction
<1>21. ASSUME NEW d \in Deliveries, CompleteJob(d) PROVE OutcomeInv'
  BY <1>0, <1>21 DEF CompleteJob, Goto, JobStates, RefusalStates,
     InTransaction
<1>22. ASSUME NEW d \in Deliveries, SwallowError(d) PROVE OutcomeInv'
  BY <1>0, <1>22 DEF SwallowError, JobStates, RefusalStates, InTransaction
<1>23. ASSUME NEW d \in Deliveries, CrashWorker(d) PROVE OutcomeInv'
  BY <1>0, <1>23 DEF CrashWorker, JobStates, RefusalStates, InTransaction
<1>24. ASSUME NEW c \in CancelRequests, CheckCancelled(c) PROVE OutcomeInv'
  BY <1>0, <1>24 DEF CheckCancelled, Goto
<1>25. ASSUME NEW c \in CancelRequests, AskPayos(c) PROVE OutcomeInv'
  BY <1>0, <1>25 DEF AskPayos, Goto, Unstored, JobStates, RefusalStates,
     InTransaction
<1>26. ASSUME NEW c \in CancelRequests, RecordCancelled(c) PROVE OutcomeInv'
  BY <1>0, <1>26 DEF RecordCancelled, Goto, Unstored
<1>27. ASSUME NEW c \in CancelRequests, ReleaseCancelled(c) PROVE OutcomeInv'
  BY <1>0, <1>27 DEF ReleaseCancelled, Goto
<1>28. CASE UNCHANGED outcomeVars
  BY <1>28 DEF outcomeVars
<1>29. ASSUME Disturbance, ~\E d \in Deliveries : CrashWorker(d) PROVE UNCHANGED outcomeVars
  BY <1>29 DEF Disturbance, ReadAllStock, WriteAllStock, EditProduct, RemoveProduct,
               EditCart, Expire, outcomeVars
<1> QED
  BY <1>1, <1>2, <1>3, <1>4, <1>5, <1>6, <1>7, <1>8, <1>9, <1>10, <1>11,
     <1>12, <1>13, <1>14, <1>15, <1>16, <1>17, <1>18, <1>19, <1>20,
     <1>21, <1>22, <1>23, <1>24, <1>25, <1>26, <1>27, <1>28, <1>29
     DEF Next, RequestStep, WebhookStep, JobStep, CancelStep, outcomeVars

(* The stored status of an order and PayOS agree, and an order is confirmed *)
(* exactly when its payment succeeded, whatever happens in between.         *)
THEOREM OutcomeCorrect == Spec => [](StatusMatchesPayos /\ ConfirmedIffSucceeded)
<1>1. OutcomeInv => StatusMatchesPayos /\ ConfirmedIffSucceeded
  BY DEF OutcomeInv
<1> QED
  BY <1>1, OutcomeInit, OutcomeNext, TypeCorrect, PTL DEF Spec

-----------------------------------------------------------------------------
\* Only four actions touch an order's payment or purchase history
LEMMA RecordSteps ==
    ASSUME [Next]_vars
    PROVE  \/ UNCHANGED recordVars
           \/ \E o \in Orders : CommitOrder(o)
           \/ \E d \in Deliveries : MarkPaymentFailed(d) \/ CommitJob(d)
           \/ \E c \in CancelRequests : RecordCancelled(c)
<1> USE DEF recordVars
<1>1. ASSUME NEW o \in Orders, RequestStep(o) \/ \E s \in {"paid", "failed"} : Settle(o, s)
      PROVE  UNCHANGED recordVars \/ CommitOrder(o)
  BY <1>1 DEF RequestStep, EnsureHit, EnsureMiss, LoadStock, SetLoadedStock, Reserve,
              ReserveRejected, OpenLink, CreateFails, Settle
<1>2. ASSUME NEW d \in Deliveries, WebhookStep(d)
      PROVE  UNCHANGED recordVars \/ MarkPaymentFailed(d)
  BY <1>2 DEF WebhookStep, ReceiveWebhook, EnqueueJob, StartRefusal, RefuseWebhook,
              ReleaseFailed
<1>3. ASSUME NEW d \in Deliveries, JobStep(d)
      PROVE  UNCHANGED recordVars \/ CommitJob(d)
  BY <1>3 DEF JobStep, BeginJob, WriteStock, SweepRedis, CompleteJob, SwallowError
<1>4. ASSUME NEW c \in CancelRequests, CancelStep(c)
      PROVE  UNCHANGED recordVars \/ RecordCancelled(c)
  BY <1>4 DEF CancelStep, CheckCancelled, AskPayos, ReleaseCancelled
<1>5. ASSUME Disturbance PROVE UNCHANGED recordVars
  BY <1>5 DEF Disturbance, ReadAllStock, WriteAllStock, EditProduct, RemoveProduct,
              EditCart, Expire, CrashWorker
<1>6. ASSUME UNCHANGED vars PROVE UNCHANGED recordVars
  BY <1>6 DEF vars
<1> QED
  BY <1>1, <1>2, <1>3, <1>4, <1>5, <1>6 DEF Next

\* Each of those steps is a step of the life cycle of an order, or a stutter
LEMMA LifecycleNext ==
    ASSUME TypeOK, OutcomeInv, [Next]_vars
    PROVE  [Lifecycle!Next]_<<payment, purchase>>
<1>0. payment \in [Orders -> PaymentStatus] /\ purchase \in [Orders -> PurchaseStatus]
  BY DEF TypeOK
<1>1. ASSUME NEW o \in Orders, CommitOrder(o) PROVE Lifecycle!Create(o)
  BY <1>1 DEF CommitOrder, Goto, Lifecycle!Create, OutcomeInv, RequestInv, Unstored
<1>2. ASSUME NEW d \in Deliveries, MarkPaymentFailed(d)
      PROVE  Lifecycle!Close(DeliveryOf[d]) \/ UNCHANGED <<payment, purchase>>
  <2> DEFINE o == DeliveryOf[d]
  <2>1. o \in Orders /\ link[o] = "failed" /\ payment[o] # "none"
    BY <1>2, ConstantsAssumption
       DEF MarkPaymentFailed, Goto, OutcomeInv, DeliveryInv, RequestInv, RefusalStates
  <2>2. payment[o] \in {"pending", "failed"}
    BY <1>0, <2>1 DEF OutcomeInv, StatusMatchesPayos, PaymentStatus
  <2> QED
    BY <1>0, <1>2, <2>1, <2>2 DEF MarkPaymentFailed, Lifecycle!Close
<1>3. ASSUME NEW d \in Deliveries, CommitJob(d)
      PROVE  Lifecycle!Fulfil(DeliveryOf[d]) \/ UNCHANGED <<payment, purchase>>
  <2> DEFINE o == DeliveryOf[d]
  <2>1. o \in Orders /\ link[o] = "paid" /\ payment[o] # "none"
    BY <1>3, ConstantsAssumption
       DEF CommitJob, Goto, OutcomeInv, DeliveryInv, RequestInv, JobStates, InTransaction
  <2>2. payment[o] \in {"pending", "succeeded"}
    BY <1>0, <2>1 DEF OutcomeInv, StatusMatchesPayos, PaymentStatus
  <2>3. payment[o] = "succeeded" => purchase[o] = "confirmed"
    BY <2>1 DEF OutcomeInv, ConfirmedIffSucceeded
  <2> QED
    BY <1>0, <1>3, <2>1, <2>2, <2>3 DEF CommitJob, Lifecycle!Fulfil
<1>4. ASSUME NEW c \in CancelRequests, RecordCancelled(c)
      PROVE  Lifecycle!Close(CancelOf[c]) \/ UNCHANGED <<payment, purchase>>
  <2> DEFINE o == CancelOf[c]
  <2>1. o \in Orders /\ link[o] = "cancelled" /\ payment[o] # "none"
    BY <1>4, ConstantsAssumption DEF RecordCancelled, Goto, OutcomeInv, CancelInv, RequestInv
  <2>2. payment[o] \in {"pending", "cancelled"}
    BY <1>0, <2>1 DEF OutcomeInv, StatusMatchesPayos, PaymentStatus
  <2> QED
    BY <1>0, <1>4, <2>1, <2>2 DEF RecordCancelled, Lifecycle!Close
<1> QED
  BY <1>1, <1>2, <1>3, <1>4, RecordSteps, ConstantsAssumption DEF Lifecycle!Next, recordVars

(* Whatever the interleaving, payment and purchase follow the life cycle:  *)
(* an order has one outcome, keeps it, and is fulfilled when it is paid.   *)
THEOREM ProductPaymentImplementsLifecycle == Spec => ImplementsLifecycle
<1>1. Init => Lifecycle!Init
  BY DEF Init, Lifecycle!Init
<1>2. TypeOK /\ OutcomeInv /\ [Next]_vars => [Lifecycle!Next]_<<payment, purchase>>
  BY LifecycleNext
<1> QED
  BY <1>1, <1>2, OutcomeInit, OutcomeNext, TypeCorrect, PTL
     DEF Spec, Lifecycle!Spec, ImplementsLifecycle


(* An order is fulfilled exactly when its payment succeeded: the job       *)
(* writes both documents in one transaction, or neither.                   *)
THEOREM FulfilmentCorrect == Spec => []ConfirmedIffSucceeded
  BY OutcomeCorrect, PTL

-----------------------------------------------------------------------------
(* What jobs leave in MongoDB's stock                                      *)

\* The orders share no product, PayOS calls once for each, the shop edits nothing
SeparateOrders ==
    /\ \A o, x \in Orders : o # x => Items(o) \cap Items(x) = {}
    /\ \A d, e \in Deliveries : d # e => DeliveryOf[d] # DeliveryOf[e]
    /\ Budget["edit"] = 0

\* A job carries the stock there was before the order was confirmed
StockInv ==
    /\ budget["edit"] = 0
    /\ StockAccountsForConfirmed
    /\ \A d \in Deliveries :
          IF dlv[d] \in JobStates
          THEN \A p \in Items(DeliveryOf[d]) : payload[d][p] = InitStock[p]
          ELSE purchase[DeliveryOf[d]] # "confirmed"

\* Steps that keep what jobs carry and what is confirmed
LEMMA StockKept ==
    ASSUME StockInv, budget'["edit"] = 0, UNCHANGED <<stock, payload>>,
           \A o \in Orders : purchase'[o] = "confirmed" <=> purchase[o] = "confirmed",
           \A d \in Deliveries : dlv'[d] \in JobStates <=> dlv[d] \in JobStates
    PROVE  StockInv'
  BY ConstantsAssumption DEF StockInv, StockAccountsForConfirmed

\* Without edits no disturbance allows one
LEMMA NoEdits ==
    ASSUME TypeOK, budget["edit"] = 0
    PROVE  /\ \A w \in Disturbances : Spend(w) => budget'["edit"] = 0
           /\ \A p \in Products, n \in EditStock : ~EditProduct(p, n)
           /\ \A p \in Products : ~RemoveProduct(p)
<1>1. ASSUME NEW w \in Disturbances, Spend(w) PROVE budget'["edit"] = 0
  BY <1>1 DEF Spend, TypeOK, Disturbances
<1> QED
  BY <1>1 DEF EditProduct, RemoveProduct, Spend

\* Each action keeps what the stock accounts for
LEMMA StockNext ==
    ASSUME SeparateOrders, TypeOK, OutcomeInv, StockInv, [Next]_vars
    PROVE  StockInv'
<1> USE ConstantsAssumption
        DEF vars, redisVars, shopVars, recordVars, requestVars, jobVars, syncVars
<1>0. /\ purchase \in [Orders -> PurchaseStatus] /\ dlv \in [Deliveries -> DeliveryStates]
      /\ payload \in [Deliveries -> [Products -> Int]] /\ stock \in [Products -> Int]
      /\ budget["edit"] = 0
  BY DEF TypeOK, StockInv
<1>1. \A w \in Disturbances : Spend(w) => budget'["edit"] = 0
  BY <1>0, NoEdits
<1>2. ASSUME UNCHANGED <<stock, payload, purchase, dlv>>, budget'["edit"] = 0 PROVE StockInv'
  BY <1>2, StockKept
<1>3. ASSUME NEW d \in Deliveries, NEW to, to \in JobStates <=> dlv[d] \in JobStates,
             dlv' = [dlv EXCEPT ![d] = to],
             UNCHANGED <<stock, payload, purchase>>, budget'["edit"] = 0
      PROVE  StockInv'
  BY <1>0, <1>3, StockKept
<1>4. ASSUME NEW o \in Orders, RequestStep(o) \/ \E s \in {"paid", "failed"} : Settle(o, s)
      PROVE  StockInv'
  <2>1. CASE CommitOrder(o)
    <3>1. /\ payment[o] = "none" /\ purchase' = [purchase EXCEPT ![o] = "pending"]
          /\ UNCHANGED <<stock, payload, dlv, budget>>
      BY <2>1 DEF CommitOrder, Goto, OutcomeInv, RequestInv, Unstored
    <3>2. purchase[o] # "confirmed"
      BY <3>1 DEF OutcomeInv, ConfirmedIffSucceeded
    <3> QED
      BY <1>0, <3>1, <3>2, StockKept
  <2>2. CASE CreateFails(o)
    <3>1. budget'["edit"] = 0
      BY <1>0, <1>1, <2>2 DEF CreateFails, Disturbances
    <3> QED
      BY <1>2, <2>2, <3>1 DEF CreateFails
  <2>3. CASE RequestStep(o) /\ ~CommitOrder(o) /\ ~CreateFails(o)
    BY <1>0, <1>2, <2>3 DEF RequestStep, EnsureHit, EnsureMiss, LoadStock, SetLoadedStock,
                            Reserve, ReserveRejected, OpenLink
  <2>4. ASSUME NEW s \in {"paid", "failed"}, Settle(o, s) PROVE StockInv'
    BY <1>0, <1>2, <2>4 DEF Settle
  <2> QED
    BY <1>4, <2>1, <2>2, <2>3, <2>4
<1>5. ASSUME NEW d \in Deliveries, EnqueueJob(d) PROVE StockInv'
  <2>1. /\ dlv[d] = "found" /\ dlv' = [dlv EXCEPT ![d] = "queued"]
        /\ payload' = [payload EXCEPT ![d] = stock]
        /\ UNCHANGED <<stock, purchase, budget>>
    BY <1>5 DEF EnqueueJob, Goto
  <2>2. purchase[DeliveryOf[d]] # "confirmed"
    BY <2>1 DEF StockInv, JobStates, InTransaction
  <2>3. \A p \in Items(DeliveryOf[d]) : stock[p] = InitStock[p]
    BY <2>2, ItemsType DEF StockInv, StockAccountsForConfirmed
  <2>4. ASSUME NEW e \in Deliveries
        PROVE  IF dlv'[e] \in JobStates
               THEN \A p \in Items(DeliveryOf[e]) : payload'[e][p] = InitStock[p]
               ELSE purchase'[DeliveryOf[e]] # "confirmed"
    <3>1. CASE e = d
      BY <1>0, <2>1, <2>3, <3>1 DEF JobStates
    <3>2. CASE e # d
      BY <1>0, <2>1, <3>2 DEF StockInv
    <3> QED
      BY <3>1, <3>2
  <2> QED
    BY <1>0, <2>1, <2>4 DEF StockInv, StockAccountsForConfirmed
<1>6. ASSUME NEW d \in Deliveries, WebhookStep(d), ~EnqueueJob(d) PROVE StockInv'
  BY <1>0, <1>3, <1>6 DEF WebhookStep, ReceiveWebhook, StartRefusal, RefuseWebhook,
                          MarkPaymentFailed, ReleaseFailed, Goto, JobStates, InTransaction
<1>7. ASSUME NEW d \in Deliveries, CommitJob(d) PROVE StockInv'
  <2> DEFINE o == DeliveryOf[d]
  <2>1. /\ dlv[d] = "swept" /\ dlv' = [dlv EXCEPT ![d] = "committed"] /\ o \in Orders
        /\ stock' = [p \in Products |-> IF p \in Items(o) THEN NewStock(d)[p] ELSE stock[p]]
        /\ purchase' = [purchase EXCEPT ![o] = "confirmed"]
        /\ UNCHANGED <<payload, budget>>
    BY <1>7 DEF CommitJob, Goto
  <2> HIDE DEF o
  <2>2. \A p \in Items(o) : payload[d][p] = InitStock[p]
    BY <2>1 DEF StockInv, JobStates, InTransaction, o
  <2>3. \A p \in Items(o) : stock'[p] = InitStock[p] - Qty[o][p]
    <3> SUFFICES ASSUME NEW p \in Items(o) PROVE stock'[p] = InitStock[p] - Qty[o][p]
      OBVIOUS
    <3>1. p \in Products
      BY <2>1, ItemsType
    <3> QED
      BY <2>1, <2>2, <3>1 DEF NewStock, o
  <2>4. ASSUME NEW x \in Orders, NEW p \in Items(x)
        PROVE  stock'[p] = InitStock[p] - (IF purchase'[x] = "confirmed" THEN Qty[x][p] ELSE 0)
    <3>1. CASE x = o
      BY <1>0, <2>1, <2>3, <3>1
    <3>2. CASE x # o
      <4>1. p \notin Items(o) /\ p \in Products
        BY <2>1, <3>2, ItemsType DEF SeparateOrders
      <4>2. stock'[p] = stock[p] /\ purchase'[x] = purchase[x]
        BY <1>0, <2>1, <3>2, <4>1
      <4> QED
        BY <4>2 DEF StockInv, StockAccountsForConfirmed
    <3> QED
      BY <3>1, <3>2
  <2>5. ASSUME NEW e \in Deliveries
        PROVE  IF dlv'[e] \in JobStates
               THEN \A p \in Items(DeliveryOf[e]) : payload'[e][p] = InitStock[p]
               ELSE purchase'[DeliveryOf[e]] # "confirmed"
    <3>1. CASE e = d
      BY <1>0, <2>1, <2>2, <3>1 DEF JobStates, o
    <3>2. CASE e # d
      <4>1. DeliveryOf[e] # o /\ DeliveryOf[e] \in Orders
        BY <3>2 DEF SeparateOrders, o
      <4> QED
        BY <1>0, <2>1, <3>2, <4>1 DEF StockInv
    <3> QED
      BY <3>1, <3>2
  <2> QED
    BY <1>0, <2>1, <2>4, <2>5 DEF StockInv, StockAccountsForConfirmed
<1>8. ASSUME NEW d \in Deliveries,
             BeginJob(d) \/ WriteStock(d) \/ SweepRedis(d) \/ CompleteJob(d)
      PROVE  StockInv'
  BY <1>0, <1>3, <1>8 DEF BeginJob, WriteStock, SweepRedis, CompleteJob, Goto, JobStates,
                          InTransaction
<1>9. ASSUME NEW d \in Deliveries, SwallowError(d) PROVE StockInv'
  <2>1. budget'["edit"] = 0
    BY <1>0, <1>1, <1>9 DEF SwallowError, Disturbances
  <2> QED
    BY <1>3, <1>9, <2>1 DEF SwallowError, JobStates, InTransaction
<1>10. ASSUME NEW d \in Deliveries, CrashWorker(d) PROVE StockInv'
  <2>1. budget'["edit"] = 0
    BY <1>1, <1>10 DEF CrashWorker, Disturbances
  <2> QED
    BY <1>3, <1>10, <2>1 DEF CrashWorker, JobStates, InTransaction
<1>11. ASSUME NEW c \in CancelRequests, CancelStep(c) PROVE StockInv'
  BY <1>0, <1>2, <1>11 DEF CancelStep, CheckCancelled, AskPayos, RecordCancelled,
                           ReleaseCancelled
<1>12. ASSUME Disturbance, ~\E d \in Deliveries : CrashWorker(d) PROVE StockInv'
  <2>1. UNCHANGED <<stock, payload, purchase, dlv>>
    BY <1>0, <1>12, NoEdits DEF Disturbance, ReadAllStock, WriteAllStock, EditCart, Expire
  <2>2. budget'["edit"] = 0
    BY <1>0, <1>1, <1>12, NoEdits
       DEF Disturbance, ReadAllStock, WriteAllStock, EditCart, Expire, Disturbances
  <2> QED
    BY <1>2, <2>1, <2>2
<1>13. CASE UNCHANGED vars
  BY <1>0, <1>2, <1>13
<1> QED
  BY <1>4, <1>5, <1>6, <1>7, <1>8, <1>9, <1>10, <1>11, <1>12, <1>13 DEF Next, JobStep

(* A job takes the goods of its order out of MongoDB's stock once, however *)
(* often it is run again and whatever else happens: its new stock is an    *)
(* absolute one, computed from the products read before it was enqueued.   *)
(* This needs that no other job and no edit of the shop changes the same   *)
(* products meanwhile, which nothing in the code ensures.                  *)
THEOREM StockCorrect == SeparateOrders => (Spec => []StockAccountsForConfirmed)
<1> SUFFICES ASSUME SeparateOrders PROVE Spec => []StockAccountsForConfirmed
  OBVIOUS
<1>1. Init => StockInv
  BY ConstantsAssumption, ItemsType
     DEF Init, StockInv, StockAccountsForConfirmed, SeparateOrders, JobStates, InTransaction
<1>2. TypeOK /\ OutcomeInv /\ StockInv /\ [Next]_vars => StockInv'
  BY StockNext
<1>3. StockInv => StockAccountsForConfirmed
  BY DEF StockInv
<1> QED
  BY <1>1, <1>2, <1>3, OutcomeInit, OutcomeNext, TypeCorrect, PTL DEF Spec

-----------------------------------------------------------------------------
(* Sums over finite sets                                                   *)

LEMMA LeastSubset ==
    ASSUME NEW S, IsFiniteSet(S), NEW B \in SUBSET SUBSET S, B # {}
    PROVE  \E T \in B : \A x \in T : T \ {x} \notin B
<1>1. B \subseteq FiniteSubsetsOf(S)
  BY FS_FiniteSubsetsOfFinite
<1>2. PICK T \in B : \A U \in B : ~(<<U, T>> \in StrictSubsetOrdering(S))
  BY <1>1, FS_StrictSubsetOrderingWellFounded, WFMin
<1>3. ASSUME NEW x \in T, T \ {x} \in B PROVE FALSE
  <2>1. <<T \ {x}, T>> \in StrictSubsetOrdering(S)
    BY <1>3 DEF StrictSubsetOrdering
  <2> QED
    BY <1>2, <1>3, <2>1
<1> QED
  BY <1>3

\* g holds the sums of f over the subsets of S, in whatever order they are taken
Sums(f, S, g) ==
    /\ g \in [SUBSET S -> Int]
    /\ g[{}] = 0
    /\ \A T \in SUBSET S : \A x \in T : g[T] = g[T \ {x}] + f[x]

LEMMA SumsExist ==
    ASSUME NEW f, NEW S, IsFiniteSet(S), \A x \in S : f[x] \in Int
    PROVE  \E g : Sums(f, S, g)
<1> DEFINE B == {T \in SUBSET S : ~\E g : Sums(f, T, g)}
<1>1. SUFFICES ASSUME B # {} PROVE FALSE
  OBVIOUS
<1>2. PICK T \in B : \A x \in T : T \ {x} \notin B
  <2> B \in SUBSET SUBSET S
    OBVIOUS
  <2> HIDE DEF B
  <2> QED
    BY <1>1, LeastSubset
<1>3. T # {}
  <2>1. Sums(f, {}, [U \in {{}} |-> 0])
    BY DEF Sums
  <2> QED
    BY <2>1
<1>4. PICK y \in T : TRUE
  BY <1>3
<1>5. PICK g : Sums(f, T \ {y}, g)
  BY <1>2
<1> DEFINE h == [U \in SUBSET T |-> IF y \in U THEN g[U \ {y}] + f[y] ELSE g[U]]
<1>6. h \in [SUBSET T -> Int]
  <2>1. \A U \in SUBSET T : U \ {y} \in SUBSET (T \ {y}) /\ (y \notin U => U \in SUBSET (T \ {y}))
    OBVIOUS
  <2>2. f[y] \in Int
    OBVIOUS
  <2> QED
    BY <1>5, <2>1, <2>2 DEF Sums
<1>7. h[{}] = 0
  BY <1>5 DEF Sums
<1>8. ASSUME NEW U \in SUBSET T, NEW x \in U PROVE h[U] = h[U \ {x}] + f[x]
  <2>1. CASE x = y
    BY <1>5, <2>1 DEF Sums
  <2>2. CASE x # y /\ y \in U
    <3>1. U \ {y} \in SUBSET (T \ {y}) /\ x \in U \ {y} /\ (U \ {y}) \ {x} \in SUBSET (T \ {y})
      BY <2>2
    <3>2. g[U \ {y}] = g[(U \ {y}) \ {x}] + f[x] /\ g[(U \ {y}) \ {x}] \in Int
      BY <1>5, <3>1 DEF Sums
    <3>3. (U \ {y}) \ {x} = (U \ {x}) \ {y}
      OBVIOUS
    <3>4. h[U] = g[U \ {y}] + f[y] /\ h[U \ {x}] = g[(U \ {x}) \ {y}] + f[y]
      BY <2>2
    <3>5. f[x] \in Int /\ f[y] \in Int
      OBVIOUS
    <3>6. g[(U \ {x}) \ {y}] = g[(U \ {y}) \ {x}]
      BY <3>3
    <3> HIDE DEF h
    <3> QED
      BY <3>2, <3>4, <3>5, <3>6
  <2>3. CASE y \notin U
    <3>1. h[U] = g[U] /\ h[U \ {x}] = g[U \ {x}] /\ U \in SUBSET (T \ {y})
      BY <2>3
    <3>2. g[U] = g[U \ {x}] + f[x]
      BY <1>5, <3>1 DEF Sums
    <3> QED
      BY <3>1, <3>2
  <2> QED
    BY <2>1, <2>2, <2>3
<1>9. Sums(f, T, h)
  <2> HIDE DEF h
  <2> QED
    BY <1>6, <1>7, <1>8 DEF Sums
<1> QED
  BY <1>9

\* SumFunctionOnSet computes these sums
LEMMA SumsAreSums ==
    ASSUME NEW f, NEW S, IsFiniteSet(S), \A x \in S : f[x] \in Int, NEW g, Sums(f, S, g)
    PROVE  SumFunctionOnSet(f, S) = g[S]
<1> DEFINE e(k) == [s \in SUBSET S |->
                      IF s = {} THEN 0
                      ELSE LET x == CHOOSE y \in s : TRUE IN f[x] + k[s \ {x}]]
           iter == CHOOSE k : k = e(k)
<1>1. SumFunctionOnSet(f, S) = iter[S]
  BY DEF SumFunctionOnSet, FoldFunctionOnSet, MapThenFoldSet
<1>2. g = e(g)
  <2>1. ASSUME NEW s \in SUBSET S, s # {}
        PROVE  LET x == CHOOSE y \in s : TRUE IN g[s] = f[x] + g[s \ {x}]
    <3>1. PICK x : x = CHOOSE y \in s : TRUE
      OBVIOUS
    <3>2. x \in s
      BY <2>1, <3>1
    <3>3. g[s] = g[s \ {x}] + f[x] /\ g[s \ {x}] \in Int /\ f[x] \in Int
      BY <2>1, <3>2 DEF Sums
    <3> QED
      BY <3>1, <3>3
  <2>2. g \in [SUBSET S -> Int] /\ g[{}] = 0
    BY DEF Sums
  <2> QED
    BY <2>1, <2>2
<1>3. iter = e(iter)
  <2> HIDE DEF e
  <2> QED
    BY <1>2
<1>4. iter \in [SUBSET S -> {iter[T] : T \in SUBSET S}]
  <2>1. DOMAIN iter = SUBSET S /\ iter = [T \in SUBSET S |-> iter[T]]
    BY <1>3
  <2> QED
    BY <2>1
<1>5. iter[{}] = 0 /\ \A s \in SUBSET S : s # {} =>
        LET x == CHOOSE y \in s : TRUE IN iter[s] = f[x] + iter[s \ {x}]
  BY <1>3
<1> HIDE DEF iter, e
<1> DEFINE B == {T \in SUBSET S : iter[T] # g[T]}
<1>6. SUFFICES ASSUME B # {} PROVE FALSE
  BY <1>1
<1>7. PICK T \in B : \A x \in T : T \ {x} \notin B
  <2> B \in SUBSET SUBSET S
    OBVIOUS
  <2> HIDE DEF B
  <2> QED
    BY <1>6, LeastSubset
<1>8. PICK x : x = CHOOSE y \in T : TRUE
  OBVIOUS
<1>9. T # {}
  BY <1>5 DEF Sums
<1>10. x \in T
  BY <1>8, <1>9
<1>11. iter[T] = f[x] + iter[T \ {x}]
  BY <1>5, <1>8, <1>9
<1>12. iter[T \ {x}] = g[T \ {x}]
  BY <1>7, <1>10
<1>13. g[T] = g[T \ {x}] + f[x] /\ g[T \ {x}] \in Int /\ f[x] \in Int
  BY <1>10 DEF Sums
<1> QED
  BY <1>11, <1>12, <1>13
LEMMA SumOfNone == ASSUME NEW f PROVE SumFunctionOnSet(f, {}) = 0
<1>1. IsFiniteSet({}) /\ \A x \in {} : f[x] \in Int
  BY FS_EmptySet
<1>2. Sums(f, {}, [T \in {{}} |-> 0])
  BY DEF Sums
<1> QED
  BY <1>1, <1>2, SumsAreSums

\* One element more, or less
LEMMA SumOfMore ==
    ASSUME NEW f, NEW S, IsFiniteSet(S), \A x \in S : f[x] \in Int, NEW x \in S
    PROVE  /\ SumFunctionOnSet(f, S) = SumFunctionOnSet(f, S \ {x}) + f[x]
           /\ SumFunctionOnSet(f, S) \in Int
           /\ SumFunctionOnSet(f, S \ {x}) \in Int
<1>1. PICK g : Sums(f, S, g)
  BY SumsExist
<1>2. PICK h : Sums(f, S \ {x}, h)
  BY SumsExist, FS_Subset
<1>3. IsFiniteSet(S \ {x}) /\ \A y \in S \ {x} : f[y] \in Int
  BY FS_Subset
<1>4. SumFunctionOnSet(f, S) = g[S]
  BY <1>1, SumsAreSums
<1> DEFINE k == [T \in SUBSET (S \ {x}) |-> g[T]]
<1>5. Sums(f, S \ {x}, k)
  BY <1>1 DEF Sums
<1>6. SumFunctionOnSet(f, S \ {x}) = k[S \ {x}]
  <2> HIDE DEF k
  <2> QED
    BY <1>3, <1>5, SumsAreSums
<1> QED
  BY <1>1, <1>4, <1>6 DEF Sums

LEMMA SumIsInt ==
    ASSUME NEW f, NEW S, IsFiniteSet(S), \A x \in S : f[x] \in Int
    PROVE  SumFunctionOnSet(f, S) \in Int
<1>1. PICK g : Sums(f, S, g)
  BY SumsExist
<1>2. SumFunctionOnSet(f, S) = g[S]
  BY <1>1, SumsAreSums
<1> QED
  BY <1>1, <1>2 DEF Sums

LEMMA SumOfSame ==
    ASSUME NEW f, NEW S, IsFiniteSet(S), \A x \in S : f[x] \in Int,
           NEW g, \A x \in S : g[x] = f[x]
    PROVE  SumFunctionOnSet(g, S) = SumFunctionOnSet(f, S)
<1>1. PICK h : Sums(f, S, h)
  BY SumsExist
<1>2. Sums(g, S, h)
  BY <1>1 DEF Sums
<1> QED
  BY <1>1, <1>2, SumsAreSums

\* A finite set of numbers has a largest one, and one that is not empty a smallest
LEMMA LargestExists ==
    ASSUME NEW S \in SUBSET Nat, IsFiniteSet(S), S # {}
    PROVE  \E m \in S : \A i \in S : i <= m
<1> DEFINE B == {T \in SUBSET S : T # {} /\ ~\E m \in T : \A i \in T : i <= m}
<1>1. SUFFICES ASSUME B # {} PROVE FALSE
  OBVIOUS
<1>2. PICK T \in B : \A x \in T : T \ {x} \notin B
  <2> B \in SUBSET SUBSET S
    OBVIOUS
  <2> HIDE DEF B
  <2> QED
    BY <1>1, LeastSubset
<1>3. PICK x \in T : TRUE
  OBVIOUS
<1>4. CASE T \ {x} = {}
  BY <1>4
<1>5. CASE T \ {x} # {}
  <2>1. PICK m \in T \ {x} : \A i \in T \ {x} : i <= m
    BY <1>2, <1>5
  <2>2. m <= x \/ x <= m
    BY <2>1
  <2> QED
    BY <2>1, <2>2
<1> QED
  BY <1>4, <1>5

LEMMA SmallestExists ==
    ASSUME NEW S \in SUBSET Nat, S # {}
    PROVE  \E m \in S : \A i \in S : m <= i
<1>1. PICK m \in S : \A i \in S : ~(<<i, m>> \in OpToRel(<, Nat))
  BY NatLessThanWellFounded, WFMin
<1>2. \A i \in S : ~(i < m)
  BY <1>1 DEF OpToRel
<1> QED
  BY <1>2

-----------------------------------------------------------------------------
(* The cart                                                                *)

Values(ls) == [i \in DOMAIN ls |-> LineTotal(ls[i])]
Owed(ls) == SumFunction(Values(ls))

\* Lines at finitely many places
CartLines(ls) ==
    /\ ls \in [DOMAIN ls -> CartLine]
    /\ DOMAIN ls \subseteq Nat /\ IsFiniteSet(DOMAIN ls)

OneLineEach == \A i, j \in DOMAIN lines : lines[i].product = lines[j].product => i = j

LEMMA ValuesType ==
    ASSUME NEW ls, CartLines(ls)
    PROVE  /\ Values(ls) \in [DOMAIN ls -> Int]
           /\ Owed(ls) = SumFunctionOnSet(Values(ls), DOMAIN ls)
           /\ Owed(ls) \in Int
<1>1. \A i \in DOMAIN ls : LineTotal(ls[i]) \in Int
  <2> TAKE i \in DOMAIN ls
  <2>1. ls[i] \in CartLine
    BY DEF CartLines
  <2>2. ls[i].price \in Int /\ ls[i].quantity \in Int
    BY <2>1, CartAssumption DEF CartLine
  <2> QED
    BY <2>2 DEF LineTotal
<1>2. Values(ls) \in [DOMAIN ls -> Int] /\ DOMAIN Values(ls) = DOMAIN ls
  BY <1>1 DEF Values
<1>3. Owed(ls) = SumFunctionOnSet(Values(ls), DOMAIN ls)
  BY <1>2 DEF Owed, SumFunction
<1> QED
  BY <1>2, <1>3, SumIsInt DEF CartLines

LEMMA OwedUpdate ==
    ASSUME NEW ls, CartLines(ls), NEW ms, CartLines(ms), DOMAIN ms = DOMAIN ls,
           NEW k \in DOMAIN ls, \A i \in DOMAIN ls \ {k} : ms[i] = ls[i]
    PROVE  Owed(ms) = Owed(ls) - LineTotal(ls[k]) + LineTotal(ms[k])
<1> DEFINE D == DOMAIN ls \ {k}
<1>1. /\ Owed(ls) = SumFunctionOnSet(Values(ls), D) + Values(ls)[k]
      /\ SumFunctionOnSet(Values(ls), D) \in Int
  BY ValuesType, SumOfMore DEF CartLines
<1>2. Owed(ms) = SumFunctionOnSet(Values(ms), D) + Values(ms)[k]
  BY ValuesType, SumOfMore DEF CartLines
<1>3. \A i \in D : Values(ms)[i] = Values(ls)[i]
  BY DEF Values
<1>4. IsFiniteSet(D) /\ \A i \in D : Values(ls)[i] \in Int
  BY ValuesType, FS_Subset DEF CartLines
<1>5. SumFunctionOnSet(Values(ms), D) = SumFunctionOnSet(Values(ls), D)
  <2> HIDE DEF D
  <2> QED
    BY <1>3, <1>4, SumOfSame
<1>6. /\ Values(ls)[k] = LineTotal(ls[k]) /\ Values(ms)[k] = LineTotal(ms[k])
      /\ Values(ls)[k] \in Int /\ Values(ms)[k] \in Int
  BY ValuesType DEF Values
<1> QED
  BY <1>1, <1>2, <1>5, <1>6

\* ms has one line more
LEMMA OwedMore ==
    ASSUME NEW ls, CartLines(ls), NEW ms, CartLines(ms), NEW k \in DOMAIN ms,
           DOMAIN ls = DOMAIN ms \ {k}, \A i \in DOMAIN ls : ms[i] = ls[i]
    PROVE  Owed(ms) = Owed(ls) + LineTotal(ms[k])
<1>1. Owed(ms) = SumFunctionOnSet(Values(ms), DOMAIN ls) + Values(ms)[k]
  BY ValuesType, SumOfMore DEF CartLines
<1>2. \A i \in DOMAIN ls : Values(ms)[i] = Values(ls)[i]
  BY DEF Values
<1>3. IsFiniteSet(DOMAIN ls) /\ \A i \in DOMAIN ls : Values(ls)[i] \in Int
  BY ValuesType DEF CartLines
<1>4. SumFunctionOnSet(Values(ms), DOMAIN ls) = Owed(ls)
  BY <1>2, <1>3, ValuesType, SumOfSame
<1>5. Values(ms)[k] = LineTotal(ms[k])
  BY DEF Values
<1> QED
  BY <1>1, <1>4, <1>5

LEMMA WithoutLines ==
    ASSUME CartLines(lines), NEW ps
    PROVE  /\ CartLines(Without(ps))
           /\ DOMAIN Without(ps) = {i \in DOMAIN lines : lines[i].product \notin ps}
           /\ \A i \in DOMAIN Without(ps) : Without(ps)[i] = lines[i]
<1>1. Without(ps) = [i \in {i \in DOMAIN lines : lines[i].product \notin ps} |-> lines[i]]
  BY DEF Without, RestrictValues, Restrict
<1>2. IsFiniteSet({i \in DOMAIN lines : lines[i].product \notin ps})
  BY FS_Subset DEF CartLines
<1> QED
  BY <1>1, <1>2 DEF CartLines

LEMMA FirstLineThere ==
    ASSUME CartLines(lines), NEW p, InCart(p)
    PROVE  FirstLine(p) \in DOMAIN lines /\ lines[FirstLine(p)].product = p
<1>1. \E i \in LinesOf(p) : \A j \in LinesOf(p) : i <= j
  <2>1. LinesOf(p) \in SUBSET Nat /\ LinesOf(p) # {}
    BY DEF LinesOf, InCart, CartRead, CartLines
  <2> QED
    BY <2>1, SmallestExists
<1>2. FirstLine(p) \in LinesOf(p)
  BY <1>1 DEF FirstLine, Min
<1> QED
  BY <1>2 DEF LinesOf, CartRead

LEMMA FirstLineIsIt ==
    ASSUME CartLines(lines), OneLineEach, NEW i \in DOMAIN lines
    PROVE  InCart(lines[i].product) /\ FirstLine(lines[i].product) = i
<1>1. i \in LinesOf(lines[i].product)
  BY DEF LinesOf, CartRead
<1>2. InCart(lines[i].product)
  BY <1>1 DEF InCart
<1> QED
  BY <1>2, FirstLineThere DEF OneLineEach

LEMMA EndIsFree ==
    ASSUME CartLines(lines)
    PROVE  End \in Nat /\ End \notin DOMAIN lines
<1> DEFINE S == {0} \cup DOMAIN lines
<1>1. S \in SUBSET Nat /\ IsFiniteSet(S) /\ S # {}
  <2>1. DOMAIN lines \cup {0} \subseteq Nat /\ IsFiniteSet(DOMAIN lines \cup {0})
    BY FS_AddElement DEF CartLines
  <2>2. S = DOMAIN lines \cup {0}
    OBVIOUS
  <2> QED
    BY <2>1, <2>2
<1>2. \E m \in S : \A i \in S : i <= m
  <2> HIDE DEF S
  <2> QED
    BY <1>1, LargestExists
<1>3. \E m \in S : \A i \in S : m >= i
  BY <1>1, <1>2
<1>4. Max(S) \in S /\ \A i \in S : Max(S) >= i
  BY <1>3 DEF Max
<1>5. Max(S) \in Nat /\ \A i \in DOMAIN lines : i \in Nat /\ Max(S) >= i
  BY <1>1, <1>4
<1>6. End = Max(S) + 1
  BY DEF End
<1> HIDE DEF S
<1> QED
  BY <1>5, <1>6

\* What an order of one product comes to, at the price in the cart
Charge(p, order) == IF InCart(p) THEN lines[FirstLine(p)].price * order[p] ELSE 0

LEMMA SubtotalIsSum ==
    ASSUME CartLines(lines), NEW bought \in SUBSET Goods, NEW order \in [bought -> OrderSizes]
    PROVE  LET charges == [p \in bought |-> Charge(p, order)]
           IN /\ \A p \in bought : charges[p] \in Int
              /\ Subtotal(order) = SumFunctionOnSet(charges, bought)
              /\ Subtotal(order) \in Int
<1> DEFINE charges == [p \in bought |-> Charge(p, order)]
<1>1. \A p \in bought : charges[p] \in Int
  <2> TAKE p \in bought
  <2>1. CASE InCart(p)
    <3>1. lines[FirstLine(p)] \in CartLine
      BY <2>1, FirstLineThere DEF CartLines
    <3>2. lines[FirstLine(p)].price \in Int /\ order[p] \in OrderSizes
      BY <3>1, CartAssumption DEF CartLine
    <3>3. OrderSizes \subseteq Int
      BY CartAssumption
    <3>4. order[p] \in Int
      BY <3>2, <3>3
    <3> QED
      BY <2>1, <3>2, <3>4 DEF Charge
  <2>2. CASE ~InCart(p)
    BY <2>2 DEF Charge
  <2> QED
    BY <2>1, <2>2
<1>2. Subtotal(order) = SumFunctionOnSet(charges, bought)
  <2>1. Subtotal(order) = SumFunction(charges)
    BY DEF Subtotal, Charge, CartRead
  <2> QED
    BY <2>1 DEF SumFunction
<1>3. IsFiniteSet(bought)
  BY CartAssumption, FS_Subset
<1>4. SumFunctionOnSet(charges, bought) \in Int
  <2> HIDE DEF charges
  <2> QED
    BY <1>1, <1>3, SumIsInt
<1> QED
  BY <1>1, <1>2, <1>4

\* What will be a line's price is a price
AmountsOK == \A c \in Buyers : ask[c].step \in {"increment", "push"} => ask[c].amount \in Prices

LEMMA CartTypeNext ==
    CartTypeOK /\ AmountsOK /\ [CartNext]_cartVars => CartTypeOK' /\ AmountsOK'
<1> SUFFICES ASSUME CartTypeOK, AmountsOK, [CartNext]_cartVars PROVE CartTypeOK' /\ AmountsOK'
  OBVIOUS
<1>0. CartLines(lines)
  BY DEF CartTypeOK, CartLines
<1>1. NoAsk \in Ask /\ NoAsk.step = "idle"
  BY CartAssumption DEF NoAsk, Ask, AskSteps
<1>2. ASSUME NEW c \in Buyers, Done(c) PROVE ask' \in [Buyers -> Ask] /\ AmountsOK'
  BY <1>1, <1>2 DEF Done, CartTypeOK, AmountsOK
<1>3. ASSUME NEW what \in CartEvents, UseBudget(what) PROVE may' \in [CartEvents -> Nat]
  BY <1>3 DEF UseBudget, CartTypeOK
<1>4. ASSUME NEW c \in Buyers, NEW step \in AskSteps, NEW p \in Goods, NEW q \in Int, NEW a \in Int,
             step \in {"increment", "push"} => a \in Prices, Waits(c, step, p, q, a)
      PROVE  ask' \in [Buyers -> Ask] /\ AmountsOK' /\ crossed' \in BOOLEAN
  <2>1. PICK r : r = [step |-> step, product |-> p, quantity |-> q, amount |-> a]
    OBVIOUS
  <2>2. r \in Ask /\ r.step = step /\ r.amount = a
    BY <2>1 DEF Ask
  <2>3. crossed' = (crossed \/ Crossing(p, c, step)) /\ ask' = [ask EXCEPT ![c] = r]
    BY <1>4, <2>1 DEF Waits
  <2> QED
    BY <1>4, <2>2, <2>3 DEF CartTypeOK, AmountsOK
<1>5. \A p \in Goods : shop[p] \in Product /\ shop[p].price \in Prices /\ shop[p].price \in Int
  BY CartAssumption DEF CartTypeOK, Product
<1>6. \A c \in Buyers : /\ ask[c] \in Ask /\ ask[c].product \in Goods
                        /\ ask[c].quantity \in Int /\ ask[c].amount \in Int
  BY DEF CartTypeOK, Ask
<1>7. \A ps : /\ Without(ps) \in [DOMAIN Without(ps) -> CartLine]
              /\ DOMAIN Without(ps) \subseteq Nat /\ IsFiniteSet(DOMAIN Without(ps))
  BY <1>0, WithoutLines DEF CartLines
<1>8. \A p \in Goods : InCart(p) =>
         /\ FirstLine(p) \in DOMAIN lines /\ lines[FirstLine(p)] \in CartLine
         /\ lines[FirstLine(p)].price \in Int /\ lines[FirstLine(p)].quantity \in Int
         /\ LineTotal(lines[FirstLine(p)]) \in Int
  <2> TAKE p \in Goods
  <2> HAVE InCart(p)
  <2>1. FirstLine(p) \in DOMAIN lines /\ lines[FirstLine(p)] \in CartLine
    BY <1>0, FirstLineThere DEF CartLines
  <2>2. lines[FirstLine(p)].price \in Int /\ lines[FirstLine(p)].quantity \in Int
    BY <2>1, CartAssumption DEF CartLine
  <2> QED
    BY <2>1, <2>2 DEF LineTotal
<1>9. ASSUME NEW c \in Buyers, AskAdd(c) PROVE CartTypeOK' /\ AmountsOK'
  <2>1. PICK p \in Goods, q \in Quantities : Waits(c, "increment", p, q, shop[p].price)
    BY <1>9 DEF AskAdd
  <2>2. ask' \in [Buyers -> Ask] /\ AmountsOK' /\ crossed' \in BOOLEAN
    <3>1. "increment" \in AskSteps /\ q \in Int
      BY CartAssumption DEF AskSteps
    <3> QED
      BY <1>4, <1>5, <2>1, <3>1
  <2> QED
    BY <1>3, <1>9, <2>2 DEF AskAdd, CartTypeOK, CartEvents
<1>10. ASSUME NEW c \in Buyers, Increment(c) PROVE CartTypeOK' /\ AmountsOK'
  <2>1. PICK k : k = FirstLine(ask[c].product)
    OBVIOUS
  <2>2. /\ k \in DOMAIN lines /\ lines[k] \in CartLine
        /\ ask[c].amount \in Prices /\ ask[c].quantity \in Int /\ ask[c].amount \in Int
    BY <1>6, <1>8, <1>10, <2>1 DEF Increment, IncrementLine, AmountsOK
  <2>3. PICK l : l = [product |-> lines[k].product, quantity |-> lines[k].quantity + ask[c].quantity,
                      price |-> ask[c].amount]
    OBVIOUS
  <2>4. l \in CartLine
    BY <2>2, <2>3 DEF CartLine
  <2>5. lines' = [lines EXCEPT ![k] = l] /\ total' = total + ask[c].quantity * ask[c].amount
    BY <1>10, <2>1, <2>3 DEF Increment, IncrementLine
  <2>6. lines' \in [DOMAIN lines -> CartLine] /\ DOMAIN lines' = DOMAIN lines /\ total' \in Int
    BY <2>2, <2>4, <2>5 DEF CartTypeOK
  <2> QED
    BY <1>2, <1>10, <2>6 DEF Increment, CartTypeOK
<1>11. ASSUME NEW c \in Buyers, NoLine(c) PROVE CartTypeOK' /\ AmountsOK'
  <2>1. PICK r : r = [ask[c] EXCEPT !.step = "push"]
    OBVIOUS
  <2>2. r \in Ask /\ r.amount = ask[c].amount /\ ask' = [ask EXCEPT ![c] = r] /\ r.amount \in Prices
    BY <1>6, <1>11, <2>1 DEF Ask, AskSteps, NoLine, AmountsOK
  <2>3. ask' \in [Buyers -> Ask] /\ AmountsOK'
    BY <2>2 DEF AmountsOK, CartTypeOK
  <2> QED
    BY <1>11, <2>3 DEF NoLine, CartTypeOK
<1>12. ASSUME NEW c \in Buyers, Push(c) PROVE CartTypeOK' /\ AmountsOK'
  <2>1. PICK l : l = NewLine(c)
    OBVIOUS
  <2>2. /\ l \in CartLine /\ ask[c].amount \in Int /\ ask[c].quantity \in Int
        /\ End \in Nat
    BY <1>0, <1>6, <1>12, <2>1, EndIsFree DEF NewLine, CartLine, Push, AmountsOK
  <2>3. /\ lines' = [i \in DOMAIN lines \cup {End} |-> IF i = End THEN l ELSE lines[i]]
        /\ total' = total + ask[c].amount * ask[c].quantity
    BY <1>12, <2>1 DEF Push
  <2>4. lines' \in [DOMAIN lines' -> CartLine] /\ DOMAIN lines' = DOMAIN lines \cup {End}
    BY <2>2, <2>3 DEF CartTypeOK
  <2>5. IsFiniteSet(DOMAIN lines') /\ DOMAIN lines' \subseteq Nat
    BY <2>2, <2>4, FS_AddElement DEF CartTypeOK
  <2>6. total' \in Int
    BY <2>2, <2>3 DEF CartTypeOK
  <2> QED
    BY <1>2, <1>12, <2>4, <2>5, <2>6 DEF Push, CartTypeOK
<1>13. ASSUME NEW c \in Buyers, AskRemove(c) PROVE CartTypeOK' /\ AmountsOK'
  <2>1. PICK p \in Goods : InCart(p) /\ Waits(c, "pull", p, 0, LineTotal(lines[FirstLine(p)]))
    BY <1>13 DEF AskRemove, CartRead
  <2>2. ask' \in [Buyers -> Ask] /\ AmountsOK' /\ crossed' \in BOOLEAN
    <3>1. "pull" \in AskSteps
      BY DEF AskSteps
    <3> QED
      BY <1>4, <1>8, <2>1, <3>1
  <2> QED
    BY <1>3, <1>13, <2>2 DEF AskRemove, CartTypeOK, CartEvents
<1>14. ASSUME NEW c \in Buyers, Pull(c) PROVE CartTypeOK' /\ AmountsOK'
  BY <1>2, <1>6, <1>7, <1>14 DEF Pull, CartTypeOK
<1>15. ASSUME SettleOrder PROVE CartTypeOK' /\ AmountsOK'
  <2>0. PICK bought \in SUBSET Goods : \E order \in [bought -> OrderSizes] :
          /\ lines' = Without(bought)
          /\ total' = total - Subtotal(order)
          /\ partial' \in BOOLEAN /\ crossed' \in BOOLEAN
    BY <1>15 DEF SettleOrder
  <2>1. PICK order \in [bought -> OrderSizes] :
          /\ lines' = Without(bought)
          /\ total' = total - Subtotal(order)
          /\ partial' \in BOOLEAN /\ crossed' \in BOOLEAN
    BY <2>0
  <2>2. Subtotal(order) \in Int
    BY <1>0, SubtotalIsSum
  <2> QED
    BY <1>3, <1>7, <1>15, <2>1, <2>2 DEF SettleOrder, CartTypeOK, CartEvents, AmountsOK
<1>16. ASSUME EditShop PROVE CartTypeOK' /\ AmountsOK'
  <2>1. PICK p \in Goods, price \in Prices, units \in Stocks :
          CreateProduct(p, price, units) \/ UpdateProduct(p, price, units) \/ RemoveFromSale(p)
    BY <1>16 DEF EditShop
  <2>2. repriced' \in BOOLEAN
    BY <1>16 DEF EditShop
  <2>3. shop' \in [Goods -> Product]
    <3>1. PICK d : d \in Product /\ shop' = [shop EXCEPT ![p] = d]
      <4>1. CASE CreateProduct(p, price, units)
        BY <4>1 DEF CreateProduct, Product
      <4>2. CASE UpdateProduct(p, price, units)
        <5>1. [state |-> shop[p].state, price |-> price, stock |-> units] \in Product
          BY <1>5 DEF Product
        <5> QED
          BY <4>2, <5>1 DEF UpdateProduct
      <4>3. CASE RemoveFromSale(p)
        <5>1. [shop[p] EXCEPT !.state = "removed"] \in Product
          BY <1>5 DEF Product
        <5> QED
          BY <4>3, <5>1 DEF RemoveFromSale
      <4> QED
        BY <2>1, <4>1, <4>2, <4>3
    <3> QED
      BY <3>1 DEF CartTypeOK
  <2> QED
    BY <1>3, <1>16, <2>2, <2>3 DEF EditShop, CartTypeOK, CartEvents, AmountsOK
<1>17. CASE UNCHANGED cartVars
  BY <1>17 DEF cartVars, CartTypeOK, AmountsOK
<1> QED
  BY <1>9, <1>10, <1>11, <1>12, <1>13, <1>14, <1>15, <1>16, <1>17 DEF CartNext

-----------------------------------------------------------------------------
(* The cart's total and its lines                                          *)

HasLine(p) == \E i \in DOMAIN lines : lines[i].product = p

LEMMA InCartMeans == ASSUME NEW p PROVE InCart(p) <=> HasLine(p)
  BY DEF InCart, LinesOf, CartRead, HasLine

\* What connection c has read still holds
AskHolds(c) ==
    LET p == ask[c].product
    IN /\ ask[c].step \in {"increment", "push"} => ask[c].amount = shop[p].price
       /\ ask[c].step = "push" => ~HasLine(p)
       /\ ask[c].step = "pull" =>
             \E i \in DOMAIN lines : lines[i].product = p /\ ask[c].amount = LineTotal(lines[i])

\* Two requests about a product both add to its line
Together(c, d) ==
    c # d /\ ask[c].step # "idle" /\ ask[d].step # "idle" /\ ask[c].product = ask[d].product =>
        ask[c].step = "increment" /\ HasLine(ask[c].product)

Ledger ==
    /\ total = Owed(lines)
    /\ OneLineEach
    /\ \A i \in DOMAIN lines : lines[i].price = shop[lines[i].product].price
    /\ \A c \in Buyers : AskHolds(c)
    /\ \A c, d \in Buyers : Together(c, d)

Quiet == ~crossed /\ ~repriced /\ ~partial

LEMMA AskAddLedger ==
    ASSUME CartTypeOK, Ledger, NEW c \in Buyers, AskAdd(c), Quiet' PROVE Ledger'
<1>1. PICK p \in Goods, q \in Quantities : Waits(c, "increment", p, q, shop[p].price)
  BY DEF AskAdd
<1>2. PICK r : r = [step |-> "increment", product |-> p, quantity |-> q, amount |-> shop[p].price]
  OBVIOUS
<1>3. r.step = "increment" /\ r.product = p /\ r.amount = shop[p].price
  BY <1>2
<1>4. UNCHANGED <<lines, shop, total>> /\ ask' = [ask EXCEPT ![c] = r] /\ ~Crossing(p, c, "increment")
  BY <1>1, <1>2 DEF AskAdd, Waits, Quiet
<1>5. ask'[c] = r /\ \A d \in Buyers \ {c} : ask'[d] = ask[d]
  BY <1>4 DEF CartTypeOK
<1>6. \A d \in Buyers \ {c} : ask[d].product = p /\ ask[d].step # "idle" => ask[d].step = "increment" /\ HasLine(p)
  <2> TAKE d \in Buyers \ {c}
  <2>1. ask[d].step \in AskSteps
    BY DEF CartTypeOK, Ask
  <2>2. ask[d].product = p => ask[d].step # "pull"
    BY <1>4 DEF Crossing, Busy
  <2>3. ask[d].product = p /\ ~InCart(p) => ask[d].step \notin {"increment", "push"}
    BY <1>4 DEF Crossing, Busy
  <2>4. ask[d].product = p /\ HasLine(p) => ask[d].step # "push"
    BY DEF Ledger, AskHolds
  <2> QED
    BY <2>1, <2>2, <2>3, <2>4, InCartMeans DEF AskSteps
<1>7. \A d \in Buyers : AskHolds(d)'
  BY <1>3, <1>4, <1>5 DEF AskHolds, HasLine, Ledger
<1>8. \A d, e \in Buyers : Together(d, e)'
  BY <1>3, <1>4, <1>5, <1>6 DEF Together, HasLine, Ledger
<1> QED
  BY <1>4, <1>7, <1>8 DEF Ledger, OneLineEach

LEMMA AskRemoveLedger ==
    ASSUME CartTypeOK, Ledger, NEW c \in Buyers, AskRemove(c), Quiet' PROVE Ledger'
<1>0. CartLines(lines)
  BY DEF CartTypeOK, CartLines
<1>1. PICK p \in Goods : InCart(p) /\ Waits(c, "pull", p, 0, LineTotal(lines[FirstLine(p)]))
  BY DEF AskRemove, CartRead
<1>2. PICK r : r = [step |-> "pull", product |-> p, quantity |-> 0, amount |-> LineTotal(lines[FirstLine(p)])]
  OBVIOUS
<1>3. /\ r.step = "pull" /\ r.product = p /\ r.amount = LineTotal(lines[FirstLine(p)])
      /\ FirstLine(p) \in DOMAIN lines /\ lines[FirstLine(p)].product = p
  BY <1>0, <1>1, <1>2, FirstLineThere
<1>4. UNCHANGED <<lines, shop, total>> /\ ask' = [ask EXCEPT ![c] = r] /\ ~Crossing(p, c, "pull")
  BY <1>1, <1>2 DEF AskRemove, Waits, Quiet
<1>5. ask'[c] = r /\ \A d \in Buyers \ {c} : ask'[d] = ask[d]
  BY <1>4 DEF CartTypeOK
<1>6. \A d \in Buyers \ {c} : ~(ask[d].product = p /\ ask[d].step # "idle")
  <2> TAKE d \in Buyers \ {c}
  <2>1. ask[d].step \in AskSteps
    BY DEF CartTypeOK, Ask
  <2> QED
    BY <1>4, <2>1 DEF Crossing, Busy, AskSteps
<1>7. \A d \in Buyers : AskHolds(d)'
  BY <1>3, <1>4, <1>5 DEF AskHolds, HasLine, Ledger
<1>8. \A d, e \in Buyers : Together(d, e)'
  BY <1>3, <1>4, <1>5, <1>6 DEF Together, HasLine, Ledger
<1> QED
  BY <1>4, <1>7, <1>8 DEF Ledger, OneLineEach

LEMMA IncrementLedger ==
    ASSUME CartTypeOK, AmountsOK, Ledger, NEW c \in Buyers, Increment(c), CartTypeOK' PROVE Ledger'
<1> DEFINE p == ask[c].product
<1>0. CartLines(lines) /\ CartLines(lines')
  BY DEF CartTypeOK, CartLines
<1>1. PICK k : k = FirstLine(p)
  OBVIOUS
<1>2. PICK l : l = [product |-> lines[k].product, quantity |-> lines[k].quantity + ask[c].quantity,
                    price |-> ask[c].amount]
  OBVIOUS
<1>3. /\ k \in DOMAIN lines /\ lines[k].product = p
      /\ lines[k].quantity \in Int /\ lines[k].price \in Int /\ ask[c].quantity \in Int
  <2>1. k \in DOMAIN lines /\ lines[k].product = p
    BY <1>0, <1>1, FirstLineThere DEF Increment, IncrementLine
  <2>2. lines[k] \in CartLine /\ ask[c] \in Ask
    BY <2>1 DEF CartTypeOK
  <2> QED
    BY <2>1, <2>2, CartAssumption DEF CartLine, Ask
<1>4. lines' = [lines EXCEPT ![k] = l] /\ total' = total + ask[c].quantity * ask[c].amount /\ UNCHANGED shop
  BY <1>1, <1>2 DEF Increment, IncrementLine
<1>5. /\ l.product = p /\ l.price = ask[c].amount /\ l.quantity = lines[k].quantity + ask[c].quantity
      /\ ask[c].amount = lines[k].price
  BY <1>2, <1>3 DEF Ledger, AskHolds, Increment
<1>6. DOMAIN lines' = DOMAIN lines /\ lines'[k] = l /\ \A i \in DOMAIN lines \ {k} : lines'[i] = lines[i]
  BY <1>3, <1>4
<1>7. \A i \in DOMAIN lines : lines'[i].product = lines[i].product /\ lines'[i].price = lines[i].price
  BY <1>3, <1>5, <1>6
<1>8. total' = Owed(lines')
  <2>1. Owed(lines') = Owed(lines) - LineTotal(lines[k]) + LineTotal(l)
    BY <1>0, <1>3, <1>6, OwedUpdate
  <2>2. LineTotal(l) = LineTotal(lines[k]) + ask[c].quantity * ask[c].amount
    BY <1>3, <1>5 DEF LineTotal
  <2>3. Owed(lines) \in Int /\ LineTotal(lines[k]) \in Int /\ ask[c].quantity * ask[c].amount \in Int
    BY <1>0, <1>3, <1>5, ValuesType DEF LineTotal
  <2> QED
    BY <1>4, <2>1, <2>2, <2>3 DEF Ledger
<1>9. ask'[c].step = "idle" /\ \A d \in Buyers \ {c} : ask'[d] = ask[d]
  BY DEF Increment, Done, NoAsk, CartTypeOK
<1>10. ASSUME NEW d \in Buyers \ {c}, ask[d].step # "idle", ask[d].product = p PROVE ask[d].step = "increment"
  <2>1. Together(d, c)
    BY DEF Ledger
  <2> QED
    BY <1>10, <2>1 DEF Together, Increment
<1>11. \A g : HasLine(g)' <=> HasLine(g)
  BY <1>6, <1>7 DEF HasLine
<1>12. ASSUME NEW d \in Buyers PROVE AskHolds(d)'
  <2>1. CASE d = c
    BY <1>9, <2>1 DEF AskHolds
  <2>2. CASE d # c
    <3>1. AskHolds(d) /\ ask'[d] = ask[d] /\ shop' = shop
      BY <1>4, <1>9, <2>2 DEF Ledger
    <3>2. ASSUME ask[d].step = "pull"
          PROVE  \E i \in DOMAIN lines' : lines'[i].product = ask[d].product
                                          /\ ask[d].amount = LineTotal(lines'[i])
      <4>1. PICK i \in DOMAIN lines : lines[i].product = ask[d].product /\ ask[d].amount = LineTotal(lines[i])
        BY <3>1, <3>2 DEF AskHolds
      <4>2. i # k
        BY <1>3, <1>10, <2>2, <3>2, <4>1
      <4> QED
        BY <1>6, <4>1, <4>2
    <3> QED
      BY <1>11, <3>1, <3>2 DEF AskHolds
  <2> QED
    BY <2>1, <2>2
<1>13. ASSUME NEW d \in Buyers, NEW e \in Buyers PROVE Together(d, e)'
  BY <1>9, <1>11 DEF Together, Ledger
<1>14. OneLineEach'
  BY <1>6, <1>7 DEF OneLineEach, Ledger
<1>15. \A i \in DOMAIN lines' : lines'[i].price = shop'[lines'[i].product].price
  BY <1>4, <1>6, <1>7 DEF Ledger
<1> QED
  BY <1>8, <1>12, <1>13, <1>14, <1>15 DEF Ledger
LEMMA NoLineLedger ==
    ASSUME CartTypeOK, Ledger, NEW c \in Buyers, NoLine(c) PROVE Ledger'
<1>1. /\ UNCHANGED <<lines, shop, total>> /\ ask'[c].step = "push" /\ ask[c].step = "increment"
      /\ ask'[c].product = ask[c].product /\ ask'[c].amount = ask[c].amount
      /\ \A d \in Buyers \ {c} : ask'[d] = ask[d]
  BY DEF NoLine, CartTypeOK, Ask
<1>2. ~HasLine(ask[c].product)
  BY InCartMeans DEF NoLine
<1>3. \A d \in Buyers : AskHolds(d)'
  BY <1>1, <1>2 DEF AskHolds, HasLine, Ledger
<1>4. ASSUME NEW d \in Buyers \ {c}, ask[d].product = ask[c].product PROVE ask[d].step = "idle"
  BY <1>1, <1>2, <1>4 DEF Together, Ledger
<1>5. \A d, e \in Buyers : Together(d, e)'
  BY <1>1, <1>4 DEF Together, HasLine, Ledger
<1> QED
  BY <1>1, <1>3, <1>5 DEF Ledger, OneLineEach

LEMMA PushLedger ==
    ASSUME CartTypeOK, Ledger, NEW c \in Buyers, Push(c), CartTypeOK' PROVE Ledger'
<1> DEFINE p == ask[c].product
<1>0. CartLines(lines) /\ CartLines(lines')
  BY DEF CartTypeOK, CartLines
<1>1. PICK k : k = End
  OBVIOUS
<1>2. PICK l : l = NewLine(c)
  OBVIOUS
<1>3. /\ k \notin DOMAIN lines /\ l.product = p /\ l.price = ask[c].amount /\ l.quantity = ask[c].quantity
      /\ ask[c].amount \in Int /\ ask[c].quantity \in Int
  BY <1>0, <1>1, <1>2, EndIsFree DEF NewLine, CartTypeOK, Ask
<1>4. /\ lines' = [i \in DOMAIN lines \cup {k} |-> IF i = k THEN l ELSE lines[i]]
      /\ total' = total + ask[c].amount * ask[c].quantity /\ UNCHANGED shop
  BY <1>1, <1>2 DEF Push
<1>5. /\ DOMAIN lines' = DOMAIN lines \cup {k} /\ DOMAIN lines = DOMAIN lines' \ {k}
      /\ lines'[k] = l /\ \A i \in DOMAIN lines : lines'[i] = lines[i]
  BY <1>3, <1>4
<1>6. total' = Owed(lines')
  <2>1. Owed(lines') = Owed(lines) + LineTotal(l)
    BY <1>0, <1>5, OwedMore
  <2>2. LineTotal(l) = ask[c].amount * ask[c].quantity
    BY <1>3 DEF LineTotal
  <2> QED
    BY <1>4, <2>1, <2>2 DEF Ledger
<1>7. ~HasLine(p) /\ ask[c].amount = shop[p].price
  BY DEF Ledger, AskHolds, Push
<1>8. ask'[c].step = "idle" /\ \A d \in Buyers \ {c} : ask'[d] = ask[d]
  BY DEF Push, Done, NoAsk, CartTypeOK
<1>9. ASSUME NEW d \in Buyers \ {c}, ask[d].product = p PROVE ask[d].step = "idle"
  BY <1>7, <1>9 DEF Together, Ledger, Push
<1>10. \A g : g # p => (HasLine(g)' <=> HasLine(g))
  BY <1>3, <1>5 DEF HasLine
<1>11. ASSUME NEW d \in Buyers PROVE AskHolds(d)'
  <2>1. CASE ask'[d].step = "idle"
    BY <2>1 DEF AskHolds
  <2>2. CASE ask'[d].step # "idle"
    <3>1. AskHolds(d) /\ ask'[d] = ask[d] /\ shop' = shop /\ ask[d].product # p
      BY <1>4, <1>8, <1>9, <2>2 DEF Ledger
    <3>2. ASSUME ask[d].step = "pull"
          PROVE  \E i \in DOMAIN lines' : lines'[i].product = ask[d].product
                                          /\ ask[d].amount = LineTotal(lines'[i])
      BY <1>5, <3>1, <3>2 DEF AskHolds
    <3> QED
      BY <1>10, <3>1, <3>2 DEF AskHolds
  <2> QED
    BY <2>1, <2>2
<1>12. ASSUME NEW d \in Buyers, NEW e \in Buyers PROVE Together(d, e)'
  BY <1>8, <1>9, <1>10 DEF Together, Ledger
<1>13. OneLineEach'
  BY <1>3, <1>5, <1>7 DEF OneLineEach, Ledger, HasLine
<1>14. \A i \in DOMAIN lines' : lines'[i].price = shop'[lines'[i].product].price
  BY <1>3, <1>4, <1>5, <1>7 DEF Ledger
<1> QED
  BY <1>6, <1>11, <1>12, <1>13, <1>14 DEF Ledger

\* The lines of ps are gone, and nobody asks about any of them
LEMMA WithoutLedger ==
    ASSUME CartTypeOK, Ledger, NEW ps, lines' = Without(ps), total' = Owed(lines'), UNCHANGED shop,
           \A d \in Buyers : ask'[d].step = "idle" \/ (ask'[d] = ask[d] /\ ask[d].product \notin ps)
    PROVE  Ledger'
<1>0. CartLines(lines)
  BY DEF CartTypeOK, CartLines
<1>1. /\ DOMAIN lines' = {i \in DOMAIN lines : lines[i].product \notin ps}
      /\ \A i \in DOMAIN lines' : lines'[i] = lines[i]
  BY <1>0, WithoutLines
<1>2. \A g : g \notin ps => (HasLine(g)' <=> HasLine(g))
  BY <1>1 DEF HasLine
<1>3. ASSUME NEW d \in Buyers PROVE AskHolds(d)'
  <2>1. CASE ask'[d].step = "idle"
    BY <2>1 DEF AskHolds
  <2>2. CASE ask'[d].step # "idle"
    <3>1. AskHolds(d) /\ ask'[d] = ask[d] /\ shop' = shop /\ ask[d].product \notin ps
      BY <2>2 DEF Ledger
    <3>2. ASSUME ask[d].step = "pull"
          PROVE  \E i \in DOMAIN lines' : lines'[i].product = ask[d].product
                                          /\ ask[d].amount = LineTotal(lines'[i])
      BY <1>1, <3>1, <3>2 DEF AskHolds
    <3> QED
      BY <1>2, <3>1, <3>2 DEF AskHolds
  <2> QED
    BY <2>1, <2>2
<1>4. ASSUME NEW d \in Buyers, NEW e \in Buyers PROVE Together(d, e)'
  BY <1>2 DEF Together, Ledger
<1>5. OneLineEach'
  BY <1>1 DEF OneLineEach, Ledger
<1>6. \A i \in DOMAIN lines' : lines'[i].price = shop'[lines'[i].product].price
  BY <1>1 DEF Ledger
<1> QED
  BY <1>3, <1>4, <1>5, <1>6 DEF Ledger

LEMMA PullLedger ==
    ASSUME CartTypeOK, Ledger, NEW c \in Buyers, Pull(c) PROVE Ledger'
<1> DEFINE p == ask[c].product
<1>0. CartLines(lines) /\ CartLines(Without({p}))
  BY WithoutLines DEF CartTypeOK, CartLines
<1>1. PICK i \in DOMAIN lines : lines[i].product = p /\ ask[c].amount = LineTotal(lines[i])
  BY DEF Ledger, AskHolds, Pull
<1>2. /\ DOMAIN Without({p}) = DOMAIN lines \ {i}
      /\ \A j \in DOMAIN Without({p}) : Without({p})[j] = lines[j]
  <2>1. \A j \in DOMAIN lines : lines[j].product = p <=> j = i
    BY <1>1 DEF Ledger, OneLineEach
  <2>2. /\ DOMAIN Without({p}) = {j \in DOMAIN lines : lines[j].product \notin {p}}
        /\ \A j \in DOMAIN Without({p}) : Without({p})[j] = lines[j]
    BY <1>0, WithoutLines
  <2> QED
    BY <2>1, <2>2
<1>3. lines' = Without({p}) /\ total' = total - ask[c].amount /\ UNCHANGED shop
  BY DEF Pull
<1>4. Owed(lines) = Owed(lines') + LineTotal(lines[i])
  <2>1. CartLines(lines') /\ DOMAIN lines' = DOMAIN lines \ {i} /\ \A j \in DOMAIN lines' : lines[j] = lines'[j]
    BY <1>0, <1>2, <1>3
  <2> QED
    BY <1>0, <1>1, <2>1, OwedMore
<1>5. total' = Owed(lines')
  <2>1. Owed(lines') \in Int /\ LineTotal(lines[i]) \in Int
    <3>1. LineTotal(lines[i]) = Values(lines)[i]
      BY DEF Values
    <3> QED
      BY <1>0, <1>3, <3>1, ValuesType
  <2> QED
    BY <1>1, <1>3, <1>4, <2>1 DEF Ledger
<1>6. ask'[c].step = "idle" /\ \A d \in Buyers \ {c} : ask'[d] = ask[d]
  BY DEF Pull, Done, NoAsk, CartTypeOK
<1>7. \A d \in Buyers : ask'[d].step = "idle" \/ (ask'[d] = ask[d] /\ ask[d].product \notin {p})
  BY <1>6 DEF Ledger, Together, Pull
<1> QED
  BY <1>3, <1>5, <1>7, WithoutLedger

\* An order for what its lines hold costs what the lines come to
LEMMA OrderCosts ==
    ASSUME CartTypeOK, Ledger, NEW bought \in SUBSET Goods, NEW order \in [bought -> OrderSizes],
           \A p \in bought : InCart(p) => lines[FirstLine(p)].quantity = order[p]
    PROVE  Owed(Without(bought)) = Owed(lines) - Subtotal(order)
<1> DEFINE charges == [p \in bought |-> Charge(p, order)]
           Paid(T) == SumFunctionOnSet(charges, T)
           B == {T \in SUBSET bought : Owed(Without(T)) # Owed(lines) - Paid(T)}
<1>0. CartLines(lines) /\ IsFiniteSet(bought) /\ OneLineEach
  BY CartAssumption, FS_Subset DEF CartTypeOK, CartLines, Ledger
<1>1. (\A p \in bought : charges[p] \in Int) /\ Subtotal(order) = Paid(bought)
  BY <1>0, SubtotalIsSum
<1>2. SUFFICES ASSUME B # {} PROVE FALSE
  BY <1>1
<1>3. PICK T \in B : \A p \in T : T \ {p} \notin B
  <2> B \in SUBSET SUBSET bought
    OBVIOUS
  <2> HIDE DEF B
  <2> QED
    BY <1>0, <1>2, LeastSubset
<1>4. IsFiniteSet(T) /\ \A p \in T : charges[p] \in Int
  BY <1>0, <1>1, FS_Subset
<1>5. CartLines(Without(T)) /\ Owed(lines) \in Int
  BY <1>0, WithoutLines, ValuesType
<1>6. T # {}
  <2>1. SUFFICES ASSUME T = {} PROVE FALSE
    OBVIOUS
  <2>2. Without({}) = lines
    BY <1>0 DEF Without, RestrictValues, Restrict, CartLines
  <2> QED
    BY <1>5, <2>1, <2>2, SumOfNone
<1>7. PICK p \in T : TRUE
  BY <1>6
<1> DEFINE U == T \ {p}
<1>8. Paid(T) = Paid(U) + charges[p] /\ Paid(U) \in Int /\ charges[p] \in Int
  <2> HIDE DEF charges
  <2> QED
    BY <1>4, SumOfMore
<1>9. Owed(Without(U)) = Owed(lines) - Paid(U)
  BY <1>3
<1>10. /\ CartLines(Without(U)) /\ CartLines(Without(T))
       /\ DOMAIN Without(U) = {i \in DOMAIN lines : lines[i].product \notin U}
       /\ DOMAIN Without(T) = {i \in DOMAIN lines : lines[i].product \notin T}
       /\ \A i \in DOMAIN Without(U) : Without(U)[i] = lines[i]
       /\ \A i \in DOMAIN Without(T) : Without(T)[i] = lines[i]
  BY <1>0, WithoutLines
<1>11. CASE ~HasLine(p)
  <2>1. charges[p] = 0
    BY <1>11, InCartMeans DEF Charge
  <2>2. Without(T) = Without(U)
    BY <1>11 DEF Without, RestrictValues, Restrict, HasLine
  <2> QED
    BY <1>5, <1>8, <1>9, <2>1, <2>2
<1>12. CASE HasLine(p)
  <2>1. PICK i \in DOMAIN lines : lines[i].product = p
    BY <1>12 DEF HasLine
  <2>2. InCart(p) /\ FirstLine(p) = i
    BY <1>0, <2>1, FirstLineIsIt
  <2>3. charges[p] = LineTotal(lines[i])
    BY <2>2 DEF Charge, LineTotal
  <2>4. /\ i \in DOMAIN Without(U) /\ DOMAIN Without(T) = DOMAIN Without(U) \ {i}
        /\ \A j \in DOMAIN Without(T) : Without(U)[j] = Without(T)[j]
        /\ Without(U)[i] = lines[i]
    BY <1>0, <1>10, <2>1 DEF OneLineEach
  <2>5. Owed(Without(U)) = Owed(Without(T)) + LineTotal(lines[i])
    <3>1. Owed(Without(U)) = Owed(Without(T)) + LineTotal(Without(U)[i])
      <4> HIDE DEF U
      <4> QED
        BY <1>10, <2>4, OwedMore
    <3> QED
      BY <2>4, <3>1
  <2>6. Owed(Without(T)) \in Int /\ LineTotal(lines[i]) \in Int
    BY <1>8, <1>10, <2>3, ValuesType
  <2> HIDE DEF charges
  <2> QED
    BY <1>5, <1>8, <1>9, <2>3, <2>5, <2>6
<1> QED
  BY <1>11, <1>12

LEMMA SettleLedger ==
    ASSUME CartTypeOK, Ledger, SettleOrder, Quiet' PROVE Ledger'
<1>1. PICK bought \in SUBSET Goods : \E order \in [bought -> OrderSizes] :
          /\ lines' = Without(bought)
          /\ total' = total - Subtotal(order)
          /\ partial' = (partial \/ \E p \in bought :
                            InCart(p) /\ CartRead[FirstLine(p)].quantity # order[p])
          /\ crossed' = (crossed \/ \E p \in bought : Busy(p, Buyers, AskSteps \ {"idle"}))
  BY DEF SettleOrder
<1>2. PICK order \in [bought -> OrderSizes] :
          /\ lines' = Without(bought)
          /\ total' = total - Subtotal(order)
          /\ \A p \in bought : InCart(p) => lines[FirstLine(p)].quantity = order[p]
          /\ \A p \in bought : ~Busy(p, Buyers, AskSteps \ {"idle"})
  BY <1>1 DEF Quiet, CartRead
<1>3. total' = Owed(lines')
  BY <1>2, OrderCosts DEF Ledger
<1>4. \A d \in Buyers : ask'[d].step = "idle" \/ (ask'[d] = ask[d] /\ ask[d].product \notin bought)
  BY <1>2 DEF SettleOrder, Busy, CartTypeOK, Ask
<1> QED
  BY <1>2, <1>3, <1>4, WithoutLedger DEF SettleOrder

LEMMA EditLedger ==
    ASSUME CartTypeOK, Ledger, EditShop, Quiet' PROVE Ledger'
<1>1. PICK p \in Goods, price \in Prices, units \in Stocks :
          /\ CreateProduct(p, price, units) \/ UpdateProduct(p, price, units) \/ RemoveFromSale(p)
          /\ shop'[p].price = shop[p].price \/ (~InCart(p) /\ ~Busy(p, Buyers, {"increment", "push"}))
  BY DEF EditShop, Quiet
<1>2. UNCHANGED <<lines, total, ask>> /\ \A g \in Goods \ {p} : shop'[g] = shop[g]
  BY <1>1 DEF EditShop, CreateProduct, UpdateProduct, RemoveFromSale, CartTypeOK
<1>3. \A i \in DOMAIN lines : lines[i].product \in Goods
  BY DEF CartTypeOK, CartLine
<1>4. \A i \in DOMAIN lines' : lines'[i].price = shop'[lines'[i].product].price
  BY <1>1, <1>2, <1>3, InCartMeans DEF Ledger, HasLine
<1>5. ASSUME NEW d \in Buyers PROVE AskHolds(d)'
  <2>1. ask[d].step \in {"increment", "push"} => ask[d].amount = shop'[ask[d].product].price
    <3>1. ask[d].product \in Goods
      BY DEF CartTypeOK, Ask
    <3> QED
      BY <1>1, <1>2, <3>1 DEF Ledger, AskHolds, Busy
  <2> QED
    BY <1>2, <2>1 DEF Ledger, AskHolds, HasLine
<1>6. \A d, e \in Buyers : Together(d, e)'
  BY <1>2 DEF Together, HasLine, Ledger
<1> QED
  BY <1>2, <1>4, <1>5, <1>6 DEF Ledger, OneLineEach

CartInv == CartTypeOK /\ AmountsOK /\ (Quiet => Ledger)

LEMMA CartInvNext == CartInv /\ [CartNext]_cartVars => CartInv'
<1> SUFFICES ASSUME CartInv, [CartNext]_cartVars PROVE CartInv'
  OBVIOUS
<1>1. CartTypeOK /\ AmountsOK /\ CartTypeOK' /\ AmountsOK'
  BY CartTypeNext DEF CartInv
<1>2. Quiet' => Quiet
  BY <1>1 DEF CartNext, AskAdd, Increment, NoLine, Push, AskRemove, Pull, SettleOrder, EditShop, Waits,
              cartVars, Quiet, CartTypeOK
<1>3. ASSUME Quiet' PROVE Ledger'
  <2>1. Ledger
    BY <1>2, <1>3 DEF CartInv
  <2>2. CASE UNCHANGED cartVars
    BY <2>1, <2>2 DEF cartVars, Ledger, OneLineEach, AskHolds, Together, HasLine
  <2> QED
    BY <1>1, <1>3, <2>1, <2>2, AskAddLedger, IncrementLedger, NoLineLedger, PushLedger, AskRemoveLedger,
       PullLedger, SettleLedger, EditLedger DEF CartNext
<1> QED
  BY <1>1, <1>3 DEF CartInv

LEMMA CartInvInit == ASSUME NEW events \in [CartEvents -> Nat], CartInit(events) PROVE CartInv
<1>1. NoAsk \in Ask /\ NoAsk.step = "idle"
  BY CartAssumption DEF NoAsk, Ask, AskSteps
<1>2. lines = <<>> /\ DOMAIN lines = {} /\ total = 0
  BY DEF CartInit, CreateCart
<1>3. CartTypeOK
  <2>1. IsFiniteSet(DOMAIN lines) /\ DOMAIN lines \subseteq Nat /\ lines \in [DOMAIN lines -> CartLine]
    BY <1>2, FS_EmptySet
  <2>2. shop \in [Goods -> Product] /\ ask \in [Buyers -> Ask]
    BY <1>1 DEF CartInit
  <2>3. total \in Int /\ may \in [CartEvents -> Nat]
    BY <1>2 DEF CartInit
  <2>4. crossed = FALSE /\ repriced = FALSE /\ partial = FALSE
    BY DEF CartInit
  <2>5. {crossed, repriced, partial} \subseteq BOOLEAN
    BY <2>4
  <2> QED
    BY <2>1, <2>2, <2>3, <2>5 DEF CartTypeOK
<1>4. AmountsOK /\ \A c \in Buyers : ask[c].step = "idle"
  BY <1>1 DEF CartInit, AmountsOK
<1>5. Owed(lines) = 0
  BY <1>2, SumOfNone DEF Owed, SumFunction, Values
<1>6. Ledger
  BY <1>2, <1>4, <1>5 DEF Ledger, OneLineEach, AskHolds, Together
<1> QED
  BY <1>3, <1>4, <1>6 DEF CartInv

LEMMA CartInvAddsUp == CartInv => CartAddsUp
  BY DEF CartInv, Quiet, Ledger, OneLineEach, Owed, Values, CartAddsUp

-----------------------------------------------------------------------------
(* Listings: pages of results                                              *)

LEMMA ListingShape ==
    ASSUME NEW l \in Listings
    PROVE  /\ l.totals \in Totals
           /\ l.served \in 1 .. MaxPages
           /\ l.query.order \in Sortings
<1>1. MaxPages \in 1 .. MaxPages /\ NotificationPages \in 1 .. MaxPages
  BY CatalogAssumption
<1>2. NotificationsOf = [query |-> NotificationFind, totals |-> "none", served |-> NotificationPages]
  BY DEF NotificationsOf, Listing
<1> QED
  BY <1>1, <1>2 DEF Listings, Totals, Sortings, Listing, Query, BuildSort, Asked,
     SongsForAdmin, SongsForClient, ArtistsForAdmin, ArtistsForClient, AlbumsForAdmin,
     AlbumsForClient, PlaylistsForClient, CommentsOfSong, LatestComments, News, ProductsForAll,
     Advertisements, Reports, Verifications, Permissions, AllUsers, Rooms, RoomMessages,
     LikedSongs, FollowedArtists,
     SongFindAll, SongFindClient, ArtistFindAll, ArtistFindClient, AlbumFindAll, AlbumFindClient,
     PlaylistFindClient, CommentFindClient, CommentFindLatest, NewsFindAll, ProductFindAll,
     AdsFindAll, ReportFindAll, VerificationFindAll, PermissionFindAll, UserFindAll, RoomFindAll,
     MessageFind, LikeFind, FollowFind, NotificationFind

LEMMA MoreOfSize == ASSUME NEW a \in Int, NEW b \in Int, NEW m \in Nat, a <= b PROVE a * m <= b * m
  OBVIOUS

LEMMA EnoughPages == ASSUME NEW n \in Nat, NEW m \in Nat \ {0}
    PROVE CeilDiv(n, m) \in Nat /\ n <= CeilDiv(n, m) * m
  BY DEF CeilDiv

Before(M, d) == {e \in M : Precedes(e, d)}

LEMMA BeforeIsFinite ==
    ASSUME NEW M, IsFiniteSet(M), NEW d
    PROVE  IsFiniteSet(Before(M, d)) /\ Cardinality(Before(M, d)) \in Nat
<1>1. Before(M, d) \in SUBSET M
  BY DEF Before
<1> QED
  BY <1>1, FS_Subset, FS_CardinalityType

LEMMA BeforeGrows ==
    ASSUME NEW M, IsFiniteSet(M), NEW N \in SUBSET M, NEW d
    PROVE  Cardinality(Before(N, d)) <= Cardinality(Before(M, d))
<1>1. Before(N, d) \in SUBSET Before(M, d)
  BY DEF Before
<1> QED
  BY <1>1, BeforeIsFinite, FS_Subset

LEMMA BeforeThat ==
    ASSUME NEW M \in SUBSET Int, IsFiniteSet(M), NEW d \in Int, NEW e \in Int, Precedes(e, d)
    PROVE  /\ Cardinality(Before(M, e)) <= Cardinality(Before(M, d))
           /\ Cardinality(Before(M, e)) <= Cardinality(Before(M \ {e}, d))
<1>1. ASSUME NEW x \in Before(M, e) PROVE x \in Before(M, d) /\ x \in Before(M \ {e}, d)
  <2>1. x \in M /\ x \in Int /\ Precedes(x, e)
    BY DEF Before
  <2>2. x # e /\ Precedes(x, d)
    BY <2>1 DEF Precedes
  <2> QED
    BY <2>1, <2>2 DEF Before
<1>2. IsFiniteSet(Before(M, d)) /\ IsFiniteSet(Before(M \ {e}, d))
  BY BeforeIsFinite, FS_Subset
<1> QED
  BY <1>1, <1>2, FS_Subset

LEMMA BeforeAll ==
    ASSUME NEW M \in SUBSET Int, IsFiniteSet(M), NEW d \in M
    PROVE  Cardinality(Before(M, d)) < Cardinality(M)
<1>1. Before(M, d) \in SUBSET M /\ d \notin Before(M, d)
  <2>1. d \in Int
    OBVIOUS
  <2> QED
    BY <2>1 DEF Before, Precedes
<1>2. Cardinality(Before(M, d)) \in Nat /\ Cardinality(M) \in Nat
  BY BeforeIsFinite, FS_CardinalityType
<1> QED
  BY <1>1, <1>2, FS_Subset

\* Which of its results a query lists at place i
LEMMA RankInResults ==
    ASSUME NEW M \in SUBSET Int, IsFiniteSet(M), NEW results \in SetToSeqs(M),
           \A i, j \in DOMAIN results : i < j => Precedes(results[i], results[j])
    PROVE  /\ results \in [1 .. Cardinality(M) -> M]
           /\ \A i, j \in 1 .. Cardinality(M) : results[i] = results[j] => i = j
           /\ \A d \in M : \E i \in 1 .. Cardinality(M) : results[i] = d
           /\ \A i \in 1 .. Cardinality(M) : Cardinality(Before(M, results[i])) = i - 1
<1> DEFINE n == Cardinality(M)
<1>1. n \in Nat
  BY FS_CardinalityType
<1>2. results \in [1 .. n -> M] /\ \A i, j \in 1 .. n : results[i] = results[j] => i = j
  BY DEF SetToSeqs
<1>3. results \in Injection(1 .. n, M)
  BY <1>2 DEF Injection, IsInjective
<1>4. IsFiniteSet(1 .. n) /\ Cardinality(1 .. n) = n
  BY <1>1, FS_Interval
<1>5. results \in Surjection(1 .. n, M)
  BY <1>3, <1>4, FS_Injection
<1>6. \A d \in M : \E i \in 1 .. n : results[i] = d
  BY <1>5 DEF Surjection
<1>7. ASSUME NEW i \in 1 .. n PROVE Cardinality(Before(M, results[i])) = i - 1
  <2>1. \A j \in 1 .. n : Precedes(results[j], results[i]) <=> j < i
    <3> TAKE j \in 1 .. n
    <3>1. results[i] \in Int /\ results[j] \in Int /\ DOMAIN results = 1 .. n
      BY <1>2
    <3>2. j < i => Precedes(results[j], results[i])
      BY <3>1
    <3>3. i < j => Precedes(results[i], results[j])
      BY <3>1
    <3>4. Precedes(results[i], results[j]) => ~Precedes(results[j], results[i])
      BY <3>1 DEF Precedes
    <3>5. ~Precedes(results[i], results[i])
      BY <3>1 DEF Precedes
    <3>6. j < i \/ j = i \/ i < j
      BY <1>1
    <3> QED
      BY <1>1, <3>2, <3>3, <3>4, <3>5, <3>6
  <2> DEFINE first == [j \in 1 .. (i - 1) |-> results[j]]
  <2>2. i - 1 \in Nat /\ 1 .. (i - 1) \subseteq 1 .. n
    BY <1>1
  <2>3. first \in [1 .. (i - 1) -> Before(M, results[i])]
    BY <1>1, <1>2, <2>1, <2>2 DEF Before
  <2>4. \A j, k \in 1 .. (i - 1) : first[j] = first[k] => j = k
    BY <1>2, <2>2
  <2>5. \A d \in Before(M, results[i]) : \E j \in 1 .. (i - 1) : first[j] = d
    <3> TAKE d \in Before(M, results[i])
    <3>1. PICK j \in 1 .. n : results[j] = d
      BY <1>6 DEF Before
    <3>2. j < i
      BY <2>1, <3>1 DEF Before
    <3>3. j \in 1 .. (i - 1)
      BY <1>1, <3>2
    <3> QED
      BY <3>1, <3>3
  <2>6. first \in Bijection(1 .. (i - 1), Before(M, results[i]))
    <3> HIDE DEF first
    <3> QED
      BY <2>3, <2>4, <2>5 DEF Bijection, Injection, Surjection, IsInjective
  <2> HIDE DEF first
  <2> QED
    BY <2>2, <2>6, FS_CountingElements DEF ExistsBijection
<1> QED
  BY <1>2, <1>6, <1>7

LEMMA SliceShows ==
    ASSUME NEW S, NEW n \in Nat, NEW results \in [1 .. n -> S], NEW skip \in Nat,
           NEW limit \in Nat \ {0}
    PROVE  LET shown == Slice(results, skip, limit)
           IN  /\ shown \in Seq(S)
               /\ Len(shown) < limit => n < skip + limit
               /\ \A i \in 1 .. Len(shown) :
                    i <= limit /\ skip + i <= n /\ shown[i] = results[skip + i]
               /\ \A k \in 1 .. n :
                    skip < k /\ k <= skip + limit =>
                        k - skip \in 1 .. Len(shown) /\ shown[k - skip] = results[k]
<1> DEFINE shown == Slice(results, skip, limit)
           last == IF skip + limit > n THEN n ELSE skip + limit
<1>1. results \in Seq(S) /\ Len(results) = n
  <2>1. results \in Seq(S)
    BY SeqDef
  <2> QED
    BY <2>1, LenProperties
<1>2. last \in Nat /\ last <= n /\ last <= skip + limit
  OBVIOUS
<1>3. shown = SubSeq(results, skip + 1, last)
  BY <1>1 DEF Slice
<1>4. \A i \in (skip + 1) .. last : results[i] \in S
  BY <1>2
<1>5. skip + 1 <= n /\ limit > 0 => skip + 1 <= last
  OBVIOUS
<1>6. n < skip + limit \/ last = skip + limit
  OBVIOUS
<1>7. last = n \/ last = skip + limit
  OBVIOUS
<1> HIDE DEF last, shown
<1>8. /\ shown \in Seq(S)
      /\ Len(shown) = IF skip + 1 <= last THEN last - (skip + 1) + 1 ELSE 0
      /\ \A i \in 1 .. last - (skip + 1) + 1 : shown[i] = results[skip + 1 + i - 1]
  <2>1. skip + 1 \in Int /\ last \in Int
    BY <1>2
  <2> QED
    BY <1>3, <1>4, <2>1, SubSeqProperties
<1>9. \A i \in 1 .. Len(shown) : i <= limit /\ skip + i <= n /\ shown[i] = results[skip + i]
  <2> TAKE i \in 1 .. Len(shown)
  <2>1. i \in 1 .. last - (skip + 1) + 1 /\ skip + i <= last
    BY <1>2, <1>8
  <2>2. skip + 1 + i - 1 = skip + i
    BY <2>1
  <2> QED
    BY <1>2, <1>8, <2>1, <2>2
<1>10. \A k \in 1 .. n : skip < k /\ k <= skip + limit =>
                    k - skip \in 1 .. Len(shown) /\ shown[k - skip] = results[k]
  <2> TAKE k \in 1 .. n
  <2> HAVE skip < k /\ k <= skip + limit
  <2>1. k <= last
    BY <1>7
  <2>2. k - skip \in 1 .. Len(shown) /\ k - skip \in 1 .. last - (skip + 1) + 1
    BY <1>2, <1>8, <2>1
  <2>3. skip + 1 + (k - skip) - 1 = k
    OBVIOUS
  <2> QED
    BY <1>8, <2>2, <2>3
<1> QED
  BY <1>2, <1>6, <1>8, <1>9, <1>10 DEF shown

LEMMA MatchingIsFinite ==
    ASSUME CatalogTypeOK
    PROVE  /\ Matching \in SUBSET (1 .. MaxDocs) /\ Matching \in SUBSET Int /\ Matching \in SUBSET (DOMAIN docs)
           /\ IsFiniteSet(Matching)
           /\ Cardinality(Matching) \in Nat
<1>1. DOMAIN docs = 1 .. Len(docs) /\ Len(docs) \in Nat /\ Len(docs) <= MaxDocs /\ MaxDocs \in Nat
  BY CatalogAssumption, LenProperties DEF CatalogTypeOK
<1>2. Matching \in SUBSET (1 .. Len(docs)) /\ Matching \in SUBSET (1 .. MaxDocs)
  BY <1>1 DEF Matching
<1>3. IsFiniteSet(1 .. Len(docs))
  BY <1>1, FS_Interval
<1>4. IsFiniteSet(Matching)
  BY <1>2, <1>3, FS_Subset
<1>5. Matching \in SUBSET Int
  BY <1>2
<1>6. Cardinality(Matching) \in Nat
  BY <1>4, FS_CardinalityType
<1> QED
  BY <1>1, <1>2, <1>4, <1>5, <1>6

LEMMA SizesAndPages ==
    ASSUME CatalogTypeOK
    PROVE  /\ size \in Nat \ {0} /\ page \in Nat \ {0} /\ pages \in Nat
           /\ Served(page) \in Nat \ {0}
           /\ Skip(Served(page)) \in Nat
           /\ InOrder => Skip(Served(page)) = (page - 1) * size
           /\ (page - 1) * size \in Nat /\ page * size \in Nat
           /\ (page - 1) * size + size = page * size
           /\ TotalPages \in Nat /\ Cardinality(Matching) <= TotalPages * size
<1>1. size \in Nat \ {0} /\ page \in Nat \ {0} /\ pages \in Nat /\ listing.served \in Nat \ {0}
  BY CatalogAssumption, ListingShape DEF CatalogTypeOK
<1>2. Served(page) \in Nat \ {0} /\ (InOrder => Served(page) = page)
  BY <1>1 DEF Served, InOrder
<1>3. \A k \in Nat \ {0} : (k - 1) * size \in Nat /\ k * size \in Nat /\ (k - 1) * size + size = k * size
  BY <1>1
<1>4. TotalPages \in Nat /\ Cardinality(Matching) <= TotalPages * size
  BY <1>1, MatchingIsFinite, EnoughPages DEF TotalPages
<1> QED
  BY <1>1, <1>2, <1>3, <1>4 DEF Skip

LEMMA PageShown ==
    ASSUME CatalogTypeOK, NEW results \in Results, NEW shown, shown = PageOf(results)
    PROVE  shown \in Seq(1 .. MaxDocs) /\ Len(shown) \in Nat
<1> DEFINE n == Cardinality(Matching)
           skip == Skip(Served(page))
<1>1. results \in [1 .. n -> Matching]
  BY DEF Results, SetToSeqs
<1>2. shown = Slice(results, skip, size)
  BY DEF PageOf
<1>3. n \in Nat /\ skip \in Nat /\ size \in Nat \ {0}
  BY SizesAndPages, MatchingIsFinite
<1> HIDE DEF n, skip
<1>4. shown \in Seq(Matching)
  BY <1>1, <1>2, <1>3, SliceShows
<1>5. shown \in Seq(1 .. MaxDocs)
  BY <1>4, MatchingIsFinite, SeqMonotonic
<1> QED
  BY <1>5, LenProperties

LEMMA PageShownInOrder ==
    ASSUME CatalogTypeOK, InOrder, NEW results \in Results, NEW shown, shown = PageOf(results)
    PROVE  /\ \A i \in 1 .. Len(shown) :
                /\ shown[i] \in Matching
                /\ (page - 1) * size <= Cardinality(Before(Matching, shown[i]))
                /\ Cardinality(Before(Matching, shown[i])) < page * size
           /\ \A d \in Matching :
                /\ (page - 1) * size <= Cardinality(Before(Matching, d))
                /\ Cardinality(Before(Matching, d)) < page * size
                => d \in Range(shown)
           /\ \A i, j \in 1 .. Len(shown) : shown[i] = shown[j] => i = j
           /\ Len(shown) < size => Cardinality(Matching) <= page * size
<1> DEFINE n == Cardinality(Matching)
           skip == (page - 1) * size
<1>1. n \in Nat /\ Matching \in SUBSET Int /\ IsFiniteSet(Matching)
  BY MatchingIsFinite
<1>2. skip \in Nat /\ size \in Nat \ {0} /\ skip + size = page * size
  BY SizesAndPages
<1>3. shown = Slice(results, skip, size)
  BY SizesAndPages DEF PageOf
<1>4. /\ results \in [1 .. n -> Matching]
      /\ \A i, j \in 1 .. n : results[i] = results[j] => i = j
      /\ \A d \in Matching : \E i \in 1 .. n : results[i] = d
      /\ \A i \in 1 .. n : Cardinality(Before(Matching, results[i])) = i - 1
  <2>1. results \in SetToSeqs(Matching)
        /\ \A i, j \in DOMAIN results : i < j => Precedes(results[i], results[j])
    BY DEF Results, InOrder
  <2> QED
    BY <1>1, <2>1, RankInResults
<1> HIDE DEF n, skip
<1>5. /\ shown \in Seq(Matching)
      /\ Len(shown) < size => n < skip + size
      /\ \A i \in 1 .. Len(shown) : i <= size /\ skip + i <= n /\ shown[i] = results[skip + i]
      /\ \A k \in 1 .. n : skip < k /\ k <= skip + size =>
                    k - skip \in 1 .. Len(shown) /\ shown[k - skip] = results[k]
  <2>1. n \in Nat /\ skip \in Nat /\ size \in Nat \ {0} /\ results \in [1 .. n -> Matching]
    BY <1>1, <1>2, <1>4
  <2> QED
    BY <1>3, <2>1, SliceShows
<1>6. Len(shown) \in Nat /\ DOMAIN shown = 1 .. Len(shown)
  BY <1>5, LenProperties
<1>7. ASSUME NEW i \in 1 .. Len(shown)
      PROVE  /\ skip + i \in 1 .. n /\ shown[i] \in Matching
             /\ Cardinality(Before(Matching, shown[i])) = skip + i - 1
             /\ i <= size
  <2>1. skip + i \in 1 .. n
    BY <1>1, <1>2, <1>5, <1>6
  <2>2. Cardinality(Before(Matching, results[skip + i])) = (skip + i) - 1 /\ results[skip + i] \in Matching
    BY <1>4, <2>1
  <2>3. shown[i] = results[skip + i] /\ i <= size
    BY <1>5
  <2>4. (skip + i) - 1 = skip + i - 1
    BY <1>2, <1>6
  <2> QED
    BY <2>1, <2>2, <2>3, <2>4
<1>8. ASSUME NEW d \in Matching, skip <= Cardinality(Before(Matching, d)),
             Cardinality(Before(Matching, d)) < skip + size
      PROVE  d \in Range(shown)
  <2>1. PICK k \in 1 .. n : results[k] = d
    BY <1>4
  <2>2. Cardinality(Before(Matching, d)) = k - 1
    BY <1>4, <2>1
  <2>3. skip < k /\ k <= skip + size
    BY <1>1, <1>2, <1>8, <2>2
  <2> QED
    BY <1>5, <1>6, <2>1, <2>3 DEF Range
<1>9. ASSUME NEW i \in 1 .. Len(shown), NEW j \in 1 .. Len(shown), shown[i] = shown[j] PROVE i = j
  <2>1. skip + i - 1 = skip + j - 1
    BY <1>7, <1>9
  <2> QED
    BY <1>2, <1>6, <2>1
<1>10. \A i \in 1 .. Len(shown) : skip <= skip + i - 1 /\ (i <= size => skip + i - 1 < skip + size)
  BY <1>2, <1>6
<1> QED
  BY <1>1, <1>2, <1>5, <1>7, <1>8, <1>9, <1>10 DEF n, skip

-----------------------------------------------------------------------------
(* Listings: what the reader has seen                                      *)

Rank(d) == Cardinality(Before(Matching, d))

Answered == found /\ (counted \/ listing.totals # "apart")

StayedMatch == stayed \subseteq Matching

CountHolds ==
    listing.totals = "apart" /\ counted /\ ~found /\ ~torn => Cardinality(Matching) <= pages * size

SeenOnce ==
    InOrder /\ ~entered =>
        /\ \A i \in 1 .. Len(seen) : Rank(seen[i]) < Passed
        /\ \A i, j \in 1 .. Len(seen) : seen[i] = seen[j] => i = j

SeenAll ==
    InOrder /\ ~left =>
        /\ \A d \in stayed : Rank(d) < Passed => d \in Range(seen)
        /\ Answered /\ page >= pages /\ ~torn => stayed \subseteq Range(seen)

CatalogInv ==
    /\ CatalogTypeOK
    /\ StayedMatch
    /\ CountHolds
    /\ finished => Answered
    /\ SeenOnce
    /\ SeenAll

LEMMA FewerPages ==
    ASSUME NEW n \in Nat, NEW k \in Nat, NEW p \in Nat, NEW m \in Nat, k <= p, n <= k * m
    PROVE  n <= p * m
<1>1. k * m <= p * m
  BY MoreOfSize
<1>2. k * m \in Nat /\ p * m \in Nat
  OBVIOUS
<1> QED
  BY <1>1, <1>2

LEMMA RankIsNat == ASSUME CatalogTypeOK, NEW d PROVE Rank(d) \in Nat
  BY MatchingIsFinite, BeforeIsFinite DEF Rank

LEMMA PassedIsNat == ASSUME CatalogTypeOK PROVE Passed \in Nat
  BY SizesAndPages DEF Passed

LEMMA TypedFlags ==
    ASSUME CatalogTypeOK
    PROVE  /\ found \in BOOLEAN /\ counted \in BOOLEAN /\ finished \in BOOLEAN
           /\ left \in BOOLEAN /\ entered \in BOOLEAN /\ torn \in BOOLEAN
  BY DEF CatalogTypeOK

LEMMA CountInv == ASSUME CatalogInv, CatalogTypeOK', Count PROVE CatalogInv'
<1>1. /\ UNCHANGED <<listing, size, docs, page, found, seen, finished, edits, stayed, left, entered, torn>>
      /\ listing.totals = "apart" /\ ~finished /\ counted' /\ pages' = TotalPages
  BY DEF Count, history
<1>2. Matching' = Matching /\ Passed' = Passed /\ InOrder' = InOrder
  BY <1>1 DEF Matching, Passed, InOrder
<1>3. \A d : Rank(d)' = Rank(d)
  BY <1>1, <1>2 DEF Rank, Before, Precedes
<1>4. Cardinality(Matching) <= pages' * size /\ pages' \in Nat
  BY <1>1, SizesAndPages DEF CatalogInv
<1>5. StayedMatch' /\ CountHolds' /\ ~finished'
  BY <1>1, <1>2, <1>4 DEF CatalogInv, StayedMatch, CountHolds
<1>6. SeenOnce'
  BY <1>1, <1>2, <1>3 DEF CatalogInv, SeenOnce
<1>7. ASSUME InOrder, ~left, found, page >= pages' PROVE stayed \subseteq Range(seen)
  <2>1. page \in Nat /\ size \in Nat /\ Passed = page * size
    BY <1>7, SizesAndPages DEF CatalogInv, Passed
  <2>2. Cardinality(Matching) <= Passed
    <3>1. Cardinality(Matching) \in Nat
      BY MatchingIsFinite DEF CatalogInv
    <3> QED
      BY <1>4, <1>7, <2>1, <3>1, FewerPages
  <2>3. ASSUME NEW d \in stayed PROVE Rank(d) < Passed
    <3>1. d \in Matching
      BY DEF CatalogInv, StayedMatch
    <3>2. Rank(d) < Cardinality(Matching) /\ Rank(d) \in Nat /\ Cardinality(Matching) \in Nat /\ Passed \in Nat
      BY <3>1, MatchingIsFinite, BeforeAll, RankIsNat, PassedIsNat DEF CatalogInv, Rank
    <3> QED
      BY <2>2, <3>2
  <2> QED
    BY <1>7, <2>3 DEF CatalogInv, SeenAll
<1>8. SeenAll'
  BY <1>1, <1>2, <1>3, <1>7 DEF CatalogInv, SeenAll, Answered
<1> QED
  BY <1>5, <1>6, <1>8 DEF CatalogInv

LEMMA FindInv == ASSUME CatalogInv, CatalogTypeOK', Find PROVE CatalogInv'
<1>1. PICK results \in Results :
        /\ seen' = seen \o PageOf(results)
        /\ pages' = CASE listing.totals = "none"     -> IF Len(PageOf(results)) < size THEN page
                                                        ELSE page + 1
                      [] listing.totals = "together" -> TotalPages
                      [] listing.totals = "apart"    -> pages
  BY DEF Find
<1>2. PICK shown : shown = PageOf(results)
  OBVIOUS
<1>3. /\ UNCHANGED <<listing, size, docs, page, counted, finished, edits, stayed, left, entered, torn>>
      /\ ~found /\ ~finished /\ found'
  BY DEF Find, history
<1>4. Matching' = Matching /\ InOrder' = InOrder /\ Passed = (page - 1) * size /\ Passed' = page * size
  BY <1>3 DEF Matching, InOrder, Passed
<1>5. \A d : Rank(d)' = Rank(d) /\ Rank(d) \in Nat
  BY <1>3, <1>4, RankIsNat DEF Rank, Before, Precedes, CatalogInv
<1>6. /\ seen \in Seq(1 .. MaxDocs) /\ shown \in Seq(1 .. MaxDocs)
      /\ Len(seen) \in Nat /\ Len(shown) \in Nat
  BY <1>2, PageShown, LenProperties DEF CatalogInv, CatalogTypeOK
<1>7. /\ Len(seen') = Len(seen) + Len(shown)
      /\ \A i \in 1 .. Len(seen) + Len(shown) :
            seen'[i] = IF i <= Len(seen) THEN seen[i] ELSE shown[i - Len(seen)]
  BY <1>1, <1>2, <1>6, ConcatProperties
<1>8. Range(seen') = Range(seen) \cup Range(shown)
  BY <1>1, <1>2, <1>6, RangeConcatenation
<1>9. Passed \in Nat /\ Passed' \in Nat /\ Passed <= Passed' /\ size \in Nat \ {0} /\ page \in Nat
  <2>1. (page - 1) * size \in Nat /\ page * size \in Nat /\ (page - 1) * size + size = page * size
        /\ size \in Nat \ {0} /\ page \in Nat
    BY SizesAndPages DEF CatalogInv
  <2> QED
    BY <1>4, <2>1
<1>10. InOrder =>
        /\ \A i \in 1 .. Len(shown) :
                shown[i] \in Matching /\ Passed <= Rank(shown[i]) /\ Rank(shown[i]) < Passed'
        /\ \A d \in Matching : Passed <= Rank(d) /\ Rank(d) < Passed' => d \in Range(shown)
        /\ \A i, j \in 1 .. Len(shown) : shown[i] = shown[j] => i = j
        /\ Len(shown) < size => Cardinality(Matching) <= page * size
  BY <1>2, <1>4, PageShownInOrder DEF CatalogInv, Rank
<1>11. StayedMatch' /\ CountHolds' /\ ~finished'
  BY <1>3, <1>4 DEF CatalogInv, StayedMatch, CountHolds
<1>12. ASSUME InOrder, ~entered
       PROVE  /\ \A i \in 1 .. Len(seen') : Rank(seen'[i]) < Passed'
              /\ \A i, j \in 1 .. Len(seen') : seen'[i] = seen'[j] => i = j
  <2>1. /\ \A i \in 1 .. Len(seen) : Rank(seen[i]) < Passed
        /\ \A i, j \in 1 .. Len(seen) : seen[i] = seen[j] => i = j
    BY <1>12 DEF CatalogInv, SeenOnce
  <2>2. ASSUME NEW i \in 1 .. Len(seen')
        PROVE  \/ i \in 1 .. Len(seen) /\ seen'[i] = seen[i] /\ Rank(seen'[i]) < Passed
               \/ /\ i - Len(seen) \in 1 .. Len(shown) /\ seen'[i] = shown[i - Len(seen)]
                  /\ Passed <= Rank(seen'[i]) /\ Rank(seen'[i]) < Passed'
    <3>1. i \in 1 .. Len(seen) \/ (~(i <= Len(seen)) /\ i - Len(seen) \in 1 .. Len(shown))
      BY <1>6, <1>7
    <3>2. CASE i \in 1 .. Len(seen)
      BY <1>6, <1>7, <2>1, <3>2
    <3>3. CASE ~(i <= Len(seen)) /\ i - Len(seen) \in 1 .. Len(shown)
      <4>1. seen'[i] = shown[i - Len(seen)]
        BY <1>7, <3>3
      <4> QED
        BY <1>10, <1>12, <3>3, <4>1
    <3> QED
      BY <3>1, <3>2, <3>3
  <2>3. \A i \in 1 .. Len(seen') : Rank(seen'[i]) < Passed'
    <3> TAKE i \in 1 .. Len(seen')
    <3>1. Rank(seen'[i]) \in Nat
      BY <1>5
    <3> QED
      BY <1>9, <2>2, <3>1
  <2>4. ASSUME NEW i \in 1 .. Len(seen'), NEW j \in 1 .. Len(seen'), seen'[i] = seen'[j] PROVE i = j
    <3>1. Rank(seen'[i]) \in Nat /\ Rank(seen'[i]) = Rank(seen'[j])
      BY <1>5, <2>4
    <3>2. CASE /\ i \in 1 .. Len(seen) /\ seen'[i] = seen[i]
               /\ j \in 1 .. Len(seen) /\ seen'[j] = seen[j]
      BY <2>1, <2>4, <3>2
    <3>3. CASE /\ i - Len(seen) \in 1 .. Len(shown) /\ seen'[i] = shown[i - Len(seen)]
               /\ j - Len(seen) \in 1 .. Len(shown) /\ seen'[j] = shown[j - Len(seen)]
      <4>1. i - Len(seen) = j - Len(seen)
        BY <1>10, <1>12, <2>4, <3>3
      <4> QED
        BY <1>6, <1>7, <4>1
    <3>4. ~(Rank(seen'[i]) < Passed /\ Passed <= Rank(seen'[j]))
          /\ ~(Rank(seen'[j]) < Passed /\ Passed <= Rank(seen'[i]))
      BY <1>9, <3>1
    <3> QED
      BY <2>2, <3>2, <3>3, <3>4
  <2> QED
    BY <2>3, <2>4
<1>13. SeenOnce'
  BY <1>3, <1>4, <1>5, <1>12 DEF SeenOnce
<1>14. ASSUME InOrder, ~left, NEW d \in stayed, Rank(d) < Passed' PROVE d \in Range(seen')
  <2>1. d \in Matching
    BY DEF CatalogInv, StayedMatch
  <2>2. CASE Rank(d) < Passed
    BY <1>8, <1>14, <2>2 DEF CatalogInv, SeenAll
  <2>3. CASE Passed <= Rank(d)
    BY <1>8, <1>10, <1>14, <2>1, <2>3
  <2> QED
    BY <1>5, <1>9, <2>2, <2>3
<1>15. ASSUME InOrder, ~left, ~torn, counted \/ listing.totals # "apart", page >= pages'
       PROVE  Cardinality(Matching) <= page * size
  <2>1. Cardinality(Matching) \in Nat /\ pages \in Nat /\ TotalPages \in Nat
        /\ Cardinality(Matching) <= TotalPages * size
    BY MatchingIsFinite, SizesAndPages DEF CatalogInv
  <2>2. listing.totals \in Totals
    BY ListingShape DEF CatalogInv, CatalogTypeOK
  <2>3. CASE listing.totals = "none"
    <3>1. Len(shown) < size
      BY <1>1, <1>2, <1>6, <1>9, <1>15, <2>3
    <3> QED
      BY <1>10, <1>15, <3>1
  <2>4. CASE listing.totals = "together"
    <3>1. TotalPages <= page
      BY <1>1, <1>9, <1>15, <2>1, <2>4
    <3> QED
      BY <1>9, <2>1, <3>1, FewerPages
  <2>5. CASE listing.totals = "apart"
    <3>1. pages <= page
      BY <1>1, <1>9, <1>15, <2>1, <2>5
    <3>2. Cardinality(Matching) <= pages * size
      BY <1>3, <1>15, <2>5 DEF CatalogInv, CountHolds
    <3> QED
      BY <1>9, <2>1, <3>1, <3>2, FewerPages
  <2> QED
    BY <2>2, <2>3, <2>4, <2>5 DEF Totals
<1>16. SeenAll'
  <2>1. ASSUME InOrder, ~left, ~torn, counted \/ listing.totals # "apart", page >= pages', NEW d \in stayed
        PROVE  d \in Range(seen')
    <3>1. d \in Matching
      BY DEF CatalogInv, StayedMatch
    <3>2. Rank(d) < Cardinality(Matching) /\ Cardinality(Matching) \in Nat
      BY <3>1, MatchingIsFinite, BeforeAll DEF CatalogInv, Rank
    <3>3. Cardinality(Matching) <= Passed'
      BY <1>4, <1>15, <2>1
    <3>4. Rank(d) < Passed'
      BY <1>5, <1>9, <3>2, <3>3
    <3> QED
      BY <1>14, <2>1, <3>4
  <2> QED
    BY <1>3, <1>4, <1>5, <1>14, <2>1 DEF SeenAll, Answered
<1> QED
  BY <1>11, <1>13, <1>16 DEF CatalogInv

LEMMA TurnInv == ASSUME CatalogInv, CatalogTypeOK', Turn PROVE CatalogInv'
<1>1. /\ UNCHANGED <<listing, size, docs, pages, seen, edits, stayed, left, entered, torn>>
      /\ Answered /\ found /\ ~finished
      /\ \/ page' = page + 1 /\ ~found' /\ ~counted' /\ ~finished'
         \/ UNCHANGED <<page, found, counted>> /\ finished'
  BY DEF Turn, history, Answered, CatalogInv, CatalogTypeOK
<1>2. page \in Nat /\ size \in Nat /\ listing.served \in Nat
  <2>1. page \in Nat /\ size \in Nat
    BY SizesAndPages DEF CatalogInv
  <2>2. listing.served \in 1 .. MaxPages
    BY ListingShape DEF CatalogInv, CatalogTypeOK
  <2> QED
    BY <2>1, <2>2
<1>3. Matching' = Matching /\ (InOrder' => InOrder)
  <2>1. page' = page + 1 \/ page' = page
    BY DEF Turn
  <2>2. page <= page' /\ page' \in Nat
    BY <1>2, <2>1
  <2> QED
    BY <1>1, <1>2, <2>1, <2>2 DEF Matching, InOrder
<1>4. Passed' = Passed
  <2>1. (page + 1) - 1 = page
    BY <1>2
  <2> QED
    BY <1>1, <2>1 DEF Passed
<1>5. \A d : Rank(d)' = Rank(d)
  BY <1>1, <1>3 DEF Rank, Before, Precedes
<1>6. StayedMatch' /\ CountHolds' /\ (finished' => Answered')
  BY <1>1, <1>3 DEF CatalogInv, StayedMatch, CountHolds, Answered
<1>7. SeenOnce'
  BY <1>1, <1>3, <1>4, <1>5 DEF CatalogInv, SeenOnce
<1>8. SeenAll'
  BY <1>1, <1>3, <1>4, <1>5 DEF CatalogInv, SeenAll, Answered
<1> QED
  BY <1>6, <1>7, <1>8 DEF CatalogInv

LEMMA EnterInv ==
    ASSUME CatalogInv, CatalogTypeOK', Edit, NEW d \in Int, Enter(d), Matching' = Matching \cup {d}
    PROVE  CatalogInv'
<1>1. /\ UNCHANGED <<listing, size, page, found, counted, pages, seen, finished, stayed, left>>
      /\ ~finished
      /\ entered' = (entered \/ Cardinality(Ahead(d)) < Passed)
      /\ torn' = (torn \/ (counted /\ ~found))
  BY DEF Enter, Edit
<1>2. Passed' = Passed /\ InOrder' = InOrder /\ Passed \in Nat
  BY <1>1, PassedIsNat DEF Passed, InOrder, CatalogInv
<1>3. Ahead(d) = Before(Matching, d)
  BY DEF Ahead, Before
<1>4. Matching \in SUBSET Int /\ IsFiniteSet(Matching) /\ IsFiniteSet(Matching') /\ Matching \in SUBSET Matching'
  BY MatchingIsFinite, FS_AddElement DEF CatalogInv
<1>5. \A e : Rank(e)' = Cardinality(Before(Matching', e))
  BY <1>1 DEF Rank, Before, Precedes
<1>6. \A e : Rank(e) \in Nat /\ Rank(e)' \in Nat /\ Rank(e) <= Rank(e)'
  BY <1>4, <1>5, RankIsNat, BeforeGrows, BeforeIsFinite DEF CatalogInv, Rank
<1>7. StayedMatch' /\ CountHolds' /\ ~finished'
  BY <1>1, <1>4 DEF CatalogInv, StayedMatch, CountHolds
<1>8. SeenAll'
  <2>1. ASSUME InOrder, ~left, NEW e \in stayed, Rank(e)' < Passed PROVE e \in Range(seen)
    <3>1. Rank(e) < Passed
      BY <1>2, <1>6, <2>1
    <3> QED
      BY <2>1, <3>1 DEF CatalogInv, SeenAll
  <2>2. torn => torn'
    BY <1>1
  <2> QED
    BY <1>1, <1>2, <2>1, <2>2 DEF CatalogInv, SeenAll, Answered
<1>9. ASSUME InOrder, ~entered', NEW i \in 1 .. Len(seen) PROVE Rank(seen[i])' < Passed
  <2>1. ~entered /\ ~(Cardinality(Ahead(d)) < Passed)
    BY <1>1, <1>9 DEF CatalogInv, CatalogTypeOK
  <2>2. Rank(seen[i]) < Passed
    BY <1>9, <2>1 DEF CatalogInv, SeenOnce
  <2>3. seen[i] \in Int
    <3>1. seen \in Seq(1 .. MaxDocs)
      BY DEF CatalogInv, CatalogTypeOK
    <3>2. seen[i] \in 1 .. MaxDocs
      BY <1>9, <3>1, ElementOfSeq
    <3> QED
      BY <3>2
  <2>4. ~Precedes(d, seen[i])
    <3>1. Precedes(d, seen[i]) => Cardinality(Before(Matching, d)) <= Rank(seen[i])
      BY <1>4, <2>3, BeforeThat DEF Rank
    <3>2. Cardinality(Before(Matching, d)) \in Nat
      BY <1>4, BeforeIsFinite
    <3> QED
      BY <1>2, <1>3, <1>6, <2>1, <2>2, <3>1, <3>2
  <2>5. Before(Matching', seen[i]) = Before(Matching, seen[i])
    BY <2>4 DEF Before
  <2> QED
    BY <1>1, <1>5, <2>2, <2>5 DEF Rank
<1>10. SeenOnce'
  BY <1>1, <1>2, <1>9 DEF CatalogInv, SeenOnce
<1> QED
  BY <1>7, <1>8, <1>10 DEF CatalogInv

LEMMA LeaveInv ==
    ASSUME CatalogInv, CatalogTypeOK', Edit, NEW d \in Matching, Leave(d), Matching' = Matching \ {d}
    PROVE  CatalogInv'
<1>1. /\ UNCHANGED <<listing, size, page, found, counted, pages, seen, finished, entered, torn>>
      /\ ~finished
      /\ left' = (left \/ Cardinality(Ahead(d)) < Passed)
      /\ stayed' = stayed \ {d}
  BY DEF Leave, Edit
<1>2. Passed' = Passed /\ InOrder' = InOrder /\ Passed \in Nat
  BY <1>1, PassedIsNat DEF Passed, InOrder, CatalogInv
<1>3. Ahead(d) = Before(Matching, d)
  BY DEF Ahead, Before
<1>4. Matching \in SUBSET Int /\ IsFiniteSet(Matching) /\ Matching' \in SUBSET Matching
      /\ Cardinality(Matching) \in Nat /\ d \in Int
  BY MatchingIsFinite DEF CatalogInv
<1>5. \A e : Rank(e)' = Cardinality(Before(Matching', e))
  BY <1>1 DEF Rank, Before, Precedes
<1>6. IsFiniteSet(Matching') /\ Cardinality(Matching') \in Nat /\ Cardinality(Matching') <= Cardinality(Matching)
  BY <1>4, FS_Subset, FS_CardinalityType
<1>7. \A e : Rank(e) \in Nat /\ Rank(e)' \in Nat /\ Rank(e)' <= Rank(e)
  BY <1>4, <1>5, <1>6, RankIsNat, BeforeGrows, BeforeIsFinite DEF CatalogInv, Rank
<1>8. StayedMatch' /\ ~finished'
  BY <1>1 DEF CatalogInv, StayedMatch
<1>9. CountHolds'
  <2>1. pages * size \in Nat
    BY SizesAndPages DEF CatalogInv
  <2> QED
    BY <1>1, <1>4, <1>6, <2>1 DEF CatalogInv, CountHolds
<1>10. SeenOnce'
  BY <1>1, <1>2, <1>7 DEF CatalogInv, SeenOnce
<1>11. ASSUME InOrder, ~left', NEW e \in stayed', Rank(e)' < Passed PROVE e \in Range(seen)
  <2>1. ~left /\ ~(Cardinality(Ahead(d)) < Passed) /\ e \in stayed /\ e # d
    BY <1>1, <1>11 DEF CatalogInv, CatalogTypeOK
  <2>2. e \in Int
    BY <1>4, <2>1 DEF CatalogInv, StayedMatch
  <2>3. ~Precedes(d, e)
    <3>1. Precedes(d, e) => Cardinality(Before(Matching, d)) <= Rank(e)'
      BY <1>4, <1>5, <2>2, BeforeThat
    <3>2. Cardinality(Before(Matching, d)) \in Nat
      BY <1>4, BeforeIsFinite
    <3> QED
      BY <1>2, <1>3, <1>7, <1>11, <2>1, <3>1, <3>2
  <2>4. Before(Matching', e) = Before(Matching, e)
    BY <2>3 DEF Before
  <2>5. Rank(e) < Passed
    BY <1>5, <1>11, <2>4 DEF Rank
  <2> QED
    BY <1>11, <2>1, <2>5 DEF CatalogInv, SeenAll
<1>12. SeenAll'
  BY <1>1, <1>2, <1>11 DEF CatalogInv, SeenAll, Answered
<1> QED
  BY <1>8, <1>9, <1>10, <1>12 DEF CatalogInv

LEMMA DocsType ==
    ASSUME CatalogTypeOK
    PROVE  /\ docs \in [1 .. Len(docs) -> DocStates] /\ DOMAIN docs = 1 .. Len(docs)
           /\ Len(docs) \in Nat /\ Len(docs) <= MaxDocs /\ MaxDocs \in Nat
           /\ seen \in Seq(1 .. MaxDocs) /\ edits \in Nat
  BY CatalogAssumption, LenProperties DEF CatalogTypeOK

\* One document more, or another state of one that is there
LEMMA DocsAppend ==
    ASSUME CatalogTypeOK, docs' = Append(docs, "in"), Len(docs) < MaxDocs
    PROVE  /\ docs' \in Seq(DocStates) /\ Len(docs') <= MaxDocs
           /\ Matching' = Matching \cup {Len(docs) + 1}
<1>1. docs \in Seq(DocStates) /\ "in" \in DocStates
  BY DEF CatalogTypeOK, DocStates
<1>2. /\ docs' \in Seq(DocStates)
      /\ Len(docs') = Len(docs) + 1
      /\ \A i \in 1 .. Len(docs) : docs'[i] = docs[i]
      /\ docs'[Len(docs) + 1] = "in"
  BY <1>1, AppendProperties
<1>3. DOMAIN docs = 1 .. Len(docs) /\ DOMAIN docs' = 1 .. (Len(docs) + 1) /\ Len(docs) \in Nat
  BY <1>1, <1>2, LenProperties
<1>4. Matching' = Matching \cup {Len(docs) + 1}
  BY <1>2, <1>3 DEF Matching
<1> QED
  BY <1>2, <1>3, <1>4, DocsType

LEMMA DocsExcept ==
    ASSUME CatalogTypeOK, NEW d \in DOMAIN docs, NEW s \in DocStates, docs' = [docs EXCEPT ![d] = s]
    PROVE  /\ docs' \in Seq(DocStates) /\ Len(docs') <= MaxDocs
           /\ Matching' = IF s = "in" THEN Matching \cup {d} ELSE Matching \ {d}
<1>1. docs \in Seq(DocStates) /\ d \in 1 .. Len(docs) /\ DOMAIN docs = 1 .. Len(docs)
  BY DocsType DEF CatalogTypeOK
<1>2. docs' \in Seq(DocStates) /\ Len(docs') = Len(docs)
  BY <1>1, ExceptSeq
<1>3. DOMAIN docs' = DOMAIN docs /\ \A e \in DOMAIN docs : docs'[e] = IF e = d THEN s ELSE docs[e]
  OBVIOUS
<1>4. Matching' = IF s = "in" THEN Matching \cup {d} ELSE Matching \ {d}
  BY <1>3 DEF Matching
<1> QED
  BY <1>2, <1>4, DocsType

LEMMA FindType == ASSUME CatalogTypeOK, Find PROVE CatalogTypeOK'
<1>1. PICK results \in Results :
        /\ seen' = seen \o PageOf(results)
        /\ pages' = CASE listing.totals = "none"     -> IF Len(PageOf(results)) < size THEN page
                                                        ELSE page + 1
                      [] listing.totals = "together" -> TotalPages
                      [] listing.totals = "apart"    -> pages
  BY DEF Find
<1>2. /\ UNCHANGED <<listing, size, docs, page, counted, finished, edits, stayed, left, entered, torn>>
      /\ found' = TRUE
  BY DEF Find, history
<1>3. PageOf(results) \in Seq(1 .. MaxDocs)
  BY PageShown
<1>4. seen' \in Seq(1 .. MaxDocs)
  BY <1>1, <1>3, DocsType, ConcatProperties
<1>5. listing.totals \in Totals
  BY ListingShape DEF CatalogTypeOK
<1>6. page \in Nat /\ pages \in Nat /\ TotalPages \in Nat
  BY SizesAndPages
<1>7. pages' \in Nat
  BY <1>1, <1>5, <1>6 DEF Totals
<1> QED
  BY <1>2, <1>4, <1>7 DEF CatalogTypeOK

LEMMA TurnType == ASSUME CatalogTypeOK, Turn PROVE CatalogTypeOK'
<1>1. UNCHANGED <<listing, size, docs, pages, seen, edits, stayed, left, entered, torn>>
  BY DEF Turn, history
<1>2. CASE /\ page < MaxPages /\ page' = page + 1 /\ found' = FALSE /\ counted' = FALSE
           /\ UNCHANGED finished
  <2>1. page' \in 1 .. MaxPages
    BY <1>2, CatalogAssumption DEF CatalogTypeOK
  <2> QED
    BY <1>1, <1>2, <2>1 DEF CatalogTypeOK
<1>3. CASE finished' = TRUE /\ UNCHANGED <<page, found, counted>>
  BY <1>1, <1>3 DEF CatalogTypeOK
<1> QED
  BY <1>2, <1>3 DEF Turn

LEMMA EditType ==
    ASSUME CatalogTypeOK, Edit, docs' \in Seq(DocStates) /\ Len(docs') <= MaxDocs,
           NEW d, Enter(d) \/ Leave(d)
    PROVE  CatalogTypeOK'
<1>1. UNCHANGED <<listing, size, page, found, counted, pages, seen, finished>>
  BY DEF Enter, Leave
<1>2. edits' \in Nat
  BY DEF Edit, CatalogTypeOK
<1>3. stayed' \subseteq 1 .. MaxDocs
  BY DEF Enter, Leave, CatalogTypeOK
<1>4. {left', entered', torn'} \subseteq BOOLEAN
  BY DEF Enter, Leave, CatalogTypeOK
<1> QED
  BY <1>1, <1>2, <1>3, <1>4 DEF CatalogTypeOK

LEMMA EnterStep ==
    ASSUME CatalogInv, Create \/ UpdateIn
    PROVE  CatalogInv'
<1>1. \E d \in Int : /\ Edit /\ Enter(d) /\ Matching' = Matching \cup {d}
                     /\ docs' \in Seq(DocStates) /\ Len(docs') <= MaxDocs
  <2>1. CASE Create
    <3>1. Len(docs) + 1 \in Int
      BY DocsType DEF CatalogInv
    <3> QED
      BY <2>1, <3>1, DocsAppend DEF CatalogInv, Create
  <2>2. CASE UpdateIn
    <3>1. PICK d \in DOMAIN docs : docs' = [docs EXCEPT ![d] = "in"] /\ Enter(d)
      BY <2>2 DEF UpdateIn
    <3>2. d \in Int
      BY DocsType DEF CatalogInv
    <3>3. "in" \in DocStates
      BY DEF DocStates
    <3> QED
      BY <2>2, <3>1, <3>2, <3>3, DocsExcept DEF CatalogInv, UpdateIn
  <2> QED
    BY <2>1, <2>2
<1>2. PICK d \in Int : /\ Edit /\ Enter(d) /\ Matching' = Matching \cup {d}
                       /\ docs' \in Seq(DocStates) /\ Len(docs') <= MaxDocs
  BY <1>1
<1>3. CatalogTypeOK'
  BY <1>2, EditType DEF CatalogInv
<1> QED
  BY <1>2, <1>3, EnterInv

LEMMA LeaveStep ==
    ASSUME CatalogInv, Delete \/ UpdateOut
    PROVE  CatalogInv'
<1>1. PICK d \in Matching, s \in {"gone", "out"} : docs' = [docs EXCEPT ![d] = s] /\ Leave(d)
  BY DEF Delete, UpdateOut
<1>2. s \in DocStates /\ s # "in" /\ d \in DOMAIN docs
  BY <1>1 DEF DocStates, Matching
<1>3. docs' \in Seq(DocStates) /\ Len(docs') <= MaxDocs /\ Matching' = Matching \ {d}
  BY <1>1, <1>2, DocsExcept DEF CatalogInv
<1>4. Edit
  BY DEF Delete, UpdateOut
<1>5. CatalogTypeOK'
  BY <1>1, <1>3, <1>4, EditType DEF CatalogInv
<1> QED
  BY <1>1, <1>3, <1>4, <1>5, LeaveInv

LEMMA CatalogInvNext == CatalogInv /\ [CatalogNext]_catalogVars => CatalogInv'
<1> SUFFICES ASSUME CatalogInv, [CatalogNext]_catalogVars PROVE CatalogInv'
  OBVIOUS
<1>1. CASE Count
  <2>1. CatalogTypeOK'
    <3>1. TotalPages \in Nat
      BY SizesAndPages DEF CatalogInv
    <3> QED
      BY <1>1, <3>1 DEF Count, history, CatalogInv, CatalogTypeOK
  <2> QED
    BY <1>1, <2>1, CountInv
<1>2. CASE Find
  BY <1>2, FindType, FindInv DEF CatalogInv
<1>3. CASE Turn
  BY <1>3, TurnType, TurnInv DEF CatalogInv
<1>4. CASE Create \/ UpdateIn
  BY <1>4, EnterStep
<1>5. CASE Delete \/ UpdateOut
  BY <1>5, LeaveStep
<1>6. CASE UNCHANGED catalogVars
  BY <1>6 DEF catalogVars, CatalogInv, CatalogTypeOK, StayedMatch, CountHolds, SeenOnce, SeenAll, InOrder,
     Answered, Rank, Before, Precedes, Passed, Matching
<1> QED
  BY <1>1, <1>2, <1>3, <1>4, <1>5, <1>6 DEF CatalogNext

LEMMA CatalogInvInit ==
    ASSUME NEW changes \in Nat, NEW atMost \in 0 .. MaxDocs, CatalogInit(changes, atMost)
    PROVE  CatalogInv
<1>1. docs \in Seq(DocStates) /\ Len(docs) <= MaxDocs
  <2>1. PICK n \in 0 .. atMost : docs \in [1 .. n -> {"in", "out"}]
    BY DEF CatalogInit, BoundedSeq, SeqOf
  <2>2. docs \in [1 .. n -> DocStates] /\ n \in Nat /\ n <= MaxDocs
    BY <2>1, CatalogAssumption DEF DocStates
  <2>3. docs \in Seq(DocStates)
    BY <2>2, SeqDef
  <2> QED
    BY <2>2, <2>3, LenProperties
<1>2. stayed = Matching /\ stayed \subseteq 1 .. MaxDocs
  <2>1. DOMAIN docs = 1 .. Len(docs) /\ Len(docs) \in Nat /\ MaxDocs \in Nat
    BY <1>1, CatalogAssumption, LenProperties
  <2> QED
    BY <1>1, <2>1 DEF CatalogInit, Matching
<1>3. /\ ~found /\ ~counted /\ ~finished /\ ~left /\ ~entered /\ ~torn
      /\ {found, counted, finished, left, entered, torn} \subseteq BOOLEAN
  BY DEF CatalogInit
<1>4. seen = <<>> /\ seen \in Seq(1 .. MaxDocs) /\ Len(seen) = 0
  BY EmptySeq DEF CatalogInit
<1>5. page = 1 /\ pages = 1 /\ page \in 1 .. MaxPages
  BY CatalogAssumption DEF CatalogInit
<1>6. CatalogTypeOK
  BY <1>1, <1>2, <1>3, <1>4, <1>5 DEF CatalogInit, CatalogTypeOK
<1>7. Passed = 0
  BY <1>3, <1>5, <1>6, SizesAndPages DEF Passed
<1>8. \A d : ~(Rank(d) < Passed)
  BY <1>6, <1>7, RankIsNat
<1>9. SeenAll /\ SeenOnce
  BY <1>3, <1>4, <1>8 DEF SeenAll, SeenOnce, Answered
<1> QED
  BY <1>2, <1>3, <1>6, <1>9 DEF CatalogInv, StayedMatch, CountHolds

LEMMA CatalogInvComplete == CatalogInv => PagesComplete
  BY DEF CatalogInv, SeenAll, PagesComplete

LEMMA CatalogInvOnce == CatalogInv => PagesOnce
<1> SUFFICES ASSUME CatalogInv, InOrder, ~entered PROVE Cardinality(Range(seen)) = Len(seen)
  BY DEF PagesOnce
<1>1. seen \in [1 .. Len(seen) -> Range(seen)] /\ Len(seen) \in Nat /\ DOMAIN seen = 1 .. Len(seen)
  <2>1. seen \in Seq(1 .. MaxDocs)
    BY DEF CatalogInv, CatalogTypeOK
  <2>2. DOMAIN seen = 1 .. Len(seen) /\ Len(seen) \in Nat /\ seen \in [1 .. Len(seen) -> 1 .. MaxDocs]
    BY <2>1, LenProperties
  <2> QED
    BY <2>2 DEF Range
<1>2. \A i, j \in 1 .. Len(seen) : seen[i] = seen[j] => i = j
  BY DEF CatalogInv, SeenOnce
<1>3. \A d \in Range(seen) : \E i \in 1 .. Len(seen) : seen[i] = d
  BY <1>1 DEF Range
<1>4. seen \in Bijection(1 .. Len(seen), Range(seen))
  BY <1>1, <1>2, <1>3 DEF Bijection, Injection, Surjection, IsInjective
<1> QED
  BY <1>1, <1>4, FS_CountingElements DEF ExistsBijection

-----------------------------------------------------------------------------
(* The store                                                               *)

StoreInv == CartInv /\ CatalogInv

LEMMA StoreInvInit == StoreInit => StoreInv
<1>1. CartBudget \in [CartEvents -> Nat] /\ NoCartEvents \in [CartEvents -> Nat]
  BY CartAssumption DEF NoCartEvents
<1>2. 0 \in Nat /\ 0 \in 0 .. MaxDocs /\ Edits \in Nat /\ InitialDocs \in 0 .. MaxDocs
  BY CatalogAssumption, StoreAssumption
<1>3. CartInit(CartBudget) \/ CartInit(NoCartEvents) => CartInv
  BY <1>1, CartInvInit
<1>4. CatalogInit(0, 0) \/ CatalogInit(Edits, InitialDocs) => CatalogInv
  BY <1>2, CatalogInvInit
<1> QED
  BY <1>3, <1>4 DEF StoreInit, StoreInv

LEMMA StoreInvNext == StoreInv /\ [StoreNext]_storeVars => StoreInv'
<1> SUFFICES ASSUME StoreInv, [StoreNext]_storeVars PROVE StoreInv'
  OBVIOUS
<1>1. [CartNext]_cartVars /\ [CatalogNext]_catalogVars
  BY DEF StoreNext, storeVars
<1> QED
  BY <1>1, CartInvNext, CatalogInvNext DEF StoreInv

LEMMA StoreInvCorrect == StoreSpec => []StoreInv
  BY StoreInvInit, StoreInvNext, PTL DEF StoreSpec

\* The carts and the listings stay well typed: every line is of a product, at a price and a
\* number, no two lines share a place, and what a reader was shown are documents.
THEOREM StoreTypeCorrect == StoreSpec => []StoreTypeOK
<1>1. StoreInv => StoreTypeOK
  BY DEF StoreInv, CartInv, CatalogInv, StoreTypeOK
<1> QED
  BY <1>1, StoreInvCorrect, PTL

\* What the user is shown to owe is what the lines of the cart come to, and no product has
\* two lines, as long as no requests about a product cross, no price changes under a line
\* and orders are for what their lines hold: addProduct, removeProduct and the worker move
\* totalPrice by amounts computed from an earlier read, and those are then still right.
THEOREM CartTotalCorrect == StoreSpec => []CartAddsUp
<1>1. StoreInv => CartAddsUp
  BY CartInvAddsUp DEF StoreInv
<1> QED
  BY <1>1, StoreInvCorrect, PTL

\* Who reads a listing by skip and limit to the last page it reports has been shown every
\* document that was listed all the while, unless one left the part already read or one
\* entered between the count and the query of a request.
THEOREM PagesAreComplete == StoreSpec => []PagesComplete
<1>1. StoreInv => PagesComplete
  BY CatalogInvComplete DEF StoreInv
<1> QED
  BY <1>1, StoreInvCorrect, PTL

\* No document is on two pages, or twice on one, unless one entered the part already read.
THEOREM PagesShowOnce == StoreSpec => []PagesOnce
<1>1. StoreInv => PagesOnce
  BY CatalogInvOnce DEF StoreInv
<1> QED
  BY <1>1, StoreInvCorrect, PTL

==============================================================================
