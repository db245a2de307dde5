------------------------------ MODULE RedisStock ------------------------------
(***************************************************************************)
(* The stock counters product:<id>:stock in Redis and the operations of    *)
(* RedisService on them.  Each operation is one Redis command, one Lua     *)
(* script or one MULTI block, so it is atomic.                             *)
(*                                                                         *)
(* A missing key reads as -1 in the reservation script and as 0 in INCRBY; *)
(* counter[p] is kept at 0 while p \notin cached.                          *)
(***************************************************************************)
EXTENDS Integers

CONSTANT Products

VARIABLES
    counter,    \* value of product:<p>:stock
    cached,     \* products whose key exists
    volatile    \* products whose key carries a TTL

redisVars == <<counter, cached, volatile>>

RedisTypeOK ==
    /\ counter \in [Products -> Int]
    /\ cached \subseteq Products
    /\ volatile \subseteq cached

RedisInit ==
    /\ counter = [p \in Products |-> 0]
    /\ cached = {}
    /\ volatile = {}

Ordered(qty) == {p \in Products : qty[p] > 0}

Available(p) == IF p \in cached THEN counter[p] ELSE -1

\* First loop of the script: every line is compared on its own, so a product
\* that occurs on several lines is compared with its largest line only.
CanReserve(line) == \A p \in Ordered(line) : Available(p) >= line[p]

\* reserveStock when the first loop passes: DECRBY and PEXPIRE for each line
ReserveStock(line, qty) ==
    /\ CanReserve(line)
    /\ counter' = [p \in Products |-> counter[p] - qty[p]]
    /\ volatile' = volatile \cup Ordered(qty)
    /\ UNCHANGED cached

\* releaseStock: INCRBY keeps a TTL and creates a missing key without one
ReleaseStock(qty) ==
    /\ counter' = [p \in Products |-> counter[p] + qty[p]]
    /\ cached' = cached \cup Ordered(qty)
    /\ UNCHANGED volatile

\* SET drops the TTL of the key
SetCounters(products, value) ==
    /\ counter' = [p \in Products |-> IF p \in products THEN value[p] ELSE counter[p]]
    /\ cached' = cached \cup products
    /\ volatile' = volatile \ products

AtLeastZero(n) == IF n > 0 THEN n ELSE 0

SyncStocks(products, value) ==
    SetCounters(products, [p \in Products |-> AtLeastZero(value[p])])

\* The PEXPIRE of a reservation runs out and Redis drops the key
ExpireKey(p) ==
    /\ p \in volatile
    /\ counter' = [counter EXCEPT ![p] = 0]
    /\ cached' = cached \ {p}
    /\ volatile' = volatile \ {p}

===============================================================================
