--------------------------- MODULE OrderLifecycle ----------------------------
(***************************************************************************)
(* What a buyer may rely on: an order is created with its payment and its  *)
(* purchase history, has at most one outcome, keeps it, and is fulfilled   *)
(* in the very step that records its payment as succeeded.                 *)
(***************************************************************************)
CONSTANT Orders

VARIABLES payment, purchase

Init ==
    /\ payment = [o \in Orders |-> "none"]
    /\ purchase = [o \in Orders |-> "none"]

Create(o) ==
    /\ payment[o] = "none"
    /\ payment' = [payment EXCEPT ![o] = "pending"]
    /\ purchase' = [purchase EXCEPT ![o] = "pending"]

Fulfil(o) ==
    /\ payment[o] = "pending"
    /\ payment' = [payment EXCEPT ![o] = "succeeded"]
    /\ purchase' = [purchase EXCEPT ![o] = "confirmed"]

Close(o) ==
    /\ payment[o] = "pending"
    /\ \E outcome \in {"failed", "cancelled"} : payment' = [payment EXCEPT ![o] = outcome]
    /\ UNCHANGED purchase

Next == \E o \in Orders : Create(o) \/ Fulfil(o) \/ Close(o)

Spec == Init /\ [][Next]_<<payment, purchase>>

==============================================================================
