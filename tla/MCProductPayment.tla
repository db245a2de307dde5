-------------------------- MODULE MCProductPayment --------------------------
EXTENDS ProductPayment, TLC

CONSTANTS o1, o2, p1, p2, u1, u2, d1, d2, d3, c1, c2

OneOwner == [o \in Orders |-> u1]
TwoOwners == o1 :> u1 @@ o2 :> u2

\* o1 asks for p1, o2 for two units of p2
Disjoint == o1 :> (p1 :> 1 @@ p2 :> 0) @@ o2 :> (p1 :> 0 @@ p2 :> 2)
\* One order for two products, and one that repeats a line
TwoLines == o1 :> (p1 :> 1 @@ p2 :> 1) @@ o2 :> (p1 :> 2 @@ p2 :> 0)
TwoLinesLargest == o1 :> (p1 :> 1 @@ p2 :> 1) @@ o2 :> (p1 :> 1 @@ p2 :> 0)

TwoOfO1 == [d \in Deliveries |-> o1]
OnePerOrder == d1 :> o1 @@ d2 :> o2
CancelO1 == c1 :> o1
NoCancel == [c \in {} |-> o1]

Stock2 == [p \in Products |-> 2]
Stock3 == [p \in Products |-> 3]

Some(ks) == [k \in Disturbances |-> IF k \in ks THEN 1 ELSE 0]
AnyEvent == Some({"edit", "cart", "fault"})
AnyTiming == Some({"expiry", "sync", "crash"})

==============================================================================
