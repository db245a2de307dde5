---------------------------- MODULE MCPlanPayment ----------------------------
EXTENDS PlanPayment, TLC

CONSTANTS o1, o2, u1, gold, d1, d2, d3, c1

OneOwner == [o \in Orders |-> u1]
OnePlan == [o \in Orders |-> gold]
TwoMonths == [p \in Plans |-> 2]
OneMonth == [p \in Plans |-> 1]
PriceOne == [p \in Plans |-> 1]

TwoOfO1 == [d \in Deliveries |-> o1]
OnePerOrder == d1 :> o1 @@ d2 :> o2
CancelO1 == c1 :> o1
NoCancel == [c \in {} |-> o1]

Some(ks) == [k \in Disturbances |-> IF k \in ks THEN 1 ELSE 0]
AnyEvent == [Some(Disturbances) EXCEPT !["tick"] = 2]
FaultOnly == Some({"fault"})

==============================================================================
