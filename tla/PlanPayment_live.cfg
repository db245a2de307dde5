SPECIFICATION FairSpec
CONSTANTS
    o1 = o1  o2 = o2  u1 = u1  gold = gold  d1 = d1  d2 = d2  d3 = d3  c1 = c1
    Orders = {o1}
    Users = {u1}
    Plans = {gold}
    Deliveries = {d1, d2}
    CancelRequests = {}
    Owner <- OneOwner
    PlanOf <- OnePlan
    Months <- TwoMonths
    Price <- PriceOne
    DeliveryOf <- TwoOfO1
    CancelOf <- NoCancel
    Attempts = 3
    Budget <- FaultOnly
PROPERTY PaidPlanIsCredited
\* Orders, deliveries and cancel requests are used up and the system rests
CHECK_DEADLOCK FALSE
