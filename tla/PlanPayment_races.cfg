SPECIFICATION Spec
CONSTANTS
    o1 = o1  o2 = o2  u1 = u1  gold = gold  d1 = d1  d2 = d2  d3 = d3  c1 = c1
    Orders = {o1, o2}
    Users = {u1}
    Plans = {gold}
    Deliveries = {d1, d2}
    CancelRequests = {c1}
    Owner <- OneOwner
    PlanOf <- OnePlan
    Months <- OneMonth
    Price <- PriceOne
    DeliveryOf <- OnePerOrder
    CancelOf <- CancelO1
    Attempts = 3
    Budget <- AnyEvent
INVARIANTS StatusMatchesPayos OneSubscription NoLostExtension 
PROPERTY ImplementsLifecycle
\* Orders, deliveries and cancel requests are used up and the system rests
CHECK_DEADLOCK FALSE
