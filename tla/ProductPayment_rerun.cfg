SPECIFICATION FairSpec
CONSTANTS
    o1 = o1  o2 = o2  p1 = p1  p2 = p2  u1 = u1  u2 = u2
    d1 = d1  d2 = d2  d3 = d3  c1 = c1  c2 = c2
    Orders = {o1, o2}
    Products = {p1, p2}
    Users = {u1, u2}
    Deliveries = {d1, d2}
    CancelRequests = {}
    Owner <- TwoOwners
    Qty <- Disjoint
    Line <- Disjoint
    CartOrders = {o1}
    DeliveryOf <- OnePerOrder
    CancelOf <- NoCancel
    InitStock <- Stock3
    EditStock = {1}
    Budget <- AnyTiming
INVARIANTS StockAccountsForConfirmed
 
\* Orders, deliveries and cancel requests are used up and the system rests
CHECK_DEADLOCK FALSE
