SPECIFICATION StoreSpec
CONSTANTS
    Goods = {p1, p2}
    Prices = {1, 2}
    Stocks = {1}
    Quantities <- QuantitiesVal
    OrderSizes = {1}
    Buyers = {phone, laptop}
    CartBudget <- CartBudgetVal
    MaxDocs = 4
    Sizes = {1, 2}
    MaxPages = 4
    NotificationPages = 2
    InitialDocs = 3
    Edits = 2
INVARIANTS
    StoreTypeOK
    CartAddsUp
    PagesComplete
    PagesOnce
\* The budgets are used up, the reader has finished, and the system rests
CHECK_DEADLOCK FALSE
