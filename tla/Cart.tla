-------------------------------- MODULE Cart --------------------------------
(***************************************************************************)
(* A user's cart (CartService) and the products in it (ProductService).    *)
(* The cart stores its lines and, beside them, their total price, which    *)
(* every request moves by an amount of its own.  A request reads first and *)
(* writes later, and the worker that settles a paid order writes too.      *)
(***************************************************************************)
EXTENDS Integers, FiniteSetsExt, Functions

CONSTANTS
    Goods,              \* the products
    Prices, Stocks,
    Quantities,         \* what a request may add; a number of any sign is accepted
    OrderSizes,         \* how much of a product an order may ask for
    Buyers,             \* the connections of the user
    CartBudget          \* requests, orders and changes of products

CartEvents == {"add", "remove", "order", "edit"}

ASSUME CartAssumption ==
    /\ Goods # {} /\ IsFiniteSet(Goods)
    /\ Prices \in (SUBSET Nat) \ {{}} /\ Stocks \in (SUBSET Nat) \ {{}}
    /\ Quantities \subseteq Int /\ OrderSizes \subseteq Nat \ {0}
    /\ CartBudget \in [CartEvents -> Nat]

VARIABLES
    shop,               \* the products
    lines, total,       \* the cart: its lines, by their place in products, and totalPrice
    ask,                \* what each connection is waiting for
    may,                \* what is left of CartBudget
    crossed, repriced, partial  \* history: see CartAddsUp

cartVars == <<shop, lines, total, ask, may, crossed, repriced, partial>>

Product  == [state : {"none", "sold", "removed"}, price : Prices, stock : Stocks]
CartLine == [product : Goods, quantity : Int, price : Prices]

AskSteps == {"idle", "increment", "push", "pull"}
Ask == [step : AskSteps, product : Goods, quantity : Int, amount : Int]

CartTypeOK ==
    /\ shop \in [Goods -> Product]
    /\ lines \in [DOMAIN lines -> CartLine]
    /\ DOMAIN lines \subseteq Nat /\ IsFiniteSet(DOMAIN lines)
    /\ total \in Int
    /\ ask \in [Buyers -> Ask]
    /\ may \in [CartEvents -> Nat]
    /\ {crossed, repriced, partial} \subseteq BOOLEAN

NoAsk == [step |-> "idle", product |-> CHOOSE p \in Goods : TRUE, quantity |-> 0, amount |-> 0]

CreateCart ==
    /\ lines = <<>>
    /\ total = 0

CartInit(budget) ==
    /\ shop \in [Goods -> {d \in Product : d.state # "removed"}]
    /\ CreateCart
    /\ ask = [c \in Buyers |-> NoAsk]
    /\ may = budget
    /\ crossed = FALSE
    /\ repriced = FALSE
    /\ partial = FALSE

UseBudget(what) ==
    /\ may[what] > 0
    /\ may' = [may EXCEPT ![what] = @ - 1]

-----------------------------------------------------------------------------
(* The cart as a query sees it: every line with its product, quantity and  *)
(* price, whether or not the product is still for sale                     *)
CartRead == lines

LinesOf(p) == {i \in DOMAIN CartRead : CartRead[i].product = p}
InCart(p) == LinesOf(p) # {}

\* find, and the line that products.$ stands for
FirstLine(p) == Min(LinesOf(p))

LineTotal(l) == l.price * l.quantity

Busy(p, others, steps) == \E c \in others : ask[c].product = p /\ ask[c].step \in steps

\* Other requests are about the same product; adding to one line is all right
Crossing(p, c, step) ==
    \/ Busy(p, Buyers \ {c}, {"pull"})
    \/ (step = "pull" \/ ~InCart(p)) /\ Busy(p, Buyers \ {c}, {"increment", "push"})

Waits(c, step, p, quantity, amount) ==
    /\ ask' = [ask EXCEPT ![c] = [step |-> step, product |-> p, quantity |-> quantity,
                                  amount |-> amount]]
    /\ crossed' = (crossed \/ Crossing(p, c, step))

Done(c) == ask' = [ask EXCEPT ![c] = NoAsk]

-----------------------------------------------------------------------------
(* addProduct                                                              *)

\* The stock is compared with what this request adds, not with what the line will hold
AskAdd(c) ==
    /\ ask[c].step = "idle"
    /\ UseBudget("add")
    /\ \E p \in Goods, q \in Quantities :
        /\ shop[p].state = "sold"
        /\ shop[p].stock >= q
        /\ Waits(c, "increment", p, q, shop[p].price)
    /\ UNCHANGED <<shop, lines, total, repriced, partial>>

\* Mutant: the total is not moved along
IncrementLineOnly(c) ==
    /\ InCart(ask[c].product)
    /\ lines' = [lines EXCEPT ![FirstLine(ask[c].product)].quantity = @ + ask[c].quantity]
    /\ UNCHANGED total

IncrementLine(c) ==
    /\ InCart(ask[c].product)
    /\ lines' = [lines EXCEPT ![FirstLine(ask[c].product)] =
                    [product |-> @.product, quantity |-> @.quantity + ask[c].quantity,
                     price |-> ask[c].amount]]
    /\ total' = total + ask[c].quantity * ask[c].amount

Increment(c) ==
    /\ ask[c].step = "increment"
    /\ IncrementLine(c)
    /\ Done(c)
    /\ UNCHANGED <<shop, may, crossed, repriced, partial>>

NoLine(c) ==
    /\ ask[c].step = "increment"
    /\ ~InCart(ask[c].product)
    /\ ask' = [ask EXCEPT ![c].step = "push"]
    /\ UNCHANGED <<shop, lines, total, may, crossed, repriced, partial>>

\* Mutant: the line's total is stored as its price
NewLineTotal(c) ==
    [product |-> ask[c].product, quantity |-> ask[c].quantity,
     price |-> ask[c].amount * ask[c].quantity]

NewLine(c) ==
    [product |-> ask[c].product, quantity |-> ask[c].quantity, price |-> ask[c].amount]

\* The place after the last line
End == Max({0} \cup DOMAIN lines) + 1

Push(c) ==
    /\ ask[c].step = "push"
    /\ lines' = [i \in DOMAIN lines \cup {End} |-> IF i = End THEN NewLine(c) ELSE lines[i]]
    /\ total' = total + ask[c].amount * ask[c].quantity
    /\ Done(c)
    /\ UNCHANGED <<shop, may, crossed, repriced, partial>>

-----------------------------------------------------------------------------
(* removeProduct and removeProductsByUserId                                *)

Without(ps) == RestrictValues(lines, LAMBDA l : l.product \notin ps)

AskRemove(c) ==
    /\ ask[c].step = "idle"
    /\ UseBudget("remove")
    /\ \E p \in Goods :
        /\ InCart(p)
        /\ Waits(c, "pull", p, 0, LineTotal(CartRead[FirstLine(p)]))
    /\ UNCHANGED <<shop, lines, total, repriced, partial>>

Pull(c) ==
    /\ ask[c].step = "pull"
    /\ lines' = Without({ask[c].product})
    /\ total' = total - ask[c].amount
    /\ Done(c)
    /\ UNCHANGED <<shop, may, crossed, repriced, partial>>

\* Of every product that was bought and is in the cart, what was bought at the line's price
Subtotal(order) ==
    SumFunction([p \in DOMAIN order |->
                    IF InCart(p) THEN CartRead[FirstLine(p)].price * order[p] ELSE 0])

\* The cart is read after the job's transaction took its snapshot, and a conflict aborts
\* the job: in a job that commits no write comes between.  The order may be of products
\* that are not in the cart, or in it in another number.
SettleOrder ==
    /\ UseBudget("order")
    /\ \E bought \in (SUBSET Goods) \ {{}} : \E order \in [bought -> OrderSizes] :
        /\ lines' = Without(bought)
        /\ total' = total - Subtotal(order)
        /\ partial' = (partial \/ \E p \in bought :
                          InCart(p) /\ CartRead[FirstLine(p)].quantity # order[p])
        /\ crossed' = (crossed \/ \E p \in bought : Busy(p, Buyers, AskSteps \ {"idle"}))
    /\ UNCHANGED <<shop, ask, repriced>>

-----------------------------------------------------------------------------
(* Products                                                                *)

CreateProduct(p, price, stock) ==
    /\ shop[p].state = "none"
    /\ shop' = [shop EXCEPT ![p] = [state |-> "sold", price |-> price, stock |-> stock]]

\* A removed product can still be updated
UpdateProduct(p, price, stock) ==
    /\ shop[p].state # "none"
    /\ shop' = [shop EXCEPT ![p] = [state |-> @.state, price |-> price, stock |-> stock]]

RemoveFromSale(p) ==
    /\ shop[p].state = "sold"
    /\ shop' = [shop EXCEPT ![p].state = "removed"]

EditShop ==
    /\ UseBudget("edit")
    /\ \E p \in Goods, price \in Prices, stock \in Stocks :
        /\ \/ CreateProduct(p, price, stock)
           \/ UpdateProduct(p, price, stock)
           \/ RemoveFromSale(p)
        /\ repriced' = (repriced \/ /\ shop'[p].price # shop[p].price
                                    /\ InCart(p) \/ Busy(p, Buyers, {"increment", "push"}))
    /\ UNCHANGED <<lines, total, ask, crossed, partial>>

CartNext ==
    \/ \E c \in Buyers :
        \/ AskAdd(c) \/ Increment(c) \/ NoLine(c) \/ Push(c)
        \/ AskRemove(c) \/ Pull(c)
    \/ SettleOrder \/ EditShop

-----------------------------------------------------------------------------
(* What the user is shown to owe is what the lines come to, and a product  *)
(* has one line, as long as no two requests about a product cross that are *)
(* not both adding to its line, no product changes its price while it is   *)
(* in the cart or on its way there, and orders are for what their lines    *)
(* hold.  addProduct, removeProduct and the worker each move totalPrice by *)
(* an amount computed from an earlier read.                                *)
CartAddsUp ==
    ~crossed /\ ~repriced /\ ~partial =>
        /\ total = SumFunction([i \in DOMAIN lines |-> LineTotal(lines[i])])
        /\ \A i, j \in DOMAIN lines : lines[i].product = lines[j].product => i = j

=============================================================================
