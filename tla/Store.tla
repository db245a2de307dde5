-------------------------------- MODULE Store --------------------------------
(***************************************************************************)
(* The cart and the listings have no state in common: a behaviour is about *)
(* the one while the other rests.                                          *)
(***************************************************************************)
EXTENDS Cart, Catalog

CONSTANTS
    InitialDocs,        \* how many documents a collection holds at first, at most
    Edits               \* how many changes of documents there are, at most

ASSUME StoreAssumption == InitialDocs \in 0 .. MaxDocs /\ Edits \in Nat

NoCartEvents == [e \in CartEvents |-> 0]

StoreInit ==
    \/ CartInit(CartBudget) /\ CatalogInit(0, 0) /\ listing = News /\ size = 1
    \/ CatalogInit(Edits, InitialDocs) /\ CartInit(NoCartEvents)
       /\ shop = [p \in Goods |-> CHOOSE d \in Product : d.state = "none"]

storeVars == <<cartVars, catalogVars>>

StoreNext ==
    \/ CartNext /\ UNCHANGED catalogVars
    \/ CatalogNext /\ UNCHANGED cartVars

StoreSpec == StoreInit /\ [][StoreNext]_storeVars

StoreTypeOK == CartTypeOK /\ CatalogTypeOK

==============================================================================
