------------------------------- MODULE MCStore -------------------------------
(* Store for TLC: numbers of both signs, three adds, one of everything else *)
EXTENDS Store

QuantitiesVal == {-1, 1, 2}

CartBudgetVal == [e \in CartEvents |-> IF e = "add" THEN 3 ELSE 1]

==============================================================================
