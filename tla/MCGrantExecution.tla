-------------------------- MODULE MCGrantExecution --------------------------
(* Instances of GrantExecution for TLC: two requests compete for one          *)
(* customer's slot, a third for the merchant's margin.                        *)
EXTENDS GrantExecution, TLC

CONSTANTS r1, r2, r3, c1, c2

TwoCustomers == [r \in Requests |-> IF r = r3 THEN c2 ELSE c1]
OneEach == [r \in Requests |-> 1]
TwoEach == [r \in Requests |-> 2]
ThreeEachCustomer == [c \in Customers |-> 3]
OneEachCustomer == [c \in Customers |-> 1]
FirstDay == {0}
Never == {}
SecondMidnight == {4}

=============================================================================
