------------------------------ MODULE PaidOrders ------------------------------
(***************************************************************************)
(* What checkout and webhooks promise the monolith together: it hears that *)
(* an order is paid only after a charge of this order was, once per paid   *)
(* charge, and once more at most for each outage of the ledger.  Two       *)
(* charges of a retried order can both be paid, and are both announced.    *)
(***************************************************************************)
EXTENDS Integers, FiniteSets

CONSTANTS Orders, Numbers       \* what tells charges apart

VARIABLES
  charges,               \* what the providers hold: [n, order]
  paid,                  \* those of them the customer has paid
  notices,               \* per order, notices sent to the monolith
  outages                \* of the ledger of events

vars == <<charges, paid, notices, outages>>

Init ==
  /\ charges = {}
  /\ paid = {}
  /\ notices = [o \in Orders |-> 0]
  /\ outages = 0

Charge ==
  /\ \E o \in Orders, n \in Numbers \ {c.n : c \in charges} :
       charges' = charges \cup {[n |-> n, order |-> o]}
  /\ UNCHANGED <<paid, notices, outages>>

Pay ==
  /\ \E c \in charges \ paid : paid' = paid \cup {c}
  /\ UNCHANGED <<charges, notices, outages>>

PaidFor(o) == {c \in paid : c.order = o}

Notify(o) ==
  /\ PaidFor(o) # {}
  /\ notices[o] < Cardinality(PaidFor(o)) + outages
  /\ notices' = [notices EXCEPT ![o] = @ + 1]
  /\ UNCHANGED <<charges, paid, outages>>

Outage ==
  /\ outages' = outages + 1
  /\ UNCHANGED <<charges, paid, notices>>

Next == Charge \/ Pay \/ Outage \/ \E o \in Orders : Notify(o)

Spec == Init /\ [][Next]_vars

=============================================================================
