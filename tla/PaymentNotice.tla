---------------------------- MODULE PaymentNotice ----------------------------
(***************************************************************************)
(* What the receiver of Stripe events promises, whatever the number of     *)
(* deliveries and of server processes: an event is claimed at most once; a *)
(* notice to the monolith is paid for by the claim or by one outage of the *)
(* ledger; and the provider is released from redelivering an event only    *)
(* when somebody has taken it over or an attempt at it was interrupted.    *)
(***************************************************************************)
EXTENDS Integers

CONSTANT Events          \* the events the ledger guards

VARIABLES
  claimed,               \* events whose claim succeeded
  outages,               \* per event, attempts to claim that ended unknown
  interrupted,           \* events an attempt at which was cut short
  notices,               \* per event, notices sent to the monolith
  closed                 \* events the provider will not redeliver

vars == <<claimed, outages, interrupted, notices, closed>>

Init ==
  /\ claimed = {}
  /\ outages = [e \in Events |-> 0]
  /\ interrupted = {}
  /\ notices = [e \in Events |-> 0]
  /\ closed = {}

Claim(e) ==
  /\ e \notin claimed
  /\ claimed' = claimed \cup {e}
  /\ UNCHANGED <<outages, interrupted, notices, closed>>

Outage(e) ==
  /\ outages' = [outages EXCEPT ![e] = @ + 1]
  /\ UNCHANGED <<claimed, interrupted, notices, closed>>

Interrupt(S) ==
  /\ interrupted' = interrupted \cup S
  /\ UNCHANGED <<claimed, outages, notices, closed>>

Budget(e) == (IF e \in claimed THEN 1 ELSE 0) + outages[e]

Notify(e) ==
  /\ notices[e] < Budget(e)
  /\ notices' = [notices EXCEPT ![e] = @ + 1]
  /\ UNCHANGED <<claimed, outages, interrupted, closed>>

TakenOver(e) == e \in claimed \/ outages[e] > 0 \/ e \in interrupted

Close(e) ==
  /\ TakenOver(e)
  /\ closed' = closed \cup {e}
  /\ UNCHANGED <<claimed, outages, interrupted, notices>>

Next ==
  \/ \E e \in Events : Claim(e) \/ Outage(e) \/ Notify(e) \/ Close(e)
  \/ \E S \in SUBSET Events : Interrupt(S)

Spec == Init /\ [][Next]_vars

=============================================================================
