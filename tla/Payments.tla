------------------------------- MODULE Payments -------------------------------
(***************************************************************************)
(* The service as a whole: Checkout and Webhook in one process over one    *)
(* table of gateways, joined by the providers and the customers, who pay   *)
(* the charges checkout has made and so cause the events the webhooks      *)
(* receive.                                                                *)
(*                                                                         *)
(* A row's config has the account at the provider the key in it opens (the *)
(* webhooks of an account are signed with its secret, here the same value) *)
(* beside what Checkout reads of it.  The webhooks see a row through View. *)
(***************************************************************************)
EXTENDS Integers, Sequences, FiniteSets, TLC

CONSTANTS
  Chargers, Receivers,         \* requests and deliveries in flight at once
  Orders, Secrets,
  StripeRows,                  \* the rows that may be written
  InitGateways,
  CurrencyCodes, Nil,
  Asks,                        \* charges the monolith asks for, with their price
  NoRequest,
  MaxRequests, MaxFaults, MaxWrites

VARIABLES
  gateways, faults, writes,                        \* shared
  charging, job, work, cards, calls, sessions, refs, requests, currencies, plan,
  everCharged, cut, declined,                      \* Checkout's
  delivering, req, secret, open, processed, acked, confirmed, posted, lost, claimed,
  outages, interrupted, everActive,                \* Webhook's
  settled                                          \* charges the customer has paid

checkoutVars == <<charging, job, work, cards, calls, sessions, refs, requests,
                  currencies, plan, everCharged, cut, declined>>
webhookVars == <<delivering, req, secret, open, processed, acked, confirmed, posted,
                 lost, claimed, outages, interrupted, everActive>>
vars == <<gateways, faults, writes, checkoutVars, webhookVars, settled>>

C == INSTANCE Checkout WITH
  Handlers <- Chargers, pc <- charging, everActive <- everCharged,
  GatewayVersions <- StripeRows, CurrencyVersions <- {}, PlanVersions <- {},
  InitCurrencies <- {}, InitPlan <- Nil, Displays <- {}, Countries <- {},
  OtherCharges <- Asks

\* The columns GetActiveByProvider's callers use.
View(table) ==
  {[id |-> g.id, provider |-> g.provider, active |-> g.active, created |-> g.created,
    config |-> g.config.secret] : g \in table}

-----------------------------------------------------------------------------
(* The event Stripe sends of a paid session.  It belongs to the account the *)
(* session was made in, and names the order CreateCharge has given it.      *)

EventOf(n, order, account) ==
  [provider |-> "stripe", account |-> account, json |-> TRUE,
   id       |-> ToString(<<n, order, account>>),
   type     |-> "checkout.session.completed",
   object   |-> [payment_status |-> "paid", client_reference_id |-> order,
                 metadata_order_id |-> order]]

PaymentOf(s) == EventOf(s.n, s.order, s.config.secret)

Payments == {EventOf(n, o, k) : n \in 0..(MaxRequests - 1), o \in Orders, k \in Secrets}

\* Stripe gives every event an id of its own.
ASSUME EventIdsAssumption ==
  \A e, f \in Payments : e.id # "" /\ (e.id = f.id => e = f)

W == INSTANCE Webhook WITH
  Handlers <- Receivers, pc <- delivering, gateways <- View(gateways),
  Events <- Payments, EndpointKeys <- [e \in Payments |-> {e.account}],
  GatewayIds <- C!IdsOf(StripeRows \cup InitGateways),
  InitGateways <- View(InitGateways), CallbackConfigured <- TRUE

ASSUME RowsAssumption ==
  \A g \in InitGateways \cup StripeRows :
    /\ DOMAIN g = {"id", "provider", "active", "config", "currencies", "created"}
    /\ g.provider \in W!Providers /\ g.active \in BOOLEAN
    /\ g.config.secret \in Secrets
    /\ g.currencies \in Seq(STRING) /\ g.created \in Nat

ASSUME KeysAssumption == \A f, g \in InitGateways : f.id = g.id => f = g

ASSUME AsksAssumption ==
  \A c \in Asks : DOMAIN c = {"gateway", "pay", "price", "card"} /\ c.card = Nil

ASSUME ValuesAssumption ==
  /\ IsFiniteSet(Receivers)
  /\ "" \notin Secrets
  /\ Nil \notin Nat /\ NoRequest \notin W!Requests
  /\ MaxRequests \in Nat /\ MaxFaults \in Nat /\ MaxWrites \in Nat

Init == C!Init /\ W!Init /\ settled = {}

-----------------------------------------------------------------------------
CheckoutStep(step) == step /\ UNCHANGED <<webhookVars, settled>>

\* The table first: TLC computes the view of the next state from it.
WebhookStep(step) == UNCHANGED <<gateways, checkoutVars, settled>> /\ step

\* A customer pays a charge, which he can for as long as the provider has it.
Settle ==
  /\ \E s \in sessions \ settled : settled' = settled \cup {s}
  /\ UNCHANGED <<gateways, faults, writes, checkoutVars, webhookVars>>

Deliver(s) ==
  WebhookStep(\E h \in Receivers : W!Deliver(h, PaymentOf(s)))

DeliverTwice(s) ==
  WebhookStep(\E h \in Receivers : W!DeliverTwice(h, PaymentOf(s)))

\* One statement, seen by both.
WriteGateway == C!WriteGateway /\ W!Write(View(gateways')) /\ UNCHANGED settled

\* One process: the requests of both sides are gone.
Crash ==
  /\ \/ C!Crash /\ W!Crash
     \/ C!Crash /\ (\A h \in Receivers : W!Idle(h)) /\ UNCHANGED webhookVars
     \/ (\A h \in Chargers : C!Idle(h)) /\ UNCHANGED <<gateways, checkoutVars>> /\ W!Crash
  /\ UNCHANGED settled

Next ==
  \/ \E h \in Chargers :
       \/ \E o \in Orders : CheckoutStep(C!BeginCharge(h, o))
       \/ CheckoutStep(C!HandlerStep(h))
       \/ CheckoutStep(C!Disconnect(h))
  \/ \E c \in calls :
       CheckoutStep(C!ProviderCreates(c) \/ C!ProviderRefuses(c) \/ C!ProviderDeclines(c))
  \/ Settle
  \/ \E s \in settled : Deliver(s) \/ DeliverTwice(s)
  \/ \E h \in Receivers :
       WebhookStep(W!HandlerStep(h)) \/ WebhookStep(W!Disconnect(h))
  \/ WriteGateway
  \/ Crash

Spec == Init /\ [][Next]_vars

\* As in Webhook; nobody has to pay, and nobody to ask again.
FairSpec ==
  /\ Spec
  /\ \A h \in Receivers : WF_vars(WebhookStep(W!HandlerStep(h)))
  /\ \A e \in Payments : SF_vars(\E s \in settled : PaymentOf(s) = e /\ Deliver(s))

-----------------------------------------------------------------------------
(* Properties *)

\* The monolith is told of an order by webhooks.go as PaidOrders promises: never
\* before a charge of this order was paid, and once per charge unless an insert in the
\* ledger failed.  The ledger is one of events, not of orders: two paid sessions of a
\* retried order are announced twice.
Total(perEvent, events) == Cardinality(UNION {{e} \X (1..perEvent[e]) : e \in events})

Book == INSTANCE PaidOrders WITH
  Numbers <- 0..(MaxRequests - 1),
  charges <- {[n |-> s.n, order |-> s.order] : s \in sessions},
  paid <- {[n |-> s.n, order |-> s.order] : s \in settled},
  notices <- [o \in Orders |-> Total(posted, {e \in Payments : W!OrderID(e) = o})],
  outages <- Total(outages, Payments)

PaidOrdersSpec == Book!Spec

\* A webhook may overtake the answer to the charge it is about, or tell of a charge
\* the monolith believes to have failed; but what it tells of is a charge the customer
\* paid, and the request for it is then still at work or was cut short.  Otherwise
\* chargeHandler has answered with its reference.
NoticesKnown ==
  \A e \in Payments :
    posted[e] > 0 =>
      \E s \in settled :
        /\ e = PaymentOf(s)
        /\ \/ s.n \in refs[s.order] \cup cut
           \/ \E h \in Chargers : charging[h] \in {"wait", "ok"} /\ job[h].n = s.n

\* The webhooks check a payment with the secret of the oldest active gateway of its
\* provider, whichever gateway it was charged with.
InForce(e) ==
  LET found == C!SelectActiveByProvider(gateways, "stripe") IN
  found # {} /\ \A g \in found : g.config.secret = e.account

\* A paid charge is announced if from some time on its account is the one of its
\* provider that is in force: a gateway that is switched off, or an older one that is
\* switched on, only delays it, unless a callback failed or was interrupted.
PaidIsAnnounced ==
  \A e \in Payments :
    <>[](e \in {PaymentOf(s) : s \in settled} /\ InForce(e)) =>
      <>(e \in confirmed \cup lost \cup interrupted)

=============================================================================
