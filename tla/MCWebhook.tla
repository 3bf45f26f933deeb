------------------------------ MODULE MCWebhook ------------------------------
(* Instances of Webhook for TLC: bodies, secrets and tables of gateways.     *)
EXTENDS Webhook, TLC

CONSTANTS h1, h2, k1, k2, g1, g2

Symmetry == Permutations(Handlers)

-----------------------------------------------------------------------------
(* Bodies *)

Stripe(id, type, status, client, meta) ==
  [provider |-> "stripe", json |-> TRUE, id |-> id, type |-> type,
   object |-> [id |-> "cs_1", payment_status |-> status,
               client_reference_id |-> client, metadata_order_id |-> meta]]

Heleket(status, order) ==
  [provider |-> "heleket", json |-> TRUE, reserialises |-> TRUE,
   uuid |-> "u_1", order_id |-> order, status |-> status]

Woovi(named, status, order) ==
  [provider |-> "woovi", json |-> TRUE, namesCompleted |-> named,
   charge |-> [identifier |-> "i_1", correlationID |-> order, status |-> status]]

Abacate(event, status, order) ==
  [provider |-> "abacatepay", json |-> TRUE, event |-> event,
   transparent |-> [id |-> "p_1", externalId |-> order, status |-> status]]

Completed == "checkout.session.completed"

stripePaid == Stripe("evt_1", Completed, "paid", "o1", "")
stripeUnpaid == Stripe("evt_2", Completed, "unpaid", "o1", "o1")
stripeAsync == Stripe("evt_3", "checkout.session.async_payment_succeeded", "paid", "o1", "o1")
stripeNoStatus == Stripe("evt_4", Completed, "", "", "o2")
stripeNoOrder == Stripe("evt_5", Completed, "paid", "", "")
stripeNoType == Stripe("evt_6", "", "paid", "o2", "o2")
heleketPaid == Heleket("paid_over", "o3")
heleketOther == Heleket("cancel", "o3")
heleketForeign == [heleketPaid EXCEPT !.reserialises = FALSE]
wooviPaid == Woovi(TRUE, "COMPLETED", "o4")
wooviOther == Woovi(TRUE, "", "o6")          \* ..._COMPLETED_NOT_SAME_CUSTOMER_PAYER
wooviExpired == Woovi(FALSE, "EXPIRED", "o4")
abacatePaid == Abacate("transparent.completed", "PAID", "o5")
abacateExpired == Abacate("transparent.expired", "EXPIRED", "o5")
abacateUnnamed == Abacate("", "PAID", "o5")
brokenBody == [stripePaid EXCEPT !.json = FALSE, !.id = ""]

OneStripe == {stripePaid}
TwoProviders == {stripePaid, wooviPaid}
Payloads == {stripePaid, stripeUnpaid, stripeAsync, stripeNoStatus, stripeNoOrder,
             stripeNoType, heleketPaid, heleketOther, heleketForeign, wooviPaid,
             wooviOther, wooviExpired, abacatePaid, abacateExpired, abacateUnnamed,
             brokenBody}

-----------------------------------------------------------------------------
(* Keys and tables *)

Row(id, p, key) ==
  [id |-> id, provider |-> p, active |-> TRUE, config |-> key, created |-> 0]

AllKeys1 == [e \in Events |-> {k1}]

\* Stripe signs with both keys while its endpoint's secret is rolled.
RollingKeys == [e \in Events |-> {k1, k2}]

StripeGateway == {Row(g1, "stripe", k1)}
StripeAndWoovi == {Row(g1, "stripe", k1), Row(g2, "woovi", k1)}
EveryProvider == {Row(p, p, k1) : p \in Providers}

-----------------------------------------------------------------------------
(* What the bodies above stand for, decided by hand from the providers'     *)
(* points of view and not by the operators of WebhookEvents.                *)

\* Bodies that report a settled payment of a named order.
Settled == {stripePaid, stripeAsync, stripeNoStatus, heleketPaid, heleketForeign,
            wooviPaid, wooviOther, abacatePaid}

\* Two of these the receiver loses.  IsPaid knows checkout.session.completed
\* alone, so that a payment that settles later (a bank debit) is answered 200
\* and forgotten; and the signature of a body that Go does not serialise as
\* Heleket did is refused at every delivery.
Forgotten == {stripeAsync}
Refused == {heleketForeign}

\* Without faults the monolith is called back for every settled payment but these
\* and for nothing else: never for a body of another kind, and never not at
\* all once the provider was answered 200; of genuine deliveries of settled
\* payments only the foreign ones are refused, and those always (Verify, IsPaid,
\* OrderID and the parsers of the four providers, in the order the handlers
\* apply them).
SettledExactly ==
  /\ \A e \in Events :
       /\ posted[e] > 0 => e \in Settled \ (Forgotten \cup Refused)
       /\ e \in acked \cap Settled => posted[e] > 0 \/ e \in Forgotten
       /\ e \in acked => e \notin Refused
  /\ \A h \in Handlers :
       pc[h] = "bad" /\ req[h].event \in Settled => req[h].event \in Refused

=============================================================================
