---------------------------- MODULE WebhookEvents ----------------------------
(***************************************************************************)
(* What the webhook handlers read from a delivery: the signature checks,   *)
(* the parsers and the accessors of external/payment/{stripe,heleket,      *)
(* woovi,abacatepay,webhooks}.go, as operators on records.                 *)
(*                                                                         *)
(* A delivery is a record [event, sigs, fresh]: the body, the keys its     *)
(* signature header (Heleket: the field "sign" of the body) was computed   *)
(* with, and whether Stripe's timestamp t is within the 300 s of tolerance *)
(* when it is checked.  A MAC is abstracted to the key it was made with:   *)
(* two MACs of the same body are equal exactly when their keys are.        *)
(*                                                                         *)
(* A body keeps the JSON fields that decide something, already trimmed and *)
(* in the case the code compares them in; the field json says whether the  *)
(* body decodes into the provider's struct at all.                         *)
(***************************************************************************)

Providers == {"stripe", "heleket", "woovi", "abacatepay"}

Empty == ""        \* an absent or blank string field

-----------------------------------------------------------------------------
(* Stripe *)

\* Mutant: a gateway without webhook_secret is not refused.
VerifyStripeWebhook_NoSecret(d, secret) == d.sigs # {} /\ d.fresh /\ secret \in d.sigs

\* A secret, a header with a timestamp and at least one v1, a timestamp in
\* tolerance, and one v1 that matches (several during a key rotation).
VerifyStripeWebhook(d, secret) ==
  /\ secret # Empty
  /\ d.sigs # {}
  /\ d.fresh
  /\ secret \in d.sigs

ParseStripeEvent(e) == e.json /\ e.type # Empty

\* Mutant: the status of the payment is not looked at.
StripeIsPaid_AnyStatus(e) == e.type = "checkout.session.completed"

StripeIsPaid(e) ==
  /\ e.type = "checkout.session.completed"
  /\ e.object.payment_status \in {"paid", Empty}

StripeOrderID(e) ==
  IF e.object.client_reference_id # Empty
    THEN e.object.client_reference_id
    ELSE e.object.metadata_order_id

-----------------------------------------------------------------------------
(* Heleket: the signature covers what Go's json.Marshal makes of the body  *)
(* without "sign"; reserialises says whether these are the provider's      *)
(* bytes (key order, escapes and number formats may differ).               *)

VerifyHeleketWebhook(d, apiKey) ==
  /\ apiKey # Empty
  /\ d.event.json
  /\ d.event.reserialises
  /\ d.sigs = {apiKey}

ParseHeleketEvent(e) == e.json

HeleketIsPaid(e) == e.status \in {"paid", "paid_over"}

-----------------------------------------------------------------------------
(* Woovi *)

VerifyWooviWebhook(d, secret) == secret # Empty /\ d.sigs = {secret}

ParseWooviEvent(e) == e.json

\* namesCompleted: the name of the event, in upper case, contains COMPLETED.
WooviIsPaid(e) ==
  \/ e.charge.status \in {"COMPLETED", "CONFIRMED"}
  \/ e.namesCompleted

-----------------------------------------------------------------------------
(* AbacatePay *)

VerifyAbacatePayWebhook(d, secret) == secret # Empty /\ d.sigs = {secret}

ParseAbacatePayEvent(e) == e.json /\ e.event # Empty

AbacatePayIsPaid(e) ==
  /\ e.event = "transparent.completed"
  /\ e.transparent.status = "PAID"

-----------------------------------------------------------------------------
(* The four handlers differ only in which of these they call. *)

Verify(d, secret) ==
  CASE d.event.provider = "stripe"     -> VerifyStripeWebhook(d, secret)
    [] d.event.provider = "heleket"    -> VerifyHeleketWebhook(d, secret)
    [] d.event.provider = "woovi"      -> VerifyWooviWebhook(d, secret)
    [] d.event.provider = "abacatepay" -> VerifyAbacatePayWebhook(d, secret)

Parses(e) ==
  CASE e.provider = "stripe"     -> ParseStripeEvent(e)
    [] e.provider = "heleket"    -> ParseHeleketEvent(e)
    [] e.provider = "woovi"      -> ParseWooviEvent(e)
    [] e.provider = "abacatepay" -> ParseAbacatePayEvent(e)

IsPaid(e) ==
  CASE e.provider = "stripe"     -> StripeIsPaid(e)
    [] e.provider = "heleket"    -> HeleketIsPaid(e)
    [] e.provider = "woovi"      -> WooviIsPaid(e)
    [] e.provider = "abacatepay" -> AbacatePayIsPaid(e)

\* The order the callback names.
OrderID(e) ==
  CASE e.provider = "stripe"     -> StripeOrderID(e)
    [] e.provider = "heleket"    -> e.order_id
    [] e.provider = "woovi"      -> e.charge.correlationID
    [] e.provider = "abacatepay" -> e.transparent.externalId

\* Only Stripe events have an entry in the ledger, and only when they have an id.
Guarded(e) == e.provider = "stripe" /\ e.id # Empty

=============================================================================
