------------------------------- MODULE Webhook -------------------------------
(***************************************************************************)
(* The webhook receiver: http/webhooks.go with the ledger of Stripe events *)
(* (postgres/stripe_events.go) and the table of gateways it reads.         *)
(*                                                                         *)
(* Providers deliver events at least once and redeliver until they see a   *)
(* 2xx.  Every delivery runs in a goroutine of its own; Handlers are the   *)
(* deliveries that can be in flight together.  A handler is at             *)
(*   load      reading the body and the active gateway of the provider     *)
(*   verify    checking the signature and parsing the body                 *)
(*   record    inserting the event id in the ledger (Stripe)               *)
(*   callback  about to POST /internal/v1/payment-confirmed                *)
(*   ok, bad   about to answer 200 or 400                                  *)
(*                                                                         *)
(* The request's context dies with the client's connection: the database   *)
(* calls and the callback of that handler then fail.                       *)
(***************************************************************************)
EXTENDS WebhookEvents, GatewayTable, FiniteSets

CONSTANTS
  Handlers,            \* deliveries in flight at once
  Events,              \* the bodies providers deliver
  Secrets,             \* the values of webhook_secret and api_key
  EndpointKeys,        \* per event, the keys its deliveries are signed with
  GatewayIds,
  InitGateways,        \* the rows at the start
  CallbackConfigured,  \* API_INTERNAL_CALLBACK_URL is set
  NoRequest,
  MaxFaults,           \* bound: failures, crashes and odd deliveries
  MaxWrites            \* bound: statements an admin runs on the table

\* Rows as the webhooks see them; config is the trimmed secret of the row.
Rows == [id : GatewayIds, provider : Providers, active : BOOLEAN,
         config : Secrets \cup {Empty}, created : Nat]

Requests == [event : Events, sigs : SUBSET (Secrets \cup {Empty}), fresh : BOOLEAN]

ASSUME HandlersAssumption == IsFiniteSet(Handlers)

ASSUME EventsAssumption ==
  /\ \A e \in Events : e.provider \in Providers
  /\ \A e, f \in Events : Guarded(e) /\ Guarded(f) /\ e.id = f.id => e = f

ASSUME SecretsAssumption ==
  /\ Empty \notin Secrets
  /\ EndpointKeys \in [Events -> SUBSET Secrets]

ASSUME TableAssumption ==
  /\ InitGateways \in SUBSET Rows
  /\ CallbackConfigured \in BOOLEAN

ASSUME BoundsAssumption == MaxFaults \in Nat /\ MaxWrites \in Nat

ASSUME NoRequestAssumption == NoRequest \notin Requests

VARIABLES
  pc, req, secret, open,      \* the handlers: step, request, secret read, connection
  gateways, processed,        \* the database: payment_gateways, the ledger's events
  acked,                      \* events the provider has seen a 2xx for
  confirmed,                  \* events the monolith has answered 2xx for
  faults, writes,             \* how much of the bounds is used
  (* history, read by no action *)
  posted,                     \* per event, callbacks sent
  lost,                       \* events of which a callback failed
  claimed,                    \* events some handler inserted, and was told so
  outages,                    \* per event, inserts that ended in an error
  interrupted,                \* events an attempt at which was cut short
  everActive                  \* pairs provider, secret that have been active

vars == <<pc, req, secret, open, gateways, processed, acked, confirmed, faults,
          writes, posted, lost, claimed, outages, interrupted, everActive>>

ActivePairs(table) == {<<g.provider, g.config>> : g \in {r \in table : r.active}}

Idle(h) == pc[h] = "idle"

InFlight(e) == {h \in Handlers : ~Idle(h) /\ req[h].event = e}

\* A failure, a crash or an odd delivery, while the bound allows it.
Fault == faults < MaxFaults /\ faults' = faults + 1

Init ==
  /\ pc = [h \in Handlers |-> "idle"]
  /\ req = [h \in Handlers |-> NoRequest]
  /\ secret = [h \in Handlers |-> Empty]
  /\ open = [h \in Handlers |-> TRUE]
  /\ gateways = InitGateways
  /\ processed = {}
  /\ acked = {}
  /\ confirmed = {}
  /\ faults = 0
  /\ writes = 0
  /\ posted = [e \in Events |-> 0]
  /\ lost = {}
  /\ claimed = {}
  /\ outages = [e \in Events |-> 0]
  /\ interrupted = {}
  /\ everActive = ActivePairs(InitGateways)

-----------------------------------------------------------------------------
(* The providers *)

Genuine(e) == [event |-> e, sigs |-> EndpointKeys[e], fresh |-> TRUE]

Receive(h, d) ==
  /\ Idle(h)
  /\ pc' = [pc EXCEPT ![h] = "load"]
  /\ req' = [req EXCEPT ![h] = d]
  /\ UNCHANGED <<secret, open, gateways, processed, acked, confirmed, writes,
                 posted, lost, claimed, outages, interrupted, everActive>>

\* The first delivery of an event, or a retry after the last one was not a 2xx.
Deliver(h, e) ==
  /\ e \notin acked
  /\ InFlight(e) = {}
  /\ Receive(h, Genuine(e))
  /\ UNCHANGED faults

\* A delivery that overlaps another one (the provider timed out), or that
\* comes although the event was acknowledged.
DeliverTwice(h, e) ==
  /\ e \in acked \/ InFlight(e) # {}
  /\ Receive(h, Genuine(e))
  /\ Fault

\* A delivery late in the network, or signed for another endpoint.
DeliverMisSigned(h, e, sigs, fresh) ==
  /\ [event |-> e, sigs |-> sigs, fresh |-> fresh] # Genuine(e)
  /\ Receive(h, [event |-> e, sigs |-> sigs, fresh |-> fresh])
  /\ Fault

-----------------------------------------------------------------------------
(* The handlers *)

Goto(h, step) == pc' = [pc EXCEPT ![h] = step]

\* io.ReadAll and GetActiveByProvider; any error, or no row, is a 400.
LoadGateway(h) ==
  /\ pc[h] = "load"
  /\ \/ /\ open[h]
        /\ \E g \in SelectActiveByProvider(gateways, req[h].event.provider) :
             secret' = [secret EXCEPT ![h] = g.config]
        /\ Goto(h, "verify")
        /\ UNCHANGED faults
     \/ /\ SelectActiveByProvider(gateways, req[h].event.provider) = {} \/ ~open[h]
        /\ Goto(h, "bad")
        /\ UNCHANGED <<secret, faults>>
     \/ /\ open[h]
        /\ Fault
        /\ Goto(h, "bad")
        /\ UNCHANGED secret
  /\ UNCHANGED <<req, open, gateways, writes, processed, acked, confirmed, posted,
                 lost, claimed, outages, interrupted, everActive>>

\* Where a handler goes once the ledger, if any, has let it through.
AfterLedger(e) == IF IsPaid(e) THEN "callback" ELSE "ok"

Authenticate(h) ==
  LET e == req[h].event IN
  /\ pc[h] = "verify"
  /\ \/ /\ Verify(req[h], secret[h]) /\ Parses(e)
        /\ Goto(h, IF Guarded(e) THEN "record" ELSE AfterLedger(e))
     \/ /\ ~(Verify(req[h], secret[h]) /\ Parses(e))
        /\ Goto(h, "bad")
  /\ UNCHANGED <<req, secret, open, gateways, writes, processed, acked, confirmed,
                 faults, posted, lost, claimed, outages, interrupted, everActive>>

\* Mutant: a replay is called back again.
AfterRecord_ReplayGoesOn(e, outcome) == AfterLedger(e)

\* Mutant: inserted is tested before err, and false is taken for a replay.
AfterRecord_ErrorIsReplay(e, outcome) ==
  IF outcome = "inserted" THEN AfterLedger(e) ELSE "ok"

\* A replay is answered 200 "duplicate"; after an error the handler goes on.
AfterRecord(e, outcome) == IF outcome = "duplicate" THEN "ok" ELSE AfterLedger(e)

\* INSERT ... ON CONFLICT DO NOTHING affected one row: the claim is ours.
RecordInserted(h) ==
  LET e == req[h].event IN
  /\ open[h]
  /\ e \notin processed
  /\ processed' = processed \cup {e}
  /\ claimed' = claimed \cup {e}
  /\ Goto(h, AfterRecord(e, "inserted"))
  /\ UNCHANGED <<outages, faults>>

\* It affected none.
RecordDuplicate(h) ==
  /\ open[h]
  /\ req[h].event \in processed
  /\ Goto(h, AfterRecord(req[h].event, "duplicate"))
  /\ UNCHANGED <<processed, claimed, outages, faults>>

\* The database failed, perhaps after it committed, or the context is dead and
\* nothing is sent to it.
RecordFailed(h) ==
  LET e == req[h].event IN
  /\ \/ /\ open[h]
        /\ Fault
        /\ processed' \in {processed, processed \cup {e}}
     \/ /\ ~open[h]
        /\ UNCHANGED <<faults, processed>>
  /\ outages' = [outages EXCEPT ![e] = @ + 1]
  /\ Goto(h, AfterRecord(e, "error"))
  /\ UNCHANGED claimed

Record(h) ==
  /\ pc[h] = "record"
  /\ RecordInserted(h) \/ RecordDuplicate(h) \/ RecordFailed(h)
  /\ UNCHANGED <<req, secret, open, gateways, writes, acked, confirmed, posted, lost,
                 interrupted, everActive>>

\* The callback is skipped without a URL or an order, is not sent on a dead
\* context, and otherwise is sent once.  An answer other than 2xx, or none in
\* five seconds, is only logged.
PostCallback(h) ==
  LET e == req[h].event
      sends == CallbackConfigured /\ OrderID(e) # Empty /\ open[h] IN
  /\ pc[h] = "callback"
  /\ \/ /\ sends
        /\ posted' = [posted EXCEPT ![e] = @ + 1]
        /\ \/ /\ confirmed' = confirmed \cup {e}
              /\ UNCHANGED <<lost, faults>>
           \/ /\ Fault
              /\ lost' = lost \cup {e}
              /\ UNCHANGED confirmed
     \/ /\ ~sends
        /\ UNCHANGED <<posted, confirmed, lost, faults>>
  /\ Goto(h, "ok")
  /\ UNCHANGED <<req, secret, open, gateways, writes, processed, acked, claimed,
                 outages, interrupted, everActive>>

\* Mutant: every answer is a 200.
Acknowledges_Always(h) == open[h]

\* Mutant: a payment that was called back is answered with an error.
Acknowledges_Unpaid(h) == pc[h] = "ok" /\ open[h] /\ ~IsPaid(req[h].event)

\* A 2xx, and the connection it is written to is open.
Acknowledges(h) == pc[h] = "ok" /\ open[h]

\* Mutant: the slots keep the requests they had.
Release_KeepsRequest(hs) ==
  /\ pc' = [h \in Handlers |-> IF h \in hs THEN "idle" ELSE pc[h]]
  /\ UNCHANGED <<req, secret, open>>

\* The goroutines of hs end.
Release(hs) ==
  /\ pc' = [h \in Handlers |-> IF h \in hs THEN "idle" ELSE pc[h]]
  /\ req' = [h \in Handlers |-> IF h \in hs THEN NoRequest ELSE req[h]]
  /\ secret' = [h \in Handlers |-> IF h \in hs THEN Empty ELSE secret[h]]
  /\ open' = [h \in Handlers |-> h \in hs \/ open[h]]

Reply(h) ==
  /\ pc[h] \in {"ok", "bad"}
  /\ acked' = IF Acknowledges(h) THEN acked \cup {req[h].event} ELSE acked
  /\ Release({h})
  /\ UNCHANGED <<gateways, writes, processed, confirmed, faults, posted, lost, claimed,
                 outages, interrupted, everActive>>

HandlerStep(h) ==
  LoadGateway(h) \/ Authenticate(h) \/ Record(h) \/ PostCallback(h) \/ Reply(h)

-----------------------------------------------------------------------------
(* What can go wrong around the handlers *)

\* Inserts under way commit or not when their handlers are cut short.
CommitSome(hs) ==
  \E S \in SUBSET {req[h].event : h \in {i \in hs : pc[i] = "record"}} :
    processed' = processed \cup S

\* The events of hs whose handlers may hold the claim without having called back.
CutShort(hs) == {req[h].event : h \in {i \in hs : pc[i] \in {"record", "callback"}}}

\* The provider gives up on the connection: the context is cancelled.
Disconnect(h) ==
  /\ ~Idle(h) /\ open[h]
  /\ Fault
  /\ open' = [open EXCEPT ![h] = FALSE]
  /\ CommitSome({h})
  /\ interrupted' = interrupted \cup CutShort({h})
  /\ UNCHANGED <<pc, req, secret, gateways, writes, acked, confirmed, posted, lost,
                 claimed, outages, everActive>>

\* The process dies with its handlers.
Crash ==
  /\ \E h \in Handlers : ~Idle(h)
  /\ Fault
  /\ CommitSome(Handlers)
  /\ interrupted' = interrupted \cup CutShort(Handlers)
  /\ Release(Handlers)
  /\ UNCHANGED <<gateways, writes, acked, confirmed, posted, lost, claimed, outages,
                 everActive>>

-----------------------------------------------------------------------------
(* The statements the gateway CRUD, and the monolith that shares the table, *)
(* run on payment_gateways.                                                 *)

Write(table) ==
  /\ writes < MaxWrites
  /\ writes' = writes + 1
  /\ gateways' = table
  /\ everActive' = everActive \cup ActivePairs(table)
  /\ UNCHANGED <<pc, req, secret, open, processed, acked, confirmed, faults, posted,
                 lost, claimed, outages, interrupted>>

\* created_at grows with every insert; the rows of Init have 0.
GatewayInsert ==
  \E id \in GatewayIds \ IdsOf(gateways), p \in Providers, a \in BOOLEAN,
     s \in Secrets \cup {Empty} :
    Write(InsertRow(gateways, [id |-> id, provider |-> p, active |-> a,
                               config |-> s, created |-> writes + 1]))

GatewayUpdate ==
  \E g \in gateways, p \in Providers, a \in BOOLEAN, s \in Secrets \cup {Empty} :
    Write(UpdateRow(gateways, [g EXCEPT !.provider = p, !.active = a, !.config = s]))

GatewayDelete == \E g \in gateways : Write(DeleteRow(gateways, g.id))

GatewayWrite == GatewayInsert \/ GatewayUpdate \/ GatewayDelete

-----------------------------------------------------------------------------
Next ==
  \/ \E h \in Handlers :
       \/ HandlerStep(h)
       \/ Disconnect(h)
       \/ \E e \in Events :
            \/ Deliver(h, e)
            \/ DeliverTwice(h, e)
            \/ \E sigs \in SUBSET (Secrets \cup {Empty}), fresh \in BOOLEAN :
                 DeliverMisSigned(h, e, sigs, fresh)
  \/ Crash
  \/ GatewayWrite

Spec == Init /\ [][Next]_vars

\* Goroutines run, and a provider retries what it has not seen a 2xx for.
Fairness ==
  /\ \A h \in Handlers : WF_vars(HandlerStep(h))
  /\ \A e \in Events : SF_vars(\E h \in Handlers : Deliver(h, e))

FairSpec == Spec /\ Fairness

-----------------------------------------------------------------------------
(* Properties *)

\* The variables have their types; a handler at rest holds nothing, and one
\* at work holds a request (stripeWebhookHandler and the other three).
TypeOK ==
  /\ pc \in [Handlers -> {"idle", "load", "verify", "record", "callback", "ok", "bad"}]
  /\ req \in [Handlers -> Requests \cup {NoRequest}]
  /\ secret \in [Handlers -> Secrets \cup {Empty}]
  /\ open \in [Handlers -> BOOLEAN]
  /\ gateways \in SUBSET Rows
  /\ processed \in SUBSET Events
  /\ acked \in SUBSET Events
  /\ confirmed \in SUBSET Events
  /\ lost \in SUBSET Events
  /\ faults \in 0..MaxFaults
  /\ writes \in 0..MaxWrites
  /\ posted \in [Events -> Nat]
  /\ claimed \in SUBSET Events
  /\ outages \in [Events -> Nat]
  /\ interrupted \in SUBSET Events
  /\ everActive \in SUBSET (Providers \X (Secrets \cup {Empty}))
  /\ \A h \in Handlers : req[h] = NoRequest <=> Idle(h)

\* The monolith has to hear of this event.
Owed(e) == IsPaid(e) /\ OrderID(e) # Empty /\ CallbackConfigured

\* Handlers between the ledger and the callback for an event.
Pending(e) == {h \in Handlers : pc[h] = "callback" /\ req[h].event = e}

\* The guard of the ledger: however deliveries overlap, are repeated, or are
\* cut by crashes, a Stripe event is called back at most once, and once more
\* for each insert that ended in an error.
NoDoubleFire ==
  \A e \in Events : Guarded(e) => posted[e] <= 1 + outages[e]

\* What the guard of the ledger keeps: a callback, sent or still to be sent, is
\* paid for by the one claim of its event or by an insert that failed.
Budget(e) == (IF e \in claimed THEN 1 ELSE 0) + outages[e]

FireBudget ==
  /\ claimed \subseteq processed
  /\ \A e \in Events :
       Guarded(e) => posted[e] + Cardinality(Pending(e)) <= Budget(e)

\* A provider that was told 2xx never redelivers, so of a paid event it was told
\* so for, the monolith has confirmed a callback, or one went wrong and is in the
\* log.  Only a Stripe event can be an exception, and then its claimant is still
\* at work or an attempt was interrupted.
NoSilentLoss ==
  \A e \in acked :
    Owed(e) /\ e \notin confirmed =>
      \/ e \in lost
      \/ Guarded(e) /\ (Pending(e) # {} \/ e \in interrupted)

\* The providers without a ledger too: a callback is repeated only at the price
\* of a failure, a crash or an odd delivery, each of which repeats one at most.
RepeatsPaidFor == \A e \in Events : posted[e] <= 1 + faults

\* Why that is so: handlers that can still call back, or whose answer will not
\* reach the provider, are chances for one more callback, and so is the delivery
\* the provider has yet to make.
Chances(e) == {h \in InFlight(e) : ~Acknowledges(h)}

Due(e) == IF e \notin acked /\ InFlight(e) = {} THEN 1 ELSE 0

RepeatBudget == \A e \in Events : posted[e] + Cardinality(Chances(e)) + Due(e) <= 1 + faults

\* What is called back: nothing but bodies that parse and that the monolith has to
\* hear of, and as long as nothing failed each of those the provider was told 200
\* for exactly once, whichever provider and whatever is written to the table.
CalledBackExactly ==
  /\ \A e \in Events : posted[e] > 0 => Owed(e) /\ Parses(e)
  /\ faults = 0 => \A e \in acked : Owed(e) => posted[e] = 1

\* Why nothing is lost silently.  A ledger entry without a callback has an open
\* handler about to send it, or an attempt that was interrupted; an answer of 200
\* without a callback rests on a ledger entry; and whatever is in the ledger, or
\* past it, was claimed, was let through by an error, or was interrupted.
Unsent(e) == Owed(e) /\ e \notin confirmed \cup lost

TakenOver(e) == e \in claimed \/ outages[e] > 0 \/ e \in interrupted

LedgerAccounts ==
  /\ \A h \in Handlers : pc[h] = "record" => Guarded(req[h].event)
  /\ \A e \in processed : Guarded(e) /\ TakenOver(e)
  /\ \A e \in processed :
       Unsent(e) => e \in interrupted \/ \E h \in Pending(e) : open[h]
  /\ \A h \in Handlers :
       pc[h] = "ok" /\ open[h] /\ Unsent(req[h].event) => req[h].event \in processed
  /\ \A h \in Handlers :
       pc[h] \in {"callback", "ok"} /\ Guarded(req[h].event) => TakenOver(req[h].event)
  /\ \A e \in acked : Unsent(e) => e \in processed

\* A callback is sent only for a delivery signed with a secret that was, at
\* some time, the secret of an active gateway of the same provider: a rotation,
\* a deactivation or a row without a secret never opens the door to others.
Vouched(d) == \E s \in d.sigs \ {Empty} : <<d.event.provider, s>> \in everActive

AuthenticCallbacks ==
  [][\A h \in Handlers :
       posted # posted' /\ pc[h] = "callback" /\ pc'[h] = "ok"
         => Vouched(req[h])]_vars

\* Why that is so: the secret a handler has read was active when it read it,
\* and what has passed the signature check was signed with such a secret.
SecretsVouched ==
  /\ ActivePairs(gateways) \subseteq everActive
  /\ \A h \in Handlers :
       pc[h] = "verify" => <<req[h].event.provider, secret[h]>> \in everActive
  /\ \A h \in Handlers : pc[h] \in {"record", "callback"} => Vouched(req[h])

\* The detailed receiver implements the promise of PaymentNotice.
GuardedEvents == {e \in Events : Guarded(e)}

Notice == INSTANCE PaymentNotice WITH
  Events <- GuardedEvents,
  claimed <- claimed,
  outages <- [e \in GuardedEvents |-> outages[e]],
  interrupted <- interrupted \cap GuardedEvents,
  notices <- [e \in GuardedEvents |-> posted[e]],
  closed <- acked \cap GuardedEvents

NoticeSpec == Notice!Spec

\* The gateway the handlers would read accepts the provider's own deliveries.
SecretInPlace(e) ==
  LET candidates == SelectActiveByProvider(gateways, e.provider) IN
  candidates # {} /\ \A g \in candidates : Verify(Genuine(e), g.config)

\* When the provider's secret ends up in place, the monolith hears of every paid
\* event, unless a callback failed or an attempt at it was interrupted.
PaidEventuallyPosted ==
  \A e \in Events :
    Owed(e) /\ Parses(e) =>
      (<>[]SecretInPlace(e) => <>(e \in confirmed \cup lost \cup interrupted))

-----------------------------------------------------------------------------
(* What comments of the code say and the code does not do *)

\* webhooks.go says of an insert that failed that the provider redelivers and
\* the next delivery takes the lock, that is, writes the event to the ledger.
NextDeliveryTakesTheLock ==
  \A e \in Events : outages[e] > 0 ~> e \in processed

=============================================================================
