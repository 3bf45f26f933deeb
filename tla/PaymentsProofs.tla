---------------------------- MODULE PaymentsProofs ----------------------------
(***************************************************************************)
(* Proofs about Payments, for every number of requests and deliveries in   *)
(* flight, every set of orders, secrets, rows and asks, and every value of *)
(* the bounds: what is proved of Checkout and of Webhook holds of the      *)
(* service made of both, and together they keep the promise of PaidOrders. *)
(*                                                                         *)
(* CP and WP are the proofs of the two modules, instantiated as Payments   *)
(* instantiates the modules themselves: C!X and CP!X have one definition,  *)
(* and so have W!X and WP!X, which is all that the lemmas about the parts  *)
(* say.                                                                    *)
(***************************************************************************)
EXTENDS Payments, FiniteSetTheorems, TLAPS

CP == INSTANCE CheckoutProofs WITH
  Handlers <- Chargers, pc <- charging, everActive <- everCharged,
  GatewayVersions <- StripeRows, CurrencyVersions <- {}, PlanVersions <- {},
  InitCurrencies <- {}, InitPlan <- Nil, Displays <- {}, Countries <- {},
  OtherCharges <- Asks

WP == INSTANCE WebhookProofs WITH
  Handlers <- Receivers, pc <- delivering, gateways <- View(gateways),
  Events <- Payments, EndpointKeys <- [e \in Payments |-> {e.account}],
  GatewayIds <- C!IdsOf(StripeRows \cup InitGateways),
  InitGateways <- View(InitGateways), CallbackConfigured <- TRUE

LEMMA SameFiniteSets ==
  ASSUME NEW S
  PROVE  /\ WP!IsFiniteSet(S) <=> IsFiniteSet(S)
         /\ WP!Cardinality(S) = Cardinality(S)
  BY DEF IsFiniteSet, WP!IsFiniteSet, Cardinality, WP!Cardinality

-----------------------------------------------------------------------------
(* The checkout *)

\* In the service as modelled every request of the checkout is a charge.
NoListing == \A h \in Chargers : charging[h] \notin CP!Listing

LEMMA CheckoutSteps ==
  ASSUME NEW h \in Chargers, C!HandlerStep(h), NoListing
  PROVE  CP!HandlerStep(h)
  <1>1. ASSUME NEW p, NEW cur PROVE C!AmountFor(p, cur) = CP!AmountFor(p, cur)
    <2>1. C!Pow10 = CP!Pow10
      BY DEF C!Pow10, CP!Pow10
    <2>2. QED
      BY <2>1 DEF C!AmountFor, CP!AmountFor
  <1>2. ASSUME NEW row, NEW pay PROVE C!PickCurrency(row, pay) = CP!PickCurrency(row, pay)
    BY DEF C!PickCurrency, CP!PickCurrency, C!GwAccepts, CP!GwAccepts, C!Contains,
           CP!Contains, C!Blank, CP!Blank
  <1>3. ASSUME C!ReadGateway(h) PROVE CP!ReadGateway(h)
    BY <1>3 DEF
       C!ReadGateway, CP!ReadGateway, C!SelectByID, CP!SelectByID,
       C!Usable, CP!Usable, C!Goto, CP!Goto, C!Refuse, CP!Refuse,
       C!ReadFails, CP!ReadFails, C!Local, CP!Local, C!Active,
       CP!Active, C!Fault, CP!Fault, C!tables, CP!tables, C!providers,
       CP!providers, C!monolith, CP!monolith
  <1>4. ASSUME C!ReadPrices(h) PROVE CP!ReadPrices(h)
    BY <1>4, <1>1, <1>2 DEF
       C!ReadPrices, CP!ReadPrices, C!Blank, CP!Blank, C!Goto, CP!Goto,
       C!Refuse, CP!Refuse, C!ReadFails, CP!ReadFails, C!Local,
       CP!Local, C!Fault, CP!Fault, C!tables, CP!tables, C!providers,
       CP!providers, C!monolith, CP!monolith
  <1>5. ASSUME C!ReadCurrency(h) PROVE CP!ReadCurrency(h)
    BY <1>5, <1>1, <1>2 DEF
       C!ReadCurrency, CP!ReadCurrency, C!GetByCode, CP!GetByCode,
       C!Keep, CP!Keep, C!Goto, CP!Goto, C!Refuse, CP!Refuse, C!Fault,
       CP!Fault, C!Local, CP!Local, C!tables, CP!tables, C!providers,
       CP!providers, C!monolith, CP!monolith
  <1>6. ASSUME C!CreateCharge(h) PROVE CP!CreateCharge(h)
    BY <1>6 DEF
       C!CreateCharge, CP!CreateCharge, C!AdapterAccepts,
       CP!AdapterAccepts, C!Registry, CP!Registry, C!Goto, CP!Goto,
       C!AutomaticProviders, CP!AutomaticProviders, C!CallOf,
       CP!CallOf, C!tables, CP!tables, C!monolith, CP!monolith,
       C!ValidProviders, CP!ValidProviders, C!BilledCurrency,
       CP!BilledCurrency
  <1>7. ASSUME C!ReceiveAnswer(h) PROVE CP!ReceiveAnswer(h)
    BY <1>7 DEF
       C!ReceiveAnswer, CP!ReceiveAnswer, C!AnswersTo, CP!AnswersTo,
       C!Keep, CP!Keep, C!Reference, CP!Reference, C!Goto, CP!Goto,
       C!Local, CP!Local, C!tables, CP!tables, C!providers,
       CP!providers, C!monolith, CP!monolith
  <1>8. ASSUME C!GiveUp(h) PROVE CP!GiveUp(h)
    BY <1>8 DEF
       C!GiveUp, CP!GiveUp, C!Goto, CP!Goto, C!tables, CP!tables,
       C!providers, CP!providers, C!monolith, CP!monolith
  <1>9. ASSUME C!Finish(h) PROVE CP!Finish(h)
    BY <1>9 DEF
       C!Finish, CP!Finish, C!Answers, CP!Answers, C!KeptCards,
       CP!KeptCards, C!KeptRefs, CP!KeptRefs, C!Release, CP!Release,
       C!tables, CP!tables, C!providers, CP!providers, C!NoJob,
       CP!NoJob, C!NothingRead, CP!NothingRead
  <1>10. QED
    BY <1>3, <1>4, <1>5, <1>6, <1>7, <1>8, <1>9 DEF
       C!HandlerStep, CP!HandlerStep, NoListing, CP!Listing,
       C!ReadPlan, C!ReadDisplay, C!ReadSettle, C!ListGateways, C!BuildCard, C!AllCards

LEMMA CheckoutRequests ==
  ASSUME NEW h
  PROVE  /\ \A o : C!BeginCharge(h, o) => CP!BeginCharge(h, o)
         /\ C!Disconnect(h) => CP!Disconnect(h)
  <1>1. ASSUME NEW o, C!BeginCharge(h, o) PROVE CP!BeginCharge(h, o)
    BY <1>1 DEF
       C!BeginCharge, CP!BeginCharge, C!FromCard, CP!FromCard, C!Begin, CP!Begin,
       C!Idle, CP!Idle, C!Goto, CP!Goto, C!tables, CP!tables, C!providers,
       CP!providers
  <1>2. ASSUME C!Disconnect(h) PROVE CP!Disconnect(h)
    BY <1>2 DEF
       C!Disconnect, CP!Disconnect, C!Idle, CP!Idle, C!Stop, CP!Stop, C!Fault,
       CP!Fault, C!Release, CP!Release, C!tables, CP!tables, C!providers,
       CP!providers, C!monolith, CP!monolith, C!NoJob, CP!NoJob, C!NothingRead,
       CP!NothingRead
  <1>3. QED
    BY <1>1, <1>2

LEMMA ProviderSteps ==
  ASSUME NEW c
  PROVE  /\ C!ProviderCreates(c) => CP!ProviderCreates(c)
         /\ C!ProviderRefuses(c) => CP!ProviderRefuses(c)
         /\ C!ProviderDeclines(c) => CP!ProviderDeclines(c)
  <1>1. ASSUME C!ProviderCreates(c) PROVE CP!ProviderCreates(c)
    BY <1>1 DEF
       C!ProviderCreates, CP!ProviderCreates, C!tables, CP!tables, C!monolith,
       CP!monolith
  <1>2. ASSUME C!ProviderRefuses(c) PROVE CP!ProviderRefuses(c)
    BY <1>2 DEF
       C!ProviderRefuses, CP!ProviderRefuses, C!Answered, CP!Answered, C!tables,
       CP!tables, C!monolith, CP!monolith
  <1>3. ASSUME C!ProviderDeclines(c) PROVE CP!ProviderDeclines(c)
    BY <1>3 DEF
       C!ProviderDeclines, CP!ProviderDeclines, C!Answered, CP!Answered,
       C!tables, CP!tables, C!monolith, CP!monolith
  <1>4. QED
    BY <1>1, <1>2, <1>3

LEMMA CheckoutAround ==
  /\ C!Crash => CP!Crash
  /\ C!WriteGateway => CP!WriteGateway
  /\ C!Init => CP!Init
  <1>1. C!Crash => CP!Crash
    BY DEF
       C!Crash, CP!Crash, C!Stop, CP!Stop, C!Idle, CP!Idle, C!Fault, CP!Fault,
       C!Release, CP!Release, C!tables, CP!tables, C!providers, CP!providers,
       C!monolith, CP!monolith, C!NoJob, CP!NoJob, C!NothingRead, CP!NothingRead
  <1>2. C!WriteGateway => CP!WriteGateway
    BY DEF
       C!WriteGateway, CP!WriteGateway, C!IdsOf, CP!IdsOf, C!UpdateRow,
       CP!UpdateRow, C!InsertRow, CP!InsertRow, C!DeleteRow, CP!DeleteRow,
       C!Write, CP!Write, C!Active, CP!Active, C!providers, CP!providers,
       C!monolith, CP!monolith
  <1>3. C!Init => CP!Init
    BY DEF
       C!Init, CP!Init, C!NoJob, CP!NoJob, C!NothingRead, CP!NothingRead,
       C!Active, CP!Active
  <1>4. QED
    BY <1>1, <1>2, <1>3

\* The proofs' assumptions on the constants of Checkout follow from those of Payments.
LEMMA CheckoutInvariant ==
  /\ C!Init => CP!Inv
  /\ CP!Inv /\ [CP!OpenNext]_(CP!vars) => CP!Inv'
  BY CP!Initially, CP!Invariance, CheckoutAround, ValuesAssumption, AsksAssumption,
     RowsAssumption, KeysAssumption

-----------------------------------------------------------------------------
(* The receiver of webhooks *)

LEMMA ReceiverSteps ==
  ASSUME NEW h \in Receivers
  PROVE  /\ W!HandlerStep(h) => WP!HandlerStep(h)
         /\ W!Disconnect(h) => WP!Disconnect(h)
  <1>1. W!LoadGateway(h) => WP!LoadGateway(h)
    BY DEF
       W!LoadGateway, WP!LoadGateway, W!SelectActiveByProvider,
       WP!SelectActiveByProvider, W!Goto, WP!Goto, W!Fault, WP!Fault, W!ActiveOf,
       WP!ActiveOf, View
  <1>2. W!Authenticate(h) => WP!Authenticate(h)
    BY DEF
       W!Authenticate, WP!Authenticate, W!Verify, WP!Verify, W!Parses, WP!Parses,
       W!Goto, WP!Goto, W!Guarded, WP!Guarded, W!AfterLedger, WP!AfterLedger,
       W!VerifyStripeWebhook, WP!VerifyStripeWebhook, W!VerifyHeleketWebhook,
       WP!VerifyHeleketWebhook, W!VerifyWooviWebhook, WP!VerifyWooviWebhook,
       W!VerifyAbacatePayWebhook, WP!VerifyAbacatePayWebhook, W!ParseStripeEvent,
       WP!ParseStripeEvent, W!ParseHeleketEvent, WP!ParseHeleketEvent,
       W!ParseWooviEvent, WP!ParseWooviEvent, W!ParseAbacatePayEvent,
       WP!ParseAbacatePayEvent, W!Empty, WP!Empty, W!IsPaid, WP!IsPaid,
       W!StripeIsPaid, WP!StripeIsPaid, W!HeleketIsPaid, WP!HeleketIsPaid,
       W!WooviIsPaid, WP!WooviIsPaid, W!AbacatePayIsPaid, WP!AbacatePayIsPaid,
       View
  <1>3. W!Record(h) => WP!Record(h)
    BY DEF
       W!Record, WP!Record, W!RecordInserted, WP!RecordInserted,
       W!RecordDuplicate, WP!RecordDuplicate, W!RecordFailed, WP!RecordFailed,
       W!Goto, WP!Goto, W!AfterRecord, WP!AfterRecord, W!Fault, WP!Fault,
       W!AfterLedger, WP!AfterLedger, W!IsPaid, WP!IsPaid, W!StripeIsPaid,
       WP!StripeIsPaid, W!HeleketIsPaid, WP!HeleketIsPaid, W!WooviIsPaid,
       WP!WooviIsPaid, W!AbacatePayIsPaid, WP!AbacatePayIsPaid, W!Empty,
       WP!Empty, View
  <1>4. W!PostCallback(h) => WP!PostCallback(h)
    BY DEF
       W!PostCallback, WP!PostCallback, W!OrderID, WP!OrderID, W!Empty, WP!Empty,
       W!Fault, WP!Fault, W!Goto, WP!Goto, W!StripeOrderID, WP!StripeOrderID, View
  <1>5. W!Reply(h) => WP!Reply(h)
    BY DEF
       W!Reply, WP!Reply, W!Acknowledges, WP!Acknowledges, W!Release, WP!Release,
       W!Empty, WP!Empty, View
  <1>6. W!Disconnect(h) => WP!Disconnect(h)
    BY DEF
       W!Disconnect, WP!Disconnect, W!Idle, WP!Idle, W!Fault, WP!Fault,
       W!CommitSome, WP!CommitSome, W!CutShort, WP!CutShort, View
  <1>7. QED
    BY <1>1, <1>2, <1>3, <1>4, <1>5, <1>6 DEF W!HandlerStep, WP!HandlerStep

LEMMA ReceiverArrivals ==
  ASSUME NEW h, NEW e
  PROVE  /\ W!Deliver(h, e) => WP!Deliver(h, e)
         /\ W!DeliverTwice(h, e) => WP!DeliverTwice(h, e)
  <1>1. W!Deliver(h, e) => WP!Deliver(h, e)
    BY DEF
       W!Deliver, WP!Deliver, W!InFlight, WP!InFlight, W!Receive, WP!Receive,
       W!Genuine, WP!Genuine, W!Idle, WP!Idle, View
  <1>2. W!DeliverTwice(h, e) => WP!DeliverTwice(h, e)
    BY DEF
       W!DeliverTwice, WP!DeliverTwice, W!InFlight, WP!InFlight, W!Receive,
       WP!Receive, W!Genuine, WP!Genuine, W!Fault, WP!Fault, W!Idle, WP!Idle, View
  <1>3. QED
    BY <1>1, <1>2

LEMMA ReceiverAround ==
  /\ W!Crash => WP!Crash
  /\ \A table : W!Write(table) => WP!Write(table)
  /\ W!Init => WP!Init
  <1>1. W!Crash => WP!Crash
    BY DEF
       W!Crash, WP!Crash, W!Idle, WP!Idle, W!Fault, WP!Fault, W!CommitSome,
       WP!CommitSome, W!CutShort, WP!CutShort, W!Release, WP!Release, W!Empty,
       WP!Empty, View
  <1>2. ASSUME NEW table PROVE W!Write(table) => WP!Write(table)
    BY DEF
       W!Write, WP!Write, W!ActivePairs, WP!ActivePairs, View
  <1>3. W!Init => WP!Init
    BY DEF
       W!Init, WP!Init, W!Empty, WP!Empty, W!ActivePairs, WP!ActivePairs, View
  <1>4. QED
    BY <1>1, <1>2, <1>3

LEMMA PaymentsAreStripe == \A e \in Payments : e.provider = "stripe" /\ e.account \in Secrets
  <1> TAKE e \in Payments
  <1>1. PICK n \in 0..(MaxRequests - 1), o \in Orders, k \in Secrets : e = EventOf(n, o, k)
    BY DEF Payments
  <1>2. QED
    BY <1>1 DEF EventOf

\* So do those on the constants of Webhook.
LEMMA ReceiverAssumptions ==
  /\ \A e \in Payments : e.provider \in WP!Providers
  /\ \A e, f \in Payments : WP!Guarded(e) /\ WP!Guarded(f) /\ e.id = f.id => e = f
  /\ WP!Empty \notin Secrets
  /\ [e \in Payments |-> {e.account}] \in [Payments -> SUBSET Secrets]
  /\ View(InitGateways) \in SUBSET WP!Rows
  /\ NoRequest \notin WP!Requests
  <1>1. NoRequest \notin WP!Requests
    BY ValuesAssumption DEF W!Requests, WP!Requests, W!Empty, WP!Empty
  <1>2. View(InitGateways) \in SUBSET WP!Rows
    BY RowsAssumption DEF View, WP!Rows, C!IdsOf, W!Providers, WP!Providers
  <1>3. QED
    BY <1>1, <1>2, PaymentsAreStripe, EventIdsAssumption, ValuesAssumption
       DEF WP!Providers, WP!Empty

LEMMA ReceiverInvariant ==
  /\ W!Init => WP!Inv
  /\ WP!Inv /\ [WP!OpenNext]_(WP!vars) => WP!Inv'
  BY WP!Initially, WP!Invariance, ReceiverAround, ReceiverAssumptions, SameFiniteSets,
     ValuesAssumption

-----------------------------------------------------------------------------
(* The invariant of the whole *)

PaidEvents == {PaymentOf(s) : s \in settled}

IsStripeRow(g) ==
  /\ DOMAIN g = {"id", "provider", "active", "config", "currencies", "created"}
  /\ g.id \in C!IdsOf(StripeRows \cup InitGateways)
  /\ g.provider \in WP!Providers /\ g.active \in BOOLEAN
  /\ g.config.secret \in Secrets
  /\ g.created \in Nat

\* What joins the parts: customers pay what the providers hold, and the receiver has
\* heard of nothing but what customers paid.
Linked ==
  /\ settled \subseteq sessions
  /\ \A g \in gateways \cup everCharged : IsStripeRow(g)
  /\ \A h \in Receivers : delivering[h] # "idle" => req[h].event \in PaidEvents
  /\ \A e \in Payments : posted[e] > 0 \/ outages[e] > 0 => e \in PaidEvents
  /\ claimed \subseteq PaidEvents

IInv == CP!Inv /\ WP!Inv /\ NoListing /\ Linked

\* A charge is one of an order, in an account of the service, and so is its event.
LEMMA SessionsKnown ==
  ASSUME CP!Inv, Linked, NEW s \in calls \cup sessions
  PROVE  /\ s.n \in 0..(MaxRequests - 1) /\ s.order \in Orders
         /\ s.config.secret \in Secrets
         /\ PaymentOf(s) \in Payments
  <1>1. s.n \in 0..(MaxRequests - 1) /\ s.order \in Orders
    <2>1. requests \in 0..MaxRequests
      BY DEF CP!Inv, CP!Shape
    <2>2. s.n \in 0..(requests - 1) /\ s.order \in Orders
      BY DEF CP!Inv, CP!Counted, CP!Made, CP!Numbers
    <2>3. MaxRequests \in Nat
      BY ValuesAssumption
    <2>4. QED
      BY <2>1, <2>2, <2>3
  <1>2. s.config.secret \in Secrets
    BY DEF CP!Inv, CP!Vouched, CP!SessionsVouched, Linked, IsStripeRow
  <1>3. QED
    BY <1>1, <1>2 DEF PaymentOf, Payments

LEMMA PaidKnown ==
  ASSUME CP!Inv, Linked
  PROVE  \A s \in settled : PaymentOf(s) \in Payments
  BY SessionsKnown DEF Linked

LEMMA PaidAreSessions ==
  ASSUME CP!Inv, Linked
  PROVE  /\ PaidEvents \subseteq Payments
         /\ IsFiniteSet(sessions) /\ IsFiniteSet(settled) /\ IsFiniteSet(PaidEvents)
         /\ \A s, t \in sessions : s.n = t.n => s = t
  <1>1. \A s, t \in sessions : s.n = t.n => s = t
    BY DEF CP!Inv, CP!Counted, CP!Made
  <1>2. IsFiniteSet(sessions)
    <2> DEFINE f == [s \in sessions |-> s.n]
    <2>1. f \in [sessions -> 0..(MaxRequests - 1)]
      BY SessionsKnown
    <2>2. \A s, t \in sessions : f[s] = f[t] => s = t
      BY <1>1
    <2>3. f \in Injection(sessions, 0..(MaxRequests - 1))
      BY <2>1, <2>2 DEF Injection, IsInjective
    <2>4. IsFiniteSet(0..(MaxRequests - 1))
      <3>1. MaxRequests \in Nat
        BY ValuesAssumption
      <3>2. 0 \in Int /\ MaxRequests - 1 \in Int
        BY <3>1
      <3>3. QED
        BY <3>2, FS_Interval
    <2>5. QED
      BY <2>3, <2>4, FS_Injection
  <1>3. IsFiniteSet(settled)
    BY <1>2, FS_Subset DEF Linked
  <1>4. IsFiniteSet(PaidEvents)
    <2> DEFINE f == [s \in settled |-> PaymentOf(s)]
    <2>1. f \in Surjection(settled, PaidEvents)
      BY DEF Surjection, PaidEvents
    <2>2. QED
      BY <1>3, <2>1, FS_Surjection
  <1>5. QED
    BY <1>1, <1>2, <1>3, <1>4, PaidKnown DEF PaidEvents

-----------------------------------------------------------------------------
(* A step of the service is one of each part, as a part of the service *)

LEMMA Written ==
  ASSUME \A g \in gateways : IsStripeRow(g), C!WriteGateway
  PROVE  /\ \A g \in gateways' : IsStripeRow(g)
         /\ View(gateways') \in SUBSET WP!Rows
  <1>1. ASSUME NEW g \in StripeRows PROVE IsStripeRow(g)
    BY RowsAssumption DEF IsStripeRow, C!IdsOf, W!Providers, WP!Providers
  <1>2. ASSUME NEW g \in StripeRows, NEW old \in gateways, old.id = g.id
        PROVE  IsStripeRow([g EXCEPT !.created = old.created])
    BY <1>1, <1>2 DEF IsStripeRow
  <1>3. \A g \in gateways' : IsStripeRow(g)
    <2>1. CASE \E g \in StripeRows :
                 gateways' = IF g.id \in C!IdsOf(gateways) THEN C!UpdateRow(gateways, g)
                             ELSE C!InsertRow(gateways, g)
      BY <1>1, <1>2, <2>1 DEF C!UpdateRow, C!InsertRow
    <2>2. CASE \E id \in C!IdsOf(gateways) : gateways' = C!DeleteRow(gateways, id)
      BY <2>2 DEF C!DeleteRow
    <2>3. QED
      BY <2>1, <2>2 DEF C!WriteGateway
  <1>4. ASSUME NEW g, IsStripeRow(g)
        PROVE  [id |-> g.id, provider |-> g.provider, active |-> g.active,
                created |-> g.created, config |-> g.config.secret] \in WP!Rows
    BY <1>4 DEF IsStripeRow, WP!Rows
  <1>5. QED
    BY <1>3, <1>4 DEF View

\* The steps, with what each part sees of them.
LEMMA Steps ==
  ASSUME IInv, [Next]_vars, NEW G,
         \* the checkout's
         /\ UNCHANGED <<gateways, writes, everCharged, webhookVars, settled>>
         /\ faults' \in faults..MaxFaults
         /\ CP!Next
         /\ UNCHANGED sessions \/ \E c \in calls : sessions' = sessions \cup {c}
         => G,
         \* the customers'
         \A s \in sessions \ settled :
           /\ settled' = settled \cup {s}
           /\ UNCHANGED <<gateways, faults, writes, checkoutVars, webhookVars>>
           => G,
         \* the receiver's, and deliveries to it
         \A h \in Receivers :
           /\ WP!HandlerStep(h) \/ WP!Disconnect(h)
           /\ UNCHANGED <<gateways, writes, checkoutVars, settled>>
           /\ faults' \in faults..MaxFaults
           => G,
         \A h \in Receivers, s \in settled :
           /\ WP!Deliver(h, PaymentOf(s)) \/ WP!DeliverTwice(h, PaymentOf(s))
           /\ UNCHANGED <<gateways, writes, checkoutVars, settled>>
           /\ faults' \in faults..MaxFaults
           => G,
         \* those of both
         /\ CP!WriteGateway /\ WP!Write(View(gateways'))
         /\ \A g \in gateways' : IsStripeRow(g)
         /\ View(gateways') \in SUBSET WP!Rows
         /\ UNCHANGED settled
         => G,
         /\ CP!Crash \/ UNCHANGED checkoutVars
         /\ WP!Crash
         /\ UNCHANGED <<gateways, writes, everCharged, sessions, settled>>
         /\ faults' \in faults..MaxFaults
         => G,
         UNCHANGED vars => G
  PROVE  G
  <1>1. ASSUME NEW h \in Chargers,
               \/ \E o \in Orders : CheckoutStep(C!BeginCharge(h, o))
               \/ CheckoutStep(C!HandlerStep(h))
               \/ CheckoutStep(C!Disconnect(h))
        PROVE  G
    <2>1. \/ \E o \in Orders : CP!BeginCharge(h, o)
          \/ CP!HandlerStep(h) \/ CP!Disconnect(h)
      BY <1>1, CheckoutSteps, CheckoutRequests DEF CheckoutStep, IInv
    <2>2. CP!Next
      BY <2>1 DEF CP!Next
    <2>3. UNCHANGED <<webhookVars, settled>>
      BY <1>1 DEF CheckoutStep
    <2>4. QED
      BY <2>1, <2>2, <2>3, CP!StepEffects, ValuesAssumption, AsksAssumption,
         RowsAssumption, KeysAssumption
         DEF IInv
  <1>2. ASSUME NEW c \in calls,
               CheckoutStep(C!ProviderCreates(c) \/ C!ProviderRefuses(c) \/ C!ProviderDeclines(c))
        PROVE  G
    <2>1. CP!ProviderCreates(c) \/ CP!ProviderRefuses(c) \/ CP!ProviderDeclines(c)
      BY <1>2, ProviderSteps DEF CheckoutStep
    <2>2. CP!Next
      BY <2>1 DEF CP!Next
    <2>3. UNCHANGED <<webhookVars, settled>>
      BY <1>2 DEF CheckoutStep
    <2>4. QED
      BY <2>1, <2>2, <2>3, CP!StepEffects, ValuesAssumption, AsksAssumption,
         RowsAssumption, KeysAssumption
         DEF IInv
  <1>3. CASE Settle
    BY <1>3 DEF Settle
  <1>4. ASSUME NEW s \in settled, Deliver(s) \/ DeliverTwice(s)
        PROVE  G
    <2>1. PICK h \in Receivers : WP!Deliver(h, PaymentOf(s)) \/ WP!DeliverTwice(h, PaymentOf(s))
      BY <1>4, ReceiverArrivals DEF Deliver, DeliverTwice, WebhookStep
    <2>2. UNCHANGED <<gateways, checkoutVars, settled>>
      BY <1>4 DEF Deliver, DeliverTwice, WebhookStep
    <2>3. UNCHANGED writes /\ faults' \in faults..MaxFaults
      <3>1. PaymentOf(s) \in Payments
        BY PaidKnown DEF IInv
      <3>2. QED
        BY <2>1, <3>1, WP!ArrivalEffects, ReceiverAssumptions, SameFiniteSets, ValuesAssumption
           DEF IInv, WP!Inv
    <2>4. QED
      BY <2>1, <2>2, <2>3
  <1>5. ASSUME NEW h \in Receivers,
               WebhookStep(W!HandlerStep(h)) \/ WebhookStep(W!Disconnect(h))
        PROVE  G
    <2>1. WP!HandlerStep(h) \/ WP!Disconnect(h)
      BY <1>5, ReceiverSteps DEF WebhookStep
    <2>2. UNCHANGED <<gateways, checkoutVars, settled>>
      BY <1>5 DEF WebhookStep
    <2>3. UNCHANGED writes /\ faults' \in faults..MaxFaults
      BY <2>1, WP!HandlerEffects, ReceiverAssumptions, SameFiniteSets, ValuesAssumption
         DEF IInv, WP!Inv
    <2>4. QED
      BY <2>1, <2>2, <2>3
  <1>6. CASE WriteGateway
    <2>1. CP!WriteGateway /\ WP!Write(View(gateways'))
      BY <1>6, CheckoutAround, ReceiverAround DEF WriteGateway
    <2>2. QED
      BY <1>6, <2>1, Written DEF WriteGateway, IInv, Linked
  <1>7. CASE Crash
    <2>1. CASE C!Crash /\ W!Crash
      <3>1. CP!Crash /\ WP!Crash
        BY <2>1, CheckoutAround, ReceiverAround
      <3>2. UNCHANGED <<gateways, writes, everCharged, sessions>>
        BY <3>1 DEF CP!Crash, CP!Stop, CP!tables, CP!providers
      <3>3. faults' \in faults..MaxFaults
        BY <3>1, WP!CrashEffects, ReceiverAssumptions, SameFiniteSets, ValuesAssumption
           DEF IInv, WP!Inv
      <3>4. QED
        BY <1>7, <3>1, <3>2, <3>3 DEF Crash
    <2>2. CASE C!Crash /\ UNCHANGED webhookVars
      <3>1. CP!Crash /\ CP!Next
        BY <2>2, CheckoutAround DEF CP!Next
      <3>2. UNCHANGED <<webhookVars, settled>>
        BY <1>7, <2>2 DEF Crash
      <3>3. QED
        BY <3>1, <3>2, CP!StepEffects, ValuesAssumption, AsksAssumption,
           RowsAssumption, KeysAssumption
           DEF IInv
    <2>3. CASE UNCHANGED <<gateways, checkoutVars>> /\ W!Crash
      <3>1. WP!Crash
        BY <2>3, ReceiverAround
      <3>2. UNCHANGED writes /\ faults' \in faults..MaxFaults
        BY <3>1, WP!CrashEffects, ReceiverAssumptions, SameFiniteSets, ValuesAssumption
           DEF IInv, WP!Inv
      <3>3. QED
        BY <1>7, <2>3, <3>1, <3>2 DEF Crash, checkoutVars
    <2>4. QED
      BY <1>7, <2>1, <2>2, <2>3 DEF Crash
  <1>8. QED
    BY <1>1, <1>2, <1>3, <1>4, <1>5, <1>6, <1>7 DEF Next
-----------------------------------------------------------------------------
(* The invariant *)

LEMMA Initially == Init => IInv
  <1> SUFFICES ASSUME Init PROVE IInv
    OBVIOUS
  <1>1. CP!Inv /\ WP!Inv
    BY CheckoutInvariant, ReceiverInvariant DEF Init
  <1>2. NoListing
    BY DEF Init, C!Init, NoListing, CP!Listing
  <1>3. \A g \in InitGateways : IsStripeRow(g)
    BY RowsAssumption DEF IsStripeRow, C!IdsOf, W!Providers, WP!Providers
  <1>4. Linked
    BY <1>3 DEF Init, C!Init, W!Init, C!Active, Linked
  <1>5. QED
    BY <1>1, <1>2, <1>4 DEF IInv

LEMMA NoListingKept ==
  ASSUME CP!Inv, NoListing, CP!Next
  PROVE  NoListing'
  <1>0. charging \in [Chargers -> CP!Steps]
    BY DEF CP!Inv, CP!Shape
  <1> USE DEF NoListing, CP!Listing, CP!Goto
  <1>1. ASSUME NEW h \in Chargers, NEW o \in Orders, CP!BeginCharge(h, o) PROVE NoListing'
    BY <1>0, <1>1 DEF CP!BeginCharge, CP!Begin
  <1>2. ASSUME NEW h \in Chargers, CP!HandlerStep(h) PROVE NoListing'
    <2>1. CASE CP!ReadGateway(h) \/ CP!ReadPrices(h) \/ CP!ReadCurrency(h)
      BY <1>0, <2>1 DEF CP!ReadGateway, CP!ReadPrices, CP!ReadCurrency, CP!Refuse, CP!ReadFails
    <2>2. CASE CP!CreateCharge(h) \/ CP!ReceiveAnswer(h) \/ CP!GiveUp(h)
      BY <1>0, <2>2 DEF CP!CreateCharge, CP!ReceiveAnswer, CP!GiveUp
    <2>3. CASE CP!Finish(h)
      BY <1>0, <2>3 DEF CP!Finish, CP!Release
    <2>4. QED
      BY <1>2, <2>1, <2>2, <2>3 DEF CP!HandlerStep, CP!ReadPlan, CP!ReadDisplay, CP!ReadSettle,
         CP!ListGateways, CP!BuildCard, CP!AllCards
  <1>3. ASSUME NEW hs, CP!Stop(hs) PROVE NoListing'
    BY <1>0, <1>3 DEF CP!Stop, CP!Release
  <1>4. ASSUME NEW c, CP!ProviderCreates(c) \/ CP!ProviderRefuses(c) \/ CP!ProviderDeclines(c)
        PROVE  NoListing'
    BY <1>0, <1>4 DEF CP!ProviderCreates, CP!ProviderRefuses, CP!ProviderDeclines, CP!Answered
  <1>5. CASE CP!WriteGateway \/ CP!WriteCurrency \/ CP!WritePlan
    BY <1>5 DEF CP!WriteGateway, CP!WriteCurrency, CP!WritePlan, CP!Write
  <1>6. QED
    BY <1>1, <1>2, <1>3, <1>4, <1>5 DEF CP!Next, CP!Disconnect, CP!Crash

LEMMA Invariance == IInv /\ [Next]_vars => IInv'
  <1> SUFFICES ASSUME IInv, [Next]_vars PROVE IInv'
    OBVIOUS
  <1> USE DEF IInv
  <1>0. /\ settled \subseteq sessions
        /\ \A e \in Payments : posted[e] \in Nat /\ outages[e] \in Nat
        /\ PaidEvents \subseteq Payments
    BY PaidAreSessions DEF Linked, WP!Inv, WP!TypeOK
  \* Of the parts, whichever moves.
  <1>1. ASSUME CP!Next \/ UNCHANGED CP!vars \/ CP!FaultElsewhere PROVE CP!Inv'
    BY <1>1, CheckoutInvariant DEF CP!OpenNext
  <1>2. ASSUME \/ WP!Next \/ UNCHANGED WP!vars \/ WP!FaultElsewhere
               \/ \E table \in SUBSET WP!Rows : WP!Write(table)
        PROVE  WP!Inv'
    BY <1>2, ReceiverInvariant DEF WP!OpenNext
  <1>3. ASSUME UNCHANGED <<gateways, writes, webhookVars>>, faults' \in faults..MaxFaults
        PROVE  WP!FaultElsewhere
    BY <1>3 DEF webhookVars, WP!FaultElsewhere, View
  <1>4. ASSUME UNCHANGED <<gateways, writes, checkoutVars>>, faults' \in faults..MaxFaults
        PROVE  CP!FaultElsewhere
    BY <1>4 DEF checkoutVars, CP!FaultElsewhere, CP!tables, CP!providers, CP!monolith
  <1>5. ASSUME UNCHANGED charging PROVE NoListing'
    BY <1>5 DEF NoListing, CP!Listing
  \* The checkout moves.
  <1>6. ASSUME UNCHANGED <<gateways, writes, everCharged, webhookVars, settled>>,
               faults' \in faults..MaxFaults, CP!Next,
               UNCHANGED sessions \/ \E c \in calls : sessions' = sessions \cup {c}
        PROVE  IInv'
    <2>1. CP!Inv' /\ WP!Inv' /\ NoListing'
      BY <1>1, <1>2, <1>3, <1>6, NoListingKept
    <2>2. Linked'
      BY <1>6 DEF Linked, PaidEvents, webhookVars
    <2>3. QED
      BY <2>1, <2>2
  \* A customer pays.
  <1>7. ASSUME NEW s \in sessions \ settled, settled' = settled \cup {s},
               UNCHANGED <<gateways, faults, writes, checkoutVars, webhookVars>>
        PROVE  IInv'
    <2>1. CP!Inv' /\ WP!Inv' /\ NoListing'
      BY <1>1, <1>2, <1>5, <1>7 DEF checkoutVars, webhookVars, CP!vars, WP!vars, View
    <2>2. PaidEvents \subseteq PaidEvents'
      BY <1>7 DEF PaidEvents, PaymentOf, EventOf
    <2>3. Linked'
      BY <1>7, <2>2 DEF Linked, checkoutVars, webhookVars
    <2>4. QED
      BY <2>1, <2>3
  \* The receiver moves.
  <1>8. ASSUME NEW h \in Receivers, WP!HandlerStep(h) \/ WP!Disconnect(h),
               UNCHANGED <<gateways, writes, checkoutVars, settled>>,
               faults' \in faults..MaxFaults
        PROVE  IInv'
    <2>1. WP!Next
      BY <1>8 DEF WP!Next
    <2>2. CP!Inv' /\ WP!Inv' /\ NoListing'
      BY <1>1, <1>2, <1>4, <1>5, <1>8, <2>1 DEF checkoutVars
    <2>3. Linked'
      <3>1. /\ delivering[h] # "idle" /\ req[h].event \in Payments
            /\ \A k \in Receivers :
                 delivering'[k] # "idle" => delivering[k] # "idle" /\ req'[k] = req[k]
            /\ claimed' \subseteq claimed \cup {req[h].event}
            /\ \/ UNCHANGED <<posted, outages>>
               \/ /\ posted' = [posted EXCEPT ![req[h].event] = @ + 1]
                  /\ UNCHANGED outages
               \/ /\ outages' = [outages EXCEPT ![req[h].event] = @ + 1]
                  /\ UNCHANGED posted
        BY <1>8, WP!HandlerEffects, ReceiverAssumptions, SameFiniteSets, ValuesAssumption
           DEF WP!Inv, WP!Idle
      <3>2. /\ UNCHANGED PaidEvents /\ UNCHANGED <<settled, sessions, gateways, everCharged>>
            /\ req[h].event \in PaidEvents
        BY <1>8, <3>1 DEF PaidEvents, checkoutVars, Linked
      <3>3. posted \in [Payments -> Nat] /\ outages \in [Payments -> Nat]
        BY DEF WP!Inv, WP!TypeOK
      <3>4. \A e \in Payments : posted'[e] > 0 \/ outages'[e] > 0 => e \in PaidEvents
        BY <3>1, <3>2, <3>3 DEF Linked
      <3>5. QED
        BY <3>1, <3>2, <3>4 DEF Linked
    <2>4. QED
      BY <2>2, <2>3
  <1>9. ASSUME NEW h \in Receivers, NEW s \in settled,
               WP!Deliver(h, PaymentOf(s)) \/ WP!DeliverTwice(h, PaymentOf(s)),
               UNCHANGED <<gateways, writes, checkoutVars, settled>>,
               faults' \in faults..MaxFaults
        PROVE  IInv'
    <2>1. WP!Next
      BY <1>9, PaidKnown DEF WP!Next
    <2>2. CP!Inv' /\ WP!Inv' /\ NoListing'
      BY <1>1, <1>2, <1>4, <1>5, <1>9, <2>1 DEF checkoutVars
    <2>3. Linked'
      <3>1. /\ UNCHANGED <<claimed, posted, outages>>
            /\ \A k \in Receivers : \/ delivering'[k] = delivering[k] /\ req'[k] = req[k]
                                    \/ req'[k].event = PaymentOf(s)
        BY <1>9, PaidKnown, WP!ArrivalEffects, ReceiverAssumptions, SameFiniteSets,
           ValuesAssumption DEF WP!Inv
      <3>2. UNCHANGED PaidEvents /\ UNCHANGED <<settled, sessions, gateways, everCharged>>
        BY <1>9 DEF PaidEvents, checkoutVars
      <3>3. PaymentOf(s) \in PaidEvents
        BY DEF PaidEvents
      <3>4. QED
        BY <3>1, <3>2, <3>3 DEF Linked
    <2>4. QED
      BY <2>2, <2>3
  \* Both move.
  <1>10. ASSUME CP!WriteGateway, WP!Write(View(gateways')),
                \A g \in gateways' : IsStripeRow(g), View(gateways') \in SUBSET WP!Rows,
                UNCHANGED settled
         PROVE  IInv'
    <2>1. CP!Next /\ NoListing'
      BY <1>10, NoListingKept DEF CP!Next
    <2>2. CP!Inv' /\ WP!Inv'
      BY <1>1, <1>2, <1>10, <2>1
    <2>3. Linked'
      <3>1. /\ everCharged' = everCharged \cup CP!Active(gateways')
            /\ UNCHANGED sessions
        BY <1>10 DEF CP!WriteGateway, CP!Write, CP!providers
      <3>2. UNCHANGED <<delivering, req, claimed, posted, outages>>
        BY <1>10 DEF WP!Write
      <3>3. UNCHANGED PaidEvents
        BY <1>10 DEF PaidEvents
      <3>4. QED
        BY <1>10, <3>1, <3>2, <3>3 DEF Linked, CP!Active
    <2>4. QED
      BY <2>1, <2>2, <2>3
  <1>11. ASSUME CP!Crash \/ UNCHANGED checkoutVars, WP!Crash,
                UNCHANGED <<gateways, writes, everCharged, sessions, settled>>,
                faults' \in faults..MaxFaults
         PROVE  IInv'
    <2>1. WP!Next
      BY <1>11 DEF WP!Next
    <2>2. CP!Inv' /\ NoListing'
      <3>1. CASE CP!Crash
        <4>1. CP!Next
          BY <3>1 DEF CP!Next
        <4>2. QED
          BY <1>1, <4>1, NoListingKept
      <3>2. CASE UNCHANGED checkoutVars
        BY <1>1, <1>4, <1>5, <1>11, <3>2 DEF checkoutVars
      <3>3. QED
        BY <1>11, <3>1, <3>2
    <2>3. WP!Inv'
      BY <1>2, <2>1
    <2>4. Linked'
      <3>1. /\ UNCHANGED <<claimed, posted, outages>>
            /\ \A k \in Receivers : delivering'[k] = "idle"
        BY <1>11, WP!CrashEffects, ReceiverAssumptions, SameFiniteSets, ValuesAssumption
           DEF WP!Inv
      <3>2. UNCHANGED PaidEvents
        BY <1>11 DEF PaidEvents
      <3>3. QED
        BY <1>11, <3>1, <3>2 DEF Linked
    <2>5. QED
      BY <2>2, <2>3, <2>4
  <1>12. ASSUME UNCHANGED vars PROVE IInv'
    <2>1. CP!Inv' /\ WP!Inv' /\ NoListing'
      BY <1>1, <1>2, <1>5, <1>12 DEF vars, checkoutVars, webhookVars, CP!vars, WP!vars, View
    <2>2. Linked'
      BY <1>12 DEF Linked, PaidEvents, vars, checkoutVars, webhookVars
    <2>3. QED
      BY <2>1, <2>2
  <1>13. QED
    BY <1>6, <1>7, <1>8, <1>9, <1>10, <1>11, <1>12, Steps
LEMMA IInvHolds == Spec => []IInv
  BY Initially, Invariance, PTL DEF Spec

-----------------------------------------------------------------------------
(* The refinement of PaidOrders *)

Tokens(perEvent, events) == UNION {{e} \X (1..perEvent[e]) : e \in events}

OfOrder(o) == {e \in Payments : W!OrderID(e) = o}

\* Only what was paid for counts, so what is counted is finite.
LEMMA TokensAreFinite ==
  ASSUME NEW f \in [Payments -> Nat], NEW E \in SUBSET Payments, NEW paid,
         IsFiniteSet(paid), \A e \in E : f[e] > 0 => e \in paid
  PROVE  IsFiniteSet(Tokens(f, E))
  <1> DEFINE column == [e \in paid \cap E |-> {e} \X (1..f[e])]
             columns == {column[e] : e \in paid \cap E}
  <1>1. IsFiniteSet(paid \cap E)
    BY FS_Subset
  <1>2. IsFiniteSet(columns)
    <2>1. column \in [paid \cap E -> columns]
      OBVIOUS
    <2>2. \A c \in columns : \E e \in paid \cap E : column[e] = c
      OBVIOUS
    <2> HIDE DEF column, columns
    <2>3. column \in Surjection(paid \cap E, columns)
      BY <2>1, <2>2 DEF Surjection
    <2>4. QED
      BY <1>1, <2>3, FS_Surjection
  <1>3. ASSUME NEW e \in paid \cap E PROVE IsFiniteSet(column[e])
    <2>1. IsFiniteSet(1..f[e])
      <3>1. 1 \in Int /\ f[e] \in Int
        OBVIOUS
      <3>2. QED
        BY <3>1, FS_Interval
    <2>2. IsFiniteSet({e})
      BY FS_Singleton
    <2>3. IsFiniteSet({e} \X (1..f[e]))
      BY <2>1, <2>2, FS_Product
    <2>4. QED
      BY <2>3
  <1>4. IsFiniteSet(UNION columns)
    BY <1>2, <1>3, FS_UNION
  <1>5. Tokens(f, E) = UNION columns
    <2>1. ASSUME NEW e \in E, e \notin paid PROVE {e} \X (1..f[e]) = {}
      BY <2>1
    <2>2. QED
      BY <2>1 DEF Tokens
  <1>6. QED
    BY <1>4, <1>5

LEMMA OneMore ==
  ASSUME NEW f \in [Payments -> Nat], NEW e \in Payments, NEW E \in SUBSET Payments,
         IsFiniteSet(Tokens(f, E))
  PROVE  Total([f EXCEPT ![e] = @ + 1], E) = Total(f, E) + (IF e \in E THEN 1 ELSE 0)
  <1> DEFINE g == [f EXCEPT ![e] = @ + 1]
             token == <<e, f[e] + 1>>
  <1>0. /\ Total(f, E) = Cardinality(Tokens(f, E)) /\ Total(g, E) = Cardinality(Tokens(g, E))
        /\ Cardinality(Tokens(f, E)) \in Nat
    BY FS_CardinalityType DEF Total, Tokens
  <1>1. token \notin Tokens(f, E)
    BY DEF Tokens
  <1>2. CASE e \in E
    <2>1. Tokens(g, E) = Tokens(f, E) \cup {token}
      <3>1. \A d \in E : {d} \X (1..g[d]) = IF d = e THEN ({d} \X (1..f[d])) \cup {token}
                                            ELSE {d} \X (1..f[d])
        BY Z3
      <3>2. QED
        BY <1>2, <3>1 DEF Tokens
    <2>2. QED
      <3>1. ASSUME NEW S, NEW x, IsFiniteSet(S), x \notin S
            PROVE  Cardinality(S \cup {x}) = Cardinality(S) + 1
        BY <3>1, FS_AddElement
      <3>2. Cardinality(Tokens(f, E) \cup {token}) = Cardinality(Tokens(f, E)) + 1
        <4> HIDE DEF token
        <4>1. QED
          BY <1>1, <3>1
      <3>3. QED
        BY <1>0, <1>2, <2>1, <3>2
  <1>3. CASE e \notin E
    <2>1. Tokens(g, E) = Tokens(f, E)
      <3>1. \A d \in E : {d} \X (1..g[d]) = {d} \X (1..f[d])
        BY <1>3
      <3>2. QED
        BY <3>1 DEF Tokens
    <2>2. QED
      BY <1>0, <1>3, <2>1
  <1>4. QED
    BY <1>2, <1>3

LEMMA OrderOf ==
  ASSUME NEW s, PaymentOf(s) \in Payments, s.order \in Orders
  PROVE  W!OrderID(PaymentOf(s)) = s.order
  <1>1. /\ PaymentOf(s).provider = "stripe"
        /\ PaymentOf(s).object = [payment_status |-> "paid", client_reference_id |-> s.order,
                                  metadata_order_id |-> s.order]
    BY DEF PaymentOf, EventOf
  <1>2. QED
    BY <1>1 DEF W!OrderID, W!StripeOrderID, W!Empty

\* The budget of PaidOrders: a notice is one of the claim of a paid charge, or of an outage.
LEMMA NoticesPaidFor ==
  ASSUME CP!Inv, WP!Inv, Linked, NEW o \in Orders
  PROVE  /\ IsFiniteSet(Tokens(posted, OfOrder(o))) /\ IsFiniteSet(Tokens(outages, Payments))
         /\ IsFiniteSet(Book!PaidFor(o))
         /\ Total(posted, OfOrder(o)) <= Cardinality(Book!PaidFor(o)) + Total(outages, Payments)
  <1> DEFINE E == OfOrder(o)
             K == claimed \cap E
             spent == {<<e, outages[e] + 1>> : e \in K}
             A == Tokens(posted, E)
             B == Tokens(outages, Payments)
             P == Book!PaidFor(o)
  <1>1. /\ posted \in [Payments -> Nat] /\ outages \in [Payments -> Nat]
        /\ claimed \subseteq PaidEvents /\ PaidEvents \subseteq Payments
        /\ IsFiniteSet(PaidEvents) /\ IsFiniteSet(settled)
        /\ E \subseteq Payments
    BY PaidAreSessions DEF WP!Inv, WP!TypeOK, Linked, OfOrder
  <1>2. IsFiniteSet(A) /\ IsFiniteSet(B)
    BY <1>1, TokensAreFinite DEF Linked
  <1>3. IsFiniteSet(K) /\ IsFiniteSet(spent) /\ Cardinality(spent) <= Cardinality(K)
    <2>1. IsFiniteSet(K)
      BY <1>1, FS_Subset
    <2> DEFINE f == [e \in K |-> <<e, outages[e] + 1>>]
    <2>2. f \in Surjection(K, spent)
      <3>1. f \in [K -> spent]
        OBVIOUS
      <3>2. \A c \in spent : \E e \in K : f[e] = c
        OBVIOUS
      <3> HIDE DEF f, spent
      <3>3. QED
        BY <3>1, <3>2 DEF Surjection
    <2>3. QED
      BY <2>1, <2>2, FS_Surjection
  <1>4. IsFiniteSet(P)
    <2> DEFINE f == [s \in settled |-> [n |-> s.n, order |-> s.order]]
               all == {[n |-> s.n, order |-> s.order] : s \in settled}
    <2>1. f \in [settled -> all] /\ \A c \in all : \E s \in settled : f[s] = c
      OBVIOUS
    <2>2. P \subseteq all
      BY DEF Book!PaidFor
    <2> HIDE DEF f, all
    <2>3. f \in Surjection(settled, all)
      BY <2>1 DEF Surjection
    <2>4. IsFiniteSet(all)
      BY <1>1, <2>3, FS_Surjection
    <2>5. QED
      BY <2>2, <2>4, FS_Subset
  \* Distinct events of an order are those of distinct charges.
  <1>5. Cardinality(K) <= Cardinality(P)
    <2> DEFINE of(e) == CHOOSE s \in settled : e = PaymentOf(s)
               f == [e \in K |-> [n |-> of(e).n, order |-> of(e).order]]
    <2>1. ASSUME NEW e \in K
          PROVE  of(e) \in settled /\ e = PaymentOf(of(e))
      BY <1>1 DEF PaidEvents
    <2>2. ASSUME NEW e \in K
          PROVE  of(e).order = o
      BY <2>1, OrderOf, PaidKnown, SessionsKnown DEF OfOrder, Linked
    <2>3. f \in [K -> P]
      BY <2>1, <2>2 DEF Book!PaidFor
    <2>4. \A d, e \in K : f[d] = f[e] => d = e
      BY <2>1, PaidAreSessions DEF Linked
    <2>5. f \in Injection(K, P)
      BY <2>3, <2>4 DEF Injection, IsInjective
    <2>6. QED
      BY <1>4, <2>5, FS_Injection
  <1>6. ASSUME NEW e \in Payments
        PROVE  posted[e] <= (IF e \in claimed THEN 1 ELSE 0) + outages[e]
    <2>1. IsFiniteSet(WP!Pending(e))
      BY FS_Subset, ValuesAssumption DEF WP!Pending
    <2>2. Cardinality(WP!Pending(e)) \in Nat
      BY <2>1, FS_CardinalityType
    <2>3. WP!Guarded(e)
      <3>1. e.provider = "stripe"
        BY PaymentsAreStripe
      <3>2. QED
        BY <3>1, EventIdsAssumption DEF WP!Guarded, WP!Empty
    <2>4. posted[e] + Cardinality(WP!Pending(e)) <= WP!Budget(e)
      BY <2>3, SameFiniteSets DEF WP!Inv, WP!FireBudget
    <2>5. QED
      BY <1>1, <2>2, <2>4 DEF WP!Budget
  <1>7. A \subseteq B \cup spent
    BY <1>1, <1>6 DEF Tokens
  <1>8. Cardinality(A) <= Cardinality(B) + Cardinality(spent)
    <2>1. Cardinality(A) <= Cardinality(B \cup spent) /\ IsFiniteSet(B \cup spent)
      BY <1>2, <1>3, <1>7, FS_Union, FS_Subset
    <2>2. /\ Cardinality(B \cup spent)
                = Cardinality(B) + Cardinality(spent) - Cardinality(B \cap spent)
      BY <1>2, <1>3, FS_Union
    <2>3. Cardinality(B \cap spent) \in Nat
      BY <1>2, FS_Subset, FS_CardinalityType
    <2>4. Cardinality(A) \in Nat /\ Cardinality(B) \in Nat /\ Cardinality(spent) \in Nat
      BY <1>2, <1>3, FS_CardinalityType
    <2> HIDE DEF A, B, spent
    <2>5. QED
      BY <2>1, <2>2, <2>3, <2>4
  <1>9. QED
    <2>1. Cardinality(A) \in Nat /\ Cardinality(B) \in Nat /\ Cardinality(spent) \in Nat
          /\ Cardinality(K) \in Nat /\ Cardinality(P) \in Nat
      BY <1>2, <1>3, <1>4, FS_CardinalityType
    <2>2. Total(posted, E) = Cardinality(A) /\ Total(outages, Payments) = Cardinality(B)
      BY DEF Total, Tokens
    <2>3. QED
      BY <1>2, <1>3, <1>4, <1>5, <1>8, <2>1, <2>2

\* The parts of the mapping.
Charges == {[n |-> s.n, order |-> s.order] : s \in sessions}
Paid == {[n |-> s.n, order |-> s.order] : s \in settled}
Notices == [o \in Orders |-> Total(posted, OfOrder(o))]

NoticesBounded ==
  \A o \in Orders :
    Total(posted, OfOrder(o)) <= Cardinality(Book!PaidFor(o)) + Total(outages, Payments)

LEMMA Bounded == IInv => NoticesBounded
  BY NoticesPaidFor DEF IInv, NoticesBounded

LEMMA SameBookCardinality == ASSUME NEW S PROVE Book!Cardinality(S) = Cardinality(S)
  BY DEF Cardinality, Book!Cardinality

LEMMA BookInit == Init => Book!Init
  <1> SUFFICES ASSUME Init PROVE Book!Init
    OBVIOUS
  <1>1. sessions = {} /\ settled = {} /\ \A e \in Payments : posted[e] = 0 /\ outages[e] = 0
    BY DEF Init, C!Init, W!Init
  <1>2. ASSUME NEW f, \A e \in Payments : f[e] = 0, NEW E \in SUBSET Payments
        PROVE  Total(f, E) = 0
    <2>1. UNION {{e} \X (1..f[e]) : e \in E} = {}
      BY <1>2
    <2>2. QED
      BY <2>1, FS_EmptySet DEF Total
  <1>3. \A o \in Orders : Total(posted, {e \in Payments : W!OrderID(e) = o}) = 0
    BY <1>1, <1>2
  <1>4. Total(outages, Payments) = 0
    BY <1>1, <1>2
  <1>5. QED
    BY <1>1, <1>3, <1>4 DEF Book!Init

LEMMA BookSteps == IInv /\ IInv' /\ [Next]_vars => [Book!Next]_(Book!vars)
  <1> SUFFICES ASSUME IInv, IInv', [Next]_vars PROVE [Book!Next]_(Book!vars)
    OBVIOUS
  <1>0. ASSUME UNCHANGED <<sessions, settled, posted, outages>>
        PROVE  UNCHANGED Book!vars
    BY <1>0 DEF Book!vars, Total
  <1>1. ASSUME UNCHANGED <<everCharged, webhookVars, settled>>,
               UNCHANGED sessions \/ \E c \in calls : sessions' = sessions \cup {c}
        PROVE  [Book!Next]_(Book!vars)
    <2>1. CASE UNCHANGED sessions
      BY <1>0, <1>1, <2>1 DEF webhookVars
    <2>2. ASSUME NEW c \in calls, sessions' = sessions \cup {c}
          PROVE  Book!Charge
      <3>1. c.order \in Orders /\ c.n \in 0..(MaxRequests - 1)
        BY SessionsKnown DEF IInv
      <3>2. \A s \in sessions : s.n # c.n
        BY DEF IInv, CP!Inv, CP!Counted, CP!Made
      <3>3. Charges' = Charges \cup {[n |-> c.n, order |-> c.order]}
        BY <2>2 DEF Charges
      <3>4. c.n \in (0..(MaxRequests - 1)) \ {d.n : d \in Charges}
        BY <3>1, <3>2 DEF Charges
      <3>5. UNCHANGED <<Paid, Notices, Total(outages, Payments)>>
        BY <1>1 DEF webhookVars, Paid, Notices, Total
      <3>6. QED
        BY <3>1, <3>3, <3>4, <3>5 DEF Book!Charge, Charges, Paid, Notices, OfOrder
    <2>3. QED
      BY <1>1, <2>1, <2>2 DEF Book!Next
  <1>2. ASSUME NEW s \in sessions \ settled, settled' = settled \cup {s},
               UNCHANGED <<gateways, faults, writes, checkoutVars, webhookVars>>
        PROVE  Book!Pay
    <2>1. [n |-> s.n, order |-> s.order] \in Charges \ Paid
      BY PaidAreSessions DEF IInv, Linked, Charges, Paid
    <2>2. Paid' = Paid \cup {[n |-> s.n, order |-> s.order]}
      BY <1>2 DEF Paid
    <2>3. UNCHANGED <<Charges, Notices, Total(outages, Payments)>>
      BY <1>2 DEF checkoutVars, webhookVars, Charges, Notices, Total
    <2>4. QED
      BY <2>1, <2>2, <2>3 DEF Book!Pay, Charges, Paid, Notices, OfOrder
  <1>3. ASSUME NEW h \in Receivers, WP!HandlerStep(h) \/ WP!Disconnect(h),
               UNCHANGED <<gateways, writes, checkoutVars, settled>>
        PROVE  [Book!Next]_(Book!vars)
    <2> DEFINE ev == req[h].event
               o == W!OrderID(ev)
    <2>1. /\ ev \in Payments /\ ev \in PaidEvents
          /\ \/ UNCHANGED <<posted, outages>>
             \/ posted' = [posted EXCEPT ![ev] = @ + 1] /\ UNCHANGED outages
             \/ outages' = [outages EXCEPT ![ev] = @ + 1] /\ UNCHANGED posted
      BY <1>3, WP!HandlerEffects, ReceiverAssumptions, SameFiniteSets, ValuesAssumption
         DEF IInv, WP!Inv, WP!Idle, Linked
    <2>2. UNCHANGED <<sessions, settled, Charges, Paid>>
      BY <1>3 DEF checkoutVars, Charges, Paid
    <2>3. posted \in [Payments -> Nat] /\ outages \in [Payments -> Nat]
      BY DEF IInv, WP!Inv, WP!TypeOK
    <2>4. PICK s \in settled : ev = PaymentOf(s) /\ s.order = o /\ o \in Orders
      <3>1. PICK s \in settled : ev = PaymentOf(s)
        BY <2>1 DEF PaidEvents
      <3>2. s.order \in Orders /\ PaymentOf(s) \in Payments
        BY SessionsKnown DEF IInv, Linked
      <3>3. QED
        BY <3>1, <3>2, OrderOf
    <2>5. CASE UNCHANGED <<posted, outages>>
      BY <1>0, <2>2, <2>5
    <2>6. CASE posted' = [posted EXCEPT ![ev] = @ + 1] /\ UNCHANGED outages
      <3>1. ASSUME NEW p \in Orders
            PROVE  Total(posted', OfOrder(p)) = Total(posted, OfOrder(p)) + (IF p = o THEN 1 ELSE 0)
        <4>1. OfOrder(p) \in SUBSET Payments /\ (ev \in OfOrder(p) <=> p = o)
          BY <2>1 DEF OfOrder
        <4>2. IsFiniteSet(Tokens(posted, OfOrder(p)))
          BY NoticesPaidFor DEF IInv
        <4>3. Total([posted EXCEPT ![ev] = @ + 1], OfOrder(p))
                = Total(posted, OfOrder(p)) + (IF ev \in OfOrder(p) THEN 1 ELSE 0)
          <5> HIDE DEF ev
          <5>1. QED
            BY <2>1, <2>3, <4>1, <4>2, OneMore
        <4>4. QED
          BY <2>6, <4>1, <4>3
      <3>2. Notices' = [Notices EXCEPT ![o] = @ + 1]
        <4>1. Notices' = [p \in Orders |-> Total(posted', OfOrder(p))]
          BY DEF Notices, OfOrder
        <4>2. \A p \in Orders : Notices'[p] = [Notices EXCEPT ![o] = @ + 1][p]
          <5>1. TAKE p \in Orders
          <5>2. Total(posted, OfOrder(p)) \in Nat
            BY NoticesPaidFor, FS_CardinalityType DEF IInv, Total, Tokens
          <5>3. QED
            BY <2>4, <3>1, <4>1, <5>2 DEF Notices
        <4>3. QED
          BY <4>1, <4>2 DEF Notices
      <3>3. Notices[o] < Cardinality(Book!PaidFor(o)) + Total(outages, Payments)
        <4>1. NoticesBounded'
          <5>1. IInv'
            OBVIOUS
          <5>2. QED
            BY <5>1, Bounded, PTL
        <4>2. ASSUME NEW p \in Orders
              PROVE  Total(posted', OfOrder(p))
                       <= Cardinality(Book!PaidFor(p)) + Total(outages', Payments)
          <5>1. Book!PaidFor(p)' = Book!PaidFor(p)
            BY <2>2 DEF Book!PaidFor
          <5>2. Total(posted', OfOrder(p))
                  <= Cardinality(Book!PaidFor(p)') + Total(outages', Payments)
            BY <4>1 DEF NoticesBounded, OfOrder
          <5>3. QED
            BY <5>1, <5>2
        <4>3. Total(outages', Payments) = Total(outages, Payments)
          BY <2>6
        <4>4. /\ Total(posted, OfOrder(o)) \in Nat /\ Total(outages, Payments) \in Nat
              /\ Cardinality(Book!PaidFor(o)) \in Nat
          BY <2>4, NoticesPaidFor, FS_CardinalityType DEF IInv, Total, Tokens
        <4>5. Notices[o] = Total(posted, OfOrder(o))
          BY <2>4 DEF Notices
        <4>6. QED
          BY <2>4, <3>1, <4>2, <4>3, <4>4, <4>5
      <3>4. Book!PaidFor(o) # {}
        <4>1. [n |-> s.n, order |-> s.order] \in Book!PaidFor(o)
          BY <2>4 DEF Book!PaidFor
        <4>2. QED
          BY <4>1
      <3>5. Book!Notify(o)
        BY <2>2, <2>4, <2>6, <3>2, <3>3, <3>4, SameBookCardinality
           DEF Book!Notify, Charges, Paid, Notices, OfOrder
      <3>6. QED
        BY <2>4, <3>5 DEF Book!Next
    <2>7. CASE outages' = [outages EXCEPT ![ev] = @ + 1] /\ UNCHANGED posted
      <3>1. Total(outages', Payments) = Total(outages, Payments) + 1
        <4>1. IsFiniteSet(Tokens(outages, Payments))
          BY <2>4, NoticesPaidFor DEF IInv
        <4>2. QED
          BY <2>1, <2>3, <2>7, <4>1, OneMore
      <3>2. UNCHANGED Notices
        BY <2>7 DEF Notices, Total
      <3>3. QED
        BY <2>2, <3>1, <3>2 DEF Book!Next, Book!Outage, Charges, Paid, Notices, OfOrder
    <2>8. QED
      BY <2>1, <2>5, <2>6, <2>7
  <1>4. ASSUME UNCHANGED <<sessions, settled, posted, outages>>
        PROVE  [Book!Next]_(Book!vars)
    BY <1>0, <1>4
  <1>5. ASSUME NEW h \in Receivers, NEW s \in settled,
               WP!Deliver(h, PaymentOf(s)) \/ WP!DeliverTwice(h, PaymentOf(s)),
               UNCHANGED <<gateways, writes, checkoutVars, settled>>
        PROVE  [Book!Next]_(Book!vars)
    <2>1. UNCHANGED <<posted, outages>>
      BY <1>5 DEF WP!Deliver, WP!DeliverTwice, WP!Receive
    <2>2. QED
      BY <1>4, <1>5, <2>1 DEF checkoutVars
  <1>6. ASSUME CP!WriteGateway, WP!Write(View(gateways')), UNCHANGED settled
        PROVE  [Book!Next]_(Book!vars)
    BY <1>4, <1>6 DEF CP!WriteGateway, CP!Write, CP!providers, WP!Write
  <1>7. ASSUME WP!Crash, UNCHANGED <<sessions, settled>>
        PROVE  [Book!Next]_(Book!vars)
    BY <1>4, <1>7 DEF WP!Crash
  <1>8. ASSUME UNCHANGED vars PROVE [Book!Next]_(Book!vars)
    BY <1>4, <1>8 DEF vars, checkoutVars, webhookVars
  <1>9. QED
    <2>1. Book!Pay => Book!Next
      BY DEF Book!Next
    <2>2. QED
      BY <1>1, <1>2, <1>3, <1>5, <1>6, <1>7, <1>8, <2>1, Steps

-----------------------------------------------------------------------------
(* Theorems *)

\* A webhook tells of a charge a customer paid, of a request that is at work, was cut
\* short, or was answered with the reference: whatever of both parts is in flight.
THEOREM NoticesAreKnown == Spec => []NoticesKnown
  <1>1. IInv => NoticesKnown
    <2> SUFFICES ASSUME IInv, NEW e \in Payments, posted[e] > 0
                 PROVE  \E s \in settled :
                          /\ e = PaymentOf(s)
                          /\ \/ s.n \in refs[s.order] \cup cut
                             \/ \E h \in Chargers :
                                  charging[h] \in {"wait", "ok"} /\ job[h].n = s.n
      BY DEF NoticesKnown
    <2>1. PICK s \in settled : e = PaymentOf(s)
      BY DEF IInv, Linked, PaidEvents
    <2>2. s \in CP!Made
      BY DEF IInv, Linked, CP!Made
    <2>3. QED
      BY <2>1, <2>2 DEF IInv, CP!Inv, CP!Known
  <1>2. QED
    BY <1>1, IInvHolds, PTL

\* The service as a whole keeps the promise made to the monolith: it hears of an order
\* as often as charges of it were paid, and once more at most for each insert in the
\* ledger that failed, whatever is repeated, cut short, written or restarted meanwhile.
THEOREM ServiceKeepsPromise == Spec => PaidOrdersSpec
  BY BookInit, BookSteps, IInvHolds, PTL DEF Spec, PaidOrdersSpec, Book!Spec

\* What is proved of either part alone holds of both in one process: the other's faults
\* and statements on the table they share take nothing away.
THEOREM PartsKeepPromises ==
  Spec => /\ [](C!RefsBacked /\ C!AnswersBacked /\ C!NoOrphanSession /\ C!SessionsVouched)
          /\ [](W!NoDoubleFire /\ W!RepeatsPaidFor /\ W!NoSilentLoss /\ W!CalledBackExactly)
          /\ W!AuthenticCallbacks
  <1>1. CP!Inv => C!RefsBacked /\ C!AnswersBacked /\ C!NoOrphanSession /\ C!SessionsVouched
    <2> SUFFICES ASSUME CP!Inv
                 PROVE  C!RefsBacked /\ C!AnswersBacked /\ C!NoOrphanSession /\ C!SessionsVouched
      OBVIOUS
    <2>1. C!RefsBacked
      BY DEF CP!Inv, CP!RefsBacked, C!RefsBacked
    <2>2. C!NoOrphanSession
      BY DEF CP!Inv, CP!Known, CP!Made, C!NoOrphanSession
    <2>3. C!SessionsVouched
      BY DEF CP!Inv, CP!Vouched, CP!SessionsVouched, C!SessionsVouched, CP!GwAccepts,
             C!GwAccepts, CP!Contains, C!Contains
    <2>4. C!AnswersBacked
      BY CP!AnswersFromInv, ValuesAssumption, AsksAssumption, RowsAssumption, KeysAssumption
         DEF CP!AnswersBacked, C!AnswersBacked, C!AutomaticProviders, CP!AutomaticProviders
    <2>5. QED
      BY <2>1, <2>2, <2>3, <2>4
  <1>2. WP!Inv => /\ W!NoDoubleFire /\ W!RepeatsPaidFor
                  /\ W!NoSilentLoss /\ W!CalledBackExactly
    <2> SUFFICES ASSUME WP!Inv
                 PROVE  /\ W!NoDoubleFire /\ W!RepeatsPaidFor
                        /\ W!NoSilentLoss /\ W!CalledBackExactly
      OBVIOUS
    <2>1. WP!NoDoubleFire /\ WP!RepeatsPaidFor /\ WP!NoSilentLoss /\ WP!CalledBackExactly
      BY WP!Promises, ReceiverAssumptions, SameFiniteSets, ValuesAssumption
    <2>2. ASSUME NEW e PROVE (W!Owed(e) <=> WP!Owed(e)) /\ (W!Parses(e) <=> WP!Parses(e))
      BY DEF
         W!Owed, WP!Owed, W!Parses, WP!Parses, W!Empty, WP!Empty, W!IsPaid, WP!IsPaid,
         W!OrderID, WP!OrderID, W!StripeIsPaid, WP!StripeIsPaid, W!HeleketIsPaid,
         WP!HeleketIsPaid, W!WooviIsPaid, WP!WooviIsPaid, W!AbacatePayIsPaid,
         WP!AbacatePayIsPaid, W!StripeOrderID, WP!StripeOrderID,
         W!ParseStripeEvent,
         WP!ParseStripeEvent, W!ParseHeleketEvent, WP!ParseHeleketEvent,
         W!ParseWooviEvent, WP!ParseWooviEvent, W!ParseAbacatePayEvent,
         WP!ParseAbacatePayEvent
    <2>3. QED
      BY <2>1, <2>2 DEF
         W!NoDoubleFire, WP!NoDoubleFire, W!RepeatsPaidFor, WP!RepeatsPaidFor,
         W!NoSilentLoss, WP!NoSilentLoss, W!CalledBackExactly, WP!CalledBackExactly,
         W!Guarded, WP!Guarded, W!Pending, WP!Pending, W!Empty, WP!Empty
  \* Only a vouched delivery is about to be called back, so no step calls back another.
  <1>3. WP!Inv => [\A h \in Receivers :
                     posted # posted' /\ delivering[h] = "callback" /\ delivering'[h] = "ok"
                       => W!Vouched(req[h])]_(W!vars)
    BY DEF WP!Inv, WP!SecretsVouched, WP!Vouched, W!Vouched, WP!Empty, W!Empty
  <1>4. QED
    BY <1>1, <1>2, <1>3, IInvHolds, PTL DEF IInv, W!AuthenticCallbacks

\* What the checkout sees of a step of the service.
LEMMA CheckoutOpen == IInv /\ [Next]_vars => [CP!OpenNext]_(CP!vars)
  <1> SUFFICES ASSUME IInv, [Next]_vars PROVE [CP!OpenNext]_(CP!vars)
    OBVIOUS
  <1>1. ASSUME CP!Next PROVE [CP!OpenNext]_(CP!vars)
    BY <1>1 DEF CP!OpenNext
  <1>2. ASSUME UNCHANGED <<gateways, writes, checkoutVars>>, faults' \in faults..MaxFaults
        PROVE  [CP!OpenNext]_(CP!vars)
    <2>1. CP!FaultElsewhere
      BY <1>2 DEF checkoutVars, CP!FaultElsewhere, CP!tables, CP!providers, CP!monolith
    <2>2. QED
      BY <2>1 DEF CP!OpenNext
  <1>3. ASSUME UNCHANGED <<gateways, faults, writes, checkoutVars>>
        PROVE  [CP!OpenNext]_(CP!vars)
    BY <1>3 DEF checkoutVars, CP!vars
  <1>4. ASSUME NEW h \in Receivers,
               UNCHANGED <<gateways, writes, checkoutVars, settled>>,
               faults' \in faults..MaxFaults
        PROVE  [CP!OpenNext]_(CP!vars)
    BY <1>2, <1>4
  <1>5. ASSUME CP!WriteGateway PROVE [CP!OpenNext]_(CP!vars)
    BY <1>1, <1>5 DEF CP!Next
  <1>6. ASSUME CP!Crash \/ UNCHANGED checkoutVars,
               UNCHANGED <<gateways, writes, everCharged, sessions, settled>>,
               faults' \in faults..MaxFaults
        PROVE  [CP!OpenNext]_(CP!vars)
    BY <1>1, <1>2, <1>6 DEF CP!Next
  <1>7. ASSUME UNCHANGED vars PROVE [CP!OpenNext]_(CP!vars)
    BY <1>3, <1>7 DEF vars
  <1>8. QED
    BY <1>1, <1>3, <1>4, <1>5, <1>6, <1>7, Steps

\* The book is the same, whichever way it is reached.
LEMMA SameBook ==
  /\ CP!Book!Init <=> C!Book!Init
  /\ [CP!Book!Next]_(CP!Book!vars) <=> [C!Book!Next]_(C!Book!vars)
  <1>1. CP!Book!Init <=> C!Book!Init
    BY DEF CP!Book!Init, C!Book!Init, CP!AskedBy, C!AskedBy, CP!MadeFor, C!MadeFor
  <1>2. UNCHANGED CP!Book!vars <=> UNCHANGED C!Book!vars
    BY DEF CP!Book!vars, C!Book!vars, CP!AskedBy, C!AskedBy, CP!MadeFor, C!MadeFor
  <1>3. CP!Book!Next <=> C!Book!Next
    BY DEF CP!Book!Next, C!Book!Next, CP!Book!Ask, C!Book!Ask, CP!Book!AskOtherwise,
       C!Book!AskOtherwise, CP!Book!Charge, C!Book!Charge, CP!Book!Tell, C!Book!Tell,
       CP!Book!Refuse, C!Book!Refuse, CP!Book!Lose, C!Book!Lose, CP!Book!Drop,
       C!Book!Drop, CP!AskedBy, C!AskedBy, CP!MadeFor, C!MadeFor
  <1>4. QED
    BY <1>1, <1>2, <1>3

\* The promise of ChargeBook about each request survives the composition: neither the
\* receiver nor a fault of it makes a refusal less final or a charge doubled.
THEOREM ServiceKeepsChargeBook == Spec => C!ChargeBookSpec
  <1>1. Init => CP!Init
    BY CheckoutAround DEF Init
  <1>2. Init => CP!Unanswered
    BY <1>1, CP!UnansweredInit, ValuesAssumption, AsksAssumption, RowsAssumption,
       KeysAssumption
  <1>3. IInv /\ CP!Unanswered /\ [Next]_vars => CP!Unanswered'
    BY CheckoutOpen, CP!UnansweredStep, ValuesAssumption, AsksAssumption, RowsAssumption,
       KeysAssumption DEF IInv
  <1>4. Init => C!Book!Init
    BY <1>1, SameBook, CP!BookInit, ValuesAssumption, AsksAssumption, RowsAssumption,
       KeysAssumption
  <1>5. IInv /\ CP!Unanswered /\ [Next]_vars => [C!Book!Next]_(C!Book!vars)
    BY CheckoutOpen, SameBook, CP!BookSteps, ValuesAssumption, AsksAssumption,
       RowsAssumption, KeysAssumption DEF IInv
  <1>6. QED
    BY <1>2, <1>3, <1>4, <1>5, IInvHolds, PTL DEF Spec, C!ChargeBookSpec, C!Book!Spec

===============================================================================
