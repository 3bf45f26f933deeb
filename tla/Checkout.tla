------------------------------- MODULE Checkout -------------------------------
(***************************************************************************)
(* The checkout: methodsHandler with ListMethods and chargeHandler with    *)
(* the provider adapters, run by several requests at once, over tables of  *)
(* gateways, currencies and plans that others change meanwhile.            *)
(*                                                                         *)
(* A listing (op = "methods") is at                                        *)
(*   plan, display, settle   reading the plan and the two currencies       *)
(*   list, cards             reading the gateways; one card after another  *)
(* and a charge (op = "charge") at                                         *)
(*   gateway, price, amount  reading the gateway, the plan, the currency   *)
(*   call, wait              about to call the provider; waiting for it    *)
(* until either is at its answer.  There is no transaction: every read     *)
(* sees its table as it is then.                                           *)
(*                                                                         *)
(* All orders are for one plan.  Requests carry an order, a gateway and    *)
(* the plan; others are refused before anything is read.                   *)
(***************************************************************************)
EXTENDS CheckoutRules, GatewayTable, FiniteSets

CONSTANTS
  Handlers,            \* requests in flight at once
  Orders,
  GatewayVersions, CurrencyVersions, PlanVersions,      \* the rows others write
  InitGateways, InitCurrencies, InitPlan,
  Displays, Countries, \* the parameters of GET methods
  OtherCharges,        \* charges asked for otherwise than from a card
  MaxRequests,         \* bound: requests
  MaxFaults,           \* bound: failed reads, lost connections, crashes
  MaxWrites            \* bound: changes of the tables

\* A charge by currency, or by an explicit price [currency, amount].
ASSUME ChargesAssumption ==
  \A c \in OtherCharges : DOMAIN c = {"gateway", "pay", "price", "card"} /\ c.card = Nil

ASSUME RowsAssumption ==
  \A g \in InitGateways \cup GatewayVersions :
    /\ DOMAIN g = {"id", "provider", "active", "config", "currencies", "created"}
    /\ g.currencies \in Seq(STRING)

\* The primary key of the gateways; a code has one row, as GetByCode expects.
ASSUME KeysAssumption ==
  /\ \A f, g \in InitGateways : f.id = g.id => f = g
  /\ \A c, d \in InitCurrencies : c.code = d.code => c = d

ASSUME NilAssumption == Nil \notin Nat

ASSUME CodesAssumption == \A c \in CurrencyVersions \cup InitCurrencies : c.code # Blank

ASSUME CheckoutBounds == MaxRequests \in Nat /\ MaxFaults \in Nat /\ MaxWrites \in Nat

VARIABLES
  gateways, currencies, plan,  \* the tables; plan is Nil when there is no such row
  pc, job, work,               \* the requests: step, parameters, what was read so far
  cards,                       \* per order, the last list of methods
  calls, sessions,             \* calls on their way; what the providers have created
  refs,                        \* per order, the external references answered
  requests, faults, writes,    \* how much of the bounds is used
  (* history, read by no action *)
  everActive,                  \* rows of gateways that have been active
  cut,                         \* requests cut short: timeout, lost connection, crash
  declined                     \* requests a provider answered 2xx, but with an error

tables == <<gateways, currencies, plan, writes, everActive>>
providers == <<calls, sessions, declined>>
monolith == <<cards, refs, requests>>
vars == <<gateways, currencies, plan, pc, job, work, cards, calls, sessions, refs,
          requests, faults, writes, everActive, cut, declined>>

Idle(h) == pc[h] = "idle"

Answers == {"ok", "not_found", "invalid_input", "internal", "provider_error"}

\* Whatever disturbs a checkout advances the epoch.
Epoch == writes + faults

NoJob == [op |-> "none"]

NothingRead ==
  [row |-> Nil, plan |-> Nil, display |-> Nil, quote |-> Nil, todo |-> {}, options |-> {},
   currency |-> Nil, chosen |-> Nil, ref |-> Nil]

Active(table) == {g \in table : g.active}

Init ==
  /\ gateways = InitGateways
  /\ currencies = InitCurrencies
  /\ plan = InitPlan
  /\ pc = [h \in Handlers |-> "idle"]
  /\ job = [h \in Handlers |-> NoJob]
  /\ work = [h \in Handlers |-> NothingRead]
  /\ cards = [o \in Orders |-> {}]
  /\ calls = {}
  /\ sessions = {}
  /\ refs = [o \in Orders |-> {}]
  /\ requests = 0 /\ faults = 0 /\ writes = 0
  /\ everActive = Active(InitGateways)
  /\ cut = {}
  /\ declined = {}

Goto(h, step) == pc' = [pc EXCEPT ![h] = step]
Keep(h, field, value) == work' = [work EXCEPT ![h] = [@ EXCEPT ![field] = value]]
Fault == faults < MaxFaults /\ faults' = faults + 1

\* A step of h that touches nothing but its own state.
Local(h) == UNCHANGED <<job, cut>> /\ UNCHANGED <<tables, providers, monolith>>

\* The read at this step fails, and with it the request.
ReadFails(h) == Fault /\ Goto(h, "internal") /\ UNCHANGED work

Refuse(h, answer) == Goto(h, answer) /\ UNCHANGED <<work, faults>>

Begin(h, request, step) ==
  /\ Idle(h)
  /\ requests < MaxRequests
  /\ requests' = requests + 1
  /\ job' = [job EXCEPT ![h] = request]
  /\ Goto(h, step)
  /\ UNCHANGED <<work, cards, refs, faults, cut>>
  /\ UNCHANGED <<tables, providers>>

-----------------------------------------------------------------------------
(* GET /internal/v1/methods *)

BeginMethods(h, o, display, country) ==
  Begin(h, [op |-> "methods", n |-> requests, order |-> o, display |-> display,
            country |-> country, epoch |-> Epoch], "plan")

\* Only an active plan can be bought.
ReadPlan(h) ==
  /\ pc[h] = "plan"
  /\ \/ /\ plan # Nil
        /\ plan.active
        /\ Keep(h, "plan", plan)
        /\ Goto(h, "display")
        /\ UNCHANGED faults
     \/ plan = Nil /\ Refuse(h, "not_found")
     \/ plan # Nil /\ ~plan.active /\ Refuse(h, "invalid_input")
     \/ ReadFails(h)
  /\ Local(h)

\* USD stands in for a display currency that is unknown or could not be read.
ReadDisplay(h) ==
  LET wanted == GetByCode(currencies, job[h].display)
      usd == GetByCode(currencies, "USD") IN
  /\ pc[h] = "display"
  /\ \/ /\ \E cur \in IF wanted # {} THEN wanted ELSE usd : Keep(h, "display", cur)
        /\ Goto(h, "settle")
        /\ UNCHANGED faults
     \/ /\ Fault
        /\ \E cur \in usd : Keep(h, "display", cur)
        /\ Goto(h, "settle")
     \/ wanted = {} /\ usd = {} /\ Refuse(h, "not_found")
     \/ Fault /\ usd = {} /\ Goto(h, "not_found") /\ UNCHANGED work
     \/ ReadFails(h)
  /\ Local(h)

\* The display currency stands in for its settlement currency.
ReadSettle(h) ==
  LET display == work[h].display
      found == GetByCode(currencies, display.settle) IN
  /\ pc[h] = "settle"
  /\ \/ /\ \E cur \in IF found # {} THEN found ELSE {display} :
             Keep(h, "quote", QuoteForPlan(work[h].plan, display, cur))
        /\ UNCHANGED faults
     \/ /\ Fault
        /\ Keep(h, "quote", QuoteForPlan(work[h].plan, display, display))
  /\ Goto(h, "list")
  /\ Local(h)

ListGateways(h) ==
  /\ pc[h] = "list"
  /\ \/ /\ Keep(h, "todo", {g \in Active(gateways) :
                              GatewayEligible(g, work[h].quote, job[h].country)})
        /\ Goto(h, "cards")
        /\ UNCHANGED faults
     \/ ReadFails(h)
  /\ Local(h)

\* buildMethodOptions: one card, or none when the currency it would charge is not
\* registered or could not be read.
BuildCard(h) ==
  LET quote == work[h].quote
      Card(g, cur, found) == BuildSingleOption(g, work[h].plan, quote, cur, found)
      Add(g, cs) == work' = [work EXCEPT ![h].todo = @ \ {g}, ![h].options = @ \cup cs]
  IN
  /\ pc[h] = "cards"
  /\ work[h].todo # {}
  /\ LET g == CHOOSE r \in work[h].todo : TRUE     \* in a fixed order: by name
         charged == GetByCode(currencies, PickPrimaryCurrency(g, quote.display)) IN
       \/ /\ Add(g, {Card(g, cur, GetByCode(currencies, SettlementCode(cur, quote))) :
                       cur \in charged})
          /\ UNCHANGED faults
       \/ Fault /\ Add(g, {Card(g, cur, {}) : cur \in charged})
       \/ Fault /\ Add(g, {})
  /\ UNCHANGED pc
  /\ Local(h)

AllCards(h) ==
  /\ pc[h] = "cards"
  /\ work[h].todo = {}
  /\ Refuse(h, "ok")
  /\ Local(h)

-----------------------------------------------------------------------------
(* POST /internal/v1/charge *)

\* The customer chose a card: the request names its gateway and its currency.
FromCard(o) ==
  {[gateway |-> e.card.gateway, pay |-> e.card.currency, price |-> Nil, card |-> e] :
     e \in cards[o]}

BeginCharge(h, o) ==
  \E c \in FromCard(o) \cup OtherCharges :
    Begin(h, [op |-> "charge", n |-> requests, order |-> o, gateway |-> c.gateway,
              pay |-> c.pay, price |-> c.price, card |-> c.card], "gateway")

\* Mutant: an inactive gateway charges too.
Usable_Inactive(found) == found

Usable(found) == Active(found)

\* An explicit price replaces that of the plan.
ReadGateway(h) ==
  LET found == SelectByID(gateways, job[h].gateway) IN
  /\ pc[h] = "gateway"
  /\ \/ /\ \E g \in Usable(found) :
             work' = [work EXCEPT ![h] = [@ EXCEPT !.row = g, !.chosen = job[h].price]]
        /\ Goto(h, IF job[h].price = Nil THEN "price" ELSE "call")
        /\ UNCHANGED faults
     \/ found = {} /\ Refuse(h, "not_found")
     \/ found # {} /\ Usable(found) = {} /\ Refuse(h, "invalid_input")
     \/ ReadFails(h)
  /\ Local(h)

\* The plan may be inactive by now: chargeHandler does not ask.
ReadPrices(h) ==
  LET code == PickCurrency(work[h].row, job[h].pay) IN
  /\ pc[h] = "price"
  /\ \/ /\ plan # Nil
        /\ code # Blank
        /\ work' = [work EXCEPT ![h] = [@ EXCEPT !.plan = plan, !.currency = code]]
        /\ Goto(h, "amount")
        /\ UNCHANGED faults
     \/ plan = Nil /\ Refuse(h, "not_found")
     \/ plan # Nil /\ code = Blank /\ Refuse(h, "invalid_input")
     \/ ReadFails(h)
  /\ Local(h)

\* AmountInCurrency: a failed read is an unknown currency.
ReadCurrency(h) ==
  LET found == GetByCode(currencies, work[h].currency) IN
  /\ pc[h] = "amount"
  /\ \/ /\ \E cur \in found :
             Keep(h, "chosen", [currency |-> cur.code, amount |-> AmountFor(work[h].plan, cur)])
        /\ Goto(h, "call")
        /\ UNCHANGED faults
     \/ found = {} /\ Refuse(h, "invalid_input")
     \/ Fault /\ Goto(h, "invalid_input") /\ UNCHANGED work
  /\ Local(h)

CallOf(h) ==
  LET row == work[h].row IN
  [n |-> job[h].n, order |-> job[h].order, gateway |-> row.id, provider |-> row.provider,
   config |-> row.config, currency |-> work[h].chosen.currency,
   amount |-> work[h].chosen.amount, explicit |-> job[h].price # Nil,
   billed |-> BilledCurrency(row.provider, work[h].chosen.currency)]

\* Registry.Get and CreateCharge up to the call; a manual gateway needs none.
CreateCharge(h) ==
  LET row == work[h].row
      accepted == AdapterAccepts(row, work[h].chosen.currency) IN
  /\ pc[h] = "call"
  /\ \/ row.provider \notin Registry /\ Goto(h, "invalid_input") /\ UNCHANGED calls
     \/ row.provider \in Registry /\ ~accepted /\ Goto(h, "provider_error") /\ UNCHANGED calls
     \/ /\ row.provider \in Registry \ AutomaticProviders
        /\ Goto(h, "ok")
        /\ UNCHANGED calls
     \/ /\ row.provider \in AutomaticProviders
        /\ accepted
        /\ calls' = calls \cup {CallOf(h)}
        /\ Goto(h, "wait")
  /\ UNCHANGED <<job, work, faults, cut, sessions, declined>>
  /\ UNCHANGED <<tables, monolith>>

\* Mutant: any answer will do.
AnswersTo_Any(n) == sessions

AnswersTo(n) == {s \in sessions : s.n = n}

\* Mutant: the id is not where the adapter looks for it.
Reference_Unread(s) == Nil

Reference(s) == s.n

\* The provider's answer, with the reference of what it created.
ReceiveAnswer(h) ==
  /\ pc[h] = "wait"
  /\ \E s \in AnswersTo(job[h].n) : Keep(h, "ref", Reference(s))
  /\ Goto(h, "ok")
  /\ UNCHANGED faults
  /\ Local(h)

\* Mutant: nothing ends the wait.
GiveUp_Never(h) == pc[h] = "wait" /\ FALSE /\ UNCHANGED vars

\* The client's timeout (15 or 20 s), a broken connection, or an answer that
\* cannot be read; the provider may have created the charge or create it later.
GiveUp(h) ==
  /\ pc[h] = "wait"
  /\ Goto(h, "provider_error")
  /\ cut' = cut \cup {job[h].n}
  /\ UNCHANGED <<job, work, faults>>
  /\ UNCHANGED <<tables, providers, monolith>>

-----------------------------------------------------------------------------
(* Answers and their loss *)

\* Mutant: the reference is not passed on.
KeptRefs_None(h) == {}

\* What the monolith keeps of the answer to a charge, or to a listing.
KeptRefs(h) == IF pc[h] = "ok" THEN {work[h].ref} \ {Nil} ELSE {}

KeptCards(h) == {[card |-> c, epoch |-> job[h].epoch] : c \in work[h].options}

\* Mutant: what the handlers had read is left behind.
Release_KeepsWork(hs) ==
  /\ pc' = [h \in Handlers |-> IF h \in hs THEN "idle" ELSE pc[h]]
  /\ job' = [h \in Handlers |-> IF h \in hs THEN NoJob ELSE job[h]]
  /\ UNCHANGED work

\* The goroutines of hs end.
Release(hs) ==
  /\ pc' = [h \in Handlers |-> IF h \in hs THEN "idle" ELSE pc[h]]
  /\ job' = [h \in Handlers |-> IF h \in hs THEN NoJob ELSE job[h]]
  /\ work' = [h \in Handlers |-> IF h \in hs THEN NothingRead ELSE work[h]]

\* writeJSON or writeErr.
Finish(h) ==
  /\ pc[h] \in Answers
  /\ cards' = [cards EXCEPT ![job[h].order] =
                IF pc[h] = "ok" /\ job[h].op = "methods" THEN KeptCards(h) ELSE @]
  /\ refs' = [refs EXCEPT ![job[h].order] = @ \cup KeptRefs(h)]
  /\ Release({h})
  /\ UNCHANGED <<requests, faults, cut>>
  /\ UNCHANGED <<tables, providers>>

\* The handlers of hs end without an answer that anyone sees.
Stop(hs) ==
  /\ hs # {}
  /\ Fault
  /\ Release(hs)
  /\ cut' = cut \cup {job[h].n : h \in hs}
  /\ UNCHANGED <<tables, providers, monolith>>

\* The monolith's connection breaks, and with it the request's context.
Disconnect(h) == ~Idle(h) /\ Stop({h})

Crash == Stop({h \in Handlers : ~Idle(h)})

-----------------------------------------------------------------------------
(* The providers *)

ProviderCreates(c) ==
  /\ calls' = calls \ {c}
  /\ sessions' = sessions \cup {c}
  /\ UNCHANGED <<pc, job, work, faults, cut, declined>>
  /\ UNCHANGED <<tables, monolith>>

\* The adapter that waits for the answer to this call goes on to step.
Answered(c, step) ==
  pc' = [h \in Handlers |-> IF pc[h] = "wait" /\ job[h].n = c.n THEN step ELSE pc[h]]

\* Not a 2xx or, of AbacatePay, an error in its envelope.
ProviderRefuses(c) ==
  /\ calls' = calls \ {c}
  /\ Answered(c, "provider_error")
  /\ UNCHANGED <<job, work, faults, sessions, cut, declined>>
  /\ UNCHANGED <<tables, monolith>>

\* A 2xx that reports an error where no adapter looks (Heleket's state, AbacatePay's
\* success): a body without an id is an answer like any other.
ProviderDeclines(c) ==
  /\ calls' = calls \ {c}
  /\ declined' = declined \cup {c.n}
  /\ Answered(c, "ok")
  /\ UNCHANGED <<job, work, faults, sessions, cut>>
  /\ UNCHANGED <<tables, monolith>>

-----------------------------------------------------------------------------
(* Other requests and the monolith write the tables *)

Write ==
  /\ writes < MaxWrites
  /\ writes' = writes + 1
  /\ everActive' = everActive \cup Active(gateways')
  /\ UNCHANGED <<pc, job, work, faults, cut>>
  /\ UNCHANGED <<providers, monolith>>

WriteGateway ==
  /\ \/ \E g \in GatewayVersions :
          gateways' = IF g.id \in IdsOf(gateways) THEN UpdateRow(gateways, g)
                      ELSE InsertRow(gateways, g)
     \/ \E id \in IdsOf(gateways) : gateways' = DeleteRow(gateways, id)
  /\ UNCHANGED <<currencies, plan>>
  /\ Write

WriteCurrency ==
  /\ \/ \E c \in CurrencyVersions :
          currencies' = {d \in currencies : d.code # c.code} \cup {c}
     \/ \E c \in currencies : currencies' = currencies \ {c}
  /\ UNCHANGED <<gateways, plan>>
  /\ Write

WritePlan ==
  /\ \E p \in PlanVersions \cup {Nil} : plan' = p
  /\ UNCHANGED <<gateways, currencies>>
  /\ Write

-----------------------------------------------------------------------------
HandlerStep(h) ==
  \/ ReadPlan(h) \/ ReadDisplay(h) \/ ReadSettle(h)
  \/ ListGateways(h) \/ BuildCard(h) \/ AllCards(h)
  \/ ReadGateway(h) \/ ReadPrices(h) \/ ReadCurrency(h)
  \/ CreateCharge(h) \/ ReceiveAnswer(h) \/ GiveUp(h)
  \/ Finish(h)

Next ==
  \/ \E h \in Handlers :
       \/ \E o \in Orders :
            \/ \E d \in Displays, country \in Countries : BeginMethods(h, o, d, country)
            \/ BeginCharge(h, o)
       \/ HandlerStep(h)
       \/ Disconnect(h)
  \/ Crash
  \/ \E c \in calls : ProviderCreates(c) \/ ProviderRefuses(c) \/ ProviderDeclines(c)
  \/ WriteGateway \/ WriteCurrency \/ WritePlan

Spec == Init /\ [][Next]_vars

FairSpec == Spec /\ \A h \in Handlers : WF_vars(HandlerStep(h))

-----------------------------------------------------------------------------
(* Properties *)

\* Requests hold what their step needs.
TypeOK ==
  /\ pc \in [Handlers -> {"idle", "plan", "display", "settle", "list", "cards", "gateway",
                          "price", "amount", "call", "wait"} \cup Answers]
  /\ \A h \in Handlers : Idle(h) <=> job[h] = NoJob
  /\ \A h \in Handlers : Idle(h) => work[h] = NothingRead
  /\ \A h \in Handlers :
       pc[h] \in {"price", "amount", "call", "wait"} => work[h].row \in everActive
  /\ refs \in [Orders -> SUBSET (0..(requests - 1))]
  /\ cut \subseteq 0..(requests - 1)
  /\ requests \in 0..MaxRequests /\ faults \in 0..MaxFaults /\ writes \in 0..MaxWrites

\* A card can be bought as it was shown: when nothing was written and nothing
\* failed since its listing began, chargeHandler neither refuses the request nor
\* charges another currency, amount or network than ListMethods computed.
OfferHonoured ==
  \A h \in Handlers :
    LET offer == job[h].card IN
    job[h].op = "charge" =>
      ((offer # Nil /\ offer.epoch = Epoch) =>
        /\ pc[h] \in {"not_found", "invalid_input", "internal"} =>
             offer.card.provider \notin Registry
        /\ work[h].chosen # Nil =>
             work[h].chosen = [currency |-> offer.card.currency, amount |-> offer.card.amount]
        /\ (work[h].row # Nil /\ offer.card.network # Blank) =>
             work[h].row.config.network = offer.card.network)

\* A list of methods made from one state of the tables tells the price: without a
\* conversion note all three prices of a card are one, and the settlement amount
\* is the plan's price in the settlement currency if that is registered.
CardsTellThePrice ==
  \A h \in Handlers :
    (pc[h] = "ok" /\ job[h].op = "methods") =>
      (job[h].epoch = Epoch =>
        \A c \in work[h].options :
          /\ ~c.note => /\ c.display = c.currency /\ c.settlement = c.currency
                        /\ c.displayAmount = c.amount /\ c.settlementAmount = c.amount
          /\ \A s \in GetByCode(currencies, c.settlement) :
               c.settlementAmount = AmountFor(plan, s))

\* Whatever is written meanwhile, a charge priced from the plan is made in the
\* account of a row that was active at some time, by its provider and in a currency
\* it accepted (a row that accepts nothing lets any currency pass).
SessionsVouched ==
  \A s \in calls \cup sessions :
    \E g \in everActive :
      /\ g.id = s.gateway /\ g.provider = s.provider /\ g.config = s.config
      /\ s.explicit \/ g.currencies = <<>> \/ GwAccepts(g, s.currency)

\* A reference the monolith was given for an order is that of a charge the provider
\* created for this order, however requests, retries and answers overlap.
RefsBacked == \A o \in Orders : \A n \in refs[o] : \E s \in sessions : s.n = n /\ s.order = o

\* A 200 with a reference names the charge of this request.  One without hides none:
\* a manual gateway makes no charge, and else the provider declined in a 2xx, which
\* the monolith can tell by nothing but the missing reference.
AnswersBacked ==
  \A h \in Handlers :
    (pc[h] = "ok" /\ job[h].op = "charge") =>
      LET made == {s \in sessions : s.n = job[h].n} IN
      IF work[h].ref # Nil
      THEN \E s \in made : s.order = job[h].order /\ work[h].ref = s.n
      ELSE /\ made = {}
           /\ work[h].row.provider \in AutomaticProviders => job[h].n \in declined

\* The provider holds no charge the monolith does not know of or is about to, save
\* those of a request that was cut short: only these make a retry bill twice.
NoOrphanSession ==
  \A s \in sessions :
    \/ s.n \in refs[s.order] \cup cut
    \/ \E h \in Handlers : pc[h] \in {"wait", "ok"} /\ job[h].n = s.n

\* The charge a request asks for, and the request a charge was made for.
AskedBy(h) == [n |-> job[h].n, order |-> job[h].order]
MadeFor(c) == [n |-> c.n, order |-> c.order]

\* The detailed checkout implements the promise of ChargeBook.  A request is open
\* until its handler ends or gives up; its call is loose from then on.
Book == INSTANCE ChargeBook WITH
  asked   <- requests,
  open    <- {AskedBy(h) : h \in {k \in Handlers : job[k].op = "charge" /\ job[k].n \notin cut}},
  loose   <- {MadeFor(c) : c \in {d \in calls : d.n \in cut}},
  charged <- {MadeFor(s) : s \in sessions},
  known   <- UNION {{[n |-> n, order |-> o] : n \in refs[o]} : o \in Orders},
  lost    <- cut

\* A request for a charge is charged once at most, and it ends in one of three ways: the
\* monolith has the reference of its charge; or it is refused for good, and no call that
\* was made for it is carried out later; or an answer is lost, the provider's or ours.
ChargeBookSpec == Book!Spec

\* Every request is answered, whatever the provider does: the clients time out.
AlwaysAnswered == \A h \in Handlers : ~Idle(h) ~> Idle(h)

\* payment_methods.go: PIX charges nothing but BRL.
PixChargesBRL ==
  \A s \in calls \cup sessions :
    s.provider \in BrOnlyProviders => s.currency = s.billed

=============================================================================
