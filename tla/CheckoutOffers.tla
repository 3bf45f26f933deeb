---------------------------- MODULE CheckoutOffers ----------------------------
(***************************************************************************)
(* Proofs that what customers are shown is what they can buy: the cards of *)
(* a list made from one state of the tables tell the price, and a charge   *)
(* from a card is made as the card says, while nothing was disturbed.      *)
(*                                                                         *)
(* The argument is one of dates.  Every card carries the epoch at which    *)
(* its listing began, which is never ahead of the present one; whatever    *)
(* changes a table or fails advances the epoch, and so leaves no card of   *)
(* the present epoch.  A card of this epoch was therefore computed, step   *)
(* by step, from the tables as they still are.                             *)
(***************************************************************************)
EXTENDS CheckoutProofs, NaturalLemmas

-----------------------------------------------------------------------------
(* The inductive invariant, in parts *)

\* Ids and codes are keys, and no code is blank.
Keyed ==
  /\ \A f, g \in gateways : f.id = g.id => f = g
  /\ \A c, d \in currencies : c.code = d.code => c = d
  /\ \A c \in currencies : c.code # Blank

FromACard(request) == request.op = "charge" /\ request.card # Nil

\* No list or card is of an epoch later than limit.
DatedBy(limit) ==
  /\ \A h \in Handlers :
       /\ job[h].op = "methods" => job[h].epoch \in 0..limit
       /\ FromACard(job[h]) => job[h].card.epoch \in 0..limit
  /\ DOMAIN cards = Orders
  /\ \A o \in Orders : \A e \in cards[o] : e.epoch \in 0..limit

\* A charge from a card asks for the gateway and the currency of the card.
Faithful ==
  \A h \in Handlers :
    FromACard(job[h]) =>
      /\ job[h].price = Nil
      /\ job[h].gateway = job[h].card.card.gateway
      /\ job[h].pay = job[h].card.card.currency

\* The card could be made from the tables as they are now.
Stands(card) ==
  /\ plan # Nil
  /\ \E g \in Active(gateways), cur \in currencies :
       /\ card.gateway = g.id /\ card.provider = g.provider
       /\ card.currency = cur.code /\ GwAccepts(g, cur.code)
       /\ card.amount = AmountFor(plan, cur)
       /\ card.network # Blank => card.network = g.config.network

\* What CardsTellThePrice says of a card.
TellsPrice(c) ==
  /\ ~c.note => /\ c.display = c.currency /\ c.settlement = c.currency
                /\ c.displayAmount = c.amount /\ c.settlementAmount = c.amount
  /\ \A s \in GetByCode(currencies, c.settlement) : c.settlementAmount = AmountFor(plan, s)

\* What a listing of this epoch has read is what the tables hold.
Listed(h) ==
  (job[h].op = "methods" /\ job[h].epoch = Epoch) =>
    /\ pc[h] \in Listing \ {"plan"} => plan # Nil /\ work[h].plan = plan
    /\ pc[h] = "settle" => work[h].display \in currencies
    /\ pc[h] \in {"list", "cards"} =>
         \E d \in currencies : /\ work[h].quote.display = d.code
                               /\ work[h].quote.displayAmount = AmountFor(plan, d)
    /\ pc[h] = "cards" => work[h].todo \subseteq Active(gateways)
    /\ \A c \in work[h].options : Stands(c) /\ TellsPrice(c)

Chosen(card) == [currency |-> card.currency, amount |-> card.amount]

\* What a charge from a card of this epoch has read is what the card was made from.
Asked(h) ==
  (FromACard(job[h]) /\ job[h].card.epoch = Epoch) =>
    LET card == job[h].card.card IN
    /\ Stands(card)
    /\ pc[h] = "gateway" => work[h].row = Nil
    /\ pc[h] \in {"gateway", "price", "amount"} => work[h].chosen = Nil
    /\ pc[h] \in {"price", "amount", "call"} =>
         work[h].row \in SelectByID(Active(gateways), card.gateway)
    /\ work[h].row # Nil => work[h].row \in SelectByID(Active(gateways), card.gateway)
    /\ pc[h] = "amount" => work[h].plan = plan /\ work[h].currency = card.currency
    /\ work[h].chosen \in {Nil, Chosen(card)}
    /\ pc[h] \in Refusals => card.provider \notin Registry

Offered == \A o \in Orders : \A e \in cards[o] : e.epoch = Epoch => Stands(e.card)

Current == (\A h \in Handlers : Listed(h) /\ Asked(h)) /\ Offered

OffersInv == Keyed /\ DatedBy(Epoch) /\ Faithful /\ Current

-----------------------------------------------------------------------------
(* What ListMethods computes *)

LEMMA CandidatesAreASequence ==
  ASSUME NEW g, IsRow(g), NEW display
  PROVE  Len(Preferences(g, display) \o g.currencies) \in Nat
  <1> DEFINE S == STRING \cup {display, "USD", "USDT"}
  <1>1. display \in S /\ "USD" \in S /\ "USDT" \in S
    BY Zenon
  <1>2. g.currencies \in Seq(S)
    BY DEF IsRow
  <1> HIDE DEF S
  <1>3. <<"USDT">> \in Seq(S) /\ <<>> \in Seq(S) /\ <<display, "USD">> \in Seq(S)
    BY <1>1
  <1>4. Preferences(g, display) \in Seq(S)
    BY <1>3 DEF Preferences
  <1>5. Preferences(g, display) \o g.currencies \in Seq(S)
    BY <1>2, <1>4
  <1>6. QED
    BY <1>5

\* A card is in a currency its gateway accepts.
LEMMA PickPrimaryAccepted ==
  ASSUME NEW g, IsRow(g), NEW display, PickPrimaryCurrency(g, display) # Blank
  PROVE  GwAccepts(g, PickPrimaryCurrency(g, display))
  <1> DEFINE candidates == Preferences(g, display) \o g.currencies
             fits == {i \in 1..Len(candidates) :
                        candidates[i] # Blank /\ Contains(g.currencies, candidates[i])}
             first == Min(fits)
  <1>1. /\ fits # {}
        /\ PickPrimaryCurrency(g, display) = candidates[first]
    BY DEF PickPrimaryCurrency, SelectInSeq
  <1>2. Len(candidates) \in Nat
    BY CandidatesAreASequence
  <1> HIDE DEF candidates
  <1>3. fits \in SUBSET Nat
    BY <1>2
  <1>4. first \in fits
    <2> HIDE DEF fits
    <2>1. \E n \in fits : \A k \in fits : n <= k
      BY <1>1, <1>3, LeastNatural
    <2>2. QED
      BY <2>1 DEF Min
  <1>5. QED
    BY <1>1, <1>4 DEF GwAccepts

-----------------------------------------------------------------------------
(* Dates *)

LEMMA EpochIsNatural == Inv => writes \in Nat /\ faults \in Nat /\ Epoch \in Nat
  BY CheckoutBounds DEF Inv, Shape, Epoch

Reads(h) ==
  \/ ReadPlan(h) \/ ReadDisplay(h) \/ ReadSettle(h) \/ ListGateways(h)
  \/ BuildCard(h) \/ AllCards(h)
  \/ ReadGateway(h) \/ ReadPrices(h) \/ ReadCurrency(h)

Writes == WriteGateway \/ WriteCurrency \/ WritePlan

\* What a step does to the tables and the lists: what disturbs a checkout counts.
LEMMA ReadEffects ==
  ASSUME Inv, NEW h \in Handlers, Reads(h)
  PROVE  /\ UNCHANGED <<gateways, currencies, plan, writes, cards, job>>
         /\ faults' \in {faults, faults + 1}
  <1>1. Local(h)
    BY DEF Reads, ReadPlan, ReadDisplay, ReadSettle, ListGateways, BuildCard, AllCards,
           ReadGateway, ReadPrices, ReadCurrency
  <1>2. UNCHANGED faults \/ Fault
    BY DEF Reads, ReadPlan, ReadDisplay, ReadSettle, ListGateways, BuildCard, AllCards,
           ReadGateway, ReadPrices, ReadCurrency, ReadFails, Refuse
  <1>3. QED
    BY <1>1, <1>2 DEF Local, tables, monolith, Fault

\* The steps that neither read a table for a request, begin one, nor end one.
Elsewhere ==
  \/ \E h \in Handlers : CreateCharge(h) \/ ReceiveAnswer(h) \/ GiveUp(h)
  \/ \E c \in calls : ProviderCreates(c) \/ ProviderRefuses(c) \/ ProviderDeclines(c)
  \/ UNCHANGED vars

LEMMA ElsewhereEffects ==
  Elsewhere => UNCHANGED <<gateways, currencies, plan, writes, faults, cards, job>>
  BY DEF Elsewhere, CreateCharge, ReceiveAnswer, GiveUp, ProviderCreates, ProviderRefuses,
         ProviderDeclines, Local, vars, tables, monolith

LEMMA FinishEffects ==
  ASSUME NEW h \in Handlers, Finish(h)
  PROVE  /\ UNCHANGED <<gateways, currencies, plan, writes, faults>>
         /\ Release({h})
         /\ cards' = [cards EXCEPT ![job[h].order] =
                        IF pc[h] = "ok" /\ job[h].op = "methods" THEN KeptCards(h) ELSE @]
  BY DEF Finish, tables

\* The list an order had, or that of the listing which ends.
LEMMA FinishCards ==
  ASSUME DOMAIN cards = Orders, NEW h \in Handlers, Finish(h), NEW o \in Orders, NEW e \in cards'[o]
  PROVE  e \in cards[o] \/ (pc[h] = "ok" /\ job[h].op = "methods" /\ e \in KeptCards(h))
  <1>1. cards' = [cards EXCEPT ![job[h].order] =
                    IF pc[h] = "ok" /\ job[h].op = "methods" THEN KeptCards(h) ELSE @]
    BY FinishEffects
  <1>2. CASE pc[h] = "ok" /\ job[h].op = "methods"
    BY <1>1, <1>2
  <1>3. CASE ~(pc[h] = "ok" /\ job[h].op = "methods")
    BY <1>1, <1>3
  <1>4. QED
    BY <1>2, <1>3

LEMMA StopEffects ==
  ASSUME NEW hs, Stop(hs)
  PROVE  /\ UNCHANGED <<gateways, currencies, plan, writes, cards>>
         /\ faults' = faults + 1
         /\ Release(hs)
  BY DEF Stop, Fault, tables, monolith

LEMMA WriteEffects ==
  ASSUME Writes
  PROVE  UNCHANGED <<faults, cards, job, pc, work>> /\ writes' = writes + 1
  BY DEF Writes, WriteGateway, WriteCurrency, WritePlan, Write, monolith

\* The two ways to begin, from a card or otherwise.
LEMMA BeginEffects ==
  ASSUME NEW h \in Handlers, NEW request, NEW step, Begin(h, request, step)
  PROVE  /\ UNCHANGED <<gateways, currencies, plan, writes, faults, cards, work>>
         /\ Idle(h)
         /\ job' = [job EXCEPT ![h] = request]
         /\ pc' = [pc EXCEPT ![h] = step]
  BY DEF Begin, tables, Goto

ListingOf(h, o, display, country) ==
  [op |-> "methods", n |-> requests, order |-> o, display |-> display,
   country |-> country, epoch |-> Epoch]

ChargeOf(h, o, c) ==
  [op |-> "charge", n |-> requests, order |-> o, gateway |-> c.gateway,
   pay |-> c.pay, price |-> c.price, card |-> c.card]

\* What a new request is about.
Begun(h, request, step) ==
  /\ Begin(h, request, step)
  /\ \/ request.op = "methods" /\ request.epoch = Epoch /\ step = "plan"
     \/ /\ request.op = "charge" /\ step = "gateway"
        /\ request.card # Nil =>
             /\ \E o \in Orders : request.card \in cards[o]
             /\ request.price = Nil
             /\ request.gateway = request.card.card.gateway
             /\ request.pay = request.card.card.currency

LEMMA MethodsBegun ==
  ASSUME NEW h \in Handlers, NEW o, NEW d, NEW country, BeginMethods(h, o, d, country)
  PROVE  \E request, step : Begun(h, request, step)
  <1>1. Begin(h, ListingOf(h, o, d, country), "plan")
    BY DEF BeginMethods, ListingOf
  <1>2. ListingOf(h, o, d, country).op = "methods" /\ ListingOf(h, o, d, country).epoch = Epoch
    BY DEF ListingOf
  <1>3. Begun(h, ListingOf(h, o, d, country), "plan")
    BY <1>1, <1>2 DEF Begun
  <1>4. QED
    BY <1>3

LEMMA ChargeBegun ==
  ASSUME NEW h \in Handlers, NEW o \in Orders, BeginCharge(h, o)
  PROVE  \E request, step : Begun(h, request, step)
  <1>1. PICK c \in FromCard(o) \cup OtherCharges : Begin(h, ChargeOf(h, o, c), "gateway")
    BY DEF BeginCharge, ChargeOf
  <1>2. /\ ChargeOf(h, o, c).op = "charge" /\ ChargeOf(h, o, c).card = c.card
        /\ ChargeOf(h, o, c).price = c.price /\ ChargeOf(h, o, c).gateway = c.gateway
        /\ ChargeOf(h, o, c).pay = c.pay
    BY DEF ChargeOf
  <1>3. ASSUME c.card # Nil
        PROVE  /\ c.card \in cards[o] /\ c.price = Nil
               /\ c.gateway = c.card.card.gateway /\ c.pay = c.card.card.currency
    BY <1>1, <1>3, ChargesAssumption DEF FromCard
  <1>4. Begun(h, ChargeOf(h, o, c), "gateway")
    BY <1>1, <1>2, <1>3 DEF Begun
  <1>5. QED
    BY <1>4

\* Every step is of one of these kinds.
LEMMA Kinds ==
  ASSUME [OpenNext]_vars
  PROVE  \/ \E h \in Handlers : \E request, step : Begun(h, request, step)
         \/ \E h \in Handlers : Reads(h)
         \/ \E h \in Handlers : Finish(h)
         \/ \E hs \in SUBSET Handlers : Stop(hs)
         \/ Elsewhere
         \/ Writes
         \/ FaultElsewhere
  <1>1. ASSUME NEW h \in Handlers, HandlerStep(h)
        PROVE  Reads(h) \/ Elsewhere \/ Finish(h)
    BY <1>1 DEF HandlerStep, Reads, Elsewhere
  <1>2. ASSUME NEW h \in Handlers, Disconnect(h) PROVE Stop({h})
    BY <1>2 DEF Disconnect
  <1>3. Crash => Stop({h \in Handlers : ~Idle(h)})
    BY DEF Crash
  <1>4. CASE Next
    <2>1. ASSUME NEW h \in Handlers, Disconnect(h) PROVE \E hs \in SUBSET Handlers : Stop(hs)
      BY <2>1, <1>2
    <2>2. Crash => \E hs \in SUBSET Handlers : Stop(hs)
      BY <1>3
    <2>3. QED
      BY <1>1, <1>4, <2>1, <2>2, MethodsBegun, ChargeBegun DEF Next, Elsewhere, Writes
  <1>5. QED
    BY <1>4 DEF OpenNext, Elsewhere

\* What remains of requests whose handlers end.
LEMMA Released ==
  ASSUME DOMAIN job = Handlers, NEW hs, Release(hs), NEW h \in Handlers
  PROVE  \/ job'[h] = NoJob
         \/ job'[h] = job[h] /\ pc'[h] = pc[h] /\ work'[h] = work[h]
  BY DEF Release

LEMMA KeyedKeeps ==
  ASSUME Inv, Keyed, [OpenNext]_vars
  PROVE  Keyed'
  <1>1. ASSUME UNCHANGED <<gateways, currencies>> PROVE Keyed'
    BY <1>1 DEF Keyed
  <1>2. CASE WriteGateway
    <2>1. UNCHANGED currencies
      BY <1>2 DEF WriteGateway
    <2>2. ASSUME NEW g \in GatewayVersions,
                 gateways' = IF g.id \in IdsOf(gateways) THEN UpdateRow(gateways, g)
                             ELSE InsertRow(gateways, g)
          PROVE  Keyed'
      <3>1. \A created : [g EXCEPT !.created = created].id = g.id
        BY RowsAssumption
      <3>2. CASE g.id \in IdsOf(gateways)
        <4>1. ASSUME NEW r \in gateways'
              PROVE  \E f \in gateways :
                       /\ r.id = f.id
                       /\ r = IF f.id = g.id THEN [g EXCEPT !.created = f.created] ELSE f
          BY <2>2, <3>1, <3>2 DEF UpdateRow
        <4>2. QED
          BY <2>1, <4>1 DEF Keyed
      <3>3. CASE g.id \notin IdsOf(gateways)
        BY <2>1, <2>2, <3>3 DEF Keyed, InsertRow, IdsOf
      <3>4. QED
        BY <3>2, <3>3
    <2>3. ASSUME NEW id, gateways' = DeleteRow(gateways, id)
          PROVE  Keyed'
      BY <2>1, <2>3 DEF Keyed, DeleteRow
    <2>4. QED
      BY <1>2, <2>2, <2>3 DEF WriteGateway
  <1>3. CASE WriteCurrency
    BY <1>3, CodesAssumption DEF WriteCurrency, Keyed
  <1>4. CASE WritePlan
    BY <1>1, <1>4 DEF WritePlan
  <1>5. CASE FaultElsewhere
    BY <1>1, <1>5 DEF FaultElsewhere, tables
  <1>6. QED
    BY <1>1, <1>2, <1>3, <1>4, <1>5, Kinds, ReadEffects, ElsewhereEffects, FinishEffects,
       StopEffects, BeginEffects DEF Begun, Writes

\* No step makes a card of a later date than the one it starts at.
LEMMA DatesKeep ==
  ASSUME Inv, Faithful, NEW limit \in Nat, DatedBy(limit), limit = Epoch, [OpenNext]_vars
  PROVE  DatedBy(limit)' /\ Faithful'
  <1> USE DEF DatedBy, Faithful, FromACard
  <1>0. DOMAIN job = Handlers /\ NoJob.op = "none" /\ limit \in 0..limit
    BY DEF Inv, Shape, NoJob
  <1>1. ASSUME UNCHANGED <<job, cards>> PROVE DatedBy(limit)' /\ Faithful'
    BY <1>1
  <1>2. ASSUME NEW h \in Handlers, NEW request, NEW step, Begun(h, request, step)
        PROVE  DatedBy(limit)' /\ Faithful'
    BY <1>0, <1>2, BeginEffects DEF Begun
  <1>3. ASSUME NEW h \in Handlers, Finish(h) PROVE DatedBy(limit)' /\ Faithful'
    <2>1. \A k \in Handlers : job'[k] = NoJob \/ job'[k] = job[k]
      BY <1>0, <1>3, FinishEffects, Released
    <2>2. \A o \in Orders : \A e \in cards'[o] :
            e \in cards[o] \/ (job[h].op = "methods" /\ e \in KeptCards(h))
      BY <1>3, FinishCards
    <2>3. \A e \in KeptCards(h) : e.epoch = job[h].epoch
      BY DEF KeptCards
    <2>4. DOMAIN cards' = Orders
      BY <1>3, FinishEffects
    <2>5. QED
      BY <1>0, <2>1, <2>2, <2>3, <2>4
  <1>4. ASSUME NEW hs, Stop(hs) PROVE DatedBy(limit)' /\ Faithful'
    <2>1. \A k \in Handlers : job'[k] = NoJob \/ job'[k] = job[k]
      BY <1>0, <1>4, StopEffects, Released
    <2>2. QED
      BY <1>0, <1>4, <2>1, StopEffects
  <1>5. CASE FaultElsewhere
    BY <1>1, <1>5 DEF FaultElsewhere, monolith
  <1>6. QED
    BY <1>1, <1>2, <1>3, <1>4, <1>5, Kinds, ReadEffects, ElsewhereEffects, WriteEffects

\* The epoch stands still only where nothing is written and nothing fails.
LEMMA EpochMoves ==
  ASSUME Inv, [OpenNext]_vars
  PROVE  /\ Epoch' \in Nat /\ Epoch <= Epoch'
         /\ Epoch' = Epoch => UNCHANGED <<gateways, currencies, plan, writes, faults>>
  <1>0. writes \in Nat /\ faults \in Nat
    BY EpochIsNatural
  <1>1. \/ UNCHANGED <<gateways, currencies, plan, writes>> /\ faults' \in {faults, faults + 1}
        \/ writes' = writes + 1 /\ faults' = faults
        \/ FaultElsewhere
    BY Kinds, ReadEffects, ElsewhereEffects, FinishEffects, StopEffects, BeginEffects,
       WriteEffects DEF Begun
  <1>2. CASE FaultElsewhere
    <2>1. UNCHANGED <<gateways, currencies, plan, writes>> /\ faults' \in faults..MaxFaults
      BY <1>2 DEF FaultElsewhere, tables
    <2>2. MaxFaults \in Nat
      BY CheckoutBounds
    <2>3. faults' \in Nat /\ faults <= faults'
      BY <1>0, <2>1, <2>2
    <2>4. Epoch' = writes + faults' /\ Epoch = writes + faults
      BY <2>1 DEF Epoch
    <2> HIDE DEF Epoch
    <2>a. \A w, f, g \in Nat : f <= g => /\ w + g \in Nat /\ w + f <= w + g
                                         /\ w + g = w + f => g = f
      OBVIOUS
    <2>5. /\ Epoch' \in Nat /\ Epoch <= Epoch'
          /\ Epoch' = Epoch => faults' = faults
      BY <1>0, <2>3, <2>4, <2>a
    <2>6. QED
      BY <2>1, <2>5
  <1>3. QED
    BY <1>0, <1>1, <1>2 DEF Epoch

-----------------------------------------------------------------------------
(* While the epoch stands still *)

Still == UNCHANGED <<gateways, currencies, plan, writes, faults>>

LEMMA NoFault ==
  ASSUME Inv, Still
  PROVE  ~Fault
  BY EpochIsNatural DEF Still, Fault

LEMMA SameCards ==
  ASSUME Still, NEW c
  PROVE  /\ Stands(c) => Stands(c)'
         /\ TellsPrice(c) => TellsPrice(c)'
  BY DEF Still, Stands, TellsPrice, Active, GetByCode

LEMMA SameHandler ==
  ASSUME Still, NEW h \in Handlers,
         pc'[h] = pc[h], job'[h] = job[h], work'[h] = work[h],
         Listed(h), Asked(h)
  PROVE  Listed(h)' /\ Asked(h)'
  <1>1. UNCHANGED Epoch /\ UNCHANGED Active(gateways)
    BY DEF Still, Epoch, Active
  <1>2. Listed(h)'
    BY <1>1, SameCards DEF Still, Listed
  <1>3. Asked(h)'
    BY <1>1, SameCards DEF Still, Asked, FromACard, SelectByID
  <1>4. QED
    BY <1>2, <1>3

\* The card of an active gateway tells what its gateway, the currency and the plan say.
LEMMA CardsAreTrue ==
  ASSUME Inv, Keyed, plan # Nil,
         NEW g \in Active(gateways),
         NEW quote, NEW d \in currencies,
         quote.display = d.code, quote.displayAmount = AmountFor(plan, d),
         NEW cur \in GetByCode(currencies, PickPrimaryCurrency(g, quote.display)),
         NEW c,
         c = BuildSingleOption(g, plan, quote, cur,
                               GetByCode(currencies, SettlementCode(cur, quote)))
  PROVE  Stands(c) /\ TellsPrice(c)
  <1> DEFINE settle == SettlementCode(cur, quote)
             found == GetByCode(currencies, settle)
  <1>1. /\ cur \in currencies /\ cur.code = PickPrimaryCurrency(g, quote.display)
        /\ cur.code # Blank
    BY DEF GetByCode, Keyed
  <1>2. GwAccepts(g, cur.code)
    BY <1>1, PickPrimaryAccepted DEF Inv, Vouched, Active
  <1>3. /\ c.gateway = g.id /\ c.provider = g.provider /\ c.currency = cur.code
        /\ c.amount = AmountFor(plan, cur)
        /\ c.network # Blank => c.network = g.config.network
        /\ c.settlement = settle
        /\ c.settlementAmount = IF cur.code = settle THEN AmountFor(plan, cur)
                                ELSE IF found = {} THEN quote.settlementAmount
                                ELSE AmountFor(plan, CHOOSE s \in found : TRUE)
        /\ c.display = quote.display /\ c.displayAmount = quote.displayAmount
        /\ c.note = (cur.code # quote.display \/ cur.code # settle)
    BY DEF BuildSingleOption, Converts
  <1>4. Stands(c)
    BY <1>1, <1>2, <1>3 DEF Stands
  <1>5. ASSUME ~c.note
        PROVE  /\ c.display = c.currency /\ c.settlement = c.currency
               /\ c.displayAmount = c.amount /\ c.settlementAmount = c.amount
    <2>1. cur.code = quote.display /\ cur.code = settle
      BY <1>3, <1>5
    <2>2. cur = d
      BY <1>1, <2>1 DEF Keyed
    <2>3. QED
      BY <1>3, <2>1, <2>2
  <1>6. ASSUME NEW s \in GetByCode(currencies, c.settlement)
        PROVE  c.settlementAmount = AmountFor(plan, s)
    <2>1. s \in currencies /\ s.code = settle /\ s \in found
      BY <1>3, <1>6 DEF GetByCode
    <2>2. CASE cur.code = settle
      <3>1. cur = s
        BY <1>1, <2>1, <2>2 DEF Keyed
      <3>2. QED
        BY <1>3, <2>2, <3>1
    <2>3. CASE cur.code # settle
      <3>1. \A t \in found : t = s
        BY <2>1 DEF Keyed, GetByCode
      <3>2. (CHOOSE t \in found : TRUE) = s
        BY <2>1, <3>1
      <3>3. QED
        BY <1>3, <2>1, <2>3, <3>2
    <2>4. QED
      BY <2>2, <2>3
  <1>7. QED
    BY <1>4, <1>5, <1>6 DEF TellsPrice

\* What Goto does to a handler's step.
LEMMA GotoGoes ==
  ASSUME Inv, NEW h \in Handlers, NEW step, Goto(h, step)
  PROVE  pc'[h] = step
  BY DEF Inv, Shape, Goto

\* What BuildCard does to a handler's fields.
Deal(h, todo, options) ==
  work' = [work EXCEPT ![h].todo = todo, ![h].options = options]

LEMMA DealDeals ==
  ASSUME Shape, NEW h \in Handlers, NEW todo, NEW options, Deal(h, todo, options)
  PROVE  /\ work'[h].todo = todo /\ work'[h].options = options
         /\ work'[h].plan = work[h].plan /\ work'[h].quote = work[h].quote
  BY DEF Shape, Deal, Fields

\* A read of a listing keeps it true to the tables.
LEMMA ListingReads ==
  ASSUME Inv, Keyed, Still, NEW h \in Handlers, Listed(h),
         job[h].op = "methods", job[h].epoch = Epoch, UNCHANGED job,
         \/ ReadPlan(h) \/ ReadDisplay(h) \/ ReadSettle(h) \/ ListGateways(h)
         \/ BuildCard(h) \/ AllCards(h)
  PROVE  Listed(h)'
  <1> USE NoFault
  <1>1. /\ pc[h] \in Listing \ {"plan"} => plan # Nil /\ work[h].plan = plan
        /\ pc[h] = "settle" => work[h].display \in currencies
        /\ pc[h] \in {"list", "cards"} =>
             \E d \in currencies : /\ work[h].quote.display = d.code
                                   /\ work[h].quote.displayAmount = AmountFor(plan, d)
        /\ pc[h] = "cards" => work[h].todo \subseteq Active(gateways)
        /\ \A c \in work[h].options : Stands(c) /\ TellsPrice(c)
    BY DEF Listed
  <1>2. Shape /\ DOMAIN work[h] = Fields /\ work = [k \in Handlers |-> work[k]]
    BY DEF Inv, Shape
  <1>3. ASSUME /\ pc'[h] \in Listing \ {"plan"} => plan # Nil /\ work'[h].plan = plan
               /\ pc'[h] = "settle" => work'[h].display \in currencies
               /\ pc'[h] \in {"list", "cards"} =>
                    \E d \in currencies : /\ work'[h].quote.display = d.code
                                          /\ work'[h].quote.displayAmount = AmountFor(plan, d)
               /\ pc'[h] = "cards" => work'[h].todo \subseteq Active(gateways)
               /\ \A c \in work'[h].options : Stands(c) /\ TellsPrice(c)
        PROVE  Listed(h)'
    <2>1. UNCHANGED Active(gateways)
      BY DEF Still, Active
    <2>2. \A c \in work'[h].options : Stands(c)' /\ TellsPrice(c)'
      BY <1>3, SameCards
    <2>3. QED
      BY <1>3, <2>1, <2>2 DEF Still, Listed
  <1>4. ASSUME NEW answer \in Answers, Refuse(h, answer)
        PROVE  Listed(h)'
    <2>1. pc'[h] = answer /\ UNCHANGED work
      BY <1>4, GotoGoes DEF Refuse
    <2>2. QED
      BY <1>1, <1>3, <2>1 DEF Answers, Listing
  <1>5. ASSUME NEW field \in Fields \ {"options", "ref"}, NEW value, Keep(h, field, value)
        PROVE  /\ work'[h][field] = value
               /\ \A other \in Fields : other # field => work'[h][other] = work[h][other]
               /\ work'[h].options = work[h].options
    BY <1>2, <1>5, KeepKeeps DEF Fields
  <1>6. CASE ReadPlan(h)
    <2>1. CASE plan # Nil /\ Keep(h, "plan", plan) /\ Goto(h, "display")
      <3>1. work'[h].plan = plan /\ work'[h].options = work[h].options
        BY <1>5, <2>1 DEF Fields
      <3>2. pc'[h] = "display"
        BY <2>1, GotoGoes
      <3>3. QED
        BY <1>1, <1>3, <2>1, <3>1, <3>2
    <2>2. QED
      BY <1>4, <1>6, <2>1 DEF ReadPlan, ReadFails, Answers
  <1>7. CASE ReadDisplay(h)
    <2>1. ASSUME NEW cur \in currencies, Keep(h, "display", cur), Goto(h, "settle"),
                 pc[h] = "display"
          PROVE  Listed(h)'
      <3>1. /\ work'[h].display = cur /\ work'[h].plan = work[h].plan
            /\ work'[h].options = work[h].options
        BY <1>5, <2>1 DEF Fields
      <3>2. pc'[h] = "settle"
        BY <2>1, GotoGoes
      <3>3. QED
        BY <1>1, <1>3, <2>1, <3>1, <3>2 DEF Listing
    <2>2. QED
      BY <1>4, <1>7, <2>1 DEF ReadDisplay, ReadFails, Answers, GetByCode
  <1>8. CASE ReadSettle(h)
    <2>1. PICK cur : Keep(h, "quote", QuoteForPlan(work[h].plan, work[h].display, cur))
      BY <1>8 DEF ReadSettle
    <2>2. pc[h] = "settle" /\ Goto(h, "list")
      BY <1>8 DEF ReadSettle
    <2>3. /\ work'[h].quote = QuoteForPlan(plan, work[h].display, cur)
          /\ work'[h].plan = plan
          /\ work'[h].options = work[h].options
      BY <1>1, <1>5, <2>1, <2>2 DEF Fields, Listing
    <2>4. /\ work'[h].quote.display = work[h].display.code
          /\ work'[h].quote.displayAmount = AmountFor(plan, work[h].display)
      BY <2>3 DEF QuoteForPlan
    <2>5. pc'[h] = "list"
      BY <2>2, GotoGoes
    <2>6. QED
      BY <1>1, <1>3, <2>2, <2>3, <2>4, <2>5 DEF Listing
  <1>9. CASE ListGateways(h)
    <2>1. CASE /\ Keep(h, "todo", {g \in Active(gateways) :
                                     GatewayEligible(g, work[h].quote, job[h].country)})
               /\ Goto(h, "cards")
      <3>1. /\ work'[h].todo \subseteq Active(gateways)
            /\ work'[h].plan = work[h].plan /\ work'[h].quote = work[h].quote
            /\ work'[h].options = work[h].options
        BY <1>5, <2>1 DEF Fields
      <3>2. pc[h] = "list" /\ pc'[h] = "cards"
        BY <1>9, <2>1, GotoGoes DEF ListGateways
      <3>3. QED
        BY <1>1, <1>3, <3>1, <3>2 DEF Listing
    <2>2. QED
      BY <1>9, <2>1 DEF ListGateways, ReadFails
  <1>10. CASE BuildCard(h)
    <2> DEFINE quote == work[h].quote
               Card(g, cur) == BuildSingleOption(g, work[h].plan, quote, cur,
                                 GetByCode(currencies, SettlementCode(cur, quote)))
               charged(g) == GetByCode(currencies, PickPrimaryCurrency(g, quote.display))
               g == CHOOSE r \in work[h].todo : TRUE
               made == {Card(g, cur) : cur \in charged(g)}
    <2>1. pc[h] = "cards" /\ pc'[h] = "cards" /\ work[h].todo # {}
      BY <1>10 DEF BuildCard
    <2>2. Deal(h, work[h].todo \ {g}, work[h].options \cup made)
      BY <1>10 DEF BuildCard, Deal
    <2>3. /\ work'[h].todo \subseteq work[h].todo
          /\ work'[h].plan = work[h].plan /\ work'[h].quote = work[h].quote
          /\ work'[h].options = work[h].options \cup made
      <3> HIDE DEF made, g
      <3>1. QED
        BY <1>2, <2>2, DealDeals
    <2>4. g \in Active(gateways) /\ plan # Nil /\ work[h].plan = plan
      BY <1>1, <2>1 DEF Listing
    <2>5. PICK d \in currencies : /\ quote.display = d.code
                                  /\ quote.displayAmount = AmountFor(plan, d)
      BY <1>1, <2>1
    <2>6. \A cur \in charged(g) : Stands(Card(g, cur)) /\ TellsPrice(Card(g, cur))
      BY <2>4, <2>5, CardsAreTrue
    <2> HIDE DEF Card, charged
    <2>7. \A c \in work'[h].options : Stands(c) /\ TellsPrice(c)
      BY <1>1, <2>3, <2>6
    <2> HIDE DEF quote
    <2>8. QED
      BY <1>1, <1>3, <2>1, <2>3, <2>4, <2>7
  <1>11. CASE AllCards(h)
    BY <1>4, <1>11 DEF AllCards, Answers
  <1>12. QED
    BY <1>6, <1>7, <1>8, <1>9, <1>10, <1>11

\* The row a card stands for is the only one with its id.
LEMMA CardRow ==
  ASSUME Keyed, NEW card, Stands(card), NEW row \in SelectByID(Active(gateways), card.gateway)
  PROVE  /\ row.provider = card.provider
         /\ GwAccepts(row, card.currency) /\ card.currency # Blank
         /\ card.network # Blank => row.config.network = card.network
  BY DEF Keyed, Stands, SelectByID, Active

\* A read of a charge from a card finds what the card was made from.
LEMMA ChargeReads ==
  ASSUME Inv, Keyed, Faithful, Still, NEW h \in Handlers, Asked(h),
         FromACard(job[h]), job[h].card.epoch = Epoch, UNCHANGED job,
         ReadGateway(h) \/ ReadPrices(h) \/ ReadCurrency(h)
  PROVE  Asked(h)'
  <1> USE NoFault
  <1> DEFINE card == job[h].card.card
             rows == SelectByID(Active(gateways), card.gateway)
  <1>1. /\ Stands(card)
        /\ pc[h] = "gateway" => work[h].row = Nil
        /\ pc[h] \in {"gateway", "price", "amount"} => work[h].chosen = Nil
        /\ pc[h] \in {"price", "amount", "call"} => work[h].row \in rows
        /\ work[h].row # Nil => work[h].row \in rows
        /\ pc[h] = "amount" => work[h].plan = plan /\ work[h].currency = card.currency
        /\ work[h].chosen \in {Nil, Chosen(card)}
    BY DEF Asked
  <1>2. Shape /\ DOMAIN work[h] = Fields /\ work = [k \in Handlers |-> work[k]]
    BY DEF Inv, Shape
  <1>3. job[h].price = Nil /\ job[h].gateway = card.gateway /\ job[h].pay = card.currency
    BY DEF Faithful
  <1>4. ASSUME pc'[h] \in {"price", "amount", "call"},
               work'[h].row \in rows,
               pc'[h] \in {"price", "amount"} => work'[h].chosen = Nil,
               pc'[h] = "amount" => work'[h].plan = plan /\ work'[h].currency = card.currency,
               work'[h].chosen \in {Nil, Chosen(card)}
        PROVE  Asked(h)'
    <2>1. UNCHANGED rows /\ UNCHANGED card
      BY DEF Still, Active, SelectByID
    <2>2. Stands(card)'
      <3>1. PICK c : c = card
        OBVIOUS
      <3>2. Stands(c)'
        BY <1>1, <3>1, SameCards
      <3>3. card' = c
        BY <3>1
      <3>4. QED
        BY <3>2, <3>3 DEF Stands
    <2>3. QED
      BY <1>4, <2>1, <2>2 DEF Still, Asked, Refusals, Chosen
  <1>5. CASE ReadGateway(h)
    <2> DEFINE found == SelectByID(gateways, job[h].gateway)
    <2>1. Usable(found) # {} /\ Usable(found) = rows /\ found # {}
      BY <1>1, <1>3 DEF Usable, SelectByID, Active, Stands
    <2>2. PICK g \in rows :
            /\ work' = [work EXCEPT ![h] = [@ EXCEPT !.row = g, !.chosen = job[h].price]]
            /\ Goto(h, "price")
      BY <1>3, <1>5, <2>1 DEF ReadGateway, ReadFails
    <2>3. work'[h].row = g /\ work'[h].chosen = Nil
      BY <1>2, <1>3, <2>2 DEF Fields
    <2>4. pc'[h] = "price"
      BY <2>2, GotoGoes
    <2>5. QED
      BY <1>4, <2>2, <2>3, <2>4
  <1>6. CASE ReadPrices(h)
    <2> DEFINE code == PickCurrency(work[h].row, job[h].pay)
    <2>1. pc[h] = "price" /\ plan # Nil
      BY <1>1, <1>6 DEF ReadPrices, Stands
    <2>2. code = card.currency /\ card.currency # Blank
      BY <1>1, <1>3, <2>1, CardRow DEF PickCurrency
    <2>3. /\ work' = [work EXCEPT ![h] = [@ EXCEPT !.plan = plan, !.currency = code]]
          /\ Goto(h, "amount")
      BY <1>6, <2>1, <2>2 DEF ReadPrices, ReadFails
    <2>4. /\ work'[h].row = work[h].row /\ work'[h].chosen = work[h].chosen
          /\ work'[h].plan = plan /\ work'[h].currency = card.currency
      BY <1>2, <2>2, <2>3 DEF Fields
    <2>5. pc'[h] = "amount"
      BY <2>3, GotoGoes
    <2>6. QED
      BY <1>1, <1>4, <2>1, <2>4, <2>5
  <1>7. CASE ReadCurrency(h)
    <2> DEFINE found == GetByCode(currencies, work[h].currency)
    <2>1. pc[h] = "amount" /\ work[h].plan = plan /\ work[h].currency = card.currency
      BY <1>1, <1>7 DEF ReadCurrency
    <2>2. \E cur \in found : card.amount = AmountFor(plan, cur)
      BY <1>1, <2>1 DEF Stands, GetByCode
    <2>3. \A cur \in found : cur.code = card.currency /\ AmountFor(plan, cur) = card.amount
      BY <2>1, <2>2 DEF Keyed, GetByCode
    <2>4. PICK cur \in found :
            /\ Keep(h, "chosen", [currency |-> cur.code,
                                  amount |-> AmountFor(work[h].plan, cur)])
            /\ Goto(h, "call")
      BY <1>7, <2>2 DEF ReadCurrency
    <2>5. work'[h].chosen = Chosen(card) /\ work'[h].row = work[h].row
      BY <1>2, <2>1, <2>3, <2>4, KeepKeeps DEF Chosen, Fields
    <2>6. pc'[h] = "call"
      BY <2>4, GotoGoes
    <2>7. QED
      BY <1>1, <1>4, <2>1, <2>5, <2>6
  <1>8. QED
    BY <1>5, <1>6, <1>7

\* Without a list of this epoch in the step, those there are keep.
LEMMA SameOffers ==
  ASSUME Still, Offered, UNCHANGED cards
  PROVE  Offered'
  BY SameCards DEF Still, Offered, Epoch

LEMMA BeginKeepsCurrent ==
  ASSUME Inv, Still, Current, NEW h \in Handlers, NEW request, NEW step,
         Begun(h, request, step)
  PROVE  Current'
  <1>1. /\ \A k \in Handlers : k # h => /\ pc'[k] = pc[k] /\ job'[k] = job[k]
                                        /\ work'[k] = work[k]
        /\ pc'[h] = step /\ job'[h] = request /\ work'[h] = NothingRead
        /\ UNCHANGED cards
    BY BeginEffects DEF Begun, Inv, Busy, Shape
  <1>2. Epoch' = Epoch
    BY DEF Still, Epoch
  <1>3. NothingRead.options = {} /\ NothingRead.row = Nil /\ NothingRead.chosen = Nil
    BY DEF NothingRead
  <1>4. Listed(h)'
    BY <1>1, <1>3 DEF Begun, Listed, Listing
  <1>5. Asked(h)'
    <2>1. SUFFICES ASSUME FromACard(request), request.card.epoch = Epoch
                   PROVE  Asked(h)'
      BY <1>1, <1>2 DEF Asked, FromACard
    <2>2. PICK c : c = request.card.card
      OBVIOUS
    <2>3. step = "gateway" /\ Stands(c)
      BY <2>1, <2>2 DEF Begun, FromACard, Current, Offered
    <2>4. Stands(c)' /\ c = job'[h].card.card
      BY <1>1, <2>2, <2>3, SameCards
    <2>5. Stands(job[h].card.card)'
      BY <2>4 DEF Stands
    <2>6. QED
      BY <1>1, <1>3, <2>3, <2>5 DEF Asked, Refusals
  <1>6. QED
    BY <1>1, <1>4, <1>5, SameHandler, SameOffers DEF Current

LEMMA ReadKeepsCurrent ==
  ASSUME Inv, Keyed, Faithful, Still, Current, NEW h \in Handlers, Reads(h)
  PROVE  Current'
  <1>1. UNCHANGED <<cards, job>> /\ Epoch' = Epoch
    BY ReadEffects DEF Still, Epoch
  <1>2. ASSUME NEW k \in Handlers, k # h
        PROVE  Listed(k)' /\ Asked(k)'
    <2>1. ReadStep(h)
      BY ReadsAreReadSteps DEF Reads
    <2>2. pc'[k] = pc[k] /\ work'[k] = work[k] /\ job'[k] = job[k]
      BY <1>1, <1>2, <2>1 DEF ReadStep, Inv, Shape
    <2>3. QED
      BY <2>2, SameHandler DEF Current
  <1>3. /\ \/ ReadPlan(h) \/ ReadDisplay(h) \/ ReadSettle(h) \/ ListGateways(h)
           \/ BuildCard(h) \/ AllCards(h)
           => job[h].op = "methods"
        /\ ReadGateway(h) \/ ReadPrices(h) \/ ReadCurrency(h) => job[h].op = "charge"
    BY DEF Inv, Busy, Listing, Charging, ReadPlan, ReadDisplay, ReadSettle, ListGateways,
           BuildCard, AllCards, ReadGateway, ReadPrices, ReadCurrency
  <1>4. Listed(h)'
    <2>1. CASE job[h].op = "methods" /\ job[h].epoch = Epoch
      BY <1>1, <1>3, <2>1, ListingReads DEF Current, Reads
    <2>2. CASE ~(job[h].op = "methods" /\ job[h].epoch = Epoch)
      BY <1>1, <2>2 DEF Listed
    <2>3. QED
      BY <2>1, <2>2
  <1>5. Asked(h)'
    <2>1. CASE FromACard(job[h]) /\ job[h].card.epoch = Epoch
      BY <1>1, <1>3, <2>1, ChargeReads DEF Current, Reads, FromACard
    <2>2. CASE ~(FromACard(job[h]) /\ job[h].card.epoch = Epoch)
      BY <1>1, <2>2 DEF Asked, FromACard
    <2>3. QED
      BY <2>1, <2>2
  <1>6. QED
    BY <1>1, <1>2, <1>4, <1>5, SameOffers DEF Current

\* The list a finished listing leaves is true to the tables.
LEMMA FinishKeepsCurrent ==
  ASSUME Inv, Still, Current, DOMAIN cards = Orders, NEW h \in Handlers, Finish(h)
  PROVE  Current'
  <1>1. DOMAIN job = Handlers /\ Epoch' = Epoch /\ Release({h})
    BY FinishEffects DEF Inv, Shape, Still, Epoch
  <1>2. ASSUME NEW k \in Handlers
        PROVE  Listed(k)' /\ Asked(k)'
    <2>1. CASE job'[k] = NoJob
      BY <2>1 DEF NoJob, Listed, Asked, FromACard
    <2>2. CASE job'[k] # NoJob
      BY <1>1, <2>2, Released, SameHandler DEF Current
    <2>3. QED
      BY <2>1, <2>2
  <1>3. ASSUME NEW o \in Orders, NEW e \in cards'[o], e.epoch = Epoch
        PROVE  Stands(e.card)'
    <2>1. PICK c : c = e.card
      OBVIOUS
    <2>2. CASE e \in cards[o]
      BY <1>3, <2>1, <2>2, SameCards DEF Current, Offered
    <2>3. CASE job[h].op = "methods" /\ e \in KeptCards(h)
      <3>1. c \in work[h].options /\ job[h].epoch = Epoch
        BY <1>3, <2>1, <2>3 DEF KeptCards
      <3>2. Stands(c)
        BY <2>3, <3>1 DEF Current, Listed
      <3>3. QED
        BY <2>1, <3>2, SameCards
    <2>4. QED
      BY <2>2, <2>3, FinishCards
  <1>4. Offered'
    BY <1>1, <1>3 DEF Offered
  <1>5. QED
    BY <1>2, <1>4 DEF Current

LEMMA ElsewhereKeepsCurrent ==
  ASSUME Inv, Keyed, Still, Current, Elsewhere
  PROVE  Current'
  <1>1. UNCHANGED <<cards, job>> /\ Epoch' = Epoch /\ Offered'
    BY ElsewhereEffects, SameOffers DEF Current, Still, Epoch
  <1>2. ASSUME NEW h \in Handlers, pc'[h] = pc[h], work'[h] = work[h]
        PROVE  Listed(h)' /\ Asked(h)'
    BY <1>1, <1>2, SameHandler DEF Current
  \* A charge whose row was read goes on to a step after its reads.
  <1>3. ASSUME NEW h \in Handlers, job[h].op = "charge",
               pc'[h] \in {"wait", "ok", "invalid_input", "provider_error"},
               pc'[h] = "invalid_input" => pc[h] = "call" /\ work[h].row.provider \notin Registry,
               work'[h].row = work[h].row, work'[h].chosen = work[h].chosen
        PROVE  Listed(h)' /\ Asked(h)'
    <2>1. Listed(h)'
      BY <1>1, <1>3 DEF Listed
    <2>2. SUFFICES ASSUME FromACard(job[h]), job[h].card.epoch = Epoch
                   PROVE  Asked(h)'
      BY <1>1, <2>1 DEF Asked, FromACard
    <2>3. PICK c : c = job[h].card.card
      OBVIOUS
    <2>4. /\ Stands(c)
          /\ pc[h] = "call" => work[h].row \in SelectByID(Active(gateways), c.gateway)
          /\ work[h].row # Nil => work[h].row \in SelectByID(Active(gateways), c.gateway)
          /\ work[h].chosen \in {Nil, Chosen(c)}
      BY <2>2, <2>3 DEF Current, Asked
    <2>5. Stands(c)' /\ c = job'[h].card.card /\ UNCHANGED SelectByID(Active(gateways), c.gateway)
      BY <1>1, <2>3, <2>4, SameCards DEF Still, SelectByID, Active
    <2>6. pc'[h] = "invalid_input" => c.provider \notin Registry
      BY <1>3, <2>4, CardRow
    <2>7. QED
      BY <1>3, <2>1, <2>4, <2>5, <2>6 DEF Asked, Refusals, Chosen, Stands
  <1>4. ASSUME NEW h \in Handlers, CreateCharge(h) \/ ReceiveAnswer(h) \/ GiveUp(h),
               NEW k \in Handlers
        PROVE  Listed(k)' /\ Asked(k)'
    <2>1. k # h => pc'[k] = pc[k] /\ work'[k] = work[k]
      BY <1>4 DEF CreateCharge, ReceiveAnswer, GiveUp, Goto, Keep, Inv, Shape
    <2>2. /\ job[h].op = "charge"
          /\ pc'[h] \in {"wait", "ok", "invalid_input", "provider_error"}
          /\ pc'[h] = "invalid_input" => pc[h] = "call" /\ work[h].row.provider \notin Registry
          /\ work'[h].row = work[h].row /\ work'[h].chosen = work[h].chosen
      BY <1>4 DEF CreateCharge, ReceiveAnswer, GiveUp, Goto, Keep, Inv, Shape, Busy, Charging,
                  Fields
    <2>3. QED
      BY <1>2, <1>3, <2>1, <2>2
  <1>5. ASSUME NEW c \in calls, NEW h \in Handlers,
               ProviderCreates(c) \/ ProviderRefuses(c) \/ ProviderDeclines(c)
        PROVE  Listed(h)' /\ Asked(h)'
    <2>1. /\ work'[h] = work[h]
          /\ \/ pc'[h] = pc[h]
             \/ pc[h] = "wait" /\ pc'[h] \in {"ok", "provider_error"}
      BY <1>5 DEF ProviderCreates, ProviderRefuses, ProviderDeclines, Answered
    <2>2. QED
      BY <1>2, <1>3, <2>1 DEF Inv, Busy, Charging
  <1>6. UNCHANGED vars => \A h \in Handlers : Listed(h)' /\ Asked(h)'
    BY <1>2 DEF vars
  <1>7. QED
    BY <1>1, <1>4, <1>5, <1>6 DEF Elsewhere, Current

-----------------------------------------------------------------------------
(* The invariant *)

LEMMA OffersInitially == Init => OffersInv
  <1> SUFFICES ASSUME Init PROVE OffersInv
    OBVIOUS
  <1>1. NoJob.op = "none"
    BY DEF NoJob
  <1>2. Keyed
    BY KeysAssumption, CodesAssumption DEF Init, Keyed
  <1>3. DatedBy(Epoch) /\ Faithful
    BY <1>1 DEF Init, DatedBy, Faithful, FromACard
  <1>4. Current
    BY <1>1 DEF Init, Current, Listed, Asked, Offered, FromACard
  <1>5. QED
    BY <1>2, <1>3, <1>4 DEF OffersInv

LEMMA CurrentKeeps ==
  ASSUME Inv, OffersInv, [OpenNext]_vars, Epoch' = Epoch
  PROVE  Current'
  <1>1. Still /\ writes \in Nat /\ faults \in Nat
    BY EpochMoves, EpochIsNatural DEF Still
  <1>2. ASSUME NEW hs, Stop(hs) PROVE FALSE
    BY <1>1, <1>2, StopEffects DEF Still
  <1>3. ~Writes
    BY <1>1, WriteEffects DEF Still
  <1>4. FaultElsewhere => Current'
    BY <1>1, SameHandler, SameOffers DEF FaultElsewhere, monolith, OffersInv, Current
  <1>5. QED
    BY <1>1, <1>2, <1>3, <1>4, Kinds, BeginKeepsCurrent, ReadKeepsCurrent,
       FinishKeepsCurrent, ElsewhereKeepsCurrent DEF OffersInv, DatedBy

LEMMA OffersInvariance == Inv /\ OffersInv /\ [OpenNext]_vars => OffersInv'
  <1> SUFFICES ASSUME Inv, OffersInv, [OpenNext]_vars PROVE OffersInv'
    OBVIOUS
  <1>1. PICK limit \in Nat : limit = Epoch
    BY EpochIsNatural
  <1>2. DatedBy(limit)' /\ Faithful'
    <2>1. DatedBy(limit)
      BY <1>1 DEF OffersInv
    <2>2. QED
      BY <1>1, <2>1, DatesKeep DEF OffersInv
  <1>3. Epoch' \in Nat /\ limit <= Epoch'
    BY <1>1, EpochMoves
  <1>4. DatedBy(Epoch)'
    <2>1. 0..limit \subseteq 0..Epoch'
      BY <1>3
    <2>2. QED
      BY <1>2, <2>1 DEF DatedBy
  <1>5. CASE Epoch' = Epoch
    BY <1>2, <1>4, <1>5, KeyedKeeps, CurrentKeeps DEF OffersInv
  <1>6. CASE Epoch' # Epoch
    <2>1. Epoch' \notin 0..limit
      BY <1>1, <1>3, <1>6
    <2>2. Current'
      BY <1>2, <2>1 DEF DatedBy, Current, Listed, Asked, Offered, FromACard
    <2>3. QED
      BY <1>2, <1>4, <2>2, KeyedKeeps DEF OffersInv
  <1>7. QED
    BY <1>5, <1>6

LEMMA OffersInvHolds == Spec => [](Inv /\ OffersInv)
  <1>1. [Next]_vars => [OpenNext]_vars
    BY DEF OpenNext
  <1>2. QED
    BY <1>1, Initially, Invariance, OffersInitially, OffersInvariance, PTL DEF Spec

-----------------------------------------------------------------------------
(* Theorems *)

\* Whatever overlaps with it, a charge from a card is made as the card said, and is
\* not refused for what the card could have told, unless a table was written or
\* something failed since the card's listing began.
THEOREM OffersAreHonoured == Spec => []OfferHonoured
  <1>1. Inv /\ OffersInv => OfferHonoured
    <2> SUFFICES ASSUME Inv, OffersInv, NEW h \in Handlers,
                        job[h].op = "charge", job[h].card # Nil, job[h].card.epoch = Epoch
                 PROVE  LET card == job[h].card.card IN
                        /\ pc[h] \in Refusals => card.provider \notin Registry
                        /\ work[h].chosen # Nil => work[h].chosen = Chosen(card)
                        /\ (work[h].row # Nil /\ card.network # Blank) =>
                             work[h].row.config.network = card.network
      BY DEF OfferHonoured, Refusals, Chosen
    <2>1. Asked(h) /\ FromACard(job[h])
      BY DEF OffersInv, Current, FromACard
    <2>2. QED
      BY <2>1, CardRow DEF OffersInv, Asked
  <1>2. QED
    BY <1>1, OffersInvHolds, PTL

\* The cards of a listing that nothing disturbed tell the price.
THEOREM CardsAreTruthful == Spec => []CardsTellThePrice
  <1>1. Inv /\ OffersInv => CardsTellThePrice
    BY DEF OffersInv, Current, Listed, TellsPrice, CardsTellThePrice
  <1>2. QED
    BY <1>1, OffersInvHolds, PTL

=============================================================================
