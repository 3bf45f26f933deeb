---------------------------- MODULE CheckoutProofs ----------------------------
(***************************************************************************)
(* Proofs about Checkout, for every number of requests in flight, every    *)
(* set of orders and rows, and every value of the bounds.                  *)
(***************************************************************************)
EXTENDS Checkout, TLAPS

Fields == {"row", "plan", "display", "quote", "todo", "options", "currency", "chosen", "ref"}

Listing == {"plan", "display", "settle", "list", "cards"}
Reading == Listing \cup {"gateway", "price", "amount"}
Charging == {"gateway", "price", "amount", "call", "wait"}
Refusals == {"not_found", "invalid_input", "internal"}

Steps == {"idle"} \cup Listing \cup Charging \cup Answers

Numbers == 0..(requests - 1)

Made == calls \cup sessions

-----------------------------------------------------------------------------
(* The inductive invariant, in parts *)

Shape ==
  /\ pc \in [Handlers -> Steps]
  /\ DOMAIN job = Handlers
  /\ work = [h \in Handlers |-> work[h]]
  /\ \A h \in Handlers : DOMAIN work[h] = Fields
  /\ refs \in [Orders -> SUBSET Numbers]
  /\ cut \subseteq Numbers
  /\ requests \in 0..MaxRequests /\ faults \in 0..MaxFaults /\ writes \in 0..MaxWrites

\* A handler works on one request, of a number no other handler has.
Busy ==
  \A h \in Handlers :
    /\ Idle(h) => job[h] = NoJob /\ work[h] = NothingRead
    /\ ~Idle(h) => /\ job[h].n \in Numbers
                   /\ job[h].order \in Orders
                   /\ job[h].op \in {"methods", "charge"}
    /\ pc[h] \in Listing => job[h].op = "methods"
    /\ pc[h] \in Charging => job[h].op = "charge"

Apart ==
  \A h, k \in Handlers :
    (~Idle(h) /\ ~Idle(k) /\ job[h].n = job[k].n) => h = k

\* At most one call per request.
Counted ==
  /\ \A c \in Made : c.n \in Numbers /\ c.order \in Orders
  /\ \A c, d \in Made : c.n = d.n => c = d
  /\ calls \cap sessions = {}

\* A request whose call was made waits, has its reference or was cut short.
Held ==
  \A c \in Made : \A h \in Handlers :
    (~Idle(h) /\ job[h].n = c.n) =>
      /\ job[h].order = c.order
      /\ job[h].op = "charge"
      /\ \/ pc[h] = "wait"
         \/ pc[h] = "ok" /\ c \in sessions /\ work[h].ref = c.n
         \/ pc[h] = "provider_error" /\ c.n \in cut

\* A reference is that of a charge; a charge without one was declined, or none was made.
References ==
  \A h \in Handlers :
    /\ (pc[h] # "ok" \/ job[h].op = "methods") => work[h].ref = Nil
    /\ (pc[h] = "ok" /\ job[h].op = "charge") =>
         IF work[h].ref # Nil
         THEN \E s \in sessions :
                s.n = job[h].n /\ s.order = job[h].order /\ work[h].ref = s.n
         ELSE work[h].row.provider \in AutomaticProviders => job[h].n \in declined

\* No call is forgotten unless its request was cut short.
Known ==
  \A c \in Made :
    \/ c.n \in refs[c.order] \cup cut
    \/ \E h \in Handlers : pc[h] \in {"wait", "ok"} /\ job[h].n = c.n

IsRow(g) ==
  /\ DOMAIN g = {"id", "provider", "active", "config", "currencies", "created"}
  /\ g.currencies \in Seq(STRING)

Allows(row, code) == row.currencies = <<>> \/ GwAccepts(row, code)

\* Rows charged are rows that were active, in a currency they accept.
Vouched ==
  /\ \A g \in gateways \cup everActive : IsRow(g)
  /\ Active(gateways) \subseteq everActive
  /\ \A h \in Handlers :
       /\ pc[h] \in {"price", "amount", "call", "wait"} => work[h].row \in everActive
       /\ pc[h] = "amount" => Allows(work[h].row, work[h].currency)
       /\ pc[h] = "call" =>
            job[h].price # Nil \/ Allows(work[h].row, work[h].chosen.currency)
  /\ SessionsVouched

Inv ==
  /\ Shape /\ Busy /\ Apart /\ Counted /\ Held /\ References /\ Known
  /\ RefsBacked
  /\ Vouched

\* A fault that befalls another component of the service, which shares the bound.
FaultElsewhere ==
  /\ faults' \in faults..MaxFaults
  /\ UNCHANGED <<pc, job, work, cut>>
  /\ UNCHANGED <<tables, providers, monolith>>

\* The steps of the checkout as a part of the service.
OpenNext == Next \/ FaultElsewhere

LEMMA Initially == Init => Inv
  <1> SUFFICES ASSUME Init PROVE Inv
    OBVIOUS
  <1> USE DEF Init
  <1>1. DOMAIN NothingRead = Fields /\ NothingRead.ref = Nil
    BY DEF NothingRead, Fields
  <1>2. Shape
    BY <1>1, CheckoutBounds DEF Shape, Steps, Numbers
  <1>3. Busy /\ Apart
    BY DEF Busy, Apart, Idle, NoJob, Listing, Charging
  <1>4. Counted /\ Held /\ Known /\ RefsBacked
    BY DEF Counted, Held, Known, Made, RefsBacked
  <1>5. References
    BY <1>1 DEF References
  <1>6. Vouched
    BY RowsAssumption DEF Vouched, IsRow, Active, SessionsVouched
  <1>7. QED
    BY <1>2, <1>3, <1>4, <1>5, <1>6 DEF Inv

\* What a handler reads for itself touches neither its reference nor others.
ReadStep(h) ==
  /\ pc[h] \in Reading
  /\ pc' = [pc EXCEPT ![h] = pc'[h]]
  /\ work' = [work EXCEPT ![h] = work'[h]]
  /\ DOMAIN work'[h] = Fields
  /\ work'[h].ref = work[h].ref
  /\ pc[h] \in Listing => pc'[h] \in Listing \cup Refusals \cup {"ok"}
  /\ pc[h] \notin Listing => pc'[h] \in {"price", "amount", "call"} \cup Refusals
  /\ pc'[h] \in {"price", "amount", "call"} => work'[h].row \in everActive
  /\ pc'[h] = "amount" => Allows(work'[h].row, work'[h].currency)
  /\ pc'[h] = "call" =>
       job[h].price # Nil \/ Allows(work'[h].row, work'[h].chosen.currency)
  /\ faults' \in 0..MaxFaults
  /\ Local(h)

LEMMA ReadStepKeeps ==
  ASSUME Inv, NEW h \in Handlers, ReadStep(h)
  PROVE  Inv'
  <1> USE DEF Inv, Local, tables, providers, monolith
  <1> USE DEF ReadStep, Reading
  <1>0. /\ UNCHANGED <<job, cut, calls, sessions, declined, cards, refs, requests>>
        /\ UNCHANGED <<gateways, currencies, plan, writes, everActive>>
        /\ pc[h] # "idle" /\ pc[h] \notin {"wait", "ok", "provider_error"}
        /\ \A k \in Handlers : k # h => pc'[k] = pc[k] /\ work'[k] = work[k]
        /\ pc'[h] \in Steps \ {"idle", "wait", "provider_error"}
        /\ Made' = Made /\ Numbers' = Numbers
    BY DEF Shape, Steps, Listing, Charging, Refusals, Answers, Made, Numbers
  <1>1. Shape'
    BY <1>0 DEF Shape
  <1>2. Busy' /\ Apart'
    BY <1>0 DEF Busy, Apart, Idle, Listing, Charging, Refusals, Shape
  <1>3. Counted'
    BY <1>0 DEF Counted
  <1>4. Held'
    BY <1>0 DEF Held, Idle
  <1>5. References'
    BY <1>0 DEF References, Busy, Refusals, Listing
  <1>6. Known'
    BY <1>0 DEF Known
  <1>7. RefsBacked'
    BY <1>0 DEF RefsBacked
  <1>8. Vouched'
    BY <1>0 DEF Vouched, Active, SessionsVouched, IsRow, Allows
  <1>9. QED
    BY <1>1, <1>2, <1>3, <1>4, <1>5, <1>6, <1>7, <1>8

\* What Keep does to a handler's fields.
LEMMA KeepKeeps ==
  ASSUME Shape, NEW h \in Handlers, NEW field \in Fields, field # "ref", NEW value,
         Keep(h, field, value)
  PROVE  /\ work' = [work EXCEPT ![h] = work'[h]]
         /\ DOMAIN work'[h] = Fields
         /\ work'[h].ref = work[h].ref
         /\ work'[h][field] = value
         /\ \A other \in Fields : other # field => work'[h][other] = work[h][other]
  BY DEF Shape, Keep, Fields

\* The choice of the customer is accepted, or the list's head is charged, or all is.
LEMMA PickCurrencyAllowed ==
  ASSUME NEW g, IsRow(g), NEW pay
  PROVE  Allows(g, PickCurrency(g, pay))
  <1>1. CASE g.currencies = <<>>
    BY <1>1 DEF Allows
  <1>2. CASE g.currencies # <<>>
    <2>1. Len(g.currencies) \in Nat /\ Len(g.currencies) > 0
          /\ Head(g.currencies) = g.currencies[1]
      BY <1>2 DEF IsRow
    <2>2. GwAccepts(g, Head(g.currencies))
      BY <2>1 DEF GwAccepts, Contains
    <2>3. QED
      BY <1>2, <2>2 DEF Allows, PickCurrency
  <1>3. QED
    BY <1>1, <1>2

LEMMA ReadsAreReadSteps ==
  ASSUME Inv, NEW h \in Handlers,
         \/ ReadPlan(h) \/ ReadDisplay(h) \/ ReadSettle(h) \/ ListGateways(h)
         \/ BuildCard(h) \/ AllCards(h)
         \/ ReadGateway(h) \/ ReadPrices(h) \/ ReadCurrency(h)
  PROVE  ReadStep(h)
  <1> USE DEF Inv
  <1>a. /\ pc \in [Handlers -> Steps] /\ work = [k \in Handlers |-> work[k]]
        /\ DOMAIN work[h] = Fields
        /\ faults \in 0..MaxFaults /\ MaxFaults \in Nat
    BY CheckoutBounds DEF Shape
  <1>b. ASSUME Fault \/ UNCHANGED faults PROVE faults' \in 0..MaxFaults
    BY <1>a, <1>b DEF Fault
  <1>c. ASSUME NEW step, Goto(h, step)
        PROVE  pc' = [pc EXCEPT ![h] = pc'[h]] /\ pc'[h] = step
    BY <1>a, <1>c DEF Goto
  <1>d. ASSUME UNCHANGED work
        PROVE  /\ work' = [work EXCEPT ![h] = work'[h]]
               /\ DOMAIN work'[h] = Fields
               /\ work'[h].ref = work[h].ref
    BY <1>a, <1>d
  <1>e. ASSUME \/ ReadFails(h)
               \/ \E answer \in Refusals : Refuse(h, answer)
               \/ Fault /\ Goto(h, "not_found") /\ UNCHANGED work,
               pc[h] \in Reading, Local(h)
        PROVE  ReadStep(h)
    <2>1. pc' = [pc EXCEPT ![h] = pc'[h]] /\ pc'[h] \in Refusals
      BY <1>c, <1>e DEF ReadFails, Refuse, Refusals
    <2>2. UNCHANGED work /\ (Fault \/ UNCHANGED faults)
      BY <1>e DEF ReadFails, Refuse
    <2>3. QED
      BY <1>b, <1>d, <1>e, <2>1, <2>2 DEF ReadStep, Refusals
  \* A field is read in a listing.
  <1>f. ASSUME NEW field \in Fields, field # "ref", NEW value, Keep(h, field, value),
               NEW step \in Listing, Goto(h, step),
               pc[h] \in Listing, Fault \/ UNCHANGED faults, Local(h)
        PROVE  ReadStep(h)
    <2>1. /\ work' = [work EXCEPT ![h] = work'[h]]
          /\ DOMAIN work'[h] = Fields
          /\ work'[h].ref = work[h].ref
      BY <1>f, KeepKeeps
    <2>2. QED
      BY <1>b, <1>c, <1>f, <2>1 DEF ReadStep, Reading, Listing
  <1>1. CASE ReadPlan(h)
    BY <1>1, <1>e, <1>f DEF ReadPlan, Reading, Listing, Refusals, Fields
  <1>2. CASE ReadDisplay(h)
    BY <1>2, <1>e, <1>f DEF ReadDisplay, Reading, Listing, Refusals, Fields
  <1>3. CASE ReadSettle(h)
    BY <1>3, <1>f DEF ReadSettle, Listing, Fields
  <1>4. CASE ListGateways(h)
    BY <1>4, <1>e, <1>f DEF ListGateways, Reading, Listing, Fields
  <1>5. CASE BuildCard(h)
    <2>1. PICK todo, options : work' = [work EXCEPT ![h].todo = todo, ![h].options = options]
      BY <1>5 DEF BuildCard
    <2>2. /\ work' = [work EXCEPT ![h] = work'[h]]
          /\ DOMAIN work'[h] = Fields
          /\ work'[h].ref = work[h].ref
      BY <1>a, <2>1 DEF Fields
    <2>3. pc[h] = "cards" /\ UNCHANGED pc /\ (Fault \/ UNCHANGED faults) /\ Local(h)
      BY <1>5 DEF BuildCard
    <2>4. QED
      BY <1>a, <1>b, <2>2, <2>3 DEF ReadStep, Reading, Listing
  <1>6. CASE AllCards(h)
    <2>1. pc[h] = "cards" /\ Goto(h, "ok") /\ UNCHANGED <<work, faults>> /\ Local(h)
      BY <1>6 DEF AllCards, Refuse
    <2>2. QED
      BY <1>b, <1>c, <1>d, <2>1 DEF ReadStep, Reading, Listing
  <1>7. CASE ReadGateway(h)
    <2>1. CASE \E g \in Usable(SelectByID(gateways, job[h].gateway)) :
                 /\ work' = [work EXCEPT ![h] = [@ EXCEPT !.row = g, !.chosen = job[h].price]]
                 /\ Goto(h, IF job[h].price = Nil THEN "price" ELSE "call")
                 /\ UNCHANGED faults
      <3>1. PICK g \in Usable(SelectByID(gateways, job[h].gateway)) :
                 /\ work' = [work EXCEPT ![h] = [@ EXCEPT !.row = g, !.chosen = job[h].price]]
                 /\ Goto(h, IF job[h].price = Nil THEN "price" ELSE "call")
                 /\ UNCHANGED faults
        BY <2>1
      <3>2. g \in everActive
        BY DEF Usable, SelectByID, Active, Vouched
      <3>3. /\ work' = [work EXCEPT ![h] = work'[h]]
            /\ DOMAIN work'[h] = Fields
            /\ work'[h].ref = work[h].ref
            /\ work'[h].row = g
        BY <1>a, <3>1 DEF Fields
      <3>4. /\ pc' = [pc EXCEPT ![h] = pc'[h]]
            /\ pc'[h] = IF job[h].price = Nil THEN "price" ELSE "call"
        BY <1>c, <3>1
      <3>5. pc[h] = "gateway" /\ Local(h)
        BY <1>7 DEF ReadGateway
      <3>6. QED
        BY <1>b, <3>1, <3>2, <3>3, <3>4, <3>5 DEF ReadStep, Reading, Listing
    <2>2. QED
      BY <1>7, <1>e, <2>1 DEF ReadGateway, Reading, Refusals
  <1>8. CASE ReadPrices(h)
    <2> DEFINE code == PickCurrency(work[h].row, job[h].pay)
    <2>1. CASE /\ work' = [work EXCEPT ![h] = [@ EXCEPT !.plan = plan, !.currency = code]]
               /\ Goto(h, "amount")
               /\ UNCHANGED faults
      <3>1. pc[h] = "price" /\ Local(h)
        BY <1>8 DEF ReadPrices
      <3>2. work[h].row \in everActive /\ Allows(work[h].row, code)
        BY <3>1, PickCurrencyAllowed DEF Vouched
      <3>3. /\ work' = [work EXCEPT ![h] = work'[h]]
            /\ DOMAIN work'[h] = Fields
            /\ work'[h].ref = work[h].ref
            /\ work'[h].row = work[h].row
            /\ work'[h].currency = code
        BY <1>a, <2>1 DEF Fields
      <3>4. pc' = [pc EXCEPT ![h] = pc'[h]] /\ pc'[h] = "amount"
        BY <1>c, <2>1
      <3>5. QED
        BY <1>b, <2>1, <3>1, <3>2, <3>3, <3>4 DEF ReadStep, Reading, Listing
    <2>2. QED
      BY <1>8, <1>e, <2>1 DEF ReadPrices, Reading, Refusals
  <1>9. CASE ReadCurrency(h)
    <2>0. pc[h] = "amount" /\ Local(h)
      BY <1>9 DEF ReadCurrency
    <2>1. ASSUME NEW cur \in GetByCode(currencies, work[h].currency),
                 Keep(h, "chosen", [currency |-> cur.code,
                                    amount |-> AmountFor(work[h].plan, cur)]),
                 Goto(h, "call"), UNCHANGED faults
          PROVE  ReadStep(h)
      <3>1. work[h].row \in everActive /\ Allows(work[h].row, cur.code)
        BY <2>0, <2>1 DEF Vouched, GetByCode
      <3>2. /\ work' = [work EXCEPT ![h] = work'[h]]
            /\ DOMAIN work'[h] = Fields
            /\ work'[h].ref = work[h].ref
            /\ work'[h].row = work[h].row
            /\ work'[h].chosen.currency = cur.code
        BY <2>1, KeepKeeps DEF Fields
      <3>3. pc' = [pc EXCEPT ![h] = pc'[h]] /\ pc'[h] = "call"
        BY <1>c, <2>1
      <3>4. QED
        BY <1>b, <2>0, <2>1, <3>1, <3>2, <3>3 DEF ReadStep, Reading, Listing
    <2>2. ASSUME Fault, Goto(h, "invalid_input"), UNCHANGED work
          PROVE  ReadStep(h)
      BY <1>b, <1>c, <1>d, <2>0, <2>2 DEF ReadStep, Reading, Listing, Refusals
    <2>3. QED
      BY <1>9, <1>e, <2>0, <2>1, <2>2 DEF ReadCurrency, Reading, Refusals
  <1>10. QED
    BY <1>1, <1>2, <1>3, <1>4, <1>5, <1>6, <1>7, <1>8, <1>9

LEMMA BeginKeeps ==
  ASSUME Inv, NEW h \in Handlers, NEW request, NEW step,
         Begin(h, request, step),
         request.n = requests, request.order \in Orders,
         \/ request.op = "methods" /\ step = "plan"
         \/ request.op = "charge" /\ step = "gateway"
  PROVE  Inv'
  <1> USE DEF Inv, tables, providers
  <1>0. /\ UNCHANGED <<work, cards, refs, faults, cut, calls, sessions, declined>>
        /\ UNCHANGED <<gateways, currencies, plan, writes, everActive>>
        /\ requests \in Nat /\ requests' = requests + 1 /\ requests' \in 0..MaxRequests
        /\ requests \notin Numbers /\ requests \in Numbers' /\ Numbers \subseteq Numbers'
        /\ Made' = Made
        /\ \A k \in Handlers : k # h => pc'[k] = pc[k] /\ job'[k] = job[k]
        /\ pc[h] = "idle" /\ pc'[h] = step /\ job'[h] = request
        /\ step \in {"plan", "gateway"}
    BY CheckoutBounds DEF Begin, Idle, Goto, Shape, Numbers, Made
  <1>1. Shape'
    <2>1. pc' \in [Handlers -> Steps] /\ DOMAIN job' = Handlers
      BY DEF Begin, Goto, Shape, Steps, Listing, Charging
    <2>2. refs' \in [Orders -> SUBSET Numbers'] /\ cut' \subseteq Numbers'
      BY <1>0 DEF Shape
    <2>3. QED
      BY <1>0, <2>1, <2>2 DEF Shape
  <1>2. Busy'
    BY <1>0 DEF Busy, Idle, Listing, Charging
  <1>3. Apart'
    BY <1>0 DEF Apart, Busy, Idle
  <1>4. Counted'
    BY <1>0 DEF Counted
  <1>5. Held'
    BY <1>0 DEF Held, Counted, Idle
  <1>6. References'
    BY <1>0 DEF References
  <1>7. Known'
    BY <1>0 DEF Known
  <1>8. RefsBacked'
    BY <1>0 DEF RefsBacked
  <1>9. Vouched'
    BY <1>0 DEF Vouched, Active, SessionsVouched, IsRow, Allows
  <1>10. QED
    BY <1>1, <1>2, <1>3, <1>4, <1>5, <1>6, <1>7, <1>8, <1>9

LEMMA CreateChargeKeeps ==
  ASSUME Inv, NEW h \in Handlers, CreateCharge(h)
  PROVE  Inv'
  <1> USE DEF Inv, tables, providers, monolith
  <1>0. /\ UNCHANGED <<job, work, faults, cut, sessions, declined, cards, refs, requests>>
        /\ UNCHANGED <<gateways, currencies, plan, writes, everActive>>
        /\ Numbers' = Numbers
        /\ pc' \in [Handlers -> Steps]
        /\ \A k \in Handlers : k # h => pc'[k] = pc[k]
        /\ pc[h] = "call" /\ job[h].op = "charge"
        /\ pc'[h] \in {"invalid_input", "provider_error", "ok", "wait"}
        /\ pc'[h] = "ok" => work[h].row.provider \notin AutomaticProviders
        /\ \/ UNCHANGED calls /\ pc'[h] # "wait"
           \/ calls' = calls \cup {CallOf(h)} /\ pc'[h] = "wait"
    BY DEF CreateCharge, Goto, Shape, Steps, Charging, Answers, Numbers, Busy
  <1>c. /\ CallOf(h).n = job[h].n /\ CallOf(h).order = job[h].order
        /\ CallOf(h).n \in Numbers /\ CallOf(h).order \in Orders
        /\ \A c \in Made : c.n # job[h].n
    BY <1>0 DEF CallOf, Busy, Held, Idle
  <1>d. Made' = Made \/ (Made' = Made \cup {CallOf(h)} /\ pc'[h] = "wait")
    BY <1>0 DEF Made
  <1>1. Shape'
    BY <1>0 DEF Shape
  <1>2. Busy' /\ Apart'
    BY <1>0 DEF Busy, Apart, Idle, Listing, Charging
  <1>3. Counted'
    BY <1>0, <1>c, <1>d DEF Counted, Made
  <1>4. Held'
    <2> SUFFICES ASSUME NEW c \in Made', NEW k \in Handlers, ~Idle(k)', job[k].n = c.n
                 PROVE  /\ job[k].order = c.order
                        /\ job[k].op = "charge"
                        /\ \/ pc'[k] = "wait"
                           \/ pc'[k] = "ok" /\ c \in sessions /\ work[k].ref = c.n
                           \/ pc'[k] = "provider_error" /\ c.n \in cut
      BY <1>0 DEF Held
    <2>1. CASE c \in Made
      BY <1>0, <1>c, <2>1 DEF Held, Idle
    <2>2. CASE c = CallOf(h) /\ pc'[h] = "wait"
      <3>1. k = h
        BY <1>0, <1>c, <2>2 DEF Apart, Idle
      <3>2. QED
        BY <1>0, <1>c, <2>2, <3>1
    <2>3. QED
      BY <1>d, <2>1, <2>2
  <1>5. References'
    BY <1>0 DEF References
  <1>6. Known'
    <2>1. ASSUME NEW c \in Made PROVE Known!(c)'
      BY <1>0 DEF Known
    <2>2. QED
      BY <1>0, <1>c, <1>d, <2>1 DEF Known
  <1>7. RefsBacked'
    BY <1>0 DEF RefsBacked
  <1>8. SessionsVouched'
    <2>1. ASSUME calls' = calls \cup {CallOf(h)}
          PROVE  LET s == CallOf(h) IN
                 \E g \in everActive :
                   /\ g.id = s.gateway /\ g.provider = s.provider /\ g.config = s.config
                   /\ s.explicit \/ g.currencies = <<>> \/ GwAccepts(g, s.currency)
      BY <1>0 DEF CallOf, Vouched, Allows
    <2>2. QED
      BY <1>0, <2>1 DEF SessionsVouched, Vouched
  <1>9. Vouched'
    BY <1>0, <1>8 DEF Vouched, Active, IsRow, Allows
  <1>10. QED
    BY <1>1, <1>2, <1>3, <1>4, <1>5, <1>6, <1>7, <1>9

LEMMA ReceiveAnswerKeeps ==
  ASSUME Inv, NEW h \in Handlers, ReceiveAnswer(h)
  PROVE  Inv'
  <1> USE DEF Inv, Local, tables, providers, monolith
  <1>1. PICK s \in sessions : s.n = job[h].n /\ Keep(h, "ref", s.n)
    BY DEF ReceiveAnswer, AnswersTo, Reference
  <1>0. /\ UNCHANGED <<job, faults, cut, calls, sessions, declined, cards, refs, requests>>
        /\ UNCHANGED <<gateways, currencies, plan, writes, everActive>>
        /\ Numbers' = Numbers /\ Made' = Made
        /\ pc' \in [Handlers -> Steps]
        /\ \A k \in Handlers : k # h => pc'[k] = pc[k] /\ work'[k] = work[k]
        /\ pc[h] = "wait" /\ job[h].op = "charge"
        /\ pc'[h] = "ok"
    BY <1>1 DEF ReceiveAnswer, Keep, Goto, Shape, Steps, Charging, Answers, Numbers, Busy, Made
  <1>2. /\ work' = [k \in Handlers |-> work'[k]]
        /\ DOMAIN work'[h] = Fields
        /\ work'[h].ref = s.n
    BY <1>1 DEF Keep, Shape, Fields
  <1>3. /\ s \in Made /\ s.order = job[h].order
        /\ \A c \in Made : c.n = s.n => c = s
        /\ s.n # Nil
    BY <1>0, <1>1, NilAssumption DEF Made, Held, Counted, Idle, Numbers, Shape
  <1>4. Shape'
    BY <1>0, <1>2 DEF Shape
  <1>5. Busy' /\ Apart'
    BY <1>0 DEF Busy, Apart, Idle, Listing, Charging
  <1>6. Counted'
    BY <1>0 DEF Counted
  <1>7. Held'
    BY <1>0, <1>1, <1>2, <1>3 DEF Held, Idle
  <1>8. References'
    BY <1>0, <1>1, <1>2, <1>3 DEF References
  <1>9. Known' /\ RefsBacked'
    BY <1>0 DEF Known, RefsBacked
  <1>10. Vouched'
    BY <1>0 DEF Vouched, Active, SessionsVouched, IsRow, Allows
  <1>11. QED
    BY <1>4, <1>5, <1>6, <1>7, <1>8, <1>9, <1>10

LEMMA GiveUpKeeps ==
  ASSUME Inv, NEW h \in Handlers, GiveUp(h)
  PROVE  Inv'
  <1> USE DEF Inv, tables, providers, monolith
  <1>0. /\ UNCHANGED <<job, work, faults, calls, sessions, declined, cards, refs, requests>>
        /\ UNCHANGED <<gateways, currencies, plan, writes, everActive>>
        /\ Numbers' = Numbers /\ Made' = Made
        /\ cut' = cut \cup {job[h].n} /\ job[h].n \in Numbers
        /\ pc' \in [Handlers -> Steps]
        /\ \A k \in Handlers : k # h => pc'[k] = pc[k]
        /\ pc[h] = "wait" /\ pc'[h] = "provider_error"
    BY DEF GiveUp, Goto, Shape, Steps, Charging, Answers, Numbers, Busy, Idle, Made
  <1>1. Shape'
    BY <1>0 DEF Shape
  <1>2. Busy' /\ Apart'
    BY <1>0 DEF Busy, Apart, Idle, Listing, Charging
  <1>3. Counted'
    BY <1>0 DEF Counted
  <1>4. Held'
    BY <1>0 DEF Held, Idle
  <1>5. References'
    BY <1>0 DEF References
  <1>6. Known' /\ RefsBacked'
    BY <1>0 DEF Known, RefsBacked
  <1>7. Vouched'
    BY <1>0 DEF Vouched, Active, SessionsVouched, IsRow, Allows
  <1>8. QED
    BY <1>1, <1>2, <1>3, <1>4, <1>5, <1>6, <1>7

\* The handlers of a set end; what holds of the others still does.
LEMMA ReleaseKeeps ==
  ASSUME Inv, NEW hs \in SUBSET Handlers, Release(hs),
         UNCHANGED <<calls, sessions, requests, everActive, declined>>,
         UNCHANGED tables,
         faults' \in 0..MaxFaults,
         refs' \in [Orders -> SUBSET Numbers],
         \A o \in Orders : refs[o] \subseteq refs'[o],
         cut \subseteq cut', cut' \subseteq Numbers,
         \A o \in Orders : \A n \in refs'[o] : \E s \in sessions : s.n = n /\ s.order = o,
         \A c \in Made : \A h \in hs :
           (pc[h] \in {"wait", "ok"} /\ job[h].n = c.n) => c.n \in refs'[c.order] \cup cut'
  PROVE  Inv'
  <1> USE DEF Inv, tables
  <1>0. /\ UNCHANGED <<gateways, currencies, plan, writes, everActive>>
        /\ Numbers' = Numbers /\ Made' = Made
        /\ pc' \in [Handlers -> Steps]
        /\ job' = [h \in Handlers |-> job'[h]] /\ work' = [h \in Handlers |-> work'[h]]
        /\ \A h \in Handlers \ hs : pc'[h] = pc[h] /\ job'[h] = job[h] /\ work'[h] = work[h]
        /\ \A h \in hs : pc'[h] = "idle" /\ job'[h] = NoJob /\ work'[h] = NothingRead
    BY DEF Release, Shape, Steps, Numbers, Made
  <1>a. DOMAIN NothingRead = Fields /\ NothingRead.ref = Nil
    BY DEF NothingRead, Fields
  <1>1. Shape'
    BY <1>0, <1>a DEF Shape
  <1>2. Busy' /\ Apart'
    BY <1>0 DEF Busy, Apart, Idle, Listing, Charging
  <1>3. Counted'
    BY <1>0 DEF Counted
  <1>4. Held'
    BY <1>0 DEF Held, Idle
  <1>5. References'
    BY <1>0, <1>a DEF References
  <1>6. Known'
    <2> SUFFICES ASSUME NEW c \in Made,
                        c.n \notin refs'[c.order] \cup cut'
                 PROVE  \E h \in Handlers : pc'[h] \in {"wait", "ok"} /\ job'[h].n = c.n
      BY <1>0 DEF Known
    <2>1. c.order \in Orders
      BY DEF Counted
    <2>2. PICK h \in Handlers : pc[h] \in {"wait", "ok"} /\ job[h].n = c.n
      BY <2>1 DEF Known
    <2>3. QED
      BY <1>0, <2>2
  <1>7. RefsBacked'
    BY <1>0 DEF RefsBacked
  <1>8. Vouched'
    BY <1>0 DEF Vouched, Active, SessionsVouched, IsRow, Allows
  <1>9. QED
    BY <1>1, <1>2, <1>3, <1>4, <1>5, <1>6, <1>7, <1>8

LEMMA FinishKeeps ==
  ASSUME Inv, NEW h \in Handlers, Finish(h)
  PROVE  Inv'
  <1> USE DEF Inv, tables, providers
  <1>1. /\ pc[h] \in Answers /\ ~Idle(h) /\ Release({h}) /\ {h} \in SUBSET Handlers
        /\ refs' = [refs EXCEPT ![job[h].order] = @ \cup KeptRefs(h)]
        /\ UNCHANGED <<calls, sessions, requests, everActive, declined, cut, faults>>
        /\ UNCHANGED tables
        /\ job[h].order \in Orders /\ job[h].n \in Numbers
        /\ job[h].op \in {"methods", "charge"}
    BY DEF Finish, Answers, Idle, Busy
  <1>2. \A n \in KeptRefs(h) :
          \E s \in sessions : s.n = n /\ s.order = job[h].order /\ n \in Numbers
    BY <1>1 DEF KeptRefs, References
  <1>3. refs' \in [Orders -> SUBSET Numbers] /\ \A o \in Orders : refs[o] \subseteq refs'[o]
    BY <1>1, <1>2 DEF Shape
  <1>4. \A o \in Orders : \A n \in refs'[o] : \E s \in sessions : s.n = n /\ s.order = o
    BY <1>1, <1>2 DEF Shape, RefsBacked
  <1>5. ASSUME NEW c \in Made, pc[h] \in {"wait", "ok"}, job[h].n = c.n
        PROVE  c.n \in refs'[c.order] \cup cut'
    <2>1. pc[h] = "ok" /\ work[h].ref = c.n /\ job[h].order = c.order
      BY <1>1, <1>5 DEF Held, Answers
    <2>2. c.n # Nil
      BY <1>1, <1>5, NilAssumption DEF Numbers, Shape
    <2>3. QED
      BY <1>1, <2>1, <2>2 DEF KeptRefs, Shape
  <1>6. QED
    BY <1>1, <1>3, <1>4, <1>5, ReleaseKeeps DEF Shape

LEMMA StopKeeps ==
  ASSUME Inv, NEW hs \in SUBSET {h \in Handlers : ~Idle(h)}, Stop(hs)
  PROVE  Inv'
  <1> USE DEF Inv, tables, providers, monolith
  <1>1. /\ Release(hs)
        /\ cut' = cut \cup {job[h].n : h \in hs}
        /\ UNCHANGED <<calls, sessions, requests, everActive, declined, refs>>
        /\ UNCHANGED tables
    BY DEF Stop
  <1>2. faults' \in 0..MaxFaults
    BY CheckoutBounds DEF Stop, Fault, Shape
  <1>3. cut \subseteq cut' /\ cut' \subseteq Numbers
    BY <1>1 DEF Busy, Shape
  <1>4. QED
    BY <1>1, <1>2, <1>3, ReleaseKeeps DEF Shape, RefsBacked

LEMMA ProviderCreatesKeeps ==
  ASSUME Inv, NEW c \in calls, ProviderCreates(c)
  PROVE  Inv'
  <1> USE DEF Inv, tables, monolith
  <1>0. /\ UNCHANGED <<pc, job, work, faults, cut, declined, cards, refs, requests>>
        /\ UNCHANGED <<gateways, currencies, plan, writes, everActive>>
        /\ calls' = calls \ {c} /\ sessions' = sessions \cup {c}
        /\ Numbers' = Numbers /\ Made' = Made
    BY DEF ProviderCreates, Numbers, Made
  <1>1. Shape' /\ Busy' /\ Apart' /\ Counted'
    BY <1>0 DEF Shape, Busy, Apart, Idle, Counted
  <1>2. Held' /\ Known' /\ RefsBacked'
    BY <1>0 DEF Held, Idle, Known, RefsBacked
  <1>3. References'
    BY <1>0 DEF References
  <1>4. Vouched'
    BY <1>0 DEF Vouched, Active, SessionsVouched, IsRow, Allows
  <1>5. QED
    BY <1>1, <1>2, <1>3, <1>4

\* The call c ends without a charge; who waits for it goes on to step.
LEMMA AnsweredKeeps ==
  ASSUME Inv, NEW c \in calls, NEW step \in {"ok", "provider_error"},
         calls' = calls \ {c},
         Answered(c, step),
         step = "ok" => c.n \in declined',
         declined \subseteq declined',
         UNCHANGED <<job, work, faults, sessions, cut>>,
         UNCHANGED <<tables, monolith>>
  PROVE  Inv'
  <1> USE DEF Inv, tables, monolith
  <1>0. /\ UNCHANGED <<cards, refs, requests>>
        /\ UNCHANGED <<gateways, currencies, plan, writes, everActive>>
        /\ Numbers' = Numbers /\ Made' = Made \ {c} /\ c \in Made
        /\ pc' \in [Handlers -> Steps]
        /\ \A h \in Handlers : \/ pc'[h] = pc[h]
                               \/ pc[h] = "wait" /\ job[h].n = c.n /\ pc'[h] = step
        /\ \A d \in Made' : d.n # c.n
    BY DEF Numbers, Made, Answered, Shape, Steps, Answers, Charging, Counted
  <1>1. Shape' /\ Busy' /\ Apart'
    BY <1>0 DEF Shape, Busy, Apart, Idle, Listing, Charging
  <1>2. Counted'
    BY <1>0 DEF Counted
  <1>3. Held' /\ Known'
    BY <1>0 DEF Held, Idle, Known
  <1>4. References'
    BY <1>0 DEF References
  <1>5. RefsBacked'
    BY <1>0 DEF RefsBacked
  <1>6. Vouched'
    BY <1>0 DEF Vouched, Active, SessionsVouched, IsRow, Allows
  <1>7. QED
    BY <1>1, <1>2, <1>3, <1>4, <1>5, <1>6

LEMMA WriteKeeps ==
  ASSUME Inv, WriteGateway \/ WriteCurrency \/ WritePlan
  PROVE  Inv'
  <1> USE DEF Inv, providers, monolith
  <1>1. Write
    BY DEF WriteGateway, WriteCurrency, WritePlan
  <1>2. /\ UNCHANGED <<pc, job, work, faults, cut, calls, sessions, declined>>
        /\ UNCHANGED <<cards, refs, requests>>
        /\ everActive' = everActive \cup Active(gateways')
        /\ writes' \in 0..MaxWrites
        /\ Numbers' = Numbers /\ Made' = Made
    BY <1>1, CheckoutBounds DEF Write, Numbers, Made, Shape
  <1>3. \A g \in gateways' : IsRow(g)
    <2>1. CASE UNCHANGED gateways
      BY <2>1 DEF Vouched
    <2>2. ASSUME NEW g \in GatewayVersions,
                 gateways' = IF g.id \in IdsOf(gateways) THEN UpdateRow(gateways, g)
                             ELSE InsertRow(gateways, g)
          PROVE  \A r \in gateways' : IsRow(r)
      <3>1. IsRow(g) /\ \A r \in gateways : IsRow(r)
        BY RowsAssumption DEF Vouched, IsRow
      <3>2. \A created : IsRow([g EXCEPT !.created = created])
        BY <3>1 DEF IsRow
      <3>3. QED
        BY <2>2, <3>1, <3>2 DEF UpdateRow, InsertRow
    <2>3. ASSUME NEW id, gateways' = DeleteRow(gateways, id)
          PROVE  \A r \in gateways' : IsRow(r)
      BY <2>3 DEF DeleteRow, Vouched
    <2>4. QED
      BY <2>1, <2>2, <2>3 DEF WriteGateway, WriteCurrency, WritePlan
  <1>4. Shape' /\ Busy' /\ Apart'
    BY <1>2 DEF Shape, Busy, Apart, Idle
  <1>5. Counted' /\ Held' /\ Known' /\ RefsBacked'
    BY <1>2 DEF Counted, Held, Idle, Known, RefsBacked
  <1>6. References'
    BY <1>2 DEF References
  <1>7. Vouched'
    BY <1>2, <1>3 DEF Vouched, Active, SessionsVouched
  <1>8. QED
    BY <1>4, <1>5, <1>6, <1>7

LEMMA FaultElsewhereKeeps ==
  ASSUME Inv, FaultElsewhere
  PROVE  Inv'
  <1> USE DEF Inv, FaultElsewhere, tables, providers, monolith
  <1>0. faults' \in 0..MaxFaults
    BY CheckoutBounds DEF Shape
  <1>1. Numbers' = Numbers /\ Made' = Made
    BY DEF Numbers, Made
  <1>2. Shape' /\ Busy' /\ Apart'
    BY <1>0, <1>1 DEF Shape, Busy, Apart, Idle
  <1>3. Counted' /\ Held' /\ Known' /\ RefsBacked'
    BY <1>1 DEF Counted, Held, Idle, Known, RefsBacked
  <1>4. References' /\ Vouched'
    BY <1>1 DEF References, Vouched, Active, SessionsVouched, IsRow, Allows
  <1>5. QED
    BY <1>2, <1>3, <1>4

LEMMA Invariance == Inv /\ [OpenNext]_vars => Inv'
  <1> SUFFICES ASSUME Inv, [OpenNext]_vars PROVE Inv'
    OBVIOUS
  <1>1. ASSUME NEW h \in Handlers, NEW o \in Orders, NEW d \in Displays,
               NEW country \in Countries, BeginMethods(h, o, d, country)
        PROVE  Inv'
    <2> DEFINE request == [op |-> "methods", n |-> requests, order |-> o, display |-> d,
                           country |-> country, epoch |-> Epoch]
    <2>1. Begin(h, request, "plan")
      BY <1>1 DEF BeginMethods
    <2>2. request.n = requests /\ request.order \in Orders /\ request.op = "methods"
      OBVIOUS
    <2> HIDE DEF request
    <2>3. QED
      BY <2>1, <2>2, BeginKeeps
  <1>2. ASSUME NEW h \in Handlers, NEW o \in Orders, BeginCharge(h, o)
        PROVE  Inv'
    <2>1. PICK c \in FromCard(o) \cup OtherCharges :
            Begin(h, [op |-> "charge", n |-> requests, order |-> o, gateway |-> c.gateway,
                      pay |-> c.pay, price |-> c.price, card |-> c.card], "gateway")
      BY <1>2 DEF BeginCharge
    <2> DEFINE request == [op |-> "charge", n |-> requests, order |-> o,
                           gateway |-> c.gateway, pay |-> c.pay, price |-> c.price,
                           card |-> c.card]
    <2>2. request.n = requests /\ request.order \in Orders /\ request.op = "charge"
      OBVIOUS
    <2>3. Begin(h, request, "gateway")
      BY <2>1
    <2> HIDE DEF request
    <2>4. QED
      BY <2>2, <2>3, BeginKeeps
  <1>3. ASSUME NEW h \in Handlers, HandlerStep(h) PROVE Inv'
    BY <1>3, ReadsAreReadSteps, ReadStepKeeps, CreateChargeKeeps, ReceiveAnswerKeeps,
       GiveUpKeeps, FinishKeeps DEF HandlerStep
  <1>4. ASSUME NEW h \in Handlers, Disconnect(h) PROVE Inv'
    BY <1>4, StopKeeps DEF Disconnect
  <1>5. CASE Crash
    BY <1>5, StopKeeps DEF Crash
  <1>6. ASSUME NEW c \in calls, ProviderRefuses(c) PROVE Inv'
    BY <1>6, AnsweredKeeps DEF ProviderRefuses
  <1>7. ASSUME NEW c \in calls, ProviderDeclines(c) PROVE Inv'
    BY <1>7, AnsweredKeeps DEF ProviderDeclines
  <1>8. CASE UNCHANGED vars
    <2>1. FaultElsewhere
      BY <1>8 DEF Inv, Shape, FaultElsewhere, vars, tables, providers, monolith
    <2>2. QED
      BY <2>1, FaultElsewhereKeeps
  <1>9. QED
    BY <1>1, <1>2, <1>3, <1>4, <1>5, <1>6, <1>7, <1>8, ProviderCreatesKeeps, WriteKeeps,
       FaultElsewhereKeeps DEF OpenNext, Next

LEMMA InvHolds == Spec => []Inv
  <1>1. [Next]_vars => [OpenNext]_vars
    BY DEF OpenNext
  <1>2. QED
    BY <1>1, Initially, Invariance, PTL DEF Spec

-----------------------------------------------------------------------------
(* Theorems *)

\* A busy handler has its request and, from the price on, the row it charges, which
\* was active when chargeHandler read it; an idle one has nothing left.
THEOREM TypeCorrect == Spec => []TypeOK
  <1>1. Inv => TypeOK
    <2> SUFFICES ASSUME Inv PROVE TypeOK
      OBVIOUS
    <2> USE DEF Inv, Shape, Busy, Vouched
    <2>1. \A h \in Handlers : Idle(h) <=> job[h] = NoJob
      BY DEF NoJob
    <2>2. pc \in [Handlers -> {"idle", "plan", "display", "settle", "list", "cards",
                               "gateway", "price", "amount", "call", "wait"} \cup Answers]
      BY DEF Steps, Listing, Charging
    <2>3. QED
      BY <2>1, <2>2 DEF TypeOK, Numbers
  <1>2. QED
    BY <1>1, InvHolds, PTL

\* However charges, retries, lost answers and changes of the tables overlap, a
\* reference kept for an order is that of a charge created for this order.
THEOREM RefsAreBacked == Spec => []RefsBacked
  BY InvHolds, PTL DEF Inv

\* A charge the provider holds is known or about to be, unless its request was cut
\* short: only these make a retry bill twice.
THEOREM NoSessionIsOrphan == Spec => []NoOrphanSession
  <1>1. Inv => NoOrphanSession
    BY DEF Inv, Known, NoOrphanSession, Made
  <1>2. QED
    BY <1>1, InvHolds, PTL

LEMMA AnswersFromInv == Inv => AnswersBacked
  <1> SUFFICES ASSUME Inv, NEW h \in Handlers, pc[h] = "ok", job[h].op = "charge",
                      work[h].ref = Nil
               PROVE  {s \in sessions : s.n = job[h].n} = {}
    BY DEF Inv, References, AnswersBacked
  <1>1. \A s \in sessions : s.n # Nil
    BY NilAssumption DEF Inv, Counted, Made, Numbers, Shape
  <1>2. QED
    BY <1>1 DEF Inv, Held, Made, Idle

\* A 200 names the charge made, and one without a reference hides none.
THEOREM AnswersAreBacked == Spec => []AnswersBacked
  BY AnswersFromInv, InvHolds, PTL

\* Whatever is written meanwhile, money goes to a row that was active, in a currency
\* it accepted.
THEOREM SessionsAreVouched == Spec => []SessionsVouched
  BY InvHolds, PTL DEF Inv, Vouched

-----------------------------------------------------------------------------
(* The promise of ChargeBook *)

\* A request at work has not been told a reference, nor has its answer been lost,
\* unless the handler has given up and is about to say so.
Unanswered ==
  \A h \in Handlers :
    ~Idle(h) => /\ \A o \in Orders : job[h].n \notin refs[o]
                /\ pc[h] # "provider_error" => job[h].n \notin cut

\* Steps that answer nobody.
LEMMA StillUnanswered ==
  ASSUME Unanswered, UNCHANGED <<job, refs, cut>>,
         \A h \in Handlers : \/ pc'[h] = pc[h]
                             \/ pc[h] \notin {"idle", "provider_error"}
  PROVE  Unanswered'
  BY DEF Unanswered, Idle

LEMMA AnsweredNumbers ==
  ASSUME Inv, NEW h \in Handlers, ~Idle(h)
  PROVE  KeptRefs(h) \subseteq {job[h].n}
  BY DEF Inv, Busy, References, KeptRefs

LEMMA UnansweredStep == Inv /\ Unanswered /\ [OpenNext]_vars => Unanswered'
  <1> SUFFICES ASSUME Inv, Unanswered, [OpenNext]_vars PROVE Unanswered'
    OBVIOUS
  <1> USE DEF Inv
  <1>0. pc \in [Handlers -> Steps] /\ DOMAIN job = Handlers
    BY DEF Shape
  <1>1. ASSUME NEW h \in Handlers, NEW request, NEW step, Begin(h, request, step),
               request.n = requests
        PROVE  Unanswered'
    <2>1. /\ UNCHANGED <<refs, cut>> /\ job'[h].n = requests
          /\ \A k \in Handlers \ {h} : pc'[k] = pc[k] /\ job'[k] = job[k]
      BY <1>0, <1>1 DEF Begin, Goto
    <2>2. requests \notin cut /\ \A o \in Orders : requests \notin refs[o]
      BY DEF Shape, Numbers
    <2>3. QED
      BY <2>1, <2>2 DEF Unanswered, Idle
  <1>2. ASSUME NEW h \in Handlers, NEW o \in Orders, NEW d \in Displays,
               NEW country \in Countries, BeginMethods(h, o, d, country)
        PROVE  Unanswered'
    <2> DEFINE request == [op |-> "methods", n |-> requests, order |-> o, display |-> d,
                           country |-> country, epoch |-> Epoch]
    <2>1. Begin(h, request, "plan") /\ request.n = requests
      BY <1>2 DEF BeginMethods
    <2> HIDE DEF request
    <2>2. QED
      BY <2>1, <1>1
  <1>3. ASSUME NEW h \in Handlers, NEW o \in Orders, BeginCharge(h, o) PROVE Unanswered'
    <2>1. PICK c \in FromCard(o) \cup OtherCharges :
            Begin(h, [op |-> "charge", n |-> requests, order |-> o, gateway |-> c.gateway,
                      pay |-> c.pay, price |-> c.price, card |-> c.card], "gateway")
      BY <1>3 DEF BeginCharge
    <2> DEFINE request == [op |-> "charge", n |-> requests, order |-> o,
                           gateway |-> c.gateway, pay |-> c.pay, price |-> c.price,
                           card |-> c.card]
    <2>2. Begin(h, request, "gateway") /\ request.n = requests
      BY <2>1
    <2> HIDE DEF request
    <2>3. QED
      BY <2>2, <1>1
  <1>4. ASSUME NEW h \in Handlers,
               \/ ReadPlan(h) \/ ReadDisplay(h) \/ ReadSettle(h) \/ ListGateways(h)
               \/ BuildCard(h) \/ AllCards(h)
               \/ ReadGateway(h) \/ ReadPrices(h) \/ ReadCurrency(h)
        PROVE  Unanswered'
    <2>1. ReadStep(h)
      BY <1>4, ReadsAreReadSteps
    <2>2. /\ UNCHANGED <<job, refs, cut>>
          /\ \A k \in Handlers : pc'[k] = pc[k] \/ k = h
          /\ pc[h] \notin {"idle", "provider_error"}
      BY <1>0, <2>1 DEF ReadStep, Local, monolith, Reading, Listing
    <2>3. QED
      BY <2>2, StillUnanswered
  <1>5. ASSUME NEW h \in Handlers, CreateCharge(h) \/ ReceiveAnswer(h) PROVE Unanswered'
    <2>1. /\ UNCHANGED <<job, refs, cut>>
          /\ \A k \in Handlers : pc'[k] = pc[k] \/ k = h
          /\ pc[h] \notin {"idle", "provider_error"}
      BY <1>0, <1>5 DEF CreateCharge, ReceiveAnswer, Local, monolith, Goto
    <2>2. QED
      BY <2>1, StillUnanswered
  <1>6. ASSUME NEW h \in Handlers, GiveUp(h) PROVE Unanswered'
    <2>1. /\ UNCHANGED <<job, refs>> /\ cut' = cut \cup {job[h].n} /\ ~Idle(h)
          /\ \A k \in Handlers \ {h} : pc'[k] = pc[k]
          /\ pc'[h] = "provider_error"
      BY <1>0, <1>6 DEF GiveUp, Goto, monolith, Idle
    <2>2. QED
      BY <2>1 DEF Unanswered, Idle, Apart
  <1>7. ASSUME NEW hs \in SUBSET {h \in Handlers : ~Idle(h)}, Release(hs),
               cut' \subseteq cut \cup {job[h].n : h \in hs},
               \A o \in Orders : refs'[o] \subseteq refs[o] \cup {job[h].n : h \in hs}
        PROVE  Unanswered'
    <2>1. /\ \A k \in Handlers \ hs : pc'[k] = pc[k] /\ job'[k] = job[k]
          /\ \A k \in hs : pc'[k] = "idle"
      BY <1>7 DEF Release
    <2>2. \A k \in Handlers \ hs : ~Idle(k) => job[k].n \notin {job[h].n : h \in hs}
      BY DEF Apart
    <2>3. QED
      BY <1>7, <2>1, <2>2 DEF Unanswered, Idle
  <1>8. ASSUME NEW h \in Handlers, Finish(h) PROVE Unanswered'
    <2>1. /\ ~Idle(h) /\ Release({h}) /\ UNCHANGED cut
          /\ refs' = [refs EXCEPT ![job[h].order] = @ \cup KeptRefs(h)]
      BY <1>8 DEF Finish, Idle, Answers
    <2>2. \A o \in Orders : refs'[o] \subseteq refs[o] \cup {job[k].n : k \in {h}}
      BY <2>1, AnsweredNumbers DEF Shape
    <2>3. QED
      BY <2>1, <2>2, <1>7
  <1>9. ASSUME NEW hs \in SUBSET {h \in Handlers : ~Idle(h)}, Stop(hs) PROVE Unanswered'
    BY <1>9, <1>7 DEF Stop, monolith
  <1>10. ASSUME NEW c \in calls, ProviderCreates(c) \/ ProviderRefuses(c) \/ ProviderDeclines(c)
         PROVE  Unanswered'
    <2>1. /\ UNCHANGED <<job, refs, cut>>
          /\ \A h \in Handlers : pc'[h] = pc[h] \/ pc[h] = "wait"
      BY <1>0, <1>10 DEF ProviderCreates, ProviderRefuses, ProviderDeclines, Answered, monolith
    <2>2. QED
      BY <2>1, StillUnanswered
  <1>11. ASSUME UNCHANGED <<pc, job, refs, cut>> PROVE Unanswered'
    BY <1>11, StillUnanswered
  <1>12. CASE WriteGateway \/ WriteCurrency \/ WritePlan \/ FaultElsewhere
    BY <1>12, <1>11 DEF WriteGateway, WriteCurrency, WritePlan, Write, FaultElsewhere, monolith
  <1>13. CASE UNCHANGED vars
    BY <1>13, <1>11 DEF vars
  <1>14. QED
    BY <1>2, <1>3, <1>4, <1>5, <1>6, <1>8, <1>9, <1>10, <1>12, <1>13
       DEF OpenNext, Next, HandlerStep, Disconnect, Crash

LEMMA UnansweredInit == Init => Unanswered
  BY DEF Init, Unanswered, Idle

\* What the book sees.
Open == {AskedBy(h) : h \in {k \in Handlers : job[k].op = "charge" /\ job[k].n \notin cut}}
Loose == {MadeFor(c) : c \in {d \in calls : d.n \in cut}}
Charged == {MadeFor(s) : s \in sessions}
Told == UNION {{[n |-> n, order |-> o] : n \in refs[o]} : o \in Orders}

LEMMA BookQuiet ==
  ASSUME UNCHANGED <<Open, Loose, Charged, Told, requests, cut>>
  PROVE  UNCHANGED Book!vars
  BY DEF Book!vars, Open, Loose, Charged, Told

LEMMA BookUnseen ==
  ASSUME UNCHANGED <<job, cut, calls, sessions, refs, requests>>
  PROVE  UNCHANGED Book!vars
  BY BookQuiet DEF Open, Loose, Charged, Told, AskedBy, MadeFor

\* A call and what a provider has created are of different requests.
LEMMA CallsApart ==
  ASSUME Inv, NEW c \in calls
  PROVE  /\ MadeFor(c) \notin Charged
         /\ {MadeFor(d) : d \in {e \in calls \ {c} : e.n \in cut}} = Loose \ {MadeFor(c)}
  <1>1. \A d \in calls \ {c} : d.n # c.n
    BY DEF Inv, Counted, Made
  <1>2. \A s \in sessions : s.n # c.n
    BY DEF Inv, Counted, Made
  <1>3. \A d, e : MadeFor(d) = MadeFor(e) => d.n = e.n
    BY DEF MadeFor
  <1>4. MadeFor(c) \notin Charged
    BY <1>2, <1>3 DEF Charged
  <1>5. {MadeFor(d) : d \in {e \in calls \ {c} : e.n \in cut}} = Loose \ {MadeFor(c)}
    <2>1. \A d \in calls \ {c} : MadeFor(d) # MadeFor(c)
      BY <1>1, <1>3
    <2>2. \A d \in calls : MadeFor(d) # MadeFor(c) => d \in calls \ {c}
      OBVIOUS
    <2>3. QED
      BY <2>1, <2>2, Zenon DEF Loose
  <1>6. QED
    BY <1>4, <1>5

LEMMA AnswersLost ==
  ASSUME NEW numbers \in SUBSET ((0..(requests - 1)) \ cut), Book!Lose(numbers)
  PROVE  Book!Next
  BY Zenon DEF Book!Next

LEMMA BookBegin ==
  ASSUME Inv, NEW h \in Handlers, NEW request, NEW step, Begin(h, request, step),
         request.n = requests, request.order \in Orders, request.op \in {"methods", "charge"}
  PROVE  Book!Next
  <1>1. /\ UNCHANGED <<cut, calls, sessions, refs>> /\ requests' = requests + 1
        /\ job'[h] = request /\ job[h].op = "none"
        /\ \A k \in Handlers \ {h} : job'[k] = job[k]
    BY DEF Inv, Shape, Busy, Begin, providers, NoJob
  <1>2. requests \notin cut
    BY DEF Inv, Shape, Numbers
  <1>3. UNCHANGED <<Loose, Charged, Told>>
    BY <1>1 DEF Loose, Charged, Told, MadeFor
  <1>4. CASE request.op = "methods"
    <2>1. Open' = Open
      BY <1>1, <1>4 DEF Open, AskedBy
    <2>2. Book!AskOtherwise
      BY <1>1, <1>3, <2>1 DEF Book!AskOtherwise, Open, Loose, Charged, Told
    <2>3. QED
      BY <2>2 DEF Book!Next
  <1>5. CASE request.op = "charge"
    <2>1. Open' = Open \cup {[n |-> requests, order |-> request.order]}
      BY <1>1, <1>2, <1>5 DEF Open, AskedBy
    <2>2. Book!Ask
      BY <1>1, <1>3, <2>1 DEF Book!Ask, Open, Loose, Charged, Told
    <2>3. QED
      BY <2>2 DEF Book!Next
  <1>6. QED
    BY <1>4, <1>5

\* The answers to the requests of hs are lost, and the handlers of ended end.
LEMMA BookLose ==
  ASSUME Inv, Unanswered, NEW hs \in SUBSET {h \in Handlers : ~Idle(h)},
         NEW ended \in SUBSET hs,
         cut' = cut \cup {job[h].n : h \in hs},
         UNCHANGED <<calls, sessions, refs, requests>>,
         \A h \in Handlers : job'[h] = IF h \in ended THEN NoJob ELSE job[h]
  PROVE  Book!Next
  <1>0. PICK numbers : numbers = {job[h].n : h \in hs} \ cut
    OBVIOUS
  <1> DEFINE rs == {MadeFor(c) : c \in {d \in calls : d.n \in numbers}}
  <1>1. numbers \subseteq 0..(requests - 1) /\ numbers \cap cut = {} /\ cut' = cut \cup numbers
    BY <1>0 DEF Inv, Busy, Numbers
  <1>2. \A r \in Told : r.n \notin numbers
    BY <1>0 DEF Told, Unanswered
  <1>3. Open' = {r \in Open : r.n \notin numbers}
    <2>1. ASSUME NEW k \in Handlers, job'[k].op = "charge", job'[k].n \notin cut'
          PROVE  /\ job[k].op = "charge" /\ job[k].n \notin cut /\ job[k].n \notin numbers
                 /\ job'[k] = job[k]
      BY <1>0, <1>1, <2>1 DEF NoJob
    <2>2. ASSUME NEW k \in Handlers, job[k].op = "charge", job[k].n \notin cut,
                 job[k].n \notin numbers
          PROVE  job'[k] = job[k] /\ job[k].n \notin cut'
      BY <1>0, <1>1, <2>2
    <2>3. QED
      BY <2>1, <2>2 DEF Open, AskedBy
  <1>4. Loose' = Loose \cup rs
    BY <1>1 DEF Loose, MadeFor
  <1>5. rs \subseteq {r \in Open \ Charged : r.n \in numbers}
    <2> SUFFICES ASSUME NEW c \in calls, c.n \in numbers
                 PROVE  MadeFor(c) \in Open \ Charged /\ MadeFor(c).n \in numbers
      OBVIOUS
    <2>1. PICK h \in hs : job[h].n = c.n /\ c.n \notin cut
      BY <1>0
    <2>2. job[h].order = c.order /\ job[h].op = "charge"
      BY <2>1 DEF Inv, Held, Made
    <2>3. MadeFor(c) \in Open
      BY <2>1, <2>2 DEF MadeFor, AskedBy, Open
    <2>4. MadeFor(c) \notin Charged
      BY CallsApart
    <2>5. QED
      BY <2>3, <2>4 DEF MadeFor
  <1>6. UNCHANGED <<Charged, Told, requests>>
    BY DEF Charged, Told, MadeFor
  <1> HIDE DEF rs
  <1>7. Book!Lose(numbers)
    BY <1>1, <1>2, <1>3, <1>4, <1>5, <1>6 DEF Book!Lose, Open, Loose, Charged, Told
  <1>8. numbers \in SUBSET ((0..(requests - 1)) \ cut)
    BY <1>1
  <1>9. QED
    BY <1>7, <1>8, AnswersLost

LEMMA OpenAnswered ==
  ASSUME NEW r \in Open, Book!Tell(r) \/ Book!Refuse(r)
  PROVE  Book!Next
  BY Zenon DEF Book!Next, Open

LEMMA BookFinish ==
  ASSUME Inv, Unanswered, NEW h \in Handlers, Finish(h)
  PROVE  Book!Next \/ UNCHANGED Book!vars
  <1>0. PICK r : r = AskedBy(h)
    OBVIOUS
  <1>1. /\ UNCHANGED <<cut, calls, sessions, requests>>
        /\ refs' = [refs EXCEPT ![job[h].order] = @ \cup KeptRefs(h)]
        /\ \A k \in Handlers : job'[k] = IF k = h THEN NoJob ELSE job[k]
        /\ ~Idle(h) /\ pc[h] \in Answers
        /\ job[h].order \in Orders /\ job[h].op \in {"methods", "charge"}
    BY DEF Finish, Release, providers, Idle, Answers, Inv, Busy
  <1>2. UNCHANGED <<Loose, Charged>>
    BY <1>1 DEF Loose, Charged, MadeFor
  <1>3. ASSUME KeptRefs(h) = {} PROVE Told' = Told
    BY <1>1, <1>3 DEF Told, Inv, Shape
  <1>4. CASE job[h].op = "methods"
    <2>1. KeptRefs(h) = {}
      BY <1>4 DEF KeptRefs, Inv, References
    <2>2. Open' = Open
      BY <1>1, <1>4 DEF Open, AskedBy, NoJob
    <2>3. QED
      BY <1>1, <1>2, <1>3, <2>1, <2>2, BookQuiet
  <1>5. CASE job[h].op = "charge" /\ job[h].n \in cut
    <2>1. KeptRefs(h) = {}
      BY <1>1, <1>5 DEF KeptRefs, Unanswered
    <2>2. Open' = Open
      BY <1>1, <1>5 DEF Open, AskedBy, NoJob
    <2>3. QED
      BY <1>1, <1>2, <1>3, <2>1, <2>2, BookQuiet
  <1>6. CASE job[h].op = "charge" /\ job[h].n \notin cut
    <2>1. r \in Open
      BY <1>0, <1>6 DEF Open
    <2>2. \A k \in Handlers \ {h} : job[k].op = "charge" => job[k].n # job[h].n
      BY <1>1 DEF Inv, Busy, Apart, NoJob
    <2>3. Open' = Open \ {r}
      BY <1>0, <1>1, <2>2 DEF Open, AskedBy, NoJob
    <2>4. CASE pc[h] = "ok" /\ work[h].ref # Nil
      <3>1. PICK s \in sessions :
              s.n = job[h].n /\ s.order = job[h].order /\ work[h].ref = s.n
        BY <1>6, <2>4 DEF Inv, References
      <3>2. r \in Charged
        BY <1>0, <3>1 DEF Charged, MadeFor, AskedBy
      <3>3. KeptRefs(h) = {job[h].n}
        BY <2>4, <3>1 DEF KeptRefs
      <3>4. Told' = Told \cup {r}
        BY <1>0, <1>1, <3>3 DEF Told, AskedBy, Inv, Shape
      <3>5. Book!Tell(r)
        BY <1>1, <1>2, <2>3, <3>2, <3>4 DEF Book!Tell, Open, Loose, Charged, Told
      <3>6. QED
        BY <2>1, <3>5, OpenAnswered
    <2>5. CASE ~(pc[h] = "ok" /\ work[h].ref # Nil)
      <3>1. KeptRefs(h) = {}
        BY <2>5 DEF KeptRefs
      <3>2. \A c \in Made : c.n # job[h].n
        <4> SUFFICES ASSUME NEW c \in Made, c.n = job[h].n PROVE FALSE
          OBVIOUS
        <4>1. c.n # Nil
          BY NilAssumption DEF Inv, Counted, Numbers, Shape
        <4>2. QED
          BY <1>1, <1>6, <2>5, <4>1 DEF Inv, Held, Answers
      <3>3. r \notin Charged \cup Loose
        BY <1>0, <3>2 DEF Charged, Loose, MadeFor, AskedBy, Made
      <3>4. Told' = Told
        BY <1>3, <3>1
      <3>5. Book!Refuse(r)
        BY <1>1, <1>2, <2>3, <3>3, <3>4 DEF Book!Refuse, Open, Loose, Charged, Told
      <3>6. QED
        BY <2>1, <3>5, OpenAnswered
    <2>6. QED
      BY <2>4, <2>5
  <1>7. QED
    BY <1>1, <1>4, <1>5, <1>6

\* The request of a call is open, or its answer was lost.
LEMMA CallOpenOrLoose ==
  ASSUME Inv, NEW c \in calls
  PROVE  MadeFor(c) \in Open \cup Loose
  <1>1. CASE c.n \in cut
    BY <1>1 DEF Loose
  <1>2. CASE c.n \notin cut
    <2>1. c \in Made /\ c.order \in Orders
      BY DEF Inv, Counted, Made
    <2>2. c.n \notin refs[c.order]
      BY <2>1 DEF Inv, RefsBacked, Counted, Made
    <2>3. PICK h \in Handlers : pc[h] \in {"wait", "ok"} /\ job[h].n = c.n
      BY <1>2, <2>1, <2>2 DEF Inv, Known
    <2>4. job[h].order = c.order /\ job[h].op = "charge"
      BY <2>1, <2>3 DEF Inv, Held, Idle
    <2>5. QED
      BY <1>2, <2>3, <2>4 DEF Open, AskedBy, MadeFor
  <1>3. QED
    BY <1>1, <1>2

LEMMA BookCreates ==
  ASSUME Inv, NEW c \in calls, ProviderCreates(c)
  PROVE  Book!Next
  <1> DEFINE r == MadeFor(c)
  <1>1. /\ UNCHANGED <<job, cut, refs, requests>>
        /\ calls' = calls \ {c} /\ sessions' = sessions \cup {c}
    BY DEF ProviderCreates, monolith
  <1>2. UNCHANGED <<Open, Told>>
    BY <1>1 DEF Open, Told, AskedBy
  <1>3. Charged' = Charged \cup {r} /\ r \notin Charged
    BY <1>1, CallsApart DEF Charged, MadeFor
  <1>4. Loose' = Loose \ {r}
    BY <1>1, CallsApart DEF Loose, MadeFor
  <1>5. r \in Open \cup Loose
    BY CallOpenOrLoose
  <1> HIDE DEF r
  <1>6. Book!Charge(r)
    BY <1>1, <1>2, <1>3, <1>4 DEF Book!Charge, Open, Loose, Charged, Told
  <1>7. QED
    BY <1>5, <1>6 DEF Book!Next, Open, Loose

LEMMA BookEnds ==
  ASSUME Inv, NEW c \in calls, ProviderRefuses(c) \/ ProviderDeclines(c)
  PROVE  Book!Next \/ UNCHANGED Book!vars
  <1> DEFINE r == MadeFor(c)
  <1>1. UNCHANGED <<job, cut, sessions, refs, requests>> /\ calls' = calls \ {c}
    BY DEF ProviderRefuses, ProviderDeclines, monolith
  <1>2. UNCHANGED <<Open, Charged, Told>>
    BY <1>1 DEF Open, Charged, Told, AskedBy, MadeFor
  <1>3. CASE c.n \in cut
    <2>1. Loose' = Loose \ {r} /\ r \in Loose
      BY <1>1, <1>3, CallsApart DEF Loose, MadeFor
    <2> HIDE DEF r
    <2>2. Book!Drop(r)
      BY <1>1, <1>2, <2>1 DEF Book!Drop, Open, Loose, Charged, Told
    <2>3. QED
      BY <2>1, <2>2 DEF Book!Next, Loose
  <1>4. CASE c.n \notin cut
    <2>1. Loose' = Loose
      BY <1>1, <1>4 DEF Loose, MadeFor
    <2>2. QED
      BY <1>1, <1>2, <2>1, BookQuiet
  <1>5. QED
    BY <1>3, <1>4

LEMMA BookCalls ==
  ASSUME Inv, Unanswered, NEW h \in Handlers, CreateCharge(h)
  PROVE  UNCHANGED Book!vars
  <1>1. /\ UNCHANGED <<job, cut, sessions, refs, requests>> /\ pc[h] = "call"
        /\ calls' = calls \/ calls' = calls \cup {CallOf(h)}
    BY DEF CreateCharge, monolith
  <1>2. CallOf(h).n \notin cut
    BY <1>1 DEF CallOf, Unanswered, Idle
  <1>3. UNCHANGED <<Open, Loose, Charged, Told>>
    BY <1>1, <1>2 DEF Open, Loose, Charged, Told, AskedBy, MadeFor
  <1>4. QED
    BY <1>1, <1>3, BookQuiet

LEMMA BookSteps ==
  ASSUME Inv, Unanswered, [OpenNext]_vars
  PROVE  [Book!Next]_(Book!vars)
  <1>1. ASSUME NEW h \in Handlers, NEW o \in Orders, NEW d \in Displays,
               NEW country \in Countries, BeginMethods(h, o, d, country)
        PROVE  Book!Next
    <2> DEFINE request == [op |-> "methods", n |-> requests, order |-> o, display |-> d,
                           country |-> country, epoch |-> Epoch]
    <2>1. Begin(h, request, "plan")
      BY <1>1 DEF BeginMethods
    <2>2. request.n = requests /\ request.order \in Orders /\ request.op = "methods"
      OBVIOUS
    <2> HIDE DEF request
    <2>3. QED
      BY <2>1, <2>2, BookBegin
  <1>2. ASSUME NEW h \in Handlers, NEW o \in Orders, BeginCharge(h, o)
        PROVE  Book!Next
    <2>1. PICK c \in FromCard(o) \cup OtherCharges :
            Begin(h, [op |-> "charge", n |-> requests, order |-> o, gateway |-> c.gateway,
                      pay |-> c.pay, price |-> c.price, card |-> c.card], "gateway")
      BY <1>2 DEF BeginCharge
    <2> DEFINE request == [op |-> "charge", n |-> requests, order |-> o,
                           gateway |-> c.gateway, pay |-> c.pay, price |-> c.price,
                           card |-> c.card]
    <2>2. request.n = requests /\ request.order \in Orders /\ request.op = "charge"
      OBVIOUS
    <2>3. Begin(h, request, "gateway")
      BY <2>1
    <2> HIDE DEF request
    <2>4. QED
      BY <2>2, <2>3, BookBegin
  <1>3. ASSUME NEW h \in Handlers, HandlerStep(h) PROVE Book!Next \/ UNCHANGED Book!vars
    <2>1. ASSUME Local(h), UNCHANGED <<calls, sessions>> PROVE UNCHANGED Book!vars
      BY <2>1, BookUnseen DEF Local, monolith
    <2>2. ASSUME \/ ReadPlan(h) \/ ReadDisplay(h) \/ ReadSettle(h) \/ ListGateways(h)
                 \/ BuildCard(h) \/ AllCards(h)
                 \/ ReadGateway(h) \/ ReadPrices(h) \/ ReadCurrency(h) \/ ReceiveAnswer(h)
          PROVE  UNCHANGED Book!vars
      <3>1. Local(h)
        BY <2>2 DEF ReadPlan, ReadDisplay, ReadSettle, ListGateways, BuildCard, AllCards,
                    ReadGateway, ReadPrices, ReadCurrency, ReceiveAnswer
      <3>2. QED
        BY <2>1, <3>1 DEF Local, providers
    <2>3. ASSUME GiveUp(h) PROVE Book!Next
      <3>1. {h} \in SUBSET {k \in Handlers : ~Idle(k)} /\ {} \in SUBSET {h}
        BY <2>3 DEF GiveUp, Idle
      <3>2. /\ UNCHANGED <<job, calls, sessions, refs, requests>>
            /\ cut' = cut \cup {job[k].n : k \in {h}}
        BY <2>3 DEF GiveUp, providers, monolith
      <3>3. QED
        BY <3>1, <3>2, BookLose
    <2>4. QED
      BY <1>3, <2>2, <2>3, BookCalls, BookFinish DEF HandlerStep
  <1>4. ASSUME NEW hs \in SUBSET {h \in Handlers : ~Idle(h)}, Stop(hs) PROVE Book!Next
    <2>1. hs \in SUBSET hs
      OBVIOUS
    <2>2. /\ UNCHANGED <<calls, sessions, refs, requests>>
          /\ cut' = cut \cup {job[h].n : h \in hs}
          /\ \A h \in Handlers : job'[h] = IF h \in hs THEN NoJob ELSE job[h]
      BY <1>4 DEF Stop, Release, providers, monolith
    <2>3. QED
      BY <2>1, <2>2, BookLose
  <1>5. CASE \/ WriteGateway \/ WriteCurrency \/ WritePlan \/ FaultElsewhere
             \/ UNCHANGED vars
    BY <1>5, BookUnseen DEF WriteGateway, WriteCurrency, WritePlan, Write, FaultElsewhere,
                            vars, providers, monolith
  <1>6. QED
    BY <1>1, <1>2, <1>3, <1>4, <1>5, BookCreates, BookEnds
       DEF OpenNext, Next, Disconnect, Crash

LEMMA BookInit == Init => Book!Init
  <1> SUFFICES ASSUME Init PROVE Book!Init
    OBVIOUS
  <1>1. \A h \in Handlers : job[h].op # "charge"
    BY DEF Init, NoJob
  <1>2. calls = {} /\ sessions = {} /\ cut = {} /\ requests = 0 /\ \A o \in Orders : refs[o] = {}
    BY DEF Init
  <1>3. QED
    BY <1>1, <1>2 DEF Book!Init

\* A request for a charge is charged once at most, and ends by being told its charge,
\* by a refusal that is final, or by the loss of its answer, whatever overlaps, fails
\* or is written meanwhile (chargeHandler, CreateCharge).
THEOREM CheckoutKeepsBook == Spec => ChargeBookSpec
  <1>1. [Next]_vars => [OpenNext]_vars
    BY DEF OpenNext
  <1>2. Spec => []Unanswered
    BY <1>1, UnansweredInit, UnansweredStep, InvHolds, PTL DEF Spec
  <1>3. QED
    BY <1>1, <1>2, BookInit, BookSteps, InvHolds, PTL DEF Spec, ChargeBookSpec, Book!Spec

-----------------------------------------------------------------------------
(* The checkout as a part of the service *)

\* Only Write changes the tables; the bound on faults is respected.
LEMMA StepEffects ==
  ASSUME Inv,
         \/ \E h \in Handlers :
              (\E o \in Orders : BeginCharge(h, o)) \/ HandlerStep(h) \/ Disconnect(h)
         \/ \E c \in calls : ProviderCreates(c) \/ ProviderRefuses(c) \/ ProviderDeclines(c)
         \/ Crash
  PROVE  /\ UNCHANGED <<gateways, writes, everActive>>
         /\ faults' \in faults..MaxFaults
         /\ UNCHANGED sessions \/ \E c \in calls : sessions' = sessions \cup {c}
  <1> USE DEF tables, providers, Fault
  <1>0. faults \in Nat /\ MaxFaults \in Nat /\ faults <= MaxFaults
    BY CheckoutBounds DEF Inv, Shape
  <1>1. ASSUME NEW h \in Handlers, \E o \in Orders : BeginCharge(h, o)
        PROVE  UNCHANGED <<gateways, writes, everActive, faults, sessions>>
    BY <1>1 DEF BeginCharge, Begin
  <1>2. ASSUME NEW h \in Handlers,
               \/ ReadPlan(h) \/ ReadDisplay(h) \/ ReadSettle(h) \/ ListGateways(h)
               \/ BuildCard(h) \/ AllCards(h)
               \/ ReadGateway(h) \/ ReadPrices(h) \/ ReadCurrency(h)
        PROVE  /\ UNCHANGED <<gateways, writes, everActive, sessions>>
               /\ faults' \in faults..MaxFaults
    <2>1. Local(h)
      BY <1>2 DEF ReadPlan, ReadDisplay, ReadSettle, ListGateways, BuildCard, AllCards,
                  ReadGateway, ReadPrices, ReadCurrency
    <2>2. UNCHANGED faults \/ Fault
      BY <1>2 DEF ReadPlan, ReadDisplay, ReadSettle, ListGateways, BuildCard, AllCards,
                  ReadGateway, ReadPrices, ReadCurrency, ReadFails, Refuse
    <2>3. QED
      BY <1>0, <2>1, <2>2 DEF Local
  <1>3. ASSUME NEW h \in Handlers,
               CreateCharge(h) \/ ReceiveAnswer(h) \/ GiveUp(h) \/ Finish(h)
        PROVE  UNCHANGED <<gateways, writes, everActive, faults, sessions>>
    BY <1>3 DEF CreateCharge, ReceiveAnswer, GiveUp, Finish, Local
  <1>4. ASSUME NEW h \in Handlers, HandlerStep(h)
        PROVE  /\ UNCHANGED <<gateways, writes, everActive, sessions>>
               /\ faults' \in faults..MaxFaults
    BY <1>0, <1>2, <1>3, <1>4 DEF HandlerStep
  <1>5. ASSUME NEW hs, Stop(hs)
        PROVE  /\ UNCHANGED <<gateways, writes, everActive, sessions>>
               /\ faults' \in faults..MaxFaults
    BY <1>0, <1>5 DEF Stop
  <1>6. ASSUME NEW c \in calls,
               ProviderCreates(c) \/ ProviderRefuses(c) \/ ProviderDeclines(c)
        PROVE  /\ UNCHANGED <<gateways, writes, everActive, faults>>
               /\ UNCHANGED sessions \/ sessions' = sessions \cup {c}
    BY <1>6 DEF ProviderCreates, ProviderRefuses, ProviderDeclines
  <1>7. CASE \E h \in Handlers :
               (\E o \in Orders : BeginCharge(h, o)) \/ HandlerStep(h) \/ Disconnect(h)
    BY <1>0, <1>1, <1>4, <1>5, <1>7 DEF Disconnect
  <1>8. CASE \E c \in calls : ProviderCreates(c) \/ ProviderRefuses(c) \/ ProviderDeclines(c)
    BY <1>0, <1>6, <1>8
  <1>9. CASE Crash
    BY <1>5, <1>9 DEF Crash
  <1>10. QED
    BY <1>7, <1>8, <1>9

=============================================================================
