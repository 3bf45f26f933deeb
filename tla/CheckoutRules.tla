---------------------------- MODULE CheckoutRules ----------------------------
(***************************************************************************)
(* What payment_methods.go, currency_min.go and handlers.go compute for a  *)
(* checkout: the amount of a plan in a currency, which gateways a customer *)
(* sees and at which price, which currency a charge is made in, and what a *)
(* provider adapter checks before it calls out.                            *)
(*                                                                         *)
(* A currency is a row [code, rate, decimals, settle]; its rate is in      *)
(* hundredths, and an amount counts units of its last decimal.  A plan is  *)
(* [active, cents, prices] with prices a function on the codes that have a *)
(* manual price.  The config of a gateway keeps what the checkout reads of *)
(* it: whether its key is one the adapter accepts, and its network.        *)
(* Codes, providers and countries are in the form they are compared in.    *)
(***************************************************************************)
EXTENDS GatewayRules, Integers

MultiCurrencyProviders == {"heleket", "stripe"}
CryptoProviders == {"manual_crypto", "manual_usdt", "heleket"}
BrOnlyProviders == {"manual_pix", "woovi", "abacatepay"}

\* NewPaymentRegistry in main.go, and those of it that call a provider.
Registry == ValidProviders
AutomaticProviders == {"stripe", "heleket", "woovi", "abacatepay"}

\* The empty set is domain.ErrNotFound or, for a blank code, ErrInvalidInput.
GetByCode(table, code) == {c \in table : c.code = code}

Pow10[n \in Nat] == IF n = 0 THEN 1 ELSE 10 * Pow10[n - 1]

\* A manual price or else the converted one, rounded to the decimals of cur.
AmountFor(plan, cur) ==
  IF cur.code \in DOMAIN plan.prices
  THEN plan.prices[cur.code]
  ELSE (2 * plan.cents * cur.rate * Pow10[cur.decimals] + 10000) \div 20000

\* quoteForPlan, from the rows it has read.
QuoteForPlan(plan, display, settle) ==
  [display          |-> display.code,
   displayAmount    |-> AmountFor(plan, display),
   settlement       |-> settle.code,
   settlementAmount |-> AmountFor(plan, settle)]

-----------------------------------------------------------------------------
(* Methods *)

\* PIX is for Brazil, whatever the currencies; crypto in USDT is for everyone.
GatewayEligible(g, quote, country) ==
  \/ g.provider \in BrOnlyProviders /\ country = "br"
  \/ /\ g.provider \notin BrOnlyProviders
     /\ \E c \in ToSet(g.currencies) :
          \/ c = "USDT" /\ g.provider \in CryptoProviders
          \/ c \in {quote.display, quote.settlement}

\* What a gateway of several currencies would rather charge than its first one.
Preferences(g, display) ==
  IF g.provider \notin MultiCurrencyProviders THEN <<>>
  ELSE (IF g.provider \in CryptoProviders THEN <<"USDT">> ELSE <<>>) \o <<display, "USD">>

\* The first of these, or else of its own list, that it accepts.
PickPrimaryCurrency(g, display) ==
  LET candidates == Preferences(g, display) \o g.currencies
      first == SelectInSeq(candidates, LAMBDA c : c # Blank /\ Contains(g.currencies, c))
  IN IF first = 0 THEN Blank ELSE candidates[first]

SettlementCode(cur, quote) == IF cur.settle = Blank THEN quote.settlement ELSE cur.settle

\* Mutant: only the display currency is looked at.
Converts_HalfNote(cur, settle, quote) == cur.code # quote.display

\* Whether the card carries a conversion_note.
Converts(cur, settle, quote) == cur.code # quote.display \/ cur.code # settle

\* The card of a gateway in the currency cur.  found is what the lookup of the
\* settlement currency returned: when nothing, the amount of the quote stands
\* beside the settlement code all the same.
BuildSingleOption(g, plan, quote, cur, found) ==
  LET settle == SettlementCode(cur, quote) IN
  [gateway          |-> g.id,
   provider         |-> g.provider,
   currency         |-> cur.code,
   amount           |-> AmountFor(plan, cur),
   settlement       |-> settle,
   settlementAmount |-> IF cur.code = settle THEN AmountFor(plan, cur)
                        ELSE IF found = {} THEN quote.settlementAmount
                        ELSE AmountFor(plan, CHOOSE s \in found : TRUE),
   display          |-> quote.display,
   displayAmount    |-> quote.displayAmount,
   note             |-> Converts(cur, settle, quote),
   network          |-> IF g.provider \in {"manual_crypto", "manual_usdt"}
                        THEN g.config.network ELSE Blank]

-----------------------------------------------------------------------------
(* Charges *)

GwAccepts(row, code) == Contains(row.currencies, code)

\* Mutant: the customer's choice is not looked at.
PickCurrency_First(row, pay) == IF row.currencies = <<>> THEN pay ELSE Head(row.currencies)

\* chargeHandler: the customer's choice if accepted, else the first of the list,
\* blank or not registered as it may be; of an empty list the choice, whatever it is.
PickCurrency(row, pay) ==
  IF (pay # Blank /\ GwAccepts(row, pay)) \/ row.currencies = <<>> THEN pay
  ELSE Head(row.currencies)

\* What an adapter refuses by itself: a key of the wrong kind and, Woovi alone,
\* another currency than BRL.
AdapterAccepts(row, currency) ==
  /\ row.provider \in AutomaticProviders => row.config.key
  /\ row.provider = "woovi" => currency = "BRL"

\* The currency a provider bills in: a PIX carries no currency.
BilledCurrency(provider, currency) ==
  IF provider \in {"woovi", "abacatepay"} THEN "BRL" ELSE currency

=============================================================================
