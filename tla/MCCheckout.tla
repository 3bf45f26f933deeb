------------------------------ MODULE MCCheckout ------------------------------
(***************************************************************************)
(* Gateways, currencies, plans and requests for TLC.                       *)
(***************************************************************************)
EXTENDS Checkout, TLC

CONSTANTS h1, h2, o1, o2

Symmetry == Permutations({h1, h2}) \cup Permutations({o1, o2})

Codes == {"USD", "EUR", "BRL", "BTC", "USDT"}

Currency(code, rate, decimals, settle) ==
  [code |-> code, rate |-> rate, decimals |-> decimals, settle |-> settle]

\* EUR settles in USDT, BRL in a currency nobody registered.
Table ==
  {Currency("USD", 100, 2, "USD"), Currency("EUR", 93, 2, "USDT"),
   Currency("BRL", 541, 2, "PAX"), Currency("USDT", 101, 1, "")}

NewRates == {Currency("EUR", 95, 2, "USD"), Currency("USDT", 99, 2, "USDT")}

Prices == [EUR |-> 950, BRL |-> 5490]

Plan(active, cents, prices) == [active |-> active, cents |-> cents, prices |-> prices]

ThePlan == Plan(TRUE, 999, Prices)
NewPlans == {Plan(FALSE, 999, Prices), Plan(TRUE, 1299, [EUR |-> 990])}

Row(id, provider, active, key, network, list) ==
  [id |-> id, provider |-> provider, active |-> active,
   config |-> [key |-> key, network |-> network], currencies |-> list, created |-> 0]

Stripe == Row("card", "stripe", TRUE, TRUE, "", <<"USD", "EUR">>)
Heleket == Row("crypto", "heleket", TRUE, TRUE, "", <<"BTC", "USDT">>)
Tron == Row("tron", "manual_crypto", TRUE, FALSE, "TRC20", <<"USDT">>)
Woovi == Row("pix", "woovi", TRUE, TRUE, "", <<"BRL">>)

\* A row the monolith left, of a provider this service does not know.
Paypal == Row("old", "paypal", TRUE, TRUE, "", <<"", "USD">>)

OneOfEach == {Stripe, Heleket, Tron, Woovi, Paypal}
OnlyCards == {Stripe}

\* The card gateway is saved inactive with another currency, or without its key, or its
\* id is given to another provider; the wallet moves to another network.
NewRows ==
  {Row("card", "stripe", FALSE, TRUE, "", <<"BRL">>),
   Row("card", "stripe", TRUE, FALSE, "", <<"EUR">>),
   Row("card", "heleket", TRUE, TRUE, "", <<"USDT">>),
   Row("tron", "manual_crypto", TRUE, FALSE, "BSC", <<"USDT">>)}

Ask(gateway, pay, price) == [gateway |-> gateway, pay |-> pay, price |-> price, card |-> Nil]

Price(currency, amount) == [currency |-> currency, amount |-> amount]

OldAsk == {Ask("old", "", Nil)}
Asks == {Ask("card", "EUR", Nil), Ask("card", "", Price("USD", 500))}

\* An AbacatePay gateway an administrator gave USD.
Abacate == {Row("pix", "abacatepay", TRUE, TRUE, "", <<"USD">>)}
AbacateAsk == {Ask("pix", "USD", Nil)}

NoRows == {}

=============================================================================
