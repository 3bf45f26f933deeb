---------------------------- MODULE MCGatewayAdmin ----------------------------
(* An instance of GatewayAdmin for TLC.                                      *)
EXTENDS GatewayAdmin, TLC

CONSTANTS a1, a2, g1, g2, g3

Symmetry == Permutations(Admins)

Codes == {"BRL", "USD", "EUR", "GBP", "USDT", "BTC"}

\* Rows of the monolith: one without currencies, one with a repeated list and a
\* provider that is not in lower case.
Legacy ==
  {[id |-> g1, name |-> "n0", provider |-> "woovi", active |-> TRUE,
    config |-> "k0", currencies |-> <<>>, created |-> 0],
   [id |-> g2, name |-> "n1", provider |-> "Stripe", active |-> TRUE,
    config |-> "k0", currencies |-> <<"USD", "", "USD">>, created |-> 0]}

AllNames == {"", "n0", "n1", "n2", "n3"}
AllProviders == ValidProviders \cup {"", "paypal", "Stripe"}
AllConfigs == {"", "k0", "k1", "k2"}

InputLists == {<<>>, <<"USD", "", "USD">>, <<"BTC", "", "BTC", "USDT">>, <<"", "BTC", "BTC">>,
               <<"brl1">>}
AllLists ==
  InputLists \cup {Accepted(p, list) : p \in ValidProviders, list \in InputLists}

Body(name, provider, active, config, currencies) ==
  [name |-> name, provider |-> provider, active |-> active, config |-> config,
   currencies |-> currencies]

Creates ==
  {Body("n2", "abacatepay", TRUE, Nil, Nil),
   Body("n2", "Stripe", TRUE, "k1", <<"BTC", "", "BTC", "USDT">>),
   Body("n2", "manual_pix", FALSE, "k1", <<"brl1">>),
   Body("", "manual_pix", TRUE, "k1", Nil)}

Updates ==
  {Body("", "", TRUE, "k2", Nil),
   Body("n3", "heleket", TRUE, Nil, <<"", "BTC", "BTC">>),
   Body("", "", FALSE, Nil, <<>>),
   Body("", "paypal", TRUE, Nil, Nil)}

=============================================================================
