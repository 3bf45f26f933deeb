------------------------------ MODULE MCPayments ------------------------------
(* An instance of Payments for TLC.                                          *)
EXTENDS Payments

CONSTANTS c1, d1, k1, k2

Row(id, active, account, created) ==
  [id |-> id, provider |-> "stripe", active |-> active, created |-> created,
   config |-> [key |-> TRUE, network |-> "", secret |-> account],
   currencies |-> <<"BRL">>]

Cards == {Row("card", TRUE, k1, 1)}

\* The gateway is switched off, is moved to another account, or is overtaken by an
\* older one that is switched on.
Versions ==
  {Row("card", FALSE, k1, 1), Row("card", TRUE, k2, 1), Row("former", TRUE, k2, 0)}

ByCard ==
  {[gateway |-> "card", pay |-> "", price |-> [currency |-> "BRL", amount |-> 990],
    card |-> Nil]}

=============================================================================
