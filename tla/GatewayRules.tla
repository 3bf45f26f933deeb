----------------------------- MODULE GatewayRules -----------------------------
(***************************************************************************)
(* The rules application/gateway_service.go applies to a gateway before it *)
(* is written: which providers exist, which currencies a gateway accepts,  *)
(* how an update is merged into the row it read.                           *)
(*                                                                         *)
(* Currency codes are in the form the code compares them in (trimmed and   *)
(* upper case), as it stores them so too; a code is valid when it is one   *)
(* of CurrencyCodes (three to five letters A-Z in the source).  Of         *)
(* providers other spellings reach the table, and "Stripe" stands for them.*)
(***************************************************************************)
EXTENDS Naturals, SequencesExt

CONSTANTS
  CurrencyCodes,       \* the valid codes
  Nil                  \* a field absent from the JSON of a request

Blank == ""            \* an empty string; in a list, one of spaces too

ValidProviders == {"woovi", "heleket", "manual_pix", "manual_usdt", "manual_crypto",
                   "stripe", "abacatepay"}

ProviderDefaultCurrencies ==
  [woovi         |-> <<"BRL">>,
   manual_pix    |-> <<"BRL">>,
   manual_usdt   |-> <<"USDT">>,
   manual_crypto |-> <<"USDT">>,
   heleket       |-> <<"USDT", "USD", "EUR", "BTC">>,
   stripe        |-> <<"USD", "EUR", "BRL", "GBP">>,
   abacatepay    |-> <<"BRL">>]

\* ToLower and TrimSpace.
Lower(provider) == IF provider = "Stripe" THEN "stripe" ELSE provider

ValidCurrencyCode(c) == c \in CurrencyCodes

\* The list without blanks and repetitions, in the order given.
Distinct(list) ==
  LET kept[n \in 0..Len(list)] ==      \* of the first n
        IF n = 0 THEN <<>>
        ELSE IF list[n] = Blank \/ Contains(kept[n - 1], list[n]) THEN kept[n - 1]
        ELSE Append(kept[n - 1], list[n])
  IN  kept[Len(list)]

\* validateGateway accepts a known provider, however spelled, and a list of valid
\* codes and blanks.
\* Its last check, of an active gateway without currencies, never fails: every
\* valid provider has default currencies.
GatewayValid(provider, list) ==
  /\ Lower(provider) \in ValidProviders
  /\ \A i \in DOMAIN list : list[i] = Blank \/ ValidCurrencyCode(list[i])

\* Mutant: the defaults of the provider are forgotten.
Accepted_NoDefaults(provider, list) == Distinct(list)

\* What it returns then: the distinct codes or, for want of any, the defaults.
Accepted(provider, list) ==
  IF Distinct(list) = <<>> THEN ProviderDefaultCurrencies[Lower(provider)] ELSE Distinct(list)

\* Mutant: a body without a configuration empties it.
Merge_ConfigEmptied(existing, in) ==
  [existing EXCEPT
     !.name       = IF in.name # Blank THEN in.name ELSE @,
     !.provider   = IF in.provider # Blank THEN Lower(in.provider) ELSE @,
     !.active     = in.active,
     !.config     = IF in.config # Nil THEN in.config ELSE Blank,
     !.currencies = IF in.currencies # Nil THEN in.currencies ELSE @]

\* Update: a request's fields replace those of the row it read, if present;
\* active always does.  A provider the request does not mention keeps its spelling.
Merge(existing, in) ==
  [existing EXCEPT
     !.name       = IF in.name # Blank THEN in.name ELSE @,
     !.provider   = IF in.provider # Blank THEN Lower(in.provider) ELSE @,
     !.active     = in.active,
     !.config     = IF in.config # Nil THEN in.config ELSE @,
     !.currencies = IF in.currencies # Nil THEN in.currencies ELSE @]

\* Mutant: the list is normalised only when the request brings one.
Merged_AsStored(existing, in) ==
  LET g == Merge(existing, in) IN
  IF in.currencies = Nil THEN g ELSE [g EXCEPT !.currencies = Accepted(g.provider, @)]

\* The row an update writes.
Merged(existing, in) ==
  LET g == Merge(existing, in) IN
  [g EXCEPT !.currencies = Accepted(g.provider, g.currencies)]

\* Create refuses a request without a name or a provider.
CreateValid(in) ==
  /\ in.name # Blank
  /\ in.provider # Blank
  /\ GatewayValid(in.provider, IF in.currencies = Nil THEN <<>> ELSE in.currencies)

\* The row a create inserts; created_at is not among its columns.
Created(id, in) ==
  [id         |-> id,
   name       |-> in.name,
   provider   |-> Lower(in.provider),
   active     |-> in.active,
   config     |-> IF in.config = Nil THEN Blank ELSE in.config,
   currencies |-> Accepted(in.provider, IF in.currencies = Nil THEN <<>> ELSE in.currencies),
   created    |-> 0]

=============================================================================
