------------------------------ MODULE ChargeBook ------------------------------
(***************************************************************************)
(* What chargeHandler promises the monolith about the requests it sends:   *)
(* one charge per request at most, and only while the request is open or   *)
(* lost with its call on the way; an open request ends in one of three     *)
(* ways.  It is told the reference of its charge, or it is refused, and    *)
(* then nothing was charged for it and nothing ever will be, or an answer  *)
(* is lost, the provider's to the service or the service's to the monolith *)
(* (a provider that is silent for too long ends as a 422, as a refusal     *)
(* does, so that the monolith cannot tell these two from each other).      *)
(***************************************************************************)
EXTENDS Integers

CONSTANT Orders

VARIABLES
  asked,                 \* how many requests there have been: they are numbered
  open,                  \* the charges asked for and not answered: [n, order]
  loose,                 \* those with a lost answer that may yet be made
  charged,               \* what the providers hold
  known,                 \* the charges whose reference the monolith has
  lost                   \* the numbers of requests with a lost answer

vars == <<asked, open, loose, charged, known, lost>>

Init ==
  /\ asked = 0
  /\ open = {} /\ loose = {} /\ charged = {} /\ known = {} /\ lost = {}

Ask ==
  /\ asked' = asked + 1
  /\ \E o \in Orders : open' = open \cup {[n |-> asked, order |-> o]}
  /\ UNCHANGED <<loose, charged, known, lost>>

\* A request for something else than a charge.
AskOtherwise ==
  /\ asked' = asked + 1
  /\ UNCHANGED <<open, loose, charged, known, lost>>

Charge(r) ==
  /\ charged' = charged \cup {r}
  /\ r \notin charged
  /\ loose' = loose \ {r}
  /\ UNCHANGED <<asked, open, known, lost>>

Tell(r) ==
  /\ known' = known \cup {r}
  /\ open' = open \ {r}
  /\ r \in charged
  /\ UNCHANGED <<asked, loose, charged, lost>>

Refuse(r) ==
  /\ open' = open \ {r}
  /\ r \notin charged \cup loose
  /\ UNCHANGED <<asked, loose, charged, known, lost>>

\* The answers to these requests are lost; what is not charged yet may still be.
Lose(numbers) ==
  /\ lost' = lost \cup numbers
  /\ \A r \in known : r.n \notin numbers
  /\ open' = {r \in open : r.n \notin numbers}
  /\ \E rs \in SUBSET {r \in open \ charged : r.n \in numbers} : loose' = loose \cup rs
  /\ UNCHANGED <<asked, charged, known>>

\* A call nobody waits for comes to nothing.
Drop(r) ==
  /\ loose' = loose \ {r}
  /\ UNCHANGED <<asked, open, charged, known, lost>>

Next ==
  \/ Ask \/ AskOtherwise
  \/ \E r \in open : Tell(r) \/ Refuse(r)
  \/ \E r \in open \cup loose : Charge(r)
  \/ \E r \in loose : Drop(r)
  \/ \E numbers \in SUBSET ((0..(asked - 1)) \ lost) : Lose(numbers)

Spec == Init /\ [][Next]_vars

=============================================================================
