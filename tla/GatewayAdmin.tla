----------------------------- MODULE GatewayAdmin -----------------------------
(***************************************************************************)
(* The CRUD of gateways: the handlers of http/handlers.go, the service of  *)
(* application/gateway_service.go and the statements of                    *)
(* postgres/gateway_repo.go, run by several requests at once.              *)
(*                                                                         *)
(* Create and Delete are one statement each.  Update reads the row, merges *)
(* the request into it, validates the result and writes the whole row      *)
(* back, without a transaction: whatever other requests wrote between its  *)
(* read and its write is overwritten, and the row may be gone.             *)
(***************************************************************************)
EXTENDS GatewayRules, GatewayTable, FiniteSets

CONSTANTS
  Admins,              \* requests in flight at once
  Ids,
  Names, ProviderNames, Configs, Lists,    \* the values of the columns
  CreateInputs,        \* the bodies of POST /internal/v1/gateways
  UpdateInputs,        \* the bodies of PUT /internal/v1/gateways/{id}
  LegacyRows,          \* the rows at the start: the monolith wrote them
  NoRow,
  MaxRequests,         \* bound: requests
  MaxFaults            \* bound: failures of the database

GatewayRows == [id : Ids, name : Names, provider : ProviderNames, active : BOOLEAN,
                config : Configs, currencies : Lists, created : Nat]

Inputs == [name : Names, provider : ProviderNames, active : BOOLEAN,
           config : Configs \cup {Nil}, currencies : Lists \cup {Nil}]

ASSUME InputsAssumption ==
  /\ CreateInputs \in SUBSET Inputs /\ UpdateInputs \in SUBSET Inputs
  /\ Blank \in Configs
  /\ Nil \notin Configs /\ Nil \notin Lists

\* Lists are of strings, and what validateGateway makes of those that requests
\* and rows hold is among Lists again; so are the spellings of providers.
ASSUME ListsAssumption ==
  /\ Lists \subseteq Seq(STRING)
  /\ <<>> \in Lists
  /\ \A p \in ProviderNames : Lower(p) \in ProviderNames
  /\ \A p \in ProviderNames, list \in Lists :
       GatewayValid(p, list) => Accepted(p, list) \in Lists

\* The currencies of providerDefaultCurrencies are codes of three to five letters.
ASSUME DefaultsAssumption ==
  \A p \in ValidProviders : \A i \in DOMAIN ProviderDefaultCurrencies[p] :
    ValidCurrencyCode(ProviderDefaultCurrencies[p][i])

ASSUME RowsAssumption ==
  /\ LegacyRows \in SUBSET GatewayRows
  /\ \A f, g \in LegacyRows : f.id = g.id => f = g

ASSUME NoRowAssumption == NoRow \notin Ids \cup Inputs \cup GatewayRows

ASSUME AdminBounds == MaxRequests \in Nat /\ MaxFaults \in Nat

VARIABLES
  gateways,            \* payment_gateways
  pc,                  \* per request: its step or its answer
  target,              \* the id it is about
  input,               \* its body
  row,                 \* the row it is about to write
  requests, faults,    \* how much of the bounds is used
  used,                \* ids taken: newID never returns one twice
  stored,              \* history: ids the table has had a row for
  stale                \* history: updates whose row others changed after they read it

vars == <<gateways, pc, target, input, row, requests, faults, used, stored, stale>>

Answers == {"ok", "not_found", "invalid_input", "internal"}

Init ==
  /\ gateways = LegacyRows
  /\ pc = [a \in Admins |-> "idle"]
  /\ target = [a \in Admins |-> NoRow]
  /\ input = [a \in Admins |-> NoRow]
  /\ row = [a \in Admins |-> NoRow]
  /\ requests = 0
  /\ faults = 0
  /\ used = IdsOf(LegacyRows)
  /\ stored = IdsOf(LegacyRows)
  /\ stale = {}

Goto(a, step) == pc' = [pc EXCEPT ![a] = step]

Begin(a) ==
  /\ pc[a] = "idle"
  /\ requests < MaxRequests
  /\ requests' = requests + 1

\* The updates about to write a row that a step of another request changes.
Overtaken(a) ==
  {b \in Admins \ {a} :
     pc[b] = "write" /\ SelectByID(gateways', target[b]) # SelectByID(gateways, target[b])}

\* A statement that fails in the database, before or after it took effect.
Failing(a, table) ==
  /\ faults < MaxFaults
  /\ faults' = faults + 1
  /\ gateways' \in {gateways, table}
  /\ stored' = stored \cup IdsOf(gateways')
  /\ stale' = stale \cup Overtaken(a)
  /\ Goto(a, "internal")

\* A statement that takes effect.
Running(a, table) ==
  /\ gateways' = table
  /\ stored' = stored \cup IdsOf(gateways')
  /\ stale' = stale \cup Overtaken(a)
  /\ Goto(a, "ok")
  /\ UNCHANGED faults

-----------------------------------------------------------------------------
\* Mutant: newID may return an id twice.
NewIds_Reused == Ids

\* 128 random bits: an id that was never one before.
NewIds == Ids \ used

\* createGatewayHandler up to the INSERT.
BeginCreate(a, in) ==
  /\ Begin(a)
  /\ \/ /\ CreateValid(in)
        /\ \E id \in NewIds :
             /\ row' = [row EXCEPT ![a] = Created(id, in)]
             /\ used' = used \cup {id}
        /\ Goto(a, "insert")
     \/ /\ ~CreateValid(in)
        /\ Goto(a, "invalid_input")
        /\ UNCHANGED <<row, used>>
  /\ UNCHANGED <<gateways, target, input, faults, stored, stale>>

\* repo.Create; created_at is the time of the statement.
Insert(a) ==
  LET new == InsertRow(gateways, [row[a] EXCEPT !.created = requests]) IN
  /\ pc[a] = "insert"
  /\ Running(a, new) \/ Failing(a, new)
  /\ UNCHANGED <<target, input, row, requests, used>>

BeginUpdate(a, id, in) ==
  /\ Begin(a)
  /\ target' = [target EXCEPT ![a] = id]
  /\ input' = [input EXCEPT ![a] = in]
  /\ Goto(a, "read")
  /\ UNCHANGED <<gateways, row, faults, used, stored, stale>>

\* GetByID, the merge and its validation.
ReadAndMerge(a) ==
  /\ pc[a] = "read"
  /\ \/ \E g \in SelectByID(gateways, target[a]) :
          LET m == Merge(g, input[a]) IN
          \/ /\ GatewayValid(m.provider, m.currencies)
             /\ row' = [row EXCEPT ![a] = Merged(g, input[a])]
             /\ Goto(a, "write")
          \/ /\ ~GatewayValid(m.provider, m.currencies)
             /\ Goto(a, "invalid_input")
             /\ UNCHANGED row
     \/ /\ SelectByID(gateways, target[a]) = {}
        /\ Goto(a, "not_found")
        /\ UNCHANGED row
  /\ UNCHANGED <<gateways, target, input, requests, faults, used, stored, stale>>

ReadFailed(a) ==
  /\ pc[a] = "read"
  /\ Failing(a, gateways)
  /\ UNCHANGED <<target, input, row, requests, used>>

\* Mutant: RowsAffected is not looked at.
Affects_Unread(id) == TRUE

\* RowsAffected of a statement on the row with this id.
Affects(id) == id \in IdsOf(gateways)

\* repo.Update: no row affected means that it was deleted meanwhile.
WriteBack(a) ==
  LET new == UpdateRow(gateways, row[a]) IN
  /\ pc[a] = "write"
  /\ \/ /\ Affects(row[a].id)
        /\ Running(a, new)
     \/ /\ ~Affects(row[a].id)
        /\ Goto(a, "not_found")
        /\ UNCHANGED <<gateways, faults, stored, stale>>
     \/ Failing(a, new)
  /\ UNCHANGED <<target, input, row, requests, used>>

\* deleteGatewayHandler: a single statement.
Delete(a, id) ==
  /\ Begin(a)
  /\ \/ /\ Affects(id)
        /\ Running(a, DeleteRow(gateways, id))
     \/ /\ ~Affects(id)
        /\ Goto(a, "not_found")
        /\ UNCHANGED <<gateways, faults, stored, stale>>
     \/ Failing(a, DeleteRow(gateways, id))
  /\ UNCHANGED <<target, input, row, used>>

\* listGatewaysHandler and getGatewayHandler: a single statement, and any row is read.
Read(a) ==
  /\ Begin(a)
  /\ \/ /\ \E id \in Ids : Goto(a, IF id \in IdsOf(gateways) THEN "ok" ELSE "not_found")
        /\ UNCHANGED <<gateways, faults, stored, stale>>
     \/ Failing(a, gateways)
  /\ UNCHANGED <<target, input, row, used>>

\* A body that is no JSON is refused before anything is read.
RefuseBody(a) ==
  /\ Begin(a)
  /\ Goto(a, "invalid_input")
  /\ UNCHANGED <<gateways, target, input, row, faults, used, stored, stale>>

Finish(a) ==
  /\ pc[a] \in Answers
  /\ Goto(a, "idle")
  /\ target' = [target EXCEPT ![a] = NoRow]
  /\ input' = [input EXCEPT ![a] = NoRow]
  /\ row' = [row EXCEPT ![a] = NoRow]
  /\ stale' = stale \ {a}
  /\ UNCHANGED <<gateways, requests, faults, used, stored>>

\* The process dies.  A statement under way that still takes effect is one that
\* ran (Insert, WriteBack, Delete) and whose answer was lost.
Crash ==
  /\ \E a \in Admins : pc[a] # "idle"
  /\ faults < MaxFaults
  /\ faults' = faults + 1
  /\ pc' = [a \in Admins |-> "idle"]
  /\ target' = [a \in Admins |-> NoRow]
  /\ input' = [a \in Admins |-> NoRow]
  /\ row' = [a \in Admins |-> NoRow]
  /\ stale' = {}
  /\ UNCHANGED <<gateways, requests, used, stored>>

Next ==
  \/ \E a \in Admins :
       \/ \E in \in CreateInputs : BeginCreate(a, in)
       \/ \E id \in Ids, in \in UpdateInputs : BeginUpdate(a, id, in)
       \/ \E id \in Ids : Delete(a, id)
       \/ Read(a) \/ RefuseBody(a)
       \/ Insert(a) \/ ReadAndMerge(a) \/ ReadFailed(a) \/ WriteBack(a) \/ Finish(a)
  \/ Crash

Spec == Init /\ [][Next]_vars

-----------------------------------------------------------------------------
(* Properties *)

\* Requests hold what their step needs, and a row has one version per id.
TypeOK ==
  /\ gateways \in SUBSET GatewayRows
  /\ pc \in [Admins -> {"idle", "insert", "read", "write"} \cup Answers]
  /\ target \in [Admins -> Ids \cup {NoRow}]
  /\ input \in [Admins -> Inputs \cup {NoRow}]
  /\ row \in [Admins -> GatewayRows \cup {NoRow}]
  /\ requests \in 0..MaxRequests
  /\ faults \in 0..MaxFaults
  /\ used \in SUBSET Ids
  /\ stored \in SUBSET Ids
  /\ stale \in SUBSET Admins
  /\ \A a \in Admins : pc[a] = "read" => target[a] \in Ids /\ input[a] \in Inputs
  /\ \A a \in Admins : pc[a] \in {"insert", "write"} => row[a] \in GatewayRows
  /\ \A f, g \in gateways : f.id = g.id => f = g

\* The provider is named as the registry and the webhooks know it, or still
\* as the monolith spelled it in this very row: they do not find such a row.
Named(g) ==
  \/ g.provider \in ValidProviders
  \/ \E f \in LegacyRows : f.id = g.id /\ f.provider = g.provider

\* A gateway the checkout can use: its provider exists and it accepts something.
Usable(g) == Lower(g.provider) \in ValidProviders /\ Named(g) /\ g.currencies # <<>>

\* Whatever updates interleave, a row is usable or it is still as the monolith
\* left it: there is no active gateway without currencies of this service's
\* making, and no misspelled provider (validateGateway, Create, Update), though
\* the merged row may be one nobody asked for.
RowsUsable == \A g \in gateways : Usable(g) \/ g \in LegacyRows

\* A list of currencies in the form validateGateway promises.
Canonical(list) ==
  /\ \A i \in DOMAIN list : ValidCurrencyCode(list[i])
  /\ \A i, j \in DOMAIN list : list[i] = list[j] => i = j

\* Currencies are normalised on every path that writes them, an update that
\* does not mention them included, and a repetition is never stored.
ListsCanonical == \A g \in gateways : Canonical(g.currencies) \/ g \in LegacyRows

\* A gateway keeps its id and creation time, by which webhooks choose among the
\* active gateways of a provider; once deleted it never comes back, even when
\* an update read it before the deletion and writes it after.
IdentityKept ==
  [][\A g \in gateways' :
       g.id \in stored => \E f \in gateways : f.id = g.id /\ f.created = g.created]_vars

\* An answer of 2xx to a write means that the row is in the table as answered,
\* and a 404 that it is not there: no update is acknowledged that found nothing.
AnswersTruthful ==
  [][\A a \in Admins :
       pc[a] \in {"insert", "write"} =>
         /\ pc'[a] = "ok" =>
              \E g \in gateways' : [g EXCEPT !.created = row[a].created] = row[a]
         /\ pc'[a] = "not_found" => row[a].id \notin IdsOf(gateways')]_vars

\* Row g is row f with what the body asks for, and nothing else, changed.
Asked(f, g, in) ==
  /\ g.id = f.id /\ g.created = f.created
  /\ g.active = in.active
  /\ g.name = (IF in.name = Blank THEN f.name ELSE in.name)
  /\ g.provider = (IF in.provider = Blank THEN f.provider ELSE Lower(in.provider))
  /\ g.config = (IF in.config = Nil THEN f.config ELSE in.config)
  /\ g.currencies =
       Accepted(g.provider, IF in.currencies = Nil THEN f.currencies ELSE in.currencies)

\* An update is lost only to an overlap: one whose row nobody changed between
\* its read and its write leaves what its body does not mention as it is, at
\* that moment, in the table, and no update touches another row.  A failed one
\* does all of that or nothing.
UpdatesAsked ==
  [][\A a \in Admins \ stale :
       pc[a] = "write" /\ pc'[a] \in {"ok", "internal"} =>
         \A f \in gateways : \E g \in gateways' :
           \/ f.id = target[a] /\ Asked(f, g, input[a])
           \/ g = f /\ (f.id = target[a] => pc'[a] = "internal")]_vars

=============================================================================
