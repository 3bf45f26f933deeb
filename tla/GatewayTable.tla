----------------------------- MODULE GatewayTable -----------------------------
(***************************************************************************)
(* The table payment_gateways and the SQL statements of                    *)
(* postgres/gateway_repo.go, as operators on a set of rows.                *)
(*                                                                         *)
(* A row is a record with at least the fields id (the primary key),        *)
(* provider, active, config and created.  No statement but the INSERT sets *)
(* created_at, and nothing makes the active row of a provider unique.      *)
(***************************************************************************)
EXTENDS Integers

IdsOf(table) == {g.id : g \in table}

\* SELECT ... WHERE id=$1: the empty set is domain.ErrNotFound.
SelectByID(table, id) == {g \in table : g.id = id}

\* Mutant: the statement forgets active=true.
ActiveOf_All(table, provider) == {g \in table : g.provider = provider}

ActiveOf(table, provider) == {g \in table : g.active /\ g.provider = provider}

\* SELECT ... WHERE active=true AND provider=$1 ORDER BY created_at LIMIT 1:
\* the rows the query may return (several when created_at ties).
SelectActiveByProvider(table, provider) ==
  {g \in ActiveOf(table, provider) :
     \A other \in ActiveOf(table, provider) : g.created <= other.created}

InsertRow(table, row) == table \cup {row}

\* Mutant: the UPDATE is an upsert.
UpdateRow_Upsert(table, row) == {g \in table : g.id # row.id} \cup {row}

\* The whole row is written back, except created_at.
UpdateRow(table, row) ==
  {IF g.id = row.id THEN [row EXCEPT !.created = g.created] ELSE g : g \in table}

DeleteRow(table, id) == {g \in table : g.id # id}

=============================================================================
