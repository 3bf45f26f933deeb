-------------------------- MODULE GatewayAdminProofs --------------------------
(***************************************************************************)
(* Proofs about GatewayAdmin, for every number of requests in flight, every*)
(* set of ids and inputs, and every value of the bounds.                   *)
(***************************************************************************)
EXTENDS GatewayAdmin, NaturalLemmas

\* What the rules make of a valid request is a row of the table.
LEMMA CreatedTyped ==
  ASSUME NEW id \in Ids, NEW in \in CreateInputs, CreateValid(in)
  PROVE  Created(id, in) \in GatewayRows
  <1> DEFINE list == IF in.currencies = Nil THEN <<>> ELSE in.currencies
  <1>1. in \in Inputs
    BY InputsAssumption
  <1>2. list \in Lists /\ GatewayValid(in.provider, list)
    BY <1>1, ListsAssumption DEF CreateValid, Inputs
  <1>3. Accepted(in.provider, list) \in Lists
    BY <1>1, <1>2, ListsAssumption DEF Inputs
  <1>4. (IF in.config = Nil THEN Blank ELSE in.config) \in Configs
    BY <1>1, InputsAssumption DEF Inputs
  <1>5. in.name \in Names /\ Lower(in.provider) \in ProviderNames /\ in.active \in BOOLEAN
    BY <1>1, ListsAssumption DEF Inputs
  <1>6. QED
    BY <1>3, <1>4, <1>5 DEF Created, GatewayRows

LEMMA MergeTyped ==
  ASSUME NEW g \in GatewayRows, NEW in \in Inputs
  PROVE  /\ Merge(g, in) \in GatewayRows
         /\ Merge(g, in).id = g.id /\ Merge(g, in).created = g.created
  <1>1. in.provider \in ProviderNames /\ Lower(in.provider) \in ProviderNames
    BY ListsAssumption DEF Inputs
  <1>2. QED
    BY <1>1 DEF Merge, GatewayRows, Inputs

LEMMA MergedTyped ==
  ASSUME NEW g \in GatewayRows, NEW in \in Inputs,
         GatewayValid(Merge(g, in).provider, Merge(g, in).currencies)
  PROVE  Merged(g, in) \in GatewayRows /\ Merged(g, in).id = g.id
  <1> DEFINE m == Merge(g, in)
  <1>1. m \in GatewayRows /\ m.id = g.id
    BY MergeTyped
  <1>2. Accepted(m.provider, m.currencies) \in Lists
    BY <1>1, ListsAssumption DEF GatewayRows
  <1>3. Merged(g, in) = [m EXCEPT !.currencies = Accepted(m.provider, m.currencies)]
    BY DEF Merged
  <1> HIDE DEF m
  <1>4. QED
    BY <1>1, <1>2, <1>3 DEF GatewayRows

\* Every valid provider has currencies of its own, so no accepted list is empty.
LEMMA AcceptedSomething ==
  ASSUME NEW p, Lower(p) \in ValidProviders, NEW list
  PROVE  Accepted(p, list) # <<>>
  <1>1. \A c \in STRING : <<c>> # <<>>
    OBVIOUS
  <1>2. ProviderDefaultCurrencies[Lower(p)] # <<>>
    BY DEF ProviderDefaultCurrencies, ValidProviders
  <1>3. QED
    BY <1>2 DEF Accepted

\* A spelling is lowered once.
LEMMA LowerTwice == \A p : Lower(Lower(p)) = Lower(p)
  BY DEF Lower

LEMMA CreatedUsable ==
  ASSUME NEW id, NEW in, CreateValid(in)
  PROVE  Usable(Created(id, in))
  <1> DEFINE p == Lower(in.provider)
  <1>1. p \in ValidProviders /\ Lower(p) = p
    BY LowerTwice DEF CreateValid, GatewayValid
  <1>2. Created(id, in).provider = p /\ Created(id, in).currencies # <<>>
    BY <1>1, AcceptedSomething DEF Created
  <1>3. QED
    BY <1>1, <1>2 DEF Usable, Named

LEMMA MergedUsable ==
  ASSUME NEW g \in GatewayRows, Named(g), NEW in \in Inputs,
         GatewayValid(Merge(g, in).provider, Merge(g, in).currencies)
  PROVE  Usable(Merged(g, in))
  <1> DEFINE m == Merge(g, in)
             w == Merged(g, in)
  <1>1. m \in GatewayRows /\ Lower(m.provider) \in ValidProviders /\ m.id = g.id
    BY MergeTyped DEF GatewayValid
  <1>2. w = [m EXCEPT !.currencies = Accepted(m.provider, m.currencies)]
    BY DEF Merged
  <1>3. m.provider = IF in.provider # Blank THEN Lower(in.provider) ELSE g.provider
    BY DEF Merge, GatewayRows
  <1>4. m.provider \in ValidProviders \/ m.provider = g.provider
    BY <1>1, <1>3, LowerTwice
  <1> HIDE DEF m
  <1>5. w.id = g.id /\ w.provider = m.provider /\ w.currencies # <<>>
    BY <1>1, <1>2, AcceptedSomething DEF GatewayRows
  <1> HIDE DEF w
  <1>6. Usable(w)
    BY <1>1, <1>4, <1>5 DEF Usable, Named
  <1>7. QED
    BY <1>6 DEF w

-----------------------------------------------------------------------------
(* The inductive invariant *)

\* Ids are taken before they are stored and stay taken: a request about to
\* insert has an id of its own that the table has never had.
IdsFresh ==
  /\ IdsOf(gateways) \subseteq stored /\ stored \subseteq used
  /\ \A a \in Admins : pc[a] = "insert" => row[a].id \in used \ stored
  /\ \A a, b \in Admins :
       pc[a] = "insert" /\ pc[b] = "insert" /\ row[a].id = row[b].id => a = b

\* A row as this service writes it, whatever was read.
Sound(g) == Usable(g) /\ Canonical(g.currencies)

RowsSound == \A g \in gateways : Sound(g) \/ g \in LegacyRows

\* What is about to be written is sound.
WritesSound == \A a \in Admins : pc[a] \in {"insert", "write"} => Sound(row[a])

IInv == TypeOK /\ IdsFresh /\ RowsSound /\ WritesSound

-----------------------------------------------------------------------------
(* What the rules make of a list *)

\* Without blanks and repetitions, and of nothing that list does not hold.
Cleaned(out, list) ==
  /\ \A i \in DOMAIN out : out[i] # Blank /\ \E j \in DOMAIN list : out[i] = list[j]
  /\ \A i, j \in DOMAIN out : out[i] = out[j] => i = j

LEMMA AppendKeepsClean ==
  ASSUME NEW V, NEW list \in Seq(V), NEW out \in Seq(V), Cleaned(out, list),
         NEW n \in DOMAIN list, list[n] # Blank, ~Contains(out, list[n])
  PROVE  Append(out, list[n]) \in Seq(V) /\ Cleaned(Append(out, list[n]), list)
  <1> DEFINE new == Append(out, list[n])
  <1>1. list[n] \in V
    OBVIOUS
  <1>2. new \in Seq(V) /\ Len(new) = Len(out) + 1 /\ new[Len(out) + 1] = list[n]
    BY <1>1
  <1>3. \A i \in 1..Len(out) : new[i] = out[i] /\ out[i] # list[n]
    BY <1>1 DEF Contains
  <1>4. DOMAIN new = 1..(Len(out) + 1) /\ DOMAIN out = 1..Len(out) /\ Len(out) \in Nat
    BY <1>2
  <1> HIDE DEF new
  <1>5. \A i \in DOMAIN new : new[i] # Blank /\ \E j \in DOMAIN list : new[i] = list[j]
    <2>1. ASSUME NEW i \in DOMAIN new PROVE i \in DOMAIN out \/ i = Len(out) + 1
      BY <1>4
    <2>2. QED
      BY <2>1, <1>2, <1>3, <1>4 DEF Cleaned
  <1>6. \A i, j \in DOMAIN new : new[i] = new[j] => i = j
    BY <1>2, <1>3, <1>4 DEF Cleaned
  <1>7. QED
    BY <1>2, <1>5, <1>6 DEF Cleaned, new

\* What Distinct computes, for a list of any length: the loop of validateGateway.
LEMMA DistinctIsClean ==
  ASSUME NEW V, NEW list \in Seq(V)
  PROVE  Distinct(list) \in Seq(V) /\ Cleaned(Distinct(list), list)
  <1> DEFINE G == [p \in Nat \X Seq(V) |->
                     IF p[1] \notin 1..Len(list) THEN p[2]
                     ELSE IF list[p[1]] = Blank \/ Contains(p[2], list[p[1]]) THEN p[2]
                     ELSE Append(p[2], list[p[1]])]
             Step(f) == [n \in 0..Len(list) |->
                           IF n = 0 THEN <<>>
                           ELSE IF list[n] = Blank \/ Contains(f[n - 1], list[n]) THEN f[n - 1]
                           ELSE Append(f[n - 1], list[n])]
             kept == CHOOSE f : f = Step(f)
             S == {n \in 0..Len(list) : kept[n] \in Seq(V) /\ Cleaned(kept[n], list)}
  <1>1. Distinct(list) = kept[Len(list)]
    BY DEF Distinct
  <1>2. Len(list) \in Nat /\ DOMAIN list = 1..Len(list) /\ \A n \in 1..Len(list) : list[n] \in V
    OBVIOUS
  <1>3. <<>> \in Seq(V)
    OBVIOUS
  <1>4. G \in [Nat \X Seq(V) -> Seq(V)]
    <2>1. ASSUME NEW p \in Nat \X Seq(V) PROVE G[p] \in Seq(V)
      <3>1. p[1] \in Nat /\ p[2] \in Seq(V)
        OBVIOUS
      <3>2. p[1] \in 1..Len(list) => Append(p[2], list[p[1]]) \in Seq(V)
        BY <3>1, <1>2
      <3>3. QED
        BY <3>1, <3>2
    <2>2. QED
      BY <2>1
  <1>5. \A n \in 1..Len(list), s \in Seq(V) :
          G[<<n, s>>] = IF list[n] = Blank \/ Contains(s, list[n]) THEN s ELSE Append(s, list[n])
    BY <1>2
  <1> HIDE DEF G
  <1>6. PICK f \in [0..Len(list) -> Seq(V)] : Follows(f, G, <<>>, Len(list))
    BY <1>2, <1>3, <1>4, RecursionExists
  <1>7. f = Step(f)
    <2>1. ASSUME NEW n \in 0..Len(list), n # 0 PROVE f[n] = Step(f)[n]
      <3>1. n \in 1..Len(list) /\ n - 1 \in 0..Len(list)
        BY <1>2, <2>1
      <3>2. f[n] = G[<<n, f[n - 1]>>] /\ f[n - 1] \in Seq(V)
        BY <1>6, <3>1 DEF Follows
      <3>3. f[n] = IF list[n] = Blank \/ Contains(f[n - 1], list[n]) THEN f[n - 1]
                   ELSE Append(f[n - 1], list[n])
        BY <1>5, <3>1, <3>2
      <3>4. QED
        BY <2>1, <3>3
    <2>2. f[0] = <<>>
      BY <1>6 DEF Follows
    <2>3. ASSUME NEW n \in 0..Len(list) PROVE f[n] = Step(f)[n]
      BY <2>1, <2>2
    <2>4. QED
      BY <2>3
  <1>8. kept = Step(kept)
    BY <1>7
  <1> HIDE DEF kept
  <1>9. 0 \in S
    <2>1. kept[0] = <<>>
      BY <1>2, <1>8
    <2>2. Cleaned(<<>>, list)
      BY DEF Cleaned
    <2>3. 0 \in 0..Len(list)
      BY <1>2
    <2>4. kept[0] \in Seq(V) /\ Cleaned(kept[0], list)
      BY ONLY <1>3, <2>1, <2>2, Zenon
    <2>5. QED
      BY <2>3, <2>4
  <1>10. ASSUME NEW n \in 1..Len(list), n - 1 \in S PROVE n \in S
    <2>1. n \in 0..Len(list) /\ n # 0 /\ n \in DOMAIN list
      BY <1>2
    <2>2. kept[n - 1] \in Seq(V) /\ Cleaned(kept[n - 1], list)
      BY <1>10
    <2>3. kept[n] = IF list[n] = Blank \/ Contains(kept[n - 1], list[n]) THEN kept[n - 1]
                    ELSE Append(kept[n - 1], list[n])
      BY <1>8, <2>1
    <2>4. kept[n] \in Seq(V) /\ Cleaned(kept[n], list)
      BY <2>1, <2>2, <2>3, AppendKeepsClean
    <2>5. QED
      BY <2>1, <2>4
  <1> HIDE DEF S
  <1>11. 0..Len(list) \subseteq S
    BY <1>2, <1>9, <1>10, BoundedInduction
  <1>12. Len(list) \in S
    BY <1>2, <1>11
  <1>13. QED
    BY <1>1, <1>12 DEF S

LEMMA DefaultsCanonical ==
  ASSUME NEW p \in ValidProviders
  PROVE  Canonical(ProviderDefaultCurrencies[p])
  <1> DEFINE list == ProviderDefaultCurrencies[p]
  <1>1. \A i \in DOMAIN list : ValidCurrencyCode(list[i])
    BY DefaultsAssumption
  <1>2. \A i, j \in DOMAIN list : list[i] = list[j] => i = j
    BY DEF ProviderDefaultCurrencies, ValidProviders
  <1>3. QED
    BY <1>1, <1>2 DEF Canonical

\* validateGateway: what it accepts it returns in canonical form.
LEMMA AcceptedCanonical ==
  ASSUME NEW p, NEW list \in Seq(STRING), GatewayValid(p, list)
  PROVE  Canonical(Accepted(p, list))
  <1>1. Cleaned(Distinct(list), list)
    BY DistinctIsClean
  <1>2. Canonical(Distinct(list))
    BY <1>1 DEF Cleaned, Canonical, GatewayValid
  <1>3. QED
    BY <1>2, DefaultsCanonical DEF Accepted, GatewayValid

LEMMA CreatedSound ==
  ASSUME NEW id, NEW in \in CreateInputs, CreateValid(in)
  PROVE  Sound(Created(id, in))
  <1> DEFINE list == IF in.currencies = Nil THEN <<>> ELSE in.currencies
  <1>1. list \in Seq(STRING) /\ GatewayValid(in.provider, list)
    BY InputsAssumption, ListsAssumption DEF CreateValid, Inputs
  <1>2. Created(id, in).currencies = Accepted(in.provider, list)
    BY DEF Created
  <1> HIDE DEF list
  <1>3. QED
    BY <1>1, <1>2, AcceptedCanonical, CreatedUsable DEF Sound

LEMMA MergedSound ==
  ASSUME NEW g \in GatewayRows, Named(g), NEW in \in Inputs,
         GatewayValid(Merge(g, in).provider, Merge(g, in).currencies)
  PROVE  Sound(Merged(g, in))
  <1> DEFINE m == Merge(g, in)
  <1>1. m \in GatewayRows /\ m.currencies \in Seq(STRING)
    BY MergeTyped, ListsAssumption DEF GatewayRows
  <1>2. Merged(g, in) = [m EXCEPT !.currencies = Accepted(m.provider, m.currencies)]
    BY DEF Merged
  <1>3. GatewayValid(m.provider, m.currencies)
    OBVIOUS
  <1> HIDE DEF m
  <1>4. Merged(g, in).currencies = Accepted(m.provider, m.currencies)
    BY <1>1, <1>2 DEF GatewayRows
  <1>5. QED
    BY <1>1, <1>3, <1>4, AcceptedCanonical, MergedUsable DEF Sound

-----------------------------------------------------------------------------
(* The invariant is kept *)

\* A statement run by a request: the table it leaves behind is typed and sound,
\* and holds no id another request is about to insert.
LEMMA StatementKeeps ==
  ASSUME IInv, NEW a \in Admins, NEW table \in SUBSET GatewayRows,
         Running(a, table) \/ Failing(a, table),
         UNCHANGED <<target, input, row, used>>,
         requests' \in 0..MaxRequests,
         \A f, g \in table : f.id = g.id => f = g,
         \A g \in table : Sound(g) \/ g \in LegacyRows,
         IdsOf(table) \subseteq used,
         \A b \in Admins \ {a} : pc[b] = "insert" => row[b].id \notin IdsOf(table)
  PROVE  IInv'
  <1>1. gateways' = table \/ gateways' = gateways
    BY DEF Running, Failing
  <1>2. PICK answer \in Answers : pc' = [pc EXCEPT ![a] = answer]
    BY DEF Running, Failing, Goto, Answers
  <1>3. stored' = stored \cup IdsOf(gateways')
    BY DEF Running, Failing
  <1>4. faults' \in 0..MaxFaults
    BY AdminBounds DEF Running, Failing, IInv, TypeOK
  <1>5. pc \in [Admins -> {"idle", "insert", "read", "write"} \cup Answers]
    BY DEF IInv, TypeOK
  <1>6. \A b \in Admins : pc'[b] \in {"insert", "read", "write"} => b # a /\ pc'[b] = pc[b]
    BY <1>2, <1>5 DEF Answers
  <1>7. pc' \in [Admins -> {"idle", "insert", "read", "write"} \cup Answers]
    BY <1>2, <1>5
  <1>8. IdsOf(gateways') \subseteq used
    BY <1>1 DEF IInv, IdsFresh
  <1>9. IdsOf(gateways') \subseteq stored' /\ stored' \subseteq used'
    BY <1>3, <1>8 DEF IInv, IdsFresh
  <1>10. TypeOK'
    <2>1. gateways' \in SUBSET GatewayRows /\ \A f, g \in gateways' : f.id = g.id => f = g
      BY <1>1 DEF IInv, TypeOK
    <2>2. used' \in SUBSET Ids /\ stored' \in SUBSET Ids /\ stale' \in SUBSET Admins
      BY <1>9 DEF Running, Failing, Overtaken, IInv, TypeOK
    <2>3. QED
      BY <1>4, <1>6, <1>7, <2>1, <2>2 DEF IInv, TypeOK
  <1>11. IdsFresh'
    <2>1. ASSUME NEW b \in Admins, pc'[b] = "insert"
          PROVE  row'[b].id \in used' \ stored'
      BY <1>1, <1>3, <1>6, <2>1 DEF IInv, IdsFresh
    <2>2. ASSUME NEW b \in Admins, NEW c \in Admins,
                 pc'[b] = "insert", pc'[c] = "insert", row'[b].id = row'[c].id
          PROVE  b = c
      BY <1>6, <2>2 DEF IInv, IdsFresh
    <2>3. QED
      BY <1>9, <2>1, <2>2 DEF IdsFresh
  <1>12. RowsSound'
    BY <1>1 DEF IInv, RowsSound, Sound, Usable, Canonical, ValidCurrencyCode
  <1>13. WritesSound'
    BY <1>6 DEF IInv, WritesSound, Sound, Usable, Canonical, ValidCurrencyCode
  <1>14. QED
    BY <1>10, <1>11, <1>12, <1>13 DEF IInv

\* When a row was created does not matter to what it is worth.
LEMMA RedatedSound ==
  ASSUME NEW r \in GatewayRows, Sound(r), NEW t \in Nat
  PROVE  Sound([r EXCEPT !.created = t])
  <1> DEFINE s == [r EXCEPT !.created = t]
  <1>1. s.id = r.id /\ s.provider = r.provider /\ s.currencies = r.currencies
    BY DEF GatewayRows
  <1> HIDE DEF s
  <1>2. Usable(s) /\ Canonical(s.currencies)
    BY <1>1 DEF Sound, Usable, Named
  <1>3. QED
    BY <1>2 DEF Sound, s

LEMMA InsertedTable ==
  ASSUME IInv, NEW a \in Admins, pc[a] = "insert"
  PROVE  LET new == InsertRow(gateways, [row[a] EXCEPT !.created = requests]) IN
         /\ new \in SUBSET GatewayRows
         /\ \A f, g \in new : f.id = g.id => f = g
         /\ \A g \in new : Sound(g) \/ g \in LegacyRows
         /\ IdsOf(new) = IdsOf(gateways) \cup {row[a].id}
  <1> DEFINE r == [row[a] EXCEPT !.created = requests]
             new == InsertRow(gateways, r)
  <1>1. row[a] \in GatewayRows /\ requests \in Nat
    BY DEF IInv, TypeOK
  <1>2. r \in GatewayRows /\ r.id = row[a].id /\ Sound(r)
    <2>1. r \in GatewayRows /\ r.id = row[a].id
      BY <1>1 DEF GatewayRows
    <2>2. Sound(row[a])
      BY DEF IInv, WritesSound
    <2>3. QED
      BY <1>1, <2>1, <2>2, RedatedSound
  <1> HIDE DEF r
  <1>3. \A g \in gateways : g.id # r.id
    BY <1>2 DEF IInv, IdsFresh, IdsOf
  <1>4. new \in SUBSET GatewayRows
    BY <1>2 DEF InsertRow, IInv, TypeOK
  <1>5. \A f, g \in new : f.id = g.id => f = g
    BY <1>3 DEF InsertRow, IInv, TypeOK
  <1>6. \A g \in new : Sound(g) \/ g \in LegacyRows
    BY <1>2 DEF InsertRow, IInv, RowsSound
  <1>7. IdsOf(new) = IdsOf(gateways) \cup {row[a].id}
    BY <1>2 DEF InsertRow, IdsOf
  <1>8. QED
    BY <1>4, <1>5, <1>6, <1>7 DEF r

LEMMA UpdatedTable ==
  ASSUME IInv, NEW a \in Admins, pc[a] = "write"
  PROVE  LET new == UpdateRow(gateways, row[a]) IN
         /\ new \in SUBSET GatewayRows
         /\ \A f, g \in new : f.id = g.id => f = g
         /\ \A g \in new : Sound(g) \/ g \in LegacyRows
         /\ IdsOf(new) = IdsOf(gateways)
         /\ \A g \in new : \E f \in gateways : f.id = g.id /\ f.created = g.created
  <1> DEFINE Version(g) == IF g.id = row[a].id THEN [row[a] EXCEPT !.created = g.created] ELSE g
             new == UpdateRow(gateways, row[a])
  <1>1. row[a] \in GatewayRows /\ gateways \in SUBSET GatewayRows
    BY DEF IInv, TypeOK
  <1>2. \A g \in gateways :
          /\ Version(g) \in GatewayRows
          /\ Version(g).id = g.id /\ Version(g).created = g.created
    BY <1>1 DEF GatewayRows
  <1>3. \A g \in gateways : Sound(Version(g)) \/ Version(g) \in LegacyRows
    <2>1. Sound(row[a])
      BY DEF IInv, WritesSound
    <2>2. ASSUME NEW g \in gateways PROVE Sound(Version(g)) \/ Version(g) \in LegacyRows
      <3>1. g.created \in Nat
        BY <1>1 DEF GatewayRows
      <3>2. Sound([row[a] EXCEPT !.created = g.created])
        BY <1>1, <2>1, <3>1, RedatedSound
      <3>3. QED
        BY <3>2 DEF IInv, RowsSound
    <2>3. QED
      BY <2>2
  <1>4. new = {Version(g) : g \in gateways}
    BY DEF UpdateRow
  <1> HIDE DEF Version, new
  <1>5. \A f, g \in new : f.id = g.id => f = g
    BY <1>2, <1>4 DEF IInv, TypeOK
  <1>6. IdsOf(new) = IdsOf(gateways)
    BY <1>2, <1>4 DEF IdsOf
  <1>7. \A g \in new : \E f \in gateways : f.id = g.id /\ f.created = g.created
    BY <1>2, <1>4
  <1>8. new \in SUBSET GatewayRows /\ \A g \in new : Sound(g) \/ g \in LegacyRows
    BY <1>2, <1>3, <1>4
  <1>9. QED
    BY <1>5, <1>6, <1>7, <1>8 DEF new

\* A step of request a that runs no statement.
LEMMA QuietStepKeeps ==
  ASSUME IInv, NEW a \in Admins,
         UNCHANGED <<gateways, stored, faults>>, stale' \in SUBSET Admins,
         requests' \in 0..MaxRequests, used' \in SUBSET Ids, used \subseteq used',
         NEW step \in {"idle", "insert", "read", "write"} \cup Answers,
         pc' = [pc EXCEPT ![a] = step],
         target' \in [Admins -> Ids \cup {NoRow}],
         input' \in [Admins -> Inputs \cup {NoRow}],
         row' \in [Admins -> GatewayRows \cup {NoRow}],
         \A b \in Admins \ {a} :
           target'[b] = target[b] /\ input'[b] = input[b] /\ row'[b] = row[b],
         step = "read" => target'[a] \in Ids /\ input'[a] \in Inputs,
         step \in {"insert", "write"} => row'[a] \in GatewayRows /\ Sound(row'[a]),
         step = "insert" => row'[a].id \in used' \ used
  PROVE  IInv'
  <1>1. pc \in [Admins -> {"idle", "insert", "read", "write"} \cup Answers]
    BY DEF IInv, TypeOK
  <1>2. pc'[a] = step /\ \A b \in Admins \ {a} : pc'[b] = pc[b]
    BY <1>1
  <1>3. pc' \in [Admins -> {"idle", "insert", "read", "write"} \cup Answers]
    BY <1>1
  <1>4. TypeOK'
    BY <1>2, <1>3 DEF IInv, TypeOK
  <1>5. IdsFresh'
    <2>1. ASSUME NEW b \in Admins, pc'[b] = "insert"
          PROVE  row'[b].id \in used' \ stored'
      BY <1>2, <2>1 DEF IInv, IdsFresh
    <2>2. ASSUME NEW b \in Admins, NEW c \in Admins,
                 pc'[b] = "insert", pc'[c] = "insert", row'[b].id = row'[c].id
          PROVE  b = c
      <3>1. CASE b # a /\ c # a
        BY <1>2, <2>2, <3>1 DEF IInv, IdsFresh
      <3>2. CASE b = a /\ c # a
        BY <1>2, <2>2, <3>2 DEF IInv, IdsFresh
      <3>3. CASE b # a /\ c = a
        BY <1>2, <2>2, <3>3 DEF IInv, IdsFresh
      <3>4. QED
        BY <3>1, <3>2, <3>3
    <2>3. QED
      BY <2>1, <2>2 DEF IInv, IdsFresh
  <1>6. RowsSound'
    BY DEF IInv, RowsSound, Sound, Usable, Canonical, ValidCurrencyCode
  <1>7. WritesSound'
    BY <1>2 DEF IInv, WritesSound, Sound, Usable, Canonical, ValidCurrencyCode
  <1>8. QED
    BY <1>4, <1>5, <1>6, <1>7 DEF IInv

LEMMA InvInit == Init => IInv
  <1> SUFFICES ASSUME Init PROVE IInv
    OBVIOUS
  <1>1. TypeOK
    BY RowsAssumption, AdminBounds DEF Init, TypeOK, IdsOf, GatewayRows
  <1>2. IdsFresh
    BY DEF Init, IdsFresh
  <1>3. QED
    BY <1>1, <1>2 DEF IInv, Init, RowsSound, WritesSound

LEMMA InvStep == IInv /\ [Next]_vars => IInv'
  <1> SUFFICES ASSUME IInv, [Next]_vars PROVE IInv'
    OBVIOUS
  <1> USE DEF Goto
  <1>1. ASSUME NEW a \in Admins, NEW in \in CreateInputs, BeginCreate(a, in) PROVE IInv'
    <2>1. requests' \in 0..MaxRequests /\ UNCHANGED <<gateways, target, input, faults, stored, stale>>
      BY <1>1, AdminBounds DEF BeginCreate, Begin, IInv, TypeOK
    <2>2. CASE CreateValid(in)
      <3>1. PICK id \in Ids \ used : /\ row' = [row EXCEPT ![a] = Created(id, in)]
                                    /\ used' = used \cup {id}
        BY <1>1, <2>2 DEF BeginCreate, NewIds
      <3>2. Created(id, in) \in GatewayRows /\ Sound(Created(id, in))
        BY <2>2, CreatedTyped, CreatedSound
      <3>3. Created(id, in).id = id
        BY DEF Created
      <3>4. pc' = [pc EXCEPT ![a] = "insert"]
        BY <1>1, <2>2 DEF BeginCreate
      <3>5. /\ row \in [Admins -> GatewayRows \cup {NoRow}] /\ used \in SUBSET Ids
            /\ stale \in SUBSET Admins
        BY DEF IInv, TypeOK
      <3>6. /\ row' \in [Admins -> GatewayRows \cup {NoRow}]
            /\ row'[a] = Created(id, in)
            /\ \A b \in Admins \ {a} : row'[b] = row[b]
        BY <3>1, <3>2, <3>5
      <3>7. target \in [Admins -> Ids \cup {NoRow}] /\ input \in [Admins -> Inputs \cup {NoRow}]
        BY DEF IInv, TypeOK
      <3>8. QED
        BY <2>1, <3>1, <3>2, <3>3, <3>4, <3>5, <3>6, <3>7, QuietStepKeeps
    <2>3. CASE ~CreateValid(in)
      <3>1. pc' = [pc EXCEPT ![a] = "invalid_input"] /\ UNCHANGED <<row, used>>
        BY <1>1, <2>3 DEF BeginCreate
      <3>2. QED
        BY <2>1, <3>1, QuietStepKeeps DEF Answers, IInv, TypeOK
    <2>4. QED
      BY <2>2, <2>3
  <1>2. ASSUME NEW a \in Admins, NEW id \in Ids, NEW in \in UpdateInputs, BeginUpdate(a, id, in)
        PROVE  IInv'
    <2>1. requests' \in 0..MaxRequests /\ in \in Inputs
      BY <1>2, AdminBounds, InputsAssumption DEF BeginUpdate, Begin, IInv, TypeOK
    <2>2. /\ target' \in [Admins -> Ids \cup {NoRow}] /\ input' \in [Admins -> Inputs \cup {NoRow}]
          /\ target'[a] = id /\ input'[a] = in
          /\ \A b \in Admins \ {a} : target'[b] = target[b] /\ input'[b] = input[b]
      BY <1>2, <2>1 DEF BeginUpdate, IInv, TypeOK
    <2>3. pc' = [pc EXCEPT ![a] = "read"] /\ UNCHANGED <<gateways, row, faults, used, stored, stale>>
      BY <1>2 DEF BeginUpdate
    <2>4. /\ row \in [Admins -> GatewayRows \cup {NoRow}] /\ used \in SUBSET Ids
          /\ stale \in SUBSET Admins
      BY DEF IInv, TypeOK
    <2>5. QED
      BY <2>1, <2>2, <2>3, <2>4, QuietStepKeeps
  <1>3. ASSUME NEW a \in Admins, NEW id \in Ids, Delete(a, id) PROVE IInv'
    <2> DEFINE new == DeleteRow(gateways, id)
    <2>1. requests' \in 0..MaxRequests /\ UNCHANGED <<target, input, row, used>>
      BY <1>3, AdminBounds DEF Delete, Begin, IInv, TypeOK
    <2>2. new \subseteq gateways
      BY DEF DeleteRow
    <2>3. CASE Running(a, new) \/ Failing(a, new)
      <3> HIDE DEF new
      <3>1. new \in SUBSET GatewayRows /\ \A f, g \in new : f.id = g.id => f = g
        BY <2>2 DEF IInv, TypeOK
      <3>2. \A g \in new : Sound(g) \/ g \in LegacyRows
        BY <2>2 DEF IInv, RowsSound
      <3>3. IdsOf(new) \subseteq stored
        BY <2>2 DEF IInv, IdsFresh, IdsOf
      <3>4. IdsOf(new) \subseteq used /\ \A b \in Admins \ {a} :
              pc[b] = "insert" => row[b].id \notin IdsOf(new)
        BY <3>3 DEF IInv, IdsFresh
      <3>5. QED
        BY <2>1, <2>3, <3>1, <3>2, <3>4, StatementKeeps
    <2>4. CASE pc' = [pc EXCEPT ![a] = "not_found"] /\ UNCHANGED <<gateways, faults, stored, stale>>
      BY <2>1, <2>4, QuietStepKeeps DEF Answers, IInv, TypeOK
    <2>5. QED
      BY <1>3, <2>3, <2>4 DEF Delete
  <1>4. ASSUME NEW a \in Admins, Insert(a) PROVE IInv'
    <2> DEFINE new == InsertRow(gateways, [row[a] EXCEPT !.created = requests])
    <2>1. pc[a] = "insert"
      BY <1>4 DEF Insert
    <2>2. /\ new \in SUBSET GatewayRows
          /\ \A f, g \in new : f.id = g.id => f = g
          /\ \A g \in new : Sound(g) \/ g \in LegacyRows
          /\ IdsOf(new) = IdsOf(gateways) \cup {row[a].id}
      BY <2>1, InsertedTable
    <2>3. Running(a, new) \/ Failing(a, new)
      BY <1>4 DEF Insert
    <2>4. UNCHANGED <<target, input, row, used>> /\ requests' \in 0..MaxRequests
      BY <1>4 DEF Insert, IInv, TypeOK
    <2> HIDE DEF new
    <2>5. IdsOf(new) \subseteq used
      BY <2>1, <2>2 DEF IInv, IdsFresh
    <2>6. \A b \in Admins \ {a} : pc[b] = "insert" => row[b].id \notin IdsOf(new)
      BY <2>1, <2>2 DEF IInv, IdsFresh
    <2>7. QED
      BY <2>2, <2>3, <2>4, <2>5, <2>6, StatementKeeps
  <1>5. ASSUME NEW a \in Admins, ReadAndMerge(a) PROVE IInv'
    <2>1. UNCHANGED <<gateways, target, input, requests, faults, used, stored, stale>> /\ pc[a] = "read"
      BY <1>5 DEF ReadAndMerge
    <2>2. requests' \in 0..MaxRequests /\ used' \in SUBSET Ids /\ input[a] \in Inputs
      BY <2>1 DEF IInv, TypeOK
    <2>3. /\ target' \in [Admins -> Ids \cup {NoRow}] /\ stale' \in SUBSET Admins
          /\ input' \in [Admins -> Inputs \cup {NoRow}]
          /\ row \in [Admins -> GatewayRows \cup {NoRow}]
      BY <2>1 DEF IInv, TypeOK
    <2>4. CASE \E g \in gateways :
                 /\ GatewayValid(Merge(g, input[a]).provider, Merge(g, input[a]).currencies)
                 /\ row' = [row EXCEPT ![a] = Merged(g, input[a])]
                 /\ pc' = [pc EXCEPT ![a] = "write"]
      <3>1. PICK g \in gateways :
              /\ GatewayValid(Merge(g, input[a]).provider, Merge(g, input[a]).currencies)
              /\ row' = [row EXCEPT ![a] = Merged(g, input[a])]
              /\ pc' = [pc EXCEPT ![a] = "write"]
        BY <2>4
      <3>2. g \in GatewayRows /\ Named(g)
        <4>1. g \in GatewayRows /\ (Sound(g) \/ g \in LegacyRows)
          BY DEF IInv, TypeOK, RowsSound
        <4>2. QED
          BY <4>1 DEF Sound, Usable, Named
      <3>3. Merged(g, input[a]) \in GatewayRows /\ Sound(Merged(g, input[a]))
        BY <2>2, <3>1, <3>2, MergedTyped, MergedSound
      <3>4. /\ row' \in [Admins -> GatewayRows \cup {NoRow}]
            /\ row'[a] = Merged(g, input[a])
            /\ \A b \in Admins \ {a} : row'[b] = row[b]
        BY <2>3, <3>1, <3>3
      <3>5. QED
        BY <2>1, <2>2, <2>3, <3>1, <3>3, <3>4, QuietStepKeeps
    <2>5. CASE \E answer \in Answers : pc' = [pc EXCEPT ![a] = answer] /\ UNCHANGED row
      BY <2>1, <2>2, <2>3, <2>5, QuietStepKeeps DEF Answers
    <2>6. QED
      BY <1>5, <2>4, <2>5 DEF ReadAndMerge, SelectByID, Answers
  <1>6. ASSUME NEW a \in Admins, ReadFailed(a) PROVE IInv'
    <2>1. Failing(a, gateways) /\ UNCHANGED <<target, input, row, requests, used>> /\ pc[a] = "read"
      BY <1>6 DEF ReadFailed
    <2>2. \A b \in Admins : pc[b] = "insert" => row[b].id \notin IdsOf(gateways)
      BY DEF IInv, IdsFresh
    <2>3. IdsOf(gateways) \subseteq used
      BY DEF IInv, IdsFresh
    <2>4. QED
      BY <2>1, <2>2, <2>3, StatementKeeps DEF IInv, TypeOK, RowsSound
  <1>7. ASSUME NEW a \in Admins, WriteBack(a) PROVE IInv'
    <2> DEFINE new == UpdateRow(gateways, row[a])
    <2>1. UNCHANGED <<target, input, row, requests, used>> /\ pc[a] = "write"
      BY <1>7 DEF WriteBack
    <2>2. /\ new \in SUBSET GatewayRows
          /\ \A f, g \in new : f.id = g.id => f = g
          /\ \A g \in new : Sound(g) \/ g \in LegacyRows
          /\ IdsOf(new) = IdsOf(gateways)
      BY <2>1, UpdatedTable
    <2>3. CASE Running(a, new) \/ Failing(a, new)
      <3> HIDE DEF new
      <3>1. IdsOf(new) \subseteq used /\ \A b \in Admins \ {a} :
              pc[b] = "insert" => row[b].id \notin IdsOf(new)
        BY <2>2 DEF IInv, IdsFresh
      <3>2. requests' \in 0..MaxRequests
        BY <2>1 DEF IInv, TypeOK
      <3>3. QED
        BY <2>1, <2>2, <2>3, <3>1, <3>2, StatementKeeps
    <2>4. CASE pc' = [pc EXCEPT ![a] = "not_found"] /\ UNCHANGED <<gateways, faults, stored, stale>>
      BY <2>1, <2>4, QuietStepKeeps DEF Answers, IInv, TypeOK
    <2>5. QED
      BY <1>7, <2>3, <2>4 DEF WriteBack, Affects
  <1>8. ASSUME NEW a \in Admins, Finish(a) PROVE IInv'
    <2>1. /\ pc' = [pc EXCEPT ![a] = "idle"]
          /\ UNCHANGED <<gateways, requests, faults, used, stored>>
      BY <1>8 DEF Finish
    <2>2. /\ target' \in [Admins -> Ids \cup {NoRow}]
          /\ input' \in [Admins -> Inputs \cup {NoRow}]
          /\ row' \in [Admins -> GatewayRows \cup {NoRow}]
          /\ \A b \in Admins \ {a} :
               target'[b] = target[b] /\ input'[b] = input[b] /\ row'[b] = row[b]
      BY <1>8 DEF Finish, IInv, TypeOK
    <2>3. requests' \in 0..MaxRequests /\ used' \in SUBSET Ids /\ stale' \in SUBSET Admins
      BY <1>8, <2>1 DEF Finish, IInv, TypeOK
    <2>4. QED
      BY <2>1, <2>2, <2>3, QuietStepKeeps
  <1>r. ASSUME NEW a \in Admins, Read(a) PROVE IInv'
    <2>1. requests' \in 0..MaxRequests /\ UNCHANGED <<target, input, row, used>>
      BY <1>r, AdminBounds DEF Read, Begin, IInv, TypeOK
    <2>2. CASE Failing(a, gateways)
      <3>1. \A b \in Admins : pc[b] = "insert" => row[b].id \notin IdsOf(gateways)
        BY DEF IInv, IdsFresh
      <3>2. IdsOf(gateways) \subseteq used
        BY DEF IInv, IdsFresh
      <3>3. QED
        BY <2>1, <2>2, <3>1, <3>2, StatementKeeps DEF IInv, TypeOK, RowsSound
    <2>3. CASE /\ \E step \in {"ok", "not_found"} : pc' = [pc EXCEPT ![a] = step]
               /\ UNCHANGED <<gateways, faults, stored, stale>>
      BY <2>1, <2>3, QuietStepKeeps DEF Answers, IInv, TypeOK
    <2>4. QED
      BY <1>r, <2>2, <2>3 DEF Read
  <1>b. ASSUME NEW a \in Admins, RefuseBody(a) PROVE IInv'
    <2>1. /\ requests' \in 0..MaxRequests /\ pc' = [pc EXCEPT ![a] = "invalid_input"]
          /\ UNCHANGED <<gateways, target, input, row, faults, used, stored, stale>>
      BY <1>b, AdminBounds DEF RefuseBody, Begin, IInv, TypeOK
    <2>2. QED
      BY <2>1, QuietStepKeeps DEF Answers, IInv, TypeOK
  <1>9. CASE Crash
    <2>1. \A a \in Admins : pc'[a] = "idle"
      BY <1>9 DEF Crash
    <2>2. TypeOK'
      BY <1>9, AdminBounds DEF Crash, IInv, TypeOK
    <2>3. QED
      BY <1>9, <2>1, <2>2
         DEF Crash, IInv, IdsFresh, RowsSound, WritesSound,
             Sound, Usable, Canonical, ValidCurrencyCode
  <1>10. CASE UNCHANGED vars
    <2>1. TypeOK'
      BY <1>10 DEF vars, IInv, TypeOK
    <2>2. QED
      BY <1>10, <2>1
         DEF vars, IInv, IdsFresh, RowsSound, WritesSound,
             Sound, Usable, Canonical, ValidCurrencyCode
  <1>11. QED
    BY <1>1, <1>2, <1>3, <1>4, <1>5, <1>6, <1>7, <1>8, <1>r, <1>b, <1>9, <1>10 DEF Next

LEMMA Inductive == Spec => []IInv
  BY InvInit, InvStep, PTL DEF Spec

\* Requests hold what their step needs, and no two rows share an id although the
\* inserts of several requests interleave (newID, repo.Create).
THEOREM TypeCorrect == Spec => []TypeOK
  <1>1. IInv => TypeOK
    BY DEF IInv
  <1>2. QED
    BY <1>1, Inductive, PTL

\* Every row this service has written is usable by the checkout, whatever
\* updates, deletions and failures interleave (validateGateway).
THEOREM RowsStayUsable == Spec => []RowsUsable
  <1>1. IInv => RowsUsable
    BY DEF IInv, RowsSound, Sound, RowsUsable
  <1>2. QED
    BY <1>1, Inductive, PTL

\* Every list of currencies this service has written is of valid codes without
\* repetition, an update that mentions no currencies included (validateGateway).
THEOREM ListsAreCanonical == Spec => []ListsCanonical
  <1>1. IInv => ListsCanonical
    BY DEF IInv, RowsSound, Sound, ListsCanonical
  <1>2. QED
    BY <1>1, Inductive, PTL

-----------------------------------------------------------------------------
(* Action properties *)

Identity ==
  \A g \in gateways' :
    g.id \in stored => \E f \in gateways : f.id = g.id /\ f.created = g.created

\* A row keeps its id and creation time as long as it exists, and an id whose row
\* was deleted is never given another: an update that read the row before the
\* deletion finds nothing to write (GatewayService.Update, repo.Update).
THEOREM IdentityIsKept == Spec => IdentityKept
  <1>1. ASSUME IInv, [Next]_vars PROVE Identity
    <2>1. ASSUME gateways' \subseteq gateways PROVE Identity
      BY <2>1 DEF Identity
    <2>2. ASSUME NEW a \in Admins, Insert(a) PROVE Identity
      <3> DEFINE r == [row[a] EXCEPT !.created = requests]
      <3>1. pc[a] = "insert" /\ gateways' \subseteq gateways \cup {r}
        BY <2>2 DEF Insert, Running, Failing, InsertRow
      <3>2. row[a] \in GatewayRows
        BY <1>1, <3>1 DEF IInv, TypeOK
      <3>3. r.id = row[a].id
        BY <3>2 DEF GatewayRows
      <3>4. r.id \notin stored
        BY <1>1, <3>1, <3>3 DEF IInv, IdsFresh
      <3> HIDE DEF r
      <3>5. QED
        BY <3>1, <3>4 DEF Identity
    <2>3. ASSUME NEW a \in Admins, WriteBack(a) PROVE Identity
      <3>1. pc[a] = "write" /\ gateways' \in {gateways, UpdateRow(gateways, row[a])}
        BY <2>3 DEF WriteBack, Running, Failing
      <3>2. \A g \in UpdateRow(gateways, row[a]) :
              \E f \in gateways : f.id = g.id /\ f.created = g.created
        BY <1>1, <3>1, UpdatedTable
      <3>3. QED
        BY <3>1, <3>2 DEF Identity
    <2>4. ASSUME NEW a \in Admins, NEW id \in Ids, Delete(a, id) PROVE Identity
      BY <2>1, <2>4 DEF Delete, Running, Failing, DeleteRow
    <2>5. ASSUME NEW a \in Admins, ReadFailed(a) \/ Read(a) PROVE Identity
      BY <2>1, <2>5 DEF ReadFailed, Read, Failing
    <2>6. ASSUME UNCHANGED gateways PROVE Identity
      BY <2>1, <2>6
    <2>7. QED
      BY <1>1, <2>2, <2>3, <2>4, <2>5, <2>6
         DEF Next, BeginCreate, BeginUpdate, ReadAndMerge, RefuseBody, Finish, Crash, vars
  <1>2. IInv /\ [Next]_vars => [Identity]_vars
    BY <1>1
  <1>3. Spec => [][Identity]_vars
    BY <1>2, Inductive, PTL DEF Spec
  <1>4. QED
    BY <1>3 DEF IdentityKept, Identity

Truthful(a) ==
  pc[a] \in {"insert", "write"} =>
    /\ pc'[a] = "ok" =>
         \E g \in gateways' : [g EXCEPT !.created = row[a].created] = row[a]
    /\ pc'[a] = "not_found" => row[a].id \notin IdsOf(gateways')

\* A create or an update is answered 2xx only with the row in the table as it was
\* written, and 404 only when it is not there (RowsAffected in repo.Update).
THEOREM AnswersAreTruthful == Spec => AnswersTruthful
  <1>1. ASSUME IInv, [Next]_vars, NEW a \in Admins, pc[a] \in {"insert", "write"}
        PROVE  Truthful(a)
    <2>1. pc \in [Admins -> {"idle", "insert", "read", "write"} \cup Answers]
      BY <1>1 DEF IInv, TypeOK
    <2>2. row[a] \in GatewayRows
      BY <1>1 DEF IInv, TypeOK
    <2>3. ASSUME pc'[a] \notin {"ok", "not_found"} PROVE Truthful(a)
      BY <2>3 DEF Truthful
    <2>4. ASSUME NEW b \in Admins, b # a, NEW step, pc' = [pc EXCEPT ![b] = step]
          PROVE  Truthful(a)
      BY <1>1, <2>1, <2>3, <2>4
    <2>5. ASSUME Insert(a) PROVE Truthful(a)
      <3> DEFINE r == [row[a] EXCEPT !.created = requests]
      <3>1. [r EXCEPT !.created = row[a].created] = row[a]
        BY <2>2 DEF GatewayRows
      <3> HIDE DEF r
      <3>2. pc'[a] \in {"ok", "internal"} /\ (pc'[a] = "ok" => r \in gateways')
        BY <2>1, <2>5 DEF Insert, Running, Failing, InsertRow, Goto, r
      <3>3. QED
        BY <3>1, <3>2 DEF Truthful
    <2>6. ASSUME WriteBack(a) PROVE Truthful(a)
      <3>1. CASE row[a].id \in IdsOf(gateways) /\ Running(a, UpdateRow(gateways, row[a]))
        <4>1. PICK g \in gateways : g.id = row[a].id
          BY <3>1 DEF IdsOf
        <4> DEFINE r == [row[a] EXCEPT !.created = g.created]
        <4>2. r \in gateways'
          BY <3>1, <4>1 DEF Running, UpdateRow
        <4>3. [r EXCEPT !.created = row[a].created] = row[a]
          BY <2>2 DEF GatewayRows
        <4>4. pc'[a] = "ok"
          BY <2>1, <3>1 DEF Running, Goto
        <4> HIDE DEF r
        <4>5. QED
          BY <4>2, <4>3, <4>4 DEF Truthful
      <3>2. CASE row[a].id \notin IdsOf(gateways) /\ Goto(a, "not_found") /\ UNCHANGED gateways
        <4>1. pc'[a] = "not_found" /\ IdsOf(gateways') = IdsOf(gateways)
          BY <2>1, <3>2 DEF Goto, IdsOf
        <4>2. QED
          BY <3>2, <4>1 DEF Truthful
      <3>3. CASE Failing(a, UpdateRow(gateways, row[a]))
        BY <2>1, <2>3, <3>3 DEF Failing, Goto
      <3>4. QED
        BY <2>6, <3>1, <3>2, <3>3 DEF WriteBack, Affects
    <2>7. ASSUME Crash PROVE Truthful(a)
      BY <2>3, <2>7 DEF Crash
    <2>8. ASSUME UNCHANGED vars PROVE Truthful(a)
      BY <1>1, <2>3, <2>8 DEF vars
    <2>9. ASSUME NEW b \in Admins,
                 \/ \E in \in CreateInputs : BeginCreate(b, in)
                 \/ \E id \in Ids, in \in UpdateInputs : BeginUpdate(b, id, in)
                 \/ \E id \in Ids : Delete(b, id)
                 \/ Read(b) \/ RefuseBody(b)
                 \/ Insert(b) \/ ReadAndMerge(b) \/ ReadFailed(b) \/ WriteBack(b)
                 \/ Finish(b)
          PROVE  Truthful(a)
      <3>1. \E step : pc' = [pc EXCEPT ![b] = step]
        BY <2>9 DEF BeginCreate, BeginUpdate, Delete, Insert, ReadAndMerge, ReadFailed,
                    Read, RefuseBody, WriteBack, Finish, Running, Failing, Goto
      <3>2. CASE b = a
        BY <1>1, <2>5, <2>6, <2>9, <3>2
           DEF BeginCreate, BeginUpdate, Delete, Read, RefuseBody, ReadAndMerge, ReadFailed,
               Finish, Begin, Answers
      <3>3. QED
        BY <2>4, <3>1, <3>2
    <2>10. QED
      BY <1>1, <2>7, <2>8, <2>9 DEF Next
  <1>2. IInv /\ [Next]_vars => [\A a \in Admins : Truthful(a)]_vars
    BY <1>1 DEF Truthful
  <1>3. Spec => [][\A a \in Admins : Truthful(a)]_vars
    BY <1>2, Inductive, PTL DEF Spec
  <1>4. QED
    BY <1>3 DEF AnswersTruthful, Truthful

-----------------------------------------------------------------------------
(* Updates *)

\* An update about to write has merged its body into a row with the id it is
\* about: the row of the table, unless another request changed that since.
Faithful(a) ==
  pc[a] = "write" =>
    /\ row[a].id = target[a] /\ input[a] \in Inputs
    /\ a \notin stale => \E g \in SelectByID(gateways, target[a]) : row[a] = Merged(g, input[a])

RowsAsked == \A a \in Admins : Faithful(a)

\* The statement of a request leaves the other requests' rows faithful.
LEMMA StatementFaithful ==
  ASSUME IInv, RowsAsked, NEW a \in Admins, NEW table,
         Running(a, table) \/ Failing(a, table), UNCHANGED <<target, input, row>>
  PROVE  RowsAsked'
  <1>1. pc \in [Admins -> {"idle", "insert", "read", "write"} \cup Answers]
    BY DEF IInv, TypeOK
  <1>2. /\ pc'[a] # "write" /\ \A b \in Admins \ {a} : pc'[b] = pc[b]
        /\ stale' = stale \cup Overtaken(a)
    BY <1>1 DEF Running, Failing, Goto
  <1>3. ASSUME NEW b \in Admins \ {a} PROVE Faithful(b)'
    <2>1. CASE pc[b] # "write"
      BY <1>2, <2>1 DEF Faithful
    <2>2. CASE pc[b] = "write"
      <3>1. Faithful(b)
        BY DEF RowsAsked
      <3>2. b \notin stale' =>
              b \notin stale /\ SelectByID(gateways', target[b]) = SelectByID(gateways, target[b])
        BY <1>2, <2>2 DEF Overtaken
      <3>3. QED
        BY <1>2, <2>2, <3>1, <3>2 DEF Faithful, SelectByID, Merged
    <2>3. QED
      BY <2>1, <2>2
  <1>4. Faithful(a)'
    BY <1>2 DEF Faithful
  <1>5. QED
    BY <1>3, <1>4 DEF RowsAsked

\* So does a step of a request that runs none and does not lead it to a write.
LEMMA QuietFaithful ==
  ASSUME IInv, RowsAsked, NEW a \in Admins, NEW step,
         pc' = [pc EXCEPT ![a] = step], step # "write",
         UNCHANGED gateways, stale \ {a} \subseteq stale',
         \A b \in Admins \ {a} :
           target'[b] = target[b] /\ input'[b] = input[b] /\ row'[b] = row[b]
  PROVE  RowsAsked'
  <1>1. pc \in [Admins -> {"idle", "insert", "read", "write"} \cup Answers]
    BY DEF IInv, TypeOK
  <1>2. pc'[a] # "write" /\ \A b \in Admins \ {a} : pc'[b] = pc[b]
    BY <1>1
  <1>3. ASSUME NEW b \in Admins \ {a} PROVE Faithful(b)'
    <2>1. Faithful(b)
      BY DEF RowsAsked
    <2>2. QED
      BY <1>2, <2>1 DEF Faithful, SelectByID, Merged
  <1>4. Faithful(a)'
    BY <1>2 DEF Faithful
  <1>5. QED
    BY <1>3, <1>4 DEF RowsAsked

LEMMA AskedInit == Init => RowsAsked
  BY DEF Init, RowsAsked, Faithful

LEMMA AskedStep == IInv /\ RowsAsked /\ [Next]_vars => RowsAsked'
  <1> SUFFICES ASSUME IInv, RowsAsked, [Next]_vars PROVE RowsAsked'
    OBVIOUS
  <1>0. /\ target \in [Admins -> Ids \cup {NoRow}] /\ input \in [Admins -> Inputs \cup {NoRow}]
        /\ row \in [Admins -> GatewayRows \cup {NoRow}]
    BY DEF IInv, TypeOK
  <1>1. ASSUME NEW a \in Admins, NEW in \in CreateInputs, BeginCreate(a, in) PROVE RowsAsked'
    <2>1. /\ UNCHANGED <<gateways, target, input, stale>>
          /\ \A b \in Admins \ {a} : row'[b] = row[b]
          /\ \E step \in {"insert", "invalid_input"} : pc' = [pc EXCEPT ![a] = step]
      BY <1>0, <1>1 DEF BeginCreate, Goto
    <2>2. QED
      BY <2>1, QuietFaithful
  <1>2. ASSUME NEW a \in Admins, NEW id \in Ids, NEW in \in UpdateInputs, BeginUpdate(a, id, in)
        PROVE  RowsAsked'
    <2>1. /\ UNCHANGED <<gateways, row, stale>> /\ pc' = [pc EXCEPT ![a] = "read"]
          /\ \A b \in Admins \ {a} : target'[b] = target[b] /\ input'[b] = input[b]
      BY <1>0, <1>2 DEF BeginUpdate, Goto
    <2>2. QED
      BY <2>1, QuietFaithful
  <1>3. ASSUME NEW a \in Admins, NEW id \in Ids, Delete(a, id) PROVE RowsAsked'
    <2>1. CASE Running(a, DeleteRow(gateways, id)) \/ Failing(a, DeleteRow(gateways, id))
      BY <1>3, <2>1, StatementFaithful DEF Delete
    <2>2. CASE Goto(a, "not_found") /\ UNCHANGED <<gateways, faults, stored, stale>>
      BY <1>3, <2>2, QuietFaithful DEF Delete, Goto
    <2>3. QED
      BY <1>3, <2>1, <2>2 DEF Delete
  <1>4. ASSUME NEW a \in Admins, Insert(a) PROVE RowsAsked'
    BY <1>4, StatementFaithful DEF Insert
  <1>5. ASSUME NEW a \in Admins, ReadAndMerge(a) PROVE RowsAsked'
    <2>1. UNCHANGED <<gateways, target, input, stale>> /\ pc[a] = "read" /\ input[a] \in Inputs
      BY <1>5 DEF ReadAndMerge, IInv, TypeOK
    <2>2. CASE \E g \in SelectByID(gateways, target[a]) :
                 /\ GatewayValid(Merge(g, input[a]).provider, Merge(g, input[a]).currencies)
                 /\ row' = [row EXCEPT ![a] = Merged(g, input[a])]
                 /\ pc' = [pc EXCEPT ![a] = "write"]
      <3>1. PICK g \in SelectByID(gateways, target[a]) :
              /\ GatewayValid(Merge(g, input[a]).provider, Merge(g, input[a]).currencies)
              /\ row' = [row EXCEPT ![a] = Merged(g, input[a])]
              /\ pc' = [pc EXCEPT ![a] = "write"]
        BY <2>2
      <3>2. g \in GatewayRows /\ g.id = target[a]
        BY DEF SelectByID, IInv, TypeOK
      <3>3. Merged(g, input[a]).id = target[a]
        BY <2>1, <3>1, <3>2, MergedTyped
      <3>4. pc \in [Admins -> {"idle", "insert", "read", "write"} \cup Answers]
        BY DEF IInv, TypeOK
      <3>5. row'[a] = Merged(g, input[a]) /\ \A b \in Admins \ {a} : row'[b] = row[b]
        BY <1>0, <3>1
      <3>6. \A b \in Admins \ {a} : pc'[b] = pc[b]
        BY <3>1, <3>4
      <3>7. Faithful(a)'
        BY <2>1, <3>3, <3>5 DEF Faithful, SelectByID, Merged
      <3>8. ASSUME NEW b \in Admins \ {a} PROVE Faithful(b)'
        <4>1. Faithful(b)
          BY DEF RowsAsked
        <4>2. QED
          BY <2>1, <3>5, <3>6, <4>1 DEF Faithful, SelectByID, Merged
      <3>9. QED
        BY <3>7, <3>8 DEF RowsAsked
    <2>3. CASE \E answer \in Answers : pc' = [pc EXCEPT ![a] = answer] /\ UNCHANGED row
      BY <2>1, <2>3, QuietFaithful DEF Answers
    <2>4. QED
      BY <1>5, <2>2, <2>3 DEF ReadAndMerge, Answers, Goto
  <1>6. ASSUME NEW a \in Admins, ReadFailed(a) PROVE RowsAsked'
    BY <1>6, StatementFaithful DEF ReadFailed
  <1>7. ASSUME NEW a \in Admins, WriteBack(a) PROVE RowsAsked'
    <2>1. CASE Running(a, UpdateRow(gateways, row[a])) \/ Failing(a, UpdateRow(gateways, row[a]))
      BY <1>7, <2>1, StatementFaithful DEF WriteBack
    <2>2. CASE Goto(a, "not_found") /\ UNCHANGED <<gateways, faults, stored, stale>>
      BY <1>7, <2>2, QuietFaithful DEF WriteBack, Goto
    <2>3. QED
      BY <1>7, <2>1, <2>2 DEF WriteBack
  <1>8. ASSUME NEW a \in Admins, Finish(a) PROVE RowsAsked'
    <2>1. /\ UNCHANGED gateways /\ stale' = stale \ {a} /\ pc' = [pc EXCEPT ![a] = "idle"]
          /\ \A b \in Admins \ {a} :
               target'[b] = target[b] /\ input'[b] = input[b] /\ row'[b] = row[b]
      BY <1>0, <1>8 DEF Finish, Goto
    <2>2. QED
      BY <2>1, QuietFaithful
  <1>9. ASSUME NEW a \in Admins, Read(a) PROVE RowsAsked'
    <2>1. CASE Failing(a, gateways)
      BY <1>9, <2>1, StatementFaithful DEF Read
    <2>2. CASE /\ \E step \in {"ok", "not_found"} : pc' = [pc EXCEPT ![a] = step]
               /\ UNCHANGED <<gateways, faults, stored, stale>>
      BY <1>9, <2>2, QuietFaithful DEF Read
    <2>3. QED
      BY <1>9, <2>1, <2>2 DEF Read, Goto
  <1>10. ASSUME NEW a \in Admins, RefuseBody(a) PROVE RowsAsked'
    BY <1>10, QuietFaithful DEF RefuseBody, Goto
  <1>11. CASE Crash
    BY <1>11 DEF Crash, RowsAsked, Faithful
  <1>12. CASE UNCHANGED vars
    BY <1>12 DEF vars, RowsAsked, Faithful, SelectByID, Merged
  <1>13. QED
    BY <1>1, <1>2, <1>3, <1>4, <1>5, <1>6, <1>7, <1>8, <1>9, <1>10, <1>11, <1>12 DEF Next

\* The merge and its normalisation change what the body asks for and nothing else.
LEMMA MergedAsAsked ==
  ASSUME NEW f \in GatewayRows, NEW in \in Inputs, Merged(f, in) \in GatewayRows
  PROVE  Asked(f, [Merged(f, in) EXCEPT !.created = f.created], in)
  <1> DEFINE m == Merge(f, in)
             w == Merged(f, in)
             g == [w EXCEPT !.created = f.created]
  <1>1. /\ m \in GatewayRows /\ m.id = f.id
        /\ m.active = in.active
        /\ m.name = (IF in.name = Blank THEN f.name ELSE in.name)
        /\ m.provider = (IF in.provider = Blank THEN f.provider ELSE Lower(in.provider))
        /\ m.config = (IF in.config = Nil THEN f.config ELSE in.config)
        /\ m.currencies = (IF in.currencies = Nil THEN f.currencies ELSE in.currencies)
    <2>1. m \in GatewayRows /\ m.id = f.id
      BY MergeTyped
    <2>2. m.provider = (IF in.provider = Blank THEN f.provider ELSE Lower(in.provider))
      BY DEF Merge, GatewayRows
    <2>3. /\ m.active = in.active
          /\ m.name = (IF in.name = Blank THEN f.name ELSE in.name)
          /\ m.config = (IF in.config = Nil THEN f.config ELSE in.config)
          /\ m.currencies = (IF in.currencies = Nil THEN f.currencies ELSE in.currencies)
      BY DEF Merge, GatewayRows
    <2> HIDE DEF m
    <2>4. QED
      BY <2>1, <2>2, <2>3
  <1>2. w = [m EXCEPT !.currencies = Accepted(m.provider, m.currencies)] /\ w \in GatewayRows
    BY DEF Merged
  <1> HIDE DEF m
  <1>3. /\ w.id = m.id /\ w.active = m.active /\ w.name = m.name /\ w.provider = m.provider
        /\ w.config = m.config /\ w.currencies = Accepted(m.provider, m.currencies)
    BY <1>1, <1>2 DEF GatewayRows
  <1> HIDE DEF w
  <1>4. /\ g.id = w.id /\ g.active = w.active /\ g.name = w.name /\ g.provider = w.provider
        /\ g.config = w.config /\ g.currencies = w.currencies /\ g.created = f.created
    BY <1>2 DEF GatewayRows
  <1> HIDE DEF g
  <1>5. Asked(f, g, in)
    BY <1>1, <1>3, <1>4 DEF Asked
  <1>6. QED
    BY <1>5 DEF g, w

AsAsked(a) ==
  pc[a] = "write" /\ pc'[a] \in {"ok", "internal"} =>
    \A f \in gateways : \E g \in gateways' :
      \/ f.id = target[a] /\ Asked(f, g, input[a])
      \/ g = f /\ (f.id = target[a] => pc'[a] = "internal")

\* The write of an update nobody overtook.
LEMMA WritesAsAsked ==
  ASSUME IInv, RowsAsked, NEW a \in Admins \ stale, WriteBack(a)
  PROVE  AsAsked(a)
  <1> DEFINE in == input[a]
             Version(g) == IF g.id = row[a].id THEN [row[a] EXCEPT !.created = g.created] ELSE g
  <1>1. pc[a] = "write"
    BY DEF WriteBack
  <1>2. row[a] \in GatewayRows /\ row[a].id = target[a] /\ in \in Inputs
    BY <1>1 DEF IInv, TypeOK, RowsAsked, Faithful
  <1>3. PICK f \in SelectByID(gateways, target[a]) : row[a] = Merged(f, in)
    BY <1>1 DEF RowsAsked, Faithful
  <1>4. f \in gateways /\ f \in GatewayRows /\ f.id = target[a]
    BY <1>3 DEF SelectByID, IInv, TypeOK
  <1>5. Asked(f, [row[a] EXCEPT !.created = f.created], in)
    BY <1>2, <1>3, <1>4, MergedAsAsked
  <1>6. Version(f) = [row[a] EXCEPT !.created = f.created]
    BY <1>2, <1>4
  <1>7. \A h \in gateways : h.id = target[a] => h = f
    BY <1>4 DEF IInv, TypeOK
  <1>8. \A h \in gateways : h.id # target[a] => Version(h) = h
    BY <1>2
  <1>9. UpdateRow(gateways, row[a]) = {Version(g) : g \in gateways}
    BY DEF UpdateRow
  <1>10. pc \in [Admins -> {"idle", "insert", "read", "write"} \cup Answers]
    BY DEF IInv, TypeOK
  <1> HIDE DEF Version, in
  <1>11. CASE gateways' = UpdateRow(gateways, row[a])
    <2>1. ASSUME NEW h \in gateways
          PROVE  \E g \in gateways' : \/ h.id = target[a] /\ Asked(h, g, in)
                                      \/ g = h /\ h.id # target[a]
      <3>1. Version(h) \in gateways'
        BY <1>9, <1>11
      <3>2. QED
        BY <1>5, <1>6, <1>7, <1>8, <3>1
    <2>2. QED
      BY <2>1 DEF AsAsked, in
  <1>12. CASE gateways' = gateways /\ pc'[a] = "internal"
    BY <1>12 DEF AsAsked
  <1>13. CASE pc'[a] = "not_found"
    BY <1>13 DEF AsAsked
  <1>14. QED
    BY <1>10, <1>11, <1>12, <1>13 DEF WriteBack, Running, Failing, Goto

\* An update whose row nobody else changed between its read and its write changes
\* what its body mentions in that row, normalises the list, and leaves everything
\* else in the table as it is; a failed one may do nothing (GatewayService.Update:
\* GetByID and Update without a transaction).
THEOREM UpdatesAreAsked == Spec => UpdatesAsked
  <1>1. ASSUME IInv, RowsAsked, [Next]_vars, NEW a \in Admins \ stale PROVE AsAsked(a)
    <2>1. pc \in [Admins -> {"idle", "insert", "read", "write"} \cup Answers]
      BY <1>1 DEF IInv, TypeOK
    <2>2. CASE pc[a] # "write"
      BY <2>2 DEF AsAsked
    <2>3. ASSUME pc[a] = "write", pc'[a] \notin {"ok", "internal"} PROVE AsAsked(a)
      BY <2>3 DEF AsAsked
    <2>4. ASSUME NEW b \in Admins, b # a, NEW step, pc' = [pc EXCEPT ![b] = step],
                 pc[a] = "write"
          PROVE  AsAsked(a)
      BY <2>1, <2>3, <2>4
    <2>5. CASE pc[a] = "write"
      <3>1. ASSUME Crash PROVE AsAsked(a)
        BY <2>3, <2>5, <3>1 DEF Crash
      <3>2. ASSUME UNCHANGED vars PROVE AsAsked(a)
        BY <2>3, <2>5, <3>2 DEF vars
      <3>3. ASSUME NEW b \in Admins,
                   \/ \E in \in CreateInputs : BeginCreate(b, in)
                   \/ \E id \in Ids, in \in UpdateInputs : BeginUpdate(b, id, in)
                   \/ \E id \in Ids : Delete(b, id)
                   \/ Read(b) \/ RefuseBody(b)
                   \/ Insert(b) \/ ReadAndMerge(b) \/ ReadFailed(b) \/ WriteBack(b)
                   \/ Finish(b)
            PROVE  AsAsked(a)
        <4>1. \E step : pc' = [pc EXCEPT ![b] = step]
          BY <3>3 DEF BeginCreate, BeginUpdate, Delete, Insert, ReadAndMerge, ReadFailed,
                      Read, RefuseBody, WriteBack, Finish, Running, Failing, Goto
        <4>2. CASE b = a
          <5>1. WriteBack(a)
            BY <2>5, <3>3, <4>2
               DEF BeginCreate, BeginUpdate, Delete, Read, RefuseBody, Insert, ReadAndMerge,
                   ReadFailed, Finish, Begin, Answers
          <5>2. QED
            BY <1>1, <5>1, WritesAsAsked
        <4>3. QED
          BY <2>4, <2>5, <4>1, <4>2
      <3>4. QED
        BY <1>1, <3>1, <3>2, <3>3 DEF Next
    <2>6. QED
      BY <2>2, <2>5
  <1>2. IInv /\ RowsAsked /\ [Next]_vars => [\A a \in Admins \ stale : AsAsked(a)]_vars
    BY <1>1
  <1>3. Spec => []RowsAsked
    BY AskedInit, AskedStep, Inductive, PTL DEF Spec
  <1>4. Spec => [][\A a \in Admins \ stale : AsAsked(a)]_vars
    BY <1>2, <1>3, Inductive, PTL DEF Spec
  <1>5. QED
    BY <1>4 DEF UpdatesAsked, AsAsked

=============================================================================
