---------------------------- MODULE WebhookProofs ----------------------------
(***************************************************************************)
(* Proofs about Webhook, for every number of handlers, every set of        *)
(* events and secrets, and every value of the bounds.                      *)
(***************************************************************************)
EXTENDS Webhook, FiniteSetTheorems, TLAPS

\* A fault that befalls another component of the service, which shares the bound.
FaultElsewhere ==
  /\ faults' \in faults..MaxFaults
  /\ UNCHANGED <<pc, req, secret, open, gateways, processed, acked, confirmed, writes,
                 posted, lost, claimed, outages, interrupted, everActive>>

\* The steps of the receiver as a part of the service: its own, statements others run
\* on the table of gateways, and faults of others.
OpenNext ==
  \/ Next
  \/ \E table \in SUBSET Rows : Write(table)
  \/ FaultElsewhere

LEMMA NextIsOpen == [Next]_vars => [OpenNext]_vars
  BY DEF OpenNext

\* The handlers and the environment, split into the steps the proofs treat
\* one by one.
LEMMA NextCases ==
  ASSUME [OpenNext]_vars, NEW G,
         \A h \in Handlers :
           /\ LoadGateway(h) => G
           /\ Authenticate(h) => G
           /\ Record(h) => G
           /\ PostCallback(h) => G
           /\ Reply(h) => G
           /\ Disconnect(h) => G
           /\ \A d \in Requests :
                Receive(h, d) /\ (Fault \/ (UNCHANGED faults /\ Due(d.event) = 1)) => G,
         Crash => G,
         \A table \in SUBSET Rows : Write(table) => G,
         FaultElsewhere => G,
         gateways \in SUBSET Rows, writes \in Nat, faults \in 0..MaxFaults
  PROVE  G
  <1>0. ASSUME NEW h \in Handlers, NEW d \in Requests, Receive(h, d),
               Fault \/ (UNCHANGED faults /\ Due(d.event) = 1)
        PROVE  G
    BY <1>0
  <1>1. ASSUME NEW e \in Events PROVE Genuine(e) \in Requests /\ Genuine(e).event = e
    BY EventsAssumption, SecretsAssumption DEF Genuine, Requests
  <1>2. ASSUME NEW h \in Handlers, NEW e \in Events,
               Deliver(h, e) \/ DeliverTwice(h, e)
        PROVE  G
    <2>1. Receive(h, Genuine(e)) /\ (Fault \/ (UNCHANGED faults /\ Due(e) = 1))
      BY <1>2 DEF Deliver, DeliverTwice, Due
    <2>2. QED
      BY <1>0, <1>1, <2>1
  <1>3. ASSUME NEW h \in Handlers, NEW e \in Events,
               NEW sigs \in SUBSET (Secrets \cup {Empty}), NEW fresh \in BOOLEAN,
               DeliverMisSigned(h, e, sigs, fresh)
        PROVE  G
    <2>1. [event |-> e, sigs |-> sigs, fresh |-> fresh] \in Requests
      BY DEF Requests
    <2>2. QED
      BY <1>0, <1>3, <2>1 DEF DeliverMisSigned
  <1>4. CASE GatewayInsert
    <2>1. PICK id \in GatewayIds, p \in Providers, a \in BOOLEAN,
               s \in Secrets \cup {Empty} :
            Write(InsertRow(gateways, [id |-> id, provider |-> p, active |-> a,
                                       config |-> s, created |-> writes + 1]))
      BY <1>4 DEF GatewayInsert
    <2>2. [id |-> id, provider |-> p, active |-> a, config |-> s,
           created |-> writes + 1] \in Rows
      BY DEF Rows
    <2>3. QED
      BY <2>1, <2>2 DEF InsertRow
  <1>5. CASE GatewayUpdate
    <2>1. PICK g \in gateways, p \in Providers, a \in BOOLEAN,
               s \in Secrets \cup {Empty} :
            Write(UpdateRow(gateways, [g EXCEPT !.provider = p, !.active = a,
                                                !.config = s]))
      BY <1>5 DEF GatewayUpdate
    <2>2. [g EXCEPT !.provider = p, !.active = a, !.config = s] \in Rows
      BY DEF Rows
    <2>3. ASSUME NEW row \in Rows PROVE UpdateRow(gateways, row) \in SUBSET Rows
      BY DEF UpdateRow, Rows
    <2>4. QED
      BY <2>1, <2>2, <2>3
  <1>6. CASE GatewayDelete
    BY <1>6 DEF GatewayDelete, DeleteRow
  <1>7. CASE UNCHANGED vars
    BY <1>7, BoundsAssumption DEF vars, FaultElsewhere
  <1>8. QED
    BY <1>2, <1>3, <1>4, <1>5, <1>6, <1>7 DEF OpenNext, Next, HandlerStep, GatewayWrite

-----------------------------------------------------------------------------
(* Types *)

LEMMA TypeInductive ==
  /\ Init => TypeOK
  /\ TypeOK /\ [OpenNext]_vars => TypeOK'
  <1>1. Init => TypeOK
    <2> SUFFICES ASSUME Init PROVE TypeOK
      OBVIOUS
    <2>1. everActive \in SUBSET (Providers \X (Secrets \cup {Empty}))
      BY TableAssumption DEF Init, ActivePairs, Rows
    <2>2. QED
      BY <2>1, TableAssumption, BoundsAssumption DEF Init, TypeOK, Idle
  <1>2. TypeOK /\ [OpenNext]_vars => TypeOK'
    <2> SUFFICES ASSUME TypeOK, [OpenNext]_vars PROVE TypeOK'
      OBVIOUS
    <2> USE NoRequestAssumption, BoundsAssumption
    <2>1. ASSUME NEW h \in Handlers, LoadGateway(h) PROVE TypeOK'
      <3>1. secret' \in [Handlers -> Secrets \cup {Empty}]
        BY <2>1 DEF LoadGateway, TypeOK, SelectActiveByProvider, ActiveOf, Rows
      <3>2. QED
        BY <2>1, <3>1 DEF LoadGateway, TypeOK, Idle, Goto, Fault
    <2>2. ASSUME NEW h \in Handlers, Authenticate(h) PROVE TypeOK'
      BY <2>2 DEF Authenticate, AfterRecord, AfterLedger, TypeOK, Idle, Goto
    <2>3. ASSUME NEW h \in Handlers, Record(h) PROVE TypeOK'
      <3>1. req[h].event \in Events
        BY <2>3 DEF Record, TypeOK, Idle, Requests
      <3>2. QED
        BY <2>3, <3>1 DEF Record, RecordInserted, RecordDuplicate, RecordFailed,
                          AfterRecord, AfterLedger, TypeOK, Idle, Goto, Fault
    <2>4. ASSUME NEW h \in Handlers, PostCallback(h) PROVE TypeOK'
      <3>1. req[h].event \in Events
        BY <2>4 DEF PostCallback, TypeOK, Idle, Requests
      <3>2. QED
        BY <2>4, <3>1 DEF PostCallback, TypeOK, Idle, Goto, Fault
    <2>5. ASSUME NEW h \in Handlers, Reply(h) PROVE TypeOK'
      <3>1. req[h].event \in Events
        BY <2>5 DEF Reply, Release, Acknowledges, TypeOK, Idle, Requests
      <3>2. QED
        BY <2>5, <3>1 DEF Reply, Release, Acknowledges, TypeOK, Idle, Goto
    <2>6. ASSUME NEW h \in Handlers, Disconnect(h) PROVE TypeOK'
      <3>1. \A i \in Handlers : ~Idle(i) => req[i].event \in Events
        BY DEF TypeOK, Idle, Requests
      <3>2. processed' \in SUBSET Events /\ interrupted' \in SUBSET Events
        BY <2>6, <3>1 DEF Disconnect, CommitSome, CutShort, TypeOK, Idle
      <3>3. open' \in [Handlers -> BOOLEAN] /\ faults' \in 0..MaxFaults
        BY <2>6 DEF Disconnect, TypeOK, Fault
      <3>4. UNCHANGED <<pc, req, secret, gateways, writes, acked, confirmed, posted,
                        lost, claimed, outages, everActive>>
        BY <2>6 DEF Disconnect
      <3>5. QED
        BY <3>2, <3>3, <3>4 DEF TypeOK, Idle
    <2>7. ASSUME NEW h \in Handlers, NEW d \in Requests, Receive(h, d),
                 Fault \/ (UNCHANGED faults /\ Due(d.event) = 1)
          PROVE  TypeOK'
      BY <2>7 DEF Receive, TypeOK, Idle, Fault
    <2>8. ASSUME Crash PROVE TypeOK'
      <3>1. \A i \in Handlers : ~Idle(i) => req[i].event \in Events
        BY DEF TypeOK, Idle, Requests
      <3>2. processed' \in SUBSET Events /\ interrupted' \in SUBSET Events
        BY <2>8, <3>1 DEF Crash, Release, CommitSome, CutShort, TypeOK, Idle
      <3>3. QED
        BY <2>8, <3>2 DEF Crash, Release, TypeOK, Idle, Fault
    <2>9. ASSUME NEW table \in SUBSET Rows, Write(table) PROVE TypeOK'
      <3>1. ActivePairs(table) \in SUBSET (Providers \X (Secrets \cup {Empty}))
        BY DEF ActivePairs, Rows
      <3>2. QED
        BY <2>9, <3>1 DEF Write, TypeOK, Idle
    <2>10. CASE FaultElsewhere
      BY <2>10 DEF FaultElsewhere, TypeOK, Idle
    <2>11. gateways \in SUBSET Rows /\ writes \in Nat /\ faults \in 0..MaxFaults
      BY DEF TypeOK
    <2>12. QED
      BY <2>1, <2>2, <2>3, <2>4, <2>5, <2>6, <2>7, <2>8, <2>9, <2>10, <2>11, NextCases
  <1>3. QED
    BY <1>1, <1>2

\* Every variable of the receiver keeps its type, and a handler holds a request
\* exactly while it is at work.
THEOREM TypeCorrect == Spec => []TypeOK
  BY NextIsOpen, TypeInductive, PTL DEF Spec

-----------------------------------------------------------------------------
(* The ledger's guard *)

\* Counting handlers: a set that gains at most one, loses some, or loses one.
LEMMA CountHandlers ==
  ASSUME NEW S \in SUBSET Handlers, NEW T \in SUBSET Handlers
  PROVE  /\ Cardinality(S) \in Nat /\ Cardinality(T) \in Nat
         /\ T \subseteq S => Cardinality(T) <= Cardinality(S)
         /\ \A h : T \subseteq S \cup {h} => Cardinality(T) <= Cardinality(S) + 1
         /\ \A h \in S : T \subseteq S \ {h} => Cardinality(T) + 1 <= Cardinality(S)
  <1>1. IsFiniteSet(S) /\ IsFiniteSet(T)
    BY HandlersAssumption, FS_Subset
  <1>2. Cardinality(S) \in Nat /\ Cardinality(T) \in Nat
    BY <1>1, FS_CardinalityType
  <1>3. T \subseteq S => Cardinality(T) <= Cardinality(S)
    BY <1>1, FS_Subset
  <1>4. ASSUME NEW h, T \subseteq S \cup {h}
        PROVE  Cardinality(T) <= Cardinality(S) + 1
    <2>1. /\ IsFiniteSet(S \cup {h})
          /\ Cardinality(S \cup {h}) \in {Cardinality(S), Cardinality(S) + 1}
      BY <1>1, FS_AddElement
    <2>2. Cardinality(T) <= Cardinality(S \cup {h}) /\ Cardinality(S \cup {h}) \in Nat
      BY <1>4, <2>1, FS_Subset, FS_CardinalityType
    <2>3. QED
      BY <1>2, <2>1, <2>2
  <1>5. ASSUME NEW h \in S, T \subseteq S \ {h}
        PROVE  Cardinality(T) + 1 <= Cardinality(S)
    <2>1. IsFiniteSet(S \ {h}) /\ Cardinality(S \ {h}) = Cardinality(S) - 1
      BY <1>1, FS_RemoveElement
    <2>2. Cardinality(T) <= Cardinality(S \ {h})
      BY <1>5, <2>1, FS_Subset
    <2>3. QED
      BY <1>2, <2>1, <2>2
  <1>6. QED
    BY <1>2, <1>3, <1>4, <1>5

\* A step that adds no pending handler, callback or claim keeps the budget.
LEMMA BudgetKept ==
  ASSUME TypeOK, FireBudget, UNCHANGED <<posted, claimed, outages>>,
         processed \subseteq processed',
         \A e \in Events : Guarded(e) => Pending(e)' \subseteq Pending(e)
  PROVE  FireBudget'
  <1>1. ASSUME NEW e \in Events, Guarded(e)
        PROVE  (posted[e] + Cardinality(Pending(e)) <= Budget(e))'
    <2>1. Pending(e) \in SUBSET Handlers /\ Pending(e)' \in SUBSET Handlers
      BY DEF Pending
    <2>2. /\ Cardinality(Pending(e)) \in Nat /\ Cardinality(Pending(e)') \in Nat
          /\ Cardinality(Pending(e)') <= Cardinality(Pending(e))
      BY <1>1, <2>1, CountHandlers
    <2>3. posted[e] \in Nat /\ Budget(e) \in Nat /\ Budget(e)' = Budget(e)
      BY DEF TypeOK, Budget
    <2>4. posted[e] + Cardinality(Pending(e)) <= Budget(e)
      BY <1>1 DEF FireBudget
    <2>5. posted[e]' + Cardinality(Pending(e)') <= Budget(e)'
      BY <2>2, <2>3, <2>4
    <2>6. QED
      BY <2>5
  <1>2. QED
    BY <1>1 DEF FireBudget

LEMMA FireBudgetInductive ==
  /\ Init => FireBudget
  /\ TypeOK /\ FireBudget /\ [OpenNext]_vars => FireBudget'
  <1>1. Init => FireBudget
    <2> SUFFICES ASSUME Init PROVE FireBudget
      OBVIOUS
    <2>1. ASSUME NEW e \in Events
          PROVE  posted[e] + Cardinality(Pending(e)) <= Budget(e)
      <3>1. Pending(e) = {}
        BY DEF Init, Pending
      <3>2. posted[e] = 0 /\ Budget(e) = 0
        BY DEF Init, Budget
      <3>3. QED
        BY <3>1, <3>2, FS_EmptySet
    <2>2. QED
      BY <2>1 DEF Init, FireBudget
  <1>2. TypeOK /\ FireBudget /\ [OpenNext]_vars => FireBudget'
    <2> SUFFICES ASSUME TypeOK, FireBudget, [OpenNext]_vars PROVE FireBudget'
      OBVIOUS
    <2>1. ASSUME NEW h \in Handlers, LoadGateway(h) PROVE FireBudget'
      BY <2>1, BudgetKept DEF LoadGateway, Goto, Pending, TypeOK
    <2>2. ASSUME NEW h \in Handlers, Authenticate(h) PROVE FireBudget'
      <3>1. ASSUME NEW e \in Events, Guarded(e)
            PROVE  Pending(e)' \subseteq Pending(e)
        BY <2>2, <3>1 DEF Authenticate, Goto, Pending, TypeOK
      <3>2. QED
        BY <2>2, <3>1, BudgetKept DEF Authenticate
    <2>3. ASSUME NEW h \in Handlers, Record(h) PROVE FireBudget'
      <3>1. CASE RecordDuplicate(h)
        BY <2>3, <3>1, BudgetKept
        DEF Record, RecordDuplicate, AfterRecord, Goto, Pending, TypeOK
      <3>2. CASE RecordInserted(h) \/ RecordFailed(h)
        <4> DEFINE ev == req[h].event
        <4>1. ev \in Events
          BY <2>3 DEF Record, TypeOK, Idle, Requests
        <4>2. /\ UNCHANGED <<req, posted>>
              /\ processed \subseteq processed'
              /\ claimed' \subseteq processed'
          BY <2>3, <3>2 DEF Record, RecordInserted, RecordFailed, FireBudget
        <4>3. \A e \in Events : Pending(e)' \subseteq Pending(e) \cup {h}
          BY <2>3, <3>2 DEF Record, RecordInserted, RecordFailed, Goto, Pending, TypeOK
        <4>4. \A e \in Events : e # ev => Pending(e)' \subseteq Pending(e)
          BY <2>3, <3>2 DEF Record, RecordInserted, RecordFailed, Goto, Pending, TypeOK
        <4>5. ASSUME NEW e \in Events
              PROVE  /\ Budget(e) \in Nat
                     /\ Budget(e)' = IF e = ev THEN Budget(e) + 1 ELSE Budget(e)
          BY <2>3, <3>2 DEF Record, RecordInserted, RecordFailed, FireBudget, Budget, TypeOK
        <4>6. ASSUME NEW e \in Events, Guarded(e)
              PROVE  (posted[e] + Cardinality(Pending(e)) <= Budget(e))'
          <5>1. Pending(e) \in SUBSET Handlers /\ Pending(e)' \in SUBSET Handlers
            BY DEF Pending
          <5>2. /\ Cardinality(Pending(e)) \in Nat /\ Cardinality(Pending(e)') \in Nat
                /\ Cardinality(Pending(e)')
                     <= Cardinality(Pending(e)) + (IF e = ev THEN 1 ELSE 0)
            BY <4>3, <4>4, <5>1, CountHandlers
          <5>3. posted[e] \in Nat /\ posted[e] + Cardinality(Pending(e)) <= Budget(e)
            BY <4>6 DEF FireBudget, TypeOK
          <5>4. posted[e]' + Cardinality(Pending(e)') <= Budget(e)'
            BY <4>2, <4>5, <5>2, <5>3
          <5>5. QED
            BY <5>4
        <4>7. QED
          BY <4>2, <4>6 DEF FireBudget
      <3>3. QED
        BY <2>3, <3>1, <3>2 DEF Record
    <2>4. ASSUME NEW h \in Handlers, PostCallback(h) PROVE FireBudget'
      <3> DEFINE ev == req[h].event
      <3>1. UNCHANGED <<claimed, outages, processed, req>> /\ ev \in Events
        BY <2>4 DEF PostCallback, TypeOK, Idle, Requests
      <3>2. \A e \in Events : e # ev => Pending(e)' \subseteq Pending(e)
        BY <2>4 DEF PostCallback, Goto, Pending, TypeOK
      <3>3. \A e \in Events : e = ev => /\ h \in Pending(e)
                                      /\ Pending(e)' \subseteq Pending(e) \ {h}
        BY <2>4 DEF PostCallback, Goto, Pending, TypeOK
      <3>4. \A e \in Events : posted'[e] \in {posted[e], IF e = ev THEN posted[e] + 1
                                                         ELSE posted[e]}
        BY <2>4, <3>1 DEF PostCallback, TypeOK
      <3>5. ASSUME NEW e \in Events, Guarded(e)
            PROVE  (posted[e] + Cardinality(Pending(e)) <= Budget(e))'
        <4>1. Pending(e) \in SUBSET Handlers /\ Pending(e)' \in SUBSET Handlers
          BY DEF Pending
        <4>2. /\ Cardinality(Pending(e)) \in Nat /\ Cardinality(Pending(e)') \in Nat
              /\ IF e = ev THEN Cardinality(Pending(e)') + 1 <= Cardinality(Pending(e))
                           ELSE Cardinality(Pending(e)') <= Cardinality(Pending(e))
          <5>1. CASE e = ev
            <6>1. h \in Pending(e) /\ Pending(e)' \subseteq Pending(e) \ {h}
              BY <3>3, <5>1
            <6>2. QED
              BY <4>1, <5>1, <6>1, CountHandlers
          <5>2. CASE e # ev
            BY <3>2, <4>1, <5>2, CountHandlers
          <5>3. QED
            BY <5>1, <5>2
        <4>3. posted[e] \in Nat /\ Budget(e) \in Nat /\ Budget(e)' = Budget(e)
          BY <3>1 DEF TypeOK, Budget
        <4>4. posted[e] + Cardinality(Pending(e)) <= Budget(e)
          BY <3>5 DEF FireBudget
        <4>5. posted[e]' + Cardinality(Pending(e)') <= Budget(e)'
          BY <3>4, <4>2, <4>3, <4>4
        <4>6. QED
          BY <4>5
      <3>6. QED
        BY <3>1, <3>5 DEF FireBudget
    <2>5. ASSUME NEW h \in Handlers, Reply(h) PROVE FireBudget'
      BY <2>5, BudgetKept DEF Reply, Release, Acknowledges, Goto, Pending, TypeOK
    <2>6. ASSUME NEW h \in Handlers, Disconnect(h) PROVE FireBudget'
      BY <2>6, BudgetKept DEF Disconnect, CommitSome, Pending
    <2>7. ASSUME NEW h \in Handlers, NEW d \in Requests, Receive(h, d),
                 Fault \/ (UNCHANGED faults /\ Due(d.event) = 1)
          PROVE  FireBudget'
      BY <2>7, BudgetKept DEF Receive, Pending, TypeOK
    <2>8. ASSUME Crash PROVE FireBudget'
      BY <2>8, BudgetKept DEF Crash, Release, CommitSome, Pending
    <2>9. ASSUME NEW table \in SUBSET Rows, Write(table) PROVE FireBudget'
      BY <2>9, BudgetKept DEF Write, Pending
    <2>10. CASE FaultElsewhere
      BY <2>10, BudgetKept DEF FaultElsewhere, Pending
    <2>11. gateways \in SUBSET Rows /\ writes \in Nat /\ faults \in 0..MaxFaults
      BY BoundsAssumption DEF TypeOK
    <2>12. QED
      BY <2>1, <2>2, <2>3, <2>4, <2>5, <2>6, <2>7, <2>8, <2>9, <2>10, <2>11, NextCases
  <1>3. QED
    BY <1>1, <1>2

\* The strengthening of NoDoubleFire that every step preserves.
THEOREM BudgetCorrect == Spec => []FireBudget
  BY NextIsOpen, FireBudgetInductive, TypeCorrect, PTL DEF Spec

LEMMA GuardFromBudget == TypeOK /\ FireBudget => NoDoubleFire
  <1> SUFFICES ASSUME TypeOK, FireBudget, NEW e \in Events, Guarded(e)
               PROVE  posted[e] <= 1 + outages[e]
    BY DEF NoDoubleFire
  <1>1. Cardinality(Pending(e)) \in Nat
    BY CountHandlers DEF Pending
  <1>2. posted[e] + Cardinality(Pending(e)) <= Budget(e)
    BY DEF FireBudget
  <1>3. posted[e] \in Nat /\ outages[e] \in Nat
    BY DEF TypeOK
  <1>4. Budget(e) <= 1 + outages[e]
    BY <1>3 DEF Budget
  <1>5. QED
    BY <1>1, <1>2, <1>3, <1>4 DEF Budget

\* However deliveries overlap, are repeated and are cut short, a Stripe event
\* is called back at most once, and once more per insert that failed: the guard
\* of stripe_events.go holds for every number of concurrent deliveries.
THEOREM GuardHolds == Spec => []NoDoubleFire
  BY GuardFromBudget, TypeCorrect, BudgetCorrect, PTL

-----------------------------------------------------------------------------
(* Repeated callbacks *)

\* What a step may do to the budget of one event: it gives up a chance, costs a
\* fault for each that it adds, or leaves their number alone.
LEMMA BudgetStep ==
  ASSUME TypeOK, TypeOK', RepeatBudget, NEW e \in Events, NEW h,
         \/ /\ Chances(e)' \subseteq Chances(e)
            /\ posted'[e] + Due(e)' + faults <= posted[e] + Due(e) + faults'
         \/ /\ Chances(e)' \subseteq Chances(e) \cup {h}
            /\ posted'[e] + Due(e)' + faults + 1 <= posted[e] + Due(e) + faults'
         \/ /\ h \in Chances(e)
            /\ Chances(e)' \subseteq Chances(e) \ {h}
            /\ posted'[e] + Due(e)' + faults <= posted[e] + Due(e) + faults' + 1
  PROVE  (posted[e] + Cardinality(Chances(e)) + Due(e) <= 1 + faults)'
  <1> DEFINE S == Chances(e)
             T == Chances(e)'
  <1>1. S \in SUBSET Handlers /\ T \in SUBSET Handlers
    BY DEF Chances, InFlight
  <1>2. /\ Cardinality(S) \in Nat /\ Cardinality(T) \in Nat
        /\ T \subseteq S => Cardinality(T) <= Cardinality(S)
        /\ T \subseteq S \cup {h} => Cardinality(T) <= Cardinality(S) + 1
        /\ h \in S /\ T \subseteq S \ {h} => Cardinality(T) + 1 <= Cardinality(S)
    BY <1>1, CountHandlers
  <1>3. /\ posted[e] \in Nat /\ posted'[e] \in Nat /\ faults \in Nat /\ faults' \in Nat
        /\ Due(e) \in Nat /\ Due(e)' \in Nat
    BY BoundsAssumption DEF TypeOK, Due
  <1>4. posted[e] + Cardinality(S) + Due(e) <= 1 + faults
    BY DEF RepeatBudget
  <1> HIDE DEF S, T
  <1>5. posted'[e] + Cardinality(T) + Due(e)' <= 1 + faults'
    BY <1>2, <1>3, <1>4 DEF S, T
  <1>6. QED
    BY <1>5 DEF T

LEMMA RepeatBudgetInductive ==
  /\ Init => RepeatBudget
  /\ TypeOK /\ TypeOK' /\ RepeatBudget /\ [OpenNext]_vars => RepeatBudget'
  <1>1. Init => RepeatBudget
    <2> SUFFICES ASSUME Init, NEW e \in Events
                 PROVE  posted[e] + Cardinality(Chances(e)) + Due(e) <= 1 + faults
      BY DEF RepeatBudget
    <2>1. Chances(e) = {} /\ posted[e] = 0 /\ Due(e) = 1 /\ faults = 0
      BY DEF Init, Chances, InFlight, Idle, Due
    <2>2. QED
      BY <2>1, FS_EmptySet
  <1>2. TypeOK /\ TypeOK' /\ RepeatBudget /\ [OpenNext]_vars => RepeatBudget'
    <2> SUFFICES ASSUME TypeOK, TypeOK', RepeatBudget, [OpenNext]_vars, NEW e \in Events
                 PROVE  (posted[e] + Cardinality(Chances(e)) + Due(e) <= 1 + faults)'
      BY DEF RepeatBudget
    <2> DEFINE Goal == (posted[e] + Cardinality(Chances(e)) + Due(e) <= 1 + faults)'
    <2>0. /\ faults \in Nat /\ faults' \in Nat /\ Due(e) \in 0..1 /\ Due(e)' \in 0..1
          /\ posted[e] \in Nat
      BY BoundsAssumption DEF TypeOK, Due
    <2>1. ASSUME NEW h \in Handlers, LoadGateway(h) \/ Authenticate(h) \/ Record(h)
          PROVE  Goal
      <3>1. /\ UNCHANGED <<req, open, posted, acked>>
            /\ pc[h] \in {"load", "verify", "record"} /\ pc'[h] # "idle"
            /\ \A i \in Handlers : i # h => pc'[i] = pc[i]
        BY <2>1 DEF LoadGateway, Authenticate, Record, RecordInserted, RecordDuplicate,
                    RecordFailed, AfterRecord, AfterLedger, Goto, TypeOK
      <3>2. faults <= faults'
        BY <2>0, <2>1 DEF LoadGateway, Authenticate, Record, RecordInserted,
                          RecordDuplicate, RecordFailed, Fault
      <3>3. InFlight(e)' = InFlight(e)
        BY <3>1 DEF InFlight, Idle
      <3>4. Chances(e)' \subseteq Chances(e)
        BY <3>1, <3>3 DEF Chances, Acknowledges, InFlight
      <3>5. Due(e)' = Due(e)
        BY <3>1, <3>3 DEF Due
      <3>6. posted'[e] + Due(e)' + faults <= posted[e] + Due(e) + faults'
        BY <2>0, <3>1, <3>2, <3>5
      <3>7. QED
        BY <3>4, <3>6, BudgetStep
    <2>2. ASSUME NEW h \in Handlers, PostCallback(h) PROVE Goal
      <3>1. /\ UNCHANGED <<req, open, acked>>
            /\ pc[h] = "callback" /\ pc'[h] = "ok"
            /\ \A i \in Handlers : i # h => pc'[i] = pc[i]
        BY <2>2 DEF PostCallback, Goto, TypeOK
      <3>2. faults <= faults'
        BY <2>0, <2>2 DEF PostCallback, Fault
      <3>3. InFlight(e)' = InFlight(e)
        BY <3>1 DEF InFlight, Idle
      <3>4. Due(e)' = Due(e)
        BY <3>1, <3>3 DEF Due
      <3>5. CASE posted'[e] = posted[e]
        <4>1. Chances(e)' \subseteq Chances(e)
          BY <3>1, <3>3 DEF Chances, Acknowledges, InFlight
        <4>2. posted'[e] + Due(e)' + faults <= posted[e] + Due(e) + faults'
          BY <2>0, <3>2, <3>4, <3>5
        <4>3. QED
          BY <4>1, <4>2, BudgetStep
      <3>6. CASE posted'[e] # posted[e]
        <4>1. req[h].event = e /\ open[h] /\ posted'[e] = posted[e] + 1
          BY <2>2, <3>6 DEF PostCallback, TypeOK
        <4>2. h \in Chances(e) /\ Chances(e)' \subseteq Chances(e) \ {h}
          BY <3>1, <3>3, <4>1 DEF Chances, Acknowledges, InFlight, Idle
        <4>3. posted'[e] + Due(e)' + faults <= posted[e] + Due(e) + faults' + 1
          BY <2>0, <3>2, <3>4, <4>1
        <4>4. QED
          BY <4>2, <4>3, BudgetStep
      <3>7. QED
        BY <3>5, <3>6
    <2>3. ASSUME NEW h \in Handlers, Reply(h) PROVE Goal
      <3>1. /\ UNCHANGED <<posted, faults>>
            /\ pc[h] # "idle" /\ pc'[h] = "idle"
            /\ \A i \in Handlers : i # h => /\ pc'[i] = pc[i] /\ req'[i] = req[i]
                                          /\ open'[i] = open[i]
            /\ acked' = IF Acknowledges(h) THEN acked \cup {req[h].event} ELSE acked
        BY <2>3 DEF Reply, Release, TypeOK
      <3>2. InFlight(e)' = InFlight(e) \ {h}
        BY <3>1 DEF InFlight, Idle
      <3>3. Chances(e)' \subseteq Chances(e) \ {h}
        BY <3>1, <3>2 DEF Chances, Acknowledges, InFlight
      <3>4. CASE h \in Chances(e)
        <4>1. Due(e) = 0
          BY <3>4 DEF Due, Chances
        <4>2. posted'[e] + Due(e)' + faults <= posted[e] + Due(e) + faults' + 1
          BY <2>0, <3>1, <4>1
        <4>3. QED
          BY <3>3, <3>4, <4>2, BudgetStep
      <3>5. CASE h \notin Chances(e)
        <4>1. Due(e)' <= Due(e)
          <5>1. CASE req[h].event = e
            <6>1. Acknowledges(h)
              BY <3>1, <3>5, <5>1 DEF Chances, InFlight, Idle
            <6>2. Due(e)' = 0
              BY <3>1, <5>1, <6>1 DEF Due
            <6>3. QED
              BY <2>0, <6>2
          <5>2. CASE req[h].event # e
            <6>1. h \notin InFlight(e)
              BY <5>2 DEF InFlight
            <6>2. InFlight(e)' = InFlight(e) /\ (e \in acked' <=> e \in acked)
              BY <3>1, <3>2, <5>2, <6>1
            <6>3. QED
              BY <2>0, <6>2 DEF Due
          <5>3. QED
            BY <5>1, <5>2
        <4>2. posted'[e] + Due(e)' + faults <= posted[e] + Due(e) + faults'
          BY <2>0, <3>1, <4>1
        <4>3. QED
          BY <3>3, <4>2, BudgetStep
      <3>6. QED
        BY <3>4, <3>5
    <2>4. ASSUME NEW h \in Handlers, Disconnect(h) PROVE Goal
      <3>1. /\ UNCHANGED <<pc, req, posted, acked>> /\ faults' = faults + 1
            /\ \A i \in Handlers : i # h => open'[i] = open[i]
        BY <2>4 DEF Disconnect, Fault, TypeOK
      <3>2. InFlight(e)' = InFlight(e) /\ Due(e)' = Due(e)
        BY <3>1 DEF InFlight, Idle, Due
      <3>3. Chances(e)' \subseteq Chances(e) \cup {h}
        BY <3>1, <3>2 DEF Chances, Acknowledges, InFlight
      <3>4. posted'[e] + Due(e)' + faults + 1 <= posted[e] + Due(e) + faults'
        BY <2>0, <3>1, <3>2
      <3>5. QED
        BY <3>3, <3>4, BudgetStep
    <2>5. ASSUME NEW h \in Handlers, NEW d \in Requests, Receive(h, d),
                 Fault \/ (UNCHANGED faults /\ Due(d.event) = 1)
          PROVE  Goal
      <3>1. /\ UNCHANGED <<open, posted, acked>>
            /\ pc[h] = "idle" /\ pc'[h] = "load" /\ req'[h] = d
            /\ \A i \in Handlers : i # h => pc'[i] = pc[i] /\ req'[i] = req[i]
        BY <2>5 DEF Receive, Idle, TypeOK
      <3>2. CASE d.event # e
        <4>1. InFlight(e)' = InFlight(e)
          BY <3>1, <3>2 DEF InFlight, Idle
        <4>2. Chances(e)' \subseteq Chances(e) /\ Due(e)' = Due(e)
          BY <3>1, <4>1 DEF Chances, Acknowledges, InFlight, Idle, Due
        <4>3. posted'[e] + Due(e)' + faults <= posted[e] + Due(e) + faults'
          BY <2>0, <2>5, <3>1, <4>2 DEF Fault
        <4>4. QED
          BY <4>2, <4>3, BudgetStep
      <3>3. CASE d.event = e
        <4>1. InFlight(e)' = InFlight(e) \cup {h}
          BY <3>1, <3>3 DEF InFlight, Idle
        <4>2. Chances(e)' \subseteq Chances(e) \cup {h}
          BY <3>1, <4>1 DEF Chances, Acknowledges, InFlight
        <4>3. Due(e)' = 0
          BY <4>1 DEF Due
        <4>4. posted'[e] + Due(e)' + faults + 1 <= posted[e] + Due(e) + faults'
          BY <2>0, <2>5, <3>1, <3>3, <4>3 DEF Fault
        <4>5. QED
          BY <4>2, <4>4, BudgetStep
      <3>4. QED
        BY <3>2, <3>3
    <2>6. ASSUME Crash PROVE Goal
      <3>1. UNCHANGED posted /\ faults' = faults + 1 /\ \A i \in Handlers : pc'[i] = "idle"
        BY <2>6 DEF Crash, Release, Fault
      <3>2. Chances(e)' \subseteq Chances(e)
        BY <3>1 DEF Chances, InFlight, Idle
      <3>3. posted'[e] + Due(e)' + faults <= posted[e] + Due(e) + faults'
        BY <2>0, <3>1
      <3>4. QED
        BY <3>2, <3>3, BudgetStep
    <2>7. ASSUME UNCHANGED <<pc, req, open, posted, acked>>, faults <= faults' PROVE Goal
      <3>1. InFlight(e)' = InFlight(e) /\ Chances(e)' = Chances(e) /\ Due(e)' = Due(e)
        BY <2>7 DEF InFlight, Idle, Chances, Acknowledges, Due
      <3>2. posted'[e] + Due(e)' + faults <= posted[e] + Due(e) + faults'
        BY <2>0, <2>7, <3>1
      <3>3. QED
        BY <3>1, <3>2, BudgetStep
    <2>8. ASSUME NEW table \in SUBSET Rows, Write(table) PROVE Goal
      BY <2>0, <2>7, <2>8 DEF Write
    <2>9. ASSUME FaultElsewhere PROVE Goal
      BY <2>0, <2>7, <2>9 DEF FaultElsewhere
    <2>10. gateways \in SUBSET Rows /\ writes \in Nat /\ faults \in 0..MaxFaults
      BY BoundsAssumption DEF TypeOK
    <2> HIDE DEF Goal
    <2>11. Goal
      BY <2>1, <2>2, <2>3, <2>4, <2>5, <2>6, <2>8, <2>9, <2>10, NextCases
    <2>12. QED
      BY <2>11 DEF Goal
  <1>3. QED
    BY <1>1, <1>2

\* The strengthening of RepeatsPaidFor that every step preserves.
THEOREM RepeatBudgetCorrect == Spec => []RepeatBudget
  BY NextIsOpen, RepeatBudgetInductive, TypeCorrect, PTL DEF Spec

LEMMA RepeatsFromBudget == TypeOK /\ RepeatBudget => RepeatsPaidFor
  <1> SUFFICES ASSUME TypeOK, RepeatBudget, NEW e \in Events
               PROVE  posted[e] <= 1 + faults
    BY DEF RepeatsPaidFor
  <1>1. Cardinality(Chances(e)) \in Nat
    BY CountHandlers DEF Chances, InFlight
  <1>2. posted[e] \in Nat /\ faults \in Nat /\ Due(e) \in Nat
    BY BoundsAssumption DEF TypeOK, Due
  <1>3. posted[e] + Cardinality(Chances(e)) + Due(e) <= 1 + faults
    BY DEF RepeatBudget
  <1>4. QED
    BY <1>1, <1>2, <1>3

\* With or without a ledger, each callback after the first costs a failure, a
\* crash or a delivery the provider did not owe.
THEOREM RepeatsArePaidFor == Spec => []RepeatsPaidFor
  BY RepeatsFromBudget, TypeCorrect, RepeatBudgetCorrect, PTL

-----------------------------------------------------------------------------
(* Who vouches for a callback *)

\* What passes a signature check was signed with the secret it is checked with.
LEMMA VerifyMeansSigned ==
  ASSUME NEW d \in Requests, NEW s, Verify(d, s)
  PROVE  s \in d.sigs \ {Empty}
  <1>1. d.event.provider \in Providers
    BY EventsAssumption DEF Requests
  <1>2. QED
    BY <1>1 DEF Verify, Providers, VerifyStripeWebhook, VerifyHeleketWebhook,
                VerifyWooviWebhook, VerifyAbacatePayWebhook

LEMMA SecretsInductive ==
  /\ Init => SecretsVouched
  /\ TypeOK /\ SecretsVouched /\ [OpenNext]_vars => SecretsVouched'
  <1>1. Init => SecretsVouched
    BY DEF Init, SecretsVouched
  <1>2. TypeOK /\ SecretsVouched /\ [OpenNext]_vars => SecretsVouched'
    <2> SUFFICES ASSUME TypeOK, SecretsVouched, [OpenNext]_vars PROVE SecretsVouched'
      OBVIOUS
    <2>1. ASSUME NEW h \in Handlers, LoadGateway(h) PROVE SecretsVouched'
      <3>1. ASSUME pc'[h] = "verify"
            PROVE  <<req[h].event.provider, secret'[h]>> \in everActive
        <4>1. PICK g \in SelectActiveByProvider(gateways, req[h].event.provider) :
                secret' = [secret EXCEPT ![h] = g.config]
          BY <2>1, <3>1 DEF LoadGateway, Goto, TypeOK
        <4>2. <<g.provider, g.config>> \in ActivePairs(gateways)
          BY DEF SelectActiveByProvider, ActiveOf, ActivePairs
        <4>3. g.provider = req[h].event.provider /\ secret'[h] = g.config
          BY <4>1 DEF SelectActiveByProvider, ActiveOf, TypeOK
        <4>4. QED
          BY <4>2, <4>3 DEF SecretsVouched
      <3>2. \A i \in Handlers : i # h => pc'[i] = pc[i] /\ secret'[i] = secret[i]
        BY <2>1 DEF LoadGateway, Goto, TypeOK
      <3>3. UNCHANGED <<req, gateways, everActive>> /\ pc'[h] \notin {"record", "callback"}
        BY <2>1 DEF LoadGateway, Goto, TypeOK
      <3>4. QED
        BY <3>1, <3>2, <3>3 DEF SecretsVouched, Vouched
    <2>2. ASSUME NEW h \in Handlers, Authenticate(h) PROVE SecretsVouched'
      <3>1. ASSUME pc'[h] \in {"record", "callback"} PROVE Vouched(req[h])
        <4>1. Verify(req[h], secret[h]) /\ req[h] \in Requests
          BY <2>2, <3>1 DEF Authenticate, Goto, TypeOK, Idle
        <4>2. secret[h] \in req[h].sigs \ {Empty}
          BY <4>1, VerifyMeansSigned
        <4>3. <<req[h].event.provider, secret[h]>> \in everActive
          BY <2>2 DEF Authenticate, SecretsVouched
        <4>4. QED
          BY <4>2, <4>3 DEF Vouched
      <3>2. UNCHANGED <<req, secret, gateways, everActive>>
        BY <2>2 DEF Authenticate
      <3>3. /\ \A i \in Handlers : i # h => pc'[i] = pc[i]
            /\ pc'[h] # "verify"
        BY <2>2 DEF Authenticate, AfterRecord, AfterLedger, Goto, TypeOK
      <3>4. QED
        BY <3>1, <3>2, <3>3 DEF SecretsVouched, Vouched
    <2>3. ASSUME NEW h \in Handlers, Record(h) PROVE SecretsVouched'
      <3>1. UNCHANGED <<req, secret, gateways, everActive>> /\ pc[h] = "record"
        BY <2>3 DEF Record
      <3>2. /\ \A i \in Handlers : i # h => pc'[i] = pc[i]
            /\ pc'[h] # "verify"
        BY <2>3 DEF Record, RecordInserted, RecordDuplicate, RecordFailed,
                    AfterRecord, AfterLedger, Goto, TypeOK
      <3>3. QED
        BY <3>1, <3>2 DEF SecretsVouched, Vouched
    <2>4. ASSUME NEW h \in Handlers, PostCallback(h) PROVE SecretsVouched'
      BY <2>4 DEF PostCallback, Goto, TypeOK, SecretsVouched, Vouched
    <2>5. ASSUME NEW h \in Handlers, Reply(h) PROVE SecretsVouched'
      BY <2>5 DEF Reply, Release, Acknowledges, Goto, TypeOK, SecretsVouched, Vouched
    <2>6. ASSUME NEW h \in Handlers, Disconnect(h) PROVE SecretsVouched'
      BY <2>6 DEF Disconnect, SecretsVouched, Vouched
    <2>7. ASSUME NEW h \in Handlers, NEW d \in Requests, Receive(h, d),
                 Fault \/ (UNCHANGED faults /\ Due(d.event) = 1)
          PROVE  SecretsVouched'
      BY <2>7 DEF Receive, TypeOK, SecretsVouched, Vouched
    <2>8. ASSUME Crash PROVE SecretsVouched'
      BY <2>8 DEF Crash, Release, SecretsVouched
    <2>9. ASSUME NEW table \in SUBSET Rows, Write(table) PROVE SecretsVouched'
      BY <2>9 DEF Write, SecretsVouched, Vouched
    <2>10. CASE FaultElsewhere
      BY <2>10 DEF FaultElsewhere, SecretsVouched, Vouched
    <2>11. gateways \in SUBSET Rows /\ writes \in Nat /\ faults \in 0..MaxFaults
      BY BoundsAssumption DEF TypeOK
    <2>12. QED
      BY <2>1, <2>2, <2>3, <2>4, <2>5, <2>6, <2>7, <2>8, <2>9, <2>10, <2>11, NextCases
  <1>3. QED
    BY <1>1, <1>2

\* The secrets handlers have read, and those behind what they let through, have
\* all been secrets of active gateways.
THEOREM SecretsCorrect == Spec => []SecretsVouched
  BY NextIsOpen, SecretsInductive, TypeCorrect, PTL DEF Spec

\* No callback without a signature made with a secret that was the secret of an
\* active gateway of the provider: rotations and rows without a secret included.
THEOREM CallbacksAuthentic == Spec => AuthenticCallbacks
  <1>1. SecretsVouched =>
          [\A h \in Handlers :
             posted # posted' /\ pc[h] = "callback" /\ pc'[h] = "ok"
               => Vouched(req[h])]_vars
    BY DEF SecretsVouched
  <1>2. QED
    BY <1>1, SecretsCorrect, PTL DEF AuthenticCallbacks

-----------------------------------------------------------------------------
(* What an answer of 200 rests on *)

LEMMA AccountsInductive ==
  /\ Init => LedgerAccounts
  /\ TypeOK /\ LedgerAccounts /\ [OpenNext]_vars => LedgerAccounts'
  <1> USE DEF LedgerAccounts, TakenOver, Unsent, Owed, Pending
  <1>1. Init => LedgerAccounts
    BY DEF Init
  <1>2. TypeOK /\ LedgerAccounts /\ [OpenNext]_vars => LedgerAccounts'
    <2> SUFFICES ASSUME TypeOK, LedgerAccounts, [OpenNext]_vars PROVE LedgerAccounts'
      OBVIOUS
    <2>1. ASSUME NEW h \in Handlers, LoadGateway(h) PROVE LedgerAccounts'
      BY <2>1 DEF LoadGateway, Goto, TypeOK
    <2>2. ASSUME NEW h \in Handlers, Authenticate(h) PROVE LedgerAccounts'
      BY <2>2 DEF Authenticate, AfterRecord, AfterLedger, Goto, TypeOK
    <2>3. ASSUME NEW h \in Handlers, Record(h) PROVE LedgerAccounts'
      <3>1. CASE RecordInserted(h)
        BY <2>3, <3>1 DEF Record, RecordInserted, AfterRecord, AfterLedger, Goto, TypeOK
      <3>2. CASE RecordDuplicate(h)
        BY <2>3, <3>2 DEF Record, RecordDuplicate, Goto, TypeOK
      <3>3. CASE RecordFailed(h)
        <4> DEFINE ev == req[h].event
        <4>1. /\ UNCHANGED <<req, open, confirmed, lost, interrupted, claimed, acked>>
              /\ pc[h] = "record" /\ Guarded(ev)
              /\ ev \in Events
          BY <2>3, <3>3 DEF Record, RecordFailed, TypeOK, Idle, Requests
        <4>2. /\ \A i \in Handlers : i # h => pc'[i] = pc[i]
              /\ pc'[h] = IF IsPaid(ev) THEN "callback" ELSE "ok"
          BY <3>3 DEF RecordFailed, AfterRecord, AfterLedger, Goto, TypeOK
        <4>3. /\ \A e \in Events : outages[e] > 0 => outages'[e] > 0
              /\ outages'[ev] > 0
          BY <3>3, <4>1 DEF RecordFailed, TypeOK
        <4>4. /\ processed' \subseteq processed \cup {ev}
              /\ processed \subseteq processed'
              /\ ev \in processed' /\ ev \notin processed => open[h]
          BY <3>3 DEF RecordFailed
        <4>5. \A e \in processed' : Guarded(e) /\ TakenOver(e)'
          BY <4>1, <4>3, <4>4 DEF TypeOK
        <4>6. \A e \in processed' :
                Unsent(e)' => e \in interrupted' \/ \E i \in Pending(e)' : open'[i]
          BY <4>1, <4>2, <4>4
        <4>7. \A i \in Handlers : pc'[i] = "record" => Guarded(req'[i].event)
          BY <4>1, <4>2
        <4>8. \A i \in Handlers :
                pc'[i] = "ok" /\ open'[i] /\ Unsent(req[i].event)'
                  => req'[i].event \in processed'
          BY <4>1, <4>2, <4>4
        <4>9. \A i \in Handlers :
                pc'[i] \in {"callback", "ok"} /\ Guarded(req'[i].event)
                  => TakenOver(req[i].event)'
          BY <4>1, <4>2, <4>3 DEF TypeOK, Idle, Requests
        <4>10. \A e \in acked' : Unsent(e)' => e \in processed'
          BY <4>1, <4>4
        <4>11. QED
          BY <4>5, <4>6, <4>7, <4>8, <4>9, <4>10
      <3>4. QED
        BY <2>3, <3>1, <3>2, <3>3 DEF Record
    <2>4. ASSUME NEW h \in Handlers, PostCallback(h) PROVE LedgerAccounts'
      <3> DEFINE ev == req[h].event
      <3>1. /\ UNCHANGED <<req, open, processed, interrupted, claimed, outages, acked>>
            /\ pc[h] = "callback"
            /\ ev \in Events
        BY <2>4 DEF PostCallback, TypeOK, Idle, Requests
      <3>2. /\ \A i \in Handlers : i # h => pc'[i] = pc[i]
            /\ pc'[h] = "ok"
        BY <2>4 DEF PostCallback, Goto, TypeOK
      <3>3. /\ confirmed \cup lost \subseteq confirmed' \cup lost'
            /\ Owed(ev) /\ open[h] => ev \in confirmed' \cup lost'
        BY <2>4, <3>1 DEF PostCallback
      <3>4. \A e \in processed' :
              Unsent(e)' => e \in interrupted' \/ \E i \in Pending(e)' : open'[i]
        BY <3>1, <3>2, <3>3 DEF TypeOK
      <3>5. \A i \in Handlers :
              pc'[i] = "ok" /\ open'[i] /\ Unsent(req[i].event)'
                => req'[i].event \in processed'
        BY <3>1, <3>2, <3>3 DEF TypeOK, Idle, Requests
      <3>6. \A e \in acked' : Unsent(e)' => e \in processed'
        BY <3>1, <3>3 DEF TypeOK
      <3>7. QED
        BY <3>1, <3>2, <3>4, <3>5, <3>6
    <2>5. ASSUME NEW h \in Handlers, Reply(h) PROVE LedgerAccounts'
      <3>1. /\ UNCHANGED <<processed, confirmed, lost, claimed, outages, interrupted>>
            /\ pc[h] \in {"ok", "bad"} /\ pc'[h] = "idle"
            /\ \A i \in Handlers : i # h => /\ pc'[i] = pc[i] /\ req'[i] = req[i]
                                          /\ open'[i] = open[i]
        BY <2>5 DEF Reply, Release, TypeOK
      <3>2. \A e \in acked' : Unsent(e)' => e \in processed'
        BY <2>5, <3>1 DEF Reply, Acknowledges
      <3>3. QED
        BY <3>1, <3>2
    <2>6. ASSUME NEW h \in Handlers, Disconnect(h) PROVE LedgerAccounts'
      BY <2>6 DEF Disconnect, CommitSome, CutShort, TypeOK
    <2>7. ASSUME NEW h \in Handlers, NEW d \in Requests, Receive(h, d),
                 Fault \/ (UNCHANGED faults /\ Due(d.event) = 1)
          PROVE  LedgerAccounts'
      BY <2>7 DEF Receive, Idle, TypeOK
    <2>8. ASSUME Crash PROVE LedgerAccounts'
      BY <2>8 DEF Crash, Release, CommitSome, CutShort, TypeOK
    <2>9. ASSUME NEW table \in SUBSET Rows, Write(table) PROVE LedgerAccounts'
      BY <2>9 DEF Write
    <2>10. CASE FaultElsewhere
      BY <2>10 DEF FaultElsewhere
    <2>11. gateways \in SUBSET Rows /\ writes \in Nat /\ faults \in 0..MaxFaults
      BY BoundsAssumption DEF TypeOK
    <2>12. QED
      BY <2>1, <2>2, <2>3, <2>4, <2>5, <2>6, <2>7, <2>8, <2>9, <2>10, <2>11, NextCases
  <1>3. QED
    BY <1>1, <1>2

\* The accounts of the ledger: entries, handlers past them and acknowledgements
\* are explained by claims, errors, interruptions and callbacks.
THEOREM AccountsCorrect == Spec => []LedgerAccounts
  BY NextIsOpen, AccountsInductive, TypeCorrect, PTL DEF Spec

LEMMA LossFromAccounts == LedgerAccounts => NoSilentLoss
  BY DEF LedgerAccounts, NoSilentLoss, Unsent

\* A paid event whose provider was told 2xx has been called back, or it is a
\* Stripe event whose claimant is still at work or was interrupted.
THEOREM NothingLostSilently == Spec => []NoSilentLoss
  BY LossFromAccounts, AccountsCorrect, PTL

-----------------------------------------------------------------------------
(* What is called back *)

\* While nothing fails, an event has one delivery at a time and none once it is
\* acknowledged.
Undisturbed ==
  /\ lost = {} /\ interrupted = {}
  /\ \A h \in Handlers : open[h]
  /\ \A h \in Handlers : ~Idle(h) => req[h].event \notin acked
  /\ \A h, i \in Handlers :
       ~Idle(h) /\ ~Idle(i) /\ req[h].event = req[i].event => h = i

Meant ==
  /\ \A e \in Events : posted[e] > 0 => Owed(e) /\ Parses(e)
  /\ \A e \in confirmed : posted[e] > 0
  /\ \A h \in Handlers : pc[h] \in {"record", "callback"} => Parses(req[h].event)
  /\ \A h \in Handlers : pc[h] = "callback" => IsPaid(req[h].event)
  /\ faults = 0 => Undisturbed

LEMMA MeantInductive ==
  /\ Init => Meant
  /\ TypeOK /\ Meant /\ [OpenNext]_vars => Meant'
  <1> USE DEF Meant, Undisturbed, Owed, Idle
  <1>1. Init => Meant
    BY DEF Init
  <1>2. TypeOK /\ Meant /\ [OpenNext]_vars => Meant'
    <2> SUFFICES ASSUME TypeOK, Meant, [OpenNext]_vars PROVE Meant'
      OBVIOUS
    <2>0. \A h \in Handlers : ~Idle(h) => req[h] \in Requests /\ req[h].event \in Events
      BY DEF TypeOK, Requests
    <2>f. faults \in Nat
      BY BoundsAssumption DEF TypeOK
    <2>1. ASSUME NEW h \in Handlers, LoadGateway(h) PROVE Meant'
      BY <2>1, <2>f DEF LoadGateway, Goto, Fault, TypeOK
    <2>2. ASSUME NEW h \in Handlers, Authenticate(h) PROVE Meant'
      <3>1. /\ UNCHANGED <<req, open, acked, confirmed, faults, posted, lost, interrupted>>
            /\ pc[h] = "verify" /\ \A i \in Handlers : i # h => pc'[i] = pc[i]
            /\ pc'[h] # "idle"
        BY <2>2 DEF Authenticate, AfterLedger, Goto, TypeOK
      <3>2. /\ pc'[h] \in {"record", "callback"} => Parses(req[h].event)
            /\ pc'[h] = "callback" => IsPaid(req[h].event)
        BY <2>2 DEF Authenticate, AfterLedger, Goto, TypeOK
      <3>3. QED
        BY <3>1, <3>2
    <2>3. ASSUME NEW h \in Handlers, Record(h) PROVE Meant'
      <3>1. /\ UNCHANGED <<req, open, acked, confirmed, posted, lost, interrupted>>
            /\ pc[h] = "record" /\ \A i \in Handlers : i # h => pc'[i] = pc[i]
            /\ pc'[h] \in {"callback", "ok"}
        BY <2>3 DEF Record, RecordInserted, RecordDuplicate, RecordFailed,
                    AfterRecord, AfterLedger, Goto, TypeOK
      <3>2. pc'[h] = "callback" => IsPaid(req[h].event)
        BY <2>3 DEF Record, RecordInserted, RecordDuplicate, RecordFailed,
                    AfterRecord, AfterLedger, Goto, TypeOK
      <3>3. faults' = 0 => faults = 0
        BY <2>3, <2>f DEF Record, RecordInserted, RecordDuplicate, RecordFailed, Fault
      <3>4. QED
        BY <3>1, <3>2, <3>3
    <2>4. ASSUME NEW h \in Handlers, PostCallback(h) PROVE Meant'
      <3> DEFINE ev == req[h].event
      <3>1. /\ UNCHANGED <<req, open, acked, interrupted>>
            /\ pc[h] = "callback" /\ \A i \in Handlers : i # h => pc'[i] = pc[i]
            /\ pc'[h] = "ok" /\ ev \in Events
        BY <2>4, <2>0 DEF PostCallback, Goto, TypeOK
      <3>2. faults' = 0 => faults = 0 /\ lost' = lost
        BY <2>4, <2>f DEF PostCallback, Fault
      <3>3. CASE CallbackConfigured /\ OrderID(ev) # Empty /\ open[h]
        <4>1. posted' = [posted EXCEPT ![ev] = @ + 1] /\ confirmed' \subseteq confirmed \cup {ev}
          BY <2>4, <3>3 DEF PostCallback
        <4>2. posted'[ev] > 0 /\ \A e \in Events : e # ev => posted'[e] = posted[e]
          BY <3>1, <4>1 DEF TypeOK
        <4>3. Owed(ev) /\ Parses(ev)
          BY <3>1, <3>3
        <4>4. \A e \in Events : posted'[e] > 0 => Owed(e) /\ Parses(e)
          BY <4>2, <4>3
        <4>5. \A e \in confirmed' : posted'[e] > 0
          BY <4>1, <4>2 DEF TypeOK
        <4>6. QED
          BY <3>1, <3>2, <4>4, <4>5
      <3>4. CASE ~(CallbackConfigured /\ OrderID(ev) # Empty /\ open[h])
        <4>1. UNCHANGED <<posted, confirmed, lost, faults>>
          BY <2>4, <3>4 DEF PostCallback
        <4>2. QED
          BY <3>1, <4>1
      <3>5. QED
        BY <3>3, <3>4
    <2>5. ASSUME NEW h \in Handlers, Reply(h) PROVE Meant'
      <3>1. /\ UNCHANGED <<confirmed, faults, posted, lost, interrupted>>
            /\ pc[h] \in {"ok", "bad"} /\ pc'[h] = "idle" /\ open'[h] = TRUE
            /\ \A i \in Handlers : i # h => /\ pc'[i] = pc[i] /\ req'[i] = req[i]
                                          /\ open'[i] = open[i]
        BY <2>5 DEF Reply, Release, TypeOK
      <3>2. acked' \subseteq acked \cup {req[h].event}
        BY <2>5 DEF Reply
      <3>3. QED
        BY <3>1, <3>2
    <2>6. ASSUME NEW h \in Handlers, Disconnect(h) PROVE Meant'
      BY <2>6, <2>f DEF Disconnect, Fault, TypeOK
    <2>7. ASSUME NEW h \in Handlers, NEW d \in Requests, Receive(h, d),
                 Fault \/ (UNCHANGED faults /\ Due(d.event) = 1)
          PROVE  Meant'
      <3>1. /\ UNCHANGED <<open, acked, confirmed, posted, lost, interrupted>>
            /\ pc[h] = "idle" /\ pc'[h] = "load" /\ req'[h] = d
            /\ \A i \in Handlers : i # h => pc'[i] = pc[i] /\ req'[i] = req[i]
        BY <2>7 DEF Receive, TypeOK
      <3>2. CASE Fault
        <4>1. faults' # 0
          BY <3>2, <2>f DEF Fault
        <4>2. QED
          BY <3>1, <4>1
      <3>3. CASE UNCHANGED faults /\ Due(d.event) = 1
        <4>1. d.event \notin acked /\ \A i \in Handlers : ~Idle(i) => req[i].event # d.event
          BY <3>3 DEF Due, InFlight
        <4>2. QED
          BY <3>1, <3>3, <4>1
      <3>4. QED
        BY <2>7, <3>2, <3>3
    <2>8. ASSUME Crash PROVE Meant'
      <3>1. faults' # 0
        BY <2>8, <2>f DEF Crash, Fault
      <3>2. UNCHANGED <<posted, confirmed>> /\ \A h \in Handlers : pc'[h] = "idle"
        BY <2>8 DEF Crash, Release
      <3>3. QED
        BY <3>1, <3>2
    <2>9. ASSUME NEW table \in SUBSET Rows, Write(table) PROVE Meant'
      BY <2>9 DEF Write
    <2>10. CASE FaultElsewhere
      BY <2>10, <2>f DEF FaultElsewhere
    <2>11. gateways \in SUBSET Rows /\ writes \in Nat /\ faults \in 0..MaxFaults
      BY BoundsAssumption DEF TypeOK
    <2>12. QED
      BY <2>1, <2>2, <2>3, <2>4, <2>5, <2>6, <2>7, <2>8, <2>9, <2>10, <2>11, NextCases
  <1>3. QED
    BY <1>1, <1>2

LEMMA ExactFromMeant ==
  TypeOK /\ Meant /\ NoSilentLoss /\ RepeatsPaidFor => CalledBackExactly
  <1> SUFFICES ASSUME TypeOK, Meant, NoSilentLoss, RepeatsPaidFor PROVE CalledBackExactly
    OBVIOUS
  <1>1. ASSUME faults = 0, NEW e \in acked, Owed(e) PROVE posted[e] = 1
    <2>1. e \notin lost /\ e \notin interrupted /\ Pending(e) = {}
      BY <1>1 DEF Meant, Undisturbed, Pending, Idle
    <2>2. e \in confirmed
      BY <1>1, <2>1 DEF NoSilentLoss
    <2>3. e \in Events /\ posted[e] \in Nat
      BY DEF TypeOK
    <2>4. posted[e] > 0
      BY <2>2 DEF Meant
    <2>5. posted[e] <= 1 + faults
      BY <2>3 DEF RepeatsPaidFor
    <2>6. QED
      BY <1>1, <2>3, <2>4, <2>5
  <1>2. QED
    BY <1>1 DEF CalledBackExactly, Meant

\* What SettledExactly checks of sixteen bodies holds of every body: nothing but
\* what is owed is called back and, if nothing failed, all of it exactly once.
THEOREM OwedIsCalledBack == Spec => []CalledBackExactly
  BY NextIsOpen, MeantInductive, ExactFromMeant, TypeCorrect, NothingLostSilently,
     RepeatsArePaidFor, PTL DEF Spec

-----------------------------------------------------------------------------
(* Refinement *)

LEMMA NoticeSteps ==
  /\ Init => Notice!Init
  /\ TypeOK /\ FireBudget /\ LedgerAccounts /\ [OpenNext]_vars => [Notice!Next]_(Notice!vars)
  <1> USE DEF GuardedEvents
  <1>1. Init => Notice!Init
    BY DEF Init, Notice!Init
  <1>2. TypeOK /\ FireBudget /\ LedgerAccounts /\ [OpenNext]_vars
          => [Notice!Next]_(Notice!vars)
    <2> SUFFICES ASSUME TypeOK, FireBudget, LedgerAccounts, [OpenNext]_vars
                 PROVE  [Notice!Next]_(Notice!vars)
      OBVIOUS
    <2>1. ASSUME UNCHANGED <<claimed, outages, interrupted, posted, acked>>
          PROVE  UNCHANGED Notice!vars
      BY <2>1 DEF Notice!vars
    <2>2. ASSUME NEW S \in SUBSET Events, interrupted' = interrupted \cup S,
                 UNCHANGED <<claimed, outages, posted, acked>>
          PROVE  Notice!Next
      <3>1. Notice!Interrupt(S \cap GuardedEvents)
        BY <2>2 DEF Notice!Interrupt
      <3>2. QED
        BY <3>1 DEF Notice!Next
    <2>3. \A i \in Handlers : ~Idle(i) => req[i].event \in Events
      BY DEF TypeOK, Idle, Requests
    <2>4. ASSUME NEW h \in Handlers, Record(h)
          PROVE  Notice!Next \/ UNCHANGED Notice!vars
      <3>0. PICK ev \in Events : ev = req[h].event
        BY <2>3, <2>4 DEF Record, Idle
      <3>1. /\ UNCHANGED <<posted, interrupted, acked>>
            /\ ev \in GuardedEvents
        BY <2>4, <3>0 DEF Record, LedgerAccounts
      <3>2. CASE RecordInserted(h)
        <4>1. Notice!Claim(ev)
          BY <3>0, <3>1, <3>2 DEF RecordInserted, Notice!Claim, FireBudget
        <4>2. QED
          BY <3>1, <4>1 DEF Notice!Next
      <3>3. CASE RecordDuplicate(h)
        BY <2>1, <3>1, <3>3 DEF RecordDuplicate
      <3>4. CASE RecordFailed(h)
        <4>1. [e \in GuardedEvents |-> outages'[e]]
                = [[e \in GuardedEvents |-> outages[e]] EXCEPT ![ev] = @ + 1]
          BY <3>0, <3>1, <3>4 DEF RecordFailed, TypeOK
        <4>2. UNCHANGED <<claimed, posted, interrupted, acked>>
          BY <3>1, <3>4 DEF RecordFailed
        <4>3. Notice!Outage(ev)
          BY <4>1, <4>2 DEF Notice!Outage
        <4>4. QED
          BY <3>1, <4>3 DEF Notice!Next
      <3>5. QED
        BY <2>4, <3>2, <3>3, <3>4 DEF Record
    <2>5. ASSUME NEW h \in Handlers, PostCallback(h)
          PROVE  Notice!Next \/ UNCHANGED Notice!vars
      <3>0. PICK ev \in Events : ev = req[h].event
        BY <2>3, <2>5 DEF PostCallback, Idle
      <3>1. UNCHANGED <<claimed, outages, interrupted, acked>>
        BY <2>5 DEF PostCallback
      <3>2. posted' = posted \/ posted' = [posted EXCEPT ![ev] = @ + 1]
        BY <2>5, <3>0 DEF PostCallback
      <3>3. CASE posted' = posted
        BY <2>1, <3>1, <3>3
      <3>4. CASE posted' = [posted EXCEPT ![ev] = @ + 1] /\ ~Guarded(ev)
        <4>1. [e \in GuardedEvents |-> posted'[e]] = [e \in GuardedEvents |-> posted[e]]
          BY <3>1, <3>4 DEF TypeOK
        <4>2. QED
          BY <3>1, <4>1 DEF Notice!vars
      <3>5. CASE posted' = [posted EXCEPT ![ev] = @ + 1] /\ Guarded(ev)
        <4>1. h \in Pending(ev)
          BY <2>5, <3>0 DEF PostCallback, Pending
        <4>2. Pending(ev) \in SUBSET Handlers /\ {} \in SUBSET Handlers
          BY DEF Pending
        <4>3. /\ Cardinality(Pending(ev)) \in Nat /\ Cardinality({}) \in Nat
              /\ Cardinality({}) + 1 <= Cardinality(Pending(ev))
          BY <4>1, <4>2, CountHandlers
        <4>4. /\ posted[ev] + Cardinality(Pending(ev)) <= Budget(ev)
              /\ posted[ev] \in Nat /\ Budget(ev) \in Nat
          BY <3>1, <3>5 DEF FireBudget, TypeOK, Budget
        <4>5. posted[ev] < Budget(ev)
          BY <4>3, <4>4
        <4>6. [e \in GuardedEvents |-> posted'[e]]
                = [[e \in GuardedEvents |-> posted[e]] EXCEPT ![ev] = @ + 1]
          BY <3>1, <3>5 DEF TypeOK
        <4>7. [e \in GuardedEvents |-> posted[e]][ev] < Notice!Budget(ev)
          BY <3>1, <3>5, <4>5 DEF Notice!Budget, Budget
        <4>8. Notice!Notify(ev)
          BY <3>1, <4>6, <4>7 DEF Notice!Notify
        <4>9. QED
          BY <3>5, <4>8 DEF Notice!Next
      <3>6. QED
        BY <3>2, <3>3, <3>4, <3>5
    <2>6. ASSUME NEW h \in Handlers, Reply(h)
          PROVE  Notice!Next \/ UNCHANGED Notice!vars
      <3> DEFINE ev == req[h].event
      <3>1. UNCHANGED <<claimed, outages, interrupted, posted>> /\ ev \in Events
        BY <2>3, <2>6 DEF Reply, Release, Acknowledges, Idle
      <3>2. acked' = acked \/ (acked' = acked \cup {ev} /\ pc[h] = "ok")
        BY <2>6 DEF Reply, Acknowledges
      <3>3. CASE acked' = acked
        BY <2>1, <3>1, <3>3
      <3>4. CASE acked' = acked \cup {ev} /\ ~Guarded(ev)
        BY <3>1, <3>4 DEF Notice!vars
      <3>5. CASE acked' = acked \cup {ev} /\ pc[h] = "ok" /\ Guarded(ev)
        <4>1. TakenOver(ev)
          BY <3>5 DEF LedgerAccounts
        <4>2. Notice!Close(ev)
          BY <3>1, <3>5, <4>1 DEF Notice!Close, Notice!TakenOver, TakenOver
        <4>3. QED
          BY <3>1, <3>5, <4>2 DEF Notice!Next
      <3>6. QED
        BY <3>2, <3>3, <3>4, <3>5
    <2>7. ASSUME NEW h \in Handlers, Disconnect(h) PROVE Notice!Next
      <3>1. CutShort({h}) \in SUBSET Events
        BY <2>3, <2>7 DEF CutShort, Disconnect, Idle
      <3>2. QED
        BY <2>2, <2>7, <3>1 DEF Disconnect
    <2>8. ASSUME Crash PROVE Notice!Next
      <3>1. CutShort(Handlers) \in SUBSET Events
        BY <2>3 DEF CutShort, Idle
      <3>2. QED
        BY <2>2, <2>8, <3>1 DEF Crash
    <2>9. ASSUME NEW h \in Handlers,
                 \/ LoadGateway(h) \/ Authenticate(h)
                 \/ \E d \in Requests : Receive(h, d)
          PROVE  UNCHANGED Notice!vars
      BY <2>1, <2>9 DEF LoadGateway, Authenticate, Receive
    <2>10. ASSUME NEW table \in SUBSET Rows, Write(table) PROVE UNCHANGED Notice!vars
      BY <2>1, <2>10 DEF Write
    <2>11. ASSUME FaultElsewhere PROVE UNCHANGED Notice!vars
      BY <2>1, <2>11 DEF FaultElsewhere
    <2>12. gateways \in SUBSET Rows /\ writes \in Nat /\ faults \in 0..MaxFaults
      BY BoundsAssumption DEF TypeOK
    <2>13. QED
      BY <2>4, <2>5, <2>6, <2>7, <2>8, <2>9, <2>10, <2>11, <2>12, NextCases
  <1>3. QED
    BY <1>1, <1>2

\* Each step of the receiver is a step of PaymentNotice or leaves it alone: the
\* code keeps the promise stated there for every number of deliveries.
THEOREM ReceiverKeepsPromise == Spec => NoticeSpec
  BY NextIsOpen, NoticeSteps, TypeCorrect, BudgetCorrect, AccountsCorrect, PTL
     DEF Spec, NoticeSpec, Notice!Spec

-----------------------------------------------------------------------------
(* The receiver as a part of the service *)

Inv == TypeOK /\ FireBudget /\ RepeatBudget /\ SecretsVouched /\ LedgerAccounts /\ Meant

LEMMA Initially == Init => Inv
  BY TypeInductive, FireBudgetInductive, RepeatBudgetInductive, SecretsInductive,
     AccountsInductive, MeantInductive DEF Inv

LEMMA Invariance == Inv /\ [OpenNext]_vars => Inv'
  BY TypeInductive, FireBudgetInductive, RepeatBudgetInductive, SecretsInductive,
     AccountsInductive, MeantInductive DEF Inv

LEMMA Promises == Inv => NoDoubleFire /\ RepeatsPaidFor /\ NoSilentLoss /\ CalledBackExactly
  BY GuardFromBudget, RepeatsFromBudget, LossFromAccounts, ExactFromMeant DEF Inv

\* What a handler at work, or one that is cut short, may change.
LEMMA HandlerEffects ==
  ASSUME TypeOK, NEW h \in Handlers, HandlerStep(h) \/ Disconnect(h)
  PROVE  /\ UNCHANGED <<gateways, writes>> /\ faults' \in faults..MaxFaults
         /\ ~Idle(h) /\ req[h].event \in Events
         /\ \A k \in Handlers : pc'[k] # "idle" => pc[k] # "idle" /\ req'[k] = req[k]
         /\ claimed' \subseteq claimed \cup {req[h].event}
         /\ \/ UNCHANGED <<posted, outages>>
            \/ /\ posted' = [posted EXCEPT ![req[h].event] = @ + 1]
               /\ UNCHANGED outages
            \/ /\ outages' = [outages EXCEPT ![req[h].event] = @ + 1]
               /\ UNCHANGED posted
  <1>0. /\ faults \in Nat /\ MaxFaults \in Nat /\ faults <= MaxFaults
        /\ ~Idle(h) => req[h].event \in Events
    BY BoundsAssumption DEF TypeOK, Requests
  <1> USE DEF Idle, Goto, Fault
  <1>1. CASE LoadGateway(h)
    BY <1>0, <1>1 DEF LoadGateway, TypeOK
  <1>2. CASE Authenticate(h)
    BY <1>0, <1>2 DEF Authenticate, TypeOK
  <1>3. CASE Record(h)
    <2>1. UNCHANGED <<gateways, writes, posted, req>> /\ pc[h] = "record"
      BY <1>3 DEF Record
    <2>2. CASE RecordInserted(h)
      BY <1>0, <2>1, <2>2 DEF RecordInserted, TypeOK
    <2>3. CASE RecordDuplicate(h)
      BY <1>0, <2>1, <2>3 DEF RecordDuplicate, TypeOK
    <2>4. CASE RecordFailed(h)
      BY <1>0, <2>1, <2>4 DEF RecordFailed, TypeOK
    <2>5. QED
      BY <1>3, <2>2, <2>3, <2>4 DEF Record
  <1>4. CASE PostCallback(h)
    BY <1>0, <1>4 DEF PostCallback, TypeOK
  <1>5. CASE Reply(h)
    BY <1>0, <1>5 DEF Reply, Release, TypeOK
  <1>6. CASE Disconnect(h)
    BY <1>0, <1>6 DEF Disconnect, TypeOK
  <1>7. QED
    BY <1>1, <1>2, <1>3, <1>4, <1>5, <1>6 DEF HandlerStep

\* What the arrival of a delivery changes.
LEMMA ArrivalEffects ==
  ASSUME TypeOK, NEW h \in Handlers, NEW e \in Events, Deliver(h, e) \/ DeliverTwice(h, e)
  PROVE  /\ UNCHANGED <<gateways, writes, claimed, posted, outages>>
         /\ faults' \in faults..MaxFaults
         /\ \A k \in Handlers : \/ pc'[k] = pc[k] /\ req'[k] = req[k]
                                \/ req'[k].event = e
  <1>1. faults \in Nat /\ MaxFaults \in Nat /\ faults <= MaxFaults
    BY BoundsAssumption DEF TypeOK
  <1>2. QED
    BY <1>1 DEF Deliver, DeliverTwice, Receive, Genuine, Fault, TypeOK

\* What is left after a crash.
LEMMA CrashEffects ==
  ASSUME TypeOK, Crash
  PROVE  /\ UNCHANGED <<gateways, writes, claimed, posted, outages>>
         /\ faults' \in faults..MaxFaults
         /\ \A k \in Handlers : pc'[k] = "idle"
  BY BoundsAssumption DEF Crash, Release, Fault, TypeOK

=============================================================================
