----------------------------- MODULE ServerProofs -----------------------------
(***************************************************************************)
(* Proofs about Server, for every number of requests, every size of the    *)
(* pool and every value of the bounds.                                     *)
(***************************************************************************)
EXTENDS Server, FiniteSetTheorems, TLAPS

\* What a handler may answer on its own; 401 is InternalAuth's.
Codes == {0, 400, 422, 500}

StepSet == [kind : {"db", "ledger", "net"}, onError : Codes]

Starting == {"load", "connect", "migrate", "listen", "bind"}

\* The secrets config.Load lets through.
Strong == {"padded", "proper"}

AnyToken == {"", "other", env.secret}

-----------------------------------------------------------------------------
(* The inductive invariant, in parts *)

MainOK ==
  /\ phase \in Starting \cup {"arm", "serve", "drain", "close", "down"}
  /\ env \in Environments /\ schema \in BOOLEAN
  /\ pool = CASE phase \in {"load", "connect", "down"} -> "none"
              [] phase = "close" -> "closed"
              [] OTHER -> "open"
  /\ phase \notin {"load", "down"} => env.secret \in Strong
  /\ requests \in 0..MaxRequests /\ faults \in 0..MaxFaults

Serving ==
  /\ pc \in [Handlers -> {"idle", "auth", "body", "run", "query", "call", "answer", "panic"}]
  /\ req \in [Handlers -> [route : Routes, token : Secrets \cup {"other"}]]
  /\ left \in [Handlers -> Seq(StepSet)]
  /\ status \in [Handlers -> Statuses \cup {0}]
  /\ counted \in [Statuses -> Nat] /\ sent \in [Statuses -> Nat]

\* Per request: only where a step is under way is one left, only answers have a status.
RequestsOK ==
  \A h \in Handlers :
    /\ pc[h] = "answer" <=> status[h] # 0
    /\ pc[h] \in {"query", "call"} => left[h] # <<>>
    /\ Idle(h) => req[h] = NoReq
    /\ ~Idle(h) => /\ req[h].token \in AnyToken
                   /\ phase \notin Starting \cup {"down"}

\* A request returns through the middlewares once its handler has ended, the metrics last.
LayersOK ==
  /\ layers \in [Handlers -> {<<>>, <<"metrics">>, Middlewares}]
  /\ \A h \in Handlers :
       /\ ~Idle(h) /\ pc[h] # "answer" => layers[h] = Middlewares
       /\ Idle(h) => layers[h] = <<>>

\* Nothing has happened to a process that has not started yet; one that closes its
\* pool under its requests has run out of time.
MarksOK ==
  /\ phase \in Starting => marks = {}
  /\ (phase = "close" /\ ~AllIdle) => "overrun" \in marks

Inv ==
  /\ MainOK /\ Serving /\ RequestsOK /\ LayersOK /\ MarksOK
  /\ ShutdownHarmless /\ UnclaimedExplained /\ OnlyTheMonolith

LEMMA StepsTyped == \A r \in Routes : Steps(r) \in Seq(StepSet)
  <1>1. \A code \in Codes : Db(code) \in StepSet /\ Net(code) \in StepSet
    BY DEF Db, Net, StepSet
  <1>2. Ledger \in StepSet
    BY DEF Ledger, StepSet, Codes
  <1>3. 0 \in Codes /\ 400 \in Codes /\ 422 \in Codes /\ 500 \in Codes
    BY DEF Codes
  <1>4. Steps("health") \in Seq(StepSet)
    BY DEF Steps
  <1>5. Steps("webhook") \in Seq(StepSet)
    BY <1>1, <1>2, <1>3 DEF Steps
  <1>6. Steps("charge") \in Seq(StepSet)
    BY <1>1, <1>3 DEF Steps
  <1>7. Steps("update") \in Seq(StepSet)
    BY <1>1, <1>3 DEF Steps
  <1>8. QED
    BY <1>4, <1>5, <1>6, <1>7 DEF Routes

LEMMA NothingTyped ==
  /\ <<>> \in Seq(StepSet)
  /\ NoReq \in [route : Routes, token : Secrets \cup {"other"}]
  /\ NoReq.token = "" /\ ~Protected(NoReq.route)
  BY DEF NoReq, Routes, Secrets, Protected

LEMMA Initially == Init => Inv
  <1> SUFFICES ASSUME Init PROVE Inv
    OBVIOUS
  <1> USE DEF Init
  <1>1. MainOK
    BY ServerBounds DEF MainOK, Starting
  <1>2. Serving
    <2>1. left \in [Handlers -> Seq(StepSet)]
      BY NothingTyped
    <2>2. req \in [Handlers -> [route : Routes, token : Secrets \cup {"other"}]]
      BY NothingTyped
    <2>3. QED
      BY <2>1, <2>2 DEF Serving
  <1>3. RequestsOK /\ LayersOK /\ MarksOK
    BY DEF RequestsOK, LayersOK, MarksOK, Idle, AllIdle
  <1>4. ShutdownHarmless /\ UnclaimedExplained
    BY DEF ShutdownHarmless, UnclaimedExplained
  <1>5. OnlyTheMonolith
    BY NothingTyped DEF OnlyTheMonolith
  <1>6. QED
    BY <1>1, <1>2, <1>3, <1>4, <1>5 DEF Inv

-----------------------------------------------------------------------------
(* main *)

\* A step of main that leaves the requests as they are, and marks alone or "overrun".
LEMMA MainKeeps ==
  ASSUME Inv, NEW from, NEW to, Main(from, to),
         to \in Starting \cup {"arm", "serve", "drain", "close", "down"},
         to \notin {"load", "down"} => env.secret \in Strong,
         to \in Starting => from \in Starting,
         to \in Starting \cup {"down"} => AllIdle,
         marks' \in {marks, marks \cup {"overrun"}},
         to \in Starting => marks' = marks,
         (to = "close" /\ ~AllIdle) => "overrun" \in marks',
         UNCHANGED faults \/ Fault,
         schema' \in BOOLEAN, UNCHANGED schema \/ from \in Starting,
         pool' = CASE to \in {"load", "connect", "down"} -> "none"
                   [] to = "close" -> "closed"
                   [] OTHER -> "open"
  PROVE  Inv'
  <1> USE DEF Inv, Main, requestVars
  <1>1. MainOK'
    <2>1. faults' \in 0..MaxFaults
      BY ServerBounds DEF MainOK, Fault
    <2>2. QED
      BY <2>1 DEF MainOK
  <1>2. Serving'
    BY DEF Serving
  <1>3. RequestsOK' /\ LayersOK'
    BY DEF RequestsOK, LayersOK, Idle, AllIdle, AnyToken
  <1>4. MarksOK'
    BY DEF MarksOK, Idle, AllIdle
  <1>5. ShutdownHarmless'
    BY DEF ShutdownHarmless
  <1>6. UnclaimedExplained'
    BY DEF UnclaimedExplained, MarksOK
  <1>7. OnlyTheMonolith'
    BY DEF OnlyTheMonolith
  <1>8. QED
    BY <1>1, <1>2, <1>3, <1>4, <1>5, <1>6, <1>7

LEMMA NobodyWhileStarting ==
  ASSUME Inv, phase \in Starting \cup {"down"}
  PROVE  AllIdle
  BY DEF Inv, RequestsOK, AllIdle

LEMMA MainStepKeeps ==
  ASSUME Inv, Configure \/ Connect \/ Migrate \/ Listen \/ Arm \/ Signal \/ Shutdown
  PROVE  Inv'
  <1> USE DEF Inv
  <1>1. CASE Configure
    <2>1. PICK to \in {"connect", "down"} :
            Main("load", to) /\ (to = "connect" => Load)
            /\ UNCHANGED <<schema, pool, faults, marks>>
      BY <1>1 DEF Configure
    <2>2. phase = "load" /\ env \in Environments /\ schema \in BOOLEAN /\ pool = "none"
          /\ AllIdle
      BY <2>1, NobodyWhileStarting DEF Main, MainOK, Starting
    <2>3. to = "connect" => env.secret \in Strong
      BY <2>1, <2>2, EnvironmentsAssumption DEF Load, Strong, Secrets
    <2>4. QED
      BY <2>1, <2>2, <2>3, MainKeeps DEF Starting
  <1>2. CASE Connect
    <2>1. phase = "connect" /\ schema \in BOOLEAN /\ pool = "none" /\ AllIdle
          /\ env.secret \in Strong
      BY <1>2, NobodyWhileStarting DEF Connect, Main, MainOK, Starting
    <2>2. CASE Main("connect", "migrate") /\ pool' = "open" /\ UNCHANGED faults
      BY <1>2, <2>1, <2>2, MainKeeps DEF Connect, Starting
    <2>3. CASE Main("connect", "down") /\ Fault /\ UNCHANGED pool
      BY <1>2, <2>1, <2>3, MainKeeps DEF Connect, Starting
    <2>4. QED
      BY <1>2, <2>2, <2>3 DEF Connect
  <1>3. CASE Migrate
    <2>1. phase = "migrate" /\ schema' \in BOOLEAN /\ pool = "open" /\ AllIdle
          /\ env.secret \in Strong
      BY <1>3, NobodyWhileStarting DEF Migrate, Main, MainOK, Starting
    <2>2. QED
      BY <1>3, <2>1, MainKeeps DEF Migrate, Starting
  <1>4. CASE Listen
    <2>1. phase \in {"listen", "bind"} /\ schema \in BOOLEAN /\ pool = "open" /\ AllIdle
          /\ env.secret \in Strong
      BY <1>4, NobodyWhileStarting DEF Listen, Main, MainOK, Starting
    <2>2. CASE Main("listen", "arm") /\ UNCHANGED <<pool, faults>>
      BY <1>4, <2>1, <2>2, MainKeeps DEF Listen, Starting
    <2>3. CASE Main("bind", "serve") /\ UNCHANGED <<pool, faults>>
      BY <1>4, <2>1, <2>3, MainKeeps DEF Listen, Starting
    <2>4. CASE Main("listen", "down") /\ pool' = "none" /\ Fault
      BY <1>4, <2>1, <2>4, MainKeeps DEF Listen, Starting
    <2>5. CASE Main("bind", "down") /\ pool' = "none" /\ Fault
      BY <1>4, <2>1, <2>5, MainKeeps DEF Listen, Starting
    <2>6. QED
      BY <1>4, <2>2, <2>3, <2>4, <2>5 DEF Listen
  <1>5. CASE Arm
    <2>1. /\ phase \in {"listen", "arm"} /\ schema \in BOOLEAN /\ pool = "open"
          /\ env.secret \in Strong
      BY <1>5 DEF Arm, Main, MainOK, Starting
    <2>2. CASE Main("listen", "bind")
      <3>1. AllIdle
        BY <2>2, NobodyWhileStarting DEF Main, Starting
      <3>2. QED
        BY <1>5, <2>1, <2>2, <3>1, MainKeeps DEF Arm, Starting
    <2>3. CASE Main("arm", "serve")
      BY <1>5, <2>1, <2>3, MainKeeps DEF Arm, Starting
    <2>4. QED
      BY <1>5, <2>2, <2>3 DEF Arm
  <1>6. CASE Signal
    <2>1. phase \in {"serve", "bind"} /\ schema \in BOOLEAN /\ env.secret \in Strong
      BY <1>6 DEF Signal, Main, MainOK, Starting
    <2>2. CASE Main("serve", "drain")
      BY <1>6, <2>1, <2>2, MainKeeps DEF Signal, PoolAfterSignal, Starting
    <2>3. CASE Main("bind", "drain")
      BY <1>6, <2>1, <2>3, MainKeeps DEF Signal, PoolAfterSignal, Starting
    <2>4. QED
      BY <1>6, <2>2, <2>3 DEF Signal
  <1>7. CASE Shutdown
    <2>1. phase = "drain" /\ schema \in BOOLEAN /\ env.secret \in Strong
      BY <1>7 DEF Shutdown, Main, MainOK, Starting
    <2>2. QED
      BY <1>7, <2>1, MainKeeps DEF Shutdown, Mark, Starting
  <1>8. QED
    BY <1>1, <1>2, <1>3, <1>4, <1>5, <1>6, <1>7

\* The end of a process, whatever the reason.
LEMMA GoneKeeps ==
  ASSUME Inv, Gone, UNCHANGED faults \/ Fault,
         \E more \in SUBSET {"cut", "broken", "killed"} : marks' = marks \cup more,
         ShutdownHarmless', phase # "down"
  PROVE  Inv'
  <1> USE DEF Inv, Gone
  <1>1. MainOK'
    <2>1. faults' \in 0..MaxFaults
      BY ServerBounds DEF MainOK, Fault
    <2>2. QED
      BY <2>1 DEF MainOK, Starting
  <1>2. Serving'
    BY NothingTyped DEF Serving
  <1>3. RequestsOK' /\ LayersOK' /\ MarksOK'
    BY DEF RequestsOK, LayersOK, MarksOK, Idle, AllIdle, Starting
  <1>4. UnclaimedExplained'
    BY DEF UnclaimedExplained
  <1>5. OnlyTheMonolith'
    BY NothingTyped DEF OnlyTheMonolith
  <1>6. QED
    BY <1>1, <1>2, <1>3, <1>4, <1>5

LEMMA ExitKeeps ==
  ASSUME Inv, Exit
  PROVE  Inv'
  <1>1. Losses \in {{}, {"cut"}} /\ (~AllIdle \/ Losses = {})
    BY DEF Exit, Closed, Holds, Losses, AllIdle
  <1>2. marks' = marks \cup Losses /\ ~AllIdle => "overrun" \in marks
    BY DEF Inv, Exit, MarksOK
  <1>3. ShutdownHarmless'
    BY <1>1, <1>2 DEF Inv, Exit, MarksOK, ShutdownHarmless
  <1>4. QED
    BY <1>1, <1>3, GoneKeeps DEF Exit

LEMMA KilledKeeps ==
  ASSUME Inv, Killed
  PROVE  Inv'
  <1>1. Losses \subseteq {"cut", "broken"}
    BY DEF Losses
  <1>2. ShutdownHarmless'
    BY <1>1 DEF Inv, Killed, ShutdownHarmless
  <1>3. \E more \in SUBSET {"cut", "broken", "killed"} : marks' = marks \cup more
    <2>1. marks' = marks \cup (Losses \cup {"killed"})
      BY DEF Killed
    <2>2. QED
      BY <1>1, <2>1
  <1>4. QED
    BY <1>2, <1>3, GoneKeeps DEF Killed

LEMMA RestartKeeps ==
  ASSUME Inv, Restart
  PROVE  Inv'
  <1> USE DEF Inv, Restart, requestVars
  <1>0. AllIdle
    BY NobodyWhileStarting
  <1>1. MainOK'
    <2>1. faults' \in 0..MaxFaults
      BY ServerBounds DEF MainOK, Fault
    <2>2. QED
      BY <2>1 DEF MainOK, Starting
  <1>2. Serving'
    BY DEF Serving
  <1>3. RequestsOK' /\ LayersOK' /\ MarksOK'
    BY <1>0 DEF RequestsOK, LayersOK, MarksOK, Idle, AllIdle
  <1>4. ShutdownHarmless' /\ UnclaimedExplained'
    BY DEF ShutdownHarmless, UnclaimedExplained
  <1>5. OnlyTheMonolith'
    BY <1>0, NothingTyped DEF OnlyTheMonolith, RequestsOK, AllIdle
  <1>6. QED
    BY <1>1, <1>2, <1>3, <1>4, <1>5

-----------------------------------------------------------------------------
(* Requests *)

\* A step of one handler, of main's state untouched, that keeps what was asked.
HandlerMoves(h) ==
  /\ pc' = [pc EXCEPT ![h] = pc'[h]]
  /\ left' = [left EXCEPT ![h] = left'[h]]
  /\ status' = [status EXCEPT ![h] = status'[h]]
  /\ ~Idle(h) /\ pc[h] # "answer"
  /\ pc'[h] \in {"body", "run", "query", "call", "answer", "panic"}
  /\ left'[h] \in Seq(StepSet)
  /\ status'[h] \in Statuses \cup {0}
  /\ pc'[h] = "answer" <=> status'[h] # 0
  /\ pc'[h] \in {"query", "call"} => left'[h] # <<>>
  /\ Protected(req[h].route) =>
       IF status'[h] = 401
       THEN req[h].token # env.secret \/ env.secret = "padded"
       ELSE req[h].token = env.secret /\ env.secret = "proper"
  /\ faults' \in 0..MaxFaults
  /\ UNCHANGED req
  /\ Local

LEMMA MovesKeep ==
  ASSUME Inv, NEW h \in Handlers, HandlerMoves(h),
         marks' \in SUBSET (marks \cup {"rejected", "unclaimed", "failed"}),
         marks \subseteq marks',
         "rejected" \in marks' => "rejected" \in marks \/ phase = "close",
         "unclaimed" \in marks' =>
           \/ "unclaimed" \in marks
           \/ ~schema \/ phase = "close" \/ "failed" \in marks'
  PROVE  Inv'
  <1> USE DEF Inv, HandlerMoves, Local
  <1>1. MainOK'
    BY DEF MainOK
  <1>2. Serving'
    <2>1. left' \in [Handlers -> Seq(StepSet)]
      <3>1. /\ left \in [Handlers -> Seq(StepSet)] /\ left'[h] \in Seq(StepSet)
            /\ left' = [left EXCEPT ![h] = left'[h]]
        BY DEF Serving
      <3>2. QED
        BY ONLY <3>1
    <2>2. status' \in [Handlers -> Statuses \cup {0}]
      <3>1. /\ status \in [Handlers -> Statuses \cup {0}]
            /\ status'[h] \in Statuses \cup {0}
            /\ status' = [status EXCEPT ![h] = status'[h]]
        BY DEF Serving
      <3>2. QED
        BY ONLY <3>1
    <2>3. pc' \in [Handlers -> {"idle", "auth", "body", "run", "query", "call", "answer",
                               "panic"}]
      <3> DEFINE States ==
            {"idle", "auth", "body", "run", "query", "call", "answer", "panic"}
      <3>1. pc \in [Handlers -> States] /\ pc'[h] \in States
        BY DEF Serving
      <3>2. pc' = [pc EXCEPT ![h] = pc'[h]]
        OBVIOUS
      <3> HIDE DEF States
      <3>3. pc' \in [Handlers -> States]
        BY ONLY <3>1, <3>2
      <3>4. QED
        BY <3>3 DEF States
    <2>4. QED
      BY <2>1, <2>2, <2>3 DEF Serving
  <1>a. /\ \A k \in Handlers : k # h => /\ pc'[k] = pc[k] /\ left'[k] = left[k]
                                       /\ status'[k] = status[k]
        /\ UNCHANGED <<req, env, phase>>
    BY DEF Serving
  <1>3. /\ ~AllIdle
        /\ phase \notin Starting \cup {"down"}
        /\ phase = "close" => "overrun" \in marks'
    BY DEF RequestsOK, MarksOK, AllIdle
  <1>4. RequestsOK'
    <2> SUFFICES ASSUME NEW k \in Handlers PROVE RequestsOK!(k)'
      BY DEF RequestsOK
    <2>1. CASE k = h
      <3>1. /\ pc'[h] = "answer" <=> status'[h] # 0
            /\ pc'[h] \in {"query", "call"} => left'[h] # <<>>
            /\ pc'[h] # "idle"
        OBVIOUS
      <3>2. req[h].token \in AnyToken /\ req'[h] = req[h] /\ env' = env
        BY <1>a DEF RequestsOK
      <3>3. phase' \notin Starting \cup {"down"}
        BY <1>a, <1>3 DEF Starting
      <3>4. QED
        BY ONLY <2>1, <3>1, <3>2, <3>3 DEF Idle, AnyToken
    <2>2. CASE k # h
      <3>1. RequestsOK!(k)
        BY DEF RequestsOK
      <3>2. /\ pc'[k] = pc[k] /\ left'[k] = left[k] /\ status'[k] = status[k]
            /\ req'[k] = req[k] /\ env' = env /\ phase' = phase
        BY <1>a, <2>2
      <3>3. QED
        BY ONLY <3>1, <3>2 DEF Idle, AnyToken
    <2>3. QED
      BY <2>1, <2>2
  <1>5. MarksOK'
    BY <1>3 DEF MarksOK
  <1>b. LayersOK'
    BY <1>a DEF LayersOK, Idle
  <1>6. ShutdownHarmless' /\ UnclaimedExplained'
    BY <1>3 DEF ShutdownHarmless, UnclaimedExplained
  <1>7. OnlyTheMonolith'
    <2> SUFFICES ASSUME NEW k \in Handlers PROVE OnlyTheMonolith!(k)'
      BY DEF OnlyTheMonolith
    <2>1. CASE k = h
      BY <1>a, <2>1
    <2>2. CASE k # h
      <3>1. OnlyTheMonolith!(k)
        BY DEF OnlyTheMonolith
      <3>2. pc'[k] = pc[k] /\ status'[k] = status[k] /\ req'[k] = req[k] /\ env' = env
        BY <1>a, <2>2
      <3>3. QED
        BY ONLY <3>1, <3>2
    <2>3. QED
      BY <2>1, <2>2
  <1>8. QED
    BY <1>1, <1>2, <1>b, <1>4, <1>5, <1>6, <1>7

LEMMA AcceptKeeps ==
  ASSUME Inv, NEW h \in Handlers, NEW r \in Routes, NEW token \in AnyToken,
         Accept(h, r, token)
  PROVE  Inv'
  <1> USE DEF Inv, Accept, Goto
  <1>1. MainOK'
    BY ServerBounds DEF MainOK
  <1>2. [route |-> r, token |-> token] \in [route : Routes, token : Secrets \cup {"other"}]
    BY EnvironmentsAssumption DEF MainOK, AnyToken, Secrets
  <1>3. Serving'
    BY <1>2, StepsTyped DEF Serving
  <1>4. RequestsOK'
    BY DEF RequestsOK, Idle, Serving, AnyToken, Starting
  <1>5. MarksOK'
    BY DEF MarksOK, AllIdle, Idle, Serving, Starting
  <1>b. LayersOK'
    BY DEF LayersOK, Idle, Serving
  <1>6. ShutdownHarmless' /\ UnclaimedExplained'
    BY DEF ShutdownHarmless, UnclaimedExplained
  <1>7. OnlyTheMonolith'
    BY DEF OnlyTheMonolith, Serving
  <1>8. QED
    BY <1>1, <1>3, <1>b, <1>4, <1>5, <1>6, <1>7

\* What InternalAuth lets through has the proper secret, and nothing else has.
LEMMA AuthorizedMeans ==
  ASSUME Inv, NEW h \in Handlers, ~Idle(h)
  PROVE  IF Authorized(h)
         THEN req[h].token = env.secret /\ env.secret = "proper"
         ELSE req[h].token # env.secret \/ env.secret = "padded"
  <1>1. env.secret \in Strong /\ req[h].token \in AnyToken
    BY DEF Inv, MainOK, RequestsOK, Starting
  <1>2. CASE env.secret = "padded"
    BY <1>1, <1>2 DEF Authorized, OnTheWire, AnyToken
  <1>3. CASE env.secret = "proper"
    BY <1>1, <1>3 DEF Authorized, OnTheWire, AnyToken
  <1>4. QED
    BY <1>1, <1>2, <1>3 DEF Strong

LEMMA StepTyped ==
  ASSUME Inv, NEW h \in Handlers, left[h] # <<>>
  PROVE  /\ Step(h) \in StepSet
         /\ Tail(left[h]) \in Seq(StepSet)
  <1>1. left[h] \in Seq(StepSet)
    BY DEF Inv, Serving
  <1>2. QED
    BY <1>1 DEF Step

LEMMA InternalAuthKeeps ==
  ASSUME Inv, NEW h \in Handlers, InternalAuth(h)
  PROVE  Inv'
  <1>1. pc[h] = "auth" /\ ~Idle(h) /\ status[h] = 0
    BY DEF InternalAuth, Idle, Inv, RequestsOK
  <1>2. HandlerMoves(h)
    <2>1. CASE Authorized(h) /\ Goto(h, "body") /\ UNCHANGED status
      BY <1>1, <2>1, AuthorizedMeans
      DEF InternalAuth, HandlerMoves, Goto, Inv, Serving, MainOK
    <2>2. CASE ~Authorized(h) /\ Answer(h, 401)
      BY <1>1, <2>2, AuthorizedMeans
      DEF InternalAuth, HandlerMoves, Goto, Answer, Inv, Serving, MainOK, Statuses
    <2>3. QED
      BY <2>1, <2>2 DEF InternalAuth
  <1>3. QED
    BY <1>2, MovesKeep DEF InternalAuth

\* A handler that is past InternalAuth without an answer is the monolith's.
LEMMA PastAuth ==
  ASSUME Inv, NEW h \in Handlers, pc[h] \in {"body", "run", "query", "call"}
  PROVE  /\ ~Idle(h) /\ status[h] = 0
         /\ Protected(req[h].route) => req[h].token = env.secret /\ env.secret = "proper"
  BY DEF Inv, RequestsOK, OnlyTheMonolith, Idle

\* What the steps below have in common.
LEMMA PlainKeeps ==
  ASSUME Inv, NEW h \in Handlers, NEW step \in {"run", "query", "call", "panic"},
         pc[h] \in {"body", "run", "query", "call"},
         Goto(h, step), UNCHANGED <<req, left, status, marks>>, Local,
         step \in {"query", "call"} => left[h] # <<>>,
         UNCHANGED faults \/ Fault
  PROVE  Inv'
  <1>1. faults' \in 0..MaxFaults
    BY ServerBounds DEF Inv, MainOK, Fault
  <1>2. HandlerMoves(h)
    BY <1>1, PastAuth DEF HandlerMoves, Goto, Inv, Serving
  <1>3. QED
    BY <1>2, MovesKeep

\* A step is over, or has failed.
LEMMA EndKeeps ==
  ASSUME Inv, NEW h \in Handlers, pc[h] \in {"run", "query", "call"}, left[h] # <<>>,
         Continue(h) \/ StepFails(h),
         UNCHANGED req, Local,
         UNCHANGED faults \/ Fault,
         marks' \in SUBSET (marks \cup {"rejected", "unclaimed", "failed"}),
         marks \subseteq marks',
         "rejected" \in marks' => "rejected" \in marks \/ phase = "close",
         "unclaimed" \in marks' =>
           \/ "unclaimed" \in marks
           \/ ~schema \/ phase = "close" \/ "failed" \in marks'
  PROVE  Inv'
  <1>1. faults' \in 0..MaxFaults
    BY ServerBounds DEF Inv, MainOK, Fault
  <1>2. HandlerMoves(h)
    <2>1. CASE Continue(h)
      BY <1>1, <2>1, PastAuth, StepTyped DEF HandlerMoves, Continue, Goto, Inv, Serving
    <2>2. CASE Step(h).onError # 0 /\ Answer(h, Step(h).onError) /\ UNCHANGED left
      <3>1. Step(h).onError \in {400, 422, 500}
        BY <2>2, StepTyped DEF StepSet, Codes
      <3>2. QED
        BY <1>1, <2>2, <3>1, PastAuth
        DEF HandlerMoves, Answer, Goto, Inv, Serving, Statuses
    <2>3. QED
      BY <2>1, <2>2 DEF StepFails
  <1>3. QED
    BY <1>2, MovesKeep

LEMMA DoneKeeps ==
  ASSUME Inv, NEW h \in Handlers, Done(h)
  PROVE  Inv'
  <1>1. HandlerMoves(h)
    BY PastAuth DEF Done, HandlerMoves, Answer, Goto, Inv, Serving, Statuses, MainOK
  <1>2. QED
    BY <1>1, MovesKeep DEF Done

\* The layers of a request that returns: Recoverer's first, then that of the metrics.
LEMMA Returning ==
  ASSUME Inv, NEW h \in Handlers, Unwind(h)
  PROVE  \/ layers[h] = Middlewares /\ Head(layers[h]) = "recoverer"
            /\ layers'[h] = <<"metrics">> /\ UNCHANGED counted
            /\ IF pc[h] = "panic" THEN Answer(h, 500) ELSE UNCHANGED <<pc, status>>
         \/ layers[h] = <<"metrics">> /\ pc[h] = "answer" /\ layers'[h] = <<>>
            /\ counted' = [counted EXCEPT ![status[h]] = @ + 1]
            /\ UNCHANGED <<pc, status>>
  <1> USE DEF Inv, Unwind
  <1>1. layers[h] \in {<<"metrics">>, Middlewares} /\ layers'[h] = Tail(layers[h])
    BY DEF LayersOK
  <1>2. CASE layers[h] = Middlewares
    BY <1>1, <1>2 DEF Middlewares
  <1>3. CASE layers[h] = <<"metrics">>
    <2>1. pc[h] = "answer" /\ status[h] # 0
      BY <1>3 DEF LayersOK, RequestsOK, Idle, Middlewares
    <2>2. QED
      BY <1>1, <1>3, <2>1 DEF CountedStatus
  <1>4. QED
    BY <1>1, <1>2, <1>3

LEMMA UnwindKeeps ==
  ASSUME Inv, NEW h \in Handlers, Unwind(h)
  PROVE  Inv'
  <1> USE DEF Inv, Unwind
  <1>0. pc[h] \in {"answer", "panic"} /\ ~Idle(h)
    BY DEF Idle
  <1>s. /\ pc[h] = "panic" => status[h] = 0
        /\ pc[h] = "answer" => status[h] \in Statuses
    BY DEF RequestsOK, Serving
  <1>t. /\ pc'[h] = "answer"
        /\ status'[h] = IF pc[h] = "panic" THEN 500 ELSE status[h]
        /\ \A k \in Handlers : k # h => pc'[k] = pc[k] /\ status'[k] = status[k]
    <2>1. CASE pc[h] = "panic"
      <3>1. Answer(h, 500)
        BY <2>1, Returning
      <3>2. QED
        BY <2>1, <3>1 DEF Answer, Goto, Serving
    <2>2. CASE pc[h] = "answer"
      <3>1. UNCHANGED <<pc, status>>
        BY <2>2, Returning
      <3>2. QED
        BY <2>2, <3>1
    <2>3. QED
      BY <1>0, <2>1, <2>2
  <1>a. /\ pc'[h] = "answer" /\ status'[h] \in Statuses
        /\ status'[h] = IF pc[h] = "panic" THEN 500 ELSE status[h]
        /\ \A k \in Handlers : k # h => /\ pc'[k] = pc[k] /\ status'[k] = status[k]
                                       /\ layers'[k] = layers[k]
    BY <1>0, <1>s, <1>t DEF LayersOK, Statuses
  <1>1. MainOK'
    BY DEF MainOK
  <1>2. Serving'
    <2>1. counted' \in [Statuses -> Nat]
      BY <1>0, Returning DEF Serving
    <2>2. status' \in [Handlers -> Statuses \cup {0}]
      BY DEF Answer, Serving, Statuses
    <2>3. pc' \in [Handlers -> {"idle", "auth", "body", "run", "query", "call", "answer",
                               "panic"}]
      BY DEF Answer, Goto, Serving
    <2>4. QED
      BY <2>1, <2>2, <2>3 DEF Serving
  <1>3. RequestsOK'
    <2> SUFFICES ASSUME NEW k \in Handlers PROVE RequestsOK!(k)'
      BY DEF RequestsOK
    <2>0. RequestsOK!(k) /\ UNCHANGED <<req, env, phase, left>>
      BY DEF RequestsOK
    <2>1. CASE k = h
      <3>1. status'[h] # 0 /\ pc'[h] = "answer"
        BY <1>a DEF Statuses
      <3>2. req[h].token \in AnyToken /\ phase \notin Starting \cup {"down"}
        BY <1>0, <2>0, <2>1
      <3>3. QED
        BY <2>0, <2>1, <3>1, <3>2 DEF Idle, AnyToken
    <2>2. CASE k # h
      <3>1. pc'[k] = pc[k] /\ status'[k] = status[k]
        BY <1>a, <2>2
      <3>2. QED
        BY <2>0, <3>1 DEF Idle, AnyToken
    <2>3. QED
      BY <2>1, <2>2
  <1>4. LayersOK'
    <2>1. layers'[h] \in {<<>>, <<"metrics">>}
      BY Returning
    <2>2. layers' = [layers EXCEPT ![h] = layers'[h]]
      BY DEF LayersOK
    <2>3. layers' \in [Handlers -> {<<>>, <<"metrics">>, Middlewares}]
      BY <2>1, <2>2 DEF LayersOK
    <2>4. QED
      BY <1>a, <2>3 DEF LayersOK, Idle
  <1>5. MarksOK'
    BY <1>0, <1>a DEF MarksOK, AllIdle, Idle
  <1>6. ShutdownHarmless' /\ UnclaimedExplained'
    BY DEF ShutdownHarmless, UnclaimedExplained
  <1>7. OnlyTheMonolith'
    <2> SUFFICES ASSUME NEW k \in Handlers PROVE OnlyTheMonolith!(k)'
      BY DEF OnlyTheMonolith
    <2>1. CASE k = h
      <3>1. pc[h] = "panic" => status[h] = 0
        BY DEF RequestsOK
      <3>2. QED
        BY <1>0, <1>a, <2>1, <3>1 DEF OnlyTheMonolith
    <2>2. CASE k # h
      BY <1>a, <2>2 DEF OnlyTheMonolith
    <2>3. QED
      BY <2>1, <2>2
  <1>8. QED
    BY <1>1, <1>2, <1>3, <1>4, <1>5, <1>6, <1>7

LEMMA FinishKeeps ==
  ASSUME Inv, NEW h \in Handlers, Finish(h)
  PROVE  Inv'
  <1> USE DEF Inv, Finish, Goto
  <1>1. status[h] \in Statuses
    BY DEF Serving, RequestsOK, Statuses
  <1>2. MainOK'
    BY DEF MainOK
  <1>3. Serving'
    <2>1. left' \in [Handlers -> Seq(StepSet)]
      BY NothingTyped DEF Serving
    <2>2. req' \in [Handlers -> [route : Routes, token : Secrets \cup {"other"}]]
      BY NothingTyped DEF Serving
    <2>3. status' \in [Handlers -> Statuses \cup {0}]
      BY DEF Serving
    <2>4. counted' \in [Statuses -> Nat] /\ sent' \in [Statuses -> Nat]
      BY <1>1 DEF Serving
    <2>5. QED
      BY <2>1, <2>2, <2>3, <2>4 DEF Serving
  <1>a. /\ \A k \in Handlers : k # h => /\ pc'[k] = pc[k] /\ req'[k] = req[k]
                                       /\ left'[k] = left[k] /\ status'[k] = status[k]
        /\ pc'[h] = "idle" /\ req'[h] = NoReq /\ status'[h] = 0
        /\ UNCHANGED <<env, phase, marks>>
    BY DEF Serving
  <1>4. RequestsOK'
    <2> SUFFICES ASSUME NEW k \in Handlers PROVE RequestsOK!(k)'
      BY DEF RequestsOK
    <2>1. CASE k = h
      BY <1>a, <2>1 DEF Idle
    <2>2. CASE k # h
      <3>1. RequestsOK!(k)
        BY DEF RequestsOK
      <3>2. QED
        BY <1>a, <2>2, <3>1 DEF Idle, AnyToken
    <2>3. QED
      BY <2>1, <2>2
  <1>b. LayersOK'
    BY <1>a DEF LayersOK, Idle
  <1>5. MarksOK'
    BY DEF MarksOK, AllIdle, Idle, Serving
  <1>6. ShutdownHarmless' /\ UnclaimedExplained'
    BY DEF ShutdownHarmless, UnclaimedExplained
  <1>8. OnlyTheMonolith'
    <2> SUFFICES ASSUME NEW k \in Handlers PROVE OnlyTheMonolith!(k)'
      BY DEF OnlyTheMonolith
    <2>1. CASE k = h
      BY <1>a, <2>1, NothingTyped
    <2>2. CASE k # h
      BY <1>a, <2>2 DEF OnlyTheMonolith
    <2>3. QED
      BY <2>1, <2>2
  <1>9. QED
    BY <1>2, <1>3, <1>4, <1>b, <1>5, <1>6, <1>8

LEMMA StutterKeeps ==
  ASSUME Inv, UNCHANGED vars
  PROVE  Inv'
  <1> USE DEF Inv, vars, requestVars
  <1>1. MainOK'
    BY DEF MainOK
  <1>2. Serving'
    BY DEF Serving
  <1>3. RequestsOK' /\ LayersOK' /\ MarksOK'
    BY DEF RequestsOK, LayersOK, AnyToken, Idle, MarksOK, AllIdle
  <1>4. ShutdownHarmless' /\ UnclaimedExplained' /\ OnlyTheMonolith'
    BY DEF ShutdownHarmless, UnclaimedExplained, OnlyTheMonolith
  <1>5. QED
    BY <1>1, <1>2, <1>3, <1>4

LEMMA Invariance == Inv /\ [Next]_vars => Inv'
  <1> SUFFICES ASSUME Inv, [Next]_vars PROVE Inv'
    OBVIOUS
  <1>1. CASE MainStep \/ Signal
    BY <1>1, MainStepKeeps, ExitKeeps DEF MainStep
  <1>2. CASE Killed \/ Restart
    BY <1>2, KilledKeeps, RestartKeeps
  <1>3. ASSUME NEW h \in Handlers, NEW r \in Routes, NEW token \in AnyToken,
               Accept(h, r, token)
        PROVE  Inv'
    BY <1>3, AcceptKeeps
  <1>4. ASSUME NEW h \in Handlers, Rejected(h)
        PROVE  Inv'
    <2>1. phase = "close"
      BY <1>4 DEF Rejected, Inv, MainOK, Starting
    <2>2. QED
      BY <1>4, <2>1, EndKeeps DEF Rejected, OnStep, Unclaimed
  <1>5. ASSUME NEW h \in Handlers, QueryEnds(h)
        PROVE  Inv'
    <2>1. pc[h] = "query" /\ left[h] # <<>>
      BY <1>5 DEF QueryEnds, Inv, RequestsOK
    <2>2. QED
      BY <1>5, <2>1, EndKeeps DEF QueryEnds, Unclaimed
  <1>6. ASSUME NEW h \in Handlers, CallEnds(h)
        PROVE  Inv'
    <2>1. pc[h] = "call" /\ left[h] # <<>>
      BY <1>6 DEF CallEnds, Inv, RequestsOK
    <2>2. QED
      BY <1>6, <2>1, EndKeeps DEF CallEnds
  <1>7. ASSUME NEW h \in Handlers, ReadBody(h) \/ Acquire(h) \/ Call(h) \/ Panic(h)
        PROVE  Inv'
    BY <1>7, PlainKeeps DEF ReadBody, Acquire, Call, Panic, OnStep
  <1>8. QED
    BY <1>1, <1>2, <1>3, <1>4, <1>5, <1>6, <1>7, InternalAuthKeeps, DoneKeeps, UnwindKeeps,
       FinishKeeps, StutterKeeps DEF Next, HandlerStep, Tokens, AnyToken

LEMMA InvHolds == Spec => []Inv
  BY Initially, Invariance, PTL DEF Spec

-----------------------------------------------------------------------------
(* The counter of requests *)

LEMMA CountedFinite == \A s \in Statuses : /\ IsFiniteSet(Counted(s))
                                           /\ Cardinality(Counted(s)) \in Nat
  <1> SUFFICES ASSUME NEW s \in Statuses
               PROVE  IsFiniteSet(Counted(s)) /\ Cardinality(Counted(s)) \in Nat
    OBVIOUS
  <1>1. Counted(s) \subseteq Handlers
    BY DEF Counted
  <1>2. IsFiniteSet(Counted(s))
    BY <1>1, ServerBounds, FS_Subset
  <1>3. QED
    BY <1>2, FS_CardinalityType

\* A step that neither counts nor sends, of handlers that have not returned yet.
LEMMA CountsAlike ==
  ASSUME CountersTruthful, UNCHANGED <<counted, sent>>,
         \A h \in Handlers :
           \/ layers[h] # <<>> /\ layers'[h] # <<>>
           \/ pc[h] # "answer" /\ pc'[h] # "answer"
           \/ pc'[h] = pc[h] /\ layers'[h] = layers[h] /\ status'[h] = status[h]
  PROVE  CountersTruthful'
  <1>1. \A s \in Statuses : Counted(s)' = Counted(s)
    BY DEF Counted
  <1>2. QED
    BY <1>1 DEF CountersTruthful

LEMMA AcceptCounts ==
  ASSUME Inv, CountersTruthful, NEW h \in Handlers, NEW r \in Routes, NEW token,
         Accept(h, r, token)
  PROVE  CountersTruthful'
  <1>1. \A k \in Handlers :
          \/ pc[k] # "answer" /\ pc'[k] # "answer"
          \/ pc'[k] = pc[k] /\ layers'[k] = layers[k] /\ status'[k] = status[k]
    BY DEF Accept, Idle, Goto, Inv, Serving, LayersOK
  <1>2. QED
    BY <1>1, CountsAlike DEF Accept

LEMMA MovesCount ==
  ASSUME Inv, CountersTruthful, NEW h \in Handlers,
         \/ InternalAuth(h) \/ Rejected(h) \/ QueryEnds(h) \/ Call(h) \/ CallEnds(h)
         \/ Done(h) \/ ReadBody(h) \/ Acquire(h) \/ Panic(h)
  PROVE  CountersTruthful'
  <1>1. /\ pc[h] \in {"auth", "run", "query", "call", "body"}
        /\ UNCHANGED <<layers, counted, sent>>
    BY DEF InternalAuth, Rejected, QueryEnds, Call, CallEnds, Done, ReadBody, Acquire,
           Panic, OnStep, Local
  <1>2. \A k \in Handlers : k # h => pc'[k] = pc[k] /\ status'[k] = status[k]
    BY DEF InternalAuth, Rejected, QueryEnds, Call, CallEnds, Done, ReadBody, Acquire,
           Panic, Answer, Goto, Continue, StepFails, Inv, Serving
  <1>3. layers[h] = Middlewares /\ layers[h] # <<>>
    BY <1>1 DEF Inv, LayersOK, Idle, Middlewares
  <1>4. QED
    BY <1>1, <1>2, <1>3, CountsAlike

\* A request that returns is counted as it passes the metrics.
LEMMA UnwindCounts ==
  ASSUME Inv, CountersTruthful, NEW h \in Handlers, Unwind(h)
  PROVE  CountersTruthful'
  <1>1. UNCHANGED sent /\ layers' = [layers EXCEPT ![h] = layers'[h]]
    BY DEF Unwind, Inv, LayersOK
  <1>2. CASE layers[h] = Middlewares /\ layers'[h] = <<"metrics">> /\ UNCHANGED counted
    <2>1. layers[h] # <<>> /\ layers'[h] # <<>>
      BY <1>2 DEF Middlewares
    <2>2. \A k \in Handlers : k # h =>
            pc'[k] = pc[k] /\ layers'[k] = layers[k] /\ status'[k] = status[k]
      BY DEF Unwind, Answer, Goto, Inv, Serving, LayersOK
    <2>3. QED
      BY <1>1, <1>2, <2>1, <2>2, CountsAlike
  <1>3. CASE /\ layers[h] = <<"metrics">> /\ pc[h] = "answer" /\ layers'[h] = <<>>
             /\ counted' = [counted EXCEPT ![status[h]] = @ + 1]
             /\ UNCHANGED <<pc, status>>
    <2>1. /\ status[h] \in Statuses
          /\ layers \in [Handlers -> {<<>>, <<"metrics">>, Middlewares}]
          /\ counted \in [Statuses -> Nat] /\ sent \in [Statuses -> Nat]
      BY <1>3 DEF Inv, LayersOK, RequestsOK, Serving
    <2> SUFFICES ASSUME NEW s \in Statuses
                 PROVE  counted'[s] = sent'[s] + Cardinality(Counted(s)')
      BY DEF CountersTruthful
    <2>2. counted[s] = sent[s] + Cardinality(Counted(s))
      BY DEF CountersTruthful
    <2>3. CASE s = status[h]
      <3>a. /\ layers[h] # <<>> /\ pc'[h] = "answer" /\ layers'[h] = <<>> /\ status'[h] = s
            /\ \A k \in Handlers : k # h =>
                 pc'[k] = pc[k] /\ layers'[k] = layers[k] /\ status'[k] = status[k]
        BY <1>1, <1>3, <2>1, <2>3
      <3>1. Counted(s)' = Counted(s) \cup {h} /\ h \notin Counted(s)
        BY <3>a DEF Counted
      <3>2. Cardinality(Counted(s)') = Cardinality(Counted(s)) + 1
        BY <3>1, CountedFinite, FS_AddElement
      <3>3. QED
        BY <1>1, <1>3, <2>1, <2>2, <2>3, <3>2, CountedFinite
    <2>4. CASE s # status[h]
      <3>1. Counted(s)' = Counted(s)
        BY <1>1, <1>3, <2>1, <2>4 DEF Counted
      <3>2. QED
        BY <1>1, <1>3, <2>1, <2>2, <2>4, <3>1
    <2>5. QED
      BY <2>3, <2>4
  <1>4. QED
    BY <1>2, <1>3, Returning

LEMMA FinishCounts ==
  ASSUME Inv, CountersTruthful, NEW h \in Handlers, Finish(h)
  PROVE  CountersTruthful'
  <1>1. /\ status[h] \in Statuses /\ pc[h] = "answer" /\ layers[h] = <<>>
        /\ pc'[h] = "idle"
        /\ sent' = [sent EXCEPT ![status[h]] = @ + 1]
        /\ UNCHANGED <<counted, layers>>
        /\ \A k \in Handlers : k # h => pc'[k] = pc[k] /\ status'[k] = status[k]
        /\ counted \in [Statuses -> Nat] /\ sent \in [Statuses -> Nat]
    BY DEF Finish, Goto, Inv, RequestsOK, Serving
  <1> SUFFICES ASSUME NEW s \in Statuses
               PROVE  counted'[s] = sent'[s] + Cardinality(Counted(s)')
    BY DEF CountersTruthful
  <1>2. counted[s] = sent[s] + Cardinality(Counted(s))
    BY DEF CountersTruthful
  <1>3. CASE s = status[h]
    <2>1. Counted(s)' = Counted(s) \ {h} /\ h \in Counted(s)
      BY <1>1, <1>3 DEF Counted
    <2>2. Cardinality(Counted(s)') = Cardinality(Counted(s)) - 1
      BY <2>1, CountedFinite, FS_RemoveElement
    <2>3. QED
      BY <1>1, <1>2, <1>3, <2>2, CountedFinite
  <1>4. CASE s # status[h]
    <2>1. Counted(s)' = Counted(s)
      BY <1>1, <1>4 DEF Counted
    <2>2. QED
      BY <1>1, <1>2, <1>4, <2>1
  <1>5. QED
    BY <1>3, <1>4

LEMMA GoneCounts ==
  ASSUME Gone
  PROVE  CountersTruthful'
  <1> SUFFICES ASSUME NEW s \in Statuses
               PROVE  counted'[s] = sent'[s] + Cardinality(Counted(s)')
    BY DEF CountersTruthful
  <1>1. Counted(s)' = {}
    BY DEF Gone, Counted
  <1>2. Cardinality(Counted(s)') = 0
    BY <1>1, FS_EmptySet
  <1>3. QED
    BY <1>2 DEF Gone

LEMMA CountsKept == Inv /\ CountersTruthful /\ [Next]_vars => CountersTruthful'
  <1> SUFFICES ASSUME Inv, CountersTruthful, [Next]_vars PROVE CountersTruthful'
    OBVIOUS
  <1>1. CASE Configure \/ Connect \/ Migrate \/ Listen \/ Arm \/ Signal \/ Shutdown \/ Restart
             \/ UNCHANGED vars
    <2>1. UNCHANGED <<requestVars, counted, sent>>
      BY <1>1 DEF Configure, Connect, Migrate, Listen, Arm, Signal, Shutdown, Restart, Main,
                  vars, requestVars
    <2>2. QED
      BY <2>1, CountsAlike DEF requestVars
  <1>2. CASE Exit \/ Killed
    BY <1>2, GoneCounts DEF Exit, Killed
  <1>3. ASSUME NEW h \in Handlers, NEW r \in Routes, NEW token \in Tokens(r),
               Accept(h, r, token)
        PROVE  CountersTruthful'
    BY <1>3, AcceptCounts
  <1>4. ASSUME NEW h \in Handlers, HandlerStep(h) \/ ReadBody(h) \/ Acquire(h) \/ Panic(h)
        PROVE  CountersTruthful'
    BY <1>4, MovesCount, UnwindCounts, FinishCounts DEF HandlerStep
  <1>5. QED
    BY <1>1, <1>2, <1>3, <1>4 DEF Next, MainStep

-----------------------------------------------------------------------------
(* Winding down *)

LEMMA Lengths ==
  ASSUME Inv, NEW h \in Handlers
  PROVE  /\ Len(left[h]) \in Nat
         /\ left[h] # <<>> => Len(left[h]) > 0 /\ Len(Tail(left[h])) = Len(left[h]) - 1
         /\ Len(layers[h]) \in 0..2
         /\ ~Idle(h) /\ pc[h] # "answer" => Len(layers[h]) = 2
  <1>1. left[h] \in Seq(StepSet)
    BY DEF Inv, Serving
  <1>2. /\ layers[h] \in {<<>>, <<"metrics">>, <<"recoverer", "metrics">>}
        /\ ~Idle(h) /\ pc[h] # "answer" => layers[h] = <<"recoverer", "metrics">>
    BY DEF Inv, LayersOK, Middlewares
  <1>3. Len(layers[h]) \in 0..2 /\ (~Idle(h) /\ pc[h] # "answer" => Len(layers[h]) = 2)
    BY <1>2
  <1>4. QED
    BY <1>1, <1>3

\* A step of one handler whose measure goes down.
LEMMA AloneNears ==
  ASSUME NEW h \in Handlers, UNCHANGED phase, StepsToGo(h)' < StepsToGo(h),
         \A i \in Handlers \ {h} :
           pc'[i] = pc[i] /\ left'[i] = left[i] /\ layers'[i] = layers[i]
  PROVE  Nears(h)
  BY DEF Nears, StepsToGo

\* A statement or a call that is over, or has failed, is not begun again.
LEMMA EndNears ==
  ASSUME Inv, NEW h \in Handlers, pc[h] \in {"run", "query", "call"}, left[h] # <<>>,
         Continue(h) \/ StepFails(h), Local
  PROVE  Nears(h)
  <1> USE DEF Local
  <1>0. /\ Len(left[h]) \in Nat /\ Len(left[h]) > 0 /\ Len(layers[h]) = 2
        /\ Len(Tail(left[h])) = Len(left[h]) - 1
    BY Lengths DEF Idle
  <1>1. StepsToGo(h) >= 3 + 2 * Len(left[h])
    BY <1>0 DEF StepsToGo
  <1>2. CASE Continue(h)
    <2>1. pc'[h] = "run" /\ left'[h] = Tail(left[h])
      BY <1>2 DEF Continue, Goto, Inv, Serving
    <2>2. StepsToGo(h)' = 4 + 2 * (Len(left[h]) - 1)
      BY <1>0, <2>1 DEF StepsToGo
    <2>3. StepsToGo(h) \in Int
      BY <1>0 DEF StepsToGo
    <2>4. StepsToGo(h)' < StepsToGo(h)
      BY <1>0, <1>1, <2>2, <2>3
    <2>5. QED
      BY <1>2, <2>4, AloneNears DEF Continue, Goto, Inv, Serving
  <1>3. CASE UNCHANGED left /\ \E s : Answer(h, s)
    <2>1. pc'[h] = "answer" /\ layers'[h] = layers[h]
      BY <1>3 DEF Answer, Goto, Inv, Serving
    <2>2. StepsToGo(h)' = 3
      BY <1>0, <2>1 DEF StepsToGo
    <2>3. StepsToGo(h) \in Int
      BY <1>0 DEF StepsToGo
    <2>4. StepsToGo(h)' < StepsToGo(h)
      BY <1>0, <1>1, <2>2, <2>3
    <2>5. QED
      BY <1>3, <2>4, AloneNears DEF Answer, Goto, Inv, Serving
  <1>4. QED
    BY <1>2, <1>3 DEF StepFails

\* The steps between them, a panic and the end of a handler included.
LEMMA PlainNears ==
  ASSUME Inv, NEW h \in Handlers,
         InternalAuth(h) \/ ReadBody(h) \/ Acquire(h) \/ Call(h) \/ Done(h) \/ Panic(h)
  PROVE  Nears(h)
  <1> USE DEF Local
  <1>0. Len(left[h]) \in Nat /\ (pc[h] \in {"auth", "body", "run"} => Len(layers[h]) = 2)
    BY Lengths DEF Idle
  <1>1. /\ UNCHANGED <<phase, left, layers>> /\ pc' = [pc EXCEPT ![h] = pc'[h]]
        /\ \/ pc[h] = "auth" /\ pc'[h] \in {"body", "answer"}
           \/ pc[h] = "body" /\ pc'[h] = "run"
           \/ pc[h] = "run" /\ pc'[h] \in {"query", "call", "answer", "panic"}
    BY DEF InternalAuth, ReadBody, Acquire, Call, Done, Panic, OnStep, Goto, Answer, Inv,
           Serving
  <1>2. StepsToGo(h)' < StepsToGo(h)
    <2>1. CASE pc[h] = "auth"
      <3>1. StepsToGo(h) = 6 + 2 * Len(left[h])
        BY <2>1 DEF StepsToGo
      <3>2. StepsToGo(h)' \in {5 + 2 * Len(left[h]), 3}
        <4>1. CASE pc'[h] = "body"
          BY <1>1, <4>1 DEF StepsToGo
        <4>2. CASE pc'[h] \in {"answer"}
          <5>1. StepsToGo(h)' = 1 + Len(layers[h])
            BY <1>1, <4>2 DEF StepsToGo
          <5>2. Len(layers[h]) = 2
            BY <1>0, <2>1
          <5>3. StepsToGo(h)' = 3
            BY <5>1, <5>2
          <5>4. QED
            BY <5>3
        <4>3. QED
          BY <1>1, <2>1, <4>1, <4>2
      <3>3. QED
        BY <1>0, <3>1, <3>2
    <2>2. CASE pc[h] = "body"
      <3>1. StepsToGo(h) = 5 + 2 * Len(left[h])
        BY <2>2 DEF StepsToGo
      <3>2. StepsToGo(h)' = 4 + 2 * Len(left[h])
        BY <1>1, <2>2 DEF StepsToGo
      <3>3. QED
        BY <1>0, <3>1, <3>2
    <2>3. CASE pc[h] = "run"
      <3>1. StepsToGo(h) = 4 + 2 * Len(left[h])
        BY <2>3 DEF StepsToGo
      <3>2. StepsToGo(h)' \in {3 + 2 * Len(left[h]), 3}
        <4>1. CASE pc'[h] \in {"query", "call"}
          BY <1>1, <4>1 DEF StepsToGo
        <4>2. CASE pc'[h] \in {"answer", "panic"}
          <5>1. StepsToGo(h)' = 1 + Len(layers[h])
            BY <1>1, <4>2 DEF StepsToGo
          <5>2. Len(layers[h]) = 2
            BY <1>0, <2>3
          <5>3. StepsToGo(h)' = 3
            BY <5>1, <5>2
          <5>4. QED
            BY <5>3
        <4>3. QED
          BY <1>1, <2>3, <4>1, <4>2
      <3>3. QED
        BY <1>0, <3>1, <3>2
    <2>4. QED
      BY <1>1, <2>1, <2>2, <2>3
  <1>3. QED
    BY <1>1, <1>2, AloneNears DEF Inv, Serving

\* The way back through the middlewares.
LEMMA ReturnNears ==
  ASSUME Inv, NEW h \in Handlers, Unwind(h) \/ Finish(h)
  PROVE  Nears(h)
  <1>1. CASE Unwind(h)
    <2>1. \/ Len(layers[h]) = 2 /\ Len(layers'[h]) = 1
          \/ Len(layers[h]) = 1 /\ Len(layers'[h]) = 0
      <3>1. \/ layers[h] = <<"recoverer", "metrics">> /\ layers'[h] = <<"metrics">>
            \/ layers[h] = <<"metrics">> /\ layers'[h] = <<>>
        BY <1>1, Returning DEF Middlewares
      <3>2. /\ Len(<<"recoverer", "metrics">>) = 2 /\ Len(<<"metrics">>) = 1
            /\ Len(<<>>) = 0
        OBVIOUS
      <3>3. QED
        BY ONLY <3>1, <3>2, Zenon
    <2>2. pc[h] \in {"answer", "panic"} /\ pc'[h] = "answer"
          /\ \A i \in Handlers \ {h} : pc'[i] = pc[i]
      BY <1>1, Returning DEF Unwind, Answer, Goto, Inv, Serving
    <2>3. /\ StepsToGo(h) = 1 + Len(layers[h])
          /\ StepsToGo(h)' = 1 + Len(layers'[h])
      BY <2>2 DEF StepsToGo
    <2>4. StepsToGo(h)' < StepsToGo(h)
      <3>1. CASE Len(layers[h]) = 2 /\ Len(layers'[h]) = 1
        <4>1. StepsToGo(h) = 3 /\ StepsToGo(h)' = 2
          BY <2>3, <3>1
        <4>2. QED
          BY <4>1
      <3>2. CASE Len(layers[h]) = 1 /\ Len(layers'[h]) = 0
        <4>1. StepsToGo(h) = 2 /\ StepsToGo(h)' = 1
          BY <2>3, <3>2
        <4>2. QED
          BY <4>1
      <3>3. QED
        BY <2>1, <3>1, <3>2
    <2>5. QED
      BY <1>1, <2>2, <2>4, AloneNears DEF Unwind, Inv, LayersOK
  <1>2. CASE Finish(h)
    <2>1. pc[h] = "answer" /\ pc'[h] = "idle" /\ Len(layers[h]) \in Nat
      BY <1>2, Lengths DEF Finish, Goto, Inv, Serving
    <2>2. StepsToGo(h)' < StepsToGo(h)
      BY <2>1 DEF StepsToGo
    <2>3. QED
      BY <1>2, <2>2, AloneNears DEF Finish, Goto, Inv, Serving
  <1>3. QED
    BY <1>1, <1>2

LEMMA WindsDown ==
  ASSUME Inv, Next, phase \in {"drain", "close"}
  PROVE  Ends \/ \E h \in Handlers : Nears(h)
  <1>1. CASE MainStep \/ Signal \/ Killed \/ Restart
    BY <1>1 DEF MainStep, Signal, Killed, Restart, Configure, Connect, Migrate, Listen, Arm,
                Shutdown, Exit, Main, Gone, Ends
  <1>2. ASSUME NEW h \in Handlers, NEW r \in Routes, NEW token \in Tokens(r),
               Accept(h, r, token)
        PROVE  FALSE
    BY <1>2 DEF Accept
  <1>3. ASSUME NEW h \in Handlers, HandlerStep(h) \/ ReadBody(h) \/ Acquire(h) \/ Panic(h)
        PROVE  Nears(h)
    <2>1. CASE Rejected(h) \/ QueryEnds(h) \/ CallEnds(h)
      <3>1. /\ pc[h] \in {"run", "query", "call"} /\ left[h] # <<>>
            /\ Continue(h) \/ StepFails(h)
            /\ Local
        BY <2>1 DEF Rejected, QueryEnds, CallEnds, OnStep, Inv, RequestsOK
      <3>2. QED
        BY <3>1, EndNears
    <2>2. QED
      BY <1>3, <2>1, PlainNears, ReturnNears DEF HandlerStep
  <1>4. QED
    BY <1>1, <1>2, <1>3 DEF Next

-----------------------------------------------------------------------------
(* Theorems *)

\* The pool is open exactly in the phases of main in which handlers may use it.
THEOREM TypeCorrect == Spec => []TypeOK
  <1>1. Inv => TypeOK
    <2> SUFFICES ASSUME Inv PROVE TypeOK
      OBVIOUS
    <2>1. \A h \in Handlers : layers[h] \in {<<>>, Tail(Middlewares), Middlewares}
      BY DEF Inv, LayersOK, Middlewares
    <2>2. QED
      BY <2>1 DEF Inv, MainOK, Serving, RequestsOK, TypeOK, Starting
  <1>2. QED
    BY <1>1, InvHolds, PTL

\* A shutdown that ends within its ten seconds refuses no handler a connection and
\* cuts no request off, and no shutdown breaks a statement.
THEOREM ShutdownIsHarmless == Spec => []ShutdownHarmless
  BY InvHolds, PTL DEF Inv

\* A callback is made without the claim of its event for three reasons only: a failed
\* statement, a failed migration, a shutdown that overran.
THEOREM UnclaimedIsExplained == Spec => []UnclaimedExplained
  BY InvHolds, PTL DEF Inv

\* Only who has the secret passes InternalAuth, and he does unless blanks surround it.
THEOREM OnlyTheMonolithPasses == Spec => []OnlyTheMonolith
  BY InvHolds, PTL DEF Inv

\* The counter of requests is the number of answers, panics included, whichever requests
\* are on their way back.
THEOREM CountersTellTheTruth == Spec => []CountersTruthful
  <1>1. Init => CountersTruthful
    <2> SUFFICES ASSUME Init PROVE CountersTruthful
      OBVIOUS
    <2> SUFFICES ASSUME NEW s \in Statuses
                 PROVE  counted[s] = sent[s] + Cardinality(Counted(s))
      BY DEF CountersTruthful
    <2>1. Counted(s) = {}
      BY DEF Init, Counted
    <2>2. Cardinality(Counted(s)) = 0
      BY <2>1, FS_EmptySet
    <2>3. QED
      BY <2>2 DEF Init
  <1>2. QED
    BY <1>1, CountsKept, InvHolds, PTL DEF Spec

\* From the signal on every step is one of main's towards its end, or takes one request
\* nearer to its answer: a shutdown has a number of steps.
THEOREM ShutdownHasAnEnd == Spec => ShutdownWindsDown
  <1>1. Inv /\ [Next]_vars =>
          [(phase \in {"drain", "close"}) => (Ends \/ \E h \in Handlers : Nears(h))]_vars
    BY WindsDown
  <1>2. QED
    BY <1>1, InvHolds, PTL DEF Spec, ShutdownWindsDown

=============================================================================
