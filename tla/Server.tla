-------------------------------- MODULE Server --------------------------------
(***************************************************************************)
(* The process: start-up and shutdown (main.go, config.go, db.go,          *)
(* migrations.go), the chain of middlewares in front of the handlers       *)
(* (router.go, internal_auth.go, metrics.go), and the pool of connections  *)
(* they share.  Webhook, Checkout and GatewayAdmin say what the handlers   *)
(* do; here a route is only the list of the statements and calls it makes, *)
(* with the status its handler answers when one fails.                     *)
(*                                                                         *)
(* main is at load, connect, migrate, listen, arm (the listener is up,     *)
(* signals are not caught yet) or bind (signals are caught, the listener   *)
(* is not up yet), serve, drain (Shutdown), close (db.Close), or it is     *)
(* down.  A request is at auth, body, run (before its next step), query    *)
(* (holding a connection), call (waiting for the network), answer, or      *)
(* panic.                                                                  *)
(***************************************************************************)
EXTENDS Integers, Sequences, FiniteSets

CONSTANTS
  Handlers,            \* requests in flight at once
  Environments,        \* what the process may find at start
  MaxConns,            \* the size of the pool
  MaxRequests,         \* bound: requests
  MaxFaults            \* bound: failures, panics, crashes, restarts

ASSUME ServerBounds ==
  /\ IsFiniteSet(Handlers)
  /\ MaxConns \in Nat \ {0} /\ MaxRequests \in Nat /\ MaxFaults \in Nat

(***************************************************************************)
(* Secrets: absent, only blanks, too short, with blanks around it, proper. *)
(* net/http trims the value of a header.                                   *)
(***************************************************************************)
Secrets == {"", "blanks", "short", "padded", "proper"}

OnTheWire(token) ==
  CASE token = "blanks" -> "" [] token = "padded" -> "proper" [] OTHER -> token

ASSUME EnvironmentsAssumption ==
  Environments \subseteq [database : BOOLEAN, secret : Secrets]

-----------------------------------------------------------------------------
(* Routes *)

Routes == {"health", "webhook", "charge", "update"}

\* A step of a handler, and the status of the answer when it fails; 0 when the
\* handler only logs the error.
Db(onError) == [kind |-> "db", onError |-> onError]
Ledger == [kind |-> "ledger", onError |-> 0]
Net(onError) == [kind |-> "net", onError |-> onError]

\* The longest path through stripeWebhookHandler, chargeHandler (a row, a plan and
\* its prices, a currency) and updateGatewayHandler; health makes none.
Steps(r) ==
  CASE r = "health"  -> <<>>
    [] r = "webhook" -> <<Db(400), Ledger, Net(0)>>
    [] r = "charge"  -> <<Db(500), Db(500), Db(500), Db(422), Net(422)>>
    [] r = "update"  -> <<Db(500), Db(500)>>

Protected(r) == r \in {"charge", "update"}

Statuses == {200, 400, 401, 422, 500}

VARIABLES
  phase, env, schema,         \* main; its environment; the tables are in place
  pool,                       \* "none", "open" or "closed"
  pc, req, left, status,      \* requests: step, [route, token], steps to go, answer
  layers,                     \* the middlewares a request has yet to return through
  requests, faults,           \* how much of the bounds is used
  counted,                    \* per status, http_requests_total
  (* history, read by no action *)
  sent,                       \* per status, answers of this process
  marks                       \* what has happened to this process

vars == <<phase, env, schema, pool, pc, req, left, status, layers, requests, faults,
          counted, sent, marks>>

requestVars == <<pc, req, left, status, layers>>

NoReq == [route |-> "health", token |-> ""]

Mark(m) == marks' = marks \cup {m}
Fault == faults < MaxFaults /\ faults' = faults + 1
Idle(h) == pc[h] = "idle"
AllIdle == \A h \in Handlers : Idle(h)

Init ==
  /\ phase = "load"
  /\ env \in Environments
  /\ schema \in BOOLEAN
  /\ pool = "none"
  /\ pc = [h \in Handlers |-> "idle"]
  /\ req = [h \in Handlers |-> NoReq]
  /\ left = [h \in Handlers |-> <<>>]
  /\ status = [h \in Handlers |-> 0]
  /\ layers = [h \in Handlers |-> <<>>]
  /\ requests = 0 /\ faults = 0
  /\ counted = [s \in Statuses |-> 0]
  /\ sent = [s \in Statuses |-> 0]
  /\ marks = {}

-----------------------------------------------------------------------------
(* main *)

Main(from, to) ==
  /\ phase = from
  /\ phase' = to
  /\ UNCHANGED <<env, requestVars, requests, counted, sent>>

\* config.Load: a database and a secret that is not blank, of 16 bytes or more.
Load == env.database /\ env.secret \notin {"", "blanks", "short"}

Configure ==
  /\ Main("load", IF Load THEN "connect" ELSE "down")
  /\ UNCHANGED <<schema, pool, faults, marks>>

\* postgres.New: a pool and a Ping; without a database the process ends.
Connect ==
  /\ \/ Main("connect", "migrate") /\ pool' = "open" /\ UNCHANGED faults
     \/ Main("connect", "down") /\ Fault /\ UNCHANGED pool
  /\ UNCHANGED <<schema, marks>>

\* ApplyMigrations is one transaction; main goes on without it.
Migrate ==
  /\ Main("migrate", "listen")
  /\ \/ schema' = TRUE /\ UNCHANGED faults
     \/ Fault /\ UNCHANGED schema
  /\ UNCHANGED <<pool, marks>>

\* The goroutine of the listener; when it cannot listen the process ends.
Listen ==
  /\ \/ Main("listen", "arm") /\ UNCHANGED <<pool, faults>>
     \/ Main("bind", "serve") /\ UNCHANGED <<pool, faults>>
     \/ /\ Main("listen", "down") \/ Main("bind", "down")
        /\ pool' = "none"
        /\ Fault
  /\ UNCHANGED <<schema, marks>>

\* signal.Notify, before or after the goroutine is at Listen.
Arm ==
  /\ Main("listen", "bind") \/ Main("arm", "serve")
  /\ UNCHANGED <<schema, pool, faults, marks>>

\* Mutant: the pool is closed as soon as the signal comes.
PoolAfterSignal_Closed == "closed"

\* The pool stays open while Shutdown waits.
PoolAfterSignal == "open"

\* A Shutdown that comes before the listener keeps it from ever serving.
Signal ==
  /\ Main("serve", "drain") \/ Main("bind", "drain")
  /\ pool' = PoolAfterSignal
  /\ UNCHANGED <<schema, faults, marks>>

\* Mutant: Shutdown waits for as long as it takes.
GraceOver_Never == FALSE

\* The ten seconds of Shutdown may be over, however much is in flight.
GraceOver == TRUE

\* Shutdown returns; its error is dropped, and db.Close rejects new acquisitions.
Shutdown ==
  /\ Main("drain", "close")
  /\ \/ AllIdle /\ UNCHANGED marks
     \/ ~AllIdle /\ GraceOver /\ Mark("overrun")
  /\ pool' = "closed"
  /\ UNCHANGED <<schema, faults>>

\* Mutant: the rows of a query are closed when the handler returns.
Holds_UntilAnswer(h) ==
  pc[h] = "query" \/ (~Idle(h) /\ Len(left[h]) < Len(Steps(req[h].route)))

\* A handler has a connection for the time of one statement.
Holds(h) == pc[h] = "query"

\* Mutant: Close does not wait.
Closed_AtOnce == TRUE

\* db.Close returns when every connection is back.
Closed == \A h \in Handlers : ~Holds(h)

\* The process is gone, with its requests.
Gone ==
  /\ phase' = "down"
  /\ pool' = "none"
  /\ pc' = [h \in Handlers |-> "idle"]
  /\ req' = [h \in Handlers |-> NoReq]
  /\ left' = [h \in Handlers |-> <<>>]
  /\ status' = [h \in Handlers |-> 0]
  /\ layers' = [h \in Handlers |-> <<>>]
  /\ counted' = [s \in Statuses |-> 0]
  /\ sent' = [s \in Statuses |-> 0]
  /\ UNCHANGED <<env, schema, requests>>

\* What an end does to the requests in flight.
Losses ==
  (IF AllIdle THEN {} ELSE {"cut"})
    \cup (IF \E h \in Handlers : pc[h] = "query" THEN {"broken"} ELSE {})

\* main returns once the deferred calls have.
Exit ==
  /\ phase = "close"
  /\ Closed
  /\ Gone
  /\ marks' = marks \cup Losses
  /\ UNCHANGED faults

\* The process is killed, or a signal comes before it is caught.
Killed ==
  /\ phase # "down"
  /\ Fault
  /\ Gone
  /\ marks' = marks \cup Losses \cup {"killed"}

\* The service manager starts it again.
Restart ==
  /\ phase = "down"
  /\ Fault
  /\ phase' = "load"
  /\ env' \in Environments
  /\ marks' = {}
  /\ UNCHANGED <<schema, pool, requestVars, requests, counted, sent>>

-----------------------------------------------------------------------------
(* Requests *)

Goto(h, step) == pc' = [pc EXCEPT ![h] = step]

Local == UNCHANGED <<phase, env, schema, pool, layers, requests, counted, sent>>

\* Mutant: the metrics are inside of Recoverer.
Middlewares_Swapped == <<"metrics", "recoverer">>

\* The middlewares that do something on the way back, the innermost first.
Middlewares == <<"recoverer", "metrics">>

\* Providers and probes send no token.
Tokens(r) == IF Protected(r) THEN {"", "other", env.secret} ELSE {""}

Accept(h, r, token) ==
  /\ phase \in {"arm", "serve"}
  /\ Idle(h)
  /\ requests < MaxRequests
  /\ requests' = requests + 1
  /\ req' = [req EXCEPT ![h] = [route |-> r, token |-> token]]
  /\ left' = [left EXCEPT ![h] = Steps(r)]
  /\ layers' = [layers EXCEPT ![h] = Middlewares]
  /\ Goto(h, IF Protected(r) THEN "auth" ELSE "body")
  /\ UNCHANGED <<phase, env, schema, pool, status, faults, counted, sent, marks>>

Answer(h, s) ==
  /\ Goto(h, "answer")
  /\ status' = [status EXCEPT ![h] = s]

\* Mutant: the empty token is compared as well.
Authorized_Empty(h) == OnTheWire(req[h].token) \in {"", env.secret}

Authorized(h) == OnTheWire(req[h].token) # "" /\ OnTheWire(req[h].token) = env.secret

InternalAuth(h) ==
  /\ pc[h] = "auth"
  /\ \/ Authorized(h) /\ Goto(h, "body") /\ UNCHANGED status
     \/ ~Authorized(h) /\ Answer(h, 401)
  /\ UNCHANGED <<req, left, faults, marks>>
  /\ Local

\* The client has sent the body, for which it may take any time.
ReadBody(h) ==
  /\ pc[h] = "body"
  /\ Goto(h, "run")
  /\ UNCHANGED <<req, left, status, faults, marks>>
  /\ Local

Step(h) == Head(left[h])

OnStep(h, kinds) == pc[h] = "run" /\ left[h] # <<>> /\ Step(h).kind \in kinds

Continue(h) ==
  /\ Goto(h, "run")
  /\ left' = [left EXCEPT ![h] = Tail(@)]
  /\ UNCHANGED status

\* Mutant: a handler that only logs an error tries its step again.
StepFails_Retries(h) ==
  \/ Step(h).onError = 0 /\ Goto(h, "run") /\ UNCHANGED <<left, status>>
  \/ Step(h).onError # 0 /\ Answer(h, Step(h).onError) /\ UNCHANGED left

StepFails(h) ==
  \/ Step(h).onError = 0 /\ Continue(h)
  \/ Step(h).onError # 0 /\ Answer(h, Step(h).onError) /\ UNCHANGED left

\* A connection of the pool, for which the handler waits if all are out.
Acquire(h) ==
  /\ OnStep(h, {"db", "ledger"})
  /\ pool = "open"
  /\ Cardinality({i \in Handlers : Holds(i)}) < MaxConns
  /\ Goto(h, "query")
  /\ UNCHANGED <<req, left, status, faults, marks>>
  /\ Local

\* What is in the log of a handler that goes on without the claim.
Unclaimed(h) == IF Step(h).kind = "ledger" THEN {"unclaimed"} ELSE {}

Rejected(h) ==
  /\ OnStep(h, {"db", "ledger"})
  /\ pool = "closed"
  /\ StepFails(h)
  /\ marks' = marks \cup {"rejected"} \cup Unclaimed(h)
  /\ UNCHANGED <<req, faults>>
  /\ Local

\* The statement ends; without its table the ledger's is an error.
QueryEnds(h) ==
  /\ pc[h] = "query"
  /\ \/ /\ Step(h).kind = "ledger" => schema
        /\ Continue(h)
        /\ UNCHANGED <<faults, marks>>
     \/ /\ Step(h).kind = "ledger" /\ ~schema
        /\ StepFails(h)
        /\ marks' = marks \cup Unclaimed(h)
        /\ UNCHANGED faults
     \/ /\ Fault
        /\ StepFails(h)
        /\ marks' = marks \cup {"failed"} \cup Unclaimed(h)
  /\ UNCHANGED req
  /\ Local

Call(h) ==
  /\ OnStep(h, {"net"})
  /\ Goto(h, "call")
  /\ UNCHANGED <<req, left, status, faults, marks>>
  /\ Local

\* The other side has answered, or the client's timeout is over.
CallEnds(h) ==
  /\ pc[h] = "call"
  /\ Continue(h) \/ StepFails(h)
  /\ UNCHANGED <<req, faults, marks>>
  /\ Local

Done(h) ==
  /\ pc[h] = "run"
  /\ left[h] = <<>>
  /\ Answer(h, 200)
  /\ UNCHANGED <<req, left, faults, marks>>
  /\ Local

Panic(h) ==
  /\ pc[h] = "run"
  /\ Fault
  /\ Goto(h, "panic")
  /\ UNCHANGED <<req, left, status, marks>>
  /\ Local

\* HTTPMiddleware: a handler that has written no status has answered 200.
CountedStatus(h) == IF status[h] = 0 THEN 200 ELSE status[h]

\* The handler has ended, or panicked, and the next middleware returns: Recoverer
\* makes a panic a 500, and the metrics count what has been written so far.
Unwind(h) ==
  /\ pc[h] \in {"answer", "panic"}
  /\ layers[h] # <<>>
  /\ layers' = [layers EXCEPT ![h] = Tail(@)]
  /\ \/ /\ Head(layers[h]) = "recoverer"
        /\ IF pc[h] = "panic" THEN Answer(h, 500) ELSE UNCHANGED <<pc, status>>
        /\ UNCHANGED counted
     \/ /\ Head(layers[h]) = "metrics"
        /\ counted' = [counted EXCEPT ![CountedStatus(h)] = @ + 1]
        /\ UNCHANGED <<pc, status>>
  /\ UNCHANGED <<phase, env, schema, pool, req, left, requests, faults, sent, marks>>

\* net/http sends the answer.
Finish(h) ==
  /\ pc[h] = "answer"
  /\ layers[h] = <<>>
  /\ sent' = [sent EXCEPT ![status[h]] = @ + 1]
  /\ Goto(h, "idle")
  /\ req' = [req EXCEPT ![h] = NoReq]
  /\ left' = [left EXCEPT ![h] = <<>>]
  /\ status' = [status EXCEPT ![h] = 0]
  /\ UNCHANGED <<phase, env, schema, pool, layers, requests, faults, counted, marks>>

-----------------------------------------------------------------------------
MainStep == Configure \/ Connect \/ Migrate \/ Listen \/ Arm \/ Shutdown \/ Exit

HandlerStep(h) ==
  \/ InternalAuth(h) \/ Rejected(h) \/ QueryEnds(h) \/ Call(h) \/ CallEnds(h)
  \/ Done(h) \/ Unwind(h) \/ Finish(h)

Next ==
  \/ MainStep
  \/ Signal
  \/ Killed
  \/ Restart
  \/ \E h \in Handlers :
       \/ \E r \in Routes : \E token \in Tokens(r) : Accept(h, r, token)
       \/ HandlerStep(h) \/ ReadBody(h) \/ Acquire(h) \/ Panic(h)

Spec == Init /\ [][Next]_vars

\* Goroutines run, statements end, clients have timeouts, and the pool hands out
\* connections in the order of the waiters; bodies may never come.
Fairness ==
  /\ WF_vars(MainStep)
  /\ \A h \in Handlers : WF_vars(HandlerStep(h)) /\ SF_vars(Acquire(h))

FairSpec == Spec /\ Fairness

-----------------------------------------------------------------------------
(* Properties *)

\* Variables have their types; the pool is open exactly while main may use it.
TypeOK ==
  /\ phase \in {"load", "connect", "migrate", "listen", "arm", "bind", "serve", "drain",
                "close", "down"}
  /\ env \in Environments /\ schema \in BOOLEAN
  /\ pool = CASE phase \in {"load", "connect", "down"} -> "none"
              [] phase = "close" -> "closed"
              [] OTHER -> "open"
  /\ pc \in [Handlers -> {"idle", "auth", "body", "run", "query", "call", "answer", "panic"}]
  /\ req \in [Handlers -> [route : Routes, token : Secrets \cup {"other"}]]
  /\ status \in [Handlers -> Statuses \cup {0}]
  /\ \A h \in Handlers : layers[h] \in {<<>>, Tail(Middlewares), Middlewares}
  /\ \A h \in Handlers : pc[h] = "answer" <=> status[h] # 0
  /\ \A h \in Handlers : pc[h] \in {"query", "call"} => left[h] # <<>>
  /\ requests \in 0..MaxRequests /\ faults \in 0..MaxFaults
  /\ counted \in [Statuses -> Nat] /\ sent \in [Statuses -> Nat]

\* A shutdown does no harm within its ten seconds: a handler is refused a
\* connection, or cut off, only when they were over (or the process was killed),
\* and even then no statement is broken, for db.Close waits for it.
ShutdownHarmless ==
  /\ marks \cap {"rejected", "cut"} # {} => marks \cap {"overrun", "killed"} # {}
  /\ "broken" \in marks => "killed" \in marks

\* A webhook is called back without the claim of its event only because a statement
\* failed, the migration did (main.go only warns), or a shutdown overran.
UnclaimedExplained ==
  "unclaimed" \in marks => ~schema \/ marks \cap {"failed", "overrun"} # {}

\* The counter of requests (metrics.go) tells the answers that clients were sent or are
\* about to be, panics included, whichever requests are still on their way back.
Counted(s) == {h \in Handlers : pc[h] = "answer" /\ layers[h] = <<>> /\ status[h] = s}

CountersTruthful == \A s \in Statuses : counted[s] = sent[s] + Cardinality(Counted(s))

\* Behind InternalAuth there is nobody without the secret, which is never blank or
\* short, and the monolith, which has it, is not turned away.  The code trims no
\* secret but headers are trimmed, so a secret with blanks around it shuts it out.
OnlyTheMonolith ==
  \A h \in Handlers :
    Protected(req[h].route) /\ pc[h] # "auth" =>
      IF status[h] = 401
      THEN req[h].token # env.secret \/ env.secret = "padded"
      ELSE req[h].token = env.secret /\ env.secret = "proper"

\* How many steps of its own a request needs at most until it has been answered.
StepsToGo(h) ==
  CASE pc[h] = "idle" -> 0
    [] pc[h] \in {"answer", "panic"} -> 1 + Len(layers[h])
    [] pc[h] \in {"query", "call"} -> 3 + 2 * Len(left[h])
    [] pc[h] = "run" -> 4 + 2 * Len(left[h])
    [] pc[h] = "body" -> 5 + 2 * Len(left[h])
    [] OTHER -> 6 + 2 * Len(left[h])          \* auth

\* A step of main that leads on to the end.
Ends == phase' \in {"close", "down"} \ {phase}

\* A step of one request that takes it nearer to its answer, and no other one back.
Nears(h) ==
  /\ phase' = phase
  /\ StepsToGo(h)' < StepsToGo(h)
  /\ \A i \in Handlers \ {h} : StepsToGo(i)' = StepsToGo(i)

\* A shutdown can only wind down: no request comes in, none takes a step twice or sets
\* another one back, and main never returns to serving.  So the steps are numbered for
\* which Shutdown and db.Close may have to wait, whatever fails or panics meanwhile.
ShutdownWindsDown ==
  [][(phase \in {"drain", "close"}) => (Ends \/ \E h \in Handlers : Nears(h))]_vars

\* A signal that is caught ends the process, whatever clients and requests do.
ShutdownEnds == phase = "drain" ~> phase = "down"

\* A request whose body has arrived is answered, or goes down with the process: no
\* handler waits for a connection another one holds while it waits.
RunsAreServed == \A h \in Handlers : pc[h] = "run" ~> Idle(h)

=============================================================================
