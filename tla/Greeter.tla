-------------------------------- MODULE Greeter --------------------------------
(***************************************************************************)
(* The Greeter service (main.go) as its clients meet it: the process that  *)
(* starts, waits for nothing but the database and may die at any moment,   *)
(* and the calls of Echo in flight.  A call has two ends: what the client  *)
(* knows (`answer`) and what the server does (`stage`); a client that has  *)
(* given up no longer hears of a handler that goes on.                     *)
(*                                                                         *)
(* Kubernetes, which starts the process again, the gateway in front of it  *)
(* and PostgreSQL are external.                                            *)
(***************************************************************************)
EXTENDS Naturals, Sequences, FiniteSets

CONSTANTS Messages, MaxCalls, MaxOutages    \* bounds: calls of Echo, stops of the process or the database

ASSUME GreeterAssumption == MaxCalls \in Nat /\ MaxOutages \in Nat

VARIABLES process,   \* "down", "starting", "serving"
          dbUp,      \* PostgreSQL answers
          outages,   \* stops so far
          calls      \* the calls of Echo, in the order they were sent

serverVars == <<process, dbUp, outages>>

Stages == {"sent", "running", "written", "finished", "lost"}

\* A deployment begins without a server, and the database may not be up yet.
GreeterInit ==
  /\ process = "down"
  /\ dbUp \in BOOLEAN
  /\ outages = 0
  /\ calls = << >>

-----------------------------------------------------------------------------
(* The process.                                                            *)

\* The container is started (again).
Start ==
  /\ process = "down"
  /\ process' = "starting"
  /\ UNCHANGED <<dbUp, outages, calls>>

\* main: db.New succeeds, the services are registered and Serve begins; or
\* logger.Fatal ends the process.  The mutant logs the error and goes on without.
ConnectDb_Regardless ==
  /\ process = "starting"
  /\ process' = IF dbUp THEN "serving" ELSE "no database"
  /\ UNCHANGED <<dbUp, outages, calls>>
ConnectDb ==
  /\ process = "starting"
  /\ process' = IF dbUp THEN "serving" ELSE "down"
  /\ UNCHANGED <<dbUp, outages, calls>>

Waiting(i) == calls[i].answer = "waiting"
InServer(i) == calls[i].stage \in {"sent", "running", "written"}

\* What a handler has done so far, a row or a line of the log, remains.
Crash ==
  /\ process # "down"
  /\ outages < MaxOutages
  /\ outages' = outages + 1
  /\ process' = "down"
  /\ calls' = [i \in DOMAIN calls |->
                 IF InServer(i) THEN [calls[i] EXCEPT !.stage = "lost"] ELSE calls[i]]
  /\ UNCHANGED dbUp

DbFails ==
  /\ dbUp
  /\ outages < MaxOutages
  /\ outages' = outages + 1
  /\ dbUp' = FALSE
  /\ UNCHANGED <<process, calls>>

DbReturns ==
  /\ ~dbUp
  /\ dbUp' = TRUE
  /\ UNCHANGED <<process, outages, calls>>

-----------------------------------------------------------------------------
(* Echo.                                                                   *)

NewCall(client, message) ==
  [client |-> client, message |-> message, answer |-> "waiting", reply |-> "none",
   stage |-> "sent", row |-> FALSE, logged |-> FALSE]

\* The interceptors pass Echo, which is public, and the handler begins.
BeginEcho(i) ==
  /\ process = "serving"
  /\ calls[i].stage = "sent"
  /\ calls' = [calls EXCEPT ![i].stage = "running"]
  /\ UNCHANGED serverVars

\* WriteEchoRequest returns no error, and the row is there.
WriteEchoRequest(i) ==
  /\ process = "serving" /\ dbUp
  /\ calls[i].stage = "running"
  /\ calls' = [calls EXCEPT ![i].stage = "written", ![i].row = TRUE]
  /\ UNCHANGED serverVars

\* It returns an error: the database is down, or the context is over because the
\* client gave up.  The INSERT may have been committed before.  The mutant forgets the line.
LogFailure_Silent(call, committed) == [call EXCEPT !.stage = "written", !.row = committed]
LogFailure(call, committed) == [call EXCEPT !.stage = "written", !.row = committed, !.logged = TRUE]

FailEchoRequest(i) ==
  /\ process = "serving" /\ (~dbUp \/ ~Waiting(i))
  /\ calls[i].stage = "running"
  /\ \E committed \in BOOLEAN : calls' = [calls EXCEPT ![i] = LogFailure(calls[i], committed)]
  /\ UNCHANGED serverVars

\* `return reply, nil`, whatever became of the row.
Reply(i) ==
  /\ process = "serving"
  /\ calls[i].stage = "written"
  /\ calls' = [calls EXCEPT ![i].stage = "finished",
                            ![i].answer = IF Waiting(i) THEN "reply" ELSE @,
                            ![i].reply = IF Waiting(i) THEN calls[i].message ELSE @]
  /\ UNCHANGED serverVars

\* The client learns that the process did not take its call, or died with it.
\* A call that met no server never reached one.
Refuse(i) ==
  /\ Waiting(i)
  /\ \/ calls[i].stage = "lost"
     \/ calls[i].stage = "sent" /\ process # "serving"
  /\ calls' = [calls EXCEPT ![i].answer = "error", ![i].stage = "lost"]
  /\ UNCHANGED serverVars

EchoStep(i) == BeginEcho(i) \/ WriteEchoRequest(i) \/ FailEchoRequest(i) \/ Reply(i) \/ Refuse(i)

ServerStep ==
  \/ Start
  \/ ConnectDb
  \/ Crash
  \/ DbFails
  \/ DbReturns
  \/ \E i \in DOMAIN calls : EchoStep(i)

-----------------------------------------------------------------------------
(* Properties.                                                             *)

(* A reply does not tell whether the row was written.  What the code owes  *)
(* is that nothing is lost without a trace: a call that was answered has   *)
(* its row or a line in the log.                                           *)
NoSilentLoss ==
  \A i \in DOMAIN calls : calls[i].answer = "reply" => calls[i].row \/ calls[i].logged

(* The service comes up and comes back by itself: whichever of the process *)
(* and the database is started first, and whatever stops while the other   *)
(* is starting, in the end it serves (main.go:101, where a process that    *)
(* finds no database ends itself, and is started again).                   *)
ServesAgain == <>[](process = "serving")
===============================================================================
