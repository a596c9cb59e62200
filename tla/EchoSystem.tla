------------------------------- MODULE EchoSystem -------------------------------
(***************************************************************************)
(* The Greeter service with its two kinds of clients at once: the form of  *)
(* the web application and the workers of the load test.  They share the   *)
(* process and its database and meet nowhere else.                         *)
(***************************************************************************)
EXTENDS EchoForm, LoadTest

\* A worker has a connection of its own, and none of the page's.
ASSUME ClientsAssumption == Form \notin Workers

vars == <<process, dbUp, outages, calls, formVars, loadVars>>

EchoCall == [client : Workers \cup {Form}, message : Messages,
             answer : {"waiting", "reply", "error"}, reply : Messages \cup {"none"},
             stage : Stages, row : BOOLEAN, logged : BOOLEAN]

LoadWorker == [pc : {"select", "echo", "waiting", "tooLate", "failed", "merge", "append", "done"},
               call : Nat, samples : Nat, seen : Nat]

Init == GreeterInit /\ FormInit /\ LoadInit

Next ==
  \/ ServerStep /\ UNCHANGED <<formVars, loadVars>>
  \/ FormStep /\ UNCHANGED loadVars
  \/ LoadStep /\ UNCHANGED formVars

(* Kubernetes restarts the container and the database comes back; a call   *)
(* the server has taken is handled to its end and its answer or failure    *)
(* reaches the client; goroutines run, the context ends in time and ends   *)
(* the calls made with it; the page runs its callbacks.  Nothing makes a   *)
(* person submit the form, and nothing stops the process or the database.  *)
LoadFairness ==
  /\ WF_vars((Expire \/ Report) /\ UNCHANGED formVars)
  /\ \A w \in Workers : WF_vars(WorkerStep(w) /\ UNCHANGED formVars)

Fairness ==
  /\ WF_vars((Start \/ ConnectDb) /\ UNCHANGED <<formVars, loadVars>>)
  /\ WF_vars(DbReturns /\ UNCHANGED <<formVars, loadVars>>)
  /\ \A i \in 1 .. MaxCalls :
       WF_vars(i \in DOMAIN calls /\ EchoStep(i) /\ UNCHANGED <<formVars, loadVars>>)
  /\ WF_vars(TakeEcho /\ UNCHANGED loadVars)
  /\ LoadFairness

SafetySpec == Init /\ [][Next]_vars

Spec == SafetySpec /\ Fairness

\* The load test against a server, or a database, that may hang.
LoadSpec == SafetySpec /\ LoadFairness

\* Every variable has its type; the form and the workers point at calls there are.
TypeOK ==
  /\ process \in {"down", "starting", "serving"}
  /\ dbUp \in BOOLEAN
  /\ outages \in 0 .. MaxOutages
  /\ calls \in Seq(EchoCall) /\ Len(calls) <= MaxCalls
  /\ message \in Texts
  /\ response \in Messages \cup {"none"}
  /\ error \in BOOLEAN /\ loading \in BOOLEAN
  /\ pending \in 0 .. Len(calls)
  /\ expired \in BOOLEAN
  /\ worker \in [Workers -> LoadWorker]
  /\ \A w \in Workers : worker[w].call <= Len(calls)
  /\ totalReqs \in Nat /\ errCount \in Nat /\ latencies \in Nat
  /\ latMu \in Workers \cup {NoOne}
  /\ report \in [done : BOOLEAN, total : Nat, errors : Nat, samples : Nat]
===============================================================================
