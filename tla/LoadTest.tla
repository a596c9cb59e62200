-------------------------------- MODULE LoadTest --------------------------------
(***************************************************************************)
(* The load test (cmd/loadtest/main.go): workers that call Echo until the  *)
(* context is over, count under atomics and merge their samples under a    *)
(* mutex, and a main goroutine that waits for them and reports.  A sample  *)
(* is counted, its nanoseconds are left out.                               *)
(***************************************************************************)
EXTENDS Greeter

CONSTANTS Workers, NoOne

\* The flag -concurrency is an int.
ASSUME LoadTestAssumption == NoOne \notin Workers /\ IsFiniteSet(Workers)

VARIABLES expired,     \* ctx.Done() is closed
          worker,      \* of each worker: pc, call (index), samples (len(local)), seen
          totalReqs,
          errCount,
          latencies,   \* len(latencies)
          latMu,       \* the worker that holds the mutex
          report       \* what main prints, once

loadVars == <<expired, worker, totalReqs, errCount, latencies, latMu, report>>

NotYet == [done |-> FALSE, total |-> 0, errors |-> 0, samples |-> 0]

LoadInit ==
  /\ expired = FALSE
  /\ worker = [w \in Workers |-> [pc |-> "select", call |-> 0, samples |-> 0, seen |-> 0]]
  /\ totalReqs = 0
  /\ errCount = 0
  /\ latencies = 0
  /\ latMu = NoOne
  /\ report = NotYet

At(w, pc) == worker[w].pc = pc
Goto(w, pc) == worker' = [worker EXCEPT ![w].pc = pc]

\* context.WithTimeout
Expire ==
  /\ ~expired
  /\ expired' = TRUE
  /\ UNCHANGED <<worker, totalReqs, errCount, latencies, latMu, report, calls, serverVars>>

Select(w) ==
  /\ At(w, "select")
  /\ Goto(w, IF expired THEN "merge" ELSE "echo")
  /\ UNCHANGED <<expired, totalReqs, errCount, latencies, latMu, report, calls, serverVars>>

\* The context of the calls, and the mutant that gives them context.Background().
CtxDone_Background == FALSE
CtxDone == expired

\* client.Echo: a call is sent, unless the context is over by now.
Send(w) ==
  /\ At(w, "echo") /\ ~CtxDone
  /\ Len(calls) < MaxCalls
  /\ \E m \in Messages : calls' = Append(calls, NewCall(w, m))
  /\ worker' = [worker EXCEPT ![w].pc = "waiting", ![w].call = Len(calls')]
  /\ UNCHANGED <<expired, totalReqs, errCount, latencies, latMu, report, serverVars>>

SendTooLate(w) ==
  /\ At(w, "echo") /\ CtxDone
  /\ worker' = [worker EXCEPT ![w].pc = "tooLate", ![w].call = 0]
  /\ UNCHANGED <<expired, totalReqs, errCount, latencies, latMu, report, calls, serverVars>>

\* The call ends with the context; the server may go on with it.
GiveUp(w) ==
  /\ At(w, "waiting") /\ CtxDone
  /\ Waiting(worker[w].call)
  /\ calls' = [calls EXCEPT ![worker[w].call].answer = "error"]
  /\ UNCHANGED <<loadVars, serverVars>>

\* reqErr == nil
Succeeded(w) == worker[w].call # 0 /\ calls[worker[w].call].answer = "reply"

\* Echo returns; totalReqs.Add(1), and a latency for the worker's own slice.
CountRequest(w) ==
  /\ \/ At(w, "waiting") /\ ~Waiting(worker[w].call)
     \/ At(w, "tooLate")
  /\ totalReqs' = totalReqs + 1
  /\ worker' = [worker EXCEPT ![w].pc = IF Succeeded(w) THEN "select" ELSE "failed",
                              ![w].samples = IF Succeeded(w) THEN @ + 1 ELSE @]
  /\ UNCHANGED <<expired, errCount, latencies, latMu, report, calls, serverVars>>

\* errCount.Add(1)
CountError(w) ==
  /\ At(w, "failed")
  /\ errCount' = errCount + 1
  /\ Goto(w, "select")
  /\ UNCHANGED <<expired, totalReqs, latencies, latMu, report, calls, serverVars>>

\* latMu.Lock(), and latencies is read.  The mutant does without the mutex.
CanLock_Always(w) == TRUE
CanLock(w) == latMu = NoOne
Lock(w) ==
  /\ At(w, "merge")
  /\ CanLock(w)
  /\ latMu' = w
  /\ worker' = [worker EXCEPT ![w].pc = "append", ![w].seen = latencies]
  /\ UNCHANGED <<expired, totalReqs, errCount, latencies, report, calls, serverVars>>

\* latencies = append(latencies, local...), latMu.Unlock(), and wg.Done() as the worker returns.
Merge(w) ==
  /\ At(w, "append")
  /\ latencies' = worker[w].seen + worker[w].samples
  /\ latMu' = NoOne
  /\ Goto(w, "done")
  /\ UNCHANGED <<expired, totalReqs, errCount, report, calls, serverVars>>

\* wg.Wait() returns, and main prints.
AllDone == \A w \in Workers : At(w, "done")
Report ==
  /\ AllDone
  /\ ~report.done
  /\ report' = [done |-> TRUE, total |-> totalReqs, errors |-> errCount, samples |-> latencies]
  /\ UNCHANGED <<expired, worker, totalReqs, errCount, latencies, latMu, calls, serverVars>>

\* The index of a percentile among n sorted latencies, and the mutant that counts from 1.
PercentileIndex_FromOne(n, p) == (n * p) \div 100 + 1
PercentileIndex(n, p) == (n * p) \div 100

WorkerStep(w) ==
  \/ Select(w) \/ Send(w) \/ SendTooLate(w) \/ GiveUp(w) \/ CountRequest(w)
  \/ CountError(w) \/ Lock(w) \/ Merge(w)

LoadStep == Expire \/ Report \/ \E w \in Workers : WorkerStep(w)

-----------------------------------------------------------------------------
(* Properties.                                                             *)

WorkerCalls(answer) == {i \in DOMAIN calls : calls[i].client \in Workers /\ calls[i].answer = answer}

(* The report adds up although the counters are written apart from each    *)
(* other: "Successful", computed from two of them, is the number of        *)
(* latencies merged and of replies the workers got, and every call that    *)
(* was sent is counted.                                                    *)
ReportAddsUp ==
  report.done =>
    /\ report.total - report.errors = report.samples
    /\ report.samples = Cardinality(WorkerCalls("reply"))
    /\ report.errors >= Cardinality(WorkerCalls("error"))
    /\ WorkerCalls("waiting") = {}

(* The percentiles are latencies that were measured, from one sample on,   *)
(* and in order.                                                           *)
PercentilesInRange ==
  report.done /\ report.samples > 0 =>
    \A p, q \in {50, 90, 95, 99} :
      /\ PercentileIndex(report.samples, p) \in 0 .. report.samples - 1
      /\ p <= q => PercentileIndex(report.samples, p) <= PercentileIndex(report.samples, q)

(* The load test ends once its time is over, whatever the server does.     *)
LoadTestEnds == <>report.done
===============================================================================
