---------------------------- MODULE LoadTestProofs ----------------------------
(***************************************************************************)
(* Proofs about the counters of the load test, for any number of workers,  *)
(* calls and outages.  The workers count a call in several steps, and the  *)
(* server answers others meanwhile: SumsOK relates every counter to the    *)
(* set of calls it has counted so far.                                     *)
(***************************************************************************)
EXTENDS EchoSystemProofs, FiniteSetTheorems

\* The worker w has not yet taken note of the call i.
Awaits(w, i) == At(w, "waiting") /\ worker[w].call = i

\* The calls of workers with this answer that were counted as requests.
Counted(answer) == {i \in WorkerCalls(answer) : ~Awaits(calls[i].client, i)}

\* The replies in the slice of w, and those in latencies.
Sampled(w) == {i \in Counted("reply") : calls[i].client = w}
Merged == {i \in Counted("reply") : At(calls[i].client, "done")}

\* The workers between totalReqs.Add(1) and errCount.Add(1).
Failing == {w \in Workers : At(w, "failed")}

SumsOK ==
  /\ \A w \in Workers : worker[w].samples = Cardinality(Sampled(w))
  /\ latencies = Cardinality(Merged)
  /\ totalReqs = errCount + Cardinality(Failing) + Cardinality(Counted("reply"))
  /\ Cardinality(Counted("error")) <= errCount + Cardinality(Failing)

\* Who merges holds the mutex, and has read what is there.
MergeOK ==
  \A w \in Workers : At(w, "append") => latMu = w /\ worker[w].seen = latencies

ReportOK ==
  report.done => AllDone /\ report.total = totalReqs /\ report.errors = errCount
                         /\ report.samples = latencies

\* A call the context came before has no number.
TooLateOK == \A w \in Workers : At(w, "tooLate") => worker[w].call = 0

LoadTestInv == Inv /\ SumsOK /\ MergeOK /\ ReportOK /\ TooLateOK
-----------------------------------------------------------------------------
(* The sets that are counted.                                              *)

LEMMA FiniteCounts ==
  ASSUME TypeOK
  PROVE  /\ \A answer : IsFiniteSet(WorkerCalls(answer)) /\ IsFiniteSet(Counted(answer))
         /\ \A w : IsFiniteSet(Sampled(w))
         /\ IsFiniteSet(Merged) /\ IsFiniteSet(Failing)
<1>1. IsFiniteSet(DOMAIN calls)
  <2>1. Len(calls) \in Int /\ DOMAIN calls = 1 .. Len(calls)
    BY DEF TypeOK
  <2> QED
    BY <2>1, FS_Interval
<1>2. ASSUME NEW S, S \subseteq DOMAIN calls
      PROVE  IsFiniteSet(S)
  BY <1>1, <1>2, FS_Subset
<1>3. \A answer : WorkerCalls(answer) \subseteq DOMAIN calls /\ Counted(answer) \subseteq DOMAIN calls
  BY DEF Counted, WorkerCalls
<1>4. Merged \subseteq DOMAIN calls /\ \A w : Sampled(w) \subseteq DOMAIN calls
  BY <1>3 DEF Merged, Sampled
<1>5. IsFiniteSet(Failing)
  BY LoadTestAssumption, FS_Subset DEF Failing
<1> QED
  BY <1>2, <1>3, <1>4, <1>5

\* A call its worker has counted has its answer for good.
LEMMA CountedIsAnswered ==
  ASSUME Inv, NEW i \in DOMAIN calls, calls[i].client \in Workers, ~Awaits(calls[i].client, i)
  PROVE  calls[i].answer # "waiting"
  BY DEF Inv, WorkersOK, Awaits, Waiting

\* The server answers, or a worker gives up, or the form calls: nothing is counted.
LEMMA CountsStay ==
  ASSUME Inv, UNCHANGED worker,
         NoneSent \/ \E k : OneSent(k) /\ k.client \notin Workers,
         NEW answer \in {"reply", "error"}
  PROVE  /\ Counted(answer)' = Counted(answer)
         /\ \A i \in Counted(answer) : calls'[i].client = calls[i].client
<1>1. CASE NoneSent
  <2>1. DOMAIN calls' = DOMAIN calls /\ \A i \in DOMAIN calls : Evolves(calls[i], calls'[i])
    BY <1>1, CallsStay DEF Inv, NoneSent
  <2>2. ASSUME NEW i \in DOMAIN calls
        PROVE  /\ calls'[i].client = calls[i].client
               /\ i \in Counted(answer)' <=> i \in Counted(answer)
    <3>1. calls'[i].client = calls[i].client
      BY <2>1 DEF Evolves
    <3>2. Awaits(calls[i].client, i)' <=> Awaits(calls[i].client, i)
      BY <3>1 DEF Awaits, At
    <3>3. CASE calls[i].client \in Workers /\ ~Awaits(calls[i].client, i)
      <4>1. calls'[i].answer = calls[i].answer
        BY <2>1, <3>3, CountedIsAnswered DEF Evolves
      <4> QED
        BY <2>1, <3>1, <3>2, <4>1 DEF Counted, WorkerCalls
    <3>4. CASE ~(calls[i].client \in Workers /\ ~Awaits(calls[i].client, i))
      BY <3>1, <3>2, <3>4 DEF Counted, WorkerCalls
    <3> QED
      BY <3>1, <3>3, <3>4
  <2>3. Counted(answer) \subseteq DOMAIN calls /\ Counted(answer)' \subseteq DOMAIN calls
    BY <2>1 DEF Counted, WorkerCalls
  <2> QED
    BY <2>2, <2>3
<1>2. ASSUME NEW k, OneSent(k), k.client \notin Workers
      PROVE  /\ Counted(answer)' = Counted(answer)
             /\ \A i \in Counted(answer) : calls'[i].client = calls[i].client
  <2>1. /\ DOMAIN calls = 1 .. Len(calls) /\ DOMAIN calls' = 1 .. Len(calls')
        /\ Len(calls') = Len(calls) + 1 /\ Len(calls) \in Nat
        /\ calls'[Len(calls')] = k
        /\ \A i \in DOMAIN calls : calls'[i] = calls[i]
    BY <1>2, SentCalls DEF Inv, TypeOK
  <2>2. Len(calls') \notin Counted(answer)'
    BY <1>2, <2>1 DEF Counted, WorkerCalls
  <2>3. Counted(answer) \subseteq DOMAIN calls /\ Counted(answer)' \subseteq DOMAIN calls
    BY <2>1, <2>2 DEF Counted, WorkerCalls
  <2>4. \A i \in DOMAIN calls : i \in Counted(answer)' <=> i \in Counted(answer)
    BY <2>1 DEF Counted, WorkerCalls, Awaits, At
  <2> QED
    BY <2>1, <2>3, <2>4 DEF Counted, WorkerCalls
<1> QED
  BY <1>1, <1>2

\* Then the sums remain right.
LEMMA SumsStay ==
  ASSUME Inv, SumsOK, MergeOK, ReportOK,
         NoneSent \/ \E k : OneSent(k) /\ k.client \notin Workers, UNCHANGED loadVars
  PROVE  SumsOK' /\ MergeOK' /\ ReportOK'
<1>1. UNCHANGED <<worker, totalReqs, errCount, latencies, latMu, report>>
  BY DEF loadVars
<1>2. /\ Counted("reply")' = Counted("reply") /\ Counted("error")' = Counted("error")
      /\ \A i \in Counted("reply") : calls'[i].client = calls[i].client
  BY <1>1, CountsStay
<1>3. /\ Merged' = Merged /\ Failing' = Failing
      /\ \A w \in Workers : Sampled(w)' = Sampled(w)
  BY <1>1, <1>2 DEF Merged, Failing, Sampled, At
<1>4. SumsOK'
  BY <1>1, <1>2, <1>3 DEF SumsOK
<1> QED
  BY <1>1, <1>4 DEF MergeOK, ReportOK, AllDone, At

-----------------------------------------------------------------------------
(* The steps of a worker.                                                  *)

\* A worker moves that awaits no answer, before or after.
LEMMA MovedCounts ==
  ASSUME Inv, NEW w \in Workers, NEW pc \in Points \ {"waiting"}, NEW i, NEW samples, NEW seen,
         Becomes(w, pc, i, samples, seen), ~At(w, "waiting"), UNCHANGED calls
  PROVE  /\ Counted("reply")' = Counted("reply") /\ Counted("error")' = Counted("error")
         /\ \A v \in Workers : Sampled(v)' = Sampled(v)
         /\ \A v \in Workers \ {w} : \A at : At(v, at)' <=> At(v, at)
         /\ ~At(w, "done") /\ pc # "done" => Merged' = Merged
         /\ ~At(w, "failed") /\ pc # "failed" => Failing' = Failing
<1>1. \A v \in Workers \ {w} : \A at : At(v, at)' <=> At(v, at)
  BY DEF Becomes, At
<1>2. \A at : At(w, at)' <=> pc = at
  BY DEF Becomes, At
<1>3. \A v \in Workers, j \in DOMAIN calls : Awaits(v, j)' <=> Awaits(v, j)
  BY <1>2 DEF Awaits, At, Becomes
<1>4. Counted("reply")' = Counted("reply") /\ Counted("error")' = Counted("error")
  BY <1>3 DEF Counted, WorkerCalls
<1>5. \A v \in Workers : Sampled(v)' = Sampled(v)
  BY <1>4 DEF Sampled
<1>6. ~At(w, "done") /\ pc # "done" => Merged' = Merged
  <2>1. \A j \in Counted("reply") : calls[j].client \in Workers
    BY DEF Counted, WorkerCalls
  <2> QED
    BY <1>1, <1>2, <1>4, <2>1 DEF Merged
<1>7. ~At(w, "failed") /\ pc # "failed" => Failing' = Failing
  BY <1>1, <1>2 DEF Failing
<1> QED
  BY <1>1, <1>4, <1>5, <1>6, <1>7

\* ReportOK is about a state no worker leaves.
LEMMA NoReportYet ==
  ASSUME ReportOK, NEW w \in Workers, ~At(w, "done"), UNCHANGED report
  PROVE  ~report.done /\ ReportOK'
  BY DEF ReportOK, AllDone, At
LEMMA SelectSums ==
  ASSUME LoadTestInv, NEW w \in Workers, Select(w)
  PROVE  SumsOK' /\ MergeOK' /\ ReportOK'
<1>1. Goto(w, "merge") \/ Goto(w, "echo")
  BY DEF Select
<1>2. PICK pc \in {"merge", "echo"} :
        Becomes(w, pc, worker[w].call, worker[w].samples, worker[w].seen)
  BY <1>1, GotoBecomes DEF LoadTestInv, Inv, Points
<1>3. At(w, "select") /\ UNCHANGED <<totalReqs, errCount, latencies, latMu, report, calls>>
  BY DEF Select
<1>4. /\ Counted("reply")' = Counted("reply") /\ Counted("error")' = Counted("error")
      /\ \A v \in Workers : Sampled(v)' = Sampled(v)
      /\ Merged' = Merged /\ Failing' = Failing
  BY <1>2, <1>3, MovedCounts DEF LoadTestInv, Points, At
<1>5. \A v \in Workers : worker'[v].samples = worker[v].samples
  BY <1>2 DEF Becomes
<1>6. SumsOK'
  BY <1>3, <1>4, <1>5 DEF LoadTestInv, SumsOK
<1>7. MergeOK'
  BY <1>2, <1>3 DEF LoadTestInv, MergeOK, Becomes, At
<1>8. ReportOK'
  BY <1>3, NoReportYet DEF LoadTestInv, At
<1> QED
  BY <1>6, <1>7, <1>8

LEMMA SendTooLateSums ==
  ASSUME LoadTestInv, NEW w \in Workers, SendTooLate(w)
  PROVE  SumsOK' /\ MergeOK' /\ ReportOK'
<1>1. Becomes(w, "tooLate", 0, worker[w].samples, worker[w].seen)
  BY SendBecomes DEF SendTooLate, LoadTestInv, Inv, Points
<1>2. At(w, "echo") /\ UNCHANGED <<totalReqs, errCount, latencies, latMu, report, calls>>
  BY DEF SendTooLate
<1>3. /\ Counted("reply")' = Counted("reply") /\ Counted("error")' = Counted("error")
      /\ \A v \in Workers : Sampled(v)' = Sampled(v)
      /\ Merged' = Merged /\ Failing' = Failing
  BY <1>1, <1>2, MovedCounts DEF LoadTestInv, Points, At
<1>4. \A v \in Workers : worker'[v].samples = worker[v].samples
  BY <1>1 DEF Becomes
<1>5. SumsOK'
  BY <1>2, <1>3, <1>4 DEF LoadTestInv, SumsOK
<1>6. MergeOK'
  BY <1>1, <1>2 DEF LoadTestInv, MergeOK, Becomes, At
<1>7. ReportOK'
  BY <1>2, NoReportYet DEF LoadTestInv, At
<1> QED
  BY <1>5, <1>6, <1>7

\* A call that is sent is awaited, and not counted.
LEMMA SendSums ==
  ASSUME LoadTestInv, NEW w \in Workers, Send(w), UNCHANGED formVars
  PROVE  SumsOK' /\ MergeOK' /\ ReportOK'
<1>1. Becomes(w, "waiting", Len(calls'), worker[w].samples, worker[w].seen)
  BY SendInv DEF LoadTestInv
<1>2. PICK m \in Messages : OneSent(NewCall(w, m))
  BY SendInv DEF LoadTestInv
<1>3. /\ DOMAIN calls = 1 .. Len(calls) /\ DOMAIN calls' = 1 .. Len(calls')
      /\ Len(calls') = Len(calls) + 1 /\ Len(calls) \in Nat
      /\ calls'[Len(calls')] = NewCall(w, m)
      /\ \A i \in DOMAIN calls : calls'[i] = calls[i]
  BY <1>2, SentCalls DEF LoadTestInv, Inv, TypeOK
<1>4. At(w, "echo") /\ UNCHANGED <<totalReqs, errCount, latencies, latMu, report>>
  BY DEF Send
<1>5. \A v \in Workers, i \in DOMAIN calls : Awaits(v, i)' <=> Awaits(v, i)
  <2>1. ASSUME NEW i \in DOMAIN calls PROVE ~Awaits(w, i) /\ ~Awaits(w, i)'
    BY <1>1, <1>3, <1>4 DEF Awaits, At, Becomes
  <2>2. ASSUME NEW v \in Workers \ {w}, NEW i PROVE Awaits(v, i)' <=> Awaits(v, i)
    BY <1>1 DEF Awaits, At, Becomes
  <2> QED
    BY <2>1, <2>2
<1>6. ASSUME NEW answer
      PROVE  Counted(answer)' = Counted(answer)
  <2>1. Len(calls') \notin Counted(answer)'
    BY <1>1, <1>3 DEF Counted, Awaits, At, Becomes, NewCall
  <2>2. Counted(answer) \subseteq DOMAIN calls /\ Counted(answer)' \subseteq DOMAIN calls
    BY <1>3, <2>1 DEF Counted, WorkerCalls
  <2>3. \A i \in DOMAIN calls : i \in Counted(answer)' <=> i \in Counted(answer)
    BY <1>3, <1>5 DEF Counted, WorkerCalls
  <2> QED
    BY <2>2, <2>3
<1>7. \A i \in Counted("reply") : calls'[i] = calls[i] /\ calls[i].client \in Workers
  BY <1>3 DEF Counted, WorkerCalls
<1>8. \A v \in Workers : /\ At(v, "done")' <=> At(v, "done")
                         /\ At(v, "failed")' <=> At(v, "failed")
                         /\ At(v, "append")' <=> At(v, "append")
                         /\ worker'[v].samples = worker[v].samples
                         /\ worker'[v].seen = worker[v].seen
  BY <1>1, <1>4 DEF At, Becomes
<1>9. /\ \A v \in Workers : Sampled(v)' = Sampled(v)
      /\ Merged' = Merged /\ Failing' = Failing
  BY <1>6, <1>7, <1>8 DEF Sampled, Merged, Failing
<1>10. SumsOK'
  BY <1>4, <1>6, <1>8, <1>9 DEF LoadTestInv, SumsOK
<1>11. MergeOK'
  BY <1>4, <1>8 DEF LoadTestInv, MergeOK
<1>12. ReportOK'
  BY <1>4, NoReportYet DEF LoadTestInv, At
<1> QED
  BY <1>10, <1>11, <1>12

\* A worker that saw its call end counts it, and its latency if there is one.
LEMMA CountRequestSums ==
  ASSUME LoadTestInv, NEW w \in Workers, CountRequest(w)
  PROVE  SumsOK' /\ MergeOK' /\ ReportOK'
<1> DEFINE i == worker[w].call
           pc == IF Succeeded(w) THEN "select" ELSE "failed"
           n == IF Succeeded(w) THEN worker[w].samples + 1 ELSE worker[w].samples
<1>1. Becomes(w, pc, i, n, worker[w].seen)
  BY CountBecomes DEF LoadTestInv, Inv
<1>2. /\ At(w, "waiting") \/ At(w, "tooLate")
      /\ totalReqs' = totalReqs + 1
      /\ UNCHANGED <<errCount, latencies, latMu, report, calls>>
  BY DEF CountRequest
<1>3. TypeOK /\ SumsOK /\ totalReqs \in Nat /\ errCount \in Nat
  BY DEF LoadTestInv, Inv, TypeOK
<1>4. /\ Cardinality(Failing) \in Nat /\ IsFiniteSet(Failing)
      /\ \A answer : IsFiniteSet(Counted(answer)) /\ Cardinality(Counted(answer)) \in Nat
      /\ IsFiniteSet(Sampled(w)) /\ Cardinality(Sampled(w)) \in Nat
  BY <1>3, FiniteCounts, FS_CardinalityType
<1>5. w \notin Failing
  BY <1>2 DEF Failing, At
<1>6. \A v \in Workers : /\ At(v, "done")' <=> At(v, "done")
                         /\ At(v, "append")' <=> At(v, "append")
                         /\ worker'[v].seen = worker[v].seen
  BY <1>1, <1>2 DEF At, Becomes
<1>7. Failing' = IF Succeeded(w) THEN Failing ELSE Failing \cup {w}
  BY <1>1, <1>5 DEF Failing, At, Becomes
<1>8. Cardinality(Failing') = IF Succeeded(w) THEN Cardinality(Failing) ELSE Cardinality(Failing) + 1
  BY <1>4, <1>5, <1>7, FS_AddElement
<1>9. MergeOK' /\ ReportOK'
  <2>1. MergeOK'
    BY <1>2, <1>6 DEF LoadTestInv, MergeOK
  <2>2. ReportOK'
    BY <1>2, NoReportYet DEF LoadTestInv, At
  <2> QED
    BY <2>1, <2>2
<1>10. \A v \in Workers \ {w} : worker'[v].samples = worker[v].samples
  BY <1>1 DEF Becomes
<1>11. CASE At(w, "tooLate")
  <2>1. ~Succeeded(w) /\ ~At(w, "waiting") /\ ~At(w, "done")
    BY <1>2, <1>11 DEF LoadTestInv, TooLateOK, Succeeded, At
  <2>2. /\ Counted("reply")' = Counted("reply") /\ Counted("error")' = Counted("error")
        /\ \A v \in Workers : Sampled(v)' = Sampled(v)
        /\ Merged' = Merged
    BY <1>1, <1>2, <2>1, MovedCounts DEF LoadTestInv, Points
  <2>3. \A v \in Workers : worker'[v].samples = worker[v].samples
    BY <1>1, <1>10, <2>1 DEF Becomes
  <2>4. SumsOK'
    BY <1>2, <1>3, <1>4, <1>8, <2>1, <2>2, <2>3 DEF SumsOK
  <2> QED
    BY <1>9, <2>4
<1>12. CASE At(w, "waiting")
  <2>1. i \in DOMAIN calls /\ i # 0 /\ calls[i].client = w /\ calls[i] \in EchoCall
        /\ calls[i].answer # "waiting"
    BY <1>2, <1>12, CallType DEF LoadTestInv, Inv, WorkersOK, CountRequest, At, Waiting, TypeOK
  <2>2. Succeeded(w) <=> calls[i].answer = "reply"
    BY <2>1 DEF Succeeded
  <2>3. \A v \in Workers, j \in DOMAIN calls : Awaits(v, j)' <=> Awaits(v, j) /\ ~(v = w /\ j = i)
    BY <1>1, <1>12 DEF Awaits, At, Becomes
  <2>4. \A answer : Counted(answer)' = IF calls[i].answer = answer THEN Counted(answer) \cup {i}
                                                                  ELSE Counted(answer)
    BY <1>2, <2>1, <2>3 DEF Counted, WorkerCalls
  <2>5. \A answer : i \notin Counted(answer)
    BY <1>12, <2>1 DEF Counted, Awaits
  <2>6. Merged' = Merged
    BY <1>2, <1>6, <1>12, <2>1, <2>4 DEF Merged, At, Counted, WorkerCalls
  <2>7. \A v \in Workers \ {w} : Sampled(v)' = Sampled(v)
    BY <1>2, <2>1, <2>4 DEF Sampled
  <2>8. CASE calls[i].answer = "reply"
    <3>1. Counted("reply")' = Counted("reply") \cup {i} /\ Counted("error")' = Counted("error")
      BY <2>4, <2>8
    <3>2. Sampled(w)' = Sampled(w) \cup {i} /\ i \notin Sampled(w)
      BY <1>2, <2>1, <2>5, <3>1 DEF Sampled
    <3>3. /\ Cardinality(Counted("reply")') = Cardinality(Counted("reply")) + 1
          /\ Cardinality(Sampled(w)') = Cardinality(Sampled(w)) + 1
      BY <1>4, <2>5, <3>1, <3>2, FS_AddElement
    <3>4. worker'[w].samples = worker[w].samples + 1
      BY <1>1, <2>2, <2>8 DEF Becomes
    <3>5. \A v \in Workers : worker'[v].samples = Cardinality(Sampled(v)')
      BY <1>3, <1>10, <2>7, <3>3, <3>4 DEF SumsOK
    <3>6. SumsOK'
      BY <1>2, <1>3, <1>4, <1>8, <2>2, <2>6, <2>8, <3>1, <3>3, <3>5 DEF SumsOK
    <3> QED
      BY <1>9, <3>6
  <2>9. CASE calls[i].answer = "error"
    <3>1. Counted("reply")' = Counted("reply") /\ Counted("error")' = Counted("error") \cup {i}
      BY <2>4, <2>9
    <3>2. Sampled(w)' = Sampled(w)
      BY <1>2, <3>1 DEF Sampled
    <3>3. Cardinality(Counted("error")') = Cardinality(Counted("error")) + 1
      BY <1>4, <2>5, <3>1, FS_AddElement
    <3>4. worker'[w].samples = worker[w].samples
      BY <1>1, <2>2, <2>9 DEF Becomes
    <3>5. \A v \in Workers : worker'[v].samples = Cardinality(Sampled(v)')
      BY <1>3, <1>10, <2>7, <3>2, <3>4 DEF SumsOK
    <3>6. SumsOK'
      BY <1>2, <1>3, <1>4, <1>8, <2>2, <2>6, <2>9, <3>1, <3>3, <3>5 DEF SumsOK
    <3> QED
      BY <1>9, <3>6
  <2> QED
    BY <2>1, <2>8, <2>9 DEF EchoCall
<1> QED
  BY <1>2, <1>11, <1>12
\* The error is counted, and its worker is no longer about to.
LEMMA CountErrorSums ==
  ASSUME LoadTestInv, NEW w \in Workers, CountError(w)
  PROVE  SumsOK' /\ MergeOK' /\ ReportOK'
<1>1. Becomes(w, "select", worker[w].call, worker[w].samples, worker[w].seen)
  BY GotoBecomes DEF CountError, LoadTestInv, Inv, Points
<1>2. /\ At(w, "failed") /\ errCount' = errCount + 1
      /\ UNCHANGED <<totalReqs, latencies, latMu, report, calls>>
  BY DEF CountError
<1>3. TypeOK /\ SumsOK /\ totalReqs \in Nat /\ errCount \in Nat
  BY DEF LoadTestInv, Inv, TypeOK
<1>4. /\ Counted("reply")' = Counted("reply") /\ Counted("error")' = Counted("error")
      /\ \A v \in Workers : Sampled(v)' = Sampled(v)
      /\ Merged' = Merged
  BY <1>1, <1>2, MovedCounts DEF LoadTestInv, Points, At
<1>5. Failing' = Failing \ {w} /\ w \in Failing
  BY <1>1, <1>2 DEF Failing, At, Becomes
<1>6. /\ IsFiniteSet(Failing) /\ Cardinality(Failing) \in Nat
      /\ Cardinality(Counted("reply")) \in Nat /\ Cardinality(Counted("error")) \in Nat
  BY <1>3, FiniteCounts, FS_CardinalityType
<1>7. Cardinality(Failing') = Cardinality(Failing) - 1
  BY <1>5, <1>6, FS_RemoveElement
<1>8. \A v \in Workers : worker'[v].samples = worker[v].samples
  BY <1>1 DEF Becomes
<1>9. SumsOK'
  BY <1>2, <1>3, <1>4, <1>6, <1>7, <1>8 DEF SumsOK
<1>10. MergeOK'
  BY <1>1, <1>2 DEF LoadTestInv, MergeOK, Becomes, At
<1>11. ReportOK'
  BY <1>2, NoReportYet DEF LoadTestInv, At
<1> QED
  BY <1>9, <1>10, <1>11

LEMMA LockSums ==
  ASSUME LoadTestInv, NEW w \in Workers, Lock(w)
  PROVE  SumsOK' /\ MergeOK' /\ ReportOK'
<1>1. Becomes(w, "append", worker[w].call, worker[w].samples, latencies)
  BY LockBecomes DEF LoadTestInv, Inv
<1>2. /\ At(w, "merge") /\ latMu = NoOne /\ latMu' = w
      /\ UNCHANGED <<totalReqs, errCount, latencies, report, calls>>
  BY DEF Lock, CanLock
<1>3. /\ Counted("reply")' = Counted("reply") /\ Counted("error")' = Counted("error")
      /\ \A v \in Workers : Sampled(v)' = Sampled(v)
      /\ Merged' = Merged /\ Failing' = Failing
  BY <1>1, <1>2, MovedCounts DEF LoadTestInv, Points, At
<1>4. \A v \in Workers : worker'[v].samples = worker[v].samples
  BY <1>1 DEF Becomes
<1>5. SumsOK'
  BY <1>2, <1>3, <1>4 DEF LoadTestInv, SumsOK
<1>6. \A v \in Workers : ~At(v, "append")
  BY <1>2, LoadTestAssumption DEF LoadTestInv, MergeOK
<1>7. MergeOK'
  BY <1>1, <1>2, <1>6 DEF MergeOK, Becomes, At
<1>8. ReportOK'
  BY <1>2, NoReportYet DEF LoadTestInv, At
<1> QED
  BY <1>5, <1>7, <1>8

\* The samples of the worker are added to what it read, which is all there is.
LEMMA MergeSums ==
  ASSUME LoadTestInv, NEW w \in Workers, Merge(w)
  PROVE  SumsOK' /\ MergeOK' /\ ReportOK'
<1>1. Becomes(w, "done", worker[w].call, worker[w].samples, worker[w].seen)
  BY GotoBecomes DEF Merge, LoadTestInv, Inv, Points
<1>2. /\ At(w, "append") /\ latencies' = worker[w].seen + worker[w].samples
      /\ UNCHANGED <<totalReqs, errCount, report, calls>>
  BY DEF Merge
<1>3. TypeOK /\ SumsOK
  BY DEF LoadTestInv, Inv
<1>4. worker[w].seen = latencies /\ latMu = w
  BY <1>2 DEF LoadTestInv, MergeOK
<1>5. /\ Counted("reply")' = Counted("reply") /\ Counted("error")' = Counted("error")
      /\ \A v \in Workers : Sampled(v)' = Sampled(v)
      /\ Failing' = Failing
  BY <1>1, <1>2, MovedCounts DEF LoadTestInv, Points, At
<1>6. Merged' = Merged \cup Sampled(w) /\ Merged \cap Sampled(w) = {}
  <2>1. \A i \in Counted("reply") : calls[i].client \in Workers
    BY DEF Counted, WorkerCalls
  <2>2. \A v \in Workers : At(v, "done")' <=> At(v, "done") \/ v = w
    BY <1>1 DEF At, Becomes
  <2>3. ~At(w, "done")
    BY <1>2 DEF At
  <2> QED
    BY <1>2, <1>5, <2>1, <2>2, <2>3 DEF Merged, Sampled
<1>7. Cardinality(Merged') = Cardinality(Merged) + Cardinality(Sampled(w))
  <2>1. /\ IsFiniteSet(Merged) /\ Cardinality(Merged) \in Nat
        /\ IsFiniteSet(Sampled(w)) /\ Cardinality(Sampled(w)) \in Nat
    BY <1>3, FiniteCounts, FS_CardinalityType
  <2>2. Cardinality(Merged \cap Sampled(w)) = 0
    BY <1>6, FS_EmptySet
  <2>3. Cardinality(Merged \cup Sampled(w)) =
          Cardinality(Merged) + Cardinality(Sampled(w)) - Cardinality(Merged \cap Sampled(w))
    BY <2>1, FS_Union
  <2> QED
    BY <1>6, <2>1, <2>2, <2>3
<1>8. \A v \in Workers : worker'[v].samples = worker[v].samples
  BY <1>1 DEF Becomes
<1>9. SumsOK'
  BY <1>2, <1>3, <1>4, <1>5, <1>7, <1>8 DEF SumsOK
<1>10. \A v \in Workers : ~At(v, "append")'
  BY <1>1, <1>4 DEF LoadTestInv, MergeOK, Becomes, At
<1>11. MergeOK'
  BY <1>10 DEF MergeOK
<1>12. ReportOK'
  BY <1>2, NoReportYet DEF LoadTestInv, At
<1> QED
  BY <1>9, <1>11, <1>12

LEMMA ClockSums ==
  ASSUME LoadTestInv, Expire \/ Report
  PROVE  SumsOK' /\ MergeOK' /\ ReportOK'
<1>1. UNCHANGED <<worker, totalReqs, errCount, latencies, latMu, calls>>
  BY DEF Expire, Report
<1>2. SumsOK' /\ MergeOK'
  BY <1>1 DEF LoadTestInv, SumsOK, MergeOK, Failing, Counted, Sampled, Merged, WorkerCalls,
              Awaits, At
<1>3. ReportOK'
  <2>1. CASE Expire
    BY <1>1, <2>1 DEF LoadTestInv, ReportOK, Expire, AllDone, At
  <2>2. CASE Report
    BY <1>1, <2>2 DEF ReportOK, Report, AllDone, At
  <2> QED
    BY <2>1, <2>2
<1> QED
  BY <1>2, <1>3

LEMMA WorkerTooLate ==
  ASSUME LoadTestInv, NEW w \in Workers, WorkerStep(w)
  PROVE  TooLateOK'
<1>1. CASE SendTooLate(w)
  <2>1. Becomes(w, "tooLate", 0, worker[w].samples, worker[w].seen)
    BY <1>1, SendBecomes DEF SendTooLate, LoadTestInv, Inv, Points
  <2> QED
    BY <2>1 DEF LoadTestInv, TooLateOK, Becomes, At
<1>2. CASE GiveUp(w)
  BY <1>2 DEF GiveUp, loadVars, LoadTestInv, TooLateOK, At
<1>3. CASE \E pc \in Points \ {"tooLate"} : \E i, samples, seen : Becomes(w, pc, i, samples, seen)
  BY <1>3 DEF LoadTestInv, TooLateOK, Becomes, At
<1>4. ASSUME NEW pc \in Points \ {"tooLate"}, Goto(w, pc) PROVE TooLateOK'
  BY <1>3, <1>4, GotoBecomes DEF LoadTestInv, Inv
<1>5. Select(w) \/ CountError(w) \/ Merge(w) => TooLateOK'
  BY <1>4 DEF Select, CountError, Merge, Points
<1>6. CASE CountRequest(w)
  BY <1>3, <1>6, CountBecomes DEF LoadTestInv, Inv, Points
<1>7. CASE Lock(w)
  BY <1>3, <1>7, LockBecomes DEF LoadTestInv, Inv, Points
<1>8. CASE Send(w)
  <2>1. Len(calls') \in Nat
    BY <1>8 DEF Send, LoadTestInv, Inv, TypeOK, NewCall
  <2>2. worker' = [worker EXCEPT ![w].pc = "waiting", ![w].call = Len(calls')]
    BY <1>8 DEF Send
  <2>3. Becomes(w, "waiting", Len(calls'), worker[w].samples, worker[w].seen)
    BY <2>1, <2>2, SendBecomes DEF LoadTestInv, Inv, Points
  <2> QED
    BY <1>3, <2>3 DEF Points
<1> QED
  BY <1>1, <1>2, <1>5, <1>6, <1>7, <1>8 DEF WorkerStep

-----------------------------------------------------------------------------
(* The invariant.                                                          *)

LEMMA InitLoadTestInv == Init => LoadTestInv
<1> SUFFICES ASSUME Init PROVE LoadTestInv
  OBVIOUS
<1>1. Inv
  BY InitInv
<1>2. /\ calls = << >> /\ totalReqs = 0 /\ errCount = 0 /\ latencies = 0 /\ report = NotYet
      /\ \A w \in Workers : worker[w].pc = "select" /\ worker[w].samples = 0
  BY DEF Init, GreeterInit, LoadInit
<1>3. /\ Failing = {} /\ Merged = {}
      /\ \A answer : Counted(answer) = {}
      /\ \A w : Sampled(w) = {}
  BY <1>2 DEF Failing, Merged, Counted, Sampled, WorkerCalls, At
<1>4. SumsOK
  <2>1. /\ Cardinality(Failing) = 0 /\ Cardinality(Merged) = 0
        /\ Cardinality(Counted("reply")) = 0 /\ Cardinality(Counted("error")) = 0
        /\ \A w : Cardinality(Sampled(w)) = 0
    BY <1>3, FS_EmptySet
  <2> QED
    BY <1>2, <2>1 DEF SumsOK, At
<1>5. MergeOK /\ ReportOK /\ TooLateOK
  BY <1>2 DEF MergeOK, ReportOK, TooLateOK, At, NotYet
<1> QED
  BY <1>1, <1>4, <1>5 DEF LoadTestInv

LEMMA NextLoadTestInv == LoadTestInv /\ [Next]_vars => LoadTestInv'
<1> SUFFICES ASSUME LoadTestInv, [Next]_vars PROVE LoadTestInv'
  OBVIOUS
<1>1. Inv'
  BY NextInv DEF LoadTestInv
<1>2. ASSUME UNCHANGED loadVars PROVE TooLateOK'
  BY <1>2 DEF loadVars, LoadTestInv, TooLateOK, At
<1>3. CASE ServerStep /\ UNCHANGED <<formVars, loadVars>>
  <2>1. SumsOK' /\ MergeOK' /\ ReportOK'
    BY <1>3, ServerCalls, SumsStay DEF LoadTestInv, Inv
  <2> QED
    BY <1>1, <1>2, <1>3, <2>1 DEF LoadTestInv
<1>4. CASE FormStep /\ UNCHANGED loadVars
  <2>1. NoneSent \/ \E k : OneSent(k) /\ k.client \notin Workers
    <3>1. CASE Submit
      <4>1. Sent(message) \in Messages
        BY <3>1, FormAssumption DEF LoadTestInv, Inv, TypeOK, Submit, Sent
      <4> QED
        BY <3>1, <4>1, NewCallSent, ClientsAssumption DEF LoadTestInv, Inv, Submit
    <3>2. CASE UNCHANGED calls
      BY <3>2, Unchanged DEF LoadTestInv, Inv
    <3> QED
      BY <1>4, <3>1, <3>2 DEF FormStep, Change, TakeEcho
  <2>2. SumsOK' /\ MergeOK' /\ ReportOK'
    BY <1>4, <2>1, SumsStay DEF LoadTestInv
  <2> QED
    BY <1>1, <1>2, <1>4, <2>2 DEF LoadTestInv
<1>5. CASE LoadStep /\ UNCHANGED formVars
  <2>1. CASE Expire \/ Report
    <3>1. TooLateOK'
      BY <2>1 DEF Expire, Report, LoadTestInv, TooLateOK, At
    <3> QED
      BY <1>1, <2>1, <3>1, ClockSums DEF LoadTestInv
  <2>2. ASSUME NEW w \in Workers, WorkerStep(w) PROVE LoadTestInv'
    <3>1. GiveUp(w) => SumsOK' /\ MergeOK' /\ ReportOK'
      BY GiveUpCalls, SumsStay DEF LoadTestInv, Inv, GiveUp
    <3>2. SumsOK' /\ MergeOK' /\ ReportOK'
      BY <1>5, <2>2, <3>1, SelectSums, SendSums, SendTooLateSums, CountRequestSums,
         CountErrorSums, LockSums, MergeSums DEF WorkerStep
    <3> QED
      BY <1>1, <2>2, <3>2, WorkerTooLate DEF LoadTestInv
  <2> QED
    BY <1>5, <2>1, <2>2 DEF LoadStep
<1>6. CASE UNCHANGED vars
  <2>1. UNCHANGED calls /\ UNCHANGED loadVars
    BY <1>6 DEF vars
  <2>2. NoneSent
    BY <2>1, Unchanged DEF LoadTestInv, Inv
  <2> QED
    BY <1>1, <1>2, <2>1, <2>2, SumsStay DEF LoadTestInv
<1> QED
  BY <1>3, <1>4, <1>5, <1>6 DEF Next

\* Between any two statements of any worker each counter is the size of the
\* set of calls it has counted so far (cmd/loadtest/main.go).
THEOREM LoadTestInvariance == SafetySpec => []LoadTestInv
  BY InitLoadTestInv, NextLoadTestInv, PTL DEF SafetySpec

\* The report adds up although its counters are written apart from each other.
THEOREM ReportIsRight == LoadSpec => []ReportAddsUp
<1>1. LoadTestInv => ReportAddsUp
  <2> SUFFICES ASSUME LoadTestInv, report.done PROVE
        /\ report.total - report.errors = report.samples
        /\ report.samples = Cardinality(WorkerCalls("reply"))
        /\ report.errors >= Cardinality(WorkerCalls("error"))
        /\ WorkerCalls("waiting") = {}
    BY DEF ReportAddsUp
  <2>1. /\ AllDone /\ report.total = totalReqs /\ report.errors = errCount
        /\ report.samples = latencies
    BY DEF LoadTestInv, ReportOK
  <2>2. TypeOK /\ WorkersOK /\ SumsOK /\ totalReqs \in Nat /\ errCount \in Nat
    BY DEF LoadTestInv, Inv, TypeOK
  <2>3. Failing = {} /\ \A w \in Workers : \A i : ~Awaits(w, i)
    BY <2>1 DEF AllDone, Failing, Awaits, At
  <2>4. \A answer : Counted(answer) = WorkerCalls(answer)
    BY <2>3 DEF Counted, WorkerCalls
  <2>5. Merged = WorkerCalls("reply")
    BY <2>1, <2>4 DEF Merged, AllDone, WorkerCalls
  <2>6. Cardinality(Failing) = 0
    BY <2>3, FS_EmptySet
  <2>7. Cardinality(WorkerCalls("reply")) \in Nat /\ Cardinality(WorkerCalls("error")) \in Nat
    BY <2>2, FiniteCounts, FS_CardinalityType
  <2>8. WorkerCalls("waiting") = {}
    BY <2>2, <2>3 DEF WorkersOK, WorkerCalls, Waiting, Awaits
  <2> QED
    BY <2>1, <2>2, <2>4, <2>5, <2>6, <2>7, <2>8 DEF SumsOK
<1> QED
  BY <1>1, LoadTestInvariance, PTL DEF LoadSpec

\* The percentile of at least one latency is one of them, and a higher
\* percentile is a later one.
LEMMA PercentileBounds ==
  ASSUME NEW n \in Nat \ {0}, NEW p \in {50, 90, 95, 99}, NEW q \in {50, 90, 95, 99}
  PROVE  /\ PercentileIndex(n, p) \in 0 .. n - 1
         /\ p <= q => PercentileIndex(n, p) <= PercentileIndex(n, q)
<1>1. /\ PercentileIndex(n, 50) = (n * 50) \div 100
      /\ PercentileIndex(n, 90) = (n * 90) \div 100
      /\ PercentileIndex(n, 95) = (n * 95) \div 100
      /\ PercentileIndex(n, 99) = (n * 99) \div 100
  BY DEF PercentileIndex
<1>2. /\ 0 <= (n * 50) \div 100 /\ (n * 50) \div 100 <= (n * 90) \div 100
      /\ (n * 90) \div 100 <= (n * 95) \div 100
      /\ (n * 95) \div 100 <= (n * 99) \div 100
      /\ (n * 99) \div 100 <= n - 1
      /\ (n * 50) \div 100 \in Int /\ (n * 90) \div 100 \in Int
      /\ (n * 95) \div 100 \in Int /\ (n * 99) \div 100 \in Int
  OBVIOUS
<1> QED
  BY <1>1, <1>2

\* No percentile of the report is read outside the slice of latencies.
THEOREM PercentilesAreMeasured == LoadSpec => []PercentilesInRange
<1>1. LoadTestInv => PercentilesInRange
  <2> SUFFICES ASSUME LoadTestInv, report.done, report.samples > 0,
                      NEW p \in {50, 90, 95, 99}, NEW q \in {50, 90, 95, 99}
      PROVE  /\ PercentileIndex(report.samples, p) \in 0 .. report.samples - 1
             /\ p <= q => PercentileIndex(report.samples, p) <= PercentileIndex(report.samples, q)
    BY DEF PercentilesInRange
  <2>1. report.samples \in Nat \ {0}
    BY DEF LoadTestInv, Inv, TypeOK
  <2> QED
    BY <2>1, PercentileBounds
<1> QED
  BY <1>1, LoadTestInvariance, PTL DEF LoadSpec
=============================================================================
