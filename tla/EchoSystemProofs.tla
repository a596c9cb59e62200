--------------------------- MODULE EchoSystemProofs ---------------------------
(***************************************************************************)
(* Proofs about the calls of Echo and the form that makes them, for any    *)
(* messages, texts and workers, and any number of calls and outages.  What *)
(* the clients rely on is said once, in Evolves: an answer is given once,  *)
(* and a call keeps its client and its message.  LoadTestProofs builds on  *)
(* the same lemmas.                                                        *)
(***************************************************************************)
EXTENDS EchoSystem, TLAPS

\* A handler that got past the INSERT left the row or a line in the log, and
\* only a handler that finished has answered, with the message it was sent.
CallOK(k) ==
  /\ k.stage \in {"written", "finished"} => k.row \/ k.logged
  /\ k.answer = "reply" => k.stage = "finished" /\ k.reply = k.message

CallsOK == \A i \in DOMAIN calls : CallOK(calls[i])

\* What a step may make of the call k.
Evolves(k, l) ==
  /\ l \in EchoCall /\ CallOK(l)
  /\ l.client = k.client /\ l.message = k.message
  /\ k.answer # "waiting" => l.answer = k.answer /\ l.reply = k.reply

\* A step that sends no call.
NoneSent ==
  /\ calls' \in Seq(EchoCall)
  /\ Len(calls') = Len(calls)
  /\ \A i \in DOMAIN calls : Evolves(calls[i], calls'[i])

\* A step that sends the call k and leaves the others alone.
OneSent(k) ==
  /\ k \in EchoCall /\ k.answer = "waiting" /\ k.stage = "sent"
  /\ calls' = Append(calls, k)
  /\ Len(calls) < MaxCalls

\* A worker waits for a call of its own, and a call of a worker that has no
\* answer is the one its worker waits for.
WorkersOK ==
  /\ \A w \in Workers : At(w, "waiting") =>
       /\ worker[w].call \in DOMAIN calls
       /\ calls[worker[w].call].client = w
  /\ \A i \in DOMAIN calls : calls[i].client \in Workers /\ Waiting(i) =>
       At(calls[i].client, "waiting") /\ worker[calls[i].client].call = i

\* What the form shows when its latest call is the one numbered last.
Shows(last) ==
  IF pending # 0 THEN last = pending /\ response = "none" /\ ~error
  ELSE IF calls[last].answer = "reply" THEN response = calls[last].message /\ ~error
  ELSE error /\ response = "none"

FormOK ==
  /\ OneCallInFlight
  /\ pending # 0 => pending \in FormCalls
  /\ FormCalls = {} => response = "none" /\ ~error
  /\ FormCalls # {} =>
       \E last \in FormCalls : (\A i \in FormCalls : i <= last) /\ Shows(last)

Inv == TypeOK /\ CallsOK /\ WorkersOK /\ FormOK
-----------------------------------------------------------------------------
(* What the steps do to the calls.                                         *)

LEMMA Unchanged ==
  ASSUME TypeOK, CallsOK, UNCHANGED calls
  PROVE  NoneSent
  BY DEF TypeOK, CallsOK, NoneSent, Evolves

\* One call changes.
LEMMA Updated ==
  ASSUME TypeOK, CallsOK, NEW i \in DOMAIN calls, NEW l, Evolves(calls[i], l),
         calls' = [calls EXCEPT ![i] = l]
  PROVE  /\ NoneSent
         /\ calls'[i] = l /\ \A j \in DOMAIN calls \ {i} : calls'[j] = calls[j]
<1>1. calls \in Seq(EchoCall) /\ l \in EchoCall
  BY DEF TypeOK, Evolves
<1>2. calls' \in Seq(EchoCall) /\ Len(calls') = Len(calls)
  BY <1>1
<1>3. calls'[i] = l /\ \A j \in DOMAIN calls \ {i} : calls'[j] = calls[j]
  BY <1>1
<1>4. \A j \in DOMAIN calls : Evolves(calls[j], calls[j])
  BY <1>1 DEF CallsOK, Evolves
<1> QED
  BY <1>2, <1>3, <1>4 DEF NoneSent

LEMMA CallType ==
  ASSUME TypeOK, CallsOK, NEW i \in DOMAIN calls
  PROVE  calls[i] \in EchoCall /\ CallOK(calls[i])
  BY DEF TypeOK, CallsOK

LEMMA EchoCalls ==
  ASSUME TypeOK, CallsOK, NEW i \in DOMAIN calls, EchoStep(i)
  PROVE  NoneSent
<1> DEFINE k == calls[i]
<1>1. k \in EchoCall /\ CallOK(k)
  BY CallType
<1>2. CASE BeginEcho(i)
  <2> DEFINE l == [k EXCEPT !.stage = "running"]
  <2>1. Evolves(k, l)
    BY <1>1, <1>2 DEF BeginEcho, Evolves, CallOK, EchoCall, Stages
  <2>2. calls' = [calls EXCEPT ![i] = l]
    BY <1>2 DEF BeginEcho
  <2> QED
    BY <2>1, <2>2, Updated
<1>3. CASE WriteEchoRequest(i)
  <2> DEFINE l == [k EXCEPT !.stage = "written", !.row = TRUE]
  <2>1. Evolves(k, l)
    BY <1>1, <1>3 DEF WriteEchoRequest, Evolves, CallOK, EchoCall, Stages
  <2>2. calls' = [calls EXCEPT ![i] = l]
    BY <1>3 DEF WriteEchoRequest
  <2> QED
    BY <2>1, <2>2, Updated
<1>4. CASE FailEchoRequest(i)
  <2>1. PICK committed \in BOOLEAN : calls' = [calls EXCEPT ![i] = LogFailure(k, committed)]
    BY <1>4 DEF FailEchoRequest
  <2>2. Evolves(k, LogFailure(k, committed))
    BY <1>1, <1>4 DEF FailEchoRequest, LogFailure, Evolves, CallOK, EchoCall, Stages
  <2> QED
    BY <2>1, <2>2, Updated
<1>5. CASE Reply(i)
  <2> DEFINE l == [k EXCEPT !.stage = "finished",
                            !.answer = IF Waiting(i) THEN "reply" ELSE @,
                            !.reply = IF Waiting(i) THEN k.message ELSE @]
  <2>1. Evolves(k, l)
    BY <1>1, <1>5 DEF Reply, Evolves, CallOK, EchoCall, Stages, Waiting
  <2>2. calls' = [calls EXCEPT ![i] = l]
    BY <1>5 DEF Reply
  <2> QED
    BY <2>1, <2>2, Updated
<1>6. CASE Refuse(i)
  <2> DEFINE l == [k EXCEPT !.answer = "error", !.stage = "lost"]
  <2>1. Evolves(k, l)
    BY <1>1, <1>6 DEF Refuse, Evolves, CallOK, EchoCall, Stages, Waiting
  <2>2. calls' = [calls EXCEPT ![i] = l]
    BY <1>6 DEF Refuse
  <2> QED
    BY <2>1, <2>2, Updated
<1> QED
  BY <1>2, <1>3, <1>4, <1>5, <1>6 DEF EchoStep

LEMMA CrashCalls ==
  ASSUME TypeOK, CallsOK, Crash
  PROVE  NoneSent
<1> DEFINE lost(i) == [calls[i] EXCEPT !.stage = "lost"]
           after(i) == IF InServer(i) THEN lost(i) ELSE calls[i]
<1>1. calls' = [i \in DOMAIN calls |-> after(i)]
  BY DEF Crash
<1>2. ASSUME NEW i \in DOMAIN calls
      PROVE  Evolves(calls[i], after(i))
  <2>1. calls[i] \in EchoCall /\ CallOK(calls[i])
    BY CallType
  <2>2. Evolves(calls[i], calls[i])
    BY <2>1 DEF Evolves
  <2>3. InServer(i) => Evolves(calls[i], lost(i))
    BY <2>1 DEF Evolves, CallOK, EchoCall, Stages, InServer
  <2> QED
    BY <2>2, <2>3
<1> HIDE DEF after
<1>3. \A i \in 1 .. Len(calls) : after(i) \in EchoCall
  BY <1>2 DEF Evolves, TypeOK
<1>4. calls' \in Seq(EchoCall) /\ Len(calls') = Len(calls)
  BY <1>1, <1>3 DEF TypeOK
<1> QED
  BY <1>1, <1>2, <1>4 DEF NoneSent

\* No step of the server sends a call, and every one leaves the clients alone.
LEMMA ServerCalls ==
  ASSUME TypeOK, CallsOK, ServerStep
  PROVE  /\ NoneSent
         /\ process' \in {"down", "starting", "serving"} /\ dbUp' \in BOOLEAN
         /\ outages' \in 0 .. MaxOutages
<1>1. ASSUME NEW i \in DOMAIN calls, EchoStep(i)
      PROVE  NoneSent /\ UNCHANGED serverVars
  BY <1>1, EchoCalls DEF EchoStep, BeginEcho, WriteEchoRequest, FailEchoRequest, Reply, Refuse
<1>2. Start \/ ConnectDb \/ DbFails \/ DbReturns => NoneSent
  BY Unchanged DEF Start, ConnectDb, DbFails, DbReturns
<1>3. NoneSent
  BY <1>1, <1>2, CrashCalls DEF ServerStep
<1>4. ASSUME NEW i \in DOMAIN calls, EchoStep(i)
      PROVE  process' = process /\ dbUp' = dbUp /\ outages' = outages
  BY <1>1, <1>4 DEF serverVars
<1>5. CASE Start \/ ConnectDb \/ Crash \/ DbFails \/ DbReturns
  <2>1. process \in {"down", "starting", "serving"} /\ dbUp \in BOOLEAN
    BY DEF TypeOK
  <2>2. process' \in {"down", "starting", "serving"} /\ dbUp' \in BOOLEAN
    BY <1>5, <2>1, Zenon DEF Start, ConnectDb, Crash, DbFails, DbReturns
  <2>3. \/ outages' = outages
        \/ outages < MaxOutages /\ outages' = outages + 1
    BY <1>5, Zenon DEF Start, ConnectDb, Crash, DbFails, DbReturns
  <2>4. outages' \in 0 .. MaxOutages
    BY <2>3, GreeterAssumption DEF TypeOK
  <2> QED
    BY <1>3, <2>2, <2>4
<1>6. CASE \E i \in DOMAIN calls : EchoStep(i)
  BY <1>3, <1>4, <1>6 DEF TypeOK
<1> QED
  BY <1>5, <1>6 DEF ServerStep

\* A worker whose context is over gives up its own call.
LEMMA GiveUpCalls ==
  ASSUME TypeOK, CallsOK, WorkersOK, NEW w \in Workers, GiveUp(w)
  PROVE  /\ NoneSent
         /\ \A i \in DOMAIN calls : calls[i].client # w => calls'[i] = calls[i]
<1> DEFINE i == worker[w].call
           l == [calls[i] EXCEPT !.answer = "error"]
<1>1. i \in DOMAIN calls /\ calls[i].client = w
  BY DEF WorkersOK, GiveUp
<1>2. calls[i] \in EchoCall /\ CallOK(calls[i])
  BY <1>1, CallType
<1>3. Evolves(calls[i], l)
  BY <1>2 DEF GiveUp, Waiting, Evolves, CallOK, EchoCall
<1>4. calls' = [calls EXCEPT ![i] = l]
  BY DEF GiveUp
<1> QED
  BY <1>1, <1>3, <1>4, Updated
-----------------------------------------------------------------------------
(* What the steps do to the workers.                                       *)

\* The worker w, and no other, moves to pc with these values.
Becomes(w, pc, i, samples, seen) ==
  /\ worker' \in [Workers -> LoadWorker]
  /\ worker'[w].pc = pc /\ worker'[w].call = i
  /\ worker'[w].samples = samples /\ worker'[w].seen = seen
  /\ \A v \in Workers \ {w} : worker'[v] = worker[v]

Points == {"select", "echo", "waiting", "tooLate", "failed", "merge", "append", "done"}

LEMMA WorkerUpdated ==
  ASSUME TypeOK, NEW w \in Workers, NEW r \in LoadWorker, worker' = [worker EXCEPT ![w] = r]
  PROVE  Becomes(w, r.pc, r.call, r.samples, r.seen)
  BY DEF TypeOK, Becomes

LEMMA GotoBecomes ==
  ASSUME TypeOK, NEW w \in Workers, NEW pc \in Points, Goto(w, pc)
  PROVE  Becomes(w, pc, worker[w].call, worker[w].samples, worker[w].seen)
<1> DEFINE r == [worker[w] EXCEPT !.pc = pc]
<1>1. worker[w] \in LoadWorker
  BY DEF TypeOK
<1>2. /\ r \in LoadWorker /\ r.pc = pc /\ r.call = worker[w].call
      /\ r.samples = worker[w].samples /\ r.seen = worker[w].seen
  BY <1>1 DEF LoadWorker, Points
<1>3. worker' = [worker EXCEPT ![w] = r]
  BY DEF Goto
<1> QED
  BY <1>2, <1>3, WorkerUpdated

LEMMA SendBecomes ==
  ASSUME TypeOK, NEW w \in Workers, NEW pc \in Points, NEW i \in Nat,
         worker' = [worker EXCEPT ![w].pc = pc, ![w].call = i]
  PROVE  Becomes(w, pc, i, worker[w].samples, worker[w].seen)
<1> DEFINE r == [worker[w] EXCEPT !.pc = pc, !.call = i]
<1>1. worker[w] \in LoadWorker
  BY DEF TypeOK
<1>2. /\ r \in LoadWorker /\ r.pc = pc /\ r.call = i
      /\ r.samples = worker[w].samples /\ r.seen = worker[w].seen
  BY <1>1 DEF LoadWorker, Points
<1>3. worker' = [worker EXCEPT ![w] = r]
  BY DEF TypeOK
<1> QED
  BY <1>2, <1>3, WorkerUpdated

LEMMA CountBecomes ==
  ASSUME TypeOK, NEW w \in Workers, CountRequest(w)
  PROVE  /\ Succeeded(w) =>
              Becomes(w, "select", worker[w].call, worker[w].samples + 1, worker[w].seen)
         /\ ~Succeeded(w) =>
              Becomes(w, "failed", worker[w].call, worker[w].samples, worker[w].seen)
<1> DEFINE pc == IF Succeeded(w) THEN "select" ELSE "failed"
           n == IF Succeeded(w) THEN worker[w].samples + 1 ELSE worker[w].samples
           r == [worker[w] EXCEPT !.pc = pc, !.samples = n]
<1>1. worker[w] \in LoadWorker
  BY DEF TypeOK
<1>2. pc \in Points /\ n \in Nat
  BY <1>1 DEF Points, LoadWorker
<1>3. worker' = [worker EXCEPT ![w] = r]
  BY DEF TypeOK, CountRequest
<1>4. /\ r \in LoadWorker /\ r.pc = pc /\ r.call = worker[w].call
      /\ r.samples = n /\ r.seen = worker[w].seen
  <2> HIDE DEF pc, n
  <2> QED
    BY <1>1, <1>2 DEF LoadWorker, Points
<1>5. Becomes(w, pc, worker[w].call, n, worker[w].seen)
  <2> HIDE DEF pc, n
  <2> QED
    BY <1>3, <1>4, WorkerUpdated
<1> QED
  BY <1>5

LEMMA LockBecomes ==
  ASSUME TypeOK, NEW w \in Workers, Lock(w)
  PROVE  Becomes(w, "append", worker[w].call, worker[w].samples, latencies)
<1> DEFINE r == [worker[w] EXCEPT !.pc = "append", !.seen = latencies]
<1>1. worker[w] \in LoadWorker /\ latencies \in Nat
  BY DEF TypeOK
<1>2. /\ r \in LoadWorker /\ r.pc = "append" /\ r.call = worker[w].call
      /\ r.samples = worker[w].samples /\ r.seen = latencies
  BY <1>1 DEF LoadWorker
<1>3. worker' = [worker EXCEPT ![w] = r]
  BY DEF TypeOK, Lock
<1> QED
  BY <1>2, <1>3, WorkerUpdated
-----------------------------------------------------------------------------
(* The steps of the server.                                                *)

LEMMA CallsStay ==
  ASSUME TypeOK, NoneSent
  PROVE  /\ DOMAIN calls = 1 .. Len(calls) /\ DOMAIN calls' = DOMAIN calls
         /\ \A i \in DOMAIN calls : Waiting(i)' => Waiting(i)
         /\ FormCalls' = FormCalls
         /\ CallsOK'
<1>1. DOMAIN calls = 1 .. Len(calls) /\ DOMAIN calls' = DOMAIN calls
  BY DEF TypeOK, NoneSent
<1>2. \A i \in DOMAIN calls : Evolves(calls[i], calls'[i])
  BY DEF NoneSent
<1>3. \A i \in DOMAIN calls : Waiting(i)' => Waiting(i)
  BY <1>2 DEF Evolves, Waiting
<1>4. FormCalls' = FormCalls
  BY <1>1, <1>2 DEF FormCalls, Evolves
<1>5. CallsOK'
  BY <1>1, <1>2 DEF CallsOK, Evolves
<1> QED
  BY <1>1, <1>3, <1>4, <1>5

\* The form goes on showing what it shows while calls get their answers.
LEMMA FormStays ==
  ASSUME TypeOK, FormOK, NoneSent, UNCHANGED formVars
  PROVE  FormOK'
<1>1. UNCHANGED <<response, error, loading, pending>>
  BY DEF formVars
<1>2. OneCallInFlight'
  BY <1>1, CallsStay DEF FormOK, OneCallInFlight, FormCalls
<1>3. ASSUME NEW last \in FormCalls, Shows(last)
      PROVE  Shows(last)'
  <2>1. last \in DOMAIN calls /\ last # 0 /\ Evolves(calls[last], calls'[last])
    BY CallsStay DEF FormCalls, NoneSent
  <2>2. pending = 0 => calls[last].answer # "waiting"
    BY <2>1 DEF FormOK, OneCallInFlight, Waiting
  <2> QED
    BY <1>1, <1>3, <2>1, <2>2 DEF Shows, Evolves
<1>4. FormCalls' # {} =>
        \E last \in FormCalls' : (\A i \in FormCalls' : i <= last) /\ Shows(last)'
  <2>1. FormCalls' = FormCalls
    BY CallsStay
  <2> QED
    BY <1>3, <2>1 DEF FormOK
<1> QED
  BY <1>1, <1>2, <1>4, CallsStay DEF FormOK

LEMMA WorkersStay ==
  ASSUME TypeOK, WorkersOK, NoneSent, UNCHANGED worker
  PROVE  WorkersOK'
<1>1. \A i \in DOMAIN calls : calls'[i].client = calls[i].client
  BY DEF NoneSent, Evolves
<1> QED
  BY <1>1, CallsStay DEF WorkersOK, At

LEMMA ServerInv ==
  ASSUME Inv, ServerStep, UNCHANGED <<formVars, loadVars>>
  PROVE  Inv'
<1>1. NoneSent
  BY ServerCalls DEF Inv
<1>2. TypeOK'
  <2>1. process' \in {"down", "starting", "serving"} /\ dbUp' \in BOOLEAN /\ outages' \in 0 .. MaxOutages
    BY ServerCalls DEF Inv
  <2>2. calls' \in Seq(EchoCall) /\ Len(calls') = Len(calls)
    BY <1>1 DEF NoneSent
  <2> QED
    BY <2>1, <2>2 DEF Inv, TypeOK, formVars, loadVars
<1>3. UNCHANGED worker
  BY DEF loadVars
<1> QED
  BY <1>1, <1>2, <1>3, CallsStay, FormStays, WorkersStay DEF Inv

-----------------------------------------------------------------------------
(* The steps of the form.                                                  *)

LEMMA ChangeInv ==
  ASSUME Inv, NEW text \in Texts, Change(text), UNCHANGED loadVars
  PROVE  Inv'
<1>1. UNCHANGED <<process, dbUp, outages, calls, response, error, loading, pending, loadVars>>
  BY DEF Change, serverVars
<1>2. TypeOK'
  BY <1>1 DEF Inv, TypeOK, Change, loadVars
<1>3. CallsOK' /\ WorkersOK'
  BY <1>1 DEF Inv, CallsOK, WorkersOK, At, Waiting, loadVars
<1>4. FormOK'
  BY <1>1 DEF Inv, FormOK, FormCalls, OneCallInFlight, Waiting, Shows
<1> QED
  BY <1>2, <1>3, <1>4 DEF Inv

LEMMA SentCalls ==
  ASSUME TypeOK, CallsOK, NEW k, OneSent(k)
  PROVE  /\ calls' \in Seq(EchoCall) /\ Len(calls') = Len(calls) + 1 /\ Len(calls') <= MaxCalls
         /\ DOMAIN calls = 1 .. Len(calls) /\ DOMAIN calls' = 1 .. Len(calls')
         /\ calls'[Len(calls')] = k
         /\ \A i \in DOMAIN calls : calls'[i] = calls[i]
         /\ CallsOK'
<1>1. calls \in Seq(EchoCall) /\ k \in EchoCall /\ Len(calls) \in Nat
  BY DEF TypeOK, OneSent
<1>2. /\ calls' \in Seq(EchoCall) /\ Len(calls') = Len(calls) + 1
      /\ DOMAIN calls = 1 .. Len(calls) /\ DOMAIN calls' = 1 .. Len(calls')
      /\ calls'[Len(calls')] = k
      /\ \A i \in DOMAIN calls : calls'[i] = calls[i]
  BY <1>1 DEF OneSent
<1>3. Len(calls') <= MaxCalls
  BY <1>1, <1>2, GreeterAssumption DEF OneSent
<1>4. CallOK(k)
  BY DEF OneSent, CallOK
<1>5. CallsOK'
  BY <1>1, <1>2, <1>4 DEF CallsOK
<1> QED
  BY <1>2, <1>3, <1>5

LEMMA NewCallSent ==
  ASSUME TypeOK, NEW client \in Workers \cup {Form}, NEW m \in Messages, Len(calls) < MaxCalls,
         calls' = Append(calls, NewCall(client, m))
  PROVE  OneSent(NewCall(client, m)) /\ NewCall(client, m).client = client
  BY DEF OneSent, NewCall, EchoCall, Stages

LEMMA SubmitInv ==
  ASSUME Inv, Submit, UNCHANGED loadVars
  PROVE  Inv'
<1> DEFINE k == NewCall(Form, Sent(message))
<1>1. Sent(message) \in Messages
  BY FormAssumption DEF Inv, TypeOK, Submit, Sent
<1>2. OneSent(k) /\ k.client = Form
  BY <1>1, NewCallSent DEF Inv, Submit
<1>3. /\ calls' \in Seq(EchoCall) /\ Len(calls') = Len(calls) + 1 /\ Len(calls') <= MaxCalls
      /\ DOMAIN calls = 1 .. Len(calls) /\ DOMAIN calls' = 1 .. Len(calls')
      /\ calls'[Len(calls')] = k
      /\ \A i \in DOMAIN calls : calls'[i] = calls[i]
      /\ CallsOK'
  BY <1>2, SentCalls DEF Inv
<1>4. /\ UNCHANGED <<process, dbUp, outages, message, loadVars>>
      /\ loading' = TRUE /\ error' = FALSE /\ response' = "none" /\ pending' = Len(calls')
      /\ loading = FALSE
  BY DEF Submit, serverVars, Cleared, Enabled, Inv, TypeOK
<1>5. TypeOK'
  <2>1. \A w \in Workers : worker'[w].call <= Len(calls')
    BY <1>3, <1>4 DEF Inv, TypeOK, loadVars, LoadWorker
  <2>2. pending' \in 0 .. Len(calls')
    BY <1>3, <1>4 DEF Inv, TypeOK
  <2> QED
    BY <1>3, <1>4, <2>1, <2>2 DEF Inv, TypeOK, loadVars
<1>6. WorkersOK'
  BY <1>2, <1>3, <1>4, ClientsAssumption DEF Inv, WorkersOK, At, Waiting, loadVars, TypeOK
<1>7. FormOK'
  <2>1. \A i \in FormCalls : ~Waiting(i)
    <3>1. pending = 0 /\ \A i \in FormCalls : Waiting(i) => i = pending
      BY <1>4, Zenon DEF Inv, FormOK, OneCallInFlight
    <3> QED
      BY <1>3, <3>1 DEF FormCalls
  <2>2. FormCalls' = FormCalls \cup {Len(calls')}
    BY <1>2, <1>3, <1>4 DEF FormCalls, Inv, TypeOK
  <2>3. Len(calls') # 0 /\ \A i \in FormCalls' : i <= Len(calls')
    BY <1>3 DEF FormCalls, Inv, TypeOK
  <2>4. OneCallInFlight'
    BY <1>3, <1>4, <2>1, <2>2, <2>3 DEF OneCallInFlight, Waiting, FormCalls
  <2>5. Shows(Len(calls))'
    BY <1>4, <2>3 DEF Shows
  <2> QED
    BY <1>4, <2>2, <2>3, <2>4, <2>5 DEF FormOK
<1> QED
  BY <1>3, <1>5, <1>6, <1>7 DEF Inv

LEMMA TakeEchoInv ==
  ASSUME Inv, TakeEcho, UNCHANGED loadVars
  PROVE  Inv'
<1>1. UNCHANGED <<process, dbUp, outages, calls, message, loadVars>>
  BY DEF TakeEcho, serverVars
<1>2. pending \in FormCalls /\ pending # 0 /\ calls[pending] \in EchoCall /\ CallOK(calls[pending])
  BY CallType DEF Inv, FormOK, TakeEcho, FormCalls
<1>3. response = "none" /\ ~error /\ \A i \in FormCalls : i <= pending
  BY <1>2 DEF Inv, FormOK, Shows
<1>4. /\ pending' = 0 /\ loading' = FALSE
      /\ \/ /\ calls[pending].answer = "reply"
            /\ response' = calls[pending].message /\ error' = FALSE
         \/ /\ calls[pending].answer = "error"
            /\ response' = "none" /\ error' = TRUE
  BY <1>2, <1>3 DEF TakeEcho, LoadingAfter, Waiting, EchoCall, CallOK
<1>5. TypeOK'
  <2>1. response' \in Messages \cup {"none"} /\ error' \in BOOLEAN
    BY <1>2, <1>4 DEF EchoCall
  <2>2. loading' \in BOOLEAN /\ pending' \in 0 .. Len(calls)
    <3>1. loading' \in BOOLEAN
      BY <1>4, Zenon
    <3>2. Len(calls) \in Nat
      BY DEF Inv, TypeOK
    <3> QED
      BY <1>4, <3>1, <3>2
  <2> QED
    BY <1>1, <2>1, <2>2 DEF Inv, TypeOK, loadVars
<1>6. CallsOK' /\ WorkersOK'
  BY <1>1 DEF Inv, CallsOK, WorkersOK, At, Waiting, loadVars
<1>7. FormOK'
  <2>1. FormCalls' = FormCalls
    BY <1>1 DEF FormCalls
  <2>2. OneCallInFlight'
    BY <1>1, <1>2, <1>4, <2>1 DEF Inv, FormOK, OneCallInFlight, Waiting, TakeEcho
  <2>3. Shows(pending)
    BY <1>2, <1>3 DEF Shows
  <2>4. \A i \in FormCalls' : i <= pending
    BY <1>3, <2>1
  <2>5. pending \in FormCalls' /\ calls' = calls
    BY <1>1, <1>2, <2>1
  <2>6. \E last \in FormCalls' : (\A i \in FormCalls' : i <= last) /\ Shows(last)'
    <3>1. \A i : i = pending => Shows(i)'
      BY <1>4, <2>5 DEF Shows
    <3> QED
      BY <2>4, <2>5, <3>1
  <2> QED
    BY <1>4, <2>2, <2>5, <2>6 DEF FormOK
<1> QED
  BY <1>5, <1>6, <1>7 DEF Inv
-----------------------------------------------------------------------------
(* The steps of the load test.                                             *)

\* The variables of the load test but for worker have their types.
LoadTypes ==
  /\ expired \in BOOLEAN
  /\ totalReqs \in Nat /\ errCount \in Nat /\ latencies \in Nat
  /\ latMu \in Workers \cup {NoOne}
  /\ report \in [done : BOOLEAN, total : Nat, errors : Nat, samples : Nat]

\* A worker that waits for no answer, before or after, moves on.
LEMMA QuietStep ==
  ASSUME Inv, NEW w \in Workers, NEW pc \in Points \ {"waiting"}, NEW i \in 0 .. Len(calls),
         NEW samples, NEW seen, Becomes(w, pc, i, samples, seen),
         At(w, "waiting") => ~Waiting(worker[w].call),
         UNCHANGED <<calls, serverVars, formVars>>, LoadTypes'
  PROVE  Inv'
<1>1. UNCHANGED <<process, dbUp, outages, calls, message, response, error, loading, pending>>
  BY DEF serverVars, formVars
<1>2. \A v \in Workers : worker'[v].call <= Len(calls')
  BY <1>1 DEF Inv, TypeOK, Becomes
<1>3. TypeOK'
  BY <1>1, <1>2 DEF Inv, TypeOK, LoadTypes, Becomes
<1>4. CallsOK' /\ FormOK'
  BY <1>1 DEF Inv, CallsOK, FormOK, FormCalls, OneCallInFlight, Waiting, Shows
<1>5. WorkersOK'
  BY <1>1 DEF Inv, WorkersOK, At, Waiting, Becomes
<1> QED
  BY <1>3, <1>4, <1>5 DEF Inv

LEMMA SendInv ==
  ASSUME Inv, NEW w \in Workers, Send(w), UNCHANGED formVars
  PROVE  /\ Inv'
         /\ \E m \in Messages : OneSent(NewCall(w, m))
         /\ Becomes(w, "waiting", Len(calls'), worker[w].samples, worker[w].seen)
<1>1. PICK m \in Messages : calls' = Append(calls, NewCall(w, m))
  BY DEF Send
<1> DEFINE k == NewCall(w, m)
<1>2. OneSent(k) /\ k.client = w /\ k.client # Form
  BY <1>1, NewCallSent, ClientsAssumption DEF Inv, Send
<1>3. /\ calls' \in Seq(EchoCall) /\ Len(calls') = Len(calls) + 1 /\ Len(calls') <= MaxCalls
      /\ DOMAIN calls = 1 .. Len(calls) /\ DOMAIN calls' = 1 .. Len(calls')
      /\ calls'[Len(calls')] = k
      /\ \A i \in DOMAIN calls : calls'[i] = calls[i]
      /\ CallsOK'
  BY <1>2, SentCalls DEF Inv
<1>4. Becomes(w, "waiting", Len(calls'), worker[w].samples, worker[w].seen)
  <2>1. Len(calls') \in Nat /\ "waiting" \in Points
    BY <1>3 DEF Points
  <2>2. worker' = [worker EXCEPT ![w].pc = "waiting", ![w].call = Len(calls')]
    BY DEF Send
  <2> QED
    BY <2>1, <2>2, SendBecomes DEF Inv
<1>5. UNCHANGED <<process, dbUp, outages, message, response, error, loading, pending,
                  expired, totalReqs, errCount, latencies, latMu, report>>
  BY DEF Send, serverVars, formVars
<1>6. Len(calls) \in Nat /\ worker \in [Workers -> LoadWorker]
      /\ \A v \in Workers : worker[v].call <= Len(calls)
  BY DEF Inv, TypeOK
<1>7. TypeOK'
  <2>1. \A v \in Workers : worker'[v].call <= Len(calls')
    <3>1. worker'[w].call <= Len(calls')
      BY <1>3, <1>4, <1>6 DEF Becomes
    <3>2. \A v \in Workers : worker[v].call \in Nat
      BY <1>6 DEF LoadWorker
    <3>3. \A v \in Workers \ {w} : worker'[v].call <= Len(calls')
      BY <1>3, <1>4, <1>6, <3>2 DEF Becomes
    <3> QED
      BY <3>1, <3>3
  <2>2. pending' \in 0 .. Len(calls')
    BY <1>3, <1>5, <1>6 DEF Inv, TypeOK
  <2> QED
    BY <1>3, <1>4, <1>5, <2>1, <2>2 DEF Inv, TypeOK, Becomes
<1>8. WorkersOK'
  <2>1. \A i \in DOMAIN calls : calls[i].client = w => ~Waiting(i)
    BY DEF Inv, WorkersOK, Send, At
  <2>2. ASSUME NEW v \in Workers, At(v, "waiting")'
        PROVE  worker'[v].call \in DOMAIN calls' /\ calls'[worker'[v].call].client = v
    <3>1. CASE v = w
      BY <1>2, <1>3, <1>4, <1>6, <3>1 DEF Becomes
    <3>2. CASE v # w
      <4>1. At(v, "waiting") /\ worker'[v].call = worker[v].call
        BY <1>4, <2>2, <3>2 DEF Becomes, At
      <4>2. worker[v].call \in DOMAIN calls /\ calls[worker[v].call].client = v
        BY <4>1 DEF Inv, WorkersOK
      <4> QED
        BY <1>3, <1>6, <4>1, <4>2
    <3> QED
      BY <3>1, <3>2
  <2>3. ASSUME NEW i \in DOMAIN calls', calls'[i].client \in Workers, Waiting(i)'
        PROVE  At(calls[i].client, "waiting")' /\ worker'[calls'[i].client].call = i
    <3>1. CASE i = Len(calls')
      BY <1>2, <1>3, <1>4, <3>1 DEF Becomes, At
    <3>2. CASE i # Len(calls')
      <4>1. i \in DOMAIN calls /\ calls'[i] = calls[i] /\ Waiting(i)
        BY <1>3, <1>6, <2>3, <3>2 DEF Waiting
      <4>2. /\ calls[i].client # w
            /\ At(calls[i].client, "waiting") /\ worker[calls[i].client].call = i
        BY <2>1, <2>3, <4>1 DEF Inv, WorkersOK
      <4> QED
        BY <1>4, <2>3, <4>1, <4>2 DEF Becomes, At
    <3> QED
      BY <3>1, <3>2
  <2> QED
    BY <2>2, <2>3 DEF WorkersOK
<1>9. FormOK'
  <2>1. FormCalls' = FormCalls
    BY <1>2, <1>3, <1>6 DEF FormCalls
  <2>2. \A i \in FormCalls : calls'[i] = calls[i]
    BY <1>3 DEF FormCalls
  <2> QED
    BY <1>5, <2>1, <2>2 DEF Inv, FormOK, OneCallInFlight, Waiting, Shows
<1> QED
  BY <1>2, <1>3, <1>4, <1>7, <1>8, <1>9 DEF Inv

LEMMA LoadInv ==
  ASSUME Inv, LoadStep, UNCHANGED formVars
  PROVE  Inv'
<1>1. /\ worker \in [Workers -> LoadWorker] /\ LoadTypes /\ Len(calls) \in Nat
      /\ \A w \in Workers : worker[w] \in LoadWorker /\ worker[w].call \in 0 .. Len(calls)
  BY DEF Inv, TypeOK, LoadTypes, LoadWorker
<1>2. ASSUME Expire \/ Report PROVE Inv'
  <2>1. UNCHANGED <<process, dbUp, outages, calls, message, response, error, loading, pending,
                    worker, totalReqs, errCount, latencies, latMu>>
    BY <1>2 DEF Expire, Report, serverVars, formVars
  <2>2. expired' \in BOOLEAN /\ report' \in [done : BOOLEAN, total : Nat, errors : Nat, samples : Nat]
    <3>1. \/ expired' = TRUE /\ report' = report
          \/ /\ expired' = expired
             /\ report' = [done |-> TRUE, total |-> totalReqs, errors |-> errCount,
                           samples |-> latencies]
      BY <1>2 DEF Expire, Report
    <3>2. expired' \in BOOLEAN
      BY <1>1, <3>1, Zenon DEF LoadTypes
    <3>3. report' \in [done : BOOLEAN, total : Nat, errors : Nat, samples : Nat]
      <4>1. [done |-> TRUE, total |-> totalReqs, errors |-> errCount, samples |-> latencies]
              \in [done : BOOLEAN, total : Nat, errors : Nat, samples : Nat]
        BY <1>1 DEF LoadTypes
      <4> QED
        BY <1>1, <3>1, <4>1, Zenon DEF LoadTypes
    <3> QED
      BY <3>2, <3>3
  <2>3. TypeOK'
    BY <2>1, <2>2 DEF Inv, TypeOK
  <2> QED
    BY <2>1, <2>3 DEF Inv, CallsOK, WorkersOK, At, FormOK, FormCalls, OneCallInFlight, Waiting, Shows
<1>3. ASSUME NEW w \in Workers, Select(w) PROVE Inv'
  <2>1. /\ LoadTypes' /\ UNCHANGED <<calls, serverVars, formVars>>
        /\ At(w, "waiting") => ~Waiting(worker[w].call)
    BY <1>1, <1>3 DEF Select, LoadTypes, At
  <2>2. Goto(w, "merge") \/ Goto(w, "echo")
    BY <1>3 DEF Select
  <2> QED
    BY <1>1, <2>1, <2>2, GotoBecomes, QuietStep DEF Inv, Points
<1>4. ASSUME NEW w \in Workers, SendTooLate(w) PROVE Inv'
  <2>1. /\ LoadTypes' /\ UNCHANGED <<calls, serverVars, formVars>>
        /\ At(w, "waiting") => ~Waiting(worker[w].call)
    BY <1>1, <1>4 DEF SendTooLate, LoadTypes, At
  <2>2. Becomes(w, "tooLate", 0, worker[w].samples, worker[w].seen)
    BY <1>4, SendBecomes DEF SendTooLate, Inv, Points
  <2> QED
    BY <1>1, <2>1, <2>2, QuietStep DEF Points
<1>5. ASSUME NEW w \in Workers, GiveUp(w) PROVE Inv'
  <2>1. NoneSent /\ UNCHANGED <<worker, formVars>>
    BY <1>5, GiveUpCalls DEF Inv, GiveUp, loadVars
  <2>2. UNCHANGED <<process, dbUp, outages, message, response, error, loading, pending, loadVars>>
    BY <1>5 DEF GiveUp, serverVars, formVars
  <2>3. calls' \in Seq(EchoCall) /\ Len(calls') = Len(calls)
    BY <2>1 DEF NoneSent
  <2>4. TypeOK'
    BY <2>2, <2>3 DEF Inv, TypeOK, loadVars
  <2> QED
    BY <2>1, <2>4, CallsStay, FormStays, WorkersStay DEF Inv
<1>6. ASSUME NEW w \in Workers, CountRequest(w) PROVE Inv'
  <2>1. /\ LoadTypes' /\ UNCHANGED <<calls, serverVars, formVars>>
        /\ At(w, "waiting") => ~Waiting(worker[w].call)
    BY <1>1, <1>6 DEF CountRequest, LoadTypes, At
  <2> QED
    BY <1>1, <1>6, <2>1, CountBecomes, QuietStep DEF Inv, Points
<1>7. ASSUME NEW w \in Workers, CountError(w) PROVE Inv'
  <2>1. /\ LoadTypes' /\ UNCHANGED <<calls, serverVars, formVars>>
        /\ At(w, "waiting") => ~Waiting(worker[w].call)
    BY <1>1, <1>7 DEF CountError, LoadTypes, At
  <2>2. Goto(w, "select")
    BY <1>7 DEF CountError
  <2> QED
    BY <1>1, <2>1, <2>2, GotoBecomes, QuietStep DEF Inv, Points
<1>8. ASSUME NEW w \in Workers, Lock(w) PROVE Inv'
  <2>1. /\ LoadTypes' /\ UNCHANGED <<calls, serverVars, formVars>>
        /\ At(w, "waiting") => ~Waiting(worker[w].call)
    BY <1>1, <1>8 DEF Lock, LoadTypes, At
  <2> QED
    BY <1>1, <1>8, <2>1, LockBecomes, QuietStep DEF Inv, Points
<1>9. ASSUME NEW w \in Workers, Merge(w) PROVE Inv'
  <2>1. worker[w].seen + worker[w].samples \in Nat
    BY <1>1 DEF LoadWorker
  <2>2. /\ LoadTypes' /\ UNCHANGED <<calls, serverVars, formVars>>
        /\ At(w, "waiting") => ~Waiting(worker[w].call)
    BY <1>1, <1>9, <2>1 DEF Merge, LoadTypes, At
  <2>3. Goto(w, "done")
    BY <1>9 DEF Merge
  <2> QED
    BY <1>1, <2>2, <2>3, GotoBecomes, QuietStep DEF Inv, Points
<1> QED
  BY <1>2, <1>3, <1>4, <1>5, <1>6, <1>7, <1>8, <1>9, SendInv DEF LoadStep, WorkerStep

-----------------------------------------------------------------------------
(* The invariant, for every value of the constants and without fairness.   *)

LEMMA InitInv == Init => Inv
<1> SUFFICES ASSUME Init PROVE Inv
  OBVIOUS
<1> USE DEF Init, GreeterInit, FormInit, LoadInit
<1>1. TypeOK
  <2>1. worker \in [Workers -> LoadWorker] /\ \A w \in Workers : worker[w].call <= Len(calls)
    BY DEF LoadWorker
  <2>2. calls \in Seq(EchoCall) /\ Len(calls) = 0
    OBVIOUS
  <2>3. NotYet \in [done : BOOLEAN, total : Nat, errors : Nat, samples : Nat]
    BY DEF NotYet
  <2>4. Len(calls) <= MaxCalls /\ 0 \in 0 .. MaxOutages /\ pending \in 0 .. Len(calls)
    BY <2>2, GreeterAssumption
  <2> QED
    BY <2>1, <2>2, <2>3, <2>4 DEF TypeOK
<1>2. DOMAIN calls = {}
  OBVIOUS
<1>3. CallsOK /\ FormCalls = {}
  BY <1>2 DEF CallsOK, FormCalls
<1>4. WorkersOK
  BY <1>2 DEF WorkersOK, At
<1>5. FormOK
  BY <1>3 DEF FormOK, OneCallInFlight
<1> QED
  BY <1>1, <1>3, <1>4, <1>5 DEF Inv

LEMMA NextInv == Inv /\ [Next]_vars => Inv'
<1> SUFFICES ASSUME Inv, [Next]_vars PROVE Inv'
  OBVIOUS
<1>1. CASE FormStep /\ UNCHANGED loadVars
  BY <1>1, ChangeInv, SubmitInv, TakeEchoInv DEF FormStep
<1>2. CASE UNCHANGED vars
  BY <1>2 DEF vars, formVars, loadVars, Inv, TypeOK, CallsOK, WorkersOK, At,
              FormOK, FormCalls, OneCallInFlight, Waiting, Shows
<1> QED
  BY <1>1, <1>2, ServerInv, LoadInv DEF Next

\* Inv holds in every reachable state, whatever crashes, fails or overtakes.
THEOREM Invariance == SafetySpec => []Inv
  BY InitInv, NextInv, PTL DEF SafetySpec

\* Every variable keeps its type, and nobody awaits a call that was never sent.
THEOREM TypeCorrect == Spec => []TypeOK
<1>1. Inv => TypeOK
  BY DEF Inv
<1> QED
  BY <1>1, Invariance, PTL DEF Spec

\* A client that was answered has a row in the database or a line in the log,
\* whenever the database fails and the process dies (main.go 40-52).
THEOREM NothingLostSilently == Spec => []NoSilentLoss
<1>1. Inv => NoSilentLoss
  BY DEF Inv, CallsOK, CallOK, NoSilentLoss
<1> QED
  BY <1>1, Invariance, PTL DEF Spec

\* The form never has two calls in flight (App.tsx, call and its disabled input).
THEOREM FormHasOneCall == Spec => []OneCallInFlight
<1>1. Inv => OneCallInFlight
  BY DEF Inv, FormOK
<1> QED
  BY <1>1, Invariance, PTL DEF Spec

\* The form shows the outcome of its latest call and of no other.
THEOREM FormShowsLatest == Spec => []ShowsLatest
<1>1. Inv => ShowsLatest
  <2> SUFFICES ASSUME Inv PROVE ShowsLatest
    OBVIOUS
  <2>1. CASE FormCalls = {}
    BY <2>1 DEF Inv, FormOK, ShowsLatest, OneCallInFlight
  <2>2. CASE FormCalls # {}
    <3>1. PICK last \in FormCalls : (\A i \in FormCalls : i <= last) /\ Shows(last)
      BY <2>2 DEF Inv, FormOK
    <3>2. last = CHOOSE i \in FormCalls : \A j \in FormCalls : j <= i
      <4>1. FormCalls \subseteq Nat
        BY DEF Inv, TypeOK, FormCalls
      <4>2. \A i \in FormCalls : (\A j \in FormCalls : j <= i) <=> i = last
        BY <3>1, <4>1
      <4> QED
        BY <4>2
    <3>3. loading = (pending # 0)
      BY DEF Inv, FormOK, OneCallInFlight
    <3> QED
      BY <3>1, <3>2, <3>3 DEF ShowsLatest, Shows
  <2> QED
    BY <2>1, <2>2
<1> QED
  BY <1>1, Invariance, PTL DEF Spec
=============================================================================
