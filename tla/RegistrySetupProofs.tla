-------------------------- MODULE RegistrySetupProofs --------------------------
(***************************************************************************)
(* Proofs about RegistrySetup, for any hosts, whatever parts of each other *)
(* they are, any lists of them and any number of runs.                     *)
(***************************************************************************)
EXTENDS RegistrySetup, TLAPS

USE RegistryAssumption

\* What a run owes to its hosts: an entry, or a turn of the loop that is still to come.
HostsOK ==
  run.no > 0 =>
    /\ At("deploy") => run.left = run.hosts
    /\ At("registries") => \A i \in DOMAIN run.hosts :
         Present(run.hosts[i]) \/ Contains(run.left, run.hosts[i])
    /\ At("restart") => run.needsRestart
    /\ At("restart") \/ (At("exit") /\ run.status = 0) =>
         \A i \in DOMAIN run.hosts : Present(run.hosts[i])

\* A run is counted as soon as it has left Idle, and success comes after a restart or
\* with a warning.
RunOK ==
  /\ ~At("exit") => run.no > 0
  /\ At("exit") /\ run.no > 0 /\ run.status = 0 /\ ~run.warned => loaded = OnDisk

Inv == TypeOK /\ NoDuplicateEntries /\ HostsOK /\ RunOK

LEMMA InitInv == Init => Inv
  BY DEF Init, Inv, TypeOK, Run, Role, NoDuplicateEntries, HostsOK, RunOK, Idle, At, OnDisk, IsInjective

\* What grep finds in a file with these blocks.
Found(s, g) == \E i \in DOMAIN s : <<g, s[i]>> \in Finds

\* It stays when a block is appended, whose host is found too.
LEMMA AppendKeeps ==
  ASSUME NEW s \in Seq(Hosts), NEW h \in Hosts
  PROVE  /\ Found(Append(s, h), h)
         /\ \A g : Found(s, g) => Found(Append(s, h), g)
         /\ IsInjective(s) /\ ~Found(s, h) => IsInjective(Append(s, h))
<1> DEFINE t == Append(s, h)
<1>1. /\ Len(s) \in Nat /\ DOMAIN s = 1 .. Len(s) /\ DOMAIN t = 1 .. Len(s) + 1
      /\ \A i \in 1 .. Len(s) : t[i] = s[i]
      /\ t[Len(s) + 1] = h
  OBVIOUS
<1>2. <<h, h>> \in Finds
  OBVIOUS
<1> HIDE DEF t
<1>3. Found(t, h)
  <2>1. Len(s) + 1 \in DOMAIN t
    BY <1>1
  <2> QED
    BY <1>1, <1>2, <2>1 DEF Found
<1>4. ASSUME NEW g, Found(s, g) PROVE Found(t, g)
  <2>1. PICK i \in 1 .. Len(s) : <<g, s[i]>> \in Finds
    BY <1>1, <1>4 DEF Found
  <2>2. i \in DOMAIN t /\ t[i] = s[i]
    BY <1>1
  <2> QED
    BY <2>1, <2>2 DEF Found
<1>5. ASSUME IsInjective(s), ~Found(s, h) PROVE IsInjective(t)
  <2>1. \A i \in 1 .. Len(s) : s[i] # h
    BY <1>1, <1>2, <1>5 DEF Found
  <2> QED
    BY <1>1, <1>5, <2>1 DEF IsInjective
<1> QED
  BY <1>3, <1>4, <1>5 DEF t

LEMMA HeadOrTail ==
  ASSUME NEW s \in Seq(Hosts), s # << >>, NEW g, Contains(s, g)
  PROVE  g = Head(s) \/ Contains(Tail(s), g)
<1>1. PICK i \in 1 .. Len(s) : s[i] = g
  BY DEF Contains
<1>2. CASE i = 1
  BY <1>1, <1>2
<1>3. CASE i # 1
  <2>1. i - 1 \in 1 .. Len(Tail(s)) /\ Tail(s)[i - 1] = g
    BY <1>1, <1>3
  <2> QED
    BY <2>1 DEF Contains
<1> QED
  BY <1>2, <1>3

\* The fields of a run that ends, and of one that goes on to the next step.
LEMMA ExitRun ==
  ASSUME run \in Run, NEW status \in Nat, NEW failed \in BOOLEAN, Exit(status, failed)
  PROVE  /\ run' \in Run
         /\ run'.at = "exit" /\ run'.status = status
         /\ run'.no = run.no /\ run'.hosts = run.hosts /\ run'.warned = run.warned
<1> DEFINE r1 == [run EXCEPT !.at = "exit"]
           r2 == [r1 EXCEPT !.status = status]
           r3 == [r2 EXCEPT !.failed = failed]
<1>1. r1 \in Run /\ r1.at = "exit" /\ r1.no = run.no /\ r1.hosts = run.hosts /\ r1.warned = run.warned
  BY DEF Run
<1> HIDE DEF r1
<1>2. r2 \in Run /\ r2.at = "exit" /\ r2.status = status /\ r2.no = run.no /\ r2.hosts = run.hosts /\ r2.warned = run.warned
  BY <1>1 DEF Run
<1> HIDE DEF r2
<1>3. r3 \in Run /\ r3.at = "exit" /\ r3.status = status /\ r3.no = run.no /\ r3.hosts = run.hosts /\ r3.warned = run.warned
  BY <1>2 DEF Run
<1>4. run' = r3
  BY DEF Exit, r1, r2, r3
<1> QED
  BY <1>3, <1>4

LEMMA NextStep ==
  ASSUME run \in Run, NEW step \in {"registries", "restart"}, NEW needed \in BOOLEAN,
         run' = [run EXCEPT !.at = step, !.needsRestart = needed]
  PROVE  /\ run' \in Run
         /\ run'.at = step /\ run'.needsRestart = needed
         /\ run'.no = run.no /\ run'.hosts = run.hosts /\ run'.left = run.left
  BY DEF Run

LEMMA StartedRun ==
  ASSUME run \in Run, NEW step \in {"deploy", "registries"}, NEW role \in Role, NEW hosts \in Arguments,
         run.no < MaxRuns,
         run' = [Idle EXCEPT !.at = step, !.no = run.no + 1, !.role = role,
                             !.hosts = hosts, !.left = hosts]
  PROVE  /\ run' \in Run
         /\ run'.at = step /\ run'.hosts = hosts /\ run'.left = hosts /\ run'.no > 0
<1> DEFINE r == [at |-> step, no |-> run.no + 1, role |-> role, hosts |-> hosts, left |-> hosts,
                 anyAdded |-> FALSE, needsRestart |-> FALSE, warned |-> FALSE, failed |-> FALSE,
                 status |-> 0]
<1>1. run' = r
  BY DEF Idle
<1>2. run.no + 1 \in 1 .. MaxRuns /\ hosts \in Seq(Hosts)
  BY DEF Run
<1> HIDE DEF r
<1>3. r.at = step /\ r.hosts = hosts /\ r.left = hosts /\ r.no = run.no + 1
  BY DEF r
<1>4. r \in Run
  BY <1>2 DEF r, Run
<1> QED
  BY <1>1, <1>2, <1>3, <1>4

LEMMA StartInv ==
  ASSUME Inv, Start
  PROVE  Inv'
<1>1. run \in Run /\ Inv
  BY DEF Inv, TypeOK
<1>2. /\ run' \in Run /\ run'.no > 0 /\ run'.left = run'.hosts
      /\ run'.at \in {"deploy", "registries"}
  <2>1. PICK hosts \in Arguments :
          run' = [Idle EXCEPT !.at = IF node_role = "server" THEN "deploy" ELSE "registries",
                              !.no = run.no + 1, !.role = node_role,
                              !.hosts = hosts, !.left = hosts]
    BY DEF Start
  <2>4. node_role \in Role
    BY DEF node_role, Role
  <2>2. CASE node_role = "server"
    BY <1>1, <2>1, <2>2, <2>4, StartedRun DEF Start
  <2>3. CASE node_role # "server"
    BY <1>1, <2>1, <2>3, <2>4, StartedRun DEF Start
  <2> QED
    BY <2>2, <2>3
<1>3. TypeOK'
  BY <1>2 DEF Inv, TypeOK, OnDisk, Start, nodeVars, fileVars, k3sVars
<1>4. NoDuplicateEntries'
  BY DEF Inv, TypeOK, NoDuplicateEntries, Start, fileVars
<1>5. HostsOK'
  <2>1. \A i \in DOMAIN run'.hosts : Contains(run'.left, run'.hosts[i])
    BY <1>2 DEF Run, Contains
  <2> QED
    BY <1>2, <2>1 DEF HostsOK, At
<1>6. RunOK'
  BY <1>2 DEF RunOK, At
<1> QED
  BY <1>3, <1>4, <1>5, <1>6 DEF Inv

LEMMA EmbeddedInv ==
  ASSUME Inv, enable_embedded_registry
  PROVE  Inv'
<1>1. run \in Run /\ Inv
  BY DEF Inv, TypeOK
<1>2. /\ run' \in Run /\ run'.at = "registries" /\ run'.left = run.left
      /\ run'.no = run.no /\ run'.hosts = run.hosts
  BY <1>1, NextStep DEF enable_embedded_registry
<1>3. TypeOK'
  BY <1>2 DEF Inv, TypeOK, OnDisk, enable_embedded_registry, nodeVars, fileVars, k3sVars
<1>4. NoDuplicateEntries'
  BY DEF Inv, TypeOK, NoDuplicateEntries, enable_embedded_registry, fileVars
<1>5. HostsOK'
  BY <1>1, <1>2 DEF Inv, HostsOK, RunOK, At, Present, Contains, enable_embedded_registry, fileVars
<1>6. RunOK'
  BY <1>1, <1>2 DEF Inv, RunOK, At, OnDisk, enable_embedded_registry, fileVars, k3sVars
<1> QED
  BY <1>3, <1>4, <1>5, <1>6 DEF Inv

LEMMA DeployInv ==
  ASSUME Inv, deploy_registry_pod
  PROVE  Inv'
<1>1. run \in Run /\ Inv
  BY DEF Inv, TypeOK
<1>2. /\ run' \in Run /\ run'.no = run.no /\ run'.hosts = run.hosts
      /\ \/ run'.at = "registries" /\ run'.left = run.left
         \/ run'.at = "exit" /\ run'.status = 1
  <2>1. CASE Exit(1, TRUE)
    BY <1>1, <2>1, ExitRun
  <2>2. CASE run' = [run EXCEPT !.at = "registries"]
    BY <1>1, <2>2 DEF Run
  <2> QED
    BY <2>1, <2>2 DEF deploy_registry_pod
<1>3. TypeOK'
  BY <1>2 DEF Inv, TypeOK, OnDisk, deploy_registry_pod, nodeVars, fileVars, k3sVars
<1>4. NoDuplicateEntries'
  BY DEF Inv, TypeOK, NoDuplicateEntries, deploy_registry_pod, fileVars
<1>5. HostsOK'
  BY <1>1, <1>2 DEF Inv, HostsOK, RunOK, At, Present, Contains, deploy_registry_pod, fileVars
<1>6. RunOK'
  BY <1>1, <1>2 DEF Inv, RunOK, At, OnDisk, deploy_registry_pod, fileVars, k3sVars
<1> QED
  BY <1>3, <1>4, <1>5, <1>6 DEF Inv

LEMMA ConfigureHostInv ==
  ASSUME Inv, ConfigureHost
  PROVE  Inv'
<1> DEFINE host == Head(run.left)
<1>1. /\ run.left \in Seq(Hosts) /\ run.left # << >> /\ host \in Hosts /\ registries \in Seq(Hosts)
      /\ registries' = IF Present(host) THEN registries ELSE Append(registries, host)
      /\ run' = [run EXCEPT !.left = Tail(@), !.anyAdded = @ \/ ~Present(host)]
      /\ At("registries") /\ At("registries")' /\ run.no > 0
      /\ UNCHANGED <<nodeVars, embedded, k3sVars>>
  BY DEF Inv, TypeOK, Run, RunOK, ConfigureHost, At, WithEntry
<1>2. TypeOK'
  <2>1. run' \in Run
    <3>1. Tail(run.left) \in Seq(Hosts) /\ run \in Run
      BY <1>1 DEF Inv, TypeOK
    <3>2. ASSUME NEW rest \in Seq(Hosts), NEW added \in BOOLEAN
          PROVE  [run EXCEPT !.left = rest, !.anyAdded = added] \in Run
      BY <3>1 DEF Run
    <3>3. (run.anyAdded \/ ~Present(host)) \in BOOLEAN
      OBVIOUS
    <3> QED
      BY <1>1, <3>1, <3>2, <3>3
  <2> QED
    BY <1>1, <2>1 DEF Inv, TypeOK, nodeVars, k3sVars
<1>3. NoDuplicateEntries'
  BY <1>1, AppendKeeps DEF Inv, NoDuplicateEntries, Present, Found
<1>4. \A g : Found(registries, g) \/ g = host => Found(registries', g)
  <2>1. Present(host) <=> Found(registries, host)
    BY DEF Present, Found
  <2> QED
    BY <1>1, <2>1, AppendKeeps
<1>5. HostsOK'
  <2>1. run'.hosts = run.hosts /\ run'.left = Tail(run.left) /\ run'.no = run.no
    BY <1>1 DEF Inv, TypeOK, Run
  <2>2. ASSUME NEW i \in DOMAIN run'.hosts
        PROVE  Found(registries', run'.hosts[i]) \/ Contains(run'.left, run'.hosts[i])
    <3>1. Found(registries, run.hosts[i]) \/ Contains(run.left, run.hosts[i])
      BY <1>1, <2>1 DEF Inv, HostsOK, Present, Found
    <3> QED
      BY <1>1, <1>4, <2>1, <3>1, HeadOrTail
  <2> QED
    BY <1>1, <2>1, <2>2 DEF HostsOK, At, Present, Found
<1>6. RunOK'
  BY <1>1 DEF Inv, TypeOK, Run, RunOK, At
<1> QED
  BY <1>2, <1>3, <1>5, <1>6 DEF Inv

LEMMA EndConfigureInv ==
  ASSUME Inv, EndConfigure
  PROVE  Inv'
<1>1. run \in Run /\ Inv
  BY DEF Inv, TypeOK
<1>2. /\ run' \in Run /\ run'.no = run.no /\ run'.hosts = run.hosts
      /\ \/ run'.at = "restart" /\ run'.needsRestart
         \/ run'.at = "exit" /\ run'.status = 1
  <2>1. CASE run.anyAdded
    BY <1>1, <2>1, NextStep DEF EndConfigure, Configured
  <2>2. CASE ~run.anyAdded
    BY <1>1, <2>2, ExitRun DEF EndConfigure, Configured
  <2> QED
    BY <2>1, <2>2
<1>3. TypeOK'
  BY <1>2 DEF Inv, TypeOK, OnDisk, EndConfigure, nodeVars, fileVars, k3sVars
<1>4. NoDuplicateEntries'
  BY DEF Inv, TypeOK, NoDuplicateEntries, EndConfigure, fileVars
<1>5. HostsOK'
  BY <1>1, <1>2 DEF Inv, HostsOK, RunOK, At, Present, Contains, EndConfigure, fileVars
<1>6. RunOK'
  BY <1>1, <1>2 DEF Inv, RunOK, At, OnDisk, EndConfigure, fileVars, k3sVars
<1> QED
  BY <1>3, <1>4, <1>5, <1>6 DEF Inv

LEMMA FinishInv ==
  ASSUME Inv, Finish
  PROVE  Inv'
<1>1. run \in Run /\ Inv
  BY DEF Inv, TypeOK
<1>2. /\ run' \in Run /\ run'.no = run.no /\ run'.hosts = run.hosts /\ run'.at = "exit"
      /\ run'.status = 1 \/ run'.warned \/ loaded' = OnDisk
      /\ loaded' \in {loaded, OnDisk} /\ unit' \in {unit, "inactive"}
  <2>1. run.needsRestart
    BY DEF Inv, HostsOK, RunOK, Finish, At
  <2>2. CASE unit = "active" /\ run.role = kind
    BY <1>1, <2>1, <2>2, ExitRun DEF Finish, restart_k3s
  <2>3. CASE ~(unit = "active" /\ run.role = kind)
    <3>1. run' = [run EXCEPT !.at = "exit", !.warned = TRUE] /\ UNCHANGED k3sVars
      BY <2>1, <2>3 DEF Finish, restart_k3s
    <3> QED
      BY <1>1, <3>1 DEF Run, k3sVars
  <2> QED
    BY <2>2, <2>3
<1>3. TypeOK'
  <2>1. OnDisk \in [embedded : Nat, registries : Seq(Hosts)]
    BY DEF Inv, TypeOK, OnDisk
  <2>2. UNCHANGED <<nodeVars, fileVars>>
    BY DEF Finish
  <2> QED
    BY <1>2, <2>1, <2>2 DEF Inv, TypeOK, nodeVars, fileVars
<1>4. NoDuplicateEntries'
  BY DEF Inv, TypeOK, NoDuplicateEntries, Finish, fileVars
<1>5. HostsOK'
  BY <1>1, <1>2 DEF Inv, HostsOK, RunOK, At, Present, Contains, Finish, fileVars
<1>6. RunOK'
  BY <1>2 DEF RunOK, At, OnDisk, Finish, fileVars
<1> QED
  BY <1>3, <1>4, <1>5, <1>6 DEF Inv

LEMMA InterruptInv ==
  ASSUME Inv, Interrupt
  PROVE  Inv'
<1>1. run \in Run /\ Inv
  BY DEF Inv, TypeOK
<1>2. /\ run' \in Run /\ run'.no = run.no /\ run'.hosts = run.hosts
      /\ run'.at = "exit" /\ run'.status = 130
  BY <1>1, ExitRun DEF Interrupt
<1>3. TypeOK'
  BY <1>2 DEF Inv, TypeOK, OnDisk, Interrupt, nodeVars, fileVars, k3sVars
<1>4. NoDuplicateEntries'
  BY DEF Inv, TypeOK, NoDuplicateEntries, Interrupt, fileVars
<1>5. HostsOK'
  BY <1>1, <1>2 DEF Inv, HostsOK, RunOK, At, Present, Contains, Interrupt, fileVars
<1>6. RunOK'
  BY <1>1, <1>2 DEF Inv, RunOK, At, OnDisk, Interrupt, fileVars, k3sVars
<1> QED
  BY <1>3, <1>4, <1>5, <1>6 DEF Inv

LEMMA K3sInv ==
  ASSUME Inv, StartK3s \/ K3sIsUp \/ K3sStops
  PROVE  Inv'
<1>1. /\ UNCHANGED <<nodeVars, fileVars, run>>
      /\ loaded' \in {loaded, OnDisk} /\ unit' \in {"inactive", "activating", "active"}
  BY DEF StartK3s, K3sIsUp, K3sStops
<1>2. TypeOK'
  <2>1. OnDisk \in [embedded : Nat, registries : Seq(Hosts)]
    BY DEF Inv, TypeOK, OnDisk
  <2> QED
    BY <1>1, <2>1 DEF Inv, TypeOK, nodeVars, fileVars
<1>3. NoDuplicateEntries'
  BY <1>1 DEF Inv, NoDuplicateEntries, fileVars
<1>4. HostsOK'
  BY <1>1 DEF Inv, HostsOK, At, Present, fileVars
<1>5. RunOK'
  BY <1>1 DEF Inv, RunOK, At, OnDisk, fileVars
<1> QED
  BY <1>2, <1>3, <1>4, <1>5 DEF Inv

LEMMA NextInv == Inv /\ [Next]_vars => Inv'
<1> SUFFICES ASSUME Inv, [Next]_vars PROVE Inv'
  OBVIOUS
<1>1. CASE UNCHANGED vars
  BY <1>1 DEF Inv, TypeOK, NoDuplicateEntries, HostsOK, RunOK, At, OnDisk, vars, nodeVars, fileVars, k3sVars, Present, Contains
<1> QED
  BY <1>1, StartInv, EmbeddedInv, DeployInv, ConfigureHostInv, EndConfigureInv, FinishInv,
     InterruptInv, K3sInv DEF Next

(* The invariant holds in every reachable state.                           *)
THEOREM Invariance == Spec => []Inv
  BY InitInv, NextInv, PTL DEF Spec

(* The greps of setup-registry.sh:78 and :109 keep lines and entries       *)
(* unique for any hosts and any number of runs, complete or cut off.       *)
THEOREM EntriesAreUnique == Spec => []NoDuplicateEntries
  BY Invariance, PTL DEF Inv

(* A run that exits with 0 and no warning (setup-registry.sh:176-195) has  *)
(* had k3s started with the files as they are, whatever k3s did meanwhile, *)
(* and grep finds all of its hosts.                                        *)
THEOREM SuccessIsLoaded == Spec => []SuccessMeansLoaded
<1>1. Inv => SuccessMeansLoaded
  BY DEF Inv, HostsOK, RunOK, SuccessMeansLoaded
<1> QED
  BY <1>1, Invariance, PTL
===============================================================================
