----------------------------- MODULE RegistrySetup -----------------------------
(***************************************************************************)
(* The script setup-registry.sh on one node, run again and again: the two  *)
(* files it edits, what k3s has loaded of them, and the run under way.     *)
(* Under `set -e` a command that fails ends the run where it is, and so    *)
(* does a function whose last command fails.                               *)
(*                                                                         *)
(* k3s runs as the unit k3s on a server and as k3s-agent on an agent.  It  *)
(* reads the two files when its process starts, and it may be started,     *)
(* come up and stop at any time, during a run as well.  What it makes of   *)
(* a registries.yaml that repeats its top-level keys is its own affair:    *)
(* the model says which text it has read, not what it understood.          *)
(* k3s, kubectl and the people who start and stop k3s and interrupt runs   *)
(* are external.                                                           *)
(***************************************************************************)
EXTENDS Naturals, Sequences, SequencesExt

CONSTANTS Hosts,         \* "ip:port"
          Finds,         \* <<h, e>>: grep for h finds the block of e; h may be a part of e
          Arguments,     \* the lists of hosts a run may be given
          MaxRuns        \* bound

ASSUME RegistryAssumption ==
  /\ MaxRuns \in Nat
  /\ Arguments \subseteq Seq(Hosts)
  /\ \A host \in Hosts : <<host, host>> \in Finds

VARIABLES kind,          \* "server" or "agent": which of the two units the node has
          embeddable,    \* k3s has the embedded registry: minor >= 26
          embedded,      \* how many lines "embedded-registry:" config.yaml has
          registries,    \* the hosts of the blocks of registries.yaml; every block has
                         \* the keys mirrors: and configs: of its own
          unit,          \* of the node's unit: "inactive", "activating", "active"
          loaded,        \* [embedded, registries] as k3s read them when it was started last
          run            \* the run under way, or the last one

nodeVars == <<kind, embeddable>>
fileVars == <<embedded, registries>>
k3sVars == <<unit, loaded>>
vars == <<nodeVars, fileVars, k3sVars, run>>

Role == {"server", "agent"}
OnDisk == [embedded |-> embedded, registries |-> registries]

\* at: the step to come, or "exit"; role: as it was detected; left: the hosts to come;
\* warned: the run left a unit alone that it found inactive; failed: a command of the run
\* has failed by itself, or somebody interrupted it; status: the exit status.
Run == [at : {"deploy", "registries", "restart", "exit"}, no : 0 .. MaxRuns, role : Role,
        hosts : Seq(Hosts), left : Seq(Hosts), anyAdded : BOOLEAN, needsRestart : BOOLEAN,
        warned : BOOLEAN, failed : BOOLEAN, status : Nat]
Idle == [at |-> "exit", no |-> 0, role |-> "agent", hosts |-> << >>, left |-> << >>,
         anyAdded |-> FALSE, needsRestart |-> FALSE, warned |-> FALSE, failed |-> FALSE,
         status |-> 0]

Init ==
  /\ kind \in Role
  /\ embeddable \in BOOLEAN
  /\ embedded = 0 /\ registries = << >>
  /\ unit \in {"inactive", "activating", "active"}
  /\ loaded = OnDisk
  /\ run = Idle

At(step) == run.at = step
Exit(status, failed) == run' = [run EXCEPT !.at = "exit", !.status = status, !.failed = failed]

-----------------------------------------------------------------------------
(* The script.                                                             *)

\* A server is known by its unit, when that is active, or by its process, which is there
\* while the unit is activating too.  Every other node is taken for an agent, a server
\* whose k3s is stopped among them.
node_role == IF kind = "server" /\ unit # "inactive" THEN "server" ELSE "agent"

\* main, up to the version and the role of the node.
Start ==
  /\ At("exit")
  /\ run.no < MaxRuns
  /\ \E hosts \in Arguments :
       run' = [Idle EXCEPT !.at = IF node_role = "server" THEN "deploy" ELSE "registries",
                           !.no = run.no + 1, !.role = node_role,
                           !.hosts = hosts, !.left = hosts]
  /\ UNCHANGED <<nodeVars, fileVars, k3sVars>>

enable_embedded_registry ==
  /\ At("deploy") /\ embeddable
  /\ embedded' = IF embedded > 0 THEN embedded ELSE embedded + 1
  /\ run' = [run EXCEPT !.at = "registries", !.needsRestart = (embedded = 0)]
  /\ UNCHANGED <<nodeVars, registries, k3sVars>>

\* kubectl apply and kubectl rollout status, either of which may fail.
deploy_registry_pod ==
  /\ At("deploy") /\ ~embeddable
  /\ \/ run' = [run EXCEPT !.at = "registries"]
     \/ Exit(1, TRUE)
  /\ UNCHANGED <<nodeVars, fileVars, k3sVars>>

\* grep -q, which looks for the host anywhere, and the mutant that does not look.
Present_Never(host) == FALSE
Present(host) == \E i \in DOMAIN registries : <<host, registries[i]>> \in Finds

\* cat >>: one more block, whatever keys the file has.
WithEntry(host) == Append(registries, host)

\* One turn of the loop of configure_registries_yaml.
ConfigureHost ==
  /\ At("registries") /\ run.left # << >>
  /\ LET host == Head(run.left)
     IN  /\ registries' = IF Present(host) THEN registries ELSE WithEntry(host)
         /\ run' = [run EXCEPT !.left = Tail(@), !.anyAdded = @ \/ ~Present(host)]
  /\ UNCHANGED <<nodeVars, embedded, k3sVars>>

\* The last line, `[[ any_added == true ]] && K3S_NEEDS_RESTART=true`: without an added
\* entry the function returns 1, and set -e ends the script.  The mutant returns 0.
Configured_Quietly ==
  run' = [run EXCEPT !.at = "restart", !.needsRestart = @ \/ run.anyAdded]
Configured ==
  IF run.anyAdded THEN run' = [run EXCEPT !.at = "restart", !.needsRestart = TRUE]
                  ELSE Exit(1, FALSE)

EndConfigure ==
  /\ At("registries") /\ run.left = << >>
  /\ Configured
  /\ UNCHANGED <<nodeVars, fileVars, k3sVars>>

\* restart_k3s: the unit that goes with the role is restarted when it is active, and k3s
\* may not come up, or refuse the files; otherwise there is a warning and nothing else.
restart_k3s ==
  IF unit = "active" /\ run.role = kind
  THEN \/ loaded' = OnDisk /\ UNCHANGED unit /\ Exit(0, FALSE)
       \/ unit' = "inactive" /\ loaded' \in {loaded, OnDisk} /\ Exit(1, TRUE)
  ELSE /\ run' = [run EXCEPT !.at = "exit", !.warned = TRUE]
       /\ UNCHANGED k3sVars

\* The end of main: restart_k3s, or "No config changes required", and the summary.
Finish ==
  /\ At("restart")
  /\ IF run.needsRestart THEN restart_k3s ELSE Exit(0, FALSE) /\ UNCHANGED k3sVars
  /\ UNCHANGED <<nodeVars, fileVars>>

\* Ctrl-C, or a lost connection, between two commands.
Interrupt ==
  /\ ~At("exit")
  /\ Exit(130, TRUE)
  /\ UNCHANGED <<nodeVars, fileVars, k3sVars>>

-----------------------------------------------------------------------------
(* k3s, which somebody starts and stops and the node boots.                *)

StartK3s ==
  /\ unit = "inactive"
  /\ unit' = "activating"
  /\ loaded' = OnDisk
  /\ UNCHANGED <<nodeVars, fileVars, run>>

K3sIsUp ==
  /\ unit = "activating"
  /\ unit' = "active"
  /\ UNCHANGED <<nodeVars, fileVars, loaded, run>>

K3sStops ==
  /\ unit # "inactive"
  /\ unit' = "inactive"
  /\ UNCHANGED <<nodeVars, fileVars, loaded, run>>

Next ==
  \/ Start
  \/ enable_embedded_registry
  \/ deploy_registry_pod
  \/ ConfigureHost
  \/ EndConfigure
  \/ Finish
  \/ Interrupt
  \/ StartK3s
  \/ K3sIsUp
  \/ K3sStops

Spec == Init /\ [][Next]_vars

-----------------------------------------------------------------------------
(* Properties.                                                             *)

TypeOK ==
  /\ kind \in Role /\ embeddable \in BOOLEAN
  /\ embedded \in Nat /\ registries \in Seq(Hosts)
  /\ unit \in {"inactive", "activating", "active"}
  /\ loaded \in [embedded : Nat, registries : Seq(Hosts)]
  /\ run \in Run

(* However often the script is run, interrupted and run again, with        *)
(* whatever hosts, config.yaml has one line for the embedded registry and  *)
(* registries.yaml no two blocks for one host (the greps of lines 78 and   *)
(* 109).  Every block repeats the lines mirrors: and configs:.             *)
NoDuplicateEntries == embedded <= 1 /\ IsInjective(registries)

(* A run that reports success, and has not said that it leaves k3s alone,  *)
(* has left a k3s that was started with the files as they are, with what   *)
(* this run wrote and what one before it wrote that was cut off before its *)
(* restart, however k3s started and stopped meanwhile.  And grep finds     *)
(* each of its hosts in the file: in a block of its own, or as a part of   *)
(* another one's.                                                          *)
SuccessMeansLoaded ==
  At("exit") /\ run.no > 0 /\ run.status = 0 =>
    /\ ~run.warned => loaded = OnDisk
    /\ \A i \in DOMAIN run.hosts : Present(run.hosts[i])

(* The script has a message for a run that finds everything in place, "No  *)
(* config changes required - no restart needed." (line 179), and means it  *)
(* to succeed: a run fails when one of its commands does, or somebody      *)
(* interrupts it.                                                          *)
FailsOnlyWithACause == At("exit") /\ run.status # 0 => run.failed
===============================================================================
