--------------------------- MODULE WorkerMaintenance ---------------------------
(* One worker host and the three kinds of work that must keep off each other *)
(* there: maintenance jobs that change the VPN software over SSH, the tasks  *)
(* of a domain attack, and VPN control operations. What keeps them apart is  *)
(* the row lock of the worker together with three queries: the queued or     *)
(* running jobs, the active attack tasks, the active control operations.     *)
EXTENDS Naturals, Sequences

CONSTANTS Job, MaxCuts, NoJob

ASSUME JobAssumption == NoJob \notin Job

VARIABLES jobs,      \* the rows of worker_maintenance_jobs
          shell,     \* what the process of each job does: its stage, its commands
          rowLock,   \* the job that holds the worker row FOR UPDATE
          host,      \* the 3x-ui service and its inbound on the machine
          node,      \* the worker row
          attack,    \* the worker's newest task and its run
          control,   \* a VPN control operation of the worker is active
          cuts       \* restarts of the control process so far (a bound)
maintenanceVars == <<jobs, shell, rowLock, host, node, attack, control, cuts>>

VpnMutation == {"vpn_install", "vpn_update", "vpn_restart", "vpn_autoconfig", "vpn_create_inbound"}
Maintenance == VpnMutation \cup {"check", "install", "update", "vpn_check"}
Busy == {"queued", "running"}

(* The command list of an action, as what its commands do to the service. *)
CommandsOf(action) ==
  CASE action = "vpn_install" -> <<"install", "stop", "own", "compat", "start", "ready">>
    [] action = "vpn_update" -> <<"stop", "own", "update", "stop", "own", "compat", "start", "ready">>
    [] action = "vpn_restart" -> <<"start", "ready">>
    [] action = "vpn_create_inbound" -> <<"create", "detect">>
    [] action \in {"vpn_autoconfig", "vpn_check"} -> <<"detect">>
    [] OTHER -> <<"other">>

(* What each remote command needs of the service to succeed, and leaves. The *)
(* installer leaves a service alone that is there, and otherwise, like the   *)
(* updater, a stopped one; the owner is set on a stopped service only.       *)
Stopped(h) == [h EXCEPT !.service = IF @ = "absent" THEN @ ELSE "stopped"]
Installed(h) == [h EXCEPT !.service = IF @ = "absent" THEN "stopped" ELSE @]
Updated(h) == [h EXCEPT !.service = "stopped"]
Started(h) == [h EXCEPT !.service = "running"]
InboundCreated(h) ==
  IF h.service = "absent" THEN {h}
  ELSE {Started(h), [Started(h) EXCEPT !.inbound = h.service = "running" \/ @]}
OwnerSet(h) == h.service = "stopped"
Compatible(h) == h.service # "absent"
Answers(h) == h.service = "running"

Effects(h, command) ==
  CASE command = "install" -> {Installed(h)}
    [] command = "update" -> IF h.service = "absent" THEN {} ELSE {Updated(h)}
    [] command = "stop" -> {Stopped(h)}
    [] command = "own" -> IF OwnerSet(h) THEN {h} ELSE {}
    [] command = "compat" -> IF Compatible(h) THEN {h} ELSE {}
    [] command = "start" -> IF h.service = "absent" THEN {} ELSE {Started(h)}
    [] command = "create" -> InboundCreated(h)
    [] command = "ready" -> IF Answers(h) THEN {h} ELSE {}
    [] OTHER -> {h}
(* Their traps stop the service when they fail. *)
Botched(h, command) == IF command \in {"install", "update", "own", "ready"} THEN Stopped(h) ELSE h

Mutates(j) == jobs[j].action \in VpnMutation
ActiveMaintenance == \E j \in Job : Mutates(j) /\ jobs[j].status \in Busy
ActiveAttack == attack.task \in {"open", "verifying"}
Free == rowLock = NoJob

(* apply_vpn_autoconfig_metadata, on what the detection script saw. *)
Configured(n, h) ==
  LET seen == [n EXCEPT !.inbound = @ \/ h.inbound]
  IN  [seen EXCEPT !.runtime = IF h.service # "running" THEN "error"
                               ELSE IF seen.inbound THEN "ready" ELSE "needs_config"]
Succeeded(n, h, action) ==
  CASE action \in {"vpn_autoconfig", "vpn_create_inbound", "vpn_check"} -> Configured(n, h)
    [] action = "vpn_install" -> [n EXCEPT !.runtime = "needs_config"]
    [] action \in VpnMutation -> [n EXCEPT !.runtime = "ready"]
    [] OTHER -> n
Failed(n, action) ==
  IF action \in VpnMutation \cup {"vpn_check"} THEN [n EXCEPT !.runtime = "error"] ELSE n

(***************************** the panel **************************************)
(* _start_worker_maintenance_job and, when it skips a worker that has a job, *)
(* the three bulk routes.                                                    *)
Once(action) == \A j \in Job : jobs[j].action = action => jobs[j].status \notin Busy \cup {"succeeded"}
StartMaintenance(j) ==
  /\ Free /\ ~node.archived /\ jobs[j].status = "none"
  /\ \E action \in Maintenance :
       /\ action \in VpnMutation => ~control /\ ~ActiveAttack
       /\ action = "vpn_install" => node.runtime # "ready" /\ Once(action)
       /\ action = "install" => Once(action)
       /\ jobs' = [jobs EXCEPT ![j] = [action |-> action, status |-> "queued"]]
  /\ shell' = [shell EXCEPT ![j].stage = "queued"]
  /\ UNCHANGED <<rowLock, host, node, attack, control, cuts>>

(* decommission_worker; profiles bound to an endpoint are left out here. *)
Decommission ==
  /\ Free /\ ~node.archived /\ ~control /\ ~ActiveAttack
  /\ \A j \in Job : jobs[j].status \notin Busy
  /\ node' = [node EXCEPT !.archived = TRUE, !.enabled = FALSE, !.runtime = "decommissioned"]
  /\ UNCHANGED <<jobs, shell, rowLock, host, attack, control, cuts>>

UpdateWorker ==
  /\ Free /\ ~node.archived /\ ~control
  /\ node' = [node EXCEPT !.enabled = ~@]
  /\ UNCHANGED <<jobs, shell, rowLock, host, attack, control, cuts>>

(*************************** the process of a job *****************************)
Stage(j, stage) == shell' = [shell EXCEPT ![j] = [stage |-> stage, left |-> CommandsOf(jobs[j].action)]]
Ended == [stage |-> "ended", left |-> <<>>]

(* The running status is committed before the row lock is asked for. *)
Publish(j) ==
  /\ shell[j].stage = "queued"
  /\ jobs[j].action = "vpn_check" => Free
  /\ jobs' = [jobs EXCEPT ![j].status = "running"]
  /\ node' = IF jobs[j].action = "vpn_check" THEN [node EXCEPT !.runtime = "checking"] ELSE node
  /\ Stage(j, IF Mutates(j) THEN "published" ELSE "shell")
  /\ UNCHANGED <<rowLock, host, attack, control, cuts>>

\* Mutant of Reserved: the job trusts what its route has checked.
ReservedNever == control
Reserved == ActiveAttack \/ control
LockRow(j) ==
  /\ shell[j].stage = "published" /\ Free
  /\ IF Reserved
       THEN /\ jobs' = [jobs EXCEPT ![j].status = "failed"]
            /\ shell' = [shell EXCEPT ![j] = Ended]
            /\ UNCHANGED rowLock
       ELSE rowLock' = j /\ Stage(j, "shell") /\ UNCHANGED jobs
  /\ UNCHANGED <<host, node, attack, control, cuts>>

(* execute_worker_ssh_commands runs one command after the other and stops at *)
(* the first that fails; then the job's outcome is committed.                *)
Command(j) ==
  /\ shell[j].stage = "shell" /\ shell[j].left # <<>>
  /\ LET command == Head(shell[j].left)
     IN  \/ /\ host' \in Effects(host, command)
            /\ shell' = [shell EXCEPT ![j].left = Tail(@)]
         \/ /\ host' = Botched(host, command)
            /\ shell' = [shell EXCEPT ![j].stage = "broken"]
  /\ UNCHANGED <<jobs, rowLock, node, attack, control, cuts>>

Finish(j) ==
  /\ \/ shell[j].stage = "broken"
     \/ shell[j].stage = "shell" /\ shell[j].left = <<>>
  /\ rowLock \in {NoJob, j}
  /\ LET done == shell[j].stage = "shell"
     IN  /\ jobs' = [jobs EXCEPT ![j].status = IF done THEN "succeeded" ELSE "failed"]
         /\ node' = IF done THEN Succeeded(node, host, jobs[j].action) ELSE Failed(node, jobs[j].action)
  /\ shell' = [shell EXCEPT ![j] = Ended]
  /\ rowLock' = NoJob
  /\ UNCHANGED <<host, attack, control, cuts>>

(* The control process ends: nothing takes an interrupted job up again. *)
Cut ==
  /\ cuts < MaxCuts /\ cuts' = cuts + 1
  /\ shell' = [j \in Job |-> IF jobs[j].status = "none" THEN shell[j] ELSE Ended]
  /\ rowLock' = NoJob
  /\ UNCHANGED <<jobs, host, node, attack, control>>

(******************************* the attack ***********************************)
(* load_attack_available_workers and the planner that goes on with its lock. *)
PlanTask ==
  /\ Free /\ node.enabled /\ ~ActiveMaintenance /\ ~control
  /\ attack.task \in {"none", "lost"}
  /\ attack' = [task |-> "open", polled |-> FALSE]
  /\ UNCHANGED <<jobs, shell, rowLock, host, node, control, cuts>>

PollTask ==
  /\ attack.task = "open" /\ ~attack.polled
  /\ attack' = [attack EXCEPT !.polled = TRUE]
  /\ UNCHANGED <<jobs, shell, rowLock, host, node, control, cuts>>

(* The stop of a run, a worker not heard of, the end of a window and of its *)
(* verification: none of them locks the worker.                             *)
EndTask ==
  /\ attack' \in CASE attack.task = "open" ->
                        {[attack EXCEPT !.task = v] : v \in {"none", "lost", "verifying"}}
                   [] attack.task = "lost" ->
                        {[attack EXCEPT !.task = v] : v \in {"none", "verifying"}}
                   [] attack.task = "verifying" -> {[attack EXCEPT !.task = "none"]}
                   [] OTHER -> {}
  /\ UNCHANGED <<jobs, shell, rowLock, host, node, control, cuts>>

(* acknowledge_task that has read its task before it was cancelled revives *)
(* it; the event it stores refers to the worker row and waits for its lock. *)
Keyed == Free
Acknowledge ==
  /\ attack.polled /\ Keyed
  /\ \E fresh \in BOOLEAN :
       attack' = [task |-> IF fresh /\ attack.task # "verifying" THEN "open" ELSE attack.task,
                  polled |-> FALSE]
  /\ UNCHANGED <<jobs, shell, rowLock, host, node, control, cuts>>

(************************* VPN control operations *****************************)
BeginControl ==
  /\ Free /\ ~control /\ ~node.archived /\ ~ActiveAttack /\ ~ActiveMaintenance
  /\ control' = TRUE
  /\ UNCHANGED <<jobs, shell, rowLock, host, node, attack, cuts>>
EndControl ==
  /\ control /\ control' = FALSE
  /\ UNCHANGED <<jobs, shell, rowLock, host, node, attack, cuts>>

MaintenanceInit ==
  /\ jobs = [j \in Job |-> [action |-> "none", status |-> "none"]]
  /\ shell = [j \in Job |-> [stage |-> "none", left |-> <<>>]]
  /\ rowLock = NoJob
  /\ \E running \in BOOLEAN :
       /\ host = [service |-> IF running THEN "running" ELSE "absent", inbound |-> running]
       /\ node = [archived |-> FALSE, enabled |-> TRUE, inbound |-> running,
                  runtime |-> IF running THEN "ready" ELSE "not_installed"]
  /\ attack = [task |-> "none", polled |-> FALSE]
  /\ control = FALSE /\ cuts = 0

MaintenanceNext ==
  \/ \E j \in Job : StartMaintenance(j) \/ Publish(j) \/ LockRow(j) \/ Command(j) \/ Finish(j)
  \/ Decommission \/ UpdateWorker \/ Cut
  \/ PlanTask \/ PollTask \/ EndTask \/ Acknowledge
  \/ BeginControl \/ EndControl

MaintenanceSpec == MaintenanceInit /\ [][MaintenanceNext]_maintenanceVars

(* While the commands of a job that changes the VPN software run on the      *)
(* worker, no attack task of it is open, no control operation of it is       *)
(* active and no other such job runs its commands: the running status first, *)
(* the row lock next and the second look under it are enough, whatever the   *)
(* planner, a late acknowledgement, the panel or a restart do between them.  *)
ShellExcluded ==
  \A j \in Job : Mutates(j) /\ shell[j].stage = "shell" =>
    /\ attack.task # "open" /\ ~control /\ ~node.archived
    /\ \A i \in Job \ {j} : Mutates(i) => shell[i].stage # "shell"
=============================================================================
