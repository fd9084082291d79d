------------------------ MODULE WorkerMaintenanceProofs ------------------------
(* Proofs about WorkerMaintenance for any number of maintenance jobs and      *)
(* restarts of the control process, and about LegacyKeys, the scripts on the  *)
(* same machines that place and remove the keys of unbound nodes, for any     *)
(* number of keys, of cut connections and of scripts that run late.           *)
EXTENDS WorkerMaintenance, LegacyKeys, TLAPS

-----------------------------------------------------------------------------
(* The maintenance jobs                                                       *)

Services == {"absent", "stopped", "running"}
Runtimes == {"not_installed", "needs_config", "checking", "ready", "error", "decommissioned"}
Stages == {"none", "queued", "published", "shell", "broken", "ended"}
Commands == {"install", "update", "stop", "own", "compat", "start", "ready", "create", "detect",
             "other"}

JobRows == [action: Maintenance \cup {"none"},
            status: {"none", "queued", "running", "succeeded", "failed"}]
Shells == [stage: Stages, left: Seq(Commands)]
Hosts == [service: Services, inbound: BOOLEAN]
Nodes == [archived: BOOLEAN, enabled: BOOLEAN, inbound: BOOLEAN, runtime: Runtimes]
Attacks == [task: {"none", "open", "lost", "verifying"}, polled: BOOLEAN]

MaintenanceTypeOK ==
  /\ jobs \in [Job -> JobRows] /\ shell \in [Job -> Shells]
  /\ rowLock \in Job \cup {NoJob}
  /\ host \in Hosts /\ node \in Nodes /\ attack \in Attacks
  /\ control \in BOOLEAN /\ cuts \in Nat

(* A job's row says so as long as its process goes on.                        *)
RowsInv ==
  \A j \in Job :
    /\ shell[j].stage = "none" <=> jobs[j].status = "none"
    /\ shell[j].stage = "queued" => jobs[j].status = "queued"
    /\ shell[j].stage \in {"published", "shell", "broken"} => jobs[j].status = "running"
    /\ shell[j].stage = "published" => Mutates(j)

(* Who changes the VPN software holds the worker row, and nobody else.        *)
LockInv ==
  \A j \in Job : rowLock = j <=> Mutates(j) /\ shell[j].stage \in {"shell", "broken"}

(* Under the lock the worker is not archived and has nothing else to do.      *)
QuietInv ==
  rowLock # NoJob => attack.task # "open" /\ ~control

(* A worker with a job is not archived.                                       *)
ArchivedInv ==
  \A j \in Job : jobs[j].status \in Busy => ~node.archived

MaintenanceInv == MaintenanceTypeOK /\ RowsInv /\ LockInv /\ QuietInv /\ ArchivedInv

-----------------------------------------------------------------------------
(* What the operators return                                                  *)

(* A command leaves the machine in a state it can be in.                      *)
LEMMA HostAfter ==
  ASSUME NEW h \in Hosts, NEW command \in Commands
  PROVE  Effects(h, command) \subseteq Hosts /\ Botched(h, command) \in Hosts
<1>1. /\ Stopped(h) \in Hosts /\ Installed(h) \in Hosts /\ Updated(h) \in Hosts
      /\ Started(h) \in Hosts
  BY DEF Stopped, Installed, Updated, Started, Hosts, Services
<1>2. InboundCreated(h) \subseteq Hosts
  BY DEF InboundCreated, Started, Hosts, Services
<1>3. Effects(h, command) \subseteq Hosts
  <2>1. CASE command \in {"install", "update", "stop", "start"}
    BY <1>1, <2>1 DEF Effects
  <2>2. CASE command \in {"own", "compat", "ready"}
    BY <2>2 DEF Effects
  <2>3. CASE command = "create"
    BY <1>2, <2>3 DEF Effects
  <2>4. CASE command \in {"detect", "other"}
    BY <2>4 DEF Effects
  <2> QED BY <2>1, <2>2, <2>3, <2>4 DEF Commands
<1>4. Botched(h, command) \in Hosts
  BY <1>1 DEF Botched
<1> QED BY <1>3, <1>4

(* The outcome of a job never archives a worker.                              *)
LEMMA NodeAfter ==
  ASSUME NEW n \in Nodes, NEW h \in Hosts, NEW action
  PROVE  /\ Succeeded(n, h, action) \in Nodes
         /\ Succeeded(n, h, action).archived = n.archived
         /\ Failed(n, action) \in Nodes /\ Failed(n, action).archived = n.archived
<1>1. Configured(n, h) \in Nodes /\ Configured(n, h).archived = n.archived
  BY DEF Configured, Nodes, Hosts, Runtimes
<1>2. ASSUME NEW runtime \in Runtimes
      PROVE  /\ [n EXCEPT !.runtime = runtime] \in Nodes
             /\ [n EXCEPT !.runtime = runtime].archived = n.archived
  BY DEF Nodes
<1>3. Succeeded(n, h, action) \in {n, Configured(n, h), [n EXCEPT !.runtime = "needs_config"],
                                   [n EXCEPT !.runtime = "ready"]}
  BY DEF Succeeded
<1>4. Failed(n, action) \in {n, [n EXCEPT !.runtime = "error"]}
  BY DEF Failed
<1> QED BY <1>1, <1>2, <1>3, <1>4 DEF Runtimes

(* A row and a process stay what they are when one of their fields changes.   *)
LEMMA RowAfter ==
  ASSUME MaintenanceTypeOK, NEW j \in Job
  PROVE  /\ jobs[j] \in JobRows /\ shell[j] \in Shells /\ Ended \in Shells
         /\ \A status \in {"none", "queued", "running", "succeeded", "failed"} :
              [jobs[j] EXCEPT !.status = status] \in JobRows
         /\ \A stage \in Stages : [shell[j] EXCEPT !.stage = stage] \in Shells
         /\ \A left \in Seq(Commands) : [shell[j] EXCEPT !.left = left] \in Shells
<1>1. jobs[j] \in JobRows /\ shell[j] \in Shells
  BY DEF MaintenanceTypeOK
<1>2. Ended \in Shells
  BY DEF Ended, Shells, Stages
<1> QED BY <1>1, <1>2 DEF JobRows, Shells

(* Every action has its commands.                                             *)
LEMMA CommandsTyped == ASSUME NEW action PROVE CommandsOf(action) \in Seq(Commands)
<1>1. /\ <<"install", "stop", "own", "compat", "start", "ready">> \in Seq(Commands)
      /\ <<"stop", "own", "update", "stop", "own", "compat", "start", "ready">> \in Seq(Commands)
      /\ <<"start", "ready">> \in Seq(Commands)
      /\ <<"create", "detect">> \in Seq(Commands)
      /\ <<"detect">> \in Seq(Commands) /\ <<"other">> \in Seq(Commands)
  BY DEF Commands
<1>2. CASE action \in {"vpn_install", "vpn_update", "vpn_restart", "vpn_create_inbound"}
  BY <1>1, <1>2 DEF CommandsOf
<1>3. CASE action \in {"vpn_autoconfig", "vpn_check"}
  BY <1>1, <1>3 DEF CommandsOf
<1>4. CASE action \notin {"vpn_install", "vpn_update", "vpn_restart", "vpn_create_inbound",
                         "vpn_autoconfig", "vpn_check"}
  BY <1>1, <1>4 DEF CommandsOf
<1> QED BY <1>2, <1>3, <1>4

-----------------------------------------------------------------------------
(* The invariant                                                              *)

LEMMA InitMaintenanceInv == MaintenanceInit => MaintenanceInv
<1> SUFFICES ASSUME MaintenanceInit PROVE MaintenanceInv
  OBVIOUS
<1>1. MaintenanceTypeOK
  <2>1. jobs \in [Job -> JobRows] /\ shell \in [Job -> Shells]
    BY DEF MaintenanceInit, JobRows, Shells, Stages
  <2>2. host \in Hosts /\ node \in Nodes /\ attack \in Attacks
    BY DEF MaintenanceInit, Hosts, Nodes, Attacks, Services, Runtimes
  <2> QED BY <2>1, <2>2 DEF MaintenanceInit, MaintenanceTypeOK
<1>2. RowsInv /\ LockInv /\ QuietInv /\ ArchivedInv
  BY JobAssumption DEF MaintenanceInit, RowsInv, LockInv, QuietInv, ArchivedInv, Busy
<1> QED BY <1>1, <1>2 DEF MaintenanceInv

(* The route: a new job is queued on a worker that is not archived.           *)
LEMMA StartKeeps ==
  ASSUME MaintenanceInv, NEW j \in Job, StartMaintenance(j) PROVE MaintenanceInv'
<1> USE DEF MaintenanceInv
<1>1. PICK action \in Maintenance : jobs' = [jobs EXCEPT ![j] = [action |-> action, status |-> "queued"]]
  BY DEF StartMaintenance
<1>2. /\ ~node.archived /\ jobs[j].status = "none" /\ rowLock = NoJob
      /\ shell' = [shell EXCEPT ![j].stage = "queued"]
      /\ UNCHANGED <<rowLock, host, node, attack, control, cuts>>
  BY DEF StartMaintenance, Free
<1>3. /\ jobs'[j] = [action |-> action, status |-> "queued"]
      /\ shell'[j].stage = "queued" /\ shell'[j].left = shell[j].left
      /\ \A i \in Job \ {j} : jobs'[i] = jobs[i] /\ shell'[i] = shell[i]
  BY <1>1, <1>2 DEF MaintenanceTypeOK
<1>4. MaintenanceTypeOK'
  <2>1. [action |-> action, status |-> "queued"] \in JobRows
    BY DEF JobRows
  <2>2. [shell[j] EXCEPT !.stage = "queued"] \in Shells
    BY RowAfter DEF Stages
  <2> QED BY <1>1, <1>2, <2>1, <2>2 DEF MaintenanceTypeOK
<1>5. RowsInv'
  BY <1>3 DEF RowsInv, Mutates
<1>6. LockInv'
  BY <1>2, <1>3, JobAssumption DEF LockInv, RowsInv, Mutates
<1>7. QuietInv' /\ ArchivedInv'
  BY <1>2, <1>3 DEF QuietInv, ArchivedInv
<1> QED BY <1>4, <1>5, <1>6, <1>7

(* The process shows that it runs, and asks for the row afterwards.           *)
LEMMA PublishKeeps ==
  ASSUME MaintenanceInv, NEW j \in Job, Publish(j) PROVE MaintenanceInv'
<1> USE DEF MaintenanceInv
<1> DEFINE next == IF Mutates(j) THEN "published" ELSE "shell"
<1>1. /\ shell[j].stage = "queued"
      /\ jobs' = [jobs EXCEPT ![j].status = "running"]
      /\ shell' = [shell EXCEPT ![j] = [stage |-> next, left |-> CommandsOf(jobs[j].action)]]
      /\ node' \in {node, [node EXCEPT !.runtime = "checking"]}
      /\ UNCHANGED <<rowLock, host, attack, control, cuts>>
  BY DEF Publish, Stage
<1>2. /\ jobs'[j].status = "running" /\ jobs'[j].action = jobs[j].action
      /\ shell'[j].stage = next
      /\ \A i \in Job \ {j} : jobs'[i] = jobs[i] /\ shell'[i] = shell[i]
  BY <1>1 DEF MaintenanceTypeOK
<1>3. jobs[j].status = "queued"
  BY <1>1 DEF RowsInv
<1>4. MaintenanceTypeOK'
  <2>1. [jobs[j] EXCEPT !.status = "running"] \in JobRows
    BY RowAfter
  <2>2. [stage |-> next, left |-> CommandsOf(jobs[j].action)] \in Shells
    BY CommandsTyped DEF Shells, Stages
  <2>3. node' \in Nodes
    BY <1>1 DEF MaintenanceTypeOK, Nodes, Runtimes
  <2> QED BY <1>1, <2>1, <2>2, <2>3 DEF MaintenanceTypeOK
<1>5. RowsInv'
  BY <1>2 DEF RowsInv, Mutates
<1>6. LockInv'
  <2>1. ASSUME NEW i \in Job \ {j}
        PROVE  rowLock' = i <=> Mutates(i)' /\ shell'[i].stage \in {"shell", "broken"}
    BY <1>1, <1>2 DEF LockInv, Mutates
  <2>2. rowLock' # j
    BY <1>1 DEF LockInv
  <2>3. ~ (Mutates(j)' /\ shell'[j].stage \in {"shell", "broken"})
    BY <1>2 DEF Mutates
  <2> QED BY <2>1, <2>2, <2>3 DEF LockInv
<1>7. node'.archived = node.archived
  BY <1>1 DEF MaintenanceTypeOK, Nodes
<1>8. QuietInv' /\ ArchivedInv'
  BY <1>1, <1>2, <1>3, <1>7 DEF QuietInv, ArchivedInv, Busy
<1> QED BY <1>4, <1>5, <1>6, <1>8

(* The row lock is taken by one job, after another look for an attack and for *)
(* control operations.                                                        *)
LEMMA LockRowKeeps ==
  ASSUME MaintenanceInv, NEW j \in Job, LockRow(j) PROVE MaintenanceInv'
<1> USE DEF MaintenanceInv
<1>1. /\ shell[j].stage = "published" /\ rowLock = NoJob
      /\ jobs[j].status = "running" /\ Mutates(j)
      /\ UNCHANGED <<host, node, attack, control, cuts>>
  BY DEF LockRow, Free, RowsInv
<1>2. CASE Reserved
  <2>1. /\ jobs' = [jobs EXCEPT ![j].status = "failed"]
        /\ shell' = [shell EXCEPT ![j] = Ended] /\ rowLock' = rowLock
    BY <1>2 DEF LockRow
  <2>2. /\ jobs'[j].status = "failed" /\ jobs'[j].action = jobs[j].action
        /\ shell'[j].stage = "ended"
        /\ \A i \in Job \ {j} : jobs'[i] = jobs[i] /\ shell'[i] = shell[i]
    BY <2>1 DEF MaintenanceTypeOK, Ended
  <2>3. MaintenanceTypeOK'
    <3>1. [jobs[j] EXCEPT !.status = "failed"] \in JobRows /\ Ended \in Shells
      BY RowAfter
    <3> QED BY <1>1, <2>1, <3>1 DEF MaintenanceTypeOK
  <2>4. RowsInv' /\ LockInv'
    BY <1>1, <2>1, <2>2, JobAssumption DEF RowsInv, LockInv, Mutates
  <2>5. QuietInv' /\ ArchivedInv'
    BY <1>1, <2>1, <2>2 DEF QuietInv, ArchivedInv, Busy
  <2> QED BY <2>3, <2>4, <2>5
<1>3. CASE ~ Reserved
  <2>1. /\ jobs' = jobs /\ rowLock' = j
        /\ shell' = [shell EXCEPT ![j] = [stage |-> "shell", left |-> CommandsOf(jobs[j].action)]]
    BY <1>3 DEF LockRow, Stage
  <2>2. /\ shell'[j].stage = "shell" /\ \A i \in Job \ {j} : shell'[i] = shell[i]
    BY <2>1 DEF MaintenanceTypeOK
  <2>3. MaintenanceTypeOK'
    <3>1. [stage |-> "shell", left |-> CommandsOf(jobs[j].action)] \in Shells
      BY CommandsTyped DEF Shells, Stages
    <3> QED BY <1>1, <2>1, <3>1 DEF MaintenanceTypeOK
  <2>4. RowsInv'
    BY <1>1, <2>1, <2>2 DEF RowsInv, Mutates
  <2>5. LockInv'
    BY <1>1, <2>1, <2>2, JobAssumption DEF LockInv, Mutates
  <2>6. QuietInv' /\ ArchivedInv'
    BY <1>1, <1>3, <2>1 DEF QuietInv, ArchivedInv, Reserved, ActiveAttack
  <2> QED BY <2>3, <2>4, <2>5, <2>6
<1> QED BY <1>2, <1>3

(* A command, or its failure, keeps the lock.                                 *)
LEMMA CommandKeeps ==
  ASSUME MaintenanceInv, NEW j \in Job, Command(j) PROVE MaintenanceInv'
<1> USE DEF MaintenanceInv
<1>1. /\ shell[j].stage = "shell" /\ shell[j].left # <<>>
      /\ \/ /\ host' \in Effects(host, Head(shell[j].left))
            /\ shell' = [shell EXCEPT ![j].left = Tail(@)]
         \/ /\ host' = Botched(host, Head(shell[j].left))
            /\ shell' = [shell EXCEPT ![j].stage = "broken"]
      /\ UNCHANGED <<jobs, rowLock, node, attack, control, cuts>>
  BY DEF Command
<1>2. /\ shell[j].left \in Seq(Commands) /\ Head(shell[j].left) \in Commands
      /\ Tail(shell[j].left) \in Seq(Commands)
  BY <1>1 DEF MaintenanceTypeOK, Shells
<1>3. host' \in Hosts
  BY <1>1, <1>2, HostAfter DEF MaintenanceTypeOK
<1>4. /\ [shell[j] EXCEPT !.left = Tail(@)] \in Shells
      /\ [shell[j] EXCEPT !.stage = "broken"] \in Shells
  BY <1>2, RowAfter DEF Stages
<1>5. MaintenanceTypeOK'
  BY <1>1, <1>3, <1>4 DEF MaintenanceTypeOK
<1>6. /\ shell'[j].stage \in {"shell", "broken"}
      /\ \A i \in Job \ {j} : shell'[i] = shell[i]
  BY <1>1 DEF MaintenanceTypeOK, Shells
<1>7. RowsInv' /\ LockInv'
  BY <1>1, <1>6 DEF RowsInv, LockInv, Mutates
<1>8. QuietInv' /\ ArchivedInv'
  BY <1>1 DEF QuietInv, ArchivedInv
<1> QED BY <1>5, <1>7, <1>8

(* The outcome is committed and the lock goes with the transaction.           *)
LEMMA FinishKeeps ==
  ASSUME MaintenanceInv, NEW j \in Job, Finish(j) PROVE MaintenanceInv'
<1> USE DEF MaintenanceInv
<1> DEFINE done == shell[j].stage = "shell"
<1>1. /\ shell[j].stage \in {"shell", "broken"} /\ rowLock \in {NoJob, j}
      /\ jobs' = [jobs EXCEPT ![j].status = IF done THEN "succeeded" ELSE "failed"]
      /\ node' = IF done THEN Succeeded(node, host, jobs[j].action) ELSE Failed(node, jobs[j].action)
      /\ shell' = [shell EXCEPT ![j] = Ended]
      /\ rowLock' = NoJob
      /\ UNCHANGED <<host, attack, control, cuts>>
  BY DEF Finish
<1>2. /\ jobs'[j].status \in {"succeeded", "failed"} /\ jobs'[j].action = jobs[j].action
      /\ shell'[j].stage = "ended"
      /\ \A i \in Job \ {j} : jobs'[i] = jobs[i] /\ shell'[i] = shell[i]
  BY <1>1 DEF MaintenanceTypeOK, Ended
<1>3. node' \in Nodes /\ node'.archived = node.archived
  BY <1>1, NodeAfter DEF MaintenanceTypeOK
<1>4. MaintenanceTypeOK'
  <2>1. /\ [jobs[j] EXCEPT !.status = IF done THEN "succeeded" ELSE "failed"] \in JobRows
        /\ Ended \in Shells
    BY RowAfter
  <2> QED BY <1>1, <1>3, <2>1 DEF MaintenanceTypeOK
<1>5. RowsInv'
  BY <1>2 DEF RowsInv, Mutates
<1>6. LockInv'
  BY <1>1, <1>2, JobAssumption DEF LockInv, Mutates
<1>7. QuietInv' /\ ArchivedInv'
  BY <1>1, <1>2, <1>3 DEF QuietInv, ArchivedInv, Busy
<1> QED BY <1>4, <1>5, <1>6, <1>7

(* A restart ends every process and gives the lock back; the rows stay.       *)
LEMMA CutKeeps == ASSUME MaintenanceInv, Cut PROVE MaintenanceInv'
<1> USE DEF MaintenanceInv
<1>1. /\ shell' = [j \in Job |-> IF jobs[j].status = "none" THEN shell[j] ELSE Ended]
      /\ rowLock' = NoJob /\ cuts' = cuts + 1
      /\ UNCHANGED <<jobs, host, node, attack, control>>
  BY DEF Cut
<1>2. \A j \in Job : shell'[j].stage \in {"none", "ended"}
                     /\ (shell'[j].stage = "none" <=> jobs[j].status = "none")
  BY <1>1 DEF RowsInv, Ended
<1>3. MaintenanceTypeOK'
  <2>1. \A j \in Job : shell[j] \in Shells /\ Ended \in Shells
    BY RowAfter
  <2> QED BY <1>1, <2>1 DEF MaintenanceTypeOK
<1>4. RowsInv' /\ LockInv' /\ QuietInv' /\ ArchivedInv'
  BY <1>1, <1>2, JobAssumption DEF RowsInv, LockInv, QuietInv, ArchivedInv, Mutates
<1> QED BY <1>3, <1>4

(* What the panel, the attack and the control queue do leaves the jobs alone, *)
(* and the row alone while a job holds it.                                    *)
LEMMA AsideKeeps ==
  ASSUME MaintenanceInv, UNCHANGED <<jobs, shell, rowLock, host, cuts>>, MaintenanceTypeOK',
         attack'.task = "open" => rowLock = NoJob \/ attack.task = "open",
         control' => rowLock = NoJob \/ control,
         node'.archived => node.archived \/ \A j \in Job : jobs[j].status \notin Busy
  PROVE  MaintenanceInv'
<1> USE DEF MaintenanceInv
<1>1. RowsInv' /\ LockInv'
  BY DEF RowsInv, LockInv, Mutates
<1>2. QuietInv' /\ ArchivedInv'
  BY DEF QuietInv, ArchivedInv
<1> QED BY <1>1, <1>2

LEMMA PanelKeeps ==
  ASSUME MaintenanceInv, Decommission \/ UpdateWorker PROVE MaintenanceInv'
<1>1. MaintenanceTypeOK'
  BY DEF MaintenanceInv, MaintenanceTypeOK, Nodes, Decommission, UpdateWorker, Runtimes
<1>2. /\ UNCHANGED <<jobs, shell, rowLock, host, cuts, attack, control>>
      /\ node'.archived => node.archived \/ \A j \in Job : jobs[j].status \notin Busy
  BY DEF Decommission, UpdateWorker, MaintenanceInv, MaintenanceTypeOK, Nodes
<1> QED BY <1>1, <1>2, AsideKeeps

LEMMA AttackKeeps ==
  ASSUME MaintenanceInv, PlanTask \/ PollTask \/ EndTask \/ Acknowledge PROVE MaintenanceInv'
<1>0. attack \in Attacks
  BY DEF MaintenanceInv, MaintenanceTypeOK
<1>1. UNCHANGED <<jobs, shell, rowLock, host, node, control, cuts>>
  BY DEF PlanTask, PollTask, EndTask, Acknowledge
<1>2. /\ attack' \in Attacks
      /\ attack'.task = "open" => rowLock = NoJob \/ attack.task = "open"
  <2>1. CASE PlanTask
    BY <2>1 DEF PlanTask, Free, Attacks
  <2>2. CASE PollTask
    BY <1>0, <2>2 DEF PollTask, Attacks
  <2>3. CASE EndTask
    <3>1. CASE attack.task = "open"
      BY <1>0, <2>3, <3>1 DEF EndTask, Attacks
    <3>2. CASE attack.task = "lost"
      BY <1>0, <2>3, <3>2 DEF EndTask, Attacks
    <3>3. CASE attack.task = "verifying"
      BY <1>0, <2>3, <3>3 DEF EndTask, Attacks
    <3>4. CASE attack.task = "none"
      BY <1>0, <2>3, <3>4 DEF EndTask, Attacks
    <3> QED BY <1>0, <3>1, <3>2, <3>3, <3>4 DEF Attacks
  <2>4. CASE Acknowledge
    BY <1>0, <2>4 DEF Acknowledge, Keyed, Free, Attacks
  <2> QED BY <2>1, <2>2, <2>3, <2>4
<1>3. MaintenanceTypeOK'
  BY <1>1, <1>2 DEF MaintenanceInv, MaintenanceTypeOK
<1> QED BY <1>1, <1>2, <1>3, AsideKeeps

LEMMA ControlKeeps ==
  ASSUME MaintenanceInv, BeginControl \/ EndControl PROVE MaintenanceInv'
<1>1. /\ UNCHANGED <<jobs, shell, rowLock, host, node, attack, cuts>>
      /\ control' \in BOOLEAN
      /\ control' => rowLock = NoJob \/ control
  BY DEF BeginControl, EndControl, Free
<1>2. MaintenanceTypeOK'
  BY <1>1 DEF MaintenanceInv, MaintenanceTypeOK
<1> QED BY <1>1, <1>2, AsideKeeps

LEMMA NextMaintenanceInv ==
  MaintenanceInv /\ [MaintenanceNext]_maintenanceVars => MaintenanceInv'
<1> SUFFICES ASSUME MaintenanceInv, [MaintenanceNext]_maintenanceVars PROVE MaintenanceInv'
  OBVIOUS
<1>1. ASSUME NEW j \in Job,
             StartMaintenance(j) \/ Publish(j) \/ LockRow(j) \/ Command(j) \/ Finish(j)
      PROVE  MaintenanceInv'
  BY <1>1, StartKeeps, PublishKeeps, LockRowKeeps, CommandKeeps, FinishKeeps
<1>2. CASE Decommission \/ UpdateWorker \/ Cut
  BY <1>2, PanelKeeps, CutKeeps
<1>3. CASE PlanTask \/ PollTask \/ EndTask \/ Acknowledge
  BY <1>3, AttackKeeps
<1>4. CASE BeginControl \/ EndControl
  BY <1>4, ControlKeeps
<1>5. CASE UNCHANGED maintenanceVars
  <2>1. UNCHANGED <<jobs, shell, rowLock, host, node, attack, control, cuts>>
    BY <1>5 DEF maintenanceVars
  <2>2. MaintenanceTypeOK'
    BY <2>1 DEF MaintenanceInv, MaintenanceTypeOK
  <2> QED BY <2>1, <2>2, AsideKeeps
<1> QED BY <1>1, <1>2, <1>3, <1>4, <1>5 DEF MaintenanceNext

-----------------------------------------------------------------------------
(* The theorems                                                               *)

(* The rows, the processes and the row lock of a worker agree whatever is     *)
(* started, planned or cut.                                                   *)
THEOREM MaintenanceInductiveInvariant == MaintenanceSpec => []MaintenanceInv
<1>1. MaintenanceInit => MaintenanceInv
  BY InitMaintenanceInv
<1>2. MaintenanceInv /\ [MaintenanceNext]_maintenanceVars => MaintenanceInv'
  BY NextMaintenanceInv
<1> QED BY <1>1, <1>2, PTL DEF MaintenanceSpec

(* The running status first, the row lock next and the second look under it   *)
(* keep an open attack task, an active control operation and every other      *)
(* changing job away while commands change the VPN software of a worker.      *)
THEOREM ShellIsExclusive == MaintenanceSpec => []ShellExcluded
<1>1. MaintenanceInv => ShellExcluded
  <2> SUFFICES ASSUME MaintenanceInv, NEW j \in Job, Mutates(j), shell[j].stage = "shell"
               PROVE  /\ attack.task # "open" /\ ~control /\ ~node.archived
                      /\ \A i \in Job \ {j} : Mutates(i) => shell[i].stage # "shell"
    BY DEF ShellExcluded
  <2>1. rowLock = j /\ rowLock # NoJob
    BY JobAssumption DEF MaintenanceInv, LockInv
  <2>2. attack.task # "open" /\ ~control
    BY <2>1 DEF MaintenanceInv, QuietInv
  <2>3. ~node.archived
    BY DEF MaintenanceInv, RowsInv, ArchivedInv, Busy
  <2>4. \A i \in Job \ {j} : Mutates(i) => shell[i].stage # "shell"
    BY <2>1 DEF MaintenanceInv, LockInv
  <2> QED BY <2>2, <2>3, <2>4
<1> QED BY <1>1, MaintenanceInductiveInvariant, PTL

-----------------------------------------------------------------------------
(* The keys of unbound nodes                                                  *)

KeyStatuses == Restorable \cup {"none", "syncing", "pending_revoke", "revoked"}
KeyRows == [status: KeyStatuses, uri: BOOLEAN, placed: BOOLEAN]
KeyTurns == [by: {"none", "cycle", "panel", "archive"}, todo: SUBSET LegacyKey,
             key: LegacyKey \cup {NoLegacyKey}, action: KeyAction \cup {"none"},
             sent: {"no", "done", "failed", "end"}]
LegacyTypeInv ==
  /\ keyRows \in [LegacyKey -> KeyRows] /\ tx \in [LegacyKey -> KeyRows]
  /\ client \in [LegacyKey -> {"absent", "enabled", "disabled"}]
  /\ wanted \in KeyAction /\ eligible \in BOOLEAN /\ turn \in KeyTurns
  /\ late \in SUBSET (LegacyKey \X KeyAction) /\ doubt \in SUBSET LegacyKey

(* A turn and its script: which keys it may hold, and what the open           *)
(* transaction says of the key whose script is under way.                     *)
Scripting == turn.action # "none" /\ turn.sent # "end"
UnderwayAs == [provision |-> "syncing", suspend |-> "pending_suspend", revoke |-> "pending_revoke"]
TurnInv ==
  /\ turn.by = "none" => turn = CycleRests
  /\ turn.key = NoLegacyKey => turn.action = "none" /\ turn.sent = "no"
  /\ turn.action = "none" => turn.sent \in {"no", "end"}
  /\ turn.key \notin turn.todo
  /\ turn.by = "panel" => turn.todo = {} /\ turn.action # "suspend"
  /\ turn.by = "archive" => turn.action \in {"none", "revoke"}
  /\ Scripting => tx[turn.key].status = UnderwayAs[turn.action] /\ tx[turn.key].placed
(* The transaction against the committed rows: outside an archive they differ *)
(* in the present key at most; an archive changes no key's place or URI, and  *)
(* the keys still to do are on the node as their committed rows say.          *)
KeyRowsInv ==
  /\ \A k \in LegacyKey : keyRows[k].status # "syncing"
  /\ \A k \in LegacyKey : tx[k].status = "syncing" => k = turn.key /\ Scripting
  /\ \A k \in turn.todo : tx[k].status \in DeviceSlot
  /\ turn.by # "archive" => \A k \in LegacyKey \ {turn.key} : tx[k] = keyRows[k]
  /\ turn.by = "archive" =>
       /\ \A k \in LegacyKey : tx[k].placed = keyRows[k].placed /\ tx[k].uri = keyRows[k].uri
       /\ \A k \in turn.todo \ doubt : Agrees(keyRows[k].status, client[k])
(* The transaction against the node, for every key whose script was not cut   *)
(* off: it agrees with the client, a key that was never placed has none, and  *)
(* a script that is known to have ended did what it was for.                  *)
ClientInv ==
  \A k \in LegacyKey \ doubt :
    /\ Agrees(tx[k].status, client[k])
    /\ ~tx[k].placed /\ ~tx[k].uri => client[k] = "absent"
    /\ k = turn.key /\ turn.sent = "done" => Agrees(DoneBy[turn.action], client[k])
(* A script that may still run belongs to a key in doubt or only repeats the  *)
(* revoke that the key awaits anyway.                                         *)
Revoking == {"pending_revoke", "revoked"}
LateInv ==
  \A s \in late : s[1] \notin doubt =>
    s[2] = "revoke" /\ tx[s[1]].status \in Revoking /\ keyRows[s[1]].status \in Revoking
LegacyInv == LegacyTypeInv /\ TurnInv /\ KeyRowsInv /\ ClientInv /\ LateInv

(* A step that changes the transaction's row of one key, the turn's key.      *)
LEMMA OneRowChanges ==
  ASSUME LegacyInv, NEW k \in LegacyKey, NEW r \in KeyRows, tx' = [tx EXCEPT ![k] = r],
         RestKept, turn' \in KeyTurns, turn'.key = k, turn'.todo = turn.todo \ {k},
         turn.key \in {k, NoLegacyKey}, turn'.by = "archive" <=> turn.by = "archive",
         TurnInv', r.status = "syncing" => Scripting',
         turn.by = "archive" => r.placed = tx[k].placed /\ r.uri = tx[k].uri,
         tx[k].status \in Revoking => r.status \in Revoking,
         k \notin doubt => /\ Agrees(r.status, client[k])
                           /\ ~r.placed /\ ~r.uri => client[k] = "absent"
                           /\ turn'.sent # "done"
  PROVE  LegacyInv'
<1>1. LegacyTypeInv /\ KeyRowsInv /\ ClientInv /\ LateInv BY DEF LegacyInv
<1>2. UNCHANGED <<keyRows, client, wanted, eligible, late, doubt>> BY DEF RestKept
<1>3. tx'[k] = r /\ \A j \in LegacyKey \ {k} : tx'[j] = tx[j] BY <1>1 DEF LegacyTypeInv
<1>4. LegacyTypeInv' BY <1>1, <1>2 DEF LegacyTypeInv
<1>5. KeyRowsInv'
  <2>1. \A j \in LegacyKey : tx'[j].status = "syncing" => j = k
    BY <1>1, <1>3, LegacyKeyAssumption DEF KeyRowsInv
  <2>2. \A j \in turn'.todo : tx'[j].status \in DeviceSlot
    BY <1>1, <1>3 DEF KeyRowsInv, LegacyTypeInv, KeyTurns
  <2>3. turn'.by # "archive" => \A j \in LegacyKey \ {k} : tx'[j] = keyRows[j]
    BY <1>1, <1>3, LegacyKeyAssumption DEF KeyRowsInv
  <2>4. turn'.by = "archive" =>
          \A j \in LegacyKey : tx'[j].placed = keyRows[j].placed /\ tx'[j].uri = keyRows[j].uri
    BY <1>1, <1>3 DEF KeyRowsInv
  <2>5. \A j \in LegacyKey : tx'[j].status = "syncing" => Scripting' BY <1>3, <2>1
  <2> QED BY <1>1, <1>2, <2>1, <2>2, <2>3, <2>4, <2>5 DEF KeyRowsInv
<1>6. ClientInv' BY <1>1, <1>2, <1>3 DEF ClientInv
<1>7. LateInv' BY <1>1, <1>2, <1>3 DEF LateInv, LegacyTypeInv
<1> QED BY <1>4, <1>5, <1>6, <1>7 DEF LegacyInv

(* A key is dealt with without its node.                                      *)
LEMMA SettleKeeps ==
  ASSUME LegacyInv, NEW k \in turn.todo, turn.key = NoLegacyKey, turn.by \in {"cycle", "archive"},
         NEW status \in {"pending_sync", "pending_suspend", "pending_revoke", "suspended", "revoked"},
         SettleKey(k, status), RestKept,
         status \in {"suspended", "revoked"} => Bodiless(k),
         tx[k].status = "pending_revoke" => status \in Revoking
  PROVE  LegacyInv'
<1>1. LegacyTypeInv /\ TurnInv /\ KeyRowsInv /\ ClientInv BY DEF LegacyInv
<1>2. k \in LegacyKey /\ turn \in KeyTurns BY <1>1 DEF LegacyTypeInv, KeyTurns
<1> DEFINE r == [tx[k] EXCEPT !.status = status]
<1>3. tx[k] \in KeyRows BY <1>1, <1>2 DEF LegacyTypeInv
<1>4. r \in KeyRows BY <1>3 DEF KeyRows, KeyStatuses, Restorable
<1>5. r.status = status /\ r.placed = tx[k].placed /\ r.uri = tx[k].uri BY <1>3 DEF KeyRows
<1>6. tx' = [tx EXCEPT ![k] = r] BY <1>1, <1>2 DEF SettleKey, PutStatus, LegacyTypeInv
<1>7. /\ turn' = [by |-> turn.by, todo |-> turn.todo \ {k}, key |-> k, action |-> "none", sent |-> "end"]
  BY <1>2 DEF SettleKey, KeyTurns
<1>8. turn' \in KeyTurns BY <1>2, <1>7 DEF KeyTurns
<1>9. TurnInv' BY <1>1, <1>2, <1>7, LegacyKeyAssumption DEF TurnInv, Scripting
<1>10. tx[k].status \in DeviceSlot BY <1>1 DEF KeyRowsInv
<1>11. tx[k].status \in Revoking => status \in Revoking BY <1>10 DEF Revoking, DeviceSlot, Restorable
<1>12. k \notin doubt => Agrees(status, client[k]) /\ (~r.placed /\ ~r.uri => client[k] = "absent")
  BY <1>1, <1>2, <1>5 DEF ClientInv, Agrees, Bodiless
<1>13. status # "syncing" OBVIOUS
<1> QED
  BY <1>2, <1>4, <1>5, <1>6, <1>7, <1>8, <1>9, <1>11, <1>12, <1>13, OneRowChanges

(* A key's script is begun.                                                   *)
LEMMA BeginKeeps ==
  ASSUME LegacyInv, NEW k \in turn.todo, turn.key = NoLegacyKey, turn.by \in {"cycle", "archive"},
         NEW action \in KeyAction, BeginScript(k, action), RestKept,
         tx' = [tx EXCEPT ![k].status = UnderwayAs[action], ![k].placed = TRUE],
         turn.by = "archive" => action = "revoke" /\ tx[k].placed,
         tx[k].status = "pending_revoke" => action = "revoke"
  PROVE  LegacyInv'
<1>1. LegacyTypeInv /\ TurnInv /\ KeyRowsInv /\ ClientInv BY DEF LegacyInv
<1>2. k \in LegacyKey /\ turn \in KeyTurns BY <1>1 DEF LegacyTypeInv, KeyTurns
<1>3. tx[k] \in KeyRows BY <1>1, <1>2 DEF LegacyTypeInv
<1> DEFINE r == [tx[k] EXCEPT !.status = UnderwayAs[action], !.placed = TRUE]
<1>4. UnderwayAs[action] \in {"syncing", "pending_suspend", "pending_revoke"}
  BY DEF UnderwayAs, KeyAction
<1>5. r \in KeyRows BY <1>3, <1>4 DEF KeyRows, KeyStatuses, Restorable
<1>6. r.status = UnderwayAs[action] /\ r.placed = TRUE /\ r.uri = tx[k].uri BY <1>3 DEF KeyRows
<1>7. tx' = [tx EXCEPT ![k] = r] BY <1>1, <1>2 DEF LegacyTypeInv
<1>8. turn' = [by |-> turn.by, todo |-> turn.todo \ {k}, key |-> k, action |-> action, sent |-> "no"]
  BY <1>2 DEF BeginScript, KeyTurns
<1>9. turn' \in KeyTurns BY <1>2, <1>8 DEF KeyTurns
<1>10. tx'[k] = r BY <1>1, <1>2, <1>7 DEF LegacyTypeInv
<1>11. action # "none" BY DEF KeyAction
<1>12. TurnInv' BY <1>1, <1>2, <1>6, <1>8, <1>10, <1>11, LegacyKeyAssumption DEF TurnInv, Scripting
<1>13. Scripting' BY <1>8, <1>11 DEF Scripting
<1>14. tx[k].status \in Revoking => r.status \in Revoking
  <2>1. tx[k].status \in DeviceSlot BY <1>1 DEF KeyRowsInv
  <2> QED BY <1>6, <2>1 DEF Revoking, DeviceSlot, Restorable, UnderwayAs
<1>15. Agrees(r.status, client[k]) BY <1>4, <1>6 DEF Agrees
<1>16. turn'.sent # "done" /\ turn'.key = k /\ turn'.todo = turn.todo \ {k} /\ turn'.by = turn.by
  BY <1>8
<1>17. turn.by = "archive" => r.placed = tx[k].placed /\ r.uri = tx[k].uri
  BY <1>3, <1>6 DEF KeyRows
<1> HIDE DEF r
<1>18. r.placed BY <1>6
<1>19. turn.key \in {k, NoLegacyKey} /\ (turn'.by = "archive" <=> turn.by = "archive") BY <1>16
<1> QED BY <1>2, <1>5, <1>7, <1>9, <1>12, <1>13, <1>14, <1>15, <1>16, <1>17, <1>18, <1>19, OneRowChanges

LEMMA DisableKeeps ==
  ASSUME LegacyInv, NEW k \in turn.todo, turn.key = NoLegacyKey, turn.by \in {"cycle", "archive"},
         NEW action \in {"suspend", "revoke"}, Disable(k, action), RestKept,
         turn.by = "archive" => action = "revoke",
         tx[k].status = "pending_revoke" => action = "revoke"
  PROVE  LegacyInv'
<1>1. LegacyTypeInv BY DEF LegacyInv
<1>2. k \in LegacyKey /\ turn \in KeyTurns BY <1>1 DEF LegacyTypeInv, KeyTurns
<1>3. tx[k] \in KeyRows BY <1>1, <1>2 DEF LegacyTypeInv
<1>4. /\ DoneBy[action] = (IF action = "suspend" THEN "suspended" ELSE "revoked")
      /\ PendingFor[action] = (IF action = "suspend" THEN "pending_suspend" ELSE "pending_revoke")
      /\ UnderwayAs[action] = PendingFor[action]
  BY DEF DoneBy, PendingFor, UnderwayAs
<1>5. CASE Bodiless(k) /\ SettleKey(k, DoneBy[action])
  BY <1>4, <1>5, SettleKeeps DEF Revoking
<1>6. CASE SettleKey(k, PendingFor[action])
  BY <1>4, <1>6, SettleKeeps DEF Revoking
<1>7. CASE tx[k].placed /\ BeginScript(k, action) /\ tx' = PutStatus(tx, k, PendingFor[action])
  <2>1. [tx[k] EXCEPT !.placed = TRUE] = tx[k] BY <1>3, <1>7 DEF KeyRows
  <2>2. [tx[k] EXCEPT !.status = PendingFor[action]]
          = [tx[k] EXCEPT !.status = PendingFor[action], !.placed = TRUE]
    BY <1>3, <1>7 DEF KeyRows
  <2>3. tx' = [tx EXCEPT ![k].status = UnderwayAs[action], ![k].placed = TRUE]
    BY <1>1, <1>2, <1>4, <1>7, <2>2 DEF PutStatus, LegacyTypeInv
  <2> QED BY <1>7, <2>3, BeginKeeps DEF KeyAction
<1> QED BY <1>5, <1>6, <1>7 DEF Disable

LEMMA TakesKeep == LegacyInv /\ (CycleTakes \/ ArchiveTakes) => LegacyInv'
<1> SUFFICES ASSUME LegacyInv, CycleTakes \/ ArchiveTakes PROVE LegacyInv' OBVIOUS
<1>1. LegacyTypeInv BY DEF LegacyInv
<1>2. RestKept /\ turn.key = NoLegacyKey /\ turn.by \in {"cycle", "archive"}
  BY DEF CycleTakes, ArchiveTakes
<1>3. CASE ArchiveTakes
  <2>1. PICK k \in turn.todo : Disable(k, "revoke") BY <1>3 DEF ArchiveTakes
  <2> QED BY <1>2, <2>1, DisableKeeps
<1>4. CASE CycleTakes
  <2>1. PICK k \in turn.todo : ProcessKey(k) BY <1>4 DEF CycleTakes
  <2>2. turn.by = "cycle" BY <1>4 DEF CycleTakes
  <2>3. ActionFor(k) \in KeyAction /\ (tx[k].status = "pending_revoke" => ActionFor(k) = "revoke")
    BY <1>1 DEF ActionFor, LegacyTypeInv, KeyAction
  <2>4. CASE ActionFor(k) = "provision"
    <3>1. tx[k].status # "pending_revoke" BY <2>3, <2>4
    <3>2. CASE SettleKey(k, "pending_sync") BY <1>2, <2>2, <3>1, <3>2, SettleKeeps
    <3>3. CASE /\ tx' = [tx EXCEPT ![k].status = "syncing", ![k].placed = TRUE]
               /\ BeginScript(k, "provision")
      <4>1. UnderwayAs["provision"] = "syncing" BY DEF UnderwayAs
      <4> QED BY <1>2, <2>2, <3>1, <3>3, <4>1, BeginKeeps DEF KeyAction
    <3> QED BY <2>1, <2>4, <3>2, <3>3 DEF ProcessKey, Provision
  <2>5. CASE ActionFor(k) # "provision"
    <3>1. ActionFor(k) \in {"suspend", "revoke"} BY <2>3, <2>5 DEF KeyAction
    <3>2. Disable(k, ActionFor(k)) BY <2>1, <2>5 DEF ProcessKey
    <3> QED BY <1>2, <2>2, <2>3, <3>1, <3>2, DisableKeeps
  <2> QED BY <2>4, <2>5
<1> QED BY <1>3, <1>4

(* The panel starts a turn of its own while nobody holds the lock.            *)
LEMMA PanelCallsKeep ==
  LegacyInv /\ (\E k \in LegacyKey : CreateKey(k) \/ ProvisionExisting(k) \/ RevokeExisting(k))
    => LegacyInv'
<1> SUFFICES ASSUME LegacyInv, NEW k \in LegacyKey,
                    CreateKey(k) \/ ProvisionExisting(k) \/ RevokeExisting(k)
             PROVE  LegacyInv'
  OBVIOUS
<1>1. LegacyTypeInv /\ TurnInv /\ KeyRowsInv /\ ClientInv BY DEF LegacyInv
<1>2. turn = CycleRests /\ RestKept BY DEF CreateKey, ProvisionExisting, RevokeExisting
<1>3. turn.by = "none" /\ turn.todo = {} /\ turn.key = NoLegacyKey BY <1>2 DEF CycleRests
<1>4. tx[k] \in KeyRows /\ tx[k] = keyRows[k] /\ keyRows[k].status # "syncing"
  BY <1>1, <1>3, LegacyKeyAssumption DEF LegacyTypeInv, KeyRowsInv
<1>5. PICK r \in KeyRows, action \in {"none", "provision", "revoke"} :
        /\ tx' = [tx EXCEPT ![k] = r]
        /\ turn' = [by |-> "panel", todo |-> {}, key |-> k, action |-> action,
                    sent |-> IF action = "none" \/ (action = "revoke" /\ ~(tx[k].placed /\ eligible))
                             THEN "end" ELSE "no"]
        /\ \/ r.status = "syncing" /\ action = "provision" /\ r.placed
           \/ r.status = "pending_sync" /\ action = "none" /\ r.placed = FALSE
           \/ r.status = "pending_revoke" /\ action = "revoke" /\ r.placed = tx[k].placed
        /\ \/ r.uri = tx[k].uri
           \/ tx[k].status = "none" /\ r.uri = FALSE
        /\ r.placed \/ r.placed = tx[k].placed \/ tx[k].status = "none"
        /\ tx[k].status \in Revoking => r.status \in Revoking
  <2>1. CASE CreateKey(k)
    <3> DEFINE r == [status |-> IF eligible THEN "syncing" ELSE "pending_sync",
                     uri |-> FALSE, placed |-> eligible]
    <3>1. r \in KeyRows BY <1>1 DEF KeyRows, KeyStatuses, Restorable, LegacyTypeInv
    <3>2. turn' = [by |-> "panel", todo |-> {}, key |-> k,
                   action |-> IF eligible THEN "provision" ELSE "none",
                   sent |-> IF eligible THEN "no" ELSE "end"]
      BY <2>1 DEF CreateKey, CycleRests
    <3>3. tx[k].status = "none" BY <1>4, <2>1 DEF CreateKey
    <3>4. tx' = [tx EXCEPT ![k] = r] BY <2>1 DEF CreateKey
    <3>5. CASE eligible BY <3>1, <3>2, <3>3, <3>4, <3>5 DEF Revoking
    <3>6. CASE ~eligible
      <4>1. eligible = FALSE BY <1>1, <3>6 DEF LegacyTypeInv
      <4> QED BY <3>1, <3>2, <3>3, <3>4, <4>1 DEF Revoking
    <3> QED BY <3>5, <3>6
  <2>2. CASE ProvisionExisting(k)
    <3> DEFINE r == [tx[k] EXCEPT !.status = "syncing", !.placed = TRUE]
    <3>1. r \in KeyRows BY <1>4 DEF KeyRows, KeyStatuses, Restorable
    <3>2. r.status = "syncing" /\ r.placed = TRUE /\ r.uri = tx[k].uri BY <1>4 DEF KeyRows
    <3>3. tx' = [tx EXCEPT ![k] = r] BY <1>1, <2>2 DEF ProvisionExisting, LegacyTypeInv
    <3>4. turn' = [by |-> "panel", todo |-> {}, key |-> k, action |-> "provision", sent |-> "no"]
      BY <2>2 DEF ProvisionExisting, CycleRests
    <3>5. tx[k].status \notin Revoking BY <1>4, <2>2 DEF ProvisionExisting, Revoking
    <3> HIDE DEF r
    <3> QED BY <3>1, <3>2, <3>3, <3>4, <3>5
  <2>3. CASE RevokeExisting(k)
    <3> DEFINE r == [tx[k] EXCEPT !.status = "pending_revoke"]
    <3>1. r \in KeyRows BY <1>4 DEF KeyRows, KeyStatuses
    <3>2. r.status = "pending_revoke" /\ r.placed = tx[k].placed /\ r.uri = tx[k].uri
      BY <1>4 DEF KeyRows
    <3>3. tx' = [tx EXCEPT ![k] = r] BY <1>1, <2>3 DEF RevokeExisting, PutStatus, LegacyTypeInv
    <3>4. turn' = [by |-> "panel", todo |-> {}, key |-> k, action |-> "revoke",
                   sent |-> IF tx[k].placed /\ eligible THEN "no" ELSE "end"]
      BY <1>4, <2>3 DEF RevokeExisting, CycleRests
    <3>5. r.status \in Revoking BY <3>2 DEF Revoking
    <3> HIDE DEF r
    <3>6. CASE tx[k].placed /\ eligible BY <3>1, <3>2, <3>3, <3>4, <3>5, <3>6
    <3>7. CASE ~(tx[k].placed /\ eligible) BY <3>1, <3>2, <3>3, <3>4, <3>5, <3>7
    <3> QED BY <3>6, <3>7
  <2> QED BY <2>1, <2>2, <2>3
<1>6. tx'[k] = r BY <1>1, <1>5 DEF LegacyTypeInv
<1>7. turn' \in KeyTurns BY <1>5 DEF KeyTurns, KeyAction
<1>8. /\ turn'.by = "panel" /\ turn'.todo = {} /\ turn'.key = k /\ turn'.action = action
      /\ turn'.sent \in {"no", "end"} /\ (turn'.sent = "no" <=> Scripting')
      /\ Scripting' => r.status = UnderwayAs[action] /\ r.placed
      /\ r.status = "syncing" => Scripting'
  BY <1>5 DEF Scripting, UnderwayAs
<1>9. TurnInv' BY <1>5, <1>6, <1>8, LegacyKeyAssumption DEF TurnInv
<1>10. k \notin doubt => /\ Agrees(r.status, client[k])
                         /\ ~r.placed /\ ~r.uri => client[k] = "absent"
  <2>1. k \notin doubt /\ tx[k].status = "none" => client[k] = "absent"
    BY <1>1 DEF ClientInv, Agrees
  <2> QED BY <1>1, <1>5, <2>1 DEF ClientInv, Agrees
<1> QED BY <1>2, <1>3, <1>5, <1>7, <1>8, <1>9, <1>10, OneRowChanges

(* A script runs on the node, and its outcome is recorded.                    *)
LEMMA ScriptsKeep == LegacyInv /\ (ExecuteScript \/ RecordScript) => LegacyInv'
<1> SUFFICES ASSUME LegacyInv, ExecuteScript \/ RecordScript PROVE LegacyInv' OBVIOUS
<1>1. LegacyTypeInv /\ TurnInv /\ KeyRowsInv /\ ClientInv /\ LateInv BY DEF LegacyInv
<1>2. turn.action # "none" /\ turn.key \in LegacyKey /\ turn.action \in KeyAction /\ turn \in KeyTurns
      /\ Scripting
  BY <1>1 DEF ExecuteScript, RecordScript, TurnInv, LegacyTypeInv, KeyTurns, Scripting
<1> DEFINE k == turn.key
<1>3. tx[k].status = UnderwayAs[turn.action] /\ tx[k].placed /\ tx[k] \in KeyRows
  BY <1>1, <1>2 DEF TurnInv, LegacyTypeInv
<1>4. CASE ExecuteScript
  <2>1. UNCHANGED <<keyRows, tx, wanted, eligible, late, doubt>> BY <1>4 DEF ExecuteScript
  <2>2. PICK sent \in {"done", "failed"} :
          /\ turn' = [turn EXCEPT !.sent = sent]
          /\ client' \in {client, [client EXCEPT ![k] = Scripted(client[k], turn.action)]}
          /\ sent = "done" => client' = [client EXCEPT ![k] = Scripted(client[k], turn.action)]
    BY <1>4 DEF ExecuteScript
  <2>3. /\ Scripted(client[k], turn.action) \in {"absent", "enabled", "disabled"}
        /\ Agrees(DoneBy[turn.action], Scripted(client[k], turn.action))
    BY <1>2 DEF Scripted, Provisioned, Removed, Disabled, KeyAction, Agrees, DoneBy
  <2>4. \A j \in LegacyKey \ {k} : client'[j] = client[j] BY <1>1, <2>2 DEF LegacyTypeInv
  <2>5. sent = "done" => Agrees(DoneBy[turn.action], client'[k])
    BY <1>1, <1>2, <2>2, <2>3 DEF LegacyTypeInv
  <2>6. /\ turn'.by = turn.by /\ turn'.todo = turn.todo /\ turn'.key = k
        /\ turn'.action = turn.action /\ turn'.sent = sent /\ turn' \in KeyTurns
    BY <1>2, <2>2 DEF KeyTurns
  <2>7. LegacyTypeInv' BY <1>1, <2>1, <2>2, <2>3, <2>6 DEF LegacyTypeInv
  <2>8. Scripting' BY <1>2, <2>6 DEF Scripting
  <2>9. turn.by # "none" BY <1>1, <1>2 DEF TurnInv, CycleRests
  <2>10. TurnInv' BY <1>1, <1>2, <1>3, <2>1, <2>6, <2>9, LegacyKeyAssumption DEF TurnInv
  <2>11. KeyRowsInv'
    <3>1. \A j \in turn.todo : j # k BY <1>1 DEF TurnInv
    <3>2. \A j \in turn.todo : client'[j] = client[j]
      BY <1>1, <1>2, <2>4, <3>1 DEF KeyTurns
    <3> QED BY <1>1, <2>1, <2>6, <2>8, <3>2 DEF KeyRowsInv
  <2>12. ClientInv'
    <3>1. tx[k].status \in {"syncing", "pending_suspend", "pending_revoke"}
      BY <1>2, <1>3 DEF UnderwayAs, KeyAction
    <3>2. \A c : Agrees(tx[k].status, c) BY <3>1 DEF Agrees
    <3> QED BY <1>1, <1>3, <2>1, <2>4, <2>5, <2>6, <3>2 DEF ClientInv
  <2>13. LateInv' BY <1>1, <2>1 DEF LateInv
  <2> QED BY <2>7, <2>10, <2>11, <2>12, <2>13 DEF LegacyInv
<1>5. CASE RecordScript
  <2>1. turn' = [turn EXCEPT !.sent = "end"] /\ RestKept BY <1>5 DEF RecordScript
  <2>2. /\ turn'.by = turn.by /\ turn'.todo = turn.todo /\ turn'.key = k
        /\ turn'.action = turn.action /\ turn'.sent = "end" /\ turn' \in KeyTurns
    BY <1>2, <2>1 DEF KeyTurns
  <2>3. /\ PendingFor[turn.action] \in {"pending_sync", "pending_suspend", "pending_revoke"}
        /\ DoneBy[turn.action] \in {"active", "suspended", "revoked"}
        /\ turn.action = "revoke" => /\ DoneBy[turn.action] = "revoked"
                                     /\ PendingFor[turn.action] = "pending_revoke"
        /\ turn.action # "revoke" => tx[k].status \notin Revoking
    BY <1>2, <1>3 DEF PendingFor, DoneBy, KeyAction, UnderwayAs, Revoking
  <2>4. PICK r \in KeyRows :
          /\ tx' = [tx EXCEPT ![k] = r] /\ r.placed = tx[k].placed
          /\ \/ turn.sent = "done" /\ r.status = DoneBy[turn.action]
                /\ (turn.action # "provision" => r.uri = tx[k].uri)
             \/ r.status = PendingFor[turn.action] /\ r.uri = tx[k].uri
    <3>1. CASE turn.sent = "done"
      <4> DEFINE r == [tx[k] EXCEPT !.status = DoneBy[turn.action],
                                    !.uri = tx[k].uri \/ turn.action = "provision"]
      <4>1. tx' = [tx EXCEPT ![k] = r] BY <1>1, <1>2, <1>5, <3>1 DEF RecordScript, Confirmed, LegacyTypeInv
      <4>2. r \in KeyRows BY <1>3, <2>3 DEF KeyRows, KeyStatuses, Restorable
      <4>3. /\ r.placed = tx[k].placed /\ r.status = DoneBy[turn.action]
            /\ turn.action # "provision" => r.uri = tx[k].uri
        BY <1>3 DEF KeyRows
      <4> HIDE DEF r
      <4> QED BY <3>1, <4>1, <4>2, <4>3
    <3>2. CASE turn.sent # "done"
      <4> DEFINE r == [tx[k] EXCEPT !.status = PendingFor[turn.action]]
      <4>1. tx' = [tx EXCEPT ![k] = r] BY <1>1, <1>2, <1>5, <3>2 DEF RecordScript, PutStatus, LegacyTypeInv
      <4>2. r \in KeyRows BY <1>3, <2>3 DEF KeyRows, KeyStatuses, Restorable
      <4>3. r.placed = tx[k].placed /\ r.status = PendingFor[turn.action] /\ r.uri = tx[k].uri
        BY <1>3 DEF KeyRows
      <4> HIDE DEF r
      <4> QED BY <4>1, <4>2, <4>3
    <3> QED BY <3>1, <3>2
  <2>5. turn.by # "none" BY <1>1, <1>2 DEF TurnInv, CycleRests
  <2>6. TurnInv' BY <1>1, <1>2, <2>2, <2>5, LegacyKeyAssumption DEF TurnInv, Scripting
  <2>7. tx[k].status \in Revoking => r.status \in Revoking BY <2>3, <2>4 DEF Revoking
  <2>8. k \notin doubt => Agrees(r.status, client[k])
    <3>1. turn.sent = "done" /\ k \notin doubt => Agrees(DoneBy[turn.action], client[k])
      BY <1>1, <1>2 DEF ClientInv
    <3>2. \A c : Agrees(PendingFor[turn.action], c) BY <2>3 DEF Agrees
    <3> QED BY <2>4, <3>1, <3>2
  <2>9. turn.by = "archive" => r.uri = tx[k].uri BY <1>1, <1>2, <2>4 DEF TurnInv
  <2>10. turn'.todo = turn.todo \ {k} BY <1>1, <2>2 DEF TurnInv
  <2>11. r.status # "syncing" BY <2>3, <2>4
  <2> QED BY <1>2, <1>3, <2>1, <2>2, <2>4, <2>6, <2>7, <2>8, <2>9, <2>10, <2>11, OneRowChanges
<1> QED BY <1>4, <1>5

(* The cycle chooses its keys, an archive its customer's.                     *)
LEMMA StartsKeep == LegacyInv /\ (CycleStarts \/ ArchiveCustomer) => LegacyInv'
<1> SUFFICES ASSUME LegacyInv, CycleStarts \/ ArchiveCustomer PROVE LegacyInv' OBVIOUS
<1>1. LegacyTypeInv /\ TurnInv /\ KeyRowsInv /\ ClientInv /\ LateInv BY DEF LegacyInv
<1>2. turn = CycleRests /\ RestKept BY DEF CycleStarts, ArchiveCustomer
<1>3. UNCHANGED <<keyRows, client, wanted, eligible, late, doubt>> BY <1>2 DEF RestKept
<1>4. /\ turn.by = "none" /\ turn.todo = {} /\ turn.key = NoLegacyKey /\ turn.action = "none"
      /\ turn.sent = "no"
  BY <1>2 DEF CycleRests
<1>5. \A k \in LegacyKey : tx[k] = keyRows[k] /\ keyRows[k] \in KeyRows
                           /\ keyRows[k].status # "syncing"
  BY <1>1, <1>4, LegacyKeyAssumption DEF KeyRowsInv, LegacyTypeInv
<1>6. CASE CycleStarts
  <2>1. PICK B \in SUBSET (ToDisable \cup ToProvision) : turn' = [CycleRests EXCEPT !.by = "cycle", !.todo = B]
    BY <1>6 DEF CycleStarts
  <2>2. turn' = [by |-> "cycle", todo |-> B, key |-> NoLegacyKey, action |-> "none", sent |-> "no"]
    BY <2>1 DEF CycleRests
  <2>3. B \subseteq LegacyKey BY DEF ToDisable, ToProvision
  <2>4. \A k \in B : keyRows[k].status \in DeviceSlot
    BY DEF ToDisable, ToProvision, DeviceSlot, Restorable
  <2>5. tx' = tx BY <1>6 DEF CycleStarts
  <2>6. LegacyTypeInv' BY <1>1, <1>3, <2>2, <2>3, <2>5 DEF LegacyTypeInv, KeyTurns
  <2>7. TurnInv' BY <2>2, <2>3, LegacyKeyAssumption DEF TurnInv, Scripting
  <2>8. KeyRowsInv' BY <1>3, <1>5, <2>2, <2>3, <2>4, <2>5 DEF KeyRowsInv
  <2>9. ClientInv' BY <1>1, <1>3, <2>2, <2>5 DEF ClientInv
  <2>10. LateInv' BY <1>1, <1>3, <2>5 DEF LateInv
  <2> QED BY <2>6, <2>7, <2>8, <2>9, <2>10 DEF LegacyInv
<1>7. CASE ArchiveCustomer
  <2>1. PICK K \in SUBSET {k \in LegacyKey : keyRows[k].status \in DeviceSlot} :
          /\ tx' = [k \in LegacyKey |->
                     IF k \in K THEN [tx[k] EXCEPT !.status = "pending_revoke"] ELSE tx[k]]
          /\ turn' = [CycleRests EXCEPT !.by = "archive", !.todo = K]
    BY <1>7 DEF ArchiveCustomer
  <2>2. turn' = [by |-> "archive", todo |-> K, key |-> NoLegacyKey, action |-> "none", sent |-> "no"]
    BY <2>1 DEF CycleRests
  <2>3. K \subseteq LegacyKey OBVIOUS
  <2>4. \A k \in LegacyKey :
          /\ tx'[k].placed = tx[k].placed /\ tx'[k].uri = tx[k].uri /\ tx'[k] \in KeyRows
          /\ tx'[k].status = IF k \in K THEN "pending_revoke" ELSE tx[k].status
    BY <1>5, <2>1 DEF KeyRows, KeyStatuses
  <2>5. LegacyTypeInv'
    <3>1. tx' \in [LegacyKey -> KeyRows] BY <2>1, <2>4
    <3> QED BY <1>1, <1>3, <2>2, <2>3, <3>1 DEF LegacyTypeInv, KeyTurns
  <2>6. TurnInv' BY <2>2, <2>3, LegacyKeyAssumption DEF TurnInv, Scripting
  <2>7. KeyRowsInv'
    <3>1. \A k \in LegacyKey \ doubt : Agrees(keyRows[k].status, client[k])
      BY <1>1, <1>5 DEF ClientInv
    <3> QED BY <1>3, <1>5, <2>2, <2>3, <2>4, <3>1 DEF KeyRowsInv, DeviceSlot
  <2>8. ClientInv' BY <1>1, <1>3, <2>2, <2>4 DEF ClientInv, Agrees
  <2>9. LateInv' BY <1>1, <1>3, <2>4 DEF LateInv, LegacyTypeInv, Revoking
  <2> QED BY <2>5, <2>6, <2>7, <2>8, <2>9 DEF LegacyInv
<1> QED BY <1>6, <1>7

(* The policy changes, or the worker is retired.                              *)
LEMMA PolicyKeeps == LegacyInv /\ (PolicyChanges \/ Retire) => LegacyInv'
<1> SUFFICES ASSUME LegacyInv, PolicyChanges \/ Retire PROVE LegacyInv' OBVIOUS
<1>1. LegacyTypeInv /\ TurnInv /\ KeyRowsInv /\ ClientInv /\ LateInv BY DEF LegacyInv
<1>2. turn = CycleRests /\ turn' = turn /\ UNCHANGED <<client, late>> /\ tx' = keyRows'
  BY DEF PolicyChanges, Retire
<1>3. /\ turn.by = "none" /\ turn.todo = {} /\ turn.key = NoLegacyKey /\ turn.action = "none"
      /\ turn.sent = "no"
  BY <1>2 DEF CycleRests
<1>4. \A k \in LegacyKey : tx[k] = keyRows[k] /\ keyRows[k] \in KeyRows
                           /\ keyRows[k].status # "syncing"
  BY <1>1, <1>3, LegacyKeyAssumption DEF KeyRowsInv, LegacyTypeInv
<1>5. /\ wanted' \in KeyAction /\ eligible' \in BOOLEAN /\ doubt' \in SUBSET LegacyKey
      /\ doubt \subseteq doubt' /\ keyRows' \in [LegacyKey -> KeyRows]
      /\ \A k \in LegacyKey \ doubt' :
           /\ keyRows'[k].placed = keyRows[k].placed /\ keyRows'[k].uri = keyRows[k].uri
           /\ \/ keyRows'[k] = keyRows[k]
              \/ /\ keyRows'[k].status \in {"pending_sync", "pending_suspend", "pending_revoke"}
                 /\ keyRows[k].status \notin Revoking
      /\ \A k \in LegacyKey : keyRows'[k].status # "syncing"
  <2>1. CASE PolicyChanges
    <3>1. PICK action \in KeyAction, staged \in BOOLEAN :
            /\ wanted' = action
            /\ keyRows' = [k \in LegacyKey |->
                 IF staged /\ keyRows[k].status \in DeviceSlot \ {"pending_revoke"}
                 THEN [keyRows[k] EXCEPT !.status = PendingFor[action]] ELSE keyRows[k]]
      BY <2>1 DEF PolicyChanges
    <3>2. PendingFor[action] \in {"pending_sync", "pending_suspend", "pending_revoke"}
      BY DEF PendingFor, KeyAction
    <3>3. \A k \in LegacyKey :
            /\ keyRows'[k] \in KeyRows /\ keyRows'[k].placed = keyRows[k].placed
            /\ keyRows'[k].uri = keyRows[k].uri /\ keyRows'[k].status # "syncing"
            /\ \/ keyRows'[k] = keyRows[k]
               \/ /\ keyRows'[k].status \in {"pending_sync", "pending_suspend", "pending_revoke"}
                  /\ keyRows[k].status \notin Revoking
      BY <1>4, <3>1, <3>2 DEF KeyRows, KeyStatuses, Restorable, DeviceSlot, Revoking
    <3>4. UNCHANGED <<eligible, doubt>> BY <2>1 DEF PolicyChanges
    <3>5. keyRows' \in [LegacyKey -> KeyRows] BY <3>1, <3>3
    <3> QED BY <1>1, <3>1, <3>3, <3>4, <3>5 DEF LegacyTypeInv
  <2>2. CASE Retire
    <3> DEFINE K == {k \in LegacyKey : keyRows[k].placed /\ keyRows[k].status \in DeviceSlot}
    <3>1. /\ keyRows' = [k \in LegacyKey |->
                 IF k \in K THEN [keyRows[k] EXCEPT !.status = "revoked", !.uri = FALSE]
                 ELSE keyRows[k]]
          /\ doubt' = doubt \cup K /\ eligible' = FALSE /\ wanted' = wanted
      BY <2>2 DEF Retire
    <3>2. K \subseteq LegacyKey OBVIOUS
    <3> HIDE DEF K
    <3>3. \A k \in LegacyKey : keyRows'[k] \in KeyRows /\ keyRows'[k].status # "syncing"
      BY <1>4, <3>1 DEF KeyRows, KeyStatuses
    <3>4. keyRows' \in [LegacyKey -> KeyRows] BY <3>1, <3>3
    <3> QED BY <1>1, <3>1, <3>2, <3>3, <3>4 DEF LegacyTypeInv
  <2> QED BY <2>1, <2>2
<1>6. LegacyTypeInv' BY <1>1, <1>2, <1>5 DEF LegacyTypeInv
<1>7. TurnInv' BY <1>1, <1>2, <1>3 DEF TurnInv, Scripting
<1>8. KeyRowsInv' BY <1>2, <1>3, <1>5 DEF KeyRowsInv
<1>9. ClientInv'
  <2>1. \A k \in LegacyKey \ doubt' : Agrees(keyRows'[k].status, client[k])
    BY <1>1, <1>4, <1>5 DEF ClientInv, Agrees
  <2> QED BY <1>1, <1>2, <1>3, <1>4, <1>5, <2>1 DEF ClientInv
<1>10. LateInv' BY <1>1, <1>2, <1>4, <1>5 DEF LateInv, LegacyTypeInv
<1> QED BY <1>6, <1>7, <1>8, <1>9, <1>10 DEF LegacyInv

(* The transaction is committed.                                              *)
LEMMA CommitKeeps == LegacyInv /\ CommitKeys => LegacyInv'
<1> SUFFICES ASSUME LegacyInv, CommitKeys PROVE LegacyInv' OBVIOUS
<1>1. LegacyTypeInv /\ TurnInv /\ KeyRowsInv /\ ClientInv /\ LateInv BY DEF LegacyInv
<1>2. UNCHANGED <<tx, client, wanted, eligible, late, doubt>> /\ turn.sent = "end"
  BY DEF CommitKeys
<1>3. turn \in KeyTurns /\ turn.by # "none" BY <1>1, <1>2 DEF LegacyTypeInv, TurnInv, CycleRests
<1>4. \A k \in LegacyKey : tx[k].status # "syncing" BY <1>1, <1>2 DEF KeyRowsInv, Scripting
<1>5. CASE turn.todo = {}
  <2>1. turn' = CycleRests /\ keyRows' = tx BY <1>5 DEF CommitKeys, Checkpoint
  <2>2. turn' \in KeyTurns BY <2>1 DEF CycleRests, KeyTurns
  <2>3. LegacyTypeInv' BY <1>1, <1>2, <2>1, <2>2 DEF LegacyTypeInv
  <2>4. /\ turn'.by = "none" /\ turn'.todo = {} /\ turn'.key = NoLegacyKey
        /\ turn'.action = "none" /\ turn'.sent = "no"
    BY <2>1 DEF CycleRests
  <2>5. TurnInv' BY <2>1, <2>4 DEF TurnInv, Scripting
  <2>6. KeyRowsInv' BY <1>2, <1>4, <2>1, <2>4 DEF KeyRowsInv
  <2>7. ClientInv' BY <1>1, <1>2, <2>4 DEF ClientInv
  <2>8. LateInv' BY <1>1, <1>2, <2>1 DEF LateInv
  <2> QED BY <2>3, <2>5, <2>6, <2>7, <2>8 DEF LegacyInv
<1>6. CASE turn.todo # {}
  <2>1. turn' = [by |-> turn.by, todo |-> turn.todo, key |-> NoLegacyKey, action |-> "none", sent |-> "no"]
    BY <1>3, <1>6 DEF CommitKeys, KeyTurns
  <2>2. keyRows' = IF turn.by = "archive" THEN keyRows ELSE tx BY <1>6 DEF CommitKeys, Checkpoint
  <2>3. turn' \in KeyTurns BY <1>3, <2>1 DEF KeyTurns
  <2>4. LegacyTypeInv' BY <1>1, <1>2, <2>2, <2>3 DEF LegacyTypeInv
  <2>5. turn.by # "panel" /\ turn.todo \subseteq LegacyKey BY <1>1, <1>3, <1>6 DEF TurnInv, KeyTurns
  <2>6. TurnInv' BY <1>3, <2>1, <2>5, LegacyKeyAssumption DEF TurnInv, Scripting
  <2>7. KeyRowsInv' BY <1>1, <1>2, <1>4, <2>1, <2>2 DEF KeyRowsInv
  <2>8. ClientInv' BY <1>1, <1>2, <2>1 DEF ClientInv
  <2>9. LateInv' BY <1>1, <1>2, <2>2 DEF LateInv
  <2> QED BY <2>4, <2>6, <2>7, <2>8, <2>9 DEF LegacyInv
<1> QED BY <1>5, <1>6

(* A turn is cut off: what was written goes back to the committed rows, a     *)
(* script that was not known to have ended may still run.                     *)
LEMMA CutsKeep == LegacyInv /\ (KeyTimeout \/ CycleCancelled \/ PanelCancelled) => LegacyInv'
<1> SUFFICES ASSUME LegacyInv, KeyTimeout \/ CycleCancelled \/ PanelCancelled PROVE LegacyInv'
  OBVIOUS
<1>1. LegacyTypeInv /\ TurnInv /\ KeyRowsInv /\ ClientInv /\ LateInv BY DEF LegacyInv
<1>2. turn \in KeyTurns BY <1>1 DEF LegacyTypeInv
<1>3. /\ UNCHANGED <<keyRows, client, wanted, eligible>>
      /\ late' = IF turn.action # "none" /\ turn.sent = "no"
                 THEN late \cup {<<turn.key, turn.action>>} ELSE late
  BY DEF KeyTimeout, CycleCancelled, PanelCancelled, CutOff
<1>4. turn.action # "none" => turn.key \in LegacyKey /\ turn.action \in KeyAction
  BY <1>1, <1>2 DEF TurnInv, KeyTurns
<1>5. late' \in SUBSET (LegacyKey \X KeyAction) BY <1>1, <1>3, <1>4 DEF LegacyTypeInv
<1>6. CASE KeyTimeout
  <2>1. /\ turn.by = "cycle" /\ turn.action # "none" /\ turn.sent \in {"no", "done"}
        /\ doubt' = doubt \cup ({turn.key} \ {NoLegacyKey})
        /\ tx' = [tx EXCEPT ![turn.key].status = PendingFor[turn.action]]
        /\ turn' = [turn EXCEPT !.sent = "end"]
    BY <1>6 DEF KeyTimeout, CutOff, PutStatus
  <2> DEFINE k == turn.key
  <2>2. k \in LegacyKey /\ k \in doubt' BY <1>4, <2>1, LegacyKeyAssumption
  <2>3. PendingFor[turn.action] \in {"pending_sync", "pending_suspend", "pending_revoke"}
    BY <1>4, <2>1 DEF PendingFor, KeyAction
  <2>4. /\ tx' \in [LegacyKey -> KeyRows] /\ tx'[k].status = PendingFor[turn.action]
        /\ \A j \in LegacyKey \ {k} : tx'[j] = tx[j]
    <3>1. tx[k] \in KeyRows /\ tx \in [LegacyKey -> KeyRows] BY <1>1, <2>2 DEF LegacyTypeInv
    <3>2. [tx[k] EXCEPT !.status = PendingFor[turn.action]] \in KeyRows
      BY <2>3, <3>1 DEF KeyRows, KeyStatuses, Restorable
    <3>3. [tx[k] EXCEPT !.status = PendingFor[turn.action]].status = PendingFor[turn.action]
      BY <3>1 DEF KeyRows
    <3> QED BY <2>1, <2>2, <3>1, <3>2, <3>3
  <2>5. /\ turn'.by = "cycle" /\ turn'.todo = turn.todo /\ turn'.key = k
        /\ turn'.action = turn.action /\ turn'.sent = "end" /\ turn' \in KeyTurns
    BY <1>2, <2>1 DEF KeyTurns
  <2>6. doubt' \in SUBSET LegacyKey /\ doubt \subseteq doubt' BY <1>1, <2>1, <2>2 DEF LegacyTypeInv
  <2>7. LegacyTypeInv' BY <1>1, <1>3, <1>5, <2>4, <2>5, <2>6 DEF LegacyTypeInv
  <2>8. TurnInv' BY <1>1, <2>1, <2>2, <2>5, LegacyKeyAssumption DEF TurnInv, Scripting
  <2>9. k \notin turn.todo /\ turn.todo \subseteq LegacyKey BY <1>1, <1>2 DEF TurnInv, KeyTurns
  <2>10. KeyRowsInv'
    <3>1. \A j \in LegacyKey : tx'[j].status # "syncing" BY <1>1, <2>3, <2>4 DEF KeyRowsInv
    <3>2. \A j \in turn'.todo : tx'[j].status \in DeviceSlot BY <1>1, <2>4, <2>5, <2>9 DEF KeyRowsInv
    <3>3. \A j \in LegacyKey \ {k} : tx'[j] = keyRows[j] BY <1>1, <2>1, <2>4 DEF KeyRowsInv
    <3> QED BY <1>1, <1>3, <2>5, <3>1, <3>2, <3>3 DEF KeyRowsInv
  <2>11. ClientInv' BY <1>1, <1>3, <2>2, <2>4, <2>5, <2>6 DEF ClientInv
  <2>12. LateInv'
    <3>1. \A s \in late : s[1] \in LegacyKey BY <1>1 DEF LegacyTypeInv
    <3>2. \A s \in late' : s[1] \notin doubt' => s \in late /\ s[1] # k BY <1>3, <2>2
    <3> QED BY <1>1, <1>3, <2>4, <2>6, <3>1, <3>2 DEF LateInv
  <2> QED BY <2>7, <2>8, <2>10, <2>11, <2>12 DEF LegacyInv
<1>7. CASE CycleCancelled \/ PanelCancelled
  <2>1. tx' = keyRows /\ turn' = CycleRests BY <1>7 DEF CycleCancelled, PanelCancelled
  <2>2. /\ turn'.by = "none" /\ turn'.todo = {} /\ turn'.key = NoLegacyKey
        /\ turn'.action = "none" /\ turn'.sent = "no" /\ turn' \in KeyTurns
    BY <2>1 DEF CycleRests, KeyTurns
  <2>3. /\ doubt' \in SUBSET LegacyKey /\ doubt \subseteq doubt'
        /\ \A k \in LegacyKey \ doubt' :
             tx[k] = keyRows[k] \/ (turn.by = "archive" /\ k \in turn.todo)
        /\ turn.by = "cycle" /\ turn.key # NoLegacyKey => turn.key \in doubt'
    <3>1. CASE CycleCancelled
      <4>1. doubt' = doubt \cup ({turn.key} \ {NoLegacyKey}) /\ turn.by = "cycle"
        BY <3>1 DEF CycleCancelled, CutOff
      <4>2. turn.key \in LegacyKey \cup {NoLegacyKey} BY <1>2 DEF KeyTurns
      <4> QED BY <1>1, <4>1, <4>2, LegacyKeyAssumption DEF KeyRowsInv, LegacyTypeInv
    <3>2. CASE PanelCancelled
      <4>1. /\ doubt' = doubt \cup {k \in LegacyKey : tx[k] # keyRows[k] /\ k \notin turn.todo}
            /\ turn.by \in {"panel", "archive"}
        BY <3>2 DEF PanelCancelled
      <4> QED BY <1>1, <4>1 DEF TurnInv, LegacyTypeInv
    <3> QED BY <1>7, <3>1, <3>2
  <2>4. LegacyTypeInv' BY <1>1, <1>3, <1>5, <2>1, <2>2, <2>3 DEF LegacyTypeInv
  <2>5. TurnInv' BY <2>1, <2>2 DEF TurnInv, Scripting
  <2>6. KeyRowsInv' BY <1>1, <1>3, <2>1, <2>2 DEF KeyRowsInv
  <2>7. ClientInv'
    <3>1. ASSUME NEW k \in LegacyKey \ doubt'
          PROVE  Agrees(keyRows[k].status, client[k])
                 /\ (~keyRows[k].placed /\ ~keyRows[k].uri => client[k] = "absent")
      <4>1. CASE tx[k] = keyRows[k] BY <1>1, <2>3, <3>1, <4>1 DEF ClientInv
      <4>2. CASE turn.by = "archive" /\ k \in turn.todo
        <5>1. k \notin doubt BY <2>3, <3>1
        <5> QED BY <1>1, <3>1, <4>2, <5>1 DEF ClientInv, KeyRowsInv
      <4> QED BY <2>3, <3>1, <4>1, <4>2
    <3> QED BY <1>3, <2>1, <2>2, <3>1 DEF ClientInv
  <2>8. LateInv'
    <3>1. ASSUME turn.action # "none", turn.sent = "no", turn.key \notin doubt'
          PROVE  turn.action = "revoke" /\ keyRows[turn.key].status = "pending_revoke"
      <4>1. turn.key \in LegacyKey /\ turn.key # NoLegacyKey /\ turn.key \notin turn.todo
        BY <1>1, <1>4, <3>1, LegacyKeyAssumption DEF TurnInv
      <4>2. turn.by \in {"panel", "archive"} /\ tx[turn.key] = keyRows[turn.key]
        BY <1>7, <2>3, <3>1, <4>1 DEF CycleCancelled, PanelCancelled
      <4>3. tx[turn.key].status = UnderwayAs[turn.action] BY <1>1, <3>1 DEF TurnInv, Scripting
      <4>4. keyRows[turn.key].status # "syncing" BY <1>1, <4>1 DEF KeyRowsInv
      <4> QED BY <1>1, <1>4, <3>1, <4>2, <4>3, <4>4 DEF TurnInv, UnderwayAs, KeyAction
    <3>2. \A s \in late : s[1] \notin doubt' => s[1] \notin doubt BY <2>3
    <3> QED BY <1>1, <1>3, <2>1, <3>1, <3>2 DEF LateInv, Revoking
  <2> QED BY <2>4, <2>5, <2>6, <2>7, <2>8 DEF LegacyInv
<1> QED BY <1>6, <1>7

(* A script whose connection was cut runs late, or never.                     *)
LEMMA StragglerKeeps == LegacyInv /\ Straggler => LegacyInv'
<1> SUFFICES ASSUME LegacyInv, Straggler PROVE LegacyInv' OBVIOUS
<1>1. LegacyTypeInv /\ TurnInv /\ KeyRowsInv /\ ClientInv /\ LateInv BY DEF LegacyInv
<1>2. UNCHANGED <<keyRows, tx, wanted, eligible, turn, doubt>> BY DEF Straggler
<1>3. PICK s \in late : /\ late' = late \ {s}
                        /\ \/ client' = [client EXCEPT ![s[1]] = Scripted(client[s[1]], s[2])]
                           \/ UNCHANGED client
  BY DEF Straggler
<1>4. s[1] \in LegacyKey /\ s[2] \in KeyAction BY <1>1 DEF LegacyTypeInv
<1> DEFINE k == s[1]
<1>5. /\ Scripted(client[k], s[2]) \in {"absent", "enabled", "disabled"}
      /\ s[2] = "revoke" => Scripted(client[k], s[2]) = "absent"
  BY <1>4 DEF Scripted, Provisioned, Removed, Disabled, KeyAction
<1>6. /\ client' \in [LegacyKey -> {"absent", "enabled", "disabled"}]
      /\ \A j \in LegacyKey \ {k} : client'[j] = client[j]
      /\ s[2] = "revoke" => client'[k] = client[k] \/ client'[k] = "absent"
  BY <1>1, <1>3, <1>4, <1>5 DEF LegacyTypeInv
<1>7. k \notin doubt =>
        /\ client'[k] = client[k] \/ client'[k] = "absent"
        /\ tx[k].status \in Revoking /\ keyRows[k].status \in Revoking
  BY <1>1, <1>6 DEF LateInv
<1>8. LegacyTypeInv'
  <2>1. late' \subseteq late BY <1>3
  <2> QED BY <1>1, <1>2, <1>6, <2>1 DEF LegacyTypeInv
<1>9. TurnInv' BY <1>1, <1>2 DEF TurnInv, Scripting
<1>10. \A status \in Revoking : Agrees(status, "absent") BY DEF Agrees, Revoking
<1>11. KeyRowsInv'
  <2>1. \A j \in LegacyKey \ doubt :
          Agrees(keyRows[j].status, client[j]) => Agrees(keyRows[j].status, client'[j])
    BY <1>6, <1>7, <1>10
  <2>2. turn.todo \subseteq LegacyKey BY <1>1 DEF LegacyTypeInv, KeyTurns
  <2> QED BY <1>1, <1>2, <2>1, <2>2 DEF KeyRowsInv, Scripting
<1>12. ClientInv'
  <2>1. k = turn.key /\ turn.sent = "done" /\ k \notin doubt => Agrees(DoneBy[turn.action], "absent")
    <3>1. turn.sent = "done" => Scripting /\ turn.action \in KeyAction
      BY <1>1 DEF TurnInv, Scripting, LegacyTypeInv, KeyTurns
    <3> QED BY <1>1, <1>7, <3>1 DEF TurnInv, UnderwayAs, KeyAction, DoneBy, Agrees, Revoking
  <2> QED BY <1>1, <1>2, <1>6, <1>7, <1>10, <2>1 DEF ClientInv
<1>13. LateInv' BY <1>1, <1>2, <1>3 DEF LateInv
<1> QED BY <1>8, <1>9, <1>11, <1>12, <1>13 DEF LegacyInv

LEMMA NextLegacyInv == LegacyInv /\ [LegacyNext]_legacyVars => LegacyInv'
<1> SUFFICES ASSUME LegacyInv, [LegacyNext]_legacyVars PROVE LegacyInv' OBVIOUS
<1>1. CASE Reevaluate \/ UNCHANGED legacyVars
  <2>1. UNCHANGED <<keyRows, tx, client, wanted, turn, late, doubt>> /\ eligible' \in BOOLEAN
    BY <1>1 DEF Reevaluate, legacyVars, LegacyInv, LegacyTypeInv
  <2> QED BY <2>1 DEF LegacyInv, LegacyTypeInv, TurnInv, KeyRowsInv, ClientInv, LateInv, Scripting
<1> QED
  BY <1>1, TakesKeep, PanelCallsKeep, ScriptsKeep, StartsKeep, PolicyKeeps, CommitKeeps, CutsKeep,
     StragglerKeeps DEF LegacyNext

(* Whichever cycle is cancelled, whatever the panel does between and however  *)
(* late a script runs whose connection was cut: the row of a key agrees with  *)
(* its client on the node, apart from keys whose own script was cut off and   *)
(* from the one in progress; for any keys, batches and interruptions.         *)
THEOREM RowsAgreeWithClients == LegacySpec => []LegacyKeysAgree
<1>1. LegacyInit => LegacyInv
  BY DEF LegacyInit, LegacyInv, LegacyTypeInv, TurnInv, KeyRowsInv, ClientInv, LateInv, Scripting,
     CycleRests, KeyRows, KeyTurns, KeyStatuses, KeyAction, Agrees
<1>2. LegacyInv /\ [LegacyNext]_legacyVars => LegacyInv' BY NextLegacyInv
<1>3. LegacyInv => LegacyKeysAgree
  BY DEF LegacyInv, KeyRowsInv, ClientInv, LegacyKeysAgree
<1> QED BY <1>1, <1>2, <1>3, PTL DEF LegacySpec
=============================================================================
