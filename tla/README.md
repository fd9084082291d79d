# bckordr in TLA+

bckordr is two products on one FastAPI control server and one fleet of worker
machines. The first registers expiring domains: it watches names, plans "attacks"
on those that will drop and hands them to workers. The second sells VPN access: it
creates and revokes client profiles on the same workers, now called *nodes*. This
project models the chain that carries one intent of the control server to one VPN
node and its answer back, the attack on a domain from planning to verdict, what
keeps the two products off each other on one machine, and the protocols around
them: keys without that chain, node preparation and upgrade, onboarding, sign-in,
trial and invitations, notifications, backup, watchdog, discovery, the control loop.

None of the links is reliable: SSH loses requests and answers, processes are killed
between two commits, a commit may or may not have happened, workers stall and come
back, people press a button twice. What must survive all that is simple to say: what
the control server shows is so on the node, nobody touches a node on which anything
may still be happening, and what may be done once is done once.

## 1. The system

The control server is one process: API routes and one loop of background cycles
(`services/control_runtime.py`) over one PostgreSQL database, whose row locks are
the synchronisation between them. Workers poll it over HTTP; nodes are reached over
SSH, where one-shot helpers run; customers come through a portal and a Telegram bot.

| component | state | operations; what is hard | what makes it correct |
|---|---|---|---|
| **Queue**, `vpn_control_intents.py` | `vpn_access_keys`, `vpn_control_operations` (one row per generation) | stage, claim, finalize; stale rows, late receipts, two claims at once | one operation per node, never beside an attack; a key settles only on a confirmed newest operation; a revoke sticks |
| **Dispatcher**, `vpn_control_dispatcher.py`, `vpn_control_reconciliation.py` | the phase of one dispatch, in memory | claim, write, receipt, finalize, lookup; ambiguous commits, silent nodes, a dying process | verdicts true of the node, a free node quiet, nothing written twice |
| **Transport**, `vpn_node_transport.py` | none | one request, one answer, a phase for every failure | a failure after the first byte decides nothing |
| **Journal**, `vpn_node_journal.py` | two SQLite files on the node: a gate and the operations with their fences | execute, lookup; two processes, kills between commits | at most once, no overlap, no answer taken back, runs that end |
| **Executor**, `vpn_xui_node_executor.py` | none; the panel's clients, Xray's users and connections | the journal's callback; a late POST, a process that keeps serving | receipts true of panel, Xray and connections |
| **Attack**, `attack_runtime.py`, `worker_runtime.py` routes, `src/worker` | domains, runs, tasks, live-create leases | plan, poll, acknowledge, permit, report, judge; late and repeated results, offline workers, stale acknowledgements | no more live requests than permits; after the win nobody is permitted |
| **Rates**, `attack_runtime.py` | `target_rps`, planned rates | share workers' rates by weight; rounding | wishes and capacities are kept |
| **Worker exclusion**, `vpn_policy.py`, `worker_maintenance.py`, `worker_decommission.py` | job rows, the worker row's lock, the host | maintenance jobs over SSH; shutdown, cancellation, restart | one kind of work on a machine at a time |
| **Unbound keys**, `vpn_lifecycle.py`, `vpn_provisioning.py`, `vpn_subscription_sync.py`, `vpn_customer_lifecycle.py` | keys without an endpoint | cycle and panel run scripts on the node; a cut script, a cancelled cycle | rows agree with clients |
| **Node preparation**, `vpn_node_bootstrap.py`; **upgrade**, `vpn_node_deployment.py` | files of a node | step-by-step helpers; kills anywhere, two at once | one token; an old or a new release, whole |
| **Onboarding**, `vpn_node_onboarding.py`, `vpn_reality_endpoint_*.py` | job, endpoint, evidence, release marker | prepare, stage, test, confirm; failures between them, a health probe beside them | a ready endpoint was proven; an awaited test can be made |
| **Readiness and fleet health**, `vpn_release_readiness.py`, `vpn_fleet_health.py` | observations, proofs, the release marker | probe, prove, open; everything ages | opened on what is true |
| **Access**, `vpn_public_trial.py`, `vpn_friend_invitations.py`, `vpn_telegram.py` | trials, invitations, profiles, bot updates | activate, redeem, redeliver; two at once, the last place | given once, within the room |
| **Portal**, `vpn_portal_auth.py`, `routes/vpn_portal.py` | claims, login attempts, sessions | exchange, log in, disable; replays, requests under way | one session per sign-in; who is out stays out |
| **Ready notices**, `vpn_ready_notifications.py` | a claim on the key | claim, send, record; stale claims | told once |
| **Watchdog**, `operations/watchdog.py` | an alert file | compare, save, send; kills, damaged file | alarms and recoveries pair up |
| **Backup**, `operations/backup.py` | sets and a marker file | dump, copy, publish, retire; kills, edited sources, clock stepping back | the marker names a whole set |
| **Discovery**, `discovery.py`, `discovery_worker_runtime.py`, `worker/app/discovery_checker.py` | names, their window, worker tickets | look, report, predict; late reports, overlapping writes | the drop is in its window |
| **Control loop**, `control_runtime.py` | asyncio tasks | cycles, background tasks, a probe with a timeout, shutdown | one probe, nothing left behind |
| Zone scans, Admin API, migrations, frontend, harvester, deployment files | | input and output, validation, CRUD | not modelled, or only the routes that change the state above |

`PROJECT.json` lists every component with its sources and status, and every hazard
with the line where it bites and the property that watches it.

## 2. The modules

```
NodeExecution            what a node promises, abstractly
  ^ implemented by         ^ used as the node by
VpnNodeJournal  <--------  VpnControlDispatch
  ^ extended by              ^ extends
VpnNodeExecutor            VpnControlQueue

AttackTasks              one domain, its runs, tasks, workers and registry

MCFleet      = WorkerMaintenance | LegacyKeys | NodeRelease | NodeBootstrap | NodeOnboarding
             | BackupSets | OperationsWatchdog | DiscoveryChecks | ControlLoop | RpsTargets
MCCustomers  = TrialAccess | PortalSessions | ReadyNotices | ReleaseReadiness

proofs: VpnNodeJournalProofs   <-- VpnNodeExecutorProofs      (extends)
        VpnControlQueueProofs  <-- VpnControlDispatchProofs   (extends)
        AttackTasksProofs          of AttackTasks, RpsTargets
        WorkerMaintenanceProofs    of WorkerMaintenance, LegacyKeys
        FleetProofs                of NodeBootstrap, NodeRelease, NodeOnboarding, BackupSets,
                                   ControlLoop, OperationsWatchdog, DiscoveryChecks
        CustomersProofs            of TrialAccess, ReadyNotices, PortalSessions, ReleaseReadiness
```

### The VPN control plane

**NodeExecution** is the contract between the two halves of the project: a node
accepts an operation at most once, one at a time, in generation order of its key and
never as a provision after a revoke; it then settles it as observed, failed or
uncertain, and an uncertain one stops the node. The journal is shown to implement
it, and the dispatcher is checked against it, so the node's inside and the control
server's inside never have to be explored together.

**VpnNodeJournal** has one action per step between two commits of
`execute_node_operation`. `pc` is the place in that function, `gate` the holder of
the gate's write transaction. `Invoke` is the start of a one-shot process;
`AcquireGate`/`GateBusy` the `BEGIN IMMEDIATE` on the gate; `Conflict`, `Recover`
(the commit that classifies abandoned rows), `Replay`, `Refuse` and `Admit` (the
acceptance commit) its branches in source order; `MarkMutating`/`MarkFails` the
callback's mark; `Send`/`Land` an effect leaving and reaching the panel;
`ReturnObserved`, `RaiseUnmarked`, `RaiseMarked` the three ways the callback ends and
the row that follows; `FailClosed` the error of a run whose mark failed; `Return`
the answer. `Abort` is a kill or an interruption at any step: it releases the gate,
because SQLite does, and leaves the rows and whatever is on the wire.
`LookupReceipt(r)` is the read-only lookup, evaluated in every state because it
waits for no run. `sent`, `entered` and `refused` are history variables.

**VpnNodeExecutor** replaces the journal's arbitrary callback by the real one:
snapshot of the panel, preflight against panel and Xray, route, mark, POST, polling,
forced restart, verification. The panel applies or rejects a POST at any later time,
also after its run was killed. Xray keeps serving a user until it restarts; the
clock expires terms; the panel disables expired clients; operators and the panel
restart Xray; customers connect. These are the environment and marked external.

**VpnControlQueue** has one action per transaction: the entry points that stage
(`Issue`, `Lifecycle`, `RetryProvision`, `DisableInvitation`), those that only
change policy or stamp a key (`UpdateSubscription`, `Drift`, `AskRevoke`,
`Archive`), `Claim`/`ClaimNothing`, `Finalize` with every receipt, the two other
users of a node and the endpoint's status (`SetEndpoint`). Those users are maintenance
jobs (`Maintain`, `MaintenanceOver`) and the attack: the planner gives a node a task
(`PlanAttack`), the task ends before its run does (`TaskEnds`), the attack may come back
to the node without looking at the queue (`AttackReturns`), and it ends (`AttackOver`).
`Stage` is `stage_vpn_control_operation` with its checks; `Matches` is
`_intent_matches`. The list of candidates `Claim` works through was read before any lock,
so it may be any list of queued rows: `skipped` are the rows that are not on it and those
another transaction has locked (`SKIP LOCKED`). Under the locks it looks a second time
whether the row's node is free (`Tried`), passes over the rows of nodes that are not,
supersedes every outdated row it meets, and claims the first that matches. A row is named by its key and generation; the code's UUID and its uniqueness
constraint on the pair say the same.

**VpnControlDispatch** puts the dispatcher, a lossy network and the abstract nodes
beside that queue: `Node(w)` is one node with its own rows, `Nodes` the rows of all.
What is on its way to one node may arrive while the dispatcher serves another. `TakeNext` is the claim and its commit (which may be unconfirmed:
the row is claimed and nobody works on it); `PrewriteFails`, `Write`, `Receive`,
`TransportFails` the run; `FinalizeCommits`, `FinalizeUnclear` the bounded finalize;
`ReconcileDone`, `ReconcileLookup`, `ReconcileCommits` the reconciliation; `GiveUp`
a crash of the control process or a failed reconciliation. The rest of the control
server goes on meanwhile (`Elsewhere`).

### The attack

**AttackTasks** is one domain with its window, runs, tasks, leases and the registry.
The control cycle is a process with awaits (`cycle`): supervising silent workers,
planning, rebalancing, closing windows and asking the registry about a run that is
being verified, whose answer is applied to rows loaded before it asked. The panel
starts and stops at any time. A worker (`client`) polls, acknowledges, asks for a
permit, sends, and reports; it may stall between any two of these, crash, come back
and report late. Reads without a lock (the acknowledgement, the verdict) are two steps
and write over what was committed between them. `calls` are the create attempts: each is
given its permit (`Acquire`), is sent at any later time without another look at the rows
(`Send`), and is accepted, refused or lost. What its worker gives up after it was sent is
`left` to the registrar, which may still accept it (`RegistrarEnds`). A lease may end at any
moment (`LeaseEnds`); `outlived` counts the attempts of a run that were under way when it did.

**RpsTargets** is the arithmetic beside it: `allocate_domain_target_rps` with its
rounds of `_weighted_fill` and `refresh_domain_task_targets`, in whole hundredths.

### One machine, three users

**WorkerMaintenance** has the steps of `run_worker_maintenance_job`: the running
status, the lock of the worker row, the second look under it, each SSH command with its
effect on the 3x-ui service, and the end; beside it routes that queue jobs, the
planner, a late acknowledgement, queued VPN operations, archiving the worker, and a
cancelled request or restart at any point. VpnControlQueue has the same users with one
atomic step for each, and keeps what `active_attack_worker_ids` makes of a task and its
run apart in the same way.

**LegacyKeys** is the cycle and the panel over keys without an endpoint: who holds the
mutation lock, the script under way, the transaction (`tx`) and what was committed. A
connection that is cut leaves a script (`late`) that may still run.

### Nodes

**NodeRelease** and **NodeBootstrap** have one action per change of the disk or of the
panel; the helper may be killed between any two, and a file may be half written. A
bootstrap whose connection is cut goes on beside the next one. **NodeOnboarding** is
the job, the test profile and the confirmation, each holding the worker's row, with the
rollback of a failed step, the failure written by a transaction of its own, and the
health probe between them. **ReleaseReadiness** is the commit that locks the
tables and reads them one after the other, and all that may have happened before it: probes
that are under way, proofs, work, new configurations, stored observations.

### Customers

**TrialAccess** is requests as transactions: each takes its row locks in the code's
order, chooses candidates before it locks one, and commits at once. A bot update has a
row and a reply, and is delivered again. **PortalSessions** is launches and login
attempts, the rows that remember them, their clean-up, and sessions under a clock.
**ReadyNotices** is claim, message, answer and record under a clock that makes claims
stale. A sender may stall for any time (`StallTeller`): it is then in `stalled`, where its
message may still arrive, and where it records its outcome whenever it likes, also after
another process has taken over its claim, sent, and recorded.

### Operations

**BackupSets** changes the directory step by step; the sources are looked at and copied
one after the other, and each is edited at any time. **OperationsWatchdog** has the alert file before and after each delivery.
**DiscoveryChecks** has looks of the cycle, the panel and workers, whose result is
computed on the row as it was loaded and merged column by column. **ControlLoop** is
the tasks of the loop, the probe's cancellation and the order of `shutdown`.

The `MC…` modules give the constants small values. MCFleet and MCCustomers run one of
several independent modules, chosen in the first state (`part`): the others stay
where they begin and the view leaves them out, so that the state spaces add up instead
of multiplying. Nothing is said there of two parts together; what two components
share is inside one module (attack, job and queue in WorkerMaintenance, trial,
invitation and bot in TrialAccess, job and probe in NodeOnboarding).

A `\* Mutant of …` operator in a module is a plausible bug in the definition after it;
each shows that the property named with it in `PROJECT.json` can fail.

## 3. What is checked

| run | instance | question | states |
|---|---|---|---|
| `node_journal` | 2 processes, 4 ids, 2 keys, 5 requests: grant, revoke, grant again, another key, and an id reused with other contents | Does the journal keep its promises whatever is killed, repeated, late or concurrent, and does it implement NodeExecution? | 440 721 |
| `node_journal_live` | 2 processes, 3 requests | Does every run end? | 17 488 |
| `node_executor` | 1 process; a key granted on terms that run out, suspended, resumed on other terms; a second key on the terms that run out | Are the receipts true of panel, Xray and connections, and does the callback keep the journal's contract? | 342 494 |
| `control_queue` | 2 keys on 1 node, 3 generations, 2 terms, paced | Does a node serve one at a time, alone; does a key settle only on what was confirmed, and a revoke stick? | 487 868 |
| `control_queue_live` | 2 keys on 2 nodes, 2 generations of one of them | Does an operation wait for its own node only? | 153 963 |
| `control_dispatch` | 2 keys on 1 node, 1 on another, 3 generations, paced | Do queue and nodes agree across losses, crashes and ambiguous commits, and is nothing written twice? | 360 936 |
| `attack_tasks` | 2 workers, 1 run, 2 attempts per task, 1 upset, 1 attempt that outlives its lease, permits for 1, 2 confirmations | Are create attempts within their limit, and are there no new ones after the win? | 1 529 255 |
| `fleet` | the ten parts of MCFleet | Each part's property, section 1 | 2 007 956 |
| `customers` | the four parts of MCCustomers | Each part's property, section 1 | 1 319 954 |
| `control_retry`, `attack_stranded`, `onboarding_stuck` | | expected violations, section 5 | – |

The parts of the last two: WorkerMaintenance (2 jobs, 1 restart) 256 thousand states,
LegacyKeys (2 keys, 1 cut) 1.05 million, NodeRelease (2 releases, 3 kills) 1.7 thousand,
NodeBootstrap (2 processes, 2 kills) 382, NodeOnboarding (2 jobs, 2 public keys, 2
disturbances) 36 thousand, BackupSets (4 sets, 2 sources, 2 retained, 1 edit of each) 193 thousand,
OperationsWatchdog (6 cycles, 2 faults) 4.3 thousand, DiscoveryChecks (1 name, 1 ticket,
2 days, 2 looks) 187 thousand, ControlLoop (3 probes) 5.2 thousand, RpsTargets (3 names,
2 workers) 275 thousand; TrialAccess (2 requests, 2 persons, 1 link, 1 place, 1 update)
955 thousand, PortalSessions (a launch, an attempt, 2 visits) 31 thousand, ReadyNotices
(2 processes, 8 moments, 1 stalled sender) 68 thousand, ReleaseReadiness (2 endpoints) 266 thousand.
RpsTargets was also run with 2 names, rates to 5 and priorities 1, 3 and 8. Each part was
run alone with TLC's coverage, too: every one of its actions, and every branch of them,
is taken within these bounds.

**Why the bounds suffice.** Every property relates at most two actors and one thing
they contend for, or one thing with its history. The journal's requests contain every
pair the fences tell apart, and two processes are all that a gate with one holder can
tell from more. Three generations give a key an old operation in flight, a newer one,
and a retry or revoke of it; two terms are a renewal; two keys on a node are a holder
and a contender. `MaxGeneration` is also the code's own guard (2^31 - 1 there). *Paced*
runs (`control_queue`, `control_dispatch`; the action constraint of their configurations)
explore both of these without their product: in `control_queue` either both keys move
within one set of terms and one of them is issued again, or one key has its whole history,
on all terms, while the other is not issued; in `control_dispatch` one key has its whole
history while its node is attacked or disabled, or two keys, of one node or of two, have one
generation each. An attack comes back to a node that nothing else disturbs: in
`control_queue` with both keys on it, in `control_dispatch` in the first two generations of
its key, in `control_queue_live` on either node. That run leaves out what does to the queue
the same as something it keeps: draining (as disabled), uncertain rows (as rows that stay
claimed), failed and refused ones (as superseded), a policy of revoking (as a revoke); only
one node at a time is not at rest, and one key has two generations. So a row of the second
generation waits behind one of the first, outdated, stuck or of the other node, and rows of
the same generation come in either order. The safety of every module is
proved without these bounds (section 4); the runs show that the cases the proofs speak
of do occur, and that plausible bugs are found.

In AttackTasks one run with two workers has a winner and a sibling, a worker that comes
back late and one that is freed; an upset is one panel request, stall or loss at an
arbitrary moment. With one attempt that may outlive its lease a permit is in hand while
another worker wins, which is the case `CreatesStop` is about. In NodeRelease three kills are an upgrade, its recovery and the
recovery's recovery. Four backups are two retained, one removed and one in progress.
Watchdog cycles allow an outage, a recovery and another outage around two faults. Clocks
in PortalSessions, ReadyNotices and ReleaseReadiness are long enough for every lifetime in
them to end once with something still under way; two days in DiscoveryChecks are a look
before a deletion, the deletion, and a look after it that began when the first was over.

**Symmetry** is used only where the constants do not tell the permuted values apart and
no liveness is checked: processes, keys, workers, jobs, requests, persons; in `fleet` the
first two values of each such set.

**Deadlock** is not checked in `fleet` and `customers`: their clocks, restarts and
attempts are bounded, and a part really ends there (a helper that has answered, rates
that are computed, a loop that is shut down).

**Fairness.** `node_journal_live`: weak fairness of each process's own next step. Every
wait there is bounded in the code: the gate and the databases by their lock timeouts,
the panel's answer by the HTTP timeout, the watch by its deadline. No fairness is assumed
of requests arriving, of the panel, or of kills. `control_queue_live` and `control_retry`:
weak fairness of a claim turn and of the end of an attack or maintenance, and in
`control_retry` of each key's lifecycle pass, which the control process's loops run for ever.
A fair turn reads the whole list and finds no row locked; it goes through all rows that come
before the one it claims. Nothing is assumed of a
dispatcher finishing what it claimed; `NoHeadOfLineBlocking` is accordingly about rows
that are not behind an occupied node. The other modules state safety only: what should
happen eventually depends there on people, registries or an operator.

**Assumptions.** On constants, those that say something of the code:
`LifetimesAssumption` (a launch's age, the allowed skew and the longest request together
are shorter than the life of the claim that remembers it; 5 minutes and 30 seconds against
10 minutes in the code), `StaleClaimAssumption` (to claim, send and record takes less than
the two minutes after which a claim is stale; a process that is slower is one that stalled,
and its message counts as one nobody heard of in time),
`RetentionAssumption` (at least two sets are retained; the configuration admits 2 to 31),
`LookAssumption` (times of discovery are not negative), `RpsAssumption` (there is a name to
share for, and a priority counts at least one, as `max(1, ...)` and the early return for no
names in `_weighted_fill` see to). The others say that names of values are apart and limits positive:
`AttackAssumption`, `QueueAssumption`, `RequestsAssumption`, `TermsAssumption`,
`JobAssumption`, `LegacyKeyAssumption`, `ReleaseAssumption`, `ProbingAssumption`,
`AccessAssumption`, `SignInAssumption`. On the environment: the node's x-ui has
`restartXrayOnClientDisable` set, as onboarding requires; a node has one endpoint; in
VpnControlQueue each key has a subscription and a customer of its own, in LegacyKeys the
keys share one; a transaction under row locks is atomic unless its module says
otherwise; one control process dispatches. A claim whose commit was unconfirmed and did
*not* happen is the step not taken.

## 4. What is proved

TLAPS proves the theorems below for every value of the constants that satisfies the
assumptions at the end of section 3: any number of processes, keys, operations, requests,
workers, jobs, sets, probes and days, any rates and priorities, and any number of kills,
cuts and restarts (the bounds in the guards are constants too). They state every safety
invariant and action property of the passing runs.

Each has the same form. An inductive invariant holds at first (`Init…`), one lemma per
action or group of actions shows that it is kept, one (`Next…`) puts them together, and
the property follows from it; an action property follows from it and the step. None of the
properties is inductive as it stands: what the invariants add is what the code relies on
and nowhere says. TLC checked each invariant on the instances of the runs before it was
proved.

### The VPN control plane

*VpnNodeJournalProofs*: `InductiveInvariant`, and from it `TypeCorrectness`,
`JournalNeverLocksItselfOut`, `ExecutesAtMostOnce`, `FailedMeansNothingSent`,
`EffectsNeverOverlap`, `AnswersAreKept`, `SendsFollowGenerations`,
`RevokedKeysStayRevoked`, `LookupsNeverDisagree`, and `JournalImplementsNode`. `IInv` adds
- `GateInv`: the gate's holder is exactly the process past opening;
- `RowInv`: rows agree with fences, sit under their own id, and were entered once;
- `SingleInv`: at most one row is open, which is why recovery can classify rows
  without asking whose they are;
- `OwnerInv`: what a process knows of its own row at each place; in particular
  that after the recovery commit nothing is in progress, and that a performing
  process's row is the newest of its key;
- `SentInv`: only marked operations send, and what is on the wire is still open;
- `RefusedInv`: every reason to refuse is permanent, so a refusal can be handed out
  without a row on disk.

The lemma with substance is `AdmitIInv`, the acceptance commit: it alone adds a row and
moves a fence, and needs `SingleInv`, `RowInv` and `OwnerInv` together. The refinement maps
each action to the abstract step it performs or to a stutter.

*VpnNodeExecutorProofs* carries these over to the callback the node really has.
`ExecInductiveInvariant` is the journal's `IInv` and, beside it,
- `PostInv`: the wire holds at most one POST, that of its key's newest operation;
- `StageInv`: where the callback is and where the journal is agree, it marks before it
  sends, and moves on only when its POST was answered;
- `BeforeInv`: until its POST is applied the client is as the callback found it, unless its
  terms ran out; only therefore is the route it chose still right when it is applied;
- `ChangeInv`: afterwards the client is what the request wants, and Xray once it was seen to;
- `SessionInv`: a connection needs a process that lets the key in.

`ContractStep` shows that every step of the callback is one the journal allows, so that
`NodeKeepsContract` and `DeployedNodeImplementsNode` follow by refinement: the deployed
node, panel and Xray included, implements the abstract node. `ObservedDisablesHold`,
`ObservedProvisionsHold` and `NewestOperationDecides` are its receipts. The delicate lemma
is `ApplyKeeps`: a POST may reach the panel long after its run was killed, and still
changes nothing that an observed operation vouches for, because its row then is open and
nothing newer was accepted.

*VpnControlQueueProofs*: `QueueInductiveInvariant`, `QueueTypeCorrectness`,
`NodesServeOneAtATime`, `NodesAreNeverShared`, `StaleRowsNeverWait`,
`SettledMeansConfirmed` and `RevokesAreNeverUndone`. Receipts are arbitrary there:
the queue is right about itself whatever a node answers. The invariant adds that a
key exists once it has a generation (`IssuedInv`), that a revoke that was asked for
is visible in the key's status (`AskedInv`), and that staged rows have a snapshot
(`IntentInv`). `SettledMeansConfirmed` is the delicate one: `Finalize` may settle a
key only because `Matches` compares the row with the key's present generation,
status and terms in the same transaction.

*VpnControlDispatchProofs* puts the two together, for any number of nodes. `DInv` is the queue's
invariant, that a settled key has nothing under way (`SettledIdle`), and
- `JobInv`: wherever the dispatcher is, its row is still claimed, and it is about to write
  only what was never written;
- `ReceiptInv`: what it is about to record is true of the node already;
- `WireInv`: what is on its way was written and has not arrived, and what arrived is what
  the row says;
- `QuietInv`: what is on its way or unsettled on a node is claimed or uncertain in the
  queue, so it holds that node;
- `OrderInv`: an active operation is the newest written of its key, and a revoke once one
  was written, so the node's fences let it in.

With `OneActive` (the queue's `OneAtATime`: one active operation a node) these give `VerdictsTrueOfNode`,
`SettledKeysMatchNode`, `FreeNodesAreQuiet`, `NothingIsRefused` and
`OperationsAreWrittenOnce`. `DispatchImplementsQueue` shows that every step is one the
queue allows or a stutter of it, so that all of the queue's theorems hold of the
composition; `DispatchKeepsNodeContract` that each node in it, with the rows that are its own,
is the abstract node (`NodeSeesStep`: a step is one node's, and the others stutter). The chain
is closed there: dispatcher and queue drive NodeExecution, and NodeExecution is what journal
and callback implement.

### The attack

*AttackTasksProofs*: `AttackInductiveInvariant`, `AttackTypeCorrectness`,
`CallsStayWithinLimit`, `CreatesStopAfterWin`, `StoredWinsStay`. Requests cannot be
counted without the leases: `AttackInv` says that a task has one lease at most, a run no
more than may be in flight, that an attempt without a lease has outlived its own or belongs
to a run whose win is stored (`CreateInv`), and that the attempt that won is there until its
win is (`StopInv`). `CallsStayWithinLimit` then maps attempts to leases one to one;
`CreatesStopAfterWin` takes the winner out of that count, and shows that nothing a stored
win meets gives a permit. The other half are the writes of rows: planning, rebalancing, supervising, judging,
acknowledging and the panel all rewrite whole rows, some of them as they were loaded before
an await, and `Keeps` says of each of them that it touches no lease and takes no stored win
back (`StoredWinsStay`), which is what a permit relies on.

The same file proves `TargetsAreKept`, the arithmetic of RpsTargets for any names, workers,
priorities and rates, and any number of rounds. `RpsInv` keeps three things in hundredths:
what a name has and what it may still get are together its wish (or its minimum, when the
workers cannot carry all minimums); what is given out and what is left are together the
total, as long as something is left; and only the last round gives out more than was left,
and little: either a share rounded to nothing, so that all that was left is little for that
name's weight, or every share is within one half of a hundredth and the lightest name shows
it (`Rounding`, `OneGrant`, `LastRound`). The tasks of a
name are added up in the order the workers were read. What is needed of sums (`SumRemove`,
`SumLinear`, `SumMonotone`, `SumWider`, ...) is induction over finite sets; it is stated with
a *set* of good subsets (`SubsetInduction`) where the library takes an operator, and the
products of two unknowns are lemmas of their own (`Division`, `Products`), since the
arithmetic of the prover is linear.

### One machine

*WorkerMaintenanceProofs*: `ShellIsExclusive` from `MaintenanceInv`: the row lock is
held by exactly the changing job that is past the second look (`LockInv`), and while it is
held there is no open task and no active control operation (`QuietInv`); the routes check
the row without the lock, so nothing less would do. The same file has LegacyKeys:
`RowsAgreeWithClients` from `LegacyInv`, which compares three things instead of two, the
committed rows, the open transaction and the node. Outside an archive the transaction differs
from the committed rows in the present key at most (`KeyRowsInv`), which is what a cancelled
cycle falls back to; the transaction agrees with the node (`ClientInv`); and a late script
belongs to a key in doubt or repeats the revoke that its key awaits anyway (`LateInv`).

### Nodes and operations

*FleetProofs*, one short invariant per module:
- `TokenIsCreatedOnce` (`BootInv`): at most one process can be between its backup and the
  token, and while one is there is no token yet.
- `ReleasesSurviveKills` (`ReleaseInv`): a marker on the disk always leads back to an old
  release that is still there, in its place or beside it (`Restorable`), and goes only when
  the one in its place is whole; with what is on the disk at each step (`InstallInv`).
- `ReadyEndpointsAreProven` (`OnboardInv`): who holds the desk to add, remove or promote
  does so on a staged endpoint, of the marker's key, and promotes without a test client.
- `LatestSuccessIsComplete` (`BackupInv`): what is complete at each step of a set, for any
  number of sources, and that
  the marker names this set or the one before, never the one that retention is removing.
- `LoopLeavesNothing` (`LoopInv`): what is alive is the probe the loop knows of.
- `MessagesPairUp` (`WatchInv`): while no delivery is in doubt the alert file tells what the
  operator was told last, at each place of a cycle.
- `WindowsHoldTheDrop` (`DiscoveryInv`): a look that saw no deletion and was over before a
  second began bounds the deletion the second saw from below (`Clear`), also in rows that
  were loaded earlier and are merged later. TLC cannot go far here; the theorem is about
  any times of grace, redemption and lookup.

### Customers

*CustomersProofs*:
- `AccessIsGivenOnce`, `EndpointsFillToTheirLimit` (`AccessInv`): what a request has found
  out under a row lock stays so while it holds it (`WorkInv`, `SoundStays`).
- `CustomerHearsOnce` (`NoticeInv`, `StalledInv`): nobody who has not stalled is longer at a
  step than the code lets him (`TimesInv`), so the claim of whoever tells is still his
  (`ClaimInv`), and a message more than the unsure ones is known or on its way to be
  (`SentInv`). This is where `StaleClaimAssumption` is used. Whoever stalled still has his
  claim, and then nobody tells, or has had the time after which another may have taken it,
  and then with another time: so what he records touches nobody else's claim.
- `SignInOpensOnce`, `DisabledPersonStaysOut` (`PortalInv`): a request for a launch ends before
  the claim of it may be forgotten (`TimelyInv`, from `LifetimesAssumption`), a consumed
  attempt is in the hands of one request (`AttemptInv`), and who issues a session has read
  the person under its lock (`LockInv`).
- `ServiceOpensOnTruth` (`ReadyInv`): under the table locks what was read is what is there.

### Only model-checked

- Every invariant and every action property of the passing runs has its theorem. What has
  none is temporal:
- Liveness: `RunsEnd`, `NoHeadOfLineBlocking`. Liveness under fairness and `ENABLED` are
  outside what the prover can do.
- `PendingIsRetried`, `RunningIsPolled` and `AwaitingIsOpen` are not proved because they are
  refuted (section 5).

## 5. Disagreements between code and documentation

**`control_retry`.** `docs/vpn-service.md:344-346` says that "The scheduled worker retries
pending operations even when the browser's immediate maintenance request fails." For an
endpoint-bound key whose newest operation failed before any mutation, the code does not:
`stage_vpn_control_operation` refuses the same action again
(`vpn_control_retry_required`) unless it is called with `retry_failed`, which only an
administrator's retry of an invitation does, for provisions; the lifecycle pass swallows
that error. The run shows the key pending for ever on a free, ready node, with the
lifecycle pass running fairly. A revoke or a suspension cannot be retried by that
administrator's path at all; only a change of the wanted action stages a new row.

**`attack_stranded`.** `README.md:196` of the repository says that after a success "freed
workers can be reassigned by control to other active runs". Inside the window of the
other run `rebalance_worker_pool` creates the freed worker's task as `running`
(`attack_runtime.py:1719`), but `get_next_task` (`worker_runtime.py:164`) gives out queued
tasks only. The run shows a running task whose worker has nothing to do and never gets
it. A run that the planner opens inside its window has the same fate.

**`onboarding_stuck`.** `docs/superpowers/plans/2026-10-15-veltrix-vpn-node-onboarding.md:418,594`
has the operator take a test profile and confirm it while the stage is `awaiting_test`.
Both need `worker.vpn_runtime_status` to be `awaiting_test`; a health probe that finds the
node healthy sets it to `ready` (`vpn_fleet_health.py:300`). The stage shown stays
`awaiting_test`, and test profile and confirmation answer
`vpn_onboarding_reconciliation_required` until a probe finds the node unhealthy
and the onboarding can be started again.

Not disagreements, but worth knowing:
- A claimed row whose node does not know the request, or whose dispatcher died, stays
  claimed and keeps its node reserved, as the design asks
  (`docs/superpowers/specs/2026-09-22-veltrix-strict-dispatcher-design.md:150-155`), so no
  liveness is claimed of it.
- `active_attack_worker_ids` (`vpn_policy.py:157-173`) counts a worker again when the run
  of a task that ended earlier is being verified, or when a late acknowledgement revives
  the task. Nothing looks at the queue then, so an attack can be counted on a node whose
  operation is queued, claimed or uncertain. Operations that wait stay queued until the run
  ends, and one that was claimed goes on. `NeverShared` is therefore about attacks the
  planner starts and about maintenance. Choosing a worker and committing its task are one
  step there, for the look at the operations is the one under the worker's row lock.
- A create permit is given by one request and used by the next: between them the worker looks
  at nothing. A worker that got its permit before the win may therefore send its create after
  the win is stored; with the default limit of one permit per run that takes a lease that
  ended in between. `CreatesStop` says how many can be in that place and that no more come.
- Onboarding accepts a helper that answered `recovered`, where
  `docs/superpowers/plans/2026-09-23-vpn-node-one-shot-deployer.md:72` accepts `installed`
  only; NodeRelease shows that a recovered node has its old release.
- A watchdog recovery whose delivery fails, followed by one more failing cycle and health
  again, is closed without a message.
- A late report of a discovery ticket that was given up is applied after newer looks; it
  can take a name back from `available` to `pending_delete`. After a look that ended in an
  error the predicted window starts too late, which is why `WindowHolds` asks of its
  beginning only what the look before allows (`sure`).
- A key without an endpoint whose own script was cut off is out of `LegacyKeysAgree` for good:
  nothing in the code finds out what the script still did. A watchdog that is killed between
  a message and its file, or finds the file damaged, may repeat or omit a message;
  `AlarmsPair` is about all other cases (`unsettled`).
- Whether the callback looks at a profile's terms once more before it answers
  (`vpn_xui_node_executor.py:552-556`) makes no difference that lasts: they may run out right
  after the look. `ProvisionHolds` is about terms that still run and cannot tell.
- A backup set holds each source as it was at one moment, not all of them as of the same.
- A share of rates that rounds to nothing becomes all that is left of the round
  (`attack_runtime.py:587`), so the sum may exceed the workers' total; `TargetsFit` says by
  how much.

## 6. Not modelled, and why

*Control plane*: framing, digests, size limits, known_hosts and permissions (data and
I/O); the panel's HTTP and the parsing of Xray's status (one observation is one exact
read); the other clients of an inbound, which `verify` compares as well; the URI, display
names and limits copied into a key; replacement of one SQLite file under a run (an error,
which ends as `Abort`); more than one dispatcher (the code runs one).

*Attack*: names, addresses, pacing of requests, strategy windows and snapshots, statistics,
worker registration and authentication. A window is before, open and after. The repeated
reading of tokens and health by a worker is a stall.

*Machines*: recovery of a maintenance job that a restart interrupted (the code has none:
it stays running and reserves its worker); the text of the scripts; traffic counters; the
choice of a node and inbound; the order inside a lifecycle batch and its fairness, which
needs unboundedly many failing keys.

*Nodes*: bundles' contents, file modes, connections, host-key fingerprints; two deployment
helpers at once (the code has no lock against them; control serialises them per worker);
the probe of the target site of a REALITY inbound; what the node's health command looks
at (one verdict).

*Customers*: signatures, cookies, CSRF, texts, reading routes, creating and listing
invitations; other bot commands, whose replies are not replayed after a failed delivery.
A redemption under way while its invitation is disabled is in TrialAccess, but no property
asks what the disabled customer keeps; `DisabledStaysOut` is about sessions.

*Operations*: restore; partial backup sets, which are never removed; the single checks of
the watchdog; hand-made observations, notifications, intervals and the drop zone of
discovery; the intervals between the loop's tasks and failures inside shutdown; zone scans
(one file after the other, with counters only the panel shows; cancelling one during its
lookups ends it as completed).

Validation, CRUD, schema migrations, the frontend and the harvester hold no control state.

## 7. Plan

What is left to model adds least and comes last: strategy windows that straddle the hour,
zone scans with two jobs of one zone, the fairness of the lifecycle batch.

Proofs: WorkerMaintenance and VpnControlQueue each have the three users of a node, once in
steps for one worker, where an acknowledgement may revive any task that was polled, and once
for all workers in one step each. An abstract specification of that reservation which both
implement would join them.
