----------------------------- MODULE AttackTasks -----------------------------
(* The attack on one domain: the control cycle and the panel plan runs and *)
(* tasks, the workers poll tasks, ask permission for every live create     *)
(* request and report back, and finished windows are judged by asking the  *)
(* registry. Rates, names and addresses are left out; a task is one row of *)
(* worker_tasks, the third part tells apart rows of one run and worker.    *)
EXTENDS Naturals, FiniteSets, FiniteSetsExt

CONSTANTS Worker, Run, MaxRows, MaxInFlight, Confirmations, NoTask,
          MaxCalls, MaxUpsets, MaxOverruns    \* bounds of the model

ASSUME AttackAssumption ==
  /\ Run \subseteq Nat /\ MaxRows \in Nat /\ MaxCalls \in Nat /\ MaxUpsets \in Nat /\ MaxOverruns \in Nat
  /\ MaxInFlight \in Nat \ {0} /\ Confirmations \in Nat \ {0}

VARIABLES window,    \* the domain's daily window: before, open or after
          registry,  \* who holds the name at the registrar
          db,        \* the rows of the control database
          calls,     \* the create attempts from permit to end, as [task, k, at, late]
          outlived,  \* how many attempts of a run outlived their lease
          client,    \* what each worker process is doing
          cycle,     \* the control cycle between two of its awaits
          upsets     \* panel requests, stalls and losses so far (a bound)
attackVars == <<window, registry, db, calls, outlived, client, cycle, upsets>>

Task == Run \X Worker \X (1..MaxRows)
TaskRun(t) == t[1]
TaskWorker(t) == t[2]
ActiveRun == {"planned", "running"}
OpenTask == {"queued", "running"}
Eligible == {"ready", "queued", "scheduled", "attacking"}

RunRow == [status: {"none", "planned", "running", "verifying", "success", "failed", "stopped"},
           quick: BOOLEAN, over: BOOLEAN, accepted: BOOLEAN, checks: Nat, registered: Nat]
TaskStatus == {"none", "queued", "running", "success", "failed", "stopped", "cancelled"}
Upset == upsets < MaxUpsets /\ upsets' = upsets + 1
Calm == UNCHANGED upsets
DomainRow == [status: Eligible \cup {"verifying", "success", "failed", "paused"},
              enabled: BOOLEAN, auto: BOOLEAN, won: BOOLEAN]
Lease == [task: Task, k: 1..MaxCalls]

(* An attempt holds its permit, is sent, and may be accepted; one its *)
(* worker has given up is left to the registrar.                      *)
Call == [task: Task, k: 1..MaxCalls, at: {"permit", "sent", "accepted", "left"},
         late: BOOLEAN]
Slot(c) == [task |-> c.task, k |-> c.k]

ActiveRuns(s) == {r \in Run : s.run[r].status \in ActiveRun}
OpenTasks(s, r) == {t \in Task : TaskRun(t) = r /\ s.task[t] \in OpenTask}
\* Mutant of Accepted: only the domain's status tells.
AcceptedByStatus(s, r) == s.domain.status = "success"
Accepted(s, r) == \/ s.run[r].status = "success" \/ s.run[r].accepted
                  \/ s.domain.status = "success"

SetTasks(s, T, v) == [s EXCEPT !.task = [t \in Task |-> IF t \in T THEN v ELSE @[t]]]
SetRuns(s, R, v) == [s EXCEPT !.run = [r \in Run |->
                       IF r \in R THEN [@[r] EXCEPT !.status = v] ELSE @[r]]]
SetDomain(s, v) == [s EXCEPT !.domain.status = v]
CancelDomain(s, R) == SetTasks(SetRuns(s, R, "stopped"),
                               {t \in Task : s.task[t] \in OpenTask}, "cancelled")
Idled(s) == SetDomain(s, IF s.domain.enabled THEN "queued" ELSE "paused")

(* New task rows of run r for the workers W, one row each. *)
Row(s, r, w) == {n \in 1..MaxRows : s.task[<<r, w, n>>] = "none"}
Assign(s, r, W, v) == SetTasks(s, {<<r, w, Min(Row(s, r, w))>> : w \in W}, v)
Up(s) == {w \in Worker : s.health[w] = "up"}

(***************************** planning ***************************************)
(* plan_attack_runs for the domain with the workers W it chose, and         *)
(* plan_immediate_registration_runs, which ignores the window.              *)
NewRun(q) == [status |-> "planned", quick |-> q, over |-> FALSE, accepted |-> FALSE,
              checks |-> 0, registered |-> 0]
Open(s, W, q, runStatus, taskStatus) ==
  LET r == Min({x \in Run : s.run[x].status = "none"})
      created == [s EXCEPT !.run[r] = [NewRun(q) EXCEPT !.status = runStatus]]
  IN  SetDomain(Assign(created, r, W, taskStatus),
                IF runStatus = "running" THEN "attacking" ELSE "scheduled")
Staffed(s) == IF \E r \in Run : s.run[r].status = "none" THEN SUBSET Up(s) ELSE {{}}

Planned(s, W, force) ==
  LET cleared == IF force THEN CancelDomain(s, ActiveRuns(s)) ELSE s
  IN  IF (~force /\ ActiveRuns(s) # {}) THEN s
      ELSE IF W = {} \/ window = "after" THEN cleared
      ELSE IF window = "open" THEN Open(cleared, W, FALSE, "running", "running")
      ELSE Open(cleared, W, FALSE, "planned", "queued")

Immediate(s, W, force) ==
  LET busy == ActiveRuns(s) \cup {r \in Run : s.run[r].status = "verifying"}
      cleared == IF force THEN CancelDomain(s, busy) ELSE s
  IN  IF (~force /\ busy # {}) THEN s
      ELSE IF W = {} THEN cleared
      ELSE Open(cleared, W, TRUE, "running", "queued")

(* rebalance_worker_pool: which of the free workers it adds is up to its *)
(* rate plan.                                                            *)
Unfinished(s) == /\ ActiveRuns(s) # {} /\ s.domain.enabled /\ ~s.domain.won
                 /\ s.domain.status \in {"queued", "scheduled", "attacking"}
Spare(s) == LET busy == {TaskWorker(t) : t \in {x \in Task : s.task[x] \in OpenTask}}
            IN  {w \in Up(s) \ busy : Row(s, Max(ActiveRuns(s)), w) # {}}
Rebalanced(s) ==
  LET r == Max(ActiveRuns(s))
      started == IF window = "open" /\ s.run[r].status = "planned"
                   THEN SetDomain(SetRuns(s, {r}, "running"), "attacking") ELSE s
      given == IF window = "open" THEN "running" ELSE "queued"
  IN  IF ~Unfinished(s) THEN {s}
      ELSE IF window # "open" /\ s.run[r].over THEN {started}
      ELSE {Assign(started, r, W, given) : W \in SUBSET Spare(s)}

(*************************** the control cycle ********************************)
(* supervise_worker_pool: the workers W have not been heard of for too long. *)
Supervised(s, W) ==
  LET lost == {t \in Task : TaskWorker(t) \in W /\ s.task[t] \in OpenTask}
      down == SetTasks([s EXCEPT !.health = [w \in Worker |-> IF w \in W THEN "offline" ELSE @[w]]],
                       lost, "failed")
      r == Max(ActiveRuns(s))
  IN  IF lost = {} \/ ActiveRuns(s) = {} \/ s.domain.won \/ ~s.domain.enabled THEN down
      ELSE IF s.run[r].over THEN SetDomain(SetRuns(down, {r}, "failed"), "failed")
      ELSE IF window = "open" THEN SetDomain(SetRuns(down, {r}, "running"), "attacking")
      ELSE SetDomain(SetRuns(down, {r}, "planned"), "scheduled")

(* finalize_expired_attack_runs: the rows it loads, and its first half. *)
Expiring(s) == {r \in Run : /\ s.run[r].status \in ActiveRun \cup {"verifying"}
                            /\ s.run[r].over /\ s.domain.enabled /\ ~s.domain.won}
Expired(s) ==
  LET R == Expiring(s) \cap ActiveRuns(s)
  IN  IF R = {} THEN s
      ELSE SetDomain(SetTasks(SetRuns(s, R, "verifying"),
                              UNION {OpenTasks(s, r) : r \in R}, "cancelled"), "verifying")

Owned(s) == [s EXCEPT !.domain.status = "success", !.domain.won = TRUE]
GivenUp(s) == [s EXCEPT !.domain.status = "failed", !.domain.enabled = FALSE]

(* Its second half for one run, after the registry and the registrar replied. *)
Judged(s, r, taken, ours) ==
  LET n == s.run[r].checks + 1
      m == IF taken THEN s.run[r].registered + 1 ELSE 0
      noted == [s EXCEPT !.run[r].checks = n, !.run[r].registered = m]
  IN  IF ours /\ (taken \/ n >= Confirmations) THEN Owned(SetRuns(noted, {r}, "success"))
      ELSE IF m >= Confirmations THEN GivenUp(SetRuns(noted, {r}, "failed"))
      ELSE IF n >= Confirmations /\ ~taken THEN SetDomain(SetRuns(noted, {r}, "failed"), "queued")
      ELSE noted

(* select_domains_for_autoplanning, on the rows read before the awaits. *)
Selected(s) == /\ s.domain.enabled /\ s.domain.auto /\ ~s.domain.won
               /\ s.domain.status \in Eligible /\ window # "after"

(* The cycle goes on without a pause until it has to ask the registry: *)
(* about the next expired run, or before it plans a run by itself.     *)
Rest == [todo |-> {}, pick |-> FALSE]
Continue(s, todo) ==
  IF todo # {} THEN db' = s /\ cycle' = [Rest EXCEPT !.todo = todo]
  ELSE IF Selected(s) /\ ActiveRuns(s) = {} THEN db' = s /\ cycle' = [Rest EXCEPT !.pick = TRUE]
  ELSE db' \in Rebalanced(s) /\ cycle' = Rest

CycleBegin ==
  /\ cycle = Rest
  /\ \E W \in SUBSET Up(db) :
       /\ LET s == Supervised(db, W) IN Continue(Expired(s), Expiring(s))
       /\ IF W = {} THEN Calm ELSE Upset
  /\ UNCHANGED <<window, registry, calls, outlived, client>>

(* A lookup that fails is inconclusive, an ownership check that fails says no. *)
Observed(taken, ours) == (taken => registry # "free") /\ (ours => registry = "ours")
CycleJudge ==
  /\ \E r \in cycle.todo, taken, ours \in BOOLEAN :
       Observed(taken, ours) /\ Continue(Judged(db, r, taken, ours), cycle.todo \ {r})
  /\ Calm
  /\ UNCHANGED <<window, registry, calls, outlived, client>>

(* _filter_domains_available_for_autostart, then plan_attack_runs without *)
(* force, then the rebalancing every cycle ends with.                     *)
CyclePlan ==
  /\ cycle.pick
  /\ \E taken, ours \in BOOLEAN :
       /\ Observed(taken, ours)
       /\ ours => taken
       /\ IF taken THEN db' \in Rebalanced(IF ours THEN Owned(db) ELSE GivenUp(db))
          ELSE \E W \in Staffed(db) : db' \in Rebalanced(Planned(db, W, FALSE))
  /\ cycle' = Rest
  /\ Calm
  /\ UNCHANGED <<window, registry, calls, outlived, client>>

(******************************* the panel ************************************)
Panel(S) == /\ db' \in S /\ Upset /\ UNCHANGED <<window, registry, calls, outlived, client, cycle>>

StartAttacks ==
  /\ db.domain.enabled
  /\ \E force \in BOOLEAN, W \in Staffed(db) :
       /\ force \/ ActiveRuns(db) = {}
       /\ Panel({Planned(db, W, force)})

SimulateRegistration ==
  /\ db.domain.enabled
  /\ \E force \in BOOLEAN, W \in Staffed(db) : Panel({Immediate(db, W, force)})

StopAttacks ==
  /\ ActiveRuns(db) # {}
  /\ Panel(Rebalanced(Idled(CancelDomain(db, ActiveRuns(db)))))

RebalanceAttacks == Panel(Rebalanced(db))

(* update_domain also writes the readiness it works out anew. *)
UpdateDomain ==
  \E on \in BOOLEAN :
    Panel({[db EXCEPT !.domain.enabled = on, !.domain.status = IF on THEN "ready" ELSE "paused"]})

(****************************** the workers ***********************************)
NoSeen == [queued |-> FALSE, planned |-> FALSE, waiting |-> FALSE]
Idle == [stage |-> "idle", task |-> NoTask, seen |-> NoSeen]
At(w, st) == client' = [client EXCEPT ![w].stage = st]
Halted(t) == db.task[t] \notin OpenTask

Heartbeat(w) ==
  /\ client[w].stage # "down" /\ db.health[w] = "offline"
  /\ db' = [db EXCEPT !.health[w] = "up"]
  /\ Calm
  /\ UNCHANGED <<window, registry, calls, outlived, client, cycle>>

(* get_next_task: the oldest queued row, unless the name is already won. *)
Oldest(w) == {t \in Task : /\ TaskWorker(t) = w /\ db.task[t] = "queued"
                           /\ \A u \in Task : /\ TaskWorker(u) = w
                                              /\ db.task[u] = "queued"
                                              => TaskRun(t) <= TaskRun(u)}
Poll(w) ==
  /\ client[w].stage = "idle"
  /\ \E t \in Oldest(w) :
       IF Accepted(db, TaskRun(t))
         THEN db' = SetTasks(db, {t}, "cancelled") /\ UNCHANGED client
         ELSE client' = [client EXCEPT ![w] = [Idle EXCEPT !.stage = "polled", !.task = t]]
              /\ UNCHANGED db
  /\ Calm
  /\ UNCHANGED <<window, registry, calls, outlived, cycle>>

(* acknowledge_task reads its rows without a lock and writes them after. *)
AckRead(w) ==
  /\ client[w].stage = "polled"
  /\ LET t == client[w].task
     IN client' = [client EXCEPT ![w].stage = "acking",
          ![w].seen = [queued |-> db.task[t] = "queued",
                       planned |-> db.run[TaskRun(t)].status = "planned",
                       waiting |-> db.domain.status \in {"scheduled", "queued", "ready"}]]
  /\ Calm
  /\ UNCHANGED <<window, registry, db, calls, outlived, cycle>>

AckWrite(w) ==
  /\ client[w].stage = "acking"
  /\ LET t == client[w].task
         seen == client[w].seen
         acked == SetTasks(db, {t}, "running")
         begun == IF seen.planned THEN SetRuns(acked, {TaskRun(t)}, "running") ELSE acked
     IN  db' = IF ~seen.queued THEN db
               ELSE IF seen.waiting THEN SetDomain(begun, "attacking") ELSE begun
  /\ client' = [client EXCEPT ![w].stage = "waiting", ![w].seen = NoSeen]
  /\ Calm
  /\ UNCHANGED <<window, registry, calls, outlived, cycle>>

(* _wait_until_start gives a task up without a report. *)
WaitUntilStart(w) ==
  /\ client[w].stage = "waiting"
  /\ LET t == client[w].task
         r == TaskRun(t)
         begun == db.run[r].quick \/ db.run[r].over \/ window = "open"
     IN  \/ ~begun /\ Halted(t) /\ client' = [client EXCEPT ![w] = Idle]
         \/ begun /\ At(w, "attack")
  /\ Calm
  /\ UNCHANGED <<window, registry, db, calls, outlived, cycle>>

StatusPoll(w) ==
  /\ client[w].stage = "attack" /\ Halted(client[w].task)
  /\ At(w, "stopping")
  /\ Calm
  /\ UNCHANGED <<window, registry, db, calls, outlived, cycle>>

CallsOf(w) == {c \in calls : TaskWorker(c.task) = w /\ c.at # "left"}
LeasesOf(r) == {l \in db.leases : TaskRun(l.task) = r}
Live(w) == client[w].stage \in {"attack", "stopping"}

Full(r) == Cardinality(LeasesOf(r)) >= MaxInFlight

(* acquire_create_permit. An attempt started before the stop may still ask. *)
Free(t) == {i \in 1..MaxCalls : \A x \in calls \cup db.leases : x.task = t => x.k # i}
Acquire(w) ==
  /\ Live(w)
  /\ Cardinality(CallsOf(w)) < MaxCalls
  /\ LET t == client[w].task
         r == TaskRun(t)
     IN  \/ /\ Accepted(db, r)
            /\ db' = SetTasks(db, {t}, "cancelled")
            /\ At(w, "stopping") /\ UNCHANGED calls
         \/ /\ ~Accepted(db, r) /\ Halted(t)
            /\ At(w, "stopping") /\ UNCHANGED <<db, calls>>
         \/ /\ ~Accepted(db, r) /\ ~Halted(t) /\ Free(t) # {}
            /\ \A l \in db.leases : l.task # t
            /\ ~Full(r)
            /\ db' = [db EXCEPT !.leases = @ \cup {[task |-> t, k |-> Min(Free(t))]}]
            /\ calls' = calls \cup {[task |-> t, k |-> Min(Free(t)), at |-> "permit", late |-> FALSE]}
            /\ UNCHANGED client
  /\ Calm
  /\ UNCHANGED <<window, registry, outlived, cycle>>

(* A lease runs out: _clear_expired_live_create_leases drops it, and the  *)
(* attempt it was given for may be under way still.                       *)
LeaseEnds ==
  /\ \E t \in Task, k \in 1..MaxCalls :
       LET over == {c \in calls : c.task = t /\ c.k = k /\ ~c.late}
       IN  /\ [task |-> t, k |-> k] \in db.leases \/ over # {}
           /\ db' = [db EXCEPT !.leases = @ \ {[task |-> t, k |-> k]}]
           /\ calls' = (calls \ over) \cup {[c EXCEPT !.late = TRUE] : c \in over}
           /\ IF over = {} THEN UNCHANGED outlived
              ELSE /\ outlived[TaskRun(t)] < MaxOverruns
                   /\ outlived' = [outlived EXCEPT ![TaskRun(t)] = @ + 1]
  /\ Calm
  /\ UNCHANGED <<window, registry, client, cycle>>

(* The worker has read the permit and sends the request; it never looks *)
(* at the rows again before it does.                                    *)
Send(w) ==
  /\ Live(w)
  /\ \E c \in CallsOf(w) : c.at = "permit" /\ calls' = (calls \ {c}) \cup {[c EXCEPT !.at = "sent"]}
  /\ Calm
  /\ UNCHANGED <<window, registry, db, outlived, client, cycle>>

(* What the registrar still has of the attempts C once the worker has *)
(* given them up.                                                     *)
Forsaken(C) == {[c EXCEPT !.at = "left"] : c \in {x \in C : x.at = "sent"}}

(* The registrar's answers. The first success ends the other attempts. *)
CallAccepted(w) ==
  /\ Live(w)
  /\ registry = "free" /\ registry' = "ours"
  /\ \E c \in CallsOf(w) :
       /\ c.at = "sent"
       /\ calls' = ((calls \ CallsOf(w)) \cup {[c EXCEPT !.at = "accepted"]})
                     \cup Forsaken(CallsOf(w) \ {c})
  /\ At(w, "won")
  /\ Calm
  /\ UNCHANGED <<window, db, outlived, cycle>>

(* A refusal, and release_create_permit after it, which drops the lease of *)
(* the task, whichever attempt holds it. Until then the attempt is to all  *)
(* others like one still unanswered, and so it counts as sent.             *)
CallRefused(w) ==
  /\ Live(w)
  /\ \E c \in CallsOf(w) :
       /\ c.at = "sent"
       /\ calls' = calls \ {c}
       /\ db' = [db EXCEPT !.leases = {l \in @ : l.task # c.task}]
  /\ Calm
  /\ UNCHANGED <<window, registry, outlived, client, cycle>>

\* Mutant of CallLost: the lease is given back on a transport error too.
CallLostReleased(w) ==
  /\ Live(w)
  /\ \E c \in CallsOf(w) :
       /\ calls' = (calls \ {c}) \cup Forsaken({c})
       /\ db' = [db EXCEPT !.leases = {l \in @ : l.task # c.task}]
  /\ Upset
  /\ UNCHANGED <<window, registry, outlived, client, cycle>>
(* An attempt ends with an HTTP error of its own; the registrar may still *)
(* be at work on what was sent, and the lease is left to expire.          *)
CallLost(w) ==
  /\ Live(w)
  /\ \E c \in CallsOf(w) : calls' = (calls \ {c}) \cup Forsaken({c})
  /\ Upset
  /\ UNCHANGED <<window, registry, db, outlived, client, cycle>>

RegistrarEnds ==
  /\ \E c \in calls : c.at = "left" /\ calls' = calls \ {c}
  /\ registry' \in {registry} \cup IF registry = "free" THEN {"ours"} ELSE {}
  /\ Calm
  /\ UNCHANGED <<window, db, outlived, client, cycle>>

(* report_task_result, whose last step is the rebalancing. *)
ReportWin(s, t) ==
  LET r == TaskRun(t)
      won == [SetRuns(SetTasks(s, {t}, "success"), {r}, "success") EXCEPT
                !.run[r].accepted = TRUE, !.domain.status = "success", !.domain.won = TRUE,
                !.leases = {l \in @ : TaskRun(l.task) # r}]
  IN  SetTasks(won, {u \in Task : u # t /\ s.task[u] \in OpenTask}, "cancelled")
ReportEnd(s, t, v) ==
  LET r == TaskRun(t)
      ended == SetTasks(s, {t}, v)
  IN  IF OpenTasks(ended, r) = {} /\ s.run[r].status # "success"
        THEN Idled(SetRuns(ended, {r}, "failed")) ELSE ended

Report(w) ==
  /\ \/ client[w].stage \in {"won", "stopping"}
     \/ client[w].stage = "attack" /\ db.run[TaskRun(client[w].task)].over
  /\ \A c \in CallsOf(w) : client[w].stage = "won" /\ c.at = "accepted"
  /\ LET t == client[w].task
     IN  db' \in Rebalanced(CASE client[w].stage = "won" -> ReportWin(db, t)
                               [] client[w].stage = "stopping" -> ReportEnd(db, t, "stopped")
                               [] OTHER -> ReportEnd(db, t, "failed"))
  /\ client' = [client EXCEPT ![w] = Idle]
  /\ calls' = calls \ CallsOf(w)
  /\ Calm
  /\ UNCHANGED <<window, registry, outlived, cycle>>

(* The process ends, also on any HTTP error of its control client. *)
Crash(w) ==
  /\ client[w].stage # "down"
  /\ client' = [client EXCEPT ![w] = [Idle EXCEPT !.stage = "down"]]
  /\ calls' = (calls \ CallsOf(w)) \cup Forsaken(CallsOf(w))
  /\ Upset
  /\ UNCHANGED <<window, registry, db, outlived, cycle>>

Restart(w) ==
  /\ client[w].stage = "down" /\ client' = [client EXCEPT ![w] = Idle]
  /\ Calm
  /\ UNCHANGED <<window, registry, db, calls, outlived, cycle>>

(****************************** the world *************************************)
WindowTurns ==
  /\ window' = CASE window = "before" -> "open" [] window = "open" -> "after" [] OTHER -> "before"
  /\ db' = IF window # "open" THEN db
           ELSE [db EXCEPT !.run = [r \in Run |->
                  IF @[r].status # "none" /\ ~@[r].quick THEN [@[r] EXCEPT !.over = TRUE] ELSE @[r]]]
  /\ IF window = "after" THEN Upset ELSE Calm
  /\ UNCHANGED <<registry, calls, outlived, client, cycle>>

QuickEnds ==
  /\ \E r \in Run : /\ db.run[r].quick /\ ~db.run[r].over
                    /\ db' = [db EXCEPT !.run[r].over = TRUE]
  /\ Calm
  /\ UNCHANGED <<window, registry, calls, outlived, client, cycle>>

Competitor ==
  /\ registry = "free" /\ registry' = "other"
  /\ Calm
  /\ UNCHANGED <<window, db, calls, outlived, client, cycle>>

AttackInit ==
  /\ window = "before" /\ registry = "free" /\ calls = {} /\ upsets = 0
  /\ outlived = [r \in Run |-> 0]
  /\ db = [domain |-> [status |-> "ready", enabled |-> TRUE, auto |-> TRUE, won |-> FALSE],
           run |-> [r \in Run |-> [NewRun(FALSE) EXCEPT !.status = "none"]],
           task |-> [t \in Task |-> "none"], leases |-> {},
           health |-> [w \in Worker |-> "up"]]
  /\ client = [w \in Worker |-> Idle]
  /\ cycle = Rest

CycleStep == CycleBegin \/ CycleJudge \/ CyclePlan
PanelStep == StartAttacks \/ SimulateRegistration \/ StopAttacks \/ RebalanceAttacks \/ UpdateDomain
ClientStep(w) ==
  \/ Heartbeat(w) \/ Poll(w) \/ AckRead(w) \/ AckWrite(w) \/ WaitUntilStart(w) \/ StatusPoll(w)
  \/ Acquire(w) \/ Send(w) \/ CallAccepted(w) \/ CallRefused(w)
  \/ CallLost(w) \/ Report(w) \/ Crash(w) \/ Restart(w)
AttackNext == \/ CycleStep \/ PanelStep \/ LeaseEnds \/ RegistrarEnds
              \/ WindowTurns \/ QuickEnds \/ Competitor
              \/ \E w \in Worker : ClientStep(w)
AttackSpec == AttackInit /\ [][AttackNext]_attackVars

(****************************** properties ************************************)
(* Every row and every process is in a state the code knows. *)
AttackTypeOK ==
  /\ window \in {"before", "open", "after"} /\ registry \in {"free", "ours", "other"}
  /\ db.domain \in DomainRow /\ db.run \in [Run -> RunRow] /\ db.task \in [Task -> TaskStatus]
  /\ db.leases \subseteq Lease /\ db.health \in [Worker -> {"up", "offline"}]
  /\ calls \subseteq Call /\ outlived \in [Run -> Nat]
  /\ cycle.todo \subseteq Run

(* The permits keep the create attempts of a run, from the permit to the   *)
(* registrar's last word, within LIVE_CREATE_MAX_IN_FLIGHT_PER_RUN, except *)
(* that every attempt that outlives its lease may cost one more: it, or    *)
(* the one whose lease its refusal gives back.                             *)
CallsWithinLimit ==
  \A r \in Run : Cardinality({c \in calls : TaskRun(c.task) = r}) <= MaxInFlight + outlived[r]

(* Once the win of a run is stored, no attempt gets a permit, whatever a  *)
(* stale acknowledgement or verdict writes over the rows: all that can    *)
(* still be sent is held by those allowed before, fewer than the limit,   *)
(* for the winner was one of them: with the default limit of one, none,   *)
(* unless an attempt outlived its lease.                                  *)
InHand(r) == {Slot(c) : c \in {x \in calls : TaskRun(x.task) = r /\ x.at = "permit"}}
CreatesStop ==
  [][\A r \in Run : db.run[r].accepted =>
       /\ InHand(r)' \subseteq InHand(r)
       /\ Cardinality(InHand(r)) < MaxInFlight + outlived[r]]_attackVars

(* A task that is running is in the hands of its worker (or was, before a *)
(* crash); none is running that its worker never polls.                   *)
RunningIsPolled ==
  \A t \in Task : db.task[t] = "running" =>
    client[TaskWorker(t)].task = t \/ client[TaskWorker(t)].stage = "down"
=============================================================================
