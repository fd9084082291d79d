-------------------------- MODULE AttackTasksProofs --------------------------
(* What holds of the attack on a domain for any number of workers, runs and   *)
(* task rows. A task has one lease at most and a run no more leases than may  *)
(* be in flight; an attempt has a lease of its own, or has outlived one, or   *)
(* its run is won, so that there are as few attempts; the attempt that won is *)
(* one of them, which leaves fewer to be sent after the win; and a stored win *)
(* is kept by every write of the cycle, the panel and the workers. Then what  *)
(* is shared out of the workers' requests per second (RpsTargets), for any    *)
(* finite number of names and workers and any amounts: facts about finite     *)
(* sums first, by induction over the subsets of a finite set, then the        *)
(* rounding of one share, one round, and the invariant of the rounds.         *)
EXTENDS AttackTasks, RpsTargets, FiniteSetTheorems, WellFoundedInduction, TLAPS

-----------------------------------------------------------------------------
(* The rows                                                                   *)

DbRows == [domain: DomainRow, run: [Run -> RunRow], task: [Task -> TaskStatus],
           leases: SUBSET Lease, health: [Worker -> {"up", "offline"}]]
Good(s) ==
  /\ s \in DbRows
  /\ \A r \in Run : s.run[r].accepted => s.run[r].status # "none"
(* A change of rows that keeps the leases, and neither forgets nor stores a   *)
(* win.                                                                       *)
Keeps(s, n) ==
  /\ Good(n) /\ n.leases = s.leases
  /\ \A r \in Run : s.run[r].accepted => n.run[r].accepted
  /\ \A r \in Run : n.run[r].accepted => s.run[r].accepted
RunStatus == {"none", "planned", "running", "verifying", "success", "failed", "stopped"}

(* A set of numbers has a least one: what the rows' Min rests on.             *)
Below == {ss \in Nat \X Nat : ss[1] < ss[2]}
LEMMA LeastExists ==
  ASSUME NEW S \in SUBSET Nat, S # {}
  PROVE  \E x \in S : \A y \in S : x <= y
<1>1. IsWellFoundedOn(Below, Nat) BY NatLessThanWellFounded DEF OpToRel, Below
<1>2. PICK x \in S : \A y \in S : <<y, x>> \notin Below BY <1>1, WFMin
<1>3. \A y \in S : ~(y < x) BY <1>2 DEF Below
<1> QED BY <1>2, <1>3

LEMMA MinIsOne ==
  ASSUME NEW S \in SUBSET Nat, S # {}
  PROVE  Min(S) \in S
BY LeastExists DEF Min

LEMMA KeepsAgain ==
  ASSUME NEW s, NEW n, NEW m, Keeps(s, n), Keeps(n, m)
  PROVE  Keeps(s, m)
BY DEF Keeps

LEMMA KeepsGood ==
  ASSUME NEW s, NEW n, Keeps(s, n)
  PROVE  Good(n)
BY DEF Keeps

LEMMA KeepsSame ==
  ASSUME NEW s, Good(s)
  PROVE  Keeps(s, s)
BY DEF Keeps

LEMMA SetTasksKeeps ==
  ASSUME NEW s, Good(s), NEW T, NEW v \in TaskStatus
  PROVE  /\ Keeps(s, SetTasks(s, T, v)) /\ SetTasks(s, T, v).run = s.run
         /\ SetTasks(s, T, v).domain = s.domain
<1> PICK n : n = SetTasks(s, T, v) OBVIOUS
<1>1. s \in DbRows BY DEF Good
<1>2. n \in DbRows /\ n.leases = s.leases /\ n.run = s.run /\ n.domain = s.domain
  BY <1>1 DEF SetTasks, DbRows
<1> QED BY <1>2 DEF Good, Keeps

LEMMA SetRunsKeeps ==
  ASSUME NEW s, Good(s), NEW R, NEW v \in RunStatus \ {"none"}
  PROVE  /\ Keeps(s, SetRuns(s, R, v))
         /\ \A r \in Run \ R : SetRuns(s, R, v).run[r] = s.run[r]
<1> PICK n : n = SetRuns(s, R, v) OBVIOUS
<1>1. s \in DbRows BY DEF Good
<1> PICK f : f = [r \in Run |-> IF r \in R THEN [s.run[r] EXCEPT !.status = v] ELSE s.run[r]]
  OBVIOUS
<1>2. n = [s EXCEPT !.run = f] BY DEF SetRuns
<1>3. ASSUME NEW r \in Run
      PROVE  /\ f[r] \in RunRow /\ f[r].accepted = s.run[r].accepted
             /\ r \in R => f[r].status = v
             /\ r \notin R => f[r] = s.run[r]
  <2>1. s.run[r] \in RunRow BY <1>1 DEF DbRows
  <2> QED BY <2>1 DEF RunRow, RunStatus
<1>4. f \in [Run -> RunRow] BY <1>3
<1>5. n \in DbRows /\ n.leases = s.leases /\ n.run = f BY <1>1, <1>2, <1>4 DEF DbRows
<1> QED BY <1>3, <1>5 DEF Good, Keeps, RunStatus

LEMMA DomainKeeps ==
  ASSUME NEW s, Good(s), NEW d \in DomainRow
  PROVE  Keeps(s, [s EXCEPT !.domain = d]) /\ [s EXCEPT !.domain = d].run = s.run
<1> PICK n : n = [s EXCEPT !.domain = d] OBVIOUS
<1>1. n \in DbRows /\ n.leases = s.leases /\ n.run = s.run BY DEF DbRows, Good
<1> QED BY <1>1 DEF Good, Keeps

DomainStatus == Eligible \cup {"verifying", "success", "failed", "paused"}
LEMMA SetDomainKeeps ==
  ASSUME NEW s, Good(s), NEW v \in DomainStatus
  PROVE  Keeps(s, SetDomain(s, v)) /\ SetDomain(s, v).run = s.run
<1> PICK d : d = [s.domain EXCEPT !.status = v] OBVIOUS
<1>1. s.domain \in DomainRow BY DEF Good, DbRows
<1>2. d \in DomainRow BY <1>1 DEF DomainRow, DomainStatus
<1>3. SetDomain(s, v) = [s EXCEPT !.domain = d] BY DEF SetDomain
<1> QED BY <1>2, <1>3, DomainKeeps

LEMMA HealthKeeps ==
  ASSUME NEW s, Good(s), NEW h \in [Worker -> {"up", "offline"}]
  PROVE  Keeps(s, [s EXCEPT !.health = h]) /\ [s EXCEPT !.health = h].run = s.run
<1> PICK n : n = [s EXCEPT !.health = h] OBVIOUS
<1>1. n \in DbRows /\ n.leases = s.leases /\ n.run = s.run BY DEF DbRows, Good
<1> QED BY <1>1 DEF Good, Keeps

(* One row of attack_runs is rewritten.                                       *)
LEMMA RunRowSet ==
  ASSUME NEW s, Good(s), NEW r \in Run, NEW b \in RunRow, b.accepted => b.status # "none"
  PROVE  LET n == [s EXCEPT !.run[r] = b]
         IN  /\ Good(n) /\ n.leases = s.leases /\ n.run[r] = b
             /\ \A x \in Run \ {r} : n.run[x] = s.run[x]
<1> PICK f : f = [s.run EXCEPT ![r] = b] OBVIOUS
<1> PICK n : n = [s EXCEPT !.run = f] OBVIOUS
<1>1. s \in DbRows /\ s.run \in [Run -> RunRow] BY DEF Good, DbRows
<1>2. f \in [Run -> RunRow] /\ f[r] = b /\ \A x \in Run \ {r} : f[x] = s.run[x] BY <1>1
<1>3. n \in DbRows /\ n.leases = s.leases /\ n.run = f BY <1>1, <1>2 DEF DbRows
<1>4. n = [s EXCEPT !.run[r] = b] BY <1>1
<1> QED BY <1>2, <1>3, <1>4 DEF Good

LEMMA RunRowKeeps ==
  ASSUME NEW s, Good(s), NEW r \in Run, NEW b \in RunRow,
         b.accepted = s.run[r].accepted, b.accepted => b.status # "none"
  PROVE  /\ Keeps(s, [s EXCEPT !.run[r] = b])
         /\ \A x \in Run \ {r} : [s EXCEPT !.run[r] = b].run[x] = s.run[x]
<1>1. PICK n : n = [s EXCEPT !.run[r] = b] OBVIOUS
<1>2. /\ Good(n) /\ n.leases = s.leases /\ n.run[r] = b
      /\ \A x \in Run \ {r} : n.run[x] = s.run[x]
  BY <1>1, RunRowSet
<1>3. \A x \in Run : n.run[x].accepted = s.run[x].accepted BY <1>2
<1> QED BY <1>1, <1>2, <1>3 DEF Keeps

LEMMA CancelDomainKeeps ==
  ASSUME NEW s, Good(s), NEW R
  PROVE  /\ Keeps(s, CancelDomain(s, R))
         /\ \A r \in Run \ R : CancelDomain(s, R).run[r] = s.run[r]
<1>1. "stopped" \in RunStatus \ {"none"} /\ "cancelled" \in TaskStatus
  BY DEF RunStatus, TaskStatus
<1> PICK m : m = SetRuns(s, R, "stopped") OBVIOUS
<1> PICK T : T = {t \in Task : s.task[t] \in OpenTask} OBVIOUS
<1>2. Keeps(s, m) /\ \A r \in Run \ R : m.run[r] = s.run[r] BY <1>1, SetRunsKeeps
<1>3. Keeps(m, SetTasks(m, T, "cancelled")) /\ SetTasks(m, T, "cancelled").run = m.run
  BY <1>1, <1>2, SetTasksKeeps, KeepsGood
<1> QED BY <1>2, <1>3, KeepsAgain DEF CancelDomain

HasFree(s) == \E r \in Run : s.run[r].status = "none"

LEMMA OpenKeeps ==
  ASSUME NEW s, Good(s), HasFree(s), NEW W, NEW q \in BOOLEAN,
         NEW runStatus \in {"planned", "running"}, NEW taskStatus \in TaskStatus
  PROVE  Keeps(s, Open(s, W, q, runStatus, taskStatus))
<1> DEFINE F == {x \in Run : s.run[x].status = "none"}
<1> PICK r : r = Min(F) OBVIOUS
<1>1. r \in Run /\ s.run[r].status = "none"
  <2>1. F \in SUBSET Nat /\ F # {} BY AttackAssumption DEF HasFree
  <2>2. Min(F) \in F BY <2>1, MinIsOne
  <2> QED BY <2>2
<1> PICK b : b = [NewRun(q) EXCEPT !.status = runStatus] OBVIOUS
<1>2. b \in RunRow /\ b.status = runStatus /\ b.accepted = FALSE
  BY DEF NewRun, RunRow
<1> PICK created : created = [s EXCEPT !.run[r] = b] OBVIOUS
<1>3. s.run[r].accepted \in BOOLEAN BY <1>1 DEF Good, DbRows, RunRow
<1>4. s.run[r].accepted = FALSE BY <1>1, <1>3 DEF Good
<1>5. Keeps(s, created) BY <1>1, <1>2, <1>4, RunRowKeeps
<1> PICK T : T = {<<r, w, Min(Row(created, r, w))>> : w \in W} OBVIOUS
<1> PICK opened : opened = SetTasks(created, T, taskStatus) OBVIOUS
<1>6. Keeps(created, opened) BY <1>5, SetTasksKeeps, KeepsGood
<1> PICK v : v = IF runStatus = "running" THEN "attacking" ELSE "scheduled" OBVIOUS
<1>7. v \in DomainStatus BY DEF DomainStatus, Eligible
<1>8. Keeps(opened, SetDomain(opened, v)) BY <1>6, <1>7, SetDomainKeeps, KeepsGood
<1>9. Open(s, W, q, runStatus, taskStatus) = SetDomain(opened, v) BY DEF Open, Assign
<1>10. Keeps(s, opened) BY <1>5, <1>6, KeepsAgain
<1> QED BY <1>8, <1>9, <1>10, KeepsAgain

LEMMA PlannedKeeps ==
  ASSUME NEW s, Good(s), NEW W \in Staffed(s), NEW force \in BOOLEAN
  PROVE  Keeps(s, Planned(s, W, force))
<1>1. HasFree(s) \/ W = {} BY DEF Staffed, HasFree
<1> PICK c : c = IF force THEN CancelDomain(s, ActiveRuns(s)) ELSE s OBVIOUS
<1>2. Keeps(s, c) BY CancelDomainKeeps, KeepsSame
<1>3. HasFree(s) => HasFree(c)
  <2> SUFFICES ASSUME NEW r \in Run, s.run[r].status = "none" PROVE c.run[r].status = "none"
    BY DEF HasFree
  <2>1. r \notin ActiveRuns(s) BY DEF ActiveRuns, ActiveRun
  <2>2. c.run[r] = s.run[r] BY <2>1, CancelDomainKeeps
  <2> QED BY <2>2
<1>4. {"running", "queued"} \subseteq TaskStatus BY DEF TaskStatus
<1>5. HasFree(s) => /\ Keeps(c, Open(c, W, FALSE, "running", "running"))
                    /\ Keeps(c, Open(c, W, FALSE, "planned", "queued"))
  <2> SUFFICES ASSUME HasFree(s)
               PROVE  /\ Keeps(c, Open(c, W, FALSE, "running", "running"))
                      /\ Keeps(c, Open(c, W, FALSE, "planned", "queued"))
    OBVIOUS
  <2>1. Good(c) /\ HasFree(c) BY <1>2, <1>3 DEF Keeps
  <2>2. Keeps(c, Open(c, W, FALSE, "running", "running")) BY <1>4, <2>1, OpenKeeps
  <2>3. Keeps(c, Open(c, W, FALSE, "planned", "queued")) BY <1>4, <2>1, OpenKeeps
  <2> QED BY <2>2, <2>3
<1>6. HasFree(s) => /\ Keeps(s, Open(c, W, FALSE, "running", "running"))
                    /\ Keeps(s, Open(c, W, FALSE, "planned", "queued"))
  BY <1>2, <1>5, KeepsAgain
<1> QED BY <1>1, <1>2, <1>6, KeepsSame DEF Planned

LEMMA ImmediateKeeps ==
  ASSUME NEW s, Good(s), NEW W \in Staffed(s), NEW force \in BOOLEAN
  PROVE  Keeps(s, Immediate(s, W, force))
<1> PICK busy : busy = ActiveRuns(s) \cup {r \in Run : s.run[r].status = "verifying"} OBVIOUS
<1>1. HasFree(s) \/ W = {} BY DEF Staffed, HasFree
<1> PICK c : c = IF force THEN CancelDomain(s, busy) ELSE s OBVIOUS
<1>2. Keeps(s, c) BY CancelDomainKeeps, KeepsSame
<1>3. HasFree(s) => HasFree(c)
  <2> SUFFICES ASSUME NEW r \in Run, s.run[r].status = "none" PROVE c.run[r].status = "none"
    BY DEF HasFree
  <2>1. r \notin busy BY DEF ActiveRuns, ActiveRun
  <2>2. c.run[r] = s.run[r] BY <2>1, CancelDomainKeeps
  <2> QED BY <2>2
<1>4. HasFree(s) => Keeps(c, Open(c, W, TRUE, "running", "queued"))
  <2> SUFFICES ASSUME HasFree(s) PROVE Keeps(c, Open(c, W, TRUE, "running", "queued"))
    OBVIOUS
  <2>1. Good(c) /\ HasFree(c) /\ "queued" \in TaskStatus BY <1>2, <1>3 DEF Keeps, TaskStatus
  <2> QED BY <2>1, OpenKeeps
<1>5. HasFree(s) => Keeps(s, Open(c, W, TRUE, "running", "queued"))
  BY <1>2, <1>4, KeepsAgain
<1> QED BY <1>1, <1>2, <1>5, KeepsSame DEF Immediate

LEMMA RebalancedKeeps ==
  ASSUME NEW s, Good(s), NEW n \in Rebalanced(s)
  PROVE  Keeps(s, n)
<1> PICK r : r = Max(ActiveRuns(s)) OBVIOUS
<1> PICK started : started = IF window = "open" /\ s.run[r].status = "planned"
                             THEN SetDomain(SetRuns(s, {r}, "running"), "attacking") ELSE s
  OBVIOUS
<1> PICK status : status = IF window = "open" THEN "running" ELSE "queued" OBVIOUS
<1>1. Keeps(s, started)
  <2>1. Keeps(s, SetRuns(s, {r}, "running")) BY SetRunsKeeps DEF RunStatus
  <2>2. Keeps(SetRuns(s, {r}, "running"), SetDomain(SetRuns(s, {r}, "running"), "attacking"))
    BY <2>1, SetDomainKeeps, KeepsGood DEF DomainStatus, Eligible
  <2> QED BY <2>1, <2>2, KeepsAgain, KeepsSame
<1>2. \A W : Keeps(s, Assign(started, r, W, status))
  <2> TAKE W
  <2> PICK T : T = {<<r, w, Min(Row(started, r, w))>> : w \in W} OBVIOUS
  <2>1. Good(started) /\ status \in TaskStatus BY <1>1 DEF Keeps, TaskStatus
  <2>2. Keeps(started, SetTasks(started, T, status)) BY <2>1, SetTasksKeeps
  <2>3. Assign(started, r, W, status) = SetTasks(started, T, status) BY DEF Assign
  <2> QED BY <1>1, <2>2, <2>3, KeepsAgain
<1>3. \/ n = s \/ n = started \/ \E W : n = Assign(started, r, W, status)
  BY DEF Rebalanced
<1> QED BY <1>1, <1>2, <1>3, KeepsSame

LEMMA SupervisedKeeps ==
  ASSUME NEW s, Good(s), NEW W
  PROVE  Keeps(s, Supervised(s, W))
<1> PICK lost : lost = {t \in Task : TaskWorker(t) \in W /\ s.task[t] \in OpenTask} OBVIOUS
<1> PICK h : h = [w \in Worker |-> IF w \in W THEN "offline" ELSE s.health[w]] OBVIOUS
<1> PICK m : m = [s EXCEPT !.health = h] OBVIOUS
<1> PICK down : down = SetTasks(m, lost, "failed") OBVIOUS
<1> PICK r : r = Max(ActiveRuns(s)) OBVIOUS
<1>1. h \in [Worker -> {"up", "offline"}] BY DEF Good, DbRows
<1>2. Keeps(s, m) BY <1>1, HealthKeeps
<1>3. Keeps(m, down) BY <1>2, SetTasksKeeps, KeepsGood DEF TaskStatus
<1>4. Keeps(s, down) BY <1>2, <1>3, KeepsAgain
<1>5. \A v \in RunStatus \ {"none"}, d \in DomainStatus : Keeps(s, SetDomain(SetRuns(down, {r}, v), d))
  <2> TAKE v \in RunStatus \ {"none"}, d \in DomainStatus
  <2> PICK n : n = SetRuns(down, {r}, v) OBVIOUS
  <2>1. Keeps(down, n) BY <1>4, SetRunsKeeps, KeepsGood
  <2>2. Keeps(n, SetDomain(n, d)) BY <2>1, SetDomainKeeps, KeepsGood
  <2> QED BY <1>4, <2>1, <2>2, KeepsAgain
<1>6. {"failed", "running", "planned"} \subseteq RunStatus \ {"none"}
      /\ {"failed", "attacking", "scheduled"} \subseteq DomainStatus
  BY DEF RunStatus, DomainStatus, Eligible
<1>7. \/ Supervised(s, W) = down
      \/ \E v \in RunStatus \ {"none"}, d \in DomainStatus :
           Supervised(s, W) = SetDomain(SetRuns(down, {r}, v), d)
  BY <1>6 DEF Supervised
<1> QED BY <1>4, <1>5, <1>7

LEMMA ExpiredKeeps ==
  ASSUME NEW s, Good(s)
  PROVE  Keeps(s, Expired(s))
<1> PICK R : R = Expiring(s) \cap ActiveRuns(s) OBVIOUS
<1> PICK T : T = UNION {OpenTasks(s, r) : r \in R} OBVIOUS
<1> PICK m : m = SetRuns(s, R, "verifying") OBVIOUS
<1> PICK n : n = SetTasks(m, T, "cancelled") OBVIOUS
<1>1. Keeps(s, m) BY SetRunsKeeps DEF RunStatus
<1>2. Keeps(m, n) BY <1>1, SetTasksKeeps, KeepsGood DEF TaskStatus
<1>3. Keeps(n, SetDomain(n, "verifying")) BY <1>2, SetDomainKeeps, KeepsGood DEF DomainStatus
<1>4. Keeps(s, n) BY <1>1, <1>2, KeepsAgain
<1>5. Keeps(s, SetDomain(n, "verifying")) BY <1>3, <1>4, KeepsAgain
<1>6. Expired(s) = IF R = {} THEN s ELSE SetDomain(n, "verifying") BY DEF Expired
<1> QED BY <1>5, <1>6, KeepsSame

LEMMA OwnedKeeps ==
  ASSUME NEW s, Good(s)
  PROVE  Keeps(s, Owned(s))
<1> PICK d : d = [s.domain EXCEPT !.status = "success", !.won = TRUE] OBVIOUS
<1>1. s.domain \in DomainRow /\ s \in DbRows BY DEF Good, DbRows
<1>2. d \in DomainRow BY <1>1 DEF DomainRow
<1>3. Owned(s) = [s EXCEPT !.domain = d] BY <1>1 DEF Owned, DbRows
<1> QED BY <1>2, <1>3, DomainKeeps

LEMMA GivenUpKeeps ==
  ASSUME NEW s, Good(s)
  PROVE  Keeps(s, GivenUp(s))
<1> PICK d : d = [s.domain EXCEPT !.status = "failed", !.enabled = FALSE] OBVIOUS
<1>1. s.domain \in DomainRow /\ s \in DbRows BY DEF Good, DbRows
<1>2. d \in DomainRow BY <1>1 DEF DomainRow
<1>3. GivenUp(s) = [s EXCEPT !.domain = d] BY <1>1 DEF GivenUp, DbRows
<1> QED BY <1>2, <1>3, DomainKeeps

LEMMA UpdatedKeeps ==
  ASSUME NEW s, Good(s), NEW on \in BOOLEAN
  PROVE  Keeps(s, [s EXCEPT !.domain.enabled = on,
                            !.domain.status = IF on THEN "ready" ELSE "paused"])
<1> PICK v : v = IF on THEN "ready" ELSE "paused" OBVIOUS
<1> PICK d : d = [s.domain EXCEPT !.enabled = on, !.status = v] OBVIOUS
<1>1. s.domain \in DomainRow /\ s \in DbRows BY DEF Good, DbRows
<1>2. d \in DomainRow BY <1>1 DEF DomainRow, Eligible
<1>3. [s EXCEPT !.domain.enabled = on, !.domain.status = v] = [s EXCEPT !.domain = d]
  BY <1>1 DEF DbRows
<1> QED BY <1>2, <1>3, DomainKeeps

LEMMA IdledKeeps ==
  ASSUME NEW s, Good(s)
  PROVE  Keeps(s, Idled(s))
BY SetDomainKeeps DEF Idled, DomainStatus, Eligible

LEMMA JudgedKeeps ==
  ASSUME NEW s, Good(s), NEW r \in Run, NEW taken, NEW ours
  PROVE  Keeps(s, Judged(s, r, taken, ours))
<1>1. s \in DbRows /\ s.run \in [Run -> RunRow] /\ s.run[r] \in RunRow BY DEF Good, DbRows
<1> PICK n : n = s.run[r].checks + 1 OBVIOUS
<1> PICK m : m = IF taken THEN s.run[r].registered + 1 ELSE 0 OBVIOUS
<1> PICK b : b = [s.run[r] EXCEPT !.checks = n, !.registered = m] OBVIOUS
<1>2. n \in Nat /\ m \in Nat
  <2>1. s.run[r].checks \in Nat /\ s.run[r].registered \in Nat BY <1>1 DEF RunRow
  <2> QED BY <2>1
<1>3. b \in RunRow /\ b.accepted = s.run[r].accepted /\ b.status = s.run[r].status
  BY <1>1, <1>2 DEF RunRow
<1> PICK noted : noted = [s EXCEPT !.run[r] = b] OBVIOUS
<1>4. Keeps(s, noted) BY <1>3, RunRowKeeps DEF Good
<1>5. noted = [s EXCEPT !.run[r].checks = n, !.run[r].registered = m] BY <1>1 DEF DbRows
<1>6. \A v \in RunStatus \ {"none"} : Keeps(s, SetRuns(noted, {r}, v))
  <2> TAKE v \in RunStatus \ {"none"}
  <2>1. Good(noted) BY <1>4 DEF Keeps
  <2>2. Keeps(noted, SetRuns(noted, {r}, v)) BY <2>1, SetRunsKeeps
  <2> QED BY <1>4, <2>2, KeepsAgain
<1>7. {"success", "failed"} \subseteq RunStatus \ {"none"} BY DEF RunStatus
<1>8. Keeps(s, Owned(SetRuns(noted, {r}, "success")))
  <2>1. Keeps(s, SetRuns(noted, {r}, "success")) BY <1>6, <1>7
  <2> QED BY <2>1, OwnedKeeps, KeepsAgain, KeepsGood
<1>9. Keeps(s, GivenUp(SetRuns(noted, {r}, "failed")))
  <2>1. Keeps(s, SetRuns(noted, {r}, "failed")) BY <1>6, <1>7
  <2> QED BY <2>1, GivenUpKeeps, KeepsAgain, KeepsGood
<1>10. Keeps(s, SetDomain(SetRuns(noted, {r}, "failed"), "queued"))
  <2>1. Keeps(s, SetRuns(noted, {r}, "failed")) BY <1>6, <1>7
  <2>2. "queued" \in DomainStatus BY DEF DomainStatus, Eligible
  <2> QED BY <2>1, <2>2, SetDomainKeeps, KeepsAgain, KeepsGood
<1>11. \/ Judged(s, r, taken, ours) = Owned(SetRuns(noted, {r}, "success"))
       \/ Judged(s, r, taken, ours) = GivenUp(SetRuns(noted, {r}, "failed"))
       \/ Judged(s, r, taken, ours) = SetDomain(SetRuns(noted, {r}, "failed"), "queued")
       \/ Judged(s, r, taken, ours) = noted
  BY <1>5 DEF Judged
<1> QED BY <1>4, <1>8, <1>9, <1>10, <1>11

LEMMA ReportEndKeeps ==
  ASSUME NEW s, Good(s), NEW t, NEW v \in TaskStatus
  PROVE  Keeps(s, ReportEnd(s, t, v))
<1> PICK ended : ended = SetTasks(s, {t}, v) OBVIOUS
<1> PICK n : n = SetRuns(ended, {TaskRun(t)}, "failed") OBVIOUS
<1>1. Keeps(s, ended) BY SetTasksKeeps
<1>2. Keeps(ended, n) BY <1>1, SetRunsKeeps, KeepsGood DEF RunStatus
<1>3. Keeps(n, Idled(n)) BY <1>2, IdledKeeps, KeepsGood
<1>4. Keeps(s, Idled(n)) BY <1>1, <1>2, <1>3, KeepsAgain
<1>5. ReportEnd(s, t, v) = ended \/ ReportEnd(s, t, v) = Idled(n) BY DEF ReportEnd
<1> QED BY <1>1, <1>4, <1>5

LEMMA LeasesChange ==
  ASSUME NEW s, Good(s), NEW L \in SUBSET Lease
  PROVE  LET n == [s EXCEPT !.leases = L]
         IN  Good(n) /\ n.leases = L /\ n.run = s.run
<1> PICK n : n = [s EXCEPT !.leases = L] OBVIOUS
<1>1. n \in DbRows /\ n.leases = L /\ n.run = s.run BY DEF DbRows, Good
<1> QED BY <1>1 DEF Good

(* The marks of a win, once its run is a success.                             *)
Won(s, n, r) ==
  /\ Good(n) /\ n.leases = {l \in s.leases : TaskRun(l.task) # r}
  /\ n.run[r].accepted = TRUE
  /\ \A x \in Run \ {r} : n.run[x].accepted = s.run[x].accepted
LEMMA WinMarks ==
  ASSUME NEW c, Good(c), NEW r \in Run, c.run[r].status = "success", NEW n,
         n = [c EXCEPT !.run[r].accepted = TRUE, !.domain.status = "success",
                       !.domain.won = TRUE, !.leases = {l \in @ : TaskRun(l.task) # r}]
  PROVE  Won(c, n, r)
<1>1. /\ c \in DbRows /\ c.run \in [Run -> RunRow] /\ c.run[r] \in RunRow
      /\ c.domain \in DomainRow /\ c.leases \subseteq Lease
  BY DEF Good, DbRows
<1>2. PICK b : b = [c.run[r] EXCEPT !.accepted = TRUE] OBVIOUS
<1>3. b \in RunRow /\ b.accepted = TRUE /\ b.status = "success" BY <1>1, <1>2 DEF RunRow
<1>4. PICK d : d = [c.domain EXCEPT !.status = "success", !.won = TRUE] OBVIOUS
<1>5. d \in DomainRow BY <1>1, <1>4 DEF DomainRow
<1>6. PICK L : L = {l \in c.leases : TaskRun(l.task) # r} OBVIOUS
<1>7. L \in SUBSET Lease BY <1>1, <1>6
<1>8. PICK e : e = [c EXCEPT !.run[r] = b] OBVIOUS
<1>9. Good(e) /\ e.leases = c.leases /\ e.run[r] = b /\ \A x \in Run \ {r} : e.run[x] = c.run[x]
  BY <1>3, <1>8, RunRowSet
<1>11. PICK f : f = [e EXCEPT !.domain = d] OBVIOUS
<1>12. Keeps(e, f) /\ f.run = e.run BY <1>5, <1>9, <1>11, DomainKeeps
<1>13. PICK g : g = [f EXCEPT !.leases = L] OBVIOUS
<1>14. Good(g) /\ g.leases = L /\ g.run = f.run
  <2>1. Good(f) BY <1>12 DEF Keeps
  <2> QED BY <1>7, <1>13, <2>1, LeasesChange
<1>15. g.run[r].accepted = TRUE BY <1>3, <1>9, <1>12, <1>14
<1>16. \A x \in Run \ {r} : g.run[x].accepted = c.run[x].accepted BY <1>9, <1>12, <1>14
<1>18. g = n
  <2>1. g = [[[c EXCEPT !.run[r] = b] EXCEPT !.domain = d] EXCEPT !.leases = L]
    BY <1>8, <1>11, <1>13
  <2> QED BY <1>1, <1>2, <1>4, <1>6, <2>1 DEF DbRows
<1> QED BY <1>6, <1>14, <1>15, <1>16, <1>18 DEF Won

(* A reported win stores itself and drops the leases of its run.              *)
LEMMA ReportWinStores ==
  ASSUME NEW s, Good(s), NEW t \in Task
  PROVE  Won(s, ReportWin(s, t), TaskRun(t))
<1>0. PICK r \in Run : r = TaskRun(t) BY DEF Task, TaskRun
<1>1. PICK a : a = SetTasks(s, {t}, "success") OBVIOUS
<1>2. Keeps(s, a) BY <1>1, SetTasksKeeps DEF TaskStatus
<1>3. PICK c : c = SetRuns(a, {r}, "success") OBVIOUS
<1>4. Keeps(a, c)
  <2>1. Good(a) /\ "success" \in RunStatus \ {"none"} BY <1>2 DEF Keeps, RunStatus
  <2> QED BY <1>3, <2>1, SetRunsKeeps
<1>5. Keeps(s, c) BY <1>2, <1>4, KeepsAgain
<1>6. c.run[r].status = "success"
  <2>1. a \in DbRows /\ a.run[r] \in RunRow BY <1>2 DEF Keeps, Good, DbRows
  <2>2. c.run = [x \in Run |-> IF x \in {r} THEN [a.run[x] EXCEPT !.status = "success"] ELSE a.run[x]]
    BY <1>3, <2>1 DEF SetRuns, DbRows
  <2>3. c.run[r] = [a.run[r] EXCEPT !.status = "success"] BY <2>2
  <2> QED BY <2>1, <2>3 DEF RunRow
<1>7. PICK won : won = [c EXCEPT !.run[r].accepted = TRUE, !.domain.status = "success",
                                 !.domain.won = TRUE,
                                 !.leases = {l \in @ : TaskRun(l.task) # r}]
  OBVIOUS
<1>8. Won(c, won, r)
  <2>1. Good(c) BY <1>5, KeepsGood
  <2> QED BY <1>6, <1>7, <2>1, WinMarks
<1>9. PICK T : T = {u \in Task : u # t /\ s.task[u] \in OpenTask} OBVIOUS
<1>10. PICK n : n = SetTasks(won, T, "cancelled") OBVIOUS
<1>11. Keeps(won, n) BY <1>8, <1>10, SetTasksKeeps DEF TaskStatus, Won
<1>12. ReportWin(s, t) = n BY <1>0, <1>1, <1>3, <1>7, <1>9, <1>10 DEF ReportWin
<1>13. Good(n) /\ n.leases = won.leases BY <1>11 DEF Keeps
<1>14. \A x \in Run : won.run[x].accepted \in BOOLEAN /\ c.run[x].accepted \in BOOLEAN
                     /\ s.run[x].accepted \in BOOLEAN /\ n.run[x].accepted \in BOOLEAN
  BY <1>5, <1>8, <1>13 DEF Keeps, Good, DbRows, RunRow, Won
<1>15. \A x \in Run : /\ n.run[x].accepted = won.run[x].accepted
                      /\ c.run[x].accepted = s.run[x].accepted
  BY <1>5, <1>11, <1>14 DEF Keeps
<1>16. n.leases = {l \in s.leases : TaskRun(l.task) # r} BY <1>5, <1>8, <1>13 DEF Keeps, Won
<1>17. n.run[r].accepted = TRUE /\ \A x \in Run \ {r} : n.run[x].accepted = s.run[x].accepted
  BY <1>8, <1>15 DEF Won
<1> QED BY <1>0, <1>12, <1>13, <1>16, <1>17 DEF Won

-----------------------------------------------------------------------------
(* The attempts under way                                                     *)

CallsIn(r) == {c \in calls : TaskRun(c.task) = r}
Held(r) == {Slot(c) : c \in CallsIn(r)}
(* What no lease of its own answers for.                                      *)
Loose(r) == Held(r) \ db.leases
Stages == {"down", "idle", "polled", "acking", "waiting", "attack", "stopping", "won"}
ClientRows == [stage: Stages, task: Task \cup {NoTask},
               seen: [queued: BOOLEAN, planned: BOOLEAN, waiting: BOOLEAN]]

Own(w, x) == x.stage \notin {"down", "idle"} => x.task \in Task /\ TaskWorker(x.task) = w
ShapeInv ==
  /\ window \in {"before", "open", "after"} /\ registry \in {"free", "ours", "other"}
  /\ client \in [Worker -> ClientRows]
  /\ \A w \in Worker : Own(w, client[w])
  /\ cycle \in [todo: SUBSET Run, pick: BOOLEAN]

(* A task has one lease at most, and a run no more than may be in flight.     *)
LeaseInv ==
  /\ \A r \in Run : IsFiniteSet(LeasesOf(r)) /\ Cardinality(LeasesOf(r)) <= MaxInFlight
  /\ \A l, m \in db.leases : l.task = m.task => l = m
(* Every attempt has a slot of its own, and a late one no lease any more.     *)
SlotInv ==
  /\ \A c, e \in calls : Slot(c) = Slot(e) => c = e
  /\ \A c \in calls : c.late => Slot(c) \notin db.leases
(* Until the win of a run is stored, no more of its attempts are without a    *)
(* lease than have outlived theirs.                                           *)
LooseInv == \A r \in Run : ~db.run[r].accepted => Cardinality(Loose(r)) <= outlived[r]
LimitInv ==
  \A r \in Run : IsFiniteSet(Held(r)) /\ Cardinality(Held(r)) <= MaxInFlight + outlived[r]

CreateInv == /\ Good(db) /\ calls \subseteq Call /\ outlived \in [Run -> Nat]
             /\ LeaseInv /\ SlotInv /\ LooseInv /\ LimitInv

(* The attempts a worker has not given up are of the task it is at, and one   *)
(* that has won has the attempt that won.                                     *)
Tended(w) ==
  /\ \A c \in CallsOf(w) : /\ client[w].stage \in {"attack", "stopping", "won"}
                           /\ client[w].task = c.task
  /\ client[w].stage = "won" => \E c \in CallsOf(w) : c.at = "accepted"
(* The winner's was one of the attempts within the limit.                     *)
StopInv == \A r \in Run : db.run[r].accepted =>
             Cardinality(InHand(r)) < MaxInFlight + outlived[r]
AttackInv == ShapeInv /\ CreateInv /\ StopInv /\ \A w \in Worker : Tended(w)

LEMMA SlotIs ==
  ASSUME NEW c
  PROVE  Slot(c).task = c.task /\ Slot(c).k = c.k
BY DEF Slot

LEMMA CallRun ==
  ASSUME NEW c \in Call
  PROVE  TaskRun(c.task) \in Run /\ TaskWorker(c.task) \in Worker /\ c.task \in Task
BY DEF Call, Task, TaskRun, TaskWorker

LEMMA SameSlot ==
  ASSUME NEW c, NEW e, Slot(c) = Slot(e)
  PROVE  c.task = e.task /\ c.k = e.k
BY SlotIs

(* A number no greater, and a smaller set.                                    *)
LEMMA FewerStay ==
  ASSUME NEW S, NEW T, IsFiniteSet(T), NEW n \in Nat, NEW m \in Nat, n <= m,
         Cardinality(T) <= n, S \subseteq T
  PROVE  IsFiniteSet(S) /\ Cardinality(S) <= m
<1>1. IsFiniteSet(S) /\ Cardinality(S) <= Cardinality(T) BY FS_Subset
<1>2. Cardinality(S) \in Nat /\ Cardinality(T) \in Nat BY <1>1, FS_CardinalityType
<1>3. PICK a \in Nat : a = Cardinality(S) BY <1>2
<1>4. PICK b \in Nat : b = Cardinality(T) BY <1>2
<1>5. a <= b /\ b <= n BY <1>1, <1>3, <1>4
<1>6. a <= m BY ONLY <1>5, n <= m, a \in Nat, b \in Nat, n \in Nat, m \in Nat
<1> QED BY <1>1, <1>3, <1>6

LEMMA LimitIsNat ==
  ASSUME CreateInv, NEW r \in Run
  PROVE  /\ outlived[r] \in Nat /\ MaxInFlight \in Nat /\ MaxInFlight + outlived[r] \in Nat
         /\ MaxInFlight > 0
<1>1. outlived[r] \in Nat BY DEF CreateInv
<1>2. MaxInFlight \in Nat /\ MaxInFlight > 0 BY AttackAssumption
<1> QED BY <1>1, <1>2

LEMMA HeldShrinks ==
  ASSUME \A c \in calls' : \E e \in calls : Slot(e) = Slot(c), NEW r
  PROVE  Held(r)' \subseteq Held(r)
<1> SUFFICES ASSUME NEW s \in Held(r)' PROVE s \in Held(r) OBVIOUS
<1>1. PICK c \in calls' : TaskRun(c.task) = r /\ s = Slot(c) BY DEF Held, CallsIn, Slot
<1>2. PICK e \in calls : Slot(e) = Slot(c) BY <1>1
<1>3. e.task = c.task BY <1>2, SameSlot
<1> QED BY <1>1, <1>2, <1>3 DEF Held, CallsIn

(* A step that grants no permit: no new slot, no new lease, and no more       *)
(* attempts without a lease than have outlived theirs.                        *)
LEMMA MoveKeeps ==
  ASSUME CreateInv, Good(db'), db'.leases \subseteq db.leases, calls' \subseteq Call,
         outlived' \in [Run -> Nat], \A r \in Run : outlived[r] <= outlived'[r],
         \A c \in calls' : \E e \in calls : Slot(e) = Slot(c),
         SlotInv', LooseInv'
  PROVE  CreateInv'
<1>1. LeaseInv'
  <2>1. ASSUME NEW r \in Run
        PROVE  IsFiniteSet(LeasesOf(r)') /\ Cardinality(LeasesOf(r)') <= MaxInFlight
    <3>1. LeasesOf(r)' \subseteq LeasesOf(r) BY DEF LeasesOf
    <3>2. IsFiniteSet(LeasesOf(r)) /\ Cardinality(LeasesOf(r)) <= MaxInFlight
      BY DEF CreateInv, LeaseInv
    <3>3. MaxInFlight \in Nat /\ MaxInFlight <= MaxInFlight BY AttackAssumption
    <3> QED BY <3>1, <3>2, <3>3, FewerStay
  <2> QED BY <2>1 DEF CreateInv, LeaseInv
<1>2. LimitInv'
  <2> SUFFICES ASSUME NEW r \in Run
               PROVE  /\ IsFiniteSet(Held(r)')
                      /\ Cardinality(Held(r)') <= MaxInFlight + outlived'[r]
    BY DEF LimitInv
  <2>1. Held(r)' \subseteq Held(r) BY HeldShrinks
  <2>2. IsFiniteSet(Held(r)) /\ Cardinality(Held(r)) <= MaxInFlight + outlived[r]
    BY DEF CreateInv, LimitInv
  <2>3. /\ MaxInFlight + outlived[r] \in Nat /\ MaxInFlight + outlived'[r] \in Nat
        /\ MaxInFlight + outlived[r] <= MaxInFlight + outlived'[r]
    <3>1. PICK a \in Nat : a = outlived[r] BY DEF CreateInv
    <3>2. PICK b \in Nat : b = outlived'[r] OBVIOUS
    <3>3. MaxInFlight \in Nat BY AttackAssumption
    <3>4. a <= b BY <3>1, <3>2
    <3>5. MaxInFlight + a \in Nat /\ MaxInFlight + b \in Nat /\ MaxInFlight + a <= MaxInFlight + b
      BY ONLY <3>3, <3>4, a \in Nat, b \in Nat
    <3> QED BY <3>1, <3>2, <3>5
  <2> QED BY <2>1, <2>2, <2>3, FewerStay
<1> QED BY <1>1, <1>2 DEF CreateInv

(* A step that leaves the leases and the stored wins alone.                   *)
LEMMA QuietKeeps ==
  ASSUME CreateInv, Keeps(db, db'), calls' \subseteq Call, outlived' = outlived,
         \A c \in calls' : \E e \in calls : Slot(e) = Slot(c) /\ e.late = c.late,
         \A c, e \in calls' : Slot(c) = Slot(e) => c = e
  PROVE  CreateInv'
<1>1. Good(db') /\ db'.leases = db.leases BY DEF Keeps
<1>2. SlotInv'
  <2>1. ASSUME NEW c \in calls', c.late PROVE Slot(c) \notin db'.leases
    <3>1. PICK e \in calls : Slot(e) = Slot(c) /\ e.late = c.late OBVIOUS
    <3> QED BY <1>1, <2>1, <3>1 DEF CreateInv, SlotInv
  <2>2. \A c, e \in calls' : Slot(c)' = Slot(e)' => c = e BY DEF Slot
  <2>3. \A c \in calls' : c.late => Slot(c)' \notin db'.leases BY <2>1 DEF Slot
  <2> QED BY <2>2, <2>3 DEF SlotInv
<1>3. LooseInv'
  <2> SUFFICES ASSUME NEW r \in Run, ~db'.run[r].accepted
               PROVE  Cardinality(Loose(r)') <= outlived[r]
    BY DEF LooseInv
  <2>1. ~db.run[r].accepted BY DEF Keeps
  <2>2. Cardinality(Loose(r)) <= outlived[r] BY <2>1 DEF CreateInv, LooseInv
  <2>3. Held(r)' \subseteq Held(r) BY HeldShrinks
  <2>4. Loose(r)' \subseteq Loose(r) BY <1>1, <2>3 DEF Loose
  <2>5. IsFiniteSet(Loose(r))
    <3>1. IsFiniteSet(Held(r)) /\ Loose(r) \subseteq Held(r) BY DEF CreateInv, LimitInv, Loose
    <3> QED BY <3>1, FS_Subset
  <2>6. outlived[r] \in Nat /\ outlived[r] <= outlived[r] BY LimitIsNat
  <2> QED BY <2>2, <2>4, <2>5, <2>6, FewerStay
<1>4. outlived' \in [Run -> Nat] /\ \A r \in Run : outlived[r] <= outlived'[r]
  <2>1. outlived \in [Run -> Nat] BY DEF CreateInv
  <2> QED BY <2>1
<1> QED BY <1>1, <1>2, <1>3, <1>4, MoveKeeps

LEMMA FewerKeeps ==
  ASSUME CreateInv, Keeps(db, db'), calls' \subseteq calls, outlived' = outlived
  PROVE  CreateInv'
<1>1. calls' \subseteq Call BY DEF CreateInv
<1>2. \A c \in calls' : \E e \in calls : Slot(e) = Slot(c) /\ e.late = c.late OBVIOUS
<1>3. \A c, e \in calls' : Slot(c) = Slot(e) => c = e BY DEF CreateInv, SlotInv
<1> QED BY <1>1, <1>2, <1>3, QuietKeeps

(* The attempts A go, and some come back with a new state.                    *)
LEMMA RelabelKeeps ==
  ASSUME CreateInv, Keeps(db, db'), outlived' = outlived, NEW A \in SUBSET calls,
         NEW N \in SUBSET Call, calls' = (calls \ A) \cup N,
         \A n \in N : \E e \in A : Slot(e) = Slot(n) /\ e.late = n.late,
         \A n, m \in N : Slot(n) = Slot(m) => n = m
  PROVE  CreateInv'
<1>1. calls' \subseteq Call BY DEF CreateInv
<1>2. \A c \in calls' : \E e \in calls : Slot(e) = Slot(c) /\ e.late = c.late OBVIOUS
<1>3. ASSUME NEW c \in calls', NEW e \in calls', Slot(c) = Slot(e) PROVE c = e
  <2>1. ASSUME NEW x \in calls \ A, NEW n \in N, Slot(x) = Slot(n) PROVE FALSE
    <3>1. PICK a \in A : Slot(a) = Slot(n) BY <2>1
    <3>2. x = a BY <2>1, <3>1 DEF CreateInv, SlotInv
    <3> QED BY <3>2
  <2>2. CASE c \in calls \ A /\ e \in calls \ A BY <1>3, <2>2 DEF CreateInv, SlotInv
  <2>3. CASE c \in N /\ e \in N BY <1>3, <2>3
  <2>4. CASE c \in calls \ A /\ e \in N BY <1>3, <2>1, <2>4
  <2>5. CASE c \in N /\ e \in calls \ A BY <1>3, <2>1, <2>5
  <2> QED BY <2>2, <2>3, <2>4, <2>5
<1> QED BY <1>1, <1>2, <1>3, QuietKeeps

(* A permit: one lease more, and an attempt in a slot of its own for it.      *)
LEMMA PermitKeeps ==
  ASSUME CreateInv, NEW t \in Task, NEW k \in 1..MaxCalls,
         \A l \in db.leases : l.task # t, \A c \in calls : c.task = t => c.k # k,
         ~Full(TaskRun(t)), db' = [db EXCEPT !.leases = @ \cup {[task |-> t, k |-> k]}],
         calls' = calls \cup {[task |-> t, k |-> k, at |-> "permit", late |-> FALSE]},
         ~db.run[TaskRun(t)].accepted, outlived' = outlived
  PROVE  CreateInv' /\ db'.run = db.run
<1>1. PICK r \in Run : r = TaskRun(t) BY DEF Task, TaskRun
<1>2. PICK lease \in Lease : lease = [task |-> t, k |-> k] BY DEF Lease
<1>3. PICK call \in Call : call = [task |-> t, k |-> k, at |-> "permit", late |-> FALSE]
  BY DEF Call
<1>4. /\ lease.task = t /\ lease.k = k /\ call.task = t /\ call.late = FALSE
      /\ Slot(call) = lease
  BY <1>2, <1>3 DEF Slot
<1>5. Good(db') /\ db'.leases = db.leases \cup {lease} /\ db'.run = db.run
  <2>1. Good(db) /\ db.leases \subseteq Lease BY DEF CreateInv, Good, DbRows
  <2>2. PICK L \in SUBSET Lease : L = db.leases \cup {lease} BY <2>1
  <2>3. PICK n : n = [db EXCEPT !.leases = L] OBVIOUS
  <2>4. Good(n) /\ n.leases = L /\ n.run = db.run BY <2>1, <2>3, LeasesChange
  <2>5. db' = n BY <1>2, <2>2, <2>3
  <2> QED BY <2>2, <2>4, <2>5
<1>6. calls' \subseteq Call /\ calls' = calls \cup {call} BY <1>3 DEF CreateInv
<1>7. lease \notin db.leases /\ \A c \in calls : Slot(c) # lease
  <2>1. ASSUME NEW c \in calls, Slot(c) = lease PROVE FALSE
    <3>1. c.task = t /\ c.k = k BY <1>4, <2>1, SlotIs
    <3> QED BY <3>1
  <2> QED BY <1>4, <2>1
<1>8. /\ IsFiniteSet(LeasesOf(r)') /\ Cardinality(LeasesOf(r)') <= MaxInFlight
  <2>1. LeasesOf(r)' = LeasesOf(r) \cup {lease} BY <1>1, <1>4, <1>5 DEF LeasesOf
  <2>2. IsFiniteSet(LeasesOf(r)) BY DEF CreateInv, LeaseInv
  <2>3. lease \notin LeasesOf(r) BY <1>7 DEF LeasesOf
  <2>4. /\ IsFiniteSet(LeasesOf(r) \cup {lease})
        /\ Cardinality(LeasesOf(r) \cup {lease}) = Cardinality(LeasesOf(r)) + 1
    BY <2>2, <2>3, FS_AddElement
  <2>5. PICK n \in Nat : n = Cardinality(LeasesOf(r)) BY <2>2, FS_CardinalityType
  <2>6. MaxInFlight \in Nat BY AttackAssumption
  <2>7. ~(n >= MaxInFlight) BY <1>1, <2>5 DEF Full
  <2>8. n + 1 <= MaxInFlight BY ONLY <2>6, <2>7, n \in Nat
  <2> QED BY <2>1, <2>4, <2>5, <2>8
<1>9. LeaseInv'
  <2>1. ASSUME NEW x \in Run
        PROVE  IsFiniteSet(LeasesOf(x)') /\ Cardinality(LeasesOf(x)') <= MaxInFlight
    <3>1. CASE x = r BY <1>8, <3>1
    <3>2. CASE x # r
      <4>1. LeasesOf(x)' = LeasesOf(x) BY <1>1, <1>4, <1>5, <3>2 DEF LeasesOf
      <4> QED BY <4>1 DEF CreateInv, LeaseInv
    <3> QED BY <3>1, <3>2
  <2>2. \A l, m \in db'.leases : l.task = m.task => l = m
    BY <1>4, <1>5 DEF CreateInv, LeaseInv
  <2> QED BY <2>1, <2>2 DEF LeaseInv
<1>10. SlotInv'
  <2>1. \A c, e \in calls' : Slot(c) = Slot(e) => c = e
    BY <1>4, <1>6, <1>7 DEF CreateInv, SlotInv
  <2>2. \A c \in calls' : c.late => Slot(c) \notin db'.leases
    BY <1>4, <1>5, <1>6, <1>7 DEF CreateInv, SlotInv
  <2> QED BY <2>1, <2>2 DEF SlotInv, Slot
<1>11. \A x \in Run : Held(x)' = Held(x) \cup (IF x = r THEN {lease} ELSE {})
  <2>1. Slot(call)' = lease BY <1>4 DEF Slot
  <2>2. TaskRun(call.task) = r BY <1>1, <1>4
  <2> QED BY <1>6, <2>1, <2>2 DEF Held, CallsIn, Slot
<1>12. \A x \in Run : Loose(x)' = Loose(x)
  <2> TAKE x \in Run
  <2>1. Held(x)' \ db'.leases = Held(x) \ db.leases
    <3>1. lease \notin Held(x) BY <1>7 DEF Held, CallsIn
    <3> QED BY <1>5, <1>11, <3>1
  <2> QED BY <2>1 DEF Loose
<1>13. LooseInv' BY <1>5, <1>12 DEF CreateInv, LooseInv
<1>14. LimitInv'
  <2> SUFFICES ASSUME NEW x \in Run
               PROVE  /\ IsFiniteSet(Held(x)')
                      /\ Cardinality(Held(x)') <= MaxInFlight + outlived[x]
    BY DEF LimitInv
  <2>1. IsFiniteSet(Held(x)) /\ Cardinality(Held(x)) <= MaxInFlight + outlived[x]
    BY DEF CreateInv, LimitInv
  <2>2. CASE x # r BY <1>11, <2>1, <2>2
  <2>3. CASE x = r
    <3>1. PICK B : B = Held(x)' \cap db'.leases OBVIOUS
    <3>2. PICK U : U = Loose(x)' OBVIOUS
    <3>3. Held(x)' = U \cup B /\ U \cap B = {} BY <3>1, <3>2 DEF Loose
    <3>4. B \subseteq LeasesOf(x)'
      <4> SUFFICES ASSUME NEW s \in B PROVE s \in LeasesOf(x)' OBVIOUS
      <4>1. s \in db'.leases /\ s \in Held(x)' BY <3>1
      <4>2. s \in Held(x) \/ s = lease BY <1>11, <4>1
      <4>3. TaskRun(s.task) = x BY <1>1, <1>4, <2>3, <4>2, SlotIs DEF Held, CallsIn
      <4> QED BY <4>1, <4>3 DEF LeasesOf
    <3>5. IsFiniteSet(B) /\ Cardinality(B) <= MaxInFlight
      <4>1. MaxInFlight \in Nat /\ MaxInFlight <= MaxInFlight BY AttackAssumption
      <4> QED BY <1>8, <2>3, <3>4, <4>1, FewerStay
    <3>6. IsFiniteSet(U) /\ Cardinality(U) <= outlived[x]
      <4>1. Loose(x) \subseteq Held(x) BY DEF Loose
      <4>2. Cardinality(Loose(x)) <= outlived[x] BY <1>1, <2>3 DEF CreateInv, LooseInv
      <4> QED BY <1>12, <2>1, <3>2, <4>1, <4>2, FS_Subset
    <3>7. /\ IsFiniteSet(U \cup B)
          /\ Cardinality(U \cup B) = Cardinality(U) + Cardinality(B) - Cardinality(U \cap B)
      BY <3>5, <3>6, FS_Union
    <3>8. PICK u \in Nat : u = Cardinality(U) BY <3>6, FS_CardinalityType
    <3>9. PICK b \in Nat : b = Cardinality(B) BY <3>5, FS_CardinalityType
    <3>10. Cardinality(U \cap B) = 0 BY <3>3, FS_EmptySet
    <3>11. PICK o \in Nat : o = outlived[x] BY DEF CreateInv
    <3>12. u <= o /\ b <= MaxInFlight /\ MaxInFlight \in Nat
      BY <3>5, <3>6, <3>8, <3>9, <3>11, AttackAssumption
    <3>13. u + b - 0 <= MaxInFlight + o BY ONLY <3>12, u \in Nat, b \in Nat, o \in Nat
    <3> QED BY <3>3, <3>7, <3>8, <3>9, <3>10, <3>11, <3>13
  <2> QED BY <2>2, <2>3
<1>15. outlived' \in [Run -> Nat] BY DEF CreateInv
<1> QED BY <1>5, <1>6, <1>9, <1>10, <1>13, <1>14, <1>15 DEF CreateInv

LEMMA LooseGrows ==
  ASSUME NEW S, NEW x, IsFiniteSet(S)
  PROVE  IsFiniteSet(S \cup {x}) /\ Cardinality(S \cup {x}) <= Cardinality(S) + 1
<1>1. Cardinality(S) \in Nat BY FS_CardinalityType
<1>2. IsFiniteSet(S \cup {x})
      /\ (Cardinality(S \cup {x}) = Cardinality(S) \/ Cardinality(S \cup {x}) = Cardinality(S) + 1)
  BY FS_AddElement
<1> QED BY <1>1, <1>2

(* A lease runs out: it costs one at most, which is counted, unless no        *)
(* attempt had it.                                                            *)
LEMMA LeaseEndsKeeps ==
  ASSUME CreateInv, LeaseEnds
  PROVE  CreateInv' /\ db'.run = db.run
<1>1. PICK t \in Task, k \in 1..MaxCalls :
        LET over == {c \in calls : c.task = t /\ c.k = k /\ ~c.late}
        IN  /\ [task |-> t, k |-> k] \in db.leases \/ over # {}
            /\ db' = [db EXCEPT !.leases = @ \ {[task |-> t, k |-> k]}]
            /\ calls' = (calls \ over) \cup {[c EXCEPT !.late = TRUE] : c \in over}
            /\ IF over = {} THEN UNCHANGED outlived
               ELSE outlived' = [outlived EXCEPT ![TaskRun(t)] = @ + 1]
  BY DEF LeaseEnds
<1>2. PICK over : over = {c \in calls : c.task = t /\ c.k = k /\ ~c.late} OBVIOUS
<1>3. PICK lease : lease = [task |-> t, k |-> k] OBVIOUS
<1>4. /\ lease \in db.leases \/ over # {}
      /\ calls' = (calls \ over) \cup {[c EXCEPT !.late = TRUE] : c \in over}
      /\ IF over = {} THEN UNCHANGED outlived
         ELSE outlived' = [outlived EXCEPT ![TaskRun(t)] = @ + 1]
  BY <1>1, <1>2, <1>3
<1>5. /\ Good(db) /\ db.leases \subseteq Lease /\ calls \subseteq Call
      /\ outlived \in [Run -> Nat]
  BY DEF CreateInv, Good, DbRows
<1>6. Good(db') /\ db'.leases = db.leases \ {lease} /\ db'.run = db.run
  <2>1. PICK L \in SUBSET Lease : L = db.leases \ {lease} BY <1>5
  <2>2. PICK n : n = [db EXCEPT !.leases = L] OBVIOUS
  <2>3. Good(n) /\ n.leases = L /\ n.run = db.run BY <1>5, <2>2, LeasesChange
  <2>4. db' = n BY <1>1, <1>3, <2>1, <2>2
  <2> QED BY <2>1, <2>3, <2>4
<1>7. PICK r \in Run : r = TaskRun(t) BY DEF Task, TaskRun
<1>8. \A c \in over : Slot(c) = lease /\ c \in calls BY <1>2, <1>3 DEF Slot
<1>9. ASSUME NEW c \in calls'
      PROVE  /\ c \in Call
             /\ \E e \in calls : /\ Slot(e) = Slot(c)
                                 /\ c = e \/ (e \in over /\ c = [e EXCEPT !.late = TRUE])
  <2>1. CASE c \in calls BY <1>5, <2>1
  <2>2. CASE c \notin calls
    <3>1. PICK e \in over : c = [e EXCEPT !.late = TRUE] BY <1>4, <2>2
    <3>2. e \in calls /\ e \in Call BY <1>5, <1>8
    <3>3. c \in Call /\ c.task = e.task /\ c.k = e.k BY <3>1, <3>2 DEF Call
    <3> QED BY <3>1, <3>2, <3>3 DEF Slot
  <2> QED BY <2>1, <2>2
<1>10. \A c \in calls' : \E e \in calls : Slot(e) = Slot(c) BY <1>9
<1>11. SlotInv'
  <2>1. ASSUME NEW c \in calls', NEW d \in calls', Slot(c) = Slot(d) PROVE c = d
    <3>1. PICK e \in calls : /\ Slot(e) = Slot(c)
                             /\ c = e \/ (e \in over /\ c = [e EXCEPT !.late = TRUE])
      BY <1>9
    <3>2. PICK f \in calls : /\ Slot(f) = Slot(d)
                             /\ d = f \/ (f \in over /\ d = [f EXCEPT !.late = TRUE])
      BY <1>9
    <3>3. e = f BY <2>1, <3>1, <3>2 DEF CreateInv, SlotInv
    <3>4. ASSUME NEW x \in over, x \in calls' PROVE FALSE
      <4>1. PICK y \in over : x = [y EXCEPT !.late = TRUE] BY <1>4, <3>4
      <4>2. y \in Call /\ ~x.late BY <1>2, <1>5
      <4> QED BY <4>1, <4>2 DEF Call
    <3> QED BY <3>1, <3>2, <3>3, <3>4
  <2>2. ASSUME NEW c \in calls', c.late PROVE Slot(c) \notin db'.leases
    <3>1. PICK e \in calls : /\ Slot(e) = Slot(c)
                             /\ c = e \/ (e \in over /\ c = [e EXCEPT !.late = TRUE])
      BY <1>9
    <3>2. CASE c = e BY <1>6, <2>2, <3>2 DEF CreateInv, SlotInv
    <3>3. CASE e \in over BY <1>6, <1>8, <3>1, <3>3
    <3> QED BY <3>1, <3>2, <3>3
  <2> QED BY <2>1, <2>2 DEF SlotInv, Slot
<1>12. outlived' \in [Run -> Nat] /\ \A x \in Run : outlived[x] <= outlived'[x]
  <2>1. outlived[r] + 1 \in Nat /\ outlived[r] <= outlived[r] + 1 BY <1>5
  <2>2. \A x \in Run : outlived[x] \in Nat /\ outlived[x] <= outlived[x] BY <1>5
  <2>3. CASE over = {} BY <1>4, <1>5, <2>2, <2>3
  <2>4. CASE over # {}
    <3>1. outlived' = [outlived EXCEPT ![r] = outlived[r] + 1] BY <1>4, <1>7, <2>4
    <3> QED BY <1>5, <2>1, <2>2, <3>1
  <2> QED BY <2>3, <2>4
<1>13. LooseInv'
  <2> SUFFICES ASSUME NEW x \in Run, ~db.run[x].accepted
               PROVE  Cardinality(Loose(x)') <= outlived'[x]
    BY <1>6 DEF LooseInv
  <2>1. Cardinality(Loose(x)) <= outlived[x] BY DEF CreateInv, LooseInv
  <2>2. Held(x)' \subseteq Held(x) BY <1>10, HeldShrinks
  <2>3. IsFiniteSet(Loose(x))
    <3>1. IsFiniteSet(Held(x)) /\ Loose(x) \subseteq Held(x) BY DEF CreateInv, LimitInv, Loose
    <3> QED BY <3>1, FS_Subset
  <2>4. outlived[x] \in Nat /\ outlived'[x] \in Nat /\ outlived[x] <= outlived'[x]
    BY <1>5, <1>12
  <2>5. ASSUME lease \notin Held(x) PROVE Cardinality(Loose(x)') <= outlived'[x]
    <3>1. Loose(x)' \subseteq Loose(x) BY <1>6, <2>2, <2>5 DEF Loose
    <3> QED BY <2>1, <2>3, <2>4, <3>1, FewerStay
  <2>6. CASE over = {}
    <3>1. lease \notin Held(x)
      <4> SUFFICES ASSUME lease \in Held(x) PROVE FALSE OBVIOUS
      <4>1. PICK c \in calls : Slot(c) = lease BY DEF Held, CallsIn
      <4>2. lease \in db.leases BY <1>4, <2>6
      <4>3. ~c.late BY <4>1, <4>2 DEF CreateInv, SlotInv
      <4>4. c.task = t /\ c.k = k BY <1>3, <4>1, SlotIs
      <4> QED BY <1>2, <2>6, <4>3, <4>4
    <3> QED BY <2>5, <3>1
  <2>7. CASE over # {} /\ x # r
    <3>1. lease \notin Held(x)
      <4> SUFFICES ASSUME lease \in Held(x) PROVE FALSE OBVIOUS
      <4>1. PICK c \in calls : Slot(c) = lease /\ TaskRun(c.task) = x BY DEF Held, CallsIn
      <4>2. c.task = t BY <1>3, <4>1, SlotIs
      <4> QED BY <1>7, <2>7, <4>1, <4>2
    <3> QED BY <2>5, <3>1
  <2>8. CASE over # {} /\ x = r
    <3>1. outlived'[x] = outlived[x] + 1 BY <1>4, <1>5, <1>7, <2>8
    <3>2. Loose(x)' \subseteq Loose(x) \cup {lease} BY <1>6, <2>2 DEF Loose
    <3>3. /\ IsFiniteSet(Loose(x) \cup {lease})
          /\ Cardinality(Loose(x) \cup {lease}) <= Cardinality(Loose(x)) + 1
      BY <2>3, LooseGrows
    <3>4. Cardinality(Loose(x) \cup {lease}) <= outlived[x] + 1
      <4>1. Cardinality(Loose(x)) \in Nat /\ Cardinality(Loose(x) \cup {lease}) \in Nat
        BY <2>3, <3>3, FS_CardinalityType
      <4> QED BY <2>1, <2>4, <3>3, <4>1
    <3>5. outlived[x] + 1 \in Nat /\ outlived[x] + 1 <= outlived'[x] BY <2>4, <3>1
    <3> QED BY <2>4, <3>2, <3>3, <3>4, <3>5, FewerStay
  <2> QED BY <2>6, <2>7, <2>8
<1> QED BY <1>6, <1>9, <1>10, <1>11, <1>12, <1>13, MoveKeeps

(* A refused attempt ends and the lease of its task with it: its own, or that *)
(* of one other attempt, which is without a lease from then on in its stead.  *)
LEMMA CallRefusedKeeps ==
  ASSUME CreateInv, NEW c \in calls, calls' = calls \ {c}, outlived' = outlived,
         db' = [db EXCEPT !.leases = {l \in @ : l.task # c.task}]
  PROVE  CreateInv' /\ db'.run = db.run
<1>1. Good(db) /\ db.leases \subseteq Lease /\ calls \subseteq Call /\ c \in Call
  BY DEF CreateInv, Good, DbRows
<1>2. Good(db') /\ db'.leases = {l \in db.leases : l.task # c.task} /\ db'.run = db.run
  <2>1. PICK L \in SUBSET Lease : L = {l \in db.leases : l.task # c.task} BY <1>1
  <2>2. PICK n : n = [db EXCEPT !.leases = L] OBVIOUS
  <2>3. Good(n) /\ n.leases = L /\ n.run = db.run BY <1>1, <2>2, LeasesChange
  <2>4. db' = n BY <2>1, <2>2
  <2> QED BY <2>1, <2>3, <2>4
<1>3. \A d \in calls' : \E e \in calls : Slot(e) = Slot(d) OBVIOUS
<1>4. SlotInv'
  <2>1. \A d, e \in calls' : Slot(d) = Slot(e) => d = e BY DEF CreateInv, SlotInv
  <2>2. \A d \in calls' : d.late => Slot(d) \notin db'.leases BY <1>2 DEF CreateInv, SlotInv
  <2> QED BY <2>1, <2>2 DEF SlotInv, Slot
<1>5. LooseInv'
  <2> SUFFICES ASSUME NEW x \in Run, ~db.run[x].accepted
               PROVE  Cardinality(Loose(x)') <= outlived[x]
    BY <1>2 DEF LooseInv
  <2>1. Cardinality(Loose(x)) <= outlived[x] /\ outlived[x] \in Nat
    BY LimitIsNat DEF CreateInv, LooseInv
  <2>2. Held(x)' \subseteq Held(x) /\ Slot(c) \notin Held(x)'
    <3>1. Held(x)' \subseteq Held(x) BY <1>3, HeldShrinks
    <3>2. ASSUME Slot(c) \in Held(x)' PROVE FALSE
      <4>1. PICK e \in calls' : Slot(e) = Slot(c) BY <3>2 DEF Held, CallsIn, Slot
      <4> QED BY <4>1 DEF CreateInv, SlotInv
    <3> QED BY <3>1, <3>2
  <2>3. IsFiniteSet(Loose(x))
    <3>1. IsFiniteSet(Held(x)) /\ Loose(x) \subseteq Held(x) BY DEF CreateInv, LimitInv, Loose
    <3> QED BY <3>1, FS_Subset
  <2>4. ASSUME Loose(x)' \subseteq Loose(x) PROVE Cardinality(Loose(x)') <= outlived[x]
    <3>1. outlived[x] <= outlived[x] BY <2>1
    <3> QED BY <2>1, <2>3, <2>4, <3>1, FewerStay
  <2>5. CASE \A l \in db.leases : l.task = c.task => l = Slot(c)
    <3>1. Loose(x)' \subseteq Loose(x) BY <1>2, <2>2, <2>5 DEF Loose
    <3> QED BY <2>4, <3>1
  <2>6. CASE \E l \in db.leases : l.task = c.task /\ l # Slot(c)
    <3>1. PICK l \in db.leases : l.task = c.task /\ l # Slot(c) BY <2>6
    <3>2. \A m \in db.leases : m.task = c.task => m = l BY <3>1 DEF CreateInv, LeaseInv
    <3>3. Slot(c) \notin db.leases BY <3>1, <3>2, SlotIs
    <3>4. Loose(x)' \subseteq (Loose(x) \ {Slot(c)}) \cup {l} BY <1>2, <2>2, <3>2 DEF Loose
    <3>5. CASE Slot(c) \in Loose(x)
      <4>1. PICK B : B = Loose(x) \ {Slot(c)} OBVIOUS
      <4>2. IsFiniteSet(B) /\ Cardinality(B) = Cardinality(Loose(x)) - 1
        BY <2>3, <3>5, <4>1, FS_RemoveElement
      <4>3. IsFiniteSet(B \cup {l}) /\ Cardinality(B \cup {l}) <= Cardinality(B) + 1
        BY <4>2, LooseGrows
      <4>4. PICK b \in Nat : b = Cardinality(B \cup {l}) BY <4>3, FS_CardinalityType
      <4>5. PICK n \in Nat : n = Cardinality(Loose(x)) BY <2>3, FS_CardinalityType
      <4>6. b <= n BY <4>2, <4>3, <4>4, <4>5
      <4>7. Cardinality(B \cup {l}) <= outlived[x] /\ outlived[x] <= outlived[x]
        BY <2>1, <4>4, <4>5, <4>6
      <4> QED BY <2>1, <3>4, <4>1, <4>3, <4>7, FewerStay
    <3>6. CASE Slot(c) \notin Loose(x)
      <4>1. Slot(c) \notin Held(x) BY <3>3, <3>6 DEF Loose
      <4>2. TaskRun(c.task) # x BY <4>1 DEF Held, CallsIn
      <4>3. l \notin Held(x)' 
        <5> SUFFICES ASSUME l \in Held(x)' PROVE FALSE OBVIOUS
        <5>1. PICK e \in calls : Slot(e) = l /\ TaskRun(e.task) = x
          BY <2>2 DEF Held, CallsIn
        <5>2. e.task = c.task BY <3>1, <5>1, SlotIs
        <5> QED BY <4>2, <5>1, <5>2
      <4>4. Loose(x)' \subseteq Loose(x) BY <3>4, <4>3 DEF Loose
      <4> QED BY <2>4, <4>4
    <3> QED BY <3>5, <3>6
  <2> QED BY <2>5, <2>6
<1>6. /\ calls' \subseteq Call /\ outlived' \in [Run -> Nat]
      /\ \A r \in Run : outlived[r] <= outlived'[r]
  <2>1. outlived \in [Run -> Nat] BY DEF CreateInv
  <2> QED BY <1>1, <2>1
<1>7. db'.leases \subseteq db.leases BY <1>2
<1> QED BY <1>2, <1>3, <1>4, <1>5, <1>6, <1>7, MoveKeeps

(* A change of rows composed of changes that keep the wins: what every step   *)
(* of the cycle and of the panel ends in.                                     *)
LEMMA RebalancedAgain ==
  ASSUME NEW s, NEW n, Keeps(s, n), NEW m \in Rebalanced(n)
  PROVE  Keeps(s, m)
<1>1. Keeps(n, m) BY RebalancedKeeps DEF Keeps
<1> QED BY <1>1, KeepsAgain

LEMMA ContinueKeeps ==
  ASSUME NEW s, Keeps(db, s), NEW todo \in SUBSET Run, Continue(s, todo)
  PROVE  Keeps(db, db') /\ cycle' \in [todo: SUBSET Run, pick: BOOLEAN]
<1>1. \/ db' = s \/ db' \in Rebalanced(s) BY DEF Continue
<1>2. Keeps(db, db') BY <1>1, RebalancedAgain
<1>3. cycle' \in [todo: SUBSET Run, pick: BOOLEAN]
  <2>1. Rest \in [todo: SUBSET Run, pick: BOOLEAN] BY DEF Rest
  <2>2. \/ cycle' = [Rest EXCEPT !.todo = todo] \/ cycle' = [Rest EXCEPT !.pick = TRUE]
        \/ cycle' = Rest
    BY DEF Continue
  <2> QED BY <2>1, <2>2
<1> QED BY <1>2, <1>3

LEMMA CycleStepKeeps ==
  ASSUME Good(db), cycle \in [todo: SUBSET Run, pick: BOOLEAN], CycleStep
  PROVE  Keeps(db, db') /\ cycle' \in [todo: SUBSET Run, pick: BOOLEAN]
<1>1. CASE CycleBegin
  <2>1. PICK W \in SUBSET Up(db) : Continue(Expired(Supervised(db, W)), Expiring(Supervised(db, W)))
    BY <1>1 DEF CycleBegin
  <2>2. PICK s : s = Supervised(db, W) OBVIOUS
  <2>3. Keeps(db, s) BY <2>2, SupervisedKeeps
  <2>4. Keeps(s, Expired(s)) BY <2>3, ExpiredKeeps DEF Keeps
  <2>5. Keeps(db, Expired(s)) BY <2>3, <2>4, KeepsAgain
  <2>6. Expiring(s) \in SUBSET Run BY DEF Expiring
  <2>7. Continue(Expired(s), Expiring(s)) BY <2>1, <2>2
  <2> QED BY <2>5, <2>6, <2>7, ContinueKeeps
<1>2. CASE CycleJudge
  <2>1. PICK r \in cycle.todo, taken \in BOOLEAN, ours \in BOOLEAN :
          Continue(Judged(db, r, taken, ours), cycle.todo \ {r})
    BY <1>2 DEF CycleJudge
  <2>2. r \in Run /\ cycle.todo \ {r} \in SUBSET Run OBVIOUS
  <2>3. Keeps(db, Judged(db, r, taken, ours)) BY <2>2, JudgedKeeps
  <2> QED BY <2>1, <2>2, <2>3, ContinueKeeps
<1>3. CASE CyclePlan
  <2>1. \/ db' \in Rebalanced(Owned(db)) \/ db' \in Rebalanced(GivenUp(db))
        \/ \E W \in Staffed(db) : db' \in Rebalanced(Planned(db, W, FALSE))
    BY <1>3 DEF CyclePlan
  <2>2. db' \in Rebalanced(Owned(db)) => Keeps(db, db') BY OwnedKeeps, RebalancedAgain
  <2>3. db' \in Rebalanced(GivenUp(db)) => Keeps(db, db') BY GivenUpKeeps, RebalancedAgain
  <2>4. ASSUME NEW W \in Staffed(db), db' \in Rebalanced(Planned(db, W, FALSE))
        PROVE  Keeps(db, db')
    <3>2. Keeps(db, Planned(db, W, FALSE)) BY PlannedKeeps
    <3> QED BY <2>4, <3>2, RebalancedAgain
  <2>5. cycle' \in [todo: SUBSET Run, pick: BOOLEAN] BY <1>3 DEF CyclePlan, Rest
  <2> QED BY <2>1, <2>2, <2>3, <2>4, <2>5
<1> QED BY <1>1, <1>2, <1>3 DEF CycleStep

LEMMA PanelStepKeeps ==
  ASSUME Good(db), PanelStep
  PROVE  Keeps(db, db') /\ UNCHANGED <<window, registry, calls, outlived, client, cycle>>
<1>1. CASE StartAttacks
  <2>1. PICK force \in BOOLEAN, W \in Staffed(db) : Panel({Planned(db, W, force)})
    BY <1>1 DEF StartAttacks
  <2>2. Keeps(db, Planned(db, W, force)) BY PlannedKeeps
  <2> QED BY <2>1, <2>2 DEF Panel
<1>2. CASE SimulateRegistration
  <2>1. PICK force \in BOOLEAN, W \in Staffed(db) : Panel({Immediate(db, W, force)})
    BY <1>2 DEF SimulateRegistration
  <2>2. Keeps(db, Immediate(db, W, force)) BY ImmediateKeeps
  <2> QED BY <2>1, <2>2 DEF Panel
<1>3. CASE StopAttacks
  <2>1. PICK s : s = CancelDomain(db, ActiveRuns(db)) OBVIOUS
  <2>2. Keeps(db, s) BY <2>1, CancelDomainKeeps
  <2>3. Keeps(s, Idled(s)) BY <2>2, IdledKeeps DEF Keeps
  <2>4. Keeps(db, Idled(s)) BY <2>2, <2>3, KeepsAgain
  <2>5. Panel(Rebalanced(Idled(s))) BY <1>3, <2>1 DEF StopAttacks
  <2> QED BY <2>4, <2>5, RebalancedAgain DEF Panel
<1>4. CASE RebalanceAttacks BY <1>4, RebalancedKeeps DEF RebalanceAttacks, Panel
<1>5. CASE UpdateDomain
  <2>1. PICK on \in BOOLEAN :
          Panel({[db EXCEPT !.domain.enabled = on,
                            !.domain.status = IF on THEN "ready" ELSE "paused"]})
    BY <1>5 DEF UpdateDomain
  <2> QED BY <2>1, UpdatedKeeps DEF Panel
<1> QED BY <1>1, <1>2, <1>3, <1>4, <1>5 DEF PanelStep

LEMMA WindowTurnsKeeps ==
  ASSUME Good(db), WindowTurns
  PROVE  Keeps(db, db')
<1>1. PICK f : f = [r \in Run |-> IF db.run[r].status # "none" /\ ~db.run[r].quick
                                    THEN [db.run[r] EXCEPT !.over = TRUE] ELSE db.run[r]]
  OBVIOUS
<1>2. PICK n : n = [db EXCEPT !.run = f] OBVIOUS
<1>3. ASSUME NEW r \in Run
      PROVE  /\ f[r] \in RunRow /\ f[r].accepted = db.run[r].accepted
             /\ f[r].status = db.run[r].status
  <2>1. db.run[r] \in RunRow BY DEF Good, DbRows
  <2>2. f[r] = db.run[r] \/ f[r] = [db.run[r] EXCEPT !.over = TRUE] BY <1>1
  <2> QED BY <2>1, <2>2 DEF RunRow
<1>4. f \in [Run -> RunRow] BY <1>1, <1>3
<1>5. n \in DbRows /\ n.leases = db.leases /\ n.run = f BY <1>2, <1>4 DEF Good, DbRows
<1>6. Keeps(db, n) BY <1>3, <1>5 DEF Keeps, Good
<1>7. db' = db \/ db' = n BY <1>1, <1>2 DEF WindowTurns
<1> QED BY <1>6, <1>7, KeepsSame

LEMMA QuickEndsKeeps ==
  ASSUME Good(db), QuickEnds
  PROVE  Keeps(db, db')
<1>1. PICK r \in Run : db' = [db EXCEPT !.run[r].over = TRUE] BY DEF QuickEnds
<1>2. PICK b : b = [db.run[r] EXCEPT !.over = TRUE] OBVIOUS
<1>3. db.run \in [Run -> RunRow] /\ db.run[r] \in RunRow /\ db \in DbRows BY DEF Good, DbRows
<1>4. b \in RunRow /\ b.accepted = db.run[r].accepted /\ b.status = db.run[r].status
  BY <1>2, <1>3 DEF RunRow
<1>5. db' = [db EXCEPT !.run[r] = b] BY <1>1, <1>2, <1>3 DEF DbRows
<1>6. db.run[r].accepted => b.accepted BY <1>4
<1>7. b.accepted => b.status # "none" BY <1>4 DEF Good
<1> QED BY <1>4, <1>5, <1>6, <1>7, RunRowKeeps

-----------------------------------------------------------------------------
(* The worker processes and the rows they write                               *)

LEMMA ClientMoves ==
  ASSUME ShapeInv, NEW w \in Worker, NEW x \in ClientRows,
         Own(w, x), client' = [client EXCEPT ![w] = x]
  PROVE  client' \in [Worker -> ClientRows] /\ \A v \in Worker : Own(v, client'[v])
<1>1. client \in [Worker -> ClientRows] BY DEF ShapeInv
<1>2. client'[w] = x /\ \A v \in Worker \ {w} : client'[v] = client[v] BY <1>1
<1>3. client' \in [Worker -> ClientRows] BY <1>1
<1> QED BY <1>2, <1>3 DEF ShapeInv

LEMMA StageMoves ==
  ASSUME ShapeInv, NEW w \in Worker, client[w].stage \notin {"down", "idle"},
         NEW st \in Stages, At(w, st)
  PROVE  client' \in [Worker -> ClientRows] /\ \A v \in Worker : Own(v, client'[v])
<1>1. client \in [Worker -> ClientRows] /\ client[w] \in ClientRows /\ Own(w, client[w])
  BY DEF ShapeInv
<1>2. PICK x : x = [client[w] EXCEPT !.stage = st] OBVIOUS
<1>3. x \in ClientRows /\ x.task = client[w].task BY <1>1, <1>2 DEF ClientRows
<1>4. client' = [client EXCEPT ![w] = x] BY <1>1, <1>2 DEF At
<1>5. Own(w, x) BY <1>1, <1>3 DEF Own
<1> QED BY <1>3, <1>4, <1>5, ClientMoves

LEMMA ClientShape ==
  ASSUME ShapeInv, NEW w \in Worker, ClientStep(w)
  PROVE  ShapeInv'
<1>1. /\ window' = window /\ cycle' = cycle /\ registry' \in {"free", "ours", "other"}
  <2>1. registry \in {"free", "ours", "other"} BY DEF ShapeInv
  <2>2. window' = window /\ cycle' = cycle /\ registry' \in {registry, "ours"}
    BY DEF ClientStep, Heartbeat, Poll, AckRead, AckWrite, WaitUntilStart, StatusPoll,
           Acquire, Send, CallAccepted, CallRefused, CallLost, Report, Crash, Restart
  <2> QED BY <2>1, <2>2
<1>2. /\ client \in [Worker -> ClientRows] /\ client[w] \in ClientRows
      /\ Own(w, client[w])
  BY DEF ShapeInv
<1>3. Idle \in ClientRows /\ Idle.stage = "idle" /\ NoSeen = Idle.seen
  BY DEF Idle, NoSeen, ClientRows, Stages
<1> DEFINE Fit == /\ client' \in [Worker -> ClientRows]
                  /\ \A v \in Worker : Own(v, client'[v])
<1>4. UNCHANGED client => Fit BY DEF ShapeInv
<1>5. \A x \in ClientRows : Own(w, x) /\ client' = [client EXCEPT ![w] = x] => Fit
  BY ClientMoves
<1>6. \A st \in Stages : client[w].stage \notin {"down", "idle"} /\ At(w, st) => Fit
  BY StageMoves
<1>7. client' = [client EXCEPT ![w] = Idle] => Fit
  <2>1. Own(w, Idle) BY <1>3 DEF Own
  <2> QED BY <1>3, <1>5, <2>1
<1> SUFFICES Fit BY <1>1 DEF ShapeInv
<1> HIDE DEF Fit
<1>8. CASE Heartbeat(w) BY <1>4, <1>8 DEF Heartbeat
<1>9. CASE Poll(w)
  <2>1. PICK t \in Task :
          /\ TaskWorker(t) = w
          /\ \/ UNCHANGED client
             \/ client' = [client EXCEPT ![w] = [Idle EXCEPT !.stage = "polled", !.task = t]]
    BY <1>9 DEF Poll, Oldest
  <2>2. PICK x : x = [Idle EXCEPT !.stage = "polled", !.task = t] OBVIOUS
  <2>3. x \in ClientRows /\ Own(w, x) BY <2>1, <2>2 DEF Idle, NoSeen, ClientRows, Stages, Own
  <2> QED BY <1>4, <1>5, <2>1, <2>2, <2>3
<1>10. CASE AckRead(w)
  <2>1. client[w].stage = "polled" /\ client[w].task \in Task /\ TaskWorker(client[w].task) = w
    BY <1>2, <1>10 DEF AckRead, Own
  <2>2. PICK t : t = client[w].task OBVIOUS
  <2>3. PICK e : e = [queued |-> db.task[t] = "queued",
                      planned |-> db.run[TaskRun(t)].status = "planned",
                      waiting |-> db.domain.status \in {"scheduled", "queued", "ready"}]
    OBVIOUS
  <2>4. e \in [queued: BOOLEAN, planned: BOOLEAN, waiting: BOOLEAN] BY <2>3
  <2>5. PICK x : x = [client[w] EXCEPT !.stage = "acking", !.seen = e] OBVIOUS
  <2>6. x \in ClientRows /\ Own(w, x) BY <1>2, <2>1, <2>4, <2>5 DEF ClientRows, Stages, Own
  <2>7. client' = [client EXCEPT ![w].stage = "acking", ![w].seen = e]
    BY <1>10, <2>2, <2>3 DEF AckRead
  <2>8. client' = [client EXCEPT ![w] = x] BY <1>2, <2>5, <2>7
  <2> QED BY <1>5, <2>6, <2>8
<1>11. CASE AckWrite(w)
  <2>1. client[w].stage = "acking" /\ client[w].task \in Task /\ TaskWorker(client[w].task) = w
    BY <1>2, <1>11 DEF AckWrite, Own
  <2>2. PICK x : x = [client[w] EXCEPT !.stage = "waiting", !.seen = NoSeen] OBVIOUS
  <2>3. x \in ClientRows /\ Own(w, x)
    BY <1>2, <2>1, <2>2 DEF NoSeen, ClientRows, Stages, Own
  <2>4. client' = [client EXCEPT ![w] = x] BY <1>2, <1>11, <2>2 DEF AckWrite
  <2> QED BY <1>5, <2>3, <2>4
<1>12. CASE WaitUntilStart(w) BY <1>6, <1>7, <1>12 DEF WaitUntilStart, Stages
<1>13. CASE StatusPoll(w) BY <1>6, <1>13 DEF StatusPoll, Stages
<1>14. CASE Acquire(w) BY <1>4, <1>6, <1>14 DEF Acquire, Live, Stages
<1>15. CASE CallAccepted(w) BY <1>6, <1>15 DEF CallAccepted, Live, Stages
<1>16. CASE CallRefused(w) BY <1>4, <1>16 DEF CallRefused
<1>21. CASE Send(w) BY <1>4, <1>21 DEF Send
<1>17. CASE CallLost(w) BY <1>4, <1>17 DEF CallLost
<1>18. CASE Report(w) BY <1>7, <1>18 DEF Report
<1>19. CASE Crash(w)
  <2>1. PICK x : x = [Idle EXCEPT !.stage = "down"] OBVIOUS
  <2>2. x \in ClientRows /\ Own(w, x) BY <2>1 DEF Idle, NoSeen, ClientRows, Stages, Own
  <2> QED BY <1>5, <1>19, <2>1, <2>2 DEF Crash
<1>20. CASE Restart(w) BY <1>7, <1>20 DEF Restart
<1> QED
  BY <1>8, <1>9, <1>10, <1>11, <1>12, <1>13, <1>14, <1>15, <1>16, <1>17, <1>18, <1>19, <1>20,
     <1>21
  DEF ClientStep

(* A report: a win takes the leases of its run, and its run is out of the     *)
(* count of those without a lease from then on.                               *)
LEMMA ReportKeeps ==
  ASSUME CreateInv, NEW w \in Worker, Report(w), client[w].task \in Task
  PROVE  /\ CreateInv'
         /\ \A r \in Run : db.run[r].accepted => db'.run[r].accepted
         /\ \A r \in Run : ~db.run[r].accepted /\ db'.run[r].accepted
                           => client[w].stage = "won" /\ r = TaskRun(client[w].task)
<1>1. Good(db) /\ calls' = calls \ CallsOf(w) /\ outlived' = outlived BY DEF CreateInv, Report
<1>2. PICK t \in Task : t = client[w].task OBVIOUS
<1>3. CASE client[w].stage = "won"
  <2>1. PICK s : s = ReportWin(db, t) OBVIOUS
  <2>2. Won(db, s, TaskRun(t)) BY <1>1, <2>1, ReportWinStores
  <2>3. db' \in Rebalanced(s) BY <1>2, <1>3, <2>1 DEF Report
  <2>4. Good(s) BY <2>2 DEF Won
  <2>5. Keeps(s, db') BY <2>3, <2>4, RebalancedKeeps
  <2>6. /\ Good(db') /\ db'.leases = {l \in db.leases : TaskRun(l.task) # TaskRun(t)}
    BY <2>2, <2>5 DEF Keeps, Won
  <2>7. /\ s.run[TaskRun(t)].accepted = TRUE
        /\ \A r \in Run \ {TaskRun(t)} : s.run[r].accepted = db.run[r].accepted
    BY <2>2 DEF Won
  <2>8. /\ \A r \in Run : s.run[r].accepted => db'.run[r].accepted
        /\ \A r \in Run : db'.run[r].accepted => s.run[r].accepted
    BY <2>5 DEF Keeps
  <2>9. \A r \in Run : db.run[r].accepted => db'.run[r].accepted BY <2>7, <2>8
  <2>10. \A r \in Run : ~db.run[r].accepted /\ db'.run[r].accepted => r = TaskRun(t)
    BY <2>7, <2>8
  <2>11. \A r \in Run : ~db'.run[r].accepted => ~db.run[r].accepted /\ r # TaskRun(t)
    BY <2>7, <2>8, <2>9
  <2>12. \A c \in calls' : \E e \in calls : Slot(e) = Slot(c) BY <1>1
  <2>13. db'.leases \subseteq db.leases BY <2>6
  <2>14. SlotInv'
    <3>1. \A c, e \in calls' : Slot(c) = Slot(e) => c = e BY <1>1 DEF CreateInv, SlotInv
    <3>2. \A c \in calls' : c.late => Slot(c) \notin db'.leases
      BY <1>1, <2>13 DEF CreateInv, SlotInv
    <3> QED BY <3>1, <3>2 DEF SlotInv, Slot
  <2>15. LooseInv'
    <3> SUFFICES ASSUME NEW x \in Run, ~db'.run[x].accepted
                 PROVE  Cardinality(Loose(x)') <= outlived[x]
      BY <1>1 DEF LooseInv
    <3>1. ~db.run[x].accepted /\ x # TaskRun(t) BY <2>11
    <3>2. Cardinality(Loose(x)) <= outlived[x] BY <3>1 DEF CreateInv, LooseInv
    <3>3. Held(x)' \subseteq Held(x) BY <2>12, HeldShrinks
    <3>4. \A y \in Held(x) : TaskRun(y.task) = x BY SlotIs DEF Held, CallsIn
    <3>5. Loose(x)' \subseteq Loose(x) BY <2>6, <3>1, <3>3, <3>4 DEF Loose
    <3>6. IsFiniteSet(Loose(x))
      <4>1. IsFiniteSet(Held(x)) /\ Loose(x) \subseteq Held(x) BY DEF CreateInv, LimitInv, Loose
      <4> QED BY <4>1, FS_Subset
    <3>7. outlived[x] \in Nat /\ outlived[x] <= outlived[x] BY LimitIsNat
    <3> QED BY <3>2, <3>5, <3>6, <3>7, FewerStay
  <2>16. /\ calls' \subseteq Call /\ outlived' \in [Run -> Nat]
         /\ \A r \in Run : outlived[r] <= outlived'[r]
    <3>1. calls \subseteq Call /\ outlived \in [Run -> Nat] BY DEF CreateInv
    <3> QED BY <1>1, <3>1
  <2>17. CreateInv' BY <2>6, <2>12, <2>13, <2>14, <2>15, <2>16, MoveKeeps
  <2> QED BY <1>2, <1>3, <2>9, <2>10, <2>17
<1>4. CASE client[w].stage # "won"
  <2>1. PICK v \in {"stopped", "failed"} : db' \in Rebalanced(ReportEnd(db, t, v))
    BY <1>2, <1>4 DEF Report
  <2>2. Keeps(db, ReportEnd(db, t, v)) BY <1>1, ReportEndKeeps DEF TaskStatus
  <2>3. Keeps(db, db') BY <2>1, <2>2, RebalancedAgain
  <2>4. CreateInv' BY <1>1, <2>3, FewerKeeps
  <2> QED BY <2>3, <2>4 DEF Keeps
<1> QED BY <1>3, <1>4

LEMMA AcquireKeeps ==
  ASSUME CreateInv, NEW w \in Worker, Acquire(w), client[w].task \in Task
  PROVE  /\ CreateInv'
         /\ Keeps(db, db') \/ db'.run = db.run
         /\ \/ calls' = calls
            \/ \E k \in 1..MaxCalls :
                 /\ calls' = calls \cup {[task |-> client[w].task, k |-> k, at |-> "permit",
                                          late |-> FALSE]}
                 /\ ~db.run[TaskRun(client[w].task)].accepted /\ UNCHANGED client
<1>1. Good(db) /\ outlived' = outlived BY DEF CreateInv, Acquire
<1>2. PICK t \in Task : t = client[w].task OBVIOUS
<1>3. \/ db' = SetTasks(db, {t}, "cancelled") /\ calls' = calls
      \/ db' = db /\ calls' = calls
      \/ /\ ~Accepted(db, TaskRun(t)) /\ Free(t) # {}
         /\ \A l \in db.leases : l.task # t
         /\ ~Full(TaskRun(t))
         /\ db' = [db EXCEPT !.leases = @ \cup {[task |-> t, k |-> Min(Free(t))]}]
         /\ calls' = calls \cup {[task |-> t, k |-> Min(Free(t)), at |-> "permit", late |-> FALSE]}
         /\ UNCHANGED client
  BY <1>2 DEF Acquire
<1>4. CASE db' = SetTasks(db, {t}, "cancelled") /\ calls' = calls
  <2>1. Keeps(db, db') BY <1>1, <1>4, SetTasksKeeps DEF TaskStatus
  <2> QED BY <1>1, <1>4, <2>1, FewerKeeps
<1>5. CASE db' = db /\ calls' = calls
  <2>1. Keeps(db, db') BY <1>1, <1>5, KeepsSame
  <2> QED BY <1>1, <1>5, <2>1, FewerKeeps
<1>6. CASE /\ ~Accepted(db, TaskRun(t)) /\ Free(t) # {}
           /\ \A l \in db.leases : l.task # t
           /\ ~Full(TaskRun(t))
           /\ db' = [db EXCEPT !.leases = @ \cup {[task |-> t, k |-> Min(Free(t))]}]
           /\ calls' = calls \cup {[task |-> t, k |-> Min(Free(t)), at |-> "permit", late |-> FALSE]}
           /\ UNCHANGED client
  <2>1. PICK k : k = Min(Free(t)) OBVIOUS
  <2>2. k \in Free(t)
    <3>1. 1..MaxCalls \subseteq Nat BY AttackAssumption
    <3>2. Free(t) \in SUBSET Nat BY <3>1 DEF Free
    <3> QED BY <1>6, <2>1, <3>2, MinIsOne
  <2>3. k \in 1..MaxCalls /\ \A c \in calls : c.task = t => c.k # k BY <2>2 DEF Free
  <2>4. ~db.run[TaskRun(t)].accepted BY <1>6 DEF Accepted
  <2>5. db' = [db EXCEPT !.leases = @ \cup {[task |-> t, k |-> k]}] BY <1>6, <2>1
  <2>6. calls' = calls \cup {[task |-> t, k |-> k, at |-> "permit", late |-> FALSE]}
    BY <1>6, <2>1
  <2>7. CreateInv' /\ db'.run = db.run
    BY <1>1, <1>6, <2>3, <2>4, <2>5, <2>6, PermitKeeps
  <2> QED BY <1>2, <1>6, <2>3, <2>4, <2>6, <2>7
<1> QED BY <1>3, <1>4, <1>5, <1>6

LEMMA AckWriteKeeps ==
  ASSUME Good(db), NEW w \in Worker, AckWrite(w)
  PROVE  Keeps(db, db')
<1>1. PICK t : t = client[w].task OBVIOUS
<1>2. PICK a : a = SetTasks(db, {t}, "running") OBVIOUS
<1>3. PICK b : b = IF client[w].seen.planned THEN SetRuns(a, {TaskRun(t)}, "running") ELSE a
  OBVIOUS
<1>4. Keeps(db, a) BY <1>2, SetTasksKeeps DEF TaskStatus
<1>5. Keeps(a, b)
  <2>1. Good(a) /\ "running" \in RunStatus \ {"none"} BY <1>4 DEF Keeps, RunStatus
  <2> QED BY <1>3, <2>1, SetRunsKeeps, KeepsSame
<1>6. Keeps(db, b) BY <1>4, <1>5, KeepsAgain
<1>7. Keeps(b, SetDomain(b, "attacking"))
  <2>1. Good(b) /\ "attacking" \in DomainStatus BY <1>6 DEF Keeps, DomainStatus, Eligible
  <2> QED BY <2>1, SetDomainKeeps
<1>8. Keeps(db, SetDomain(b, "attacking")) BY <1>6, <1>7, KeepsAgain
<1>9. db' = db \/ db' = b \/ db' = SetDomain(b, "attacking")
  BY <1>1, <1>2, <1>3 DEF AckWrite
<1> QED BY <1>6, <1>8, <1>9, KeepsSame

(* The state of an attempt is all that changes.                               *)
LEMMA Relabelled ==
  ASSUME NEW e \in Call, NEW v \in {"permit", "sent", "accepted", "left"}, NEW n,
         n = [e EXCEPT !.at = v]
  PROVE  n \in Call /\ Slot(n) = Slot(e) /\ n.late = e.late /\ n.at = v /\ n.task = e.task
BY DEF Call, Slot

LEMMA ForsakenAre ==
  ASSUME calls \subseteq Call, SlotInv, NEW C \in SUBSET calls
  PROVE  /\ Forsaken(C) \subseteq Call
         /\ \A n \in Forsaken(C) : /\ n.at = "left"
                                   /\ \E e \in C : /\ Slot(e) = Slot(n) /\ e.late = n.late
                                                   /\ e.task = n.task
         /\ \A n, m \in Forsaken(C) : Slot(n) = Slot(m) => n = m
<1>1. ASSUME NEW n \in Forsaken(C)
      PROVE  /\ n \in Call /\ n.at = "left"
             /\ \E e \in C : /\ n = [e EXCEPT !.at = "left"]
                             /\ Slot(e) = Slot(n) /\ e.late = n.late /\ e.task = n.task
  <2>1. PICK e \in C : n = [e EXCEPT !.at = "left"] BY DEF Forsaken
  <2>2. e \in Call OBVIOUS
  <2>3. /\ n \in Call /\ Slot(n) = Slot(e) /\ n.late = e.late /\ n.at = "left"
        /\ n.task = e.task
    BY <2>1, <2>2, Relabelled
  <2> QED BY <2>1, <2>3
<1>2. ASSUME NEW n \in Forsaken(C), NEW m \in Forsaken(C), Slot(n) = Slot(m) PROVE n = m
  <2>1. PICK e \in C : n = [e EXCEPT !.at = "left"] /\ Slot(e) = Slot(n) BY <1>1
  <2>2. PICK d \in C : m = [d EXCEPT !.at = "left"] /\ Slot(d) = Slot(m) BY <1>1
  <2>3. e = d BY <1>2, <2>1, <2>2 DEF SlotInv
  <2> QED BY <2>1, <2>2, <2>3
<1> QED BY <1>1, <1>2

(* Of the attempts only those of its own change under a worker's step, and    *)
(* only a permit puts one in hand, of a run whose win is not stored.          *)
Step(w, A, N) ==
  /\ calls' = (calls \ A) \cup N /\ A \subseteq CallsOf(w)
  /\ \A n \in N : /\ TaskWorker(n.task) = w
                  /\ n.at = "permit" => ~db.run[TaskRun(n.task)].accepted
LEMMA ClientCalls ==
  ASSUME AttackInv, NEW w \in Worker, ClientStep(w)
  PROVE  /\ Tended(w)'
         /\ \A v \in Worker \ {w} : client'[v] = client[v]
         /\ \E A, N : Step(w, A, N)
<1>1. CreateInv /\ calls \subseteq Call /\ SlotInv /\ Tended(w)
  BY DEF AttackInv, CreateInv
<1>2. client \in [Worker -> ClientRows] /\ Own(w, client[w]) BY DEF AttackInv, ShapeInv
<1>3. client[w] \in ClientRows BY <1>2
<1>4. calls' = calls => \E A, N : Step(w, A, N)
  <2>1. calls' = calls => Step(w, {}, {}) BY DEF Step
  <2> QED BY <2>1
<1>5. ASSUME calls' = calls, client' = client
      PROVE  /\ Tended(w)' /\ \A v \in Worker \ {w} : client'[v] = client[v]
             /\ \E A, N : Step(w, A, N)
  BY <1>1, <1>4, <1>5 DEF Tended, CallsOf
<1>6. ASSUME calls' = calls, client[w].stage \notin {"attack", "stopping", "won"},
             NEW x \in ClientRows, x.stage # "won", client' = [client EXCEPT ![w] = x]
      PROVE  /\ Tended(w)' /\ \A v \in Worker \ {w} : client'[v] = client[v]
             /\ \E A, N : Step(w, A, N)
  <2>1. CallsOf(w) = {} BY <1>1, <1>6 DEF Tended
  <2>2. CallsOf(w)' = {} BY <1>6, <2>1 DEF CallsOf
  <2>3. client'[w] = x BY <1>2, <1>6
  <2> QED BY <1>2, <1>4, <1>6, <2>2, <2>3 DEF Tended
<1>7. Idle \in ClientRows /\ Idle.stage = "idle"
  BY DEF Idle, NoSeen, ClientRows, Stages
<1>8. CASE Heartbeat(w) BY <1>5, <1>8 DEF Heartbeat
<1>9. CASE Poll(w)
  <2>1. calls' = calls /\ client[w].stage = "idle" BY <1>9 DEF Poll
  <2>2. PICK t \in Task :
          \/ client' = client
          \/ client' = [client EXCEPT ![w] = [Idle EXCEPT !.stage = "polled", !.task = t]]
    BY <1>9 DEF Poll, Oldest
  <2>3. PICK x : x = [Idle EXCEPT !.stage = "polled", !.task = t] OBVIOUS
  <2>4. x \in ClientRows /\ x.stage # "won" BY <2>3 DEF Idle, NoSeen, ClientRows, Stages
  <2>5. client[w].stage \notin {"attack", "stopping", "won"} BY <2>1
  <2> QED BY <1>5, <1>6, <2>1, <2>2, <2>3, <2>4, <2>5
<1>10. CASE AckRead(w)
  <2>1. calls' = calls /\ client[w].stage = "polled" BY <1>10 DEF AckRead
  <2>2. PICK t : t = client[w].task OBVIOUS
  <2>3. PICK e : e = [queued |-> db.task[t] = "queued",
                      planned |-> db.run[TaskRun(t)].status = "planned",
                      waiting |-> db.domain.status \in {"scheduled", "queued", "ready"}]
    OBVIOUS
  <2>4. e \in [queued: BOOLEAN, planned: BOOLEAN, waiting: BOOLEAN] BY <2>3
  <2>5. PICK x : x = [client[w] EXCEPT !.stage = "acking", !.seen = e] OBVIOUS
  <2>6. x \in ClientRows /\ x.stage # "won" BY <1>3, <2>4, <2>5 DEF ClientRows, Stages
  <2>7. client' = [client EXCEPT ![w].stage = "acking", ![w].seen = e]
    BY <1>10, <2>2, <2>3 DEF AckRead
  <2>8. client' = [client EXCEPT ![w] = x] BY <1>2, <2>5, <2>7
  <2>9. client[w].stage \notin {"attack", "stopping", "won"} BY <2>1
  <2> QED BY <1>6, <2>1, <2>6, <2>8, <2>9
<1>11. CASE AckWrite(w)
  <2>1. calls' = calls /\ client[w].stage = "acking" BY <1>11 DEF AckWrite
  <2>2. PICK x : x = [client[w] EXCEPT !.stage = "waiting", !.seen = NoSeen] OBVIOUS
  <2>3. x \in ClientRows /\ x.stage # "won"
    BY <1>3, <2>2 DEF NoSeen, ClientRows, Stages
  <2>4. client' = [client EXCEPT ![w] = x] BY <1>2, <1>11, <2>2 DEF AckWrite
  <2>5. client[w].stage \notin {"attack", "stopping", "won"} BY <2>1
  <2> QED BY <1>6, <2>1, <2>3, <2>4, <2>5
<1>12. CASE WaitUntilStart(w)
  <2>1. calls' = calls /\ client[w].stage = "waiting" BY <1>12 DEF WaitUntilStart
  <2>2. PICK x : x = [client[w] EXCEPT !.stage = "attack"] OBVIOUS
  <2>3. x \in ClientRows /\ x.stage # "won" BY <1>3, <2>2 DEF ClientRows, Stages
  <2>4. \/ client' = [client EXCEPT ![w] = Idle] \/ client' = [client EXCEPT ![w] = x]
    BY <1>2, <1>12, <2>2 DEF WaitUntilStart, At
  <2>5. client[w].stage \notin {"attack", "stopping", "won"} /\ Idle.stage # "won" BY <1>7, <2>1
  <2> QED BY <1>6, <1>7, <2>1, <2>3, <2>4, <2>5
<1>13. ASSUME NEW st \in {"stopping", "won"}, At(w, st)
       PROVE  /\ client'[w].stage = st /\ client'[w].task = client[w].task
              /\ \A v \in Worker \ {w} : client'[v] = client[v]
  BY <1>2, <1>3, <1>13 DEF At, ClientRows
<1>14. CASE StatusPoll(w)
  <2>1. calls' = calls /\ At(w, "stopping") BY <1>14 DEF StatusPoll
  <2>2. CallsOf(w)' = CallsOf(w) BY <2>1 DEF CallsOf
  <2>3. client'[w].stage = "stopping" /\ client'[w].task = client[w].task
        /\ \A v \in Worker \ {w} : client'[v] = client[v]
    BY <1>13, <2>1
  <2> QED BY <1>1, <1>4, <2>1, <2>2, <2>3 DEF Tended
<1>15. CASE Acquire(w)
  <2>1. Live(w) /\ client[w].task \in Task /\ TaskWorker(client[w].task) = w
    BY <1>2, <1>15 DEF Acquire, Live, Own
  <2>2. client[w].stage \in {"attack", "stopping"} BY <2>1 DEF Live
  <2>3. CASE calls' = calls
    <3>1. client' = client \/ At(w, "stopping") BY <1>15 DEF Acquire
    <3>2. CASE client' = client BY <1>5, <2>3, <3>2
    <3>3. CASE At(w, "stopping")
      <4>1. CallsOf(w)' = CallsOf(w) BY <2>3 DEF CallsOf
      <4>2. client'[w].stage = "stopping" /\ client'[w].task = client[w].task
            /\ \A v \in Worker \ {w} : client'[v] = client[v]
        BY <1>13, <3>3
      <4> QED BY <1>1, <1>4, <2>3, <4>1, <4>2 DEF Tended
    <3> QED BY <3>1, <3>2, <3>3
  <2>4. CASE calls' # calls
    <3>1. PICK k \in 1..MaxCalls :
            /\ calls' = calls \cup {[task |-> client[w].task, k |-> k, at |-> "permit",
                                     late |-> FALSE]}
            /\ ~db.run[TaskRun(client[w].task)].accepted /\ UNCHANGED client
      BY <1>1, <1>15, <2>1, <2>4, AcquireKeeps
    <3>2. PICK n : n = [task |-> client[w].task, k |-> k, at |-> "permit", late |-> FALSE]
      OBVIOUS
    <3>3. Step(w, {}, {n}) BY <2>1, <3>1, <3>2 DEF Step
    <3>4. CallsOf(w)' \subseteq CallsOf(w) \cup {n} BY <3>1, <3>2 DEF CallsOf
    <3>5. Tended(w)' BY <1>1, <2>2, <3>1, <3>2, <3>4 DEF Tended
    <3> QED BY <3>1, <3>3, <3>5
  <2> QED BY <2>3, <2>4
<1>16. CASE Send(w)
  <2>1. client[w].stage \in {"attack", "stopping"} /\ client' = client
    BY <1>16 DEF Send, Live
  <2>2. PICK c \in CallsOf(w) : calls' = (calls \ {c}) \cup {[c EXCEPT !.at = "sent"]}
    BY <1>16 DEF Send
  <2>3. PICK n : n = [c EXCEPT !.at = "sent"] OBVIOUS
  <2>4. c \in Call /\ TaskWorker(c.task) = w BY <1>1 DEF CallsOf
  <2>5. n.at = "sent" /\ n.task = c.task BY <2>3, <2>4, Relabelled
  <2>6. Step(w, {c}, {n}) BY <2>2, <2>3, <2>4, <2>5 DEF Step
  <2>7. CallsOf(w)' \subseteq CallsOf(w) \cup {n} BY <2>2, <2>3 DEF CallsOf
  <2>8. Tended(w)' BY <1>1, <2>1, <2>5, <2>7 DEF Tended
  <2> QED BY <2>1, <2>6, <2>8
<1>17. CASE CallAccepted(w)
  <2>1. At(w, "won") BY <1>17 DEF CallAccepted
  <2>2. PICK c \in CallsOf(w) :
          calls' = ((calls \ CallsOf(w)) \cup {[c EXCEPT !.at = "accepted"]})
                   \cup Forsaken(CallsOf(w) \ {c})
    BY <1>17 DEF CallAccepted
  <2>3. PICK n : n = [c EXCEPT !.at = "accepted"] OBVIOUS
  <2>4. c \in Call /\ TaskWorker(c.task) = w BY <1>1 DEF CallsOf
  <2>5. n.at = "accepted" /\ n.task = c.task BY <2>3, <2>4, Relabelled
  <2>6. PICK F : F = Forsaken(CallsOf(w) \ {c}) OBVIOUS
  <2>7. \A m \in F : m.at = "left" /\ TaskWorker(m.task) = w
    <3>1. CallsOf(w) \ {c} \in SUBSET calls BY DEF CallsOf
    <3>2. \A m \in F : m.at = "left" /\ \E e \in CallsOf(w) \ {c} : e.task = m.task
      BY <1>1, <2>6, <3>1, ForsakenAre
    <3> QED BY <3>2 DEF CallsOf
  <2>8. Step(w, CallsOf(w), {n} \cup F)
    <3>1. calls' = (calls \ CallsOf(w)) \cup ({n} \cup F) BY <2>2, <2>3, <2>6
    <3> QED BY <2>4, <2>5, <2>7, <3>1 DEF Step
  <2>9. CallsOf(w)' = {n}
    <3>1. n \in calls' BY <2>2, <2>3
    <3>2. \A m \in CallsOf(w)' : m = n BY <2>2, <2>3, <2>6, <2>7 DEF CallsOf
    <3>3. n \in CallsOf(w)' BY <2>4, <2>5, <3>1 DEF CallsOf
    <3> QED BY <3>2, <3>3
  <2>10. /\ client'[w].stage = "won" /\ client'[w].task = client[w].task
         /\ \A v \in Worker \ {w} : client'[v] = client[v]
    BY <1>13, <2>1
  <2>11. client[w].task = c.task BY <1>1 DEF Tended
  <2>12. Tended(w)' BY <2>5, <2>9, <2>10, <2>11 DEF Tended
  <2> QED BY <2>8, <2>10, <2>12
<1>18. CASE CallRefused(w)
  <2>1. client[w].stage \in {"attack", "stopping"} /\ client' = client
    BY <1>18 DEF CallRefused, Live
  <2>2. PICK c \in CallsOf(w) : calls' = calls \ {c} BY <1>18 DEF CallRefused
  <2>3. Step(w, {c}, {}) BY <2>2 DEF Step
  <2>4. CallsOf(w)' \subseteq CallsOf(w) BY <2>2 DEF CallsOf
  <2>5. Tended(w)' BY <1>1, <2>1, <2>4 DEF Tended
  <2> QED BY <2>1, <2>3, <2>5
<1>19. CASE CallLost(w)
  <2>1. client[w].stage \in {"attack", "stopping"} /\ client' = client
    BY <1>19 DEF CallLost, Live
  <2>2. PICK c \in CallsOf(w) : calls' = (calls \ {c}) \cup Forsaken({c})
    BY <1>19 DEF CallLost
  <2>3. PICK F : F = Forsaken({c}) OBVIOUS
  <2>4. \A m \in F : m.at = "left" /\ TaskWorker(m.task) = w
    <3>1. {c} \in SUBSET calls BY DEF CallsOf
    <3>2. \A m \in F : m.at = "left" /\ \E e \in {c} : e.task = m.task
      BY <1>1, <2>3, <3>1, ForsakenAre
    <3> QED BY <3>2 DEF CallsOf
  <2>5. Step(w, {c}, F) BY <2>2, <2>3, <2>4 DEF Step
  <2>6. CallsOf(w)' \subseteq CallsOf(w) BY <2>2, <2>3, <2>4 DEF CallsOf
  <2>7. Tended(w)' BY <1>1, <2>1, <2>6 DEF Tended
  <2> QED BY <2>1, <2>5, <2>7
<1>20. CASE Report(w)
  <2>1. calls' = calls \ CallsOf(w) /\ client' = [client EXCEPT ![w] = Idle]
    BY <1>20 DEF Report
  <2>2. client'[w] = Idle /\ \A v \in Worker \ {w} : client'[v] = client[v] BY <1>2, <2>1
  <2>3. CallsOf(w)' = {} BY <2>1 DEF CallsOf
  <2>4. Step(w, CallsOf(w), {}) BY <2>1 DEF Step
  <2> QED BY <1>7, <2>2, <2>3, <2>4 DEF Tended
<1>21. CASE Crash(w)
  <2>1. /\ calls' = (calls \ CallsOf(w)) \cup Forsaken(CallsOf(w))
        /\ client' = [client EXCEPT ![w] = [Idle EXCEPT !.stage = "down"]]
    BY <1>21 DEF Crash
  <2>2. client'[w].stage = "down" /\ \A v \in Worker \ {w} : client'[v] = client[v]
    BY <1>2, <2>1 DEF Idle
  <2>3. PICK F : F = Forsaken(CallsOf(w)) OBVIOUS
  <2>4. \A m \in F : m.at = "left" /\ TaskWorker(m.task) = w
    <3>1. CallsOf(w) \in SUBSET calls BY DEF CallsOf
    <3>2. \A m \in F : m.at = "left" /\ \E e \in CallsOf(w) : e.task = m.task
      BY <1>1, <2>3, <3>1, ForsakenAre
    <3> QED BY <3>2 DEF CallsOf
  <2>5. CallsOf(w)' = {} BY <2>1, <2>3, <2>4 DEF CallsOf
  <2>6. Step(w, CallsOf(w), F) BY <2>1, <2>3, <2>4 DEF Step
  <2> QED BY <2>2, <2>5, <2>6 DEF Tended
<1>22. CASE Restart(w)
  <2>1. calls' = calls /\ client[w].stage = "down" /\ client' = [client EXCEPT ![w] = Idle]
    BY <1>22 DEF Restart
  <2>2. client[w].stage \notin {"attack", "stopping", "won"} /\ Idle.stage # "won" BY <1>7, <2>1
  <2> QED BY <1>6, <1>7, <2>1, <2>2
<1> QED BY <1>8, <1>9, <1>10, <1>11, <1>12, <1>14, <1>15, <1>16, <1>17, <1>18, <1>19, <1>20,
           <1>21, <1>22
        DEF ClientStep

(* A worker's step keeps what is known of leases and attempts; the only win   *)
(* it stores is its own.                                                      *)
LEMMA ClientCreates ==
  ASSUME AttackInv, NEW w \in Worker, ClientStep(w)
  PROVE  /\ CreateInv' /\ outlived' = outlived
         /\ \A r \in Run : db.run[r].accepted => db'.run[r].accepted
         /\ \A r \in Run : ~db.run[r].accepted /\ db'.run[r].accepted
              => client[w].stage = "won" /\ r = TaskRun(client[w].task) /\ calls' \subseteq calls
<1>1. CreateInv /\ Good(db) /\ calls \subseteq Call /\ SlotInv /\ CallsOf(w) \subseteq calls
  BY DEF AttackInv, CreateInv, CallsOf
<1>2. Own(w, client[w]) BY DEF AttackInv, ShapeInv
<1> DEFINE Kept == \A r \in Run : db.run[r].accepted => db'.run[r].accepted
           NoNew == \A r \in Run : ~(~db.run[r].accepted /\ db'.run[r].accepted)
<1>3. (Keeps(db, db') => Kept /\ NoNew) /\ (db'.run = db.run => Kept /\ NoNew) BY DEF Keeps
<1>4. db' = db => Keeps(db, db') BY <1>1, KeepsSame
<1>5. ASSUME Keeps(db, db'), calls' \subseteq calls, outlived' = outlived
      PROVE  CreateInv' /\ outlived' = outlived /\ Kept /\ NoNew
  BY <1>1, <1>3, <1>5, FewerKeeps
<1>6. ASSUME db' = db, outlived' = outlived, NEW A \in SUBSET calls, NEW N \in SUBSET Call,
             calls' = (calls \ A) \cup N,
             \A n \in N : \E e \in A : Slot(e) = Slot(n) /\ e.late = n.late,
             \A n, m \in N : Slot(n) = Slot(m) => n = m
      PROVE  CreateInv' /\ outlived' = outlived /\ Kept /\ NoNew
  <2>1. Keeps(db, db') BY <1>4, <1>6
  <2>2. CreateInv' BY <1>1, <1>6, <2>1, RelabelKeeps
  <2> QED BY <1>3, <1>6, <2>1, <2>2
<1> HIDE DEF Kept
<1>7. CASE ~Report(w)
  <2> SUFFICES CreateInv' /\ outlived' = outlived /\ Kept /\ NoNew BY DEF Kept
  <2> HIDE DEF NoNew
  <2>1. CASE Heartbeat(w)
    <3>1. PICK h : h = [db.health EXCEPT ![w] = "up"] OBVIOUS
    <3>2. db.health \in [Worker -> {"up", "offline"}] /\ db \in DbRows BY <1>1 DEF Good, DbRows
    <3>3. h \in [Worker -> {"up", "offline"}] BY <3>1, <3>2
    <3>4. db' = [db EXCEPT !.health = h] BY <2>1, <3>1, <3>2 DEF Heartbeat, DbRows
    <3>5. Keeps(db, db') BY <1>1, <3>3, <3>4, HealthKeeps
    <3>6. calls' = calls /\ outlived' = outlived BY <2>1 DEF Heartbeat
    <3> QED BY <1>5, <3>5, <3>6
  <2>2. CASE Poll(w)
    <3>1. calls' = calls /\ outlived' = outlived BY <2>2 DEF Poll
    <3>2. PICK t : db' = SetTasks(db, {t}, "cancelled") \/ db' = db BY <2>2 DEF Poll
    <3>3. Keeps(db, db') BY <1>1, <1>4, <3>2, SetTasksKeeps DEF TaskStatus
    <3> QED BY <1>5, <3>1, <3>3
  <2>3. CASE AckRead(w) BY <1>4, <1>5, <2>3 DEF AckRead
  <2>4. CASE AckWrite(w)
    <3>1. calls' = calls /\ outlived' = outlived BY <2>4 DEF AckWrite
    <3>2. Keeps(db, db') BY <1>1, <2>4, AckWriteKeeps
    <3> QED BY <1>5, <3>1, <3>2
  <2>5. CASE WaitUntilStart(w) BY <1>4, <1>5, <2>5 DEF WaitUntilStart
  <2>6. CASE StatusPoll(w) BY <1>4, <1>5, <2>6 DEF StatusPoll
  <2>7. CASE Acquire(w)
    <3>1. client[w].task \in Task BY <1>2, <2>7 DEF Acquire, Live, Own
    <3>2. CreateInv' /\ (Keeps(db, db') \/ db'.run = db.run) BY <1>1, <2>7, <3>1, AcquireKeeps
    <3>3. outlived' = outlived BY <2>7 DEF Acquire
    <3> QED BY <1>3, <3>2, <3>3
  <2>8. CASE Send(w)
    <3>1. PICK c \in CallsOf(w) : calls' = (calls \ {c}) \cup {[c EXCEPT !.at = "sent"]}
      BY <2>8 DEF Send
    <3>2. PICK n : n = [c EXCEPT !.at = "sent"] OBVIOUS
    <3>3. n \in Call /\ Slot(n) = Slot(c) /\ n.late = c.late BY <1>1, <3>2, Relabelled
    <3>4. {c} \in SUBSET calls /\ {n} \in SUBSET Call /\ calls' = (calls \ {c}) \cup {n}
      BY <1>1, <3>1, <3>2, <3>3
    <3>5. \A m \in {n} : \E e \in {c} : Slot(e) = Slot(m) /\ e.late = m.late BY <3>3
    <3>6. \A m, o \in {n} : Slot(m) = Slot(o) => m = o OBVIOUS
    <3>7. db' = db /\ outlived' = outlived BY <2>8 DEF Send
    <3> QED BY <1>6, <3>4, <3>5, <3>6, <3>7
  <2>9. CASE CallAccepted(w)
    <3>1. PICK c \in CallsOf(w) :
            calls' = ((calls \ CallsOf(w)) \cup {[c EXCEPT !.at = "accepted"]})
                     \cup Forsaken(CallsOf(w) \ {c})
      BY <2>9 DEF CallAccepted
    <3>2. PICK n : n = [c EXCEPT !.at = "accepted"] OBVIOUS
    <3>3. n \in Call /\ Slot(n) = Slot(c) /\ n.late = c.late BY <1>1, <3>2, Relabelled
    <3>4. PICK C \in SUBSET calls : C = CallsOf(w) \ {c} BY <1>1
    <3>5. PICK F : F = Forsaken(C) OBVIOUS
    <3>6. /\ F \subseteq Call
          /\ \A m \in F : \E e \in C : Slot(e) = Slot(m) /\ e.late = m.late
          /\ \A m, o \in F : Slot(m) = Slot(o) => m = o
      BY <1>1, <3>5, ForsakenAre
    <3>7. /\ CallsOf(w) \in SUBSET calls /\ {n} \cup F \in SUBSET Call
          /\ calls' = (calls \ CallsOf(w)) \cup ({n} \cup F)
      BY <1>1, <3>1, <3>2, <3>3, <3>4, <3>5, <3>6
    <3>8. \A m \in {n} \cup F : \E e \in CallsOf(w) : Slot(e) = Slot(m) /\ e.late = m.late
      BY <3>1, <3>3, <3>4, <3>6
    <3>9. \A m \in F : Slot(m) # Slot(n)
      <4> SUFFICES ASSUME NEW m \in F, Slot(m) = Slot(n) PROVE FALSE OBVIOUS
      <4>1. PICK e \in C : Slot(e) = Slot(m) BY <3>6
      <4>2. Slot(e) = Slot(c) BY <3>3, <4>1
      <4>3. e = c BY <1>1, <3>4, <4>2 DEF SlotInv
      <4> QED BY <3>4, <4>3
    <3>10. \A m, o \in {n} \cup F : Slot(m) = Slot(o) => m = o BY <3>6, <3>9
    <3>11. db' = db /\ outlived' = outlived BY <2>9 DEF CallAccepted
    <3> QED BY <1>6, <3>7, <3>8, <3>10, <3>11
  <2>10. CASE CallRefused(w)
    <3>1. PICK c \in CallsOf(w) : /\ calls' = calls \ {c}
                                  /\ db' = [db EXCEPT !.leases = {l \in @ : l.task # c.task}]
      BY <2>10 DEF CallRefused
    <3>2. c \in calls /\ outlived' = outlived BY <1>1, <2>10 DEF CallRefused
    <3>3. CreateInv' /\ db'.run = db.run BY <1>1, <3>1, <3>2, CallRefusedKeeps
    <3> QED BY <1>3, <3>2, <3>3
  <2>11. CASE CallLost(w)
    <3>1. PICK c \in CallsOf(w) : calls' = (calls \ {c}) \cup Forsaken({c})
      BY <2>11 DEF CallLost
    <3>2. PICK C \in SUBSET calls : C = {c} BY <1>1
    <3>3. PICK F : F = Forsaken(C) OBVIOUS
    <3>4. /\ F \subseteq Call
          /\ \A m \in F : \E e \in C : Slot(e) = Slot(m) /\ e.late = m.late
          /\ \A m, o \in F : Slot(m) = Slot(o) => m = o
      BY <1>1, <3>3, ForsakenAre
    <3>5. db' = db /\ outlived' = outlived /\ calls' = (calls \ C) \cup F
      BY <2>11, <3>1, <3>2, <3>3 DEF CallLost
    <3> QED BY <1>6, <3>4, <3>5
  <2>12. CASE Crash(w)
    <3>1. PICK C \in SUBSET calls : C = CallsOf(w) BY <1>1
    <3>2. PICK F : F = Forsaken(C) OBVIOUS
    <3>3. /\ F \subseteq Call
          /\ \A m \in F : \E e \in C : Slot(e) = Slot(m) /\ e.late = m.late
          /\ \A m, o \in F : Slot(m) = Slot(o) => m = o
      BY <1>1, <3>2, ForsakenAre
    <3>4. db' = db /\ outlived' = outlived /\ calls' = (calls \ C) \cup F
      BY <2>12, <3>1, <3>2 DEF Crash
    <3> QED BY <1>6, <3>3, <3>4
  <2>13. CASE Restart(w) BY <1>4, <1>5, <2>13 DEF Restart
  <2> QED BY <1>7, <2>1, <2>2, <2>3, <2>4, <2>5, <2>6, <2>7, <2>8, <2>9, <2>10, <2>11, <2>12,
             <2>13 DEF ClientStep
<1>8. CASE Report(w)
  <2>1. client[w].task \in Task BY <1>2, <1>8 DEF Report, Own
  <2>2. outlived' = outlived /\ calls' \subseteq calls BY <1>8 DEF Report
  <2> QED BY <1>1, <1>8, <2>1, <2>2, ReportKeeps
<1> QED BY <1>7, <1>8

(* A worker's step leaves the others' attempts alone.                         *)
LEMMA OthersTended ==
  ASSUME AttackInv, NEW w \in Worker, ClientStep(w), NEW v \in Worker
  PROVE  Tended(v)'
<1>1. Tended(w)' /\ (\A u \in Worker \ {w} : client'[u] = client[u]) /\ \E A, N : Step(w, A, N)
  BY ClientCalls
<1>2. CASE v = w BY <1>1, <1>2
<1>3. CASE v # w
  <2>1. PICK A, N : Step(w, A, N) BY <1>1
  <2>2. CallsOf(v)' = CallsOf(v) BY <1>3, <2>1 DEF Step, CallsOf
  <2>3. client'[v] = client[v] BY <1>1, <1>3
  <2>4. Tended(v) BY DEF AttackInv
  <2> QED BY <2>2, <2>3, <2>4 DEF Tended
<1> QED BY <1>2, <1>3

(* A lease that ends marks an attempt as late, and that is all.               *)
LEMMA LateTended ==
  ASSUME AttackInv, LeaseEnds
  PROVE  /\ \A v \in Worker : Tended(v)'
         /\ \A r \in Run : InHand(r)' \subseteq InHand(r)
<1>1. PICK over \in SUBSET calls :
        calls' = (calls \ over) \cup {[c EXCEPT !.late = TRUE] : c \in over}
  <2>1. PICK t \in Task, k \in 1..MaxCalls :
          LET over == {c \in calls : c.task = t /\ c.k = k /\ ~c.late}
          IN  calls' = (calls \ over) \cup {[c EXCEPT !.late = TRUE] : c \in over}
    BY DEF LeaseEnds
  <2>2. PICK over : over = {c \in calls : c.task = t /\ c.k = k /\ ~c.late} OBVIOUS
  <2>3. calls' = (calls \ over) \cup {[c EXCEPT !.late = TRUE] : c \in over} BY <2>1, <2>2
  <2>4. over \in SUBSET calls BY <2>2
  <2> QED BY <2>3, <2>4
<1>2. client' = client /\ calls \subseteq Call BY DEF LeaseEnds, AttackInv, CreateInv
<1>3. ASSUME NEW c \in Call, NEW n, n = [c EXCEPT !.late = TRUE]
      PROVE  n.task = c.task /\ n.at = c.at /\ Slot(n) = Slot(c)
  BY <1>3 DEF Call, Slot
<1>4. \A n \in calls' : \E c \in calls : n.task = c.task /\ n.at = c.at /\ Slot(n) = Slot(c)
  <2> SUFFICES ASSUME NEW n \in calls'
               PROVE  \E c \in calls : n.task = c.task /\ n.at = c.at /\ Slot(n) = Slot(c)
    OBVIOUS
  <2>1. CASE n \in calls BY <2>1
  <2>2. CASE n \notin calls
    <3>1. PICK c \in over : n = [c EXCEPT !.late = TRUE] BY <1>1, <2>2
    <3>2. c \in calls /\ c \in Call BY <1>2
    <3> QED BY <1>3, <3>1, <3>2
  <2> QED BY <2>1, <2>2
<1>5. \A c \in calls : \E n \in calls' : n.task = c.task /\ n.at = c.at
  <2> SUFFICES ASSUME NEW c \in calls PROVE \E n \in calls' : n.task = c.task /\ n.at = c.at
    OBVIOUS
  <2>1. CASE c \in over
    <3>1. PICK n : n = [c EXCEPT !.late = TRUE] OBVIOUS
    <3>2. n \in calls' BY <1>1, <2>1, <3>1
    <3>3. c \in Call BY <1>2
    <3> QED BY <1>3, <3>1, <3>2, <3>3
  <2>2. CASE c \notin over BY <1>1, <2>2
  <2> QED BY <2>1, <2>2
<1>6. ASSUME NEW v \in Worker PROVE Tended(v)'
  <2>1. Tended(v) BY DEF AttackInv
  <2>2. ASSUME NEW n \in CallsOf(v)'
        PROVE  client[v].stage \in {"attack", "stopping", "won"} /\ client[v].task = n.task
    <3>1. n \in calls' /\ TaskWorker(n.task) = v /\ n.at # "left" BY DEF CallsOf
    <3>2. PICK c \in calls : n.task = c.task /\ n.at = c.at BY <1>4, <3>1
    <3>3. c \in CallsOf(v) BY <3>1, <3>2 DEF CallsOf
    <3> QED BY <2>1, <3>2, <3>3 DEF Tended
  <2>3. client[v].stage = "won" => \E n \in CallsOf(v)' : n.at = "accepted"
    <3> SUFFICES ASSUME client[v].stage = "won" PROVE \E n \in CallsOf(v)' : n.at = "accepted"
      OBVIOUS
    <3>1. PICK c \in CallsOf(v) : c.at = "accepted" BY <2>1 DEF Tended
    <3>2. c \in calls /\ TaskWorker(c.task) = v BY DEF CallsOf
    <3>3. PICK n \in calls' : n.task = c.task /\ n.at = c.at BY <1>5, <3>2
    <3>4. n \in CallsOf(v)' BY <3>1, <3>2, <3>3 DEF CallsOf
    <3> QED BY <3>1, <3>3, <3>4
  <2> QED BY <1>2, <2>2, <2>3 DEF Tended
<1>7. ASSUME NEW r \in Run PROVE InHand(r)' \subseteq InHand(r)
  <2> SUFFICES ASSUME NEW s \in InHand(r)' PROVE s \in InHand(r) OBVIOUS
  <2>1. PICK n \in calls' : TaskRun(n.task) = r /\ n.at = "permit" /\ s = Slot(n)
    BY DEF InHand, Slot
  <2>2. PICK c \in calls : n.task = c.task /\ n.at = c.at /\ Slot(n) = Slot(c) BY <1>4
  <2> QED BY <2>1, <2>2 DEF InHand
<1> QED BY <1>6, <1>7

(* The registrar's last word is on an attempt its worker had given up.        *)
LEMMA EndTended ==
  ASSUME AttackInv, RegistrarEnds
  PROVE  /\ CreateInv' /\ ShapeInv' /\ \A v \in Worker : Tended(v)'
         /\ calls' \subseteq calls
<1>1. PICK c \in calls : c.at = "left" /\ calls' = calls \ {c} BY DEF RegistrarEnds
<1>2. /\ db' = db /\ outlived' = outlived /\ client' = client /\ window' = window
      /\ cycle' = cycle /\ registry' \in {registry, "ours"}
  BY DEF RegistrarEnds
<1>3. CreateInv /\ Good(db) /\ ShapeInv BY DEF AttackInv, CreateInv
<1>4. Keeps(db, db') BY <1>2, <1>3, KeepsSame
<1>5. CreateInv' BY <1>1, <1>2, <1>3, <1>4, FewerKeeps
<1>6. ShapeInv' BY <1>2, <1>3 DEF ShapeInv
<1>7. \A v \in Worker : CallsOf(v)' = CallsOf(v) BY <1>1 DEF CallsOf
<1>8. \A v \in Worker : Tended(v)' BY <1>2, <1>7 DEF AttackInv, Tended
<1> QED BY <1>1, <1>5, <1>6, <1>8

LEMMA InHandShrinks ==
  ASSUME calls' \subseteq calls, NEW r
  PROVE  InHand(r)' \subseteq InHand(r)
BY DEF InHand, Slot

-----------------------------------------------------------------------------
(* The invariant of the attack                                                *)

LEMMA InHandFinite ==
  ASSUME CreateInv, NEW r \in Run
  PROVE  InHand(r) \subseteq Held(r) /\ IsFiniteSet(InHand(r))
         /\ Cardinality(InHand(r)) \in Nat
<1>1. InHand(r) \subseteq Held(r) BY DEF InHand, Held, CallsIn
<1>2. IsFiniteSet(Held(r)) BY DEF CreateInv, LimitInv
<1>3. IsFiniteSet(InHand(r)) BY <1>1, <1>2, FS_Subset
<1> QED BY <1>1, <1>3, FS_CardinalityType

(* After the win of a run no permit comes to those in hand.                   *)
LEMMA StopKeeps ==
  ASSUME CreateInv, CreateInv', \A r \in Run : outlived[r] <= outlived'[r],
         \A r \in Run : db'.run[r].accepted =>
           InHand(r)' \subseteq InHand(r) /\ Cardinality(InHand(r)) < MaxInFlight + outlived[r]
  PROVE  StopInv'
<1> SUFFICES ASSUME NEW r \in Run, db'.run[r].accepted
             PROVE  Cardinality(InHand(r)') < MaxInFlight + outlived'[r]
  BY DEF StopInv
<1>1. InHand(r)' \subseteq InHand(r) /\ Cardinality(InHand(r)) < MaxInFlight + outlived[r] OBVIOUS
<1>2. IsFiniteSet(InHand(r)) /\ Cardinality(InHand(r)) \in Nat BY InHandFinite
<1>3. /\ Cardinality(InHand(r)') <= Cardinality(InHand(r)) /\ Cardinality(InHand(r)') \in Nat
  BY <1>1, <1>2, FS_Subset, FS_CardinalityType
<1>4. PICK a \in Nat : a = Cardinality(InHand(r)') BY <1>3
<1>5. PICK b \in Nat : b = Cardinality(InHand(r)) BY <1>2
<1>6. PICK m \in Nat : m = MaxInFlight BY AttackAssumption
<1>7. PICK x \in Nat : x = outlived[r] BY DEF CreateInv
<1>8. PICK y \in Nat : y = outlived'[r] BY DEF CreateInv
<1>9. a <= b /\ b < m + x /\ x <= y BY <1>1, <1>3, <1>4, <1>5, <1>6, <1>7, <1>8
<1>10. a < m + y
  BY ONLY <1>9, a \in Nat, b \in Nat, m \in Nat, x \in Nat, y \in Nat
<1> QED BY <1>4, <1>6, <1>8, <1>10

(* The same for a step that neither stores a win nor hands out a permit.      *)
LEMMA StopSame ==
  ASSUME AttackInv, CreateInv', \A r \in Run : outlived[r] <= outlived'[r],
         \A r \in Run : db'.run[r].accepted => db.run[r].accepted,
         \A r \in Run : InHand(r)' \subseteq InHand(r)
  PROVE  StopInv'
<1>1. CreateInv /\ StopInv BY DEF AttackInv
<1>2. \A r \in Run : db'.run[r].accepted =>
        InHand(r)' \subseteq InHand(r) /\ Cardinality(InHand(r)) < MaxInFlight + outlived[r]
  BY <1>1 DEF StopInv
<1> QED BY <1>1, <1>2, StopKeeps

(* The winner's attempt counts among the run's, and is not in hand.           *)
LEMMA WinnerCounts ==
  ASSUME AttackInv, NEW w \in Worker, client[w].stage = "won"
  PROVE  Cardinality(InHand(TaskRun(client[w].task)))
           < MaxInFlight + outlived[TaskRun(client[w].task)]
<1>1. CreateInv /\ SlotInv /\ calls \subseteq Call BY DEF AttackInv, CreateInv
<1>2. PICK c \in CallsOf(w) : c.at = "accepted" /\ client[w].task = c.task
  BY DEF AttackInv, Tended
<1>3. c \in calls BY DEF CallsOf
<1>4. PICK r \in Run : r = TaskRun(c.task) BY <1>1, <1>3, CallRun
<1>5. Slot(c) \in Held(r) BY <1>3, <1>4 DEF Held, CallsIn
<1>6. Slot(c) \notin InHand(r)
  <2> SUFFICES ASSUME Slot(c) \in InHand(r) PROVE FALSE OBVIOUS
  <2>1. PICK e \in calls : e.at = "permit" /\ Slot(e) = Slot(c) BY DEF InHand
  <2>2. e = c BY <1>1, <1>3, <2>1 DEF SlotInv
  <2> QED BY <1>2, <2>1, <2>2
<1>7. InHand(r) \subseteq Held(r) /\ Cardinality(InHand(r)) \in Nat BY <1>1, InHandFinite
<1>8. IsFiniteSet(Held(r)) /\ Cardinality(Held(r)) <= MaxInFlight + outlived[r]
  BY <1>1 DEF CreateInv, LimitInv
<1>9. Cardinality(Held(r)) \in Nat BY <1>8, FS_CardinalityType
<1>10. /\ Cardinality(InHand(r)) <= Cardinality(Held(r))
       /\ Cardinality(InHand(r)) # Cardinality(Held(r))
  <2>1. InHand(r) \in SUBSET Held(r) /\ Held(r) # InHand(r) BY <1>5, <1>6, <1>7
  <2> QED BY <1>8, <2>1, FS_Subset
<1>11. PICK a \in Nat : a = Cardinality(InHand(r)) BY <1>7
<1>12. PICK b \in Nat : b = Cardinality(Held(r)) BY <1>9
<1>13. PICK m \in Nat : m = MaxInFlight + outlived[r] BY <1>1, LimitIsNat
<1>14. a < m BY <1>8, <1>10, <1>11, <1>12, <1>13
<1> QED BY <1>2, <1>4, <1>11, <1>13, <1>14

(* What a worker has in hand after a win it had before it.                    *)
LEMMA ClientStops ==
  ASSUME AttackInv, NEW w \in Worker, ClientStep(w)
  PROVE  /\ StopInv'
         /\ \A r \in Run : db.run[r].accepted => InHand(r)' \subseteq InHand(r)
<1>1. CreateInv /\ StopInv /\ outlived \in [Run -> Nat] BY DEF AttackInv, CreateInv
<1>2. /\ CreateInv' /\ outlived' = outlived
      /\ \A r \in Run : ~db.run[r].accepted /\ db'.run[r].accepted
           => client[w].stage = "won" /\ r = TaskRun(client[w].task) /\ calls' \subseteq calls
  BY ClientCreates
<1>3. PICK A, N : Step(w, A, N) BY ClientCalls
<1>4. ASSUME NEW r \in Run, db.run[r].accepted PROVE InHand(r)' \subseteq InHand(r)
  <2> SUFFICES ASSUME NEW s \in InHand(r)' PROVE s \in InHand(r) OBVIOUS
  <2>1. PICK n \in calls' : TaskRun(n.task) = r /\ n.at = "permit" /\ s = Slot(n)
    BY DEF InHand, Slot
  <2>2. n \notin N BY <1>4, <2>1, <1>3 DEF Step
  <2>3. n \in calls BY <2>2, <1>3 DEF Step
  <2> QED BY <2>1, <2>3 DEF InHand
<1>5. \A r \in Run : outlived[r] <= outlived'[r]
  <2>1. \A r \in Run : outlived[r] \in Nat BY <1>1
  <2> QED BY <1>2, <2>1
<1>6. ASSUME NEW r \in Run, db'.run[r].accepted
      PROVE  InHand(r)' \subseteq InHand(r) /\ Cardinality(InHand(r)) < MaxInFlight + outlived[r]
  <2>1. CASE db.run[r].accepted BY <1>1, <1>4, <2>1 DEF StopInv
  <2>2. CASE ~db.run[r].accepted
    <3>1. client[w].stage = "won" /\ r = TaskRun(client[w].task) /\ calls' \subseteq calls
      BY <1>2, <1>6, <2>2
    <3> QED BY <3>1, InHandShrinks, WinnerCounts
  <2> QED BY <2>1, <2>2
<1>7. StopInv' BY <1>1, <1>2, <1>5, <1>6, StopKeeps
<1> QED BY <1>4, <1>7

LEMMA InitAttackInv == AttackInit => AttackInv
<1> SUFFICES ASSUME AttackInit PROVE AttackInv OBVIOUS
<1>1. Good(db) /\ \A r \in Run : db.run[r].accepted = FALSE
  <2>1. [NewRun(FALSE) EXCEPT !.status = "none"] \in RunRow BY DEF NewRun, RunRow
  <2>2. \A r \in Run : [NewRun(FALSE) EXCEPT !.status = "none"].accepted = FALSE BY DEF NewRun
  <2>3. "none" \in TaskStatus BY DEF TaskStatus
  <2>4. [status |-> "ready", enabled |-> TRUE, auto |-> TRUE, won |-> FALSE] \in DomainRow
    BY DEF DomainRow, Eligible
  <2>5. db.run = [r \in Run |-> [NewRun(FALSE) EXCEPT !.status = "none"]] BY DEF AttackInit
  <2>6. db \in DbRows BY <2>1, <2>3, <2>4 DEF AttackInit, DbRows
  <2> QED BY <2>2, <2>5, <2>6 DEF Good
<1>2. calls = {} /\ db.leases = {} /\ outlived = [r \in Run |-> 0] BY DEF AttackInit
<1>3. IsFiniteSet({}) /\ Cardinality({}) = 0 BY FS_EmptySet
<1>4. MaxInFlight \in Nat /\ MaxInFlight > 0 BY AttackAssumption
<1>5. LeaseInv
  <2>1. \A r \in Run : LeasesOf(r) = {} BY <1>2 DEF LeasesOf
  <2> QED BY <1>2, <1>3, <1>4, <2>1 DEF LeaseInv
<1>6. \A r \in Run : Held(r) = {} /\ Loose(r) = {} BY <1>2 DEF Held, CallsIn, Loose
<1>7. SlotInv BY <1>2 DEF SlotInv
<1>8. LooseInv BY <1>2, <1>3, <1>6 DEF LooseInv
<1>9. LimitInv BY <1>2, <1>3, <1>4, <1>6 DEF LimitInv
<1>10. CreateInv BY <1>1, <1>2, <1>5, <1>7, <1>8, <1>9 DEF CreateInv
<1>11. Idle \in ClientRows /\ Idle.stage = "idle" BY DEF Idle, NoSeen, ClientRows, Stages
<1>12. client = [w \in Worker |-> Idle] BY DEF AttackInit
<1>13. ShapeInv
  <2>1. Rest \in [todo: SUBSET Run, pick: BOOLEAN] BY DEF Rest
  <2> QED BY <1>11, <1>12, <2>1 DEF AttackInit, ShapeInv, Own
<1>14. StopInv BY <1>1 DEF StopInv
<1>15. \A w \in Worker : Tended(w) BY <1>2, <1>11, <1>12 DEF Tended, CallsOf
<1> QED BY <1>10, <1>13, <1>14, <1>15 DEF AttackInv

(* A step that writes rows only, and stores no win.                           *)
LEMMA RowsOnly ==
  ASSUME AttackInv, Keeps(db, db'), UNCHANGED <<calls, outlived, client>>,
         window' \in {"before", "open", "after"}, registry' \in {"free", "ours", "other"},
         cycle' \in [todo: SUBSET Run, pick: BOOLEAN]
  PROVE  AttackInv'
<1>1. CreateInv /\ ShapeInv /\ calls' \subseteq calls /\ outlived' = outlived BY DEF AttackInv
<1>2. CreateInv' BY <1>1, FewerKeeps
<1>3. ShapeInv' BY <1>1 DEF ShapeInv
<1>4. \A r \in Run : InHand(r)' \subseteq InHand(r) BY InHandShrinks
<1>5. \A r \in Run : outlived[r] <= outlived'[r]
  <2>1. \A r \in Run : outlived[r] \in Nat BY <1>1, LimitIsNat
  <2> QED BY <2>1
<1>6. StopInv' BY <1>2, <1>4, <1>5, StopSame DEF Keeps
<1>7. \A w \in Worker : Tended(w)' BY DEF AttackInv, Tended, CallsOf
<1> QED BY <1>2, <1>3, <1>6, <1>7 DEF AttackInv

LEMMA NextAttackInv == AttackInv /\ [AttackNext]_attackVars => AttackInv'
<1> SUFFICES ASSUME AttackInv, [AttackNext]_attackVars PROVE AttackInv' OBVIOUS
<1>1. /\ ShapeInv /\ CreateInv /\ Good(db) /\ Keeps(db, db)
      /\ \A r \in Run : outlived[r] \in Nat
  BY KeepsSame, LimitIsNat DEF AttackInv, CreateInv
<1>2. /\ window \in {"before", "open", "after"} /\ registry \in {"free", "ours", "other"}
      /\ cycle \in [todo: SUBSET Run, pick: BOOLEAN]
  BY <1>1 DEF ShapeInv
<1>3. CASE CycleStep
  <2>1. UNCHANGED <<window, registry, calls, outlived, client>>
    BY <1>3 DEF CycleStep, CycleBegin, CycleJudge, CyclePlan
  <2>2. Keeps(db, db') /\ cycle' \in [todo: SUBSET Run, pick: BOOLEAN]
    BY <1>1, <1>2, <1>3, CycleStepKeeps
  <2> QED BY <1>2, <2>1, <2>2, RowsOnly
<1>4. CASE PanelStep
  <2>1. Keeps(db, db') /\ UNCHANGED <<window, registry, calls, outlived, client, cycle>>
    BY <1>1, <1>4, PanelStepKeeps
  <2> QED BY <1>2, <2>1, RowsOnly
<1>5. CASE LeaseEnds
  <2>1. CreateInv' /\ db'.run = db.run BY <1>1, <1>5, LeaseEndsKeeps
  <2>2. /\ UNCHANGED <<window, registry, client, cycle>>
        /\ \/ outlived' = outlived
           \/ \E t \in Task : outlived' = [outlived EXCEPT ![TaskRun(t)] = @ + 1]
    BY <1>5 DEF LeaseEnds
  <2>3. ShapeInv' BY <1>1, <2>2 DEF ShapeInv
  <2>4. (\A w \in Worker : Tended(w)') /\ \A r \in Run : InHand(r)' \subseteq InHand(r)
    BY <1>5, LateTended
  <2>5. \A r \in Run : outlived[r] <= outlived'[r]
    <3>1. outlived \in [Run -> Nat] BY <1>1 DEF CreateInv
    <3>2. CASE outlived' = outlived BY <1>1, <3>2
    <3>3. CASE \E t \in Task : outlived' = [outlived EXCEPT ![TaskRun(t)] = @ + 1]
      <4>1. PICK x : outlived' = [outlived EXCEPT ![x] = @ + 1] BY <3>3
      <4>2. ASSUME NEW r \in Run PROVE outlived[r] <= outlived'[r]
        <5>1. PICK a \in Nat : a = outlived[r] BY <1>1
        <5>2. outlived'[r] = a \/ outlived'[r] = a + 1 BY <3>1, <4>1, <5>1
        <5> QED BY <5>1, <5>2
      <4> QED BY <4>2
    <3> QED BY <2>2, <3>2, <3>3
  <2>6. StopInv' BY <2>1, <2>4, <2>5, StopSame
  <2> QED BY <2>1, <2>3, <2>4, <2>6 DEF AttackInv
<1>6. CASE RegistrarEnds
  <2>1. CreateInv' /\ ShapeInv' /\ (\A v \in Worker : Tended(v)') /\ calls' \subseteq calls
    BY <1>6, EndTended
  <2>2. db' = db /\ outlived' = outlived BY <1>6 DEF RegistrarEnds
  <2>3. \A r \in Run : InHand(r)' \subseteq InHand(r) BY <2>1, InHandShrinks
  <2>4. \A r \in Run : outlived[r] <= outlived'[r] BY <1>1, <2>2
  <2>5. StopInv' BY <2>1, <2>2, <2>3, <2>4, StopSame
  <2> QED BY <2>1, <2>5 DEF AttackInv
<1>7. CASE WindowTurns
  <2>1. Keeps(db, db') BY <1>1, <1>7, WindowTurnsKeeps
  <2>2. window' \in {"before", "open", "after"} /\ UNCHANGED <<registry, calls, outlived, client, cycle>>
    BY <1>7 DEF WindowTurns
  <2> QED BY <1>2, <2>1, <2>2, RowsOnly
<1>8. CASE QuickEnds
  <2>1. Keeps(db, db') BY <1>1, <1>8, QuickEndsKeeps
  <2>2. UNCHANGED <<window, registry, calls, outlived, client, cycle>> BY <1>8 DEF QuickEnds
  <2> QED BY <1>2, <2>1, <2>2, RowsOnly
<1>9. CASE Competitor
  <2>1. registry' = "other" /\ UNCHANGED <<window, db, calls, outlived, client, cycle>>
    BY <1>9 DEF Competitor
  <2> QED BY <1>1, <1>2, <2>1, RowsOnly
<1>10. CASE \E w \in Worker : ClientStep(w)
  <2>1. PICK w \in Worker : ClientStep(w) BY <1>10
  <2>2. CreateInv' BY <2>1, ClientCreates
  <2>3. ShapeInv' BY <1>1, <2>1, ClientShape
  <2>4. StopInv' BY <2>1, ClientStops
  <2>5. \A v \in Worker : Tended(v)' BY <2>1, OthersTended
  <2> QED BY <2>2, <2>3, <2>4, <2>5 DEF AttackInv
<1>11. CASE UNCHANGED attackVars
  <2>1. UNCHANGED <<window, registry, db, calls, outlived, client, cycle>> BY <1>11 DEF attackVars
  <2> QED BY <1>1, <1>2, <2>1, RowsOnly
<1> QED BY <1>3, <1>4, <1>5, <1>6, <1>7, <1>8, <1>9, <1>10, <1>11 DEF AttackNext

(* Whatever the cycle, the panel and the workers write over each other's      *)
(* rows: a task has one lease at most, an attempt without one has outlived    *)
(* its own or belongs to a run whose win is stored, what a run has under way  *)
(* stays within the limit and those, and the attempt that won is one of them. *)
THEOREM AttackInductiveInvariant == AttackSpec => []AttackInv
<1>1. AttackInit => AttackInv BY InitAttackInv
<1>2. AttackInv /\ [AttackNext]_attackVars => AttackInv' BY NextAttackInv
<1> QED BY <1>1, <1>2, PTL DEF AttackSpec

(* The rows, the leases, the attempts and the cycle keep their shape.         *)
THEOREM AttackTypeCorrectness == AttackSpec => []AttackTypeOK
<1>1. AttackInv => AttackTypeOK
  <2> SUFFICES ASSUME AttackInv PROVE AttackTypeOK OBVIOUS
  <2>1. /\ window \in {"before", "open", "after"} /\ registry \in {"free", "ours", "other"}
        /\ cycle.todo \subseteq Run
    BY DEF AttackInv, ShapeInv
  <2>2. /\ db.domain \in DomainRow /\ db.run \in [Run -> RunRow] /\ db.task \in [Task -> TaskStatus]
        /\ db.leases \subseteq Lease /\ db.health \in [Worker -> {"up", "offline"}]
    BY DEF AttackInv, CreateInv, Good, DbRows
  <2>3. calls \subseteq Call /\ outlived \in [Run -> Nat] BY DEF AttackInv, CreateInv
  <2> QED BY <2>1, <2>2, <2>3 DEF AttackTypeOK
<1> QED BY <1>1, AttackInductiveInvariant, PTL

(* LIVE_CREATE_MAX_IN_FLIGHT_PER_RUN holds for the attempts themselves, from  *)
(* the permit until the registrar is done with them, not only for the leases  *)
(* acquire_create_permit counts; an attempt that outlives its lease costs one *)
(* more at most.                                                              *)
THEOREM CallsStayWithinLimit == AttackSpec => []CallsWithinLimit
<1>1. AttackInv => CallsWithinLimit
  <2> SUFFICES ASSUME AttackInv, NEW r \in Run
               PROVE  Cardinality(CallsIn(r)) <= MaxInFlight + outlived[r]
    BY DEF CallsWithinLimit, CallsIn
  <2>1. CreateInv /\ SlotInv BY DEF AttackInv, CreateInv
  <2>2. IsFiniteSet(Held(r)) /\ Cardinality(Held(r)) <= MaxInFlight + outlived[r]
    BY <2>1 DEF CreateInv, LimitInv
  <2>3. PICK f : f = [c \in CallsIn(r) |-> Slot(c)] OBVIOUS
  <2>4. f \in Injection(CallsIn(r), Held(r))
    <3>1. f \in [CallsIn(r) -> Held(r)] BY <2>3 DEF Held
    <3>2. \A c, e \in CallsIn(r) : f[c] = f[e] => c = e BY <2>1, <2>3 DEF SlotInv, CallsIn
    <3> QED BY <3>1, <3>2 DEF Injection, IsInjective
  <2>5. IsFiniteSet(CallsIn(r)) /\ Cardinality(CallsIn(r)) <= Cardinality(Held(r))
    BY <2>2, <2>4, FS_Injection
  <2>6. PICK a \in Nat : a = Cardinality(CallsIn(r)) BY <2>5, FS_CardinalityType
  <2>7. PICK b \in Nat : b = Cardinality(Held(r)) BY <2>2, FS_CardinalityType
  <2>8. PICK m \in Nat : m = MaxInFlight + outlived[r] BY <2>1, LimitIsNat
  <2>9. a <= b /\ b <= m BY <2>2, <2>5, <2>6, <2>7, <2>8
  <2>10. a <= m BY ONLY <2>9, a \in Nat, b \in Nat, m \in Nat
  <2> QED BY <2>6, <2>8, <2>10
<1> QED BY <1>1, AttackInductiveInvariant, PTL

(* A permit is refused for a run whose win is stored, whatever its status     *)
(* says by then.                                                              *)
LEMMA NoneHandedOut ==
  ASSUME AttackInv, [AttackNext]_attackVars, NEW r \in Run, db.run[r].accepted
  PROVE  InHand(r)' \subseteq InHand(r)
<1>1. CASE LeaseEnds BY <1>1, LateTended
<1>2. CASE RegistrarEnds BY <1>2, EndTended, InHandShrinks
<1>3. CASE \E w \in Worker : ClientStep(w) BY <1>3, ClientStops
<1>4. CASE ~LeaseEnds /\ ~RegistrarEnds /\ ~\E w \in Worker : ClientStep(w)
  <2>1. calls' = calls
    BY <1>4 DEF AttackNext, attackVars, CycleStep, CycleBegin, CycleJudge, CyclePlan, PanelStep,
       StartAttacks, SimulateRegistration, StopAttacks, RebalanceAttacks, UpdateDomain, Panel,
       WindowTurns, QuickEnds, Competitor
  <2> QED BY <2>1, InHandShrinks
<1> QED BY <1>1, <1>2, <1>3, <1>4

(* Once the win of a run is stored no permit is handed out any more, and what *)
(* can still be sent on those handed out before is fewer than the limit, and  *)
(* the attempts that outlived their lease.                                    *)
THEOREM CreatesStopAfterWin == AttackSpec => CreatesStop
<1>1. AttackInv /\ [AttackNext]_attackVars
      => \A r \in Run : db.run[r].accepted =>
           /\ InHand(r)' \subseteq InHand(r)
           /\ Cardinality(InHand(r)) < MaxInFlight + outlived[r]
  BY NoneHandedOut DEF AttackInv, StopInv
<1> QED BY <1>1, AttackInductiveInvariant, PTL DEF AttackSpec, CreatesStop

LEMMA WinsStay ==
  ASSUME AttackInv, [AttackNext]_attackVars, NEW r \in Run, db.run[r].accepted
  PROVE  db'.run[r].accepted
<1>1. Good(db) /\ CreateInv BY DEF AttackInv, CreateInv
<1>2. db'.run = db.run => db'.run[r].accepted OBVIOUS
<1>3. Keeps(db, db') => db'.run[r].accepted BY DEF Keeps
<1>4. CASE CycleStep
  <2>1. cycle \in [todo: SUBSET Run, pick: BOOLEAN] BY DEF AttackInv, ShapeInv
  <2> QED BY <1>1, <1>3, <1>4, <2>1, CycleStepKeeps
<1>5. CASE PanelStep BY <1>1, <1>3, <1>5, PanelStepKeeps
<1>6. CASE LeaseEnds BY <1>1, <1>2, <1>6, LeaseEndsKeeps
<1>7. CASE WindowTurns BY <1>1, <1>3, <1>7, WindowTurnsKeeps
<1>8. CASE QuickEnds BY <1>1, <1>3, <1>8, QuickEndsKeeps
<1>9. CASE \E w \in Worker : ClientStep(w) BY <1>9, ClientCreates
<1>10. CASE Competitor BY <1>2, <1>10 DEF Competitor
<1>11. CASE RegistrarEnds BY <1>2, <1>11 DEF RegistrarEnds
<1>12. CASE UNCHANGED attackVars BY <1>2, <1>12 DEF attackVars
<1> QED BY <1>4, <1>5, <1>6, <1>7, <1>8, <1>9, <1>10, <1>11, <1>12 DEF AttackNext

(* A win report_task_result stored stays stored: no acknowledgement, verdict, *)
(* new plan or panel request takes it back.                                   *)
THEOREM StoredWinsStay ==
  AttackSpec => [][\A r \in Run : db.run[r].accepted => db'.run[r].accepted]_attackVars
<1>1. AttackInv /\ [AttackNext]_attackVars
      => \A r \in Run : db.run[r].accepted => db'.run[r].accepted
  BY WinsStay
<1> QED BY <1>1, AttackInductiveInvariant, PTL DEF AttackSpec

-----------------------------------------------------------------------------
(* Sums                                                                       *)

(* Induction over the subsets of a finite set, with the set G of those for    *)
(* which the claim holds: a smallest subset outside of it cannot exist.       *)
LEMMA SubsetInduction ==
  ASSUME NEW S, IsFiniteSet(S), NEW G, {} \in G,
         \A T \in SUBSET S : T # {} /\ (\A x \in T : T \ {x} \in G) => T \in G
  PROVE  \A T \in SUBSET S : T \in G
<1> SUFFICES ASSUME NEW U \in SUBSET S, U \notin G PROVE FALSE OBVIOUS
<1> DEFINE N == {n \in Nat : \E T \in SUBSET S : T \notin G /\ Cardinality(T) = n}
<1>1. \A T \in SUBSET S : IsFiniteSet(T) /\ Cardinality(T) \in Nat
  BY FS_Subset, FS_CardinalityType
<1>2. N \in SUBSET Nat /\ N # {} BY <1>1
<1>3. PICK n \in N : \A m \in N : n <= m
  <2> HIDE DEF N
  <2> QED BY <1>2, LeastExists
<1>4. PICK T \in SUBSET S : T \notin G /\ Cardinality(T) = n OBVIOUS
<1>5. PICK x \in T : T \ {x} \notin G BY <1>4
<1>6. Cardinality(T \ {x}) = n - 1 BY <1>1, <1>4, <1>5, FS_RemoveElement
<1>7. n - 1 \in N BY <1>1, <1>4, <1>5, <1>6
<1> QED BY <1>3, <1>7

(* Sums over finite sets, from their recursive definition.                    *)
Numeric(f, S) == IsFiniteSet(S) /\ \A x \in S : f[x] \in Int
Some(T) == CHOOSE x \in T : TRUE
Added(f, g, T) == IF T = {} THEN 0 ELSE f[Some(T)] + g[T \ {Some(T)}]
Partial(f, S) == CHOOSE g : g = [T \in SUBSET S |-> Added(f, g, T)]

LEMMA SumIsPartial ==
  ASSUME NEW f, NEW S
  PROVE  SumFunctionOnSet(f, S) = Partial(f, S)[S]
BY DEF SumFunctionOnSet, FoldFunctionOnSet, MapThenFoldSet, Partial, Added, Some

(* The sums of all subsets in one function: it exists by induction over the   *)
(* number of elements, and is the only one by induction over the subsets.     *)
LEMMA PartialSums ==
  ASSUME NEW f, NEW S, Numeric(f, S)
  PROVE  /\ Partial(f, S) \in [SUBSET S -> Int]
         /\ \A T \in SUBSET S : Partial(f, S)[T] = Added(f, Partial(f, S), T)
<1>1. \A T \in SUBSET S : /\ IsFiniteSet(T) /\ Cardinality(T) \in Nat
                          /\ T # {} => Some(T) \in T
                          /\ T = {} <=> Cardinality(T) = 0
                          /\ \A x \in T : Cardinality(T \ {x}) = Cardinality(T) - 1
  BY FS_Subset, FS_CardinalityType, FS_EmptySet, FS_RemoveElement DEF Some, Numeric
<1> DEFINE Agrees(g, n) == /\ g \in [SUBSET S -> Int]
                           /\ \A T \in SUBSET S : Cardinality(T) <= n => g[T] = Added(f, g, T)
           N == {n \in Nat : ~ \E g : Agrees(g, n)}
<1>2. \E g : Agrees(g, 0)
  <2> DEFINE z == [T \in SUBSET S |-> 0]
  <2>1. \A T \in SUBSET S : Cardinality(T) <= 0 => T = {} BY <1>1
  <2>2. Agrees(z, 0) BY <2>1 DEF Added
  <2> QED BY <2>2
<1>3. ASSUME NEW n \in Nat, NEW g, Agrees(g, n) PROVE \E h : Agrees(h, n + 1)
  <2> DEFINE h == [T \in SUBSET S |-> Added(f, g, T)]
  <2>1. \A T \in SUBSET S :
          T # {} => Some(T) \in T /\ f[Some(T)] \in Int /\ T \ {Some(T)} \in SUBSET S
    BY <1>1 DEF Numeric
  <2>2. h \in [SUBSET S -> Int] BY <1>3, <2>1 DEF Added
  <2>3. \A T \in SUBSET S : Cardinality(T) <= n => h[T] = g[T] BY <1>3
  <2>4. ASSUME NEW T \in SUBSET S, Cardinality(T) <= n + 1 PROVE h[T] = Added(f, h, T)
    <3>1. CASE T = {} BY <3>1 DEF Added
    <3>2. CASE T # {}
      <4>1. Cardinality(T \ {Some(T)}) <= n BY <1>1, <2>1, <2>4, <3>2
      <4>2. h[T \ {Some(T)}] = g[T \ {Some(T)}] BY <2>1, <2>3, <3>2, <4>1
      <4> QED BY <3>2, <4>2 DEF Added
    <3> QED BY <3>1, <3>2
  <2> QED BY <2>2, <2>4
<1>4. N = {}
  <2> SUFFICES ASSUME N # {} PROVE FALSE OBVIOUS
  <2>1. PICK n \in N : \A m \in N : n <= m
    <3>1. N \in SUBSET Nat OBVIOUS
    <3> HIDE DEF N
    <3> QED BY <3>1, LeastExists
  <2>2. n # 0
    <3> SUFFICES ASSUME n = 0 PROVE FALSE OBVIOUS
    <3>1. PICK g : Agrees(g, 0) BY <1>2
    <3>2. Agrees(g, n) BY <3>1
    <3>3. ~ \E h : Agrees(h, n) OBVIOUS
    <3> HIDE DEF Agrees, N
    <3> QED BY <3>2, <3>3
  <2>3. n - 1 \in Nat /\ n - 1 \notin N
    <3>1. n \in Nat OBVIOUS
    <3> HIDE DEF N
    <3> QED BY <2>1, <2>2, <3>1
  <2>4. PICK g : Agrees(g, n - 1) BY <2>3
  <2>5. \E h : Agrees(h, n - 1 + 1)
    <3>1. n - 1 \in Nat BY <2>3
    <3> HIDE DEF Agrees, N
    <3> QED BY <1>3, <2>4, <3>1
  <2>6. n - 1 + 1 = n OBVIOUS
  <2> QED BY <2>5, <2>6
<1>5. PICK g : Agrees(g, Cardinality(S)) BY <1>1, <1>4
<1>6. \A T \in SUBSET S : Cardinality(T) <= Cardinality(S)
  BY FS_Subset DEF Numeric
<1>7. g = [T \in SUBSET S |-> Added(f, g, T)] BY <1>5, <1>6
<1>8. Partial(f, S) = [T \in SUBSET S |-> Added(f, Partial(f, S), T)] BY <1>7 DEF Partial
<1>9. ASSUME NEW T \in SUBSET S PROVE Partial(f, S)[T] = g[T]
  <2> DEFINE G == {U \in SUBSET S : Partial(f, S)[U] = g[U]}
  <2>1. {} \in G BY <1>7, <1>8 DEF Added
  <2>2. ASSUME NEW U \in SUBSET S, U # {}, \A x \in U : U \ {x} \in G PROVE U \in G
    <3>1. Some(U) \in U BY <1>1, <2>2
    <3>2. U \ {Some(U)} \in G BY <2>2, <3>1
    <3>3. Partial(f, S)[U] = f[Some(U)] + Partial(f, S)[U \ {Some(U)}] BY <1>8, <2>2 DEF Added
    <3>4. g[U] = f[Some(U)] + g[U \ {Some(U)}] BY <1>7, <2>2 DEF Added
    <3> QED BY <3>2, <3>3, <3>4
  <2> HIDE DEF G
  <2>3. \A U \in SUBSET S : U \in G BY <2>1, <2>2, SubsetInduction DEF Numeric
  <2> QED BY <2>3 DEF G
<1>10. Partial(f, S) \in [SUBSET S -> Int] BY <1>5, <1>8, <1>9
<1> QED BY <1>8, <1>10

(* A sum over a set is that of the set without any of its elements, and it.   *)
LEMMA SumEmpty ==
  ASSUME NEW f
  PROVE  SumFunctionOnSet(f, {}) = 0
<1>1. Numeric(f, {}) BY FS_EmptySet DEF Numeric
<1> QED BY <1>1, SumIsPartial, PartialSums DEF Added

(* The sum of a subset is the same taken by itself.                           *)
LEMMA PartialRestricts ==
  ASSUME NEW f, NEW S, Numeric(f, S), NEW R \in SUBSET S
  PROVE  Partial(f, S)[R] = SumFunctionOnSet(f, R)
<1> DEFINE g == Partial(f, S)
           h == Partial(f, R)
           G == {T \in SUBSET R : g[T] = h[T]}
<1>1. Numeric(f, R) BY FS_Subset DEF Numeric
<1>2. \A T \in SUBSET R : g[T] = Added(f, g, T) BY PartialSums
<1>3. \A T \in SUBSET R : h[T] = Added(f, h, T) BY <1>1, PartialSums
<1>4. {} \in G BY <1>2, <1>3 DEF Added
<1>5. ASSUME NEW T \in SUBSET R, T # {}, \A y \in T : T \ {y} \in G PROVE T \in G
  <2> HIDE DEF g, h
  <2>1. Some(T) \in T BY <1>5 DEF Some
  <2>2. T \ {Some(T)} \in G BY <1>5, <2>1
  <2> QED BY <1>2, <1>3, <1>5, <2>2 DEF Added
<1>6. IsFiniteSet(R) BY <1>1 DEF Numeric
<1>7. \A T \in SUBSET R : T \in G
  <2> HIDE DEF G
  <2> QED BY <1>4, <1>5, <1>6, SubsetInduction
<1>8. g[R] = h[R] BY <1>7
<1> QED BY <1>8, SumIsPartial

LEMMA SumRemove ==
  ASSUME NEW f, NEW S, Numeric(f, S), NEW x \in S
  PROVE  SumFunctionOnSet(f, S) = f[x] + SumFunctionOnSet(f, S \ {x})
<1> PICK g : g = Partial(f, S) OBVIOUS
<1>1. g \in [SUBSET S -> Int] /\ \A T \in SUBSET S : g[T] = Added(f, g, T) BY PartialSums
<1>2. \A T \in SUBSET S : T # {} => Some(T) \in T /\ f[Some(T)] \in Int BY DEF Some, Numeric
<1>3. ASSUME NEW U \in SUBSET S PROVE \A y \in U : g[U] = f[y] + g[U \ {y}]
  <2> DEFINE G == {T \in SUBSET S : \A y \in T : g[T] = f[y] + g[T \ {y}]}
  <2>1. {} \in G OBVIOUS
  <2>2. ASSUME NEW T \in SUBSET S, T # {}, \A y \in T : T \ {y} \in G PROVE T \in G
    <3> SUFFICES ASSUME NEW y \in T PROVE g[T] = f[y] + g[T \ {y}] OBVIOUS
    <3> PICK z : z = Some(T) OBVIOUS
    <3>1. z \in T /\ g[T] = f[z] + g[T \ {z}] BY <1>1, <1>2, <2>2 DEF Added
    <3>2. CASE y = z BY <3>1, <3>2
    <3>3. CASE y # z
      <4>1. T \ {z} \in G /\ T \ {y} \in G /\ y \in T \ {z} /\ z \in T \ {y} BY <2>2, <3>1, <3>3
      <4>2. g[T \ {z}] = f[y] + g[(T \ {z}) \ {y}] BY <4>1
      <4>3. g[T \ {y}] = f[z] + g[(T \ {y}) \ {z}] BY <4>1
      <4>4. (T \ {z}) \ {y} = (T \ {y}) \ {z} OBVIOUS
      <4>5. f[y] \in Int /\ f[z] \in Int /\ g[(T \ {y}) \ {z}] \in Int BY <1>1, <3>1 DEF Numeric
      <4>6. f[z] + (f[y] + g[(T \ {y}) \ {z}]) = f[y] + (f[z] + g[(T \ {y}) \ {z}]) BY <4>5
      <4> QED BY <3>1, <4>2, <4>3, <4>4, <4>6
    <3> QED BY <3>2, <3>3
  <2> HIDE DEF G
  <2>3. \A T \in SUBSET S : T \in G BY <2>1, <2>2, SubsetInduction DEF Numeric
  <2> QED BY <2>3 DEF G
<1>4. g[S] = f[x] + g[S \ {x}] BY <1>3
<1> QED BY <1>4, SumIsPartial, PartialRestricts

LEMMA SumType ==
  ASSUME NEW f, NEW S, Numeric(f, S)
  PROVE  SumFunctionOnSet(f, S) \in Int
<1>1. Partial(f, S) \in [SUBSET S -> Int] BY PartialSums
<1> QED BY <1>1, SumIsPartial

LEMMA SumWhole ==
  ASSUME NEW f
  PROVE  SumFunction(f) = SumFunctionOnSet(f, DOMAIN f)
BY DEF SumFunction

(* The sum of a linear combination is that of the sums.                       *)
LEMMA SumLinear ==
  ASSUME NEW S, NEW f, Numeric(f, S), NEW g, Numeric(g, S), NEW h, NEW a \in Int, NEW b \in Int,
         \A x \in S : h[x] = a * f[x] + b * g[x]
  PROVE  SumFunctionOnSet(h, S) = a * SumFunctionOnSet(f, S) + b * SumFunctionOnSet(g, S)
<1> DEFINE G == {T \in SUBSET S : SumFunctionOnSet(h, T)
                                   = a * SumFunctionOnSet(f, T) + b * SumFunctionOnSet(g, T)}
<1>1. ASSUME NEW T \in SUBSET S PROVE Numeric(f, T) /\ Numeric(g, T) /\ Numeric(h, T)
  BY FS_Subset DEF Numeric
<1>2. {} \in G BY SumEmpty
<1>3. ASSUME NEW T \in SUBSET S, T # {}, \A x \in T : T \ {x} \in G PROVE T \in G
  <2> PICK x \in T : TRUE BY <1>3
  <2> PICK F : F = SumFunctionOnSet(f, T \ {x}) OBVIOUS
  <2> PICK K : K = SumFunctionOnSet(g, T \ {x}) OBVIOUS
  <2>1. F \in Int /\ K \in Int /\ f[x] \in Int /\ g[x] \in Int
    BY <1>1, SumType DEF Numeric
  <2>2. /\ SumFunctionOnSet(f, T) = f[x] + F /\ SumFunctionOnSet(g, T) = g[x] + K
        /\ SumFunctionOnSet(h, T) = h[x] + SumFunctionOnSet(h, T \ {x})
    BY <1>1, SumRemove
  <2>3. SumFunctionOnSet(h, T \ {x}) = a * F + b * K BY <1>3
  <2>4. (a * f[x] + b * g[x]) + (a * F + b * K) = a * (f[x] + F) + b * (g[x] + K) BY <2>1
  <2>5. SumFunctionOnSet(h, T) = (a * f[x] + b * g[x]) + (a * F + b * K) BY <2>2, <2>3
  <2>6. SumFunctionOnSet(h, T) = a * SumFunctionOnSet(f, T) + b * SumFunctionOnSet(g, T)
    BY <2>2, <2>4, <2>5
  <2> QED BY <2>6
<1> HIDE DEF G
<1>4. \A T \in SUBSET S : T \in G BY <1>2, <1>3, SubsetInduction DEF Numeric
<1> QED BY <1>4 DEF G

(* Larger numbers have the larger sum.                                        *)
LEMMA SumMonotone ==
  ASSUME NEW S, NEW f, Numeric(f, S), NEW g, Numeric(g, S), \A x \in S : f[x] <= g[x]
  PROVE  SumFunctionOnSet(f, S) <= SumFunctionOnSet(g, S)
<1> DEFINE G == {T \in SUBSET S : SumFunctionOnSet(f, T) <= SumFunctionOnSet(g, T)}
<1>1. ASSUME NEW T \in SUBSET S PROVE Numeric(f, T) /\ Numeric(g, T)
  BY FS_Subset DEF Numeric
<1>2. {} \in G BY SumEmpty
<1>3. ASSUME NEW T \in SUBSET S, T # {}, \A x \in T : T \ {x} \in G PROVE T \in G
  <2> PICK x \in T : TRUE BY <1>3
  <2>1. /\ f[x] \in Int /\ g[x] \in Int /\ f[x] <= g[x]
        /\ SumFunctionOnSet(f, T \ {x}) \in Int /\ SumFunctionOnSet(g, T \ {x}) \in Int
    BY <1>1, SumType DEF Numeric
  <2>2. /\ SumFunctionOnSet(f, T) = f[x] + SumFunctionOnSet(f, T \ {x})
        /\ SumFunctionOnSet(g, T) = g[x] + SumFunctionOnSet(g, T \ {x})
    BY <1>1, SumRemove
  <2>3. SumFunctionOnSet(f, T \ {x}) <= SumFunctionOnSet(g, T \ {x}) BY <1>3
  <2>4. SumFunctionOnSet(f, T) <= SumFunctionOnSet(g, T) BY <2>1, <2>2, <2>3
  <2> QED BY <2>4
<1> HIDE DEF G
<1>4. \A T \in SUBSET S : T \in G BY <1>2, <1>3, SubsetInduction DEF Numeric
<1> QED BY <1>4 DEF G

(* A sum of equal numbers is a product.                                       *)
LEMMA SumConstant ==
  ASSUME NEW S, IsFiniteSet(S), NEW f, NEW c \in Int, \A x \in S : f[x] = c
  PROVE  SumFunctionOnSet(f, S) = c * Cardinality(S)
<1> DEFINE G == {T \in SUBSET S : SumFunctionOnSet(f, T) = c * Cardinality(T)}
<1>1. ASSUME NEW T \in SUBSET S PROVE Numeric(f, T) /\ IsFiniteSet(T)
  BY FS_Subset DEF Numeric
<1>2. {} \in G BY SumEmpty, FS_EmptySet
<1>3. ASSUME NEW T \in SUBSET S, T # {}, \A x \in T : T \ {x} \in G PROVE T \in G
  <2> PICK x \in T : TRUE BY <1>3
  <2> PICK k : k = Cardinality(T \ {x}) OBVIOUS
  <2>1. Cardinality(T) \in Nat /\ k = Cardinality(T) - 1
    BY <1>1, FS_RemoveElement, FS_CardinalityType
  <2>2. SumFunctionOnSet(f, T) = c + c * k BY <1>1, <1>3, SumRemove
  <2>3. c + c * k = c * (k + 1) /\ k + 1 = Cardinality(T)  BY <2>1
  <2>4. SumFunctionOnSet(f, T) = c * Cardinality(T) BY <2>2, <2>3
  <2> QED BY <2>4
<1> HIDE DEF G
<1>4. \A T \in SUBSET S : T \in G BY <1>2, <1>3, SubsetInduction
<1> QED BY <1>4 DEF G

(* What is zero outside of a set adds nothing, and what is not negative, what *)
(* it is.                                                                     *)
LEMMA SumWider ==
  ASSUME NEW S, NEW f, Numeric(f, S), NEW R \in SUBSET S, \A x \in S \ R : f[x] >= 0
  PROVE  /\ SumFunctionOnSet(f, R) <= SumFunctionOnSet(f, S)
         /\ (\A x \in S \ R : f[x] = 0) => SumFunctionOnSet(f, R) = SumFunctionOnSet(f, S)
<1> DEFINE Holds(T) ==
             /\ SumFunctionOnSet(f, T \cap R) <= SumFunctionOnSet(f, T)
             /\ (\A x \in S \ R : f[x] = 0)
                  => SumFunctionOnSet(f, T \cap R) = SumFunctionOnSet(f, T)
           G == {T \in SUBSET S : Holds(T)}
<1>1. ASSUME NEW T \in SUBSET S PROVE Numeric(f, T) BY FS_Subset DEF Numeric
<1>2. {} \in G
  <2>1. {} \cap R = {} OBVIOUS
  <2> QED BY <2>1, SumEmpty
<1>3. ASSUME NEW T \in SUBSET S, T # {}, \A x \in T : T \ {x} \in G PROVE T \in G
  <2> PICK x \in T : TRUE BY <1>3
  <2> PICK B : B = T \ {x} OBVIOUS
  <2>1. B \in SUBSET S /\ Holds(B) BY <1>3
  <2>2. f[x] \in Int /\ SumFunctionOnSet(f, B) \in Int /\ SumFunctionOnSet(f, B \cap R) \in Int
    BY <1>1, <2>1, SumType DEF Numeric
  <2>3. SumFunctionOnSet(f, T) = f[x] + SumFunctionOnSet(f, B) BY <1>1, SumRemove
  <2>4. CASE x \in R
    <3>1. (T \cap R) \ {x} = B \cap R OBVIOUS
    <3>2. SumFunctionOnSet(f, T \cap R) = f[x] + SumFunctionOnSet(f, B \cap R)
      BY <1>1, <2>4, <3>1, SumRemove
    <3>3. Holds(T) BY <2>1, <2>2, <2>3, <3>2
    <3> QED BY <3>3
  <2>5. CASE x \notin R
    <3>1. T \cap R = B \cap R /\ x \in S \ R /\ f[x] >= 0 BY <2>5
    <3>2. SumFunctionOnSet(f, T \cap R) = SumFunctionOnSet(f, B \cap R) BY <3>1
    <3>3. Holds(T) BY <2>1, <2>2, <2>3, <3>1, <3>2
    <3> QED BY <3>3
  <2> QED BY <2>4, <2>5
<1>4. \A T \in SUBSET S : T # {} /\ (\A x \in T : T \ {x} \in G) => T \in G BY <1>3
<1>5. S \in G
  <2> HIDE DEF G
  <2> QED BY <1>2, <1>4, SubsetInduction DEF Numeric
<1>6. S \cap R = R OBVIOUS
<1> QED BY <1>5, <1>6

(* Sums of numbers that are not negative, and of whole functions.             *)
LEMMA SumOver ==
  ASSUME NEW S, IsFiniteSet(S), NEW f \in [S -> Int]
  PROVE  SumFunction(f) = SumFunctionOnSet(f, S) /\ SumFunction(f) \in Int /\ Numeric(f, S)
<1>1. Numeric(f, S) BY DEF Numeric
<1>2. SumFunction(f) = SumFunctionOnSet(f, S) BY SumWhole
<1> QED BY <1>1, <1>2, SumType

LEMMA SumMember ==
  ASSUME NEW S, NEW f, Numeric(f, S), \A x \in S : f[x] >= 0, NEW x \in S
  PROVE  f[x] <= SumFunctionOnSet(f, S)
<1>1. {x} \in SUBSET S OBVIOUS
<1>2. SumFunctionOnSet(f, {x}) <= SumFunctionOnSet(f, S) BY <1>1, SumWider
<1>3. Numeric(f, {x}) BY FS_Singleton DEF Numeric
<1>4. SumFunctionOnSet(f, {x}) = f[x] + SumFunctionOnSet(f, {x} \ {x}) BY <1>3, SumRemove
<1>5. {x} \ {x} = {} OBVIOUS
<1>6. SumFunctionOnSet(f, {x} \ {x}) = 0 BY <1>5, SumEmpty
<1>7. f[x] \in Int BY DEF Numeric
<1> QED BY <1>2, <1>4, <1>6, <1>7

LEMMA SumNat ==
  ASSUME NEW S, NEW f, Numeric(f, S), \A x \in S : f[x] >= 0
  PROVE  SumFunctionOnSet(f, S) \in Nat
<1>1. {} \in SUBSET S OBVIOUS
<1>2. SumFunctionOnSet(f, {}) <= SumFunctionOnSet(f, S) BY <1>1, SumWider
<1> QED BY <1>2, SumEmpty, SumType

-----------------------------------------------------------------------------
(* The requests per second                                                    *)

(* What is left of a division is less than the divisor.                       *)
LEMMA Division ==
  ASSUME NEW a \in Nat, NEW b \in Nat \ {0}
  PROVE  /\ a \div b \in Nat
         /\ b * (a \div b) <= a /\ a < b * (a \div b) + b
         /\ a % b = 0 => b * (a \div b) = a
<1>1. a \div b \in Int OBVIOUS
<1>2. b * (a \div b) <= a OBVIOUS
<1>3. a < b * (a \div b) + b OBVIOUS
<1>4. a % b = 0 => b * (a \div b) = a OBVIOUS
<1>5. a \div b >= 0 OBVIOUS
<1> QED BY <1>1, <1>2, <1>3, <1>4, <1>5

(* A product grows with either of its factors.                                *)
LEMMA Products ==
  ASSUME NEW k \in Nat, NEW x \in Int, NEW y \in Int, x <= y
  PROVE  k * x <= k * y /\ x * k <= y * k
OBVIOUS

(* A share rounded up or down is within one half of it.                       *)
LEMMA Rounding ==
  ASSUME NEW x \in Nat \ {0}, NEW b \in Nat \ {0}, NEW d \in {0, 1}, d = 1 => x % b = 0,
         NEW s, s = x \div b - d
  PROVE  s \in Nat /\ b * s <= x /\ x <= b * s + b
<1> PICK q : q = x \div b OBVIOUS
<1>1. q \in Nat /\ b * q <= x /\ x < b * q + b /\ (x % b = 0 => b * q = x)
  BY Division
<1>2. CASE d = 0 BY <1>1, <1>2
<1>3. CASE d = 1
  <2>1. b * q = x BY <1>1, <1>3
  <2>2. q # 0 BY <2>1
  <2>3. s \in Nat /\ q = s + 1 BY <1>1, <1>3, <2>2
  <2>4. b * (s + 1) = b * s + b BY <2>3
  <2> QED BY <2>1, <2>3, <2>4
<1> QED BY <1>2, <1>3

(* What a name that may still get o is granted of r, for its weight w of W and *)
(* with d its share of a tie: no more than o or r, and within one half of its *)
(* share unless that rounds to nothing.                                       *)
Amount(o, r, w, W, d) ==
  LET s == (2 * r * w + W) \div (2 * W) - d
  IN  IF o * W <= r * w THEN o ELSE IF s = 0 THEN Least(o, r) ELSE s

LEMMA OneGrant ==
  ASSUME NEW o \in Nat \ {0}, NEW r \in Nat \ {0}, NEW w \in Nat \ {0}, NEW W \in Nat, w <= W,
         NEW d \in {0, 1}, d = 1 => (2 * r * w + W) % (2 * W) = 0,
         NEW g, g = Amount(o, r, w, W, d)
  PROVE  /\ g \in Nat /\ g <= o /\ g <= r
         /\ 2 * W * g <= 2 * r * w + W \/ 2 * r * w <= W
<1> PICK s : s = (2 * r * w + W) \div (2 * W) - d OBVIOUS
<1>0. g = IF o * W <= r * w THEN o ELSE IF s = 0 THEN Least(o, r) ELSE s BY DEF Amount
<1> PICK a : a = r * w OBVIOUS
<1>1. a \in Nat /\ 2 * r * w = 2 * a BY Z3
<1>2. a <= r * W BY Products
<1>3. s \in Nat /\ (2 * W) * s <= 2 * a + W /\ 2 * a + W <= (2 * W) * s + 2 * W
  <2> PICK x : x = 2 * a + W OBVIOUS
  <2> PICK b : b = 2 * W OBVIOUS
  <2>1. /\ x \in Nat \ {0} /\ b \in Nat \ {0} /\ s = x \div b - d /\ (d = 1 => x % b = 0)
    BY <1>1
  <2>2. s \in Nat /\ b * s <= x /\ x <= b * s + b BY <2>1, Rounding
  <2> QED BY <2>2
<1>6. ASSUME NEW m \in Nat, a <= m * W PROVE s <= m
  <2> SUFFICES ASSUME s >= m + 1 PROVE FALSE BY <1>3
  <2>1. (2 * W) * (m + 1) <= (2 * W) * s BY <1>3, Products
  <2>2. (2 * W) * (m + 1) = 2 * (m * W) + 2 * W OBVIOUS
  <2> QED BY <1>1, <1>3, <1>6, <2>1, <2>2
<1>7. CASE o * W <= a
  <2>1. g = o BY <1>0, <1>1, <1>7
  <2>2. o <= r
    <3> SUFFICES ASSUME o >= r + 1 PROVE FALSE OBVIOUS
    <3>1. (r + 1) * W <= o * W BY Products
    <3>2. (r + 1) * W = r * W + W OBVIOUS
    <3> QED BY <1>1, <1>2, <1>7, <3>1, <3>2
  <2>3. 2 * W * o = 2 * (o * W) OBVIOUS
  <2>4. 2 * W * g <= 2 * a + W BY <1>1, <1>7, <2>1, <2>3
  <2> QED BY <1>1, <2>1, <2>2, <2>4
<1>8. CASE ~ (o * W <= a) /\ s = 0
  <2>1. g = Least(o, r) BY <1>0, <1>1, <1>8
  <2>2. g \in Nat /\ g <= o /\ g <= r BY <2>1 DEF Least
  <2>3. (2 * W) * s = 0 BY <1>8
  <2>4. 2 * a <= W BY <1>1, <1>3, <2>3
  <2> QED BY <1>1, <2>2, <2>4
<1>9. CASE ~ (o * W <= a) /\ s # 0
  <2>1. g = s BY <1>0, <1>1, <1>9
  <2>2. s <= o /\ s <= r BY <1>1, <1>2, <1>6, <1>9
  <2>3. 2 * W * g <= 2 * a + W BY <1>3, <2>1
  <2> QED BY <1>1, <1>3, <2>1, <2>2, <2>3
<1> QED BY <1>7, <1>8, <1>9

(* When each of k shares is rounded up by one half at most, twice the         *)
(* surplus is at most k.                                                      *)
LEMMA HalfEach ==
  ASSUME NEW W \in Nat \ {0}, NEW r \in Int, NEW G \in Int, NEW k \in Int,
         (2 * W) * G <= (2 * r) * W + W * k
  PROVE  2 * (G - r) <= k
<1> PICK x : x = 2 * (G - r) OBVIOUS
<1>1. x \in Int OBVIOUS
<1> SUFFICES ASSUME x >= k + 1 PROVE FALSE BY <1>1
<1>2. W * (k + 1) <= W * x BY <1>1, Products
<1>3. W * (k + 1) = W * k + W OBVIOUS
<1>4. W * x = (2 * W) * G - (2 * r) * W OBVIOUS
<1>5. W * k \in Int /\ (2 * W) * G \in Int /\ (2 * r) * W \in Int OBVIOUS
<1> QED BY <1>2, <1>3, <1>4, <1>5

(* A surplus of half of the names at most is little for the lightest of       *)
(* them.                                                                      *)
LEMMA Lightest ==
  ASSUME NEW W \in Nat, NEW w \in Nat, NEW k \in Nat, NEW over \in Nat \ {0},
         w * k <= W, 2 * over <= k
  PROVE  2 * over * w <= (k - 1) * W
<1>1. (2 * over) * w <= k * w BY Products
<1>2. k - 1 \in Nat /\ 1 <= k - 1 OBVIOUS
<1>3. 1 * W <= (k - 1) * W BY <1>2, Products
<1>4. k * w = w * k /\ 2 * over * w = (2 * over) * w OBVIOUS
<1>5. (2 * over) * w \in Int /\ w * k \in Int /\ (k - 1) * W \in Int OBVIOUS
<1> QED BY <1>1, <1>3, <1>4, <1>5

(* A round gives out more than is left only by little: if a share rounded to  *)
(* nothing, no name gets more than all that was left, and that is little for  *)
(* its weight; otherwise every share is within one half, and the lightest     *)
(* name is the one to look at.                                                *)
LEMMA LastRound ==
  ASSUME NEW S, IsFiniteSet(S), S # {}, NEW weight, \A n \in S : weight[n] \in Nat \ {0},
         NEW r \in Nat \ {0}, NEW W, W = SumFunctionOnSet(weight, S),
         NEW g, \A n \in S : /\ g[n] \in Nat /\ g[n] <= r
                             /\ 2 * W * g[n] <= 2 * r * weight[n] + W \/ 2 * r * weight[n] <= W,
         NEW G, G = SumFunctionOnSet(g, S), G > r
  PROVE  \E n \in S : 2 * (G - r) * weight[n] <= (Cardinality(S) - 1) * W
<1> PICK k : k = Cardinality(S) OBVIOUS
<1>1. k \in Nat \ {0} BY FS_CardinalityType, FS_EmptySet
<1>2. Numeric(weight, S) /\ Numeric(g, S) BY DEF Numeric
<1>3. W \in Int /\ G \in Int BY <1>2, SumType
<1>4. PICK n \in S : \A m \in S : weight[n] <= weight[m]
  <2> DEFINE V == {weight[m] : m \in S}
  <2>1. V \in SUBSET Nat /\ V # {} OBVIOUS
  <2>2. \E x \in V : \A y \in V : x <= y
    <3> HIDE DEF V
    <3> QED BY <2>1, LeastExists
  <2> QED BY <2>2
<1>5. weight[n] * k <= W
  <2> PICK c : c = [m \in S |-> weight[n]] OBVIOUS
  <2>1. Numeric(c, S) /\ \A m \in S : c[m] = weight[n] /\ c[m] <= weight[m] BY <1>4 DEF Numeric
  <2>2. weight[n] \in Int BY <1>2 DEF Numeric
  <2> QED BY <1>2, <2>1, <2>2, SumMonotone, SumConstant
<1>6. W \in Nat \ {0}
  <2>1. weight[n] \in Nat \ {0} OBVIOUS
  <2>2. weight[n] * k \in Int /\ 1 * k <= weight[n] * k BY <1>1, <2>1, Products
  <2> QED BY <1>1, <1>3, <1>5, <2>2
<1> PICK over : over = G - r OBVIOUS
<1>7. over \in Nat \ {0} BY <1>3
<1>8. CASE \E m \in S : 2 * r * weight[m] <= W
  <2> PICK m \in S : 2 * r * weight[m] <= W BY <1>8
  <2>1. G <= r * k
    <3> PICK c : c = [i \in S |-> r] OBVIOUS
    <3>1. Numeric(c, S) /\ \A i \in S : c[i] = r /\ g[i] <= c[i] BY DEF Numeric
    <3> QED BY <1>2, <3>1, SumMonotone, SumConstant
  <2>2. over <= (k - 1) * r
    <3>1. r * k = (k - 1) * r + r BY <1>1
    <3>2. (k - 1) * r \in Int BY <1>1
    <3> QED BY <1>3, <2>1, <3>1, <3>2
  <2> PICK w : w = weight[m] OBVIOUS
  <2>3. w \in Nat BY <1>2
  <2>4. (2 * w) * over <= (2 * w) * ((k - 1) * r) BY <1>1, <1>7, <2>2, <2>3, Products
  <2>5. (2 * w) * ((k - 1) * r) = (k - 1) * (2 * r * w) BY <1>1, <2>3
  <2>6. (k - 1) * (2 * r * w) <= (k - 1) * W
    <3>1. k - 1 \in Nat /\ 2 * r * w \in Int BY <1>1, <2>3
    <3> QED BY <1>3, <3>1, Products
  <2>7. 2 * over * w = (2 * w) * over BY <1>7, <2>3
  <2>8. 2 * over * w <= (k - 1) * W
    <3>1. (2 * w) * over \in Int /\ (k - 1) * (2 * r * w) \in Int /\ (k - 1) * W \in Int
      BY <1>1, <1>3, <1>7, <2>3
    <3> QED BY <2>4, <2>5, <2>6, <2>7, <3>1
  <2> QED BY <2>8
<1>9. CASE \A m \in S : 2 * W * g[m] <= 2 * r * weight[m] + W
  <2> PICK one : one = [m \in S |-> 1] OBVIOUS
  <2> PICK up : up = [m \in S |-> (2 * W) * g[m] + 0 * g[m]] OBVIOUS
  <2> PICK down : down = [m \in S |-> (2 * r) * weight[m] + W * one[m]] OBVIOUS
  <2>1. Numeric(one, S) /\ Numeric(up, S) /\ Numeric(down, S) BY <1>3 DEF Numeric
  <2>2. SumFunctionOnSet(up, S) = (2 * W) * G + 0 * G BY <1>2, <1>3, SumLinear
  <2>3. SumFunctionOnSet(one, S) = k
    <3>1. SumFunctionOnSet(one, S) = 1 * k BY SumConstant
    <3> QED BY <1>1, <3>1
  <2>4. SumFunctionOnSet(down, S) = (2 * r) * W + W * k
    BY <1>2, <1>3, <2>1, <2>3, SumLinear
  <2>5. \A m \in S : up[m] <= down[m] BY <1>3, <1>9
  <2>6. (2 * W) * G + 0 * G <= (2 * r) * W + W * k BY <2>1, <2>2, <2>4, <2>5, SumMonotone
  <2>7. 0 * G = 0 /\ (2 * W) * G \in Int BY <1>3
  <2>8. 2 * over <= k BY <1>1, <1>3, <1>6, <2>6, <2>7, HalfEach
  <2>9. weight[n] \in Nat OBVIOUS
  <2>10. 2 * over * weight[n] <= (k - 1) * W
    BY <1>1, <1>5, <1>6, <1>7, <2>8, <2>9, Lightest
  <2> QED BY <2>10
<1> QED BY <1>8, <1>9

RpsSteps == {"plan", "allocate", "fill", "refresh", "done"}
Inputs ==
  [carries: [RpsWorker -> 0..MaxRps], serves: [RpsWorker -> Named], weight: [Named -> Priorities],
   wish: [Named -> Nat], floor: [Named -> Nat]]
Filling == [step: {"fill"}, open: [Named -> Nat], rest: Nat]
Guaranteed == SumFunction(given.floor)
Granted == SumFunction(targets)

RpsTypeOK ==
  /\ fill.step \in RpsSteps /\ targets \in [Named -> Nat]
  /\ fill.step # "plan" => given \in Inputs /\ \A n \in Named : given.floor[n] <= given.wish[n]
  /\ fill.step = "plan" => targets = Zero

(* What is given out beyond the total is what the last round rounds up.       *)
Slight(over) ==
  \E n \in Named :
    2 * over * given.weight[n] <= (Cardinality(Named) - 1) * SumFunction(given.weight)

(* In the rounds a name has what it was given and what it may still get, and  *)
(* what is left covers the minimums that are not full, if it did once.        *)
FillInv ==
  fill.step = "fill" =>
    /\ fill \in Filling
    /\ IF Guaranteed < TotalRps
       THEN \A n \in Named : /\ targets[n] + fill.open[n] = given.wish[n]
                             /\ given.floor[n] <= targets[n]
       ELSE \A n \in Named : targets[n] + fill.open[n] = given.floor[n]
    /\ Guaranteed = TotalRps => SumFunction(fill.open) <= fill.rest
    /\ \/ Granted + fill.rest = TotalRps
       \/ fill.rest = 0 /\ Granted > TotalRps /\ Slight(Granted - TotalRps)

(* What the rounds leave for the tasks.                                       *)
Filled ==
  /\ \A n \in Named : targets[n] <= given.wish[n]
  /\ Guaranteed <= TotalRps => \A n \in Named : given.floor[n] <= targets[n]
  /\ Least(TotalRps, SumFunction(given.wish)) <= Granted
  /\ Slight(Granted - TotalRps)
FilledInv == fill.step \in {"refresh", "done"} => Filled

(* What the tasks of a name get of its target.                                *)
TasksFit ==
  /\ \A w \in RpsWorker : planned[w] <= given.carries[w]
  /\ \A n \in Named :
       SumFunctionOnSet(planned, {w \in RpsWorker : given.serves[w] = n}) <= targets[n]
TasksInv == fill.step = "done" => TasksFit

RpsInv == RpsTypeOK /\ FillInv /\ FilledInv /\ TasksInv

(* The totals of the inputs, as sums over the names and the workers.          *)
LEMMA Totals ==
  ASSUME RpsTypeOK, fill.step # "plan"
  PROVE  /\ given \in Inputs
         /\ TotalRps \in Nat /\ TotalRps = SumFunctionOnSet(given.carries, RpsWorker)
         /\ Guaranteed \in Nat /\ Guaranteed = SumFunctionOnSet(given.floor, Named)
         /\ Granted \in Nat /\ Granted = SumFunctionOnSet(targets, Named)
         /\ SumFunction(given.wish) = SumFunctionOnSet(given.wish, Named)
         /\ SumFunction(given.wish) \in Nat
         /\ SumFunction(given.weight) = SumFunctionOnSet(given.weight, Named)
         /\ SumFunction(given.weight) \in Nat
         /\ Numeric(given.carries, RpsWorker) /\ Numeric(given.floor, Named)
         /\ Numeric(given.weight, Named) /\ Numeric(given.wish, Named) /\ Numeric(targets, Named)
         /\ \A n \in Named : given.weight[n] \in Nat \ {0}
<1>1. given \in Inputs /\ targets \in [Named -> Nat] BY DEF RpsTypeOK
<1>2. /\ given.carries \in [RpsWorker -> Int] /\ \A w \in RpsWorker : given.carries[w] >= 0
      /\ given.floor \in [Named -> Int] /\ \A n \in Named : given.floor[n] >= 0
      /\ given.wish \in [Named -> Int] /\ \A n \in Named : given.wish[n] >= 0
      /\ given.weight \in [Named -> Int] /\ \A n \in Named : given.weight[n] \in Nat \ {0}
      /\ targets \in [Named -> Int] /\ \A n \in Named : targets[n] >= 0
  <2>1. /\ given.carries \in [RpsWorker -> 0..MaxRps] /\ given.floor \in [Named -> Nat]
        /\ given.wish \in [Named -> Nat] /\ given.weight \in [Named -> Priorities]
    BY <1>1 DEF Inputs
  <2>2. Priorities \subseteq Nat \ {0} /\ MaxRps \in Nat BY RpsAssumption
  <2>3. given.carries \in [RpsWorker -> Int] /\ \A w \in RpsWorker : given.carries[w] >= 0
    BY <2>1, <2>2
  <2>4. /\ given.weight \in [Named -> Int] /\ \A n \in Named : given.weight[n] \in Nat \ {0}
    <3>1. \A n \in Named : given.weight[n] \in Priorities BY <2>1
    <3>2. \A n \in Named : given.weight[n] \in Nat \ {0} BY <2>2, <3>1
    <3>3. \A n \in Named : given.weight[n] \in Int BY <3>2
    <3> QED BY <2>1, <3>2, <3>3
  <2>5. given.floor \in [Named -> Int] /\ \A n \in Named : given.floor[n] >= 0 BY <2>1
  <2>6. given.wish \in [Named -> Int] /\ \A n \in Named : given.wish[n] >= 0 BY <2>1
  <2>7. targets \in [Named -> Int] /\ \A n \in Named : targets[n] >= 0 BY <1>1
  <2> QED BY <2>3, <2>4, <2>5, <2>6, <2>7
<1>3. IsFiniteSet(Named) /\ IsFiniteSet(RpsWorker) BY RpsAssumption
<1>4. \A n \in Named : given.weight[n] >= 0 BY <1>2
<1>5. Numeric(given.carries, RpsWorker) /\ TotalRps = SumFunctionOnSet(given.carries, RpsWorker)
  BY <1>2, <1>3, SumOver DEF TotalRps
<1>6. Numeric(given.floor, Named) /\ Guaranteed = SumFunctionOnSet(given.floor, Named)
  BY <1>2, <1>3, SumOver DEF Guaranteed
<1>7. Numeric(targets, Named) /\ Granted = SumFunctionOnSet(targets, Named)
  BY <1>2, <1>3, SumOver DEF Granted
<1>8. /\ Numeric(given.wish, Named)
      /\ SumFunction(given.wish) = SumFunctionOnSet(given.wish, Named)
  BY <1>2, <1>3, SumOver
<1>9. /\ Numeric(given.weight, Named)
      /\ SumFunction(given.weight) = SumFunctionOnSet(given.weight, Named)
  BY <1>2, <1>3, SumOver
<1>10. TotalRps \in Nat BY <1>2, <1>5, SumNat
<1>11. Guaranteed \in Nat BY <1>2, <1>6, SumNat
<1>12. Granted \in Nat BY <1>2, <1>7, SumNat
<1>13. SumFunction(given.wish) \in Nat BY <1>2, <1>8, SumNat
<1>14. SumFunction(given.weight) \in Nat BY <1>4, <1>9, SumNat
<1> QED BY <1>1, <1>2, <1>5, <1>6, <1>7, <1>8, <1>9, <1>10, <1>11, <1>12, <1>13, <1>14

(* Nothing beyond the total is little beyond it.                              *)
LEMMA NothingOver ==
  ASSUME RpsTypeOK, fill.step # "plan", NEW over \in Int, over <= 0
  PROVE  Slight(over)
<1> PICK n \in Named : TRUE BY RpsAssumption
<1> PICK w : w = given.weight[n] OBVIOUS
<1> PICK k : k = Cardinality(Named) - 1 OBVIOUS
<1> PICK W : W = SumFunction(given.weight) OBVIOUS
<1>1. w \in Nat /\ W \in Nat BY Totals
<1>2. k \in Nat BY RpsAssumption, FS_CardinalityType, FS_EmptySet
<1>3. w * (2 * over) <= w * 0 BY <1>1, Products
<1>4. k * 0 <= k * W BY <1>1, <1>2, Products
<1>5. 2 * over * w = w * (2 * over) /\ w * 0 = 0 /\ k * 0 = 0 BY <1>1, <1>2
<1>6. w * (2 * over) \in Int /\ k * W \in Int BY <1>1, <1>2
<1>7. 2 * over * w <= k * W BY <1>3, <1>4, <1>5, <1>6
<1> QED BY <1>7 DEF Slight

(* The inputs of a plan are of their types.                                   *)
LEMMA PlanTargetsKeeps ==
  ASSUME RpsInv, PlanTargets PROVE RpsInv'
<1>1. fill' = [step |-> "allocate"] /\ fill.step = "plan" /\ targets' = targets
  BY DEF PlanTargets
<1>2. PICK carries \in [RpsWorker -> 0..MaxRps], serves \in [RpsWorker -> Named],
           weight \in [Named -> Priorities], budget \in Budgets :
        given' = [carries |-> carries, serves |-> serves, weight |-> weight,
                  wish |-> [n \in Named |-> budget[n][1]],
                  floor |-> [n \in Named |-> budget[n][2]]]
  BY DEF PlanTargets
<1>3. \A n \in Named : budget[n][1] \in Nat /\ budget[n][2] \in Nat /\ budget[n][2] <= budget[n][1]
  BY RpsAssumption DEF Budgets
<1>4. /\ [n \in Named |-> budget[n][1]] \in [Named -> Nat]
      /\ [n \in Named |-> budget[n][2]] \in [Named -> Nat]
  BY <1>3
<1>5. given' \in Inputs BY <1>2, <1>4 DEF Inputs
<1>6. \A n \in Named : given'.floor[n] <= given'.wish[n] BY <1>2, <1>3
<1>7. fill'.step = "allocate" BY <1>1
<1>8. targets' \in [Named -> Nat] BY <1>1 DEF RpsInv, RpsTypeOK
<1>9. RpsTypeOK' BY <1>5, <1>6, <1>7, <1>8 DEF RpsTypeOK, RpsSteps
<1> QED BY <1>7, <1>9 DEF RpsInv, FillInv, FilledInv, TasksInv

(* The rounds begin with all of the total still to give, or with the          *)
(* minimums given and the rest.                                               *)
LEMMA AllocateTargetsKeeps ==
  ASSUME RpsInv, AllocateTargets PROVE RpsInv'
<1>1. fill.step = "allocate" /\ given' = given BY DEF AllocateTargets
<1>2. RpsTypeOK BY DEF RpsInv
<1>3. /\ given \in Inputs /\ TotalRps \in Nat /\ Guaranteed \in Nat
      /\ Guaranteed = SumFunctionOnSet(given.floor, Named)
      /\ \A n \in Named : given.floor[n] <= given.wish[n]
  BY <1>1, <1>2, Totals DEF RpsTypeOK
<1>4. given.floor \in [Named -> Nat] /\ given.wish \in [Named -> Nat] BY <1>3 DEF Inputs
<1>5. TotalRps' = TotalRps /\ Guaranteed' = Guaranteed BY <1>1 DEF TotalRps, Guaranteed
<1>6. RpsTypeOK' /\ FillInv'
  <2>1. CASE Guaranteed < TotalRps
    <3> PICK open : open = [n \in Named |-> given.wish[n] - given.floor[n]] OBVIOUS
    <3>1. fill' = [step |-> "fill", open |-> open, rest |-> TotalRps - Guaranteed]
          /\ targets' = given.floor
      BY <2>1 DEF AllocateTargets, Guaranteed
    <3>2. open \in [Named -> Nat] BY <1>3, <1>4
    <3>3. TotalRps - Guaranteed \in Nat BY <1>3, <2>1
    <3>4. fill' \in Filling /\ fill'.step = "fill" /\ fill'.open = open
          /\ fill'.rest = TotalRps - Guaranteed
      BY <3>1, <3>2, <3>3 DEF Filling
    <3>5. Granted' = Guaranteed BY <3>1 DEF Granted, Guaranteed
    <3>6. \A n \in Named : targets'[n] + open[n] = given.wish[n] /\ given.floor[n] <= targets'[n]
      BY <1>4, <3>1
    <3>7. Granted' + fill'.rest = TotalRps BY <1>3, <3>4, <3>5
    <3>8. RpsTypeOK' BY <1>1, <1>3, <1>4, <3>1, <3>4 DEF RpsTypeOK, RpsSteps
    <3>9. FillInv'
      BY <1>1, <1>3, <1>5, <2>1, <3>4, <3>6, <3>7 DEF FillInv
    <3> QED BY <3>8, <3>9
  <2>2. CASE ~ (Guaranteed < TotalRps)
    <3>1. fill' = [step |-> "fill", open |-> given.floor, rest |-> TotalRps] /\ targets' = Zero
      BY <2>2 DEF AllocateTargets, Guaranteed
    <3>2. fill' \in Filling /\ fill'.step = "fill" /\ fill'.open = given.floor
          /\ fill'.rest = TotalRps
      BY <1>3, <1>4, <3>1 DEF Filling
    <3>3. Granted' = 0
      <4>1. SumFunctionOnSet(Zero, Named) = 0 * Cardinality(Named)
        BY RpsAssumption, SumConstant DEF Zero
      <4>2. 0 * Cardinality(Named) = 0 BY RpsAssumption, FS_CardinalityType
      <4>3. SumFunction(Zero) = SumFunctionOnSet(Zero, Named) BY SumWhole DEF Zero
      <4> QED BY <3>1, <4>1, <4>2, <4>3 DEF Granted
    <3>4. \A n \in Named : targets'[n] + given.floor[n] = given.floor[n] BY <1>4, <3>1 DEF Zero
    <3>5. SumFunction(fill'.open) = Guaranteed BY <3>2 DEF Guaranteed
    <3>6. Granted' + fill'.rest = TotalRps BY <1>3, <3>2, <3>3
    <3>7. targets' \in [Named -> Nat] BY <3>1 DEF Zero
    <3>8. RpsTypeOK' BY <1>1, <1>3, <3>2, <3>7 DEF RpsTypeOK, RpsSteps
    <3>9. FillInv'
      BY <1>1, <1>3, <1>5, <2>2, <3>2, <3>4, <3>5, <3>6 DEF FillInv
    <3> QED BY <3>8, <3>9
  <2> QED BY <2>1, <2>2
<1>7. fill'.step = "fill" BY DEF AllocateTargets
<1> QED BY <1>6, <1>7 DEF RpsInv, FilledInv, TasksInv

(* The rounds end when nothing is left or nobody wants more: either way what  *)
(* was wished or what there is has been given.                                *)
LEMMA FillEndsKeeps ==
  ASSUME RpsInv, FillEnds PROVE RpsInv'
<1>1. /\ fill.step = "fill" /\ (fill.rest = 0 \/ Sharing = {})
      /\ fill' = [step |-> "refresh"] /\ given' = given /\ targets' = targets
  BY DEF FillEnds
<1>2. RpsTypeOK /\ FillInv BY DEF RpsInv
<1>3. fill \in Filling BY <1>1, <1>2 DEF FillInv
<1>4. fill.open \in [Named -> Nat] /\ fill.rest \in Nat BY <1>3 DEF Filling
<1>5. /\ TotalRps \in Nat /\ Guaranteed \in Nat /\ Granted \in Nat
      /\ SumFunction(given.wish) \in Nat
      /\ given \in Inputs /\ \A n \in Named : given.floor[n] <= given.wish[n]
  BY <1>1, <1>2, Totals DEF RpsTypeOK
<1>6. given.floor \in [Named -> Nat] /\ given.wish \in [Named -> Nat] /\ targets \in [Named -> Nat]
  BY <1>2, <1>5 DEF Inputs, RpsTypeOK
<1>7. Sharing = {} => \A n \in Named : fill.open[n] = 0 BY <1>4 DEF Sharing
<1>8. \A n \in Named : targets[n] <= given.wish[n]
  BY <1>1, <1>2, <1>4, <1>5, <1>6 DEF FillInv
<1>9. ASSUME Guaranteed <= TotalRps PROVE \A n \in Named : given.floor[n] <= targets[n]
  <2>1. CASE Guaranteed < TotalRps BY <1>1, <1>2, <2>1 DEF FillInv
  <2>2. CASE Guaranteed = TotalRps
    <3>1. \A n \in Named : targets[n] + fill.open[n] = given.floor[n]
      BY <1>1, <1>2, <1>5, <2>2 DEF FillInv
    <3>2. ASSUME fill.rest = 0 PROVE \A n \in Named : fill.open[n] = 0
      <4>1. SumFunction(fill.open) <= 0 BY <1>1, <1>2, <2>2, <3>2 DEF FillInv
      <4>2. fill.open \in [Named -> Int] /\ \A n \in Named : fill.open[n] >= 0 BY <1>4
      <4>3. Numeric(fill.open, Named) /\ SumFunction(fill.open) = SumFunctionOnSet(fill.open, Named)
        BY <4>2, RpsAssumption, SumOver
      <4>4. \A n \in Named : fill.open[n] <= SumFunction(fill.open)
        BY <4>2, <4>3, SumMember
      <4>5. SumFunction(fill.open) \in Int BY <4>3, SumType
      <4> QED BY <1>4, <4>1, <4>4, <4>5
    <3> QED BY <1>1, <1>4, <1>6, <1>7, <3>1, <3>2
  <2> QED BY <1>5, <1>9, <2>1, <2>2
<1>10. Least(TotalRps, SumFunction(given.wish)) <= Granted
  <2>1. CASE fill.rest = 0
    <3>1. TotalRps <= Granted BY <1>1, <1>2, <1>5, <2>1 DEF FillInv
    <3> QED BY <1>5, <3>1 DEF Least
  <2>2. CASE Sharing = {} /\ Guaranteed < TotalRps
    <3>1. \A n \in Named : targets[n] = given.wish[n]
      BY <1>1, <1>2, <1>6, <1>7, <2>2 DEF FillInv
    <3>2. targets = given.wish BY <1>6, <3>1
    <3> QED BY <1>5, <3>2 DEF Least, Granted
  <2>3. CASE Sharing = {} /\ ~ (Guaranteed < TotalRps)
    <3>1. \A n \in Named : targets[n] = given.floor[n]
      BY <1>1, <1>2, <1>6, <1>7, <2>3 DEF FillInv
    <3>2. targets = given.floor BY <1>6, <3>1
    <3> QED BY <1>5, <2>3, <3>2 DEF Least, Granted, Guaranteed
  <2> QED BY <1>1, <2>1, <2>2, <2>3
<1>11. Slight(Granted - TotalRps)
  <2>1. CASE Granted + fill.rest = TotalRps
    <3>1. Granted - TotalRps \in Int /\ Granted - TotalRps <= 0 BY <1>4, <1>5, <2>1
    <3> QED BY <1>1, <1>2, <3>1, NothingOver
  <2> QED BY <1>1, <1>2, <2>1 DEF FillInv
<1>12. Filled BY <1>8, <1>9, <1>10, <1>11 DEF Filled
<1>13. Filled'
  BY <1>1, <1>12 DEF Filled, Guaranteed, Granted, TotalRps, Slight
<1>14. fill'.step = "refresh" BY <1>1
<1>15. RpsTypeOK' BY <1>1, <1>2, <1>14 DEF RpsTypeOK, RpsSteps
<1> QED BY <1>13, <1>14, <1>15 DEF RpsInv, FillInv, FilledInv, TasksInv

(* What a round may grant to a name that still gets some, however a tie is    *)
(* rounded.                                                                   *)
LEMMA RoundGrant ==
  ASSUME RpsInv, fill.step = "fill", fill.rest > 0, NEW W, W = Weights, NEW down \in SUBSET Tied(W),
         NEW n \in Sharing, NEW g, g = Grant(n, Share(n, W) - (IF n \in down THEN 1 ELSE 0), W)
  PROVE  /\ g \in Nat /\ g <= fill.open[n] /\ g <= fill.rest
         /\ 2 * W * g <= 2 * fill.rest * given.weight[n] + W \/ 2 * fill.rest * given.weight[n] <= W
<1>1. RpsTypeOK /\ FillInv BY DEF RpsInv
<1>2. fill \in Filling BY <1>1 DEF FillInv
<1>3. n \in Named /\ fill.open[n] \in Nat \ {0} /\ fill.rest \in Nat \ {0}
  BY <1>2 DEF Filling, Sharing
<1>4. Numeric(given.weight, Named) /\ \A m \in Named : given.weight[m] \in Nat \ {0}
  BY <1>1, Totals
<1>5. Sharing \in SUBSET Named BY DEF Sharing
<1>6. Numeric(given.weight, Sharing) BY <1>4, <1>5, FS_Subset DEF Numeric
<1>7. \A m \in Sharing : given.weight[m] >= 0 BY <1>4, <1>5
<1>8. W \in Nat /\ given.weight[n] <= W BY <1>6, <1>7, SumNat, SumMember DEF Weights
<1> PICK o : o = fill.open[n] OBVIOUS
<1> PICK r : r = fill.rest OBVIOUS
<1> PICK w : w = given.weight[n] OBVIOUS
<1> PICK d : d = IF n \in down THEN 1 ELSE 0 OBVIOUS
<1>9. o \in Nat \ {0} /\ r \in Nat \ {0} /\ w \in Nat \ {0} /\ w <= W /\ d \in {0, 1}
  BY <1>3, <1>4, <1>8
<1>10. d = 1 => (2 * r * w + W) % (2 * W) = 0 BY DEF Tied
<1>11. g = Amount(o, r, w, W, d) BY DEF Grant, Share, Amount
<1>12. /\ g \in Nat /\ g <= o /\ g <= r
       /\ 2 * W * g <= 2 * r * w + W \/ 2 * r * w <= W
  BY <1>8, <1>9, <1>10, <1>11, OneGrant
<1> QED BY <1>12

(* What one round gives beyond the rest is little for all names as it is for  *)
(* those that share in it.                                                    *)
LEMMA SlightRound ==
  ASSUME RpsInv, fill.step = "fill", fill.rest > 0,
         NEW over \in Nat, NEW n \in Sharing,
         2 * over * given.weight[n] <= (Cardinality(Sharing) - 1) * Weights
  PROVE  Slight(over)
<1>1. RpsTypeOK BY DEF RpsInv
<1>2. /\ Numeric(given.weight, Named) /\ \A m \in Named : given.weight[m] \in Nat \ {0}
      /\ SumFunction(given.weight) = SumFunctionOnSet(given.weight, Named)
      /\ SumFunction(given.weight) \in Nat
  BY <1>1, Totals
<1>3. Sharing \in SUBSET Named BY DEF Sharing
<1>4. \A m \in Named \ Sharing : given.weight[m] >= 0 BY <1>2
<1>5. \A m \in Sharing : given.weight[m] >= 0 BY <1>2, <1>3
<1>6. Numeric(given.weight, Sharing) BY <1>2, <1>3, FS_Subset DEF Numeric
<1>7. Weights \in Nat BY <1>5, <1>6, SumNat DEF Weights
<1>8. Weights <= SumFunction(given.weight) BY <1>2, <1>3, <1>4, SumWider DEF Weights
<1> PICK k : k = Cardinality(Sharing) - 1 OBVIOUS
<1> PICK l : l = Cardinality(Named) - 1 OBVIOUS
<1>9. k \in Nat /\ l \in Nat /\ k <= l
  BY <1>3, RpsAssumption, FS_Subset, FS_CardinalityType, FS_EmptySet
<1> PICK W : W = Weights OBVIOUS
<1> PICK V : V = SumFunction(given.weight) OBVIOUS
<1> PICK w : w = given.weight[n] OBVIOUS
<1>10. w \in Nat BY <1>2, <1>3
<1>11. k * W <= l * W BY <1>7, <1>9, Products
<1>12. l * W <= l * V BY <1>2, <1>7, <1>8, <1>9, Products
<1>13. 2 * over * w <= k * W OBVIOUS
<1>14. 2 * over * w \in Int /\ k * W \in Int /\ l * W \in Int /\ l * V \in Int
  BY <1>2, <1>7, <1>9, <1>10
<1>15. 2 * over * w <= l * V BY <1>11, <1>12, <1>13, <1>14
<1> QED BY <1>3, <1>15 DEF Slight

(* A round moves what it grants from what a name may get to what it has, and  *)
(* what it takes from the rest is what it grants, but in the last one.        *)
LEMMA FillRoundKeeps ==
  ASSUME RpsInv, FillRound PROVE RpsInv'
<1>1. fill.step = "fill" /\ fill.rest > 0 /\ Sharing # {} /\ given' = given
  BY DEF FillRound
<1> DEFINE W == Weights
<1>2. PICK down \in SUBSET Tied(W) :
        LET granted == [n \in Named |->
              IF n \notin Sharing THEN 0
              ELSE Grant(n, Share(n, W) - (IF n \in down THEN 1 ELSE 0), W)]
        IN  /\ targets' = [n \in Named |-> targets[n] + granted[n]]
            /\ fill' = [fill EXCEPT !.rest = Most(0, fill.rest - SumFunction(granted)),
                                    !.open = [n \in Named |-> fill.open[n] - granted[n]]]
  BY DEF FillRound
<1>a. PICK granted : granted = [n \in Named |->
       IF n \notin Sharing THEN 0
       ELSE Grant(n, Share(n, W) - (IF n \in down THEN 1 ELSE 0), W)]
  OBVIOUS
<1>b. PICK G : G = SumFunction(granted) OBVIOUS
<1>3. /\ targets' = [n \in Named |-> targets[n] + granted[n]]
      /\ fill' = [fill EXCEPT !.rest = Most(0, fill.rest - G),
                              !.open = [n \in Named |-> fill.open[n] - granted[n]]]
  BY <1>2, <1>a, <1>b
<1>4. RpsTypeOK /\ FillInv /\ fill \in Filling BY <1>1 DEF RpsInv, FillInv
<1>5. fill.open \in [Named -> Nat] /\ fill.rest \in Nat \ {0} BY <1>1, <1>4 DEF Filling
<1>6. ASSUME NEW n \in Sharing
      PROVE  /\ granted[n] \in Nat /\ granted[n] <= fill.open[n] /\ granted[n] <= fill.rest
             /\ \/ 2 * W * granted[n] <= 2 * fill.rest * given.weight[n] + W
                \/ 2 * fill.rest * given.weight[n] <= W
  <2>1. granted[n] = Grant(n, Share(n, W) - (IF n \in down THEN 1 ELSE 0), W) BY <1>a DEF Sharing
  <2> QED BY <1>1, <2>1, RoundGrant
<1>7. \A n \in Named \ Sharing : granted[n] = 0 BY <1>a
<1>8. Sharing \in SUBSET Named BY DEF Sharing
<1>9. \A n \in Named : granted[n] \in Nat /\ granted[n] <= fill.open[n]
  <2> SUFFICES ASSUME NEW n \in Named PROVE granted[n] \in Nat /\ granted[n] <= fill.open[n]
    OBVIOUS
  <2>1. CASE n \in Sharing BY <1>6, <2>1
  <2>2. CASE n \notin Sharing BY <1>5, <1>7, <2>2
  <2> QED BY <2>1, <2>2
<1>10. granted \in [Named -> Int] /\ \A n \in Named : granted[n] >= 0 BY <1>9, <1>a
<1>11. /\ TotalRps \in Nat /\ Guaranteed \in Nat /\ Granted \in Nat
       /\ Granted = SumFunctionOnSet(targets, Named)
       /\ given \in Inputs /\ \A n \in Named : given.floor[n] <= given.wish[n]
       /\ Numeric(targets, Named) /\ Numeric(given.weight, Named)
       /\ \A n \in Named : given.weight[n] \in Nat \ {0}
  BY <1>1, <1>4, Totals DEF RpsTypeOK
<1>12. given.floor \in [Named -> Nat] /\ given.wish \in [Named -> Nat] /\ targets \in [Named -> Nat]
  BY <1>4, <1>11 DEF Inputs, RpsTypeOK
<1>13. IsFiniteSet(Named) BY RpsAssumption
<1>14. /\ G = SumFunctionOnSet(granted, Named) /\ Numeric(granted, Named) /\ G \in Nat
  BY <1>10, <1>13, <1>b, SumOver, SumNat
<1>15. G = SumFunctionOnSet(granted, Sharing)
  <2>1. \A n \in Named \ Sharing : granted[n] >= 0 BY <1>7
  <2> QED BY <1>7, <1>8, <1>14, <2>1, SumWider
<1>16. targets' \in [Named -> Nat] BY <1>3, <1>9, <1>12
<1>17. \A n \in Named : targets'[n] = 1 * targets[n] + 1 * granted[n] BY <1>3, <1>9, <1>12
<1>18. Granted' = Granted + G
  <2>1. SumFunctionOnSet(targets', Named) = 1 * Granted + 1 * G
    BY <1>11, <1>14, <1>17, SumLinear
  <2>2. Granted' = SumFunctionOnSet(targets', Named) BY <1>16, SumWhole DEF Granted
  <2> QED BY <1>11, <1>14, <2>1, <2>2
<1>c. PICK open : open = [n \in Named |-> fill.open[n] - granted[n]] OBVIOUS
<1>19. open \in [Named -> Nat] BY <1>5, <1>9, <1>c
<1>20. /\ fill' \in Filling /\ fill'.step = "fill" /\ fill'.open = open
       /\ fill'.rest = Most(0, fill.rest - G)
  <2>1. Most(0, fill.rest - G) \in Nat BY <1>5, <1>14 DEF Most
  <2>2. PICK rest : rest = Most(0, fill.rest - G) OBVIOUS
  <2>3. PICK old, new : old = fill /\ new = fill' OBVIOUS
  <2>4. new = [old EXCEPT !.rest = rest, !.open = open] BY <1>3, <1>c, <2>2, <2>3
  <2>5. old \in Filling /\ rest \in Nat BY <1>4, <2>1, <2>2, <2>3
  <2>6. new \in Filling BY <1>19, <2>4, <2>5 DEF Filling
  <2>7. new.step = "fill" BY <1>19, <2>4, <2>5 DEF Filling
  <2>8. new.open = open BY <1>19, <2>4, <2>5 DEF Filling
  <2>9. new.rest = rest BY <1>19, <2>4, <2>5 DEF Filling
  <2> QED BY <2>2, <2>3, <2>6, <2>7, <2>8, <2>9
<1>21. SumFunction(open) = SumFunction(fill.open) - G /\ SumFunction(fill.open) \in Int
  <2>1. fill.open \in [Named -> Int] BY <1>5
  <2>2. /\ Numeric(fill.open, Named) /\ SumFunction(fill.open) \in Int
        /\ SumFunction(fill.open) = SumFunctionOnSet(fill.open, Named)
    BY <1>13, <2>1, SumOver
  <2>3. ASSUME NEW n \in Named PROVE open[n] = 1 * fill.open[n] + (-1) * granted[n]
    <3>1. PICK a \in Nat : a = fill.open[n] BY <1>5
    <3>2. PICK b \in Nat : b = granted[n] BY <1>9
    <3>3. open[n] = a - b BY <1>c, <3>1, <3>2
    <3>4. a - b = 1 * a + (-1) * b BY ONLY a \in Nat, b \in Nat
    <3> QED BY <3>1, <3>2, <3>3, <3>4
  <2>4. SumFunctionOnSet(open, Named) = 1 * SumFunction(fill.open) + (-1) * G
    BY <1>14, <2>2, <2>3, SumLinear
  <2>5. SumFunction(open) = SumFunctionOnSet(open, Named) BY <1>19, SumWhole
  <2>6. \A x, y \in Int : 1 * x + (-1) * y = x - y OBVIOUS
  <2>7. 1 * SumFunction(fill.open) + (-1) * G = SumFunction(fill.open) - G
    BY <1>14, <2>2, <2>6
  <2> QED BY <2>2, <2>4, <2>5, <2>7
<1>22. TotalRps' = TotalRps /\ Guaranteed' = Guaranteed BY <1>1 DEF TotalRps, Guaranteed
<1>23. Granted + fill.rest = TotalRps BY <1>1, <1>4 DEF FillInv
<1>24. \/ Granted' + fill'.rest = TotalRps
       \/ fill'.rest = 0 /\ Granted' > TotalRps /\ Slight(Granted' - TotalRps)
  <2>1. CASE G <= fill.rest
    <3>1. fill'.rest = fill.rest - G BY <1>5, <1>14, <1>20, <2>1 DEF Most
    <3> QED BY <1>5, <1>11, <1>14, <1>18, <1>23, <3>1
  <2>2. CASE G > fill.rest
    <3>1. fill'.rest = 0 BY <1>5, <1>14, <1>20, <2>2 DEF Most
    <3>2. Granted' - TotalRps = G - fill.rest /\ Granted' > TotalRps /\ G - fill.rest \in Nat
      BY <1>5, <1>11, <1>14, <1>18, <1>23, <2>2
    <3>3. IsFiniteSet(Sharing) BY <1>8, <1>13, FS_Subset
    <3>4. \A n \in Sharing : given.weight[n] \in Nat \ {0} BY <1>8, <1>11
    <3>a. PICK r : r = fill.rest OBVIOUS
    <3>b. PICK weight : weight = given.weight OBVIOUS
    <3>c. PICK V : V = Weights OBVIOUS
    <3>d. PICK S : S = Sharing OBVIOUS
    <3>5. \E n \in S : 2 * (G - r) * weight[n] <= (Cardinality(S) - 1) * V
      <4>1. r \in Nat \ {0} /\ G > r BY <1>5, <2>2, <3>a
      <4>2. V = SumFunctionOnSet(weight, S) BY <3>b, <3>c, <3>d DEF Weights
      <4>3. \A n \in S :
              /\ granted[n] \in Nat /\ granted[n] <= r
              /\ 2 * V * granted[n] <= 2 * r * weight[n] + V \/ 2 * r * weight[n] <= V
        BY <1>6, <3>a, <3>b, <3>c, <3>d
      <4>4. \A n \in S : weight[n] \in Nat \ {0} BY <3>4, <3>b, <3>d
      <4>5. IsFiniteSet(S) /\ S # {} /\ G = SumFunctionOnSet(granted, S)
        BY <1>1, <1>15, <3>3, <3>d
      <4> HIDE DEF W
      <4> QED BY <4>1, <4>2, <4>3, <4>4, <4>5, LastRound
    <3>6. \E n \in Sharing : 2 * (G - fill.rest) * given.weight[n]
                                 <= (Cardinality(Sharing) - 1) * Weights
      BY <3>5, <3>a, <3>b, <3>c, <3>d
    <3>7. Slight(G - fill.rest) BY <1>1, <3>2, <3>6, SlightRound
    <3> QED BY <3>1, <3>2, <3>7
  <2> QED BY <1>5, <1>14, <2>1, <2>2
<1>25. Guaranteed = TotalRps => SumFunction(open) <= fill'.rest
  <2> SUFFICES ASSUME Guaranteed = TotalRps PROVE SumFunction(open) <= fill'.rest OBVIOUS
  <2>1. SumFunction(fill.open) <= fill.rest BY <1>1, <1>4 DEF FillInv
  <2>2. fill.rest - G <= fill'.rest BY <1>5, <1>14, <1>20 DEF Most
  <2>3. fill'.rest \in Int BY <1>5, <1>14, <1>20 DEF Most
  <2>4. \A x, y, z, v \in Int : x <= y /\ y - z <= v => x - z <= v OBVIOUS
  <2>5. SumFunction(fill.open) - G <= fill'.rest BY <1>5, <1>14, <1>21, <2>1, <2>2, <2>3, <2>4
  <2> QED BY <1>21, <2>5
<1>26. IF Guaranteed < TotalRps
       THEN \A n \in Named : targets'[n] + open[n] = given.wish[n] /\ given.floor[n] <= targets'[n]
       ELSE \A n \in Named : targets'[n] + open[n] = given.floor[n]
  <2>1. \A n \in Named : /\ targets'[n] + open[n] = targets[n] + fill.open[n]
                        /\ targets[n] <= targets'[n] /\ targets'[n] \in Nat /\ targets[n] \in Nat
    BY <1>3, <1>5, <1>9, <1>12, <1>c
  <2>2. CASE Guaranteed < TotalRps BY <1>1, <1>4, <1>12, <2>1, <2>2 DEF FillInv
  <2>3. CASE ~ (Guaranteed < TotalRps) BY <1>1, <1>4, <2>1, <2>3 DEF FillInv
  <2> QED BY <2>2, <2>3
<1>27. Slight(Granted' - TotalRps) => Slight(Granted - TotalRps)'
  BY <1>1 DEF Slight, Granted, TotalRps
<1>28. FillInv' BY <1>1, <1>20, <1>22, <1>24, <1>25, <1>26, <1>27 DEF FillInv
<1>29. RpsTypeOK' BY <1>1, <1>4, <1>16, <1>20 DEF RpsTypeOK, RpsSteps
<1> QED BY <1>20, <1>28, <1>29 DEF RpsInv, FilledInv, TasksInv

(* The tasks of a name get no more than its target: they are worked through   *)
(* in some order, and each leaves what the ones before it do not carry.       *)
LEMMA RefreshTasksKeeps ==
  ASSUME RpsInv, RefreshTasks PROVE RpsInv'
<1>1. /\ fill.step = "refresh" /\ fill'.step = "done" /\ given' = given /\ targets' = targets
  BY DEF RefreshTasks
<1>2. PICK order \in [RpsWorker -> 1..Cardinality(RpsWorker)] :
        IsInjective(order) /\ planned' = [w \in RpsWorker |-> TaskRps(w, order)]
  BY DEF RefreshTasks
<1>3. RpsTypeOK /\ FilledInv BY DEF RpsInv
<1>4. /\ given \in Inputs /\ Numeric(given.carries, RpsWorker) /\ targets \in [Named -> Nat]
  BY <1>1, <1>3, Totals DEF RpsTypeOK
<1>5. given.carries \in [RpsWorker -> 0..MaxRps] /\ given.serves \in [RpsWorker -> Named]
  BY <1>4 DEF Inputs
<1>6. \A w \in RpsWorker : given.carries[w] \in Nat BY <1>5, RpsAssumption
<1>7. Cardinality(RpsWorker) \in Nat BY RpsAssumption, FS_CardinalityType
<1>8. \A w \in RpsWorker : order[w] \in Nat /\ order[w] <= Cardinality(RpsWorker) BY <1>2, <1>7
<1>9. \A v, w \in RpsWorker : order[v] = order[w] => v = w BY <1>2 DEF IsInjective
<1> DEFINE Before(w) == {v \in RpsWorker : given.serves[v] = given.serves[w] /\ order[v] < order[w]}
<1>10. ASSUME NEW w \in RpsWorker
       PROVE  /\ targets[given.serves[w]] \in Nat /\ CarriedBefore(w, order) \in Nat
              /\ planned'[w] = TaskRps(w, order)
              /\ planned'[w] \in Nat /\ planned'[w] <= given.carries[w]
  <2>1. targets[given.serves[w]] \in Nat BY <1>4, <1>5
  <2>2. Before(w) \in SUBSET RpsWorker OBVIOUS
  <2>3. Numeric(given.carries, Before(w)) /\ \A v \in Before(w) : given.carries[v] >= 0
    BY <1>4, <1>6, <2>2, FS_Subset DEF Numeric
  <2>4. CarriedBefore(w, order) \in Nat BY <2>3, SumNat DEF CarriedBefore
  <2>5. planned'[w] = TaskRps(w, order) BY <1>2
  <2> QED BY <1>6, <2>1, <2>4, <2>5 DEF TaskRps, Most, Least
<1>11. ASSUME NEW n \in Named
       PROVE  SumFunctionOnSet(planned', {w \in RpsWorker : given.serves[w] = n}) <= targets[n]
  <2> DEFINE S == {w \in RpsWorker : given.serves[w] = n}
             Closed(T) == \A w \in T : Before(w) \subseteq T
             Fits(T) == /\ SumFunctionOnSet(planned', T) <= targets[n]
                        /\ SumFunctionOnSet(planned', T) <= SumFunctionOnSet(given.carries, T)
             G == {T \in SUBSET S : Closed(T) => Fits(T)}
  <2>1. S \in SUBSET RpsWorker /\ IsFiniteSet(S) BY RpsAssumption, FS_Subset
  <2>2. ASSUME NEW T \in SUBSET S
        PROVE  Numeric(planned', T) /\ Numeric(given.carries, T)
    BY <1>4, <1>10, <2>1, FS_Subset DEF Numeric
  <2>3. targets[n] \in Nat BY <1>4
  <2>4. {} \in G BY <2>3, SumEmpty
  <2>5. ASSUME NEW T \in SUBSET S, T # {}, \A x \in T : T \ {x} \in G PROVE T \in G
    <3> SUFFICES ASSUME Closed(T) PROVE Fits(T) OBVIOUS
    <3>1. PICK w \in T : \A v \in T : order[v] <= order[w]
      <4> DEFINE V == {Cardinality(RpsWorker) - order[v] : v \in T}
      <4>1. V \in SUBSET Nat /\ V # {} BY <1>7, <1>8, <2>5
      <4>2. \E x \in V : \A y \in V : x <= y
        <5> HIDE DEF V
        <5> QED BY <4>1, LeastExists
      <4>3. PICK w \in T : \A v \in T : Cardinality(RpsWorker) - order[w]
                                      <= Cardinality(RpsWorker) - order[v]
        BY <4>2
      <4> QED BY <1>7, <1>8, <4>3
    <3>2. w \in RpsWorker /\ given.serves[w] = n OBVIOUS
    <3>3. Before(w) = T \ {w}
      <4>1. \A v \in T \ {w} : order[v] < order[w] BY <1>8, <1>9, <3>1, <3>2
      <4>2. T \ {w} \subseteq Before(w) BY <3>2, <4>1
      <4>3. w \notin Before(w) BY <1>8, <3>2
      <4> QED BY <4>2, <4>3
    <3>a. PICK B : B = T \ {w} OBVIOUS
    <3>4. Closed(B)
      <4> SUFFICES ASSUME NEW v \in B, NEW u \in Before(v) PROVE u \in B OBVIOUS
      <4>1. v \in RpsWorker /\ order[v] < order[w] /\ given.serves[v] = n BY <3>2, <3>3, <3>a
      <4>2. u \in RpsWorker /\ order[u] < order[v] /\ given.serves[u] = n BY <4>1
      <4>3. order[u] < order[w] BY <1>8, <3>2, <4>1, <4>2
      <4>4. u \in Before(w) BY <3>2, <4>2, <4>3
      <4> QED BY <3>3, <3>a, <4>4
    <3>5. Fits(B) BY <2>5, <3>4, <3>a
    <3>6. CarriedBefore(w, order) = SumFunctionOnSet(given.carries, B)
      BY <3>3, <3>a DEF CarriedBefore
    <3>7. /\ SumFunctionOnSet(planned', T) = planned'[w] + SumFunctionOnSet(planned', B)
          /\ SumFunctionOnSet(given.carries, T)
               = given.carries[w] + SumFunctionOnSet(given.carries, B)
      BY <2>2, <3>a, SumRemove
    <3>8. B \in SUBSET S BY <3>a
    <3>9. SumFunctionOnSet(planned', B) \in Int /\ SumFunctionOnSet(given.carries, B) \in Int
      BY <2>2, <3>8, SumType
    <3>b. PICK p, c, a, b, t : /\ p = planned'[w] /\ c = given.carries[w] /\ t = targets[n]
                               /\ a = SumFunctionOnSet(planned', B)
                               /\ b = SumFunctionOnSet(given.carries, B)
      OBVIOUS
    <3>10. p = Most(0, Least(c, t - b)) BY <1>10, <3>2, <3>6, <3>b DEF TaskRps
    <3>11. c \in Nat /\ t \in Nat /\ a \in Int /\ b \in Int /\ a <= t /\ a <= b
      BY <1>6, <2>3, <3>2, <3>5, <3>9, <3>b
    <3>12. p + a <= t /\ p + a <= c + b BY <3>10, <3>11 DEF Most, Least
    <3> QED BY <3>7, <3>12, <3>b
  <2>6. Closed(S)
    BY <1>5
  <2>7. S \in G
    <3>1. \A T \in SUBSET S : T # {} /\ (\A x \in T : T \ {x} \in G) => T \in G BY <2>5
    <3> HIDE DEF G, S
    <3> QED BY <2>1, <2>4, <3>1, SubsetInduction
  <2> QED BY <2>6, <2>7
<1>12. TasksFit' BY <1>1, <1>10, <1>11 DEF TasksFit
<1>13. Filled' BY <1>1, <1>3 DEF FilledInv, Filled, Guaranteed, Granted, TotalRps, Slight
<1>14. RpsTypeOK' BY <1>1, <1>3 DEF RpsTypeOK, RpsSteps
<1> QED BY <1>1, <1>12, <1>13, <1>14 DEF RpsInv, FillInv, FilledInv, TasksInv

LEMMA RpsStutters ==
  ASSUME RpsInv, UNCHANGED rpsVars PROVE RpsInv'
BY DEF RpsInv, rpsVars, RpsTypeOK, FillInv, FilledInv, TasksInv, Filled, TasksFit, Slight,
       Granted, Guaranteed, TotalRps

(* What is shared out of the workers' requests fits, for any finite set of    *)
(* names and workers, any weights and any amounts, however ties are rounded.  *)
THEOREM TargetsAreKept == RpsSpec => []TargetsFit
<1>1. RpsInit => RpsInv
  <2> SUFFICES ASSUME RpsInit PROVE RpsInv OBVIOUS
  <2>1. fill.step = "plan" /\ targets = Zero BY DEF RpsInit
  <2>2. targets \in [Named -> Nat] BY <2>1 DEF Zero
  <2> QED BY <2>1, <2>2 DEF RpsInv, RpsTypeOK, RpsSteps, FillInv, FilledInv, TasksInv
<1>2. RpsInv /\ [RpsNext]_rpsVars => RpsInv'
  BY PlanTargetsKeeps, AllocateTargetsKeeps, FillRoundKeeps, FillEndsKeeps, RefreshTasksKeeps,
     RpsStutters DEF RpsNext
<1>3. RpsInv => TargetsFit
  <2> SUFFICES ASSUME RpsInv, fill.step = "done" PROVE Filled /\ TasksFit => TargetsFit
    BY DEF RpsInv, FilledInv, TasksInv, TargetsFit
  <2> QED BY DEF Filled, TasksFit, TargetsFit, Slight, Granted, Guaranteed
<1> QED BY <1>1, <1>2, <1>3, PTL DEF RpsSpec
=============================================================================
