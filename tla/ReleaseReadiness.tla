--------------------------- MODULE ReleaseReadiness ---------------------------
(* Opening the service to the public: the readiness report                    *)
(* (services/vpn_release_readiness.py), the probe of the fleet                *)
(* (services/vpn_fleet_health.py), the administrator's proof that an endpoint *)
(* works from outside, and the commit of the release marker                   *)
(* (api/routes/control.py), which reads one table after the other.            *)
EXTENDS Integers, FiniteSets

CONSTANTS ReadyPoint, MaxTarget, HealthAge, MaxMinutes, MaxUpsetsToday

VARIABLES fleet,   \* rows: target, proof, probed, healthy, filled, work, watch
          probe,   \* the probe under way, which holds the rows of its endpoint
          report,  \* the commit under way: its step, what it has read, its time
          marker,  \* vpn_public_release_ready_v1 is set
          minute, upsets
readyVars == <<fleet, probe, report, marker, minute, upsets>>

NoProof == -1
NoProbe == [on |-> {}]
NoReport == [step |-> "none"]
\* Mutant of TablesFree: the commit does not lock the tables it reads.
TablesOpen == TRUE
TablesFree == report = NoReport
RowFree(e) == e \notin probe.on
Change(e, field, value) == fleet' = [fleet EXCEPT ![field][e] = value]
Upset == upsets < MaxUpsetsToday /\ upsets' = upsets + 1

(******************************* the evaluation *******************************)
FreshAt(at, now) == now - HealthAge <= at /\ at <= now
\* evaluate_operational_checks: what the watchdog stored last, if it is not too old.
Operational(s, now) == s.watch.passed /\ FreshAt(s.watch.at, now)
\* evaluate_release_readiness, the checks of one endpoint and its worker.
PointReady(s, e, now) ==
  /\ s.work[e] # "attack" /\ s.healthy[e] /\ FreshAt(s.probed[e], now)
  /\ s.proof[e] = s.target[e] /\ ~s.filled[e]
Redundant(s, now) == Cardinality({e \in ReadyPoint : PointReady(s, e, now)}) >= 2
Quiescent(s) == \A e \in ReadyPoint : s.work[e] \notin {"control", "maintenance"}
Ready(s, now) ==
  /\ Operational(s, now) /\ Quiescent(s) /\ Redundant(s, now)
  /\ \A e \in ReadyPoint : PointReady(s, e, now)

(********************************* the commit *********************************)
\* LOCK TABLE ... NOWAIT: a probe that has not written anything yet is no obstacle.
LockReadinessTables ==
  /\ report = NoReport /\ ~marker /\ report' = [step |-> "endpoints", seen |-> fleet]
  /\ UNCHANGED <<fleet, probe, marker, minute, upsets>>
\* load_release_readiness_snapshot: endpoints with their workers first, the work later.
LoadEndpoints ==
  /\ report.step = "endpoints" /\ report' = [step |-> "work", seen |-> fleet]
  /\ UNCHANGED <<fleet, probe, marker, minute, upsets>>
LoadWork ==
  /\ report.step = "work"
  /\ report' = [step |-> "write", seen |-> [report.seen EXCEPT !.work = fleet.work],
                now |-> minute]
  /\ UNCHANGED <<fleet, probe, marker, minute, upsets>>
CommitReadiness ==
  /\ report.step = "write" /\ report' = NoReport
  /\ marker' = Ready(report.seen, report.now)
  /\ UNCHANGED <<fleet, probe, minute, upsets>>

(******************************* everybody else *******************************)
\* probe_next_vpn_endpoint: one at a time, an idle node, its rows locked to the end.
BeginProbe(e) ==
  /\ probe = NoProbe /\ fleet.work[e] \notin {"control", "maintenance"}
  /\ probe' = [on |-> {e}, at |-> minute]
  /\ UNCHANGED <<fleet, report, marker, minute, upsets>>
LandProbe(e) ==
  /\ e \in probe.on /\ TablesFree /\ probe' = NoProbe
  /\ \/ \E healthy \in BOOLEAN :
          /\ ~healthy => Upset
          /\ healthy => UNCHANGED upsets
          /\ fleet' = [fleet EXCEPT
               !.healthy[e] = healthy,
               !.probed[e] = IF healthy THEN probe.at ELSE @,
               !.proof[e] = IF fleet.proof[e] = fleet.target[e] THEN @ ELSE NoProof]
     \/ UNCHANGED <<fleet, upsets>>
  /\ UNCHANGED <<report, marker, minute>>
\* confirm_vpn_endpoint_external_verification
ConfirmExternal(e) ==
  /\ TablesFree /\ RowFree(e) /\ fleet.healthy[e] /\ FreshAt(fleet.probed[e], minute)
  /\ fleet.proof[e] # fleet.target[e] /\ Change(e, "proof", fleet.target[e])
  /\ UNCHANGED <<probe, report, marker, minute, upsets>>
\* Operations of the queue and maintenance come and go; an attack takes the worker.
WorkStarts(e, work) ==
  /\ TablesFree /\ RowFree(e) /\ fleet.work[e] = "none" /\ Upset /\ Change(e, "work", work)
  /\ UNCHANGED <<probe, report, marker, minute>>
WorkEnds(e) ==
  /\ TablesFree /\ fleet.work[e] # "none" /\ Change(e, "work", "none")
  /\ UNCHANGED <<probe, report, marker, minute, upsets>>
\* A maintenance run gives the endpoint another configuration.
Reconfigure(e) ==
  /\ TablesFree /\ RowFree(e) /\ fleet.work[e] = "maintenance" /\ fleet.target[e] < MaxTarget
  /\ Change(e, "target", fleet.target[e] + 1)
  /\ UNCHANGED <<probe, report, marker, minute, upsets>>
FillUp(e) ==
  /\ TablesFree /\ Upset /\ Change(e, "filled", ~fleet.filled[e])
  /\ UNCHANGED <<probe, report, marker, minute>>
\* set_vpn_watchdog_observations
StoreObservations(passed) ==
  /\ TablesFree /\ fleet' = [fleet EXCEPT !.watch = [passed |-> passed, at |-> minute]]
  /\ UNCHANGED <<probe, report, marker, minute, upsets>>
MinutePasses ==
  /\ minute < MaxMinutes /\ minute' = minute + 1
  /\ UNCHANGED <<fleet, probe, report, marker, upsets>>

ReadyInit ==
  /\ fleet = [target |-> [e \in ReadyPoint |-> 0], proof |-> [e \in ReadyPoint |-> NoProof],
              probed |-> [e \in ReadyPoint |-> 0], healthy |-> [e \in ReadyPoint |-> TRUE],
              filled |-> [e \in ReadyPoint |-> FALSE], work |-> [e \in ReadyPoint |-> "none"],
              watch |-> [passed |-> TRUE, at |-> 0]]
  /\ probe = NoProbe /\ report = NoReport /\ marker = FALSE /\ minute = 0 /\ upsets = 0
ReadyNext ==
  \/ LockReadinessTables \/ LoadEndpoints \/ LoadWork \/ CommitReadiness \/ MinutePasses
  \/ \E passed \in BOOLEAN : StoreObservations(passed)
  \/ \E e \in ReadyPoint :
       \/ BeginProbe(e) \/ LandProbe(e) \/ ConfirmExternal(e) \/ WorkEnds(e)
       \/ Reconfigure(e) \/ FillUp(e)
       \/ \E work \in {"control", "maintenance", "attack"} : WorkStarts(e, work)
ReadySpec == ReadyInit /\ [][ReadyNext]_readyVars

(* The service is opened on what is true: when the marker is set, the rows    *)
(* say of the time of the report, all at once, that two nodes are healthy,    *)
(* free, proven from outside in their present configuration and not full, and *)
(* that nothing works on any of them, although the report read them one after *)
(* the other (commit_vpn_release_readiness, lock_release_readiness_tables).   *)
OpenedOnTruth == [][marker' /\ ~marker => Ready(fleet, report.now)]_readyVars
=============================================================================
