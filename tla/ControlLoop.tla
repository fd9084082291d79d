------------------------------ MODULE ControlLoop ------------------------------
(* The scheduler of the control process (services/control_runtime.py): cycles *)
(* one after the other, each of which may start the background tasks that are *)
(* not running: the lifecycle pass, a dispatch, a notice and a probe of the   *)
(* fleet, which runs in a task of its own that may outlive its timeout and    *)
(* its cancellation. shutdown ends them in a fixed order.                     *)
EXTENDS Integers, FiniteSets

CONSTANTS Probing,  \* the probes that may be begun
          NoProbing

ASSUME ProbingAssumption == NoProbing \notin Probing

Chore == {"lifecycle", "dispatch", "notice"}

VARIABLES loop,     \* _task: resting between cycles, in a cycle, ended
          chores,   \* the three background tasks: running, cancelled, none
          health,   \* _vpn_fleet_health_task: created, waiting, cleaning up, none
          probes,   \* probe tasks: none, running, cancelled, ended
          current,  \* _vpn_fleet_health_probe_task
          released, \* a release marker is set and a verified worker can be loaded
          database, \* _vpn_control_database has been made
          stop      \* how far shutdown has come
loopVars == <<loop, chores, health, probes, current, released, database, stop>>

Alive(p) == probes[p] \in {"running", "cancelled"}
CancelledIf(on) == [p \in Probing |-> IF p = on /\ probes[p] = "running" THEN "cancelled"
                                      ELSE probes[p]]

(*********************************** a cycle **********************************)
CycleOpens ==
  /\ loop = "resting" /\ stop = "none" /\ loop' = "cycle"
  /\ UNCHANGED <<released, chores, health, probes, current, database, stop>>
\* _vpn_fleet_health_due: neither its task nor a probe of an earlier one is left.
HealthFree == health = "none" /\ current = NoProbing
\* A dispatch is begun when one of the two release markers holds the configured release
\* and the pinned host of a verified worker is known; it has its own connections.
DispatchReady(begun) ==
  /\ "dispatch" \in begun => released
  /\ database' = (database \/ "dispatch" \in begun)
ReleaseChanges ==
  /\ released' = ~released /\ UNCHANGED <<loop, chores, health, probes, current, database, stop>>
\* After the cycle's commit nothing is awaited: what is due begins at once. A cycle that
\* fails begins less of it, or nothing.
CycleCloses(begun, probing) ==
  /\ loop = "cycle" /\ stop = "none" /\ loop' = "resting"
  /\ \A c \in begun : chores[c] = "none"
  /\ chores' = [c \in Chore |-> IF c \in begun THEN "running" ELSE chores[c]]
  /\ probing => HealthFree
  /\ health' = IF probing THEN "created" ELSE health
  /\ DispatchReady(begun) /\ UNCHANGED <<probes, current, released, stop>>
ChoreEnds(c) ==
  /\ chores[c] # "none" /\ chores' = [chores EXCEPT ![c] = "none"]
  /\ UNCHANGED <<released, loop, health, probes, current, database, stop>>

(********************************* the probe **********************************)
\* _run_vpn_fleet_health: its first step creates the probe, unless it is cancelled before.
ProbeBegins(p) ==
  /\ health = "created" /\ probes[p] = "none"
  /\ probes' = [probes EXCEPT ![p] = "running"] /\ current' = p /\ health' = "waiting"
  /\ UNCHANGED <<released, loop, chores, database, stop>>
HealthTimesOut ==
  /\ health = "waiting" /\ probes' = CancelledIf(current) /\ health' = "cleaning"
  /\ UNCHANGED <<released, loop, chores, current, database, stop>>
\* Mutant of CleanupEnds: a probe that does not end in time is forgotten.
CleanupForgets ==
  /\ health = "cleaning" /\ health' = "none" /\ current' = NoProbing
  /\ UNCHANGED <<released, loop, chores, probes, database, stop>>
\* _cancel_vpn_fleet_health_probe waits for a while; the probe may still be closing its
\* connection then.
CleanupEnds ==
  /\ health = "cleaning" /\ health' = "none"
  /\ UNCHANGED <<released, loop, chores, probes, current, database, stop>>
\* _vpn_fleet_health_probe_done is called before whoever waits for the probe goes on.
ProbeDone(p) ==
  /\ probes' = [probes EXCEPT ![p] = "ended"]
  /\ current' = IF current = p THEN NoProbing ELSE current
  /\ UNCHANGED <<loop, chores, released, database, stop>>
\* execute_vpn_node_health_over_ssh answers or fails.
ProbeEnds(p) == probes[p] = "running" /\ ProbeDone(p) /\ health' = "none"
\* A cancelled one aborts its connection and waits for it to close, four times for a while.
ProbeCloses(p) == probes[p] = "cancelled" /\ ProbeDone(p) /\ UNCHANGED health

(********************************** shutdown **********************************)
\* The stop event ends a loop that rests; a cycle is cancelled where it waits.
StopLoop ==
  /\ stop = "none" /\ stop' = "loop"
  /\ UNCHANGED <<released, loop, chores, health, probes, current, database>>
LoopEnds ==
  /\ stop = "loop" /\ loop' = "ended" /\ stop' = "health"
  /\ health' = CASE health = "created" -> "none" [] health = "waiting" -> "cleaning"
                 [] OTHER -> health
  /\ probes' = IF health = "waiting" THEN CancelledIf(current) ELSE probes
  /\ UNCHANGED <<released, chores, current, database>>
\* The probe that is left is cancelled and waited for, but only for a while.
HealthStopped ==
  /\ stop = "health" /\ health = "none" /\ stop' = "probe" /\ probes' = CancelledIf(current)
  /\ UNCHANGED <<released, loop, chores, health, current, database>>
ProbeStopped ==
  /\ stop = "probe" /\ stop' = "chores"
  /\ UNCHANGED <<released, loop, chores, health, probes, current, database>>
\* Each task is cancelled and awaited, then the next: lifecycle, dispatch, notice.
CancelChore(c) ==
  /\ stop = "chores" /\ chores[c] = "running"
  /\ c = "dispatch" => chores["lifecycle"] = "none"
  /\ c = "notice" => chores["lifecycle"] = "none" /\ chores["dispatch"] = "none"
  /\ chores' = [chores EXCEPT ![c] = "cancelled"]
  /\ UNCHANGED <<released, loop, health, probes, current, database, stop>>
\* The engine of the dispatcher is disposed of last.
Disposed ==
  /\ stop = "chores" /\ \A c \in Chore : chores[c] = "none"
  /\ database' = FALSE /\ stop' = "done"
  /\ UNCHANGED <<released, loop, chores, health, probes, current>>

LoopInit ==
  /\ loop = "resting" /\ chores = [c \in Chore |-> "none"] /\ health = "none"
  /\ probes = [p \in Probing |-> "none"] /\ current = NoProbing
  /\ released = FALSE /\ database = FALSE /\ stop = "none"
LoopNext ==
  \/ CycleOpens \/ ReleaseChanges \/ HealthTimesOut \/ CleanupEnds
  \/ StopLoop \/ LoopEnds \/ HealthStopped \/ ProbeStopped \/ Disposed
  \/ \E begun \in SUBSET Chore : \E probing \in BOOLEAN : CycleCloses(begun, probing)
  \/ \E c \in Chore : ChoreEnds(c) \/ CancelChore(c)
  \/ \E p \in Probing : ProbeBegins(p) \/ ProbeEnds(p) \/ ProbeCloses(p)
LoopSpec == LoopInit /\ [][LoopNext]_loopVars

(* One probe, and quiet at the end: two probes never run at once, though the  *)
(* one that timed out is still closing its connection when the next is due; a *)
(* dispatch has its connections as long as it lives, through its cancellation *)
(* too; and when shutdown is done nothing is left of the loop's tasks but,    *)
(* possibly, one probe that was told to stop (_vpn_fleet_health_due,          *)
(* _cancel_vpn_fleet_health_probe, shutdown).                                 *)
LoopHolds ==
  /\ \A p, q \in Probing : Alive(p) /\ Alive(q) => p = q
  /\ chores["dispatch"] # "none" => database
  /\ stop = "done" =>
       /\ loop = "ended" /\ health = "none" /\ ~database
       /\ \A c \in Chore : chores[c] = "none"
       /\ \A p \in Probing : probes[p] # "running"
=============================================================================
