------------------------------- MODULE MCFleet -------------------------------
(* What happens to nodes, workers and names beside the control queue and the  *)
(* attacks. The part chosen at the start runs by itself, the others stay      *)
(* where they begin: the state spaces add up, and nothing is said of two      *)
(* parts together.                                                            *)
EXTENDS WorkerMaintenance, LegacyKeys, NodeRelease, NodeBootstrap, NodeOnboarding, BackupSets,
        OperationsWatchdog, DiscoveryChecks, ControlLoop, RpsTargets, TLC

CONSTANTS a1, a2, b1, b2, Parts

VARIABLE part \* the part that runs

Stays(name, vars) == IF part = name THEN TRUE ELSE UNCHANGED vars
Others ==
  /\ Stays("maintenance", maintenanceVars) /\ Stays("keys", legacyVars)
  /\ Stays("release", releaseVars) /\ Stays("bootstrap", bootVars)
  /\ Stays("onboarding", onboardVars) /\ Stays("backup", backupVars)
  /\ Stays("watchdog", watchVars) /\ Stays("discovery", discoveryVars)
  /\ Stays("loop", loopVars) /\ Stays("targets", rpsVars) /\ UNCHANGED part

FleetInit ==
  /\ part \in Parts
  /\ MaintenanceInit /\ LegacyInit /\ ReleaseInit /\ BootInit /\ OnboardInit
  /\ BackupInit /\ WatchInit /\ DiscoveryInit /\ LoopInit /\ RpsInit
FleetNext ==
  /\ \/ part = "maintenance" /\ MaintenanceNext
     \/ part = "keys" /\ LegacyNext
     \/ part = "release" /\ ReleaseNext
     \/ part = "bootstrap" /\ BootNext
     \/ part = "onboarding" /\ OnboardNext
     \/ part = "backup" /\ BackupNext
     \/ part = "watchdog" /\ WatchNext
     \/ part = "discovery" /\ DiscoveryNext
     \/ part = "loop" /\ LoopNext
     \/ part = "targets" /\ RpsNext
  /\ Others

(* Only the part that runs tells two states apart. *)
FleetView ==
  CASE part = "maintenance" -> <<part, maintenanceVars>>
    [] part = "keys" -> <<part, legacyVars>>
    [] part = "release" -> <<part, releaseVars>>
    [] part = "bootstrap" -> <<part, bootVars>>
    [] part = "onboarding" -> <<part, onboardVars>>
    [] part = "backup" -> <<part, backupVars>>
    [] part = "watchdog" -> <<part, watchVars>>
    [] part = "discovery" -> <<part, discoveryVars>>
    [] part = "loop" -> <<part, loopVars>>
    [] part = "targets" -> <<part, rpsVars>>
Symmetry == Permutations({a1, a2})
=============================================================================
