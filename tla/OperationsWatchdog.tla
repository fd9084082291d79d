------------------------- MODULE OperationsWatchdog -------------------------
(* The watchdog (operations/watchdog.py), a command a timer starts, one at a  *)
(* time: it collects the codes of the failing checks and lets the alert file  *)
(* decide which message the operator gets. The file is replaced before and    *)
(* after a message; the command may be killed between any two steps, the file *)
(* may be damaged, and Telegram may take a message and lose its answer.       *)
EXTENDS Naturals, FiniteSets

CONSTANTS LocalCheck, DataCheck, MaxCycles, MaxFaults

VARIABLES alert,     \* the alert file: codes and whether they were notified
          watch,     \* the running command
          cycles,    \* commands started; MaxCycles
          told,      \* the last message that was delivered
          messages,  \* messages delivered since the checks last turned
          down,      \* whether the last collected codes were failures
          unsettled, \* a delivered message was not recorded, or the file was damaged
          faults     \* kills, damages and lost answers; MaxFaults
watchVars == <<alert, watch, cycles, told, messages, down, unsettled, faults>>

Database == "control_database_unavailable"
CheckCode == LocalCheck \cup DataCheck \cup {Database}
Damaged == [codes |-> {}, notified |-> TRUE, valid |-> FALSE]
Alert(codes, notified) == [codes |-> codes, notified |-> notified, valid |-> TRUE]
Healthy == Alert({}, TRUE)
WatchIdle == [step |-> "idle"]
WatchFault == faults < MaxFaults /\ faults' = faults + 1

(****************************** what a cycle does *****************************)
\* A collector that raises counts as failed; without the database only local checks are judged.
FailingCodes(local, data, database) ==
  IF database THEN local \cup data ELSE local \cup {Database}

\* Mutant of Changed: other codes after a notified failure start over.
ChangedNever(codes) == FALSE
Changed(codes) == alert.valid /\ alert.notified /\ alert.codes # {} /\ alert.codes # codes
ConfirmedAlert(codes) == alert.valid /\ alert.codes = codes
\* run_alert_cycle: the state to save, and whether a message follows.
Quiet(codes) ==
  IF codes = {} THEN alert.codes = {} /\ alert.notified /\ alert.valid
  ELSE ConfirmedAlert(codes) /\ alert.notified
Announces(codes) ==
  IF codes = {} THEN (alert.codes # {}) = alert.notified /\ alert.valid
  ELSE ConfirmedAlert(codes) /\ ~alert.notified
Silently(codes) == IF codes = {} THEN Healthy ELSE Alert(codes, Changed(codes))

Collect(local, data, database) ==
  LET codes == FailingCodes(local, data, database)
  IN  /\ watch = WatchIdle /\ cycles < MaxCycles /\ cycles' = cycles + 1
      /\ down' = (codes # {})
      /\ messages' = IF down' = down THEN messages ELSE 0
      /\ watch' = IF Quiet(codes) THEN WatchIdle
                  ELSE IF Announces(codes)
                  THEN [step |-> "save", state |-> Alert(codes, FALSE), announces |-> TRUE]
                  ELSE [step |-> "save", state |-> Silently(codes), announces |-> FALSE]
      /\ UNCHANGED <<alert, told, unsettled, faults>>

SaveAlert ==
  /\ watch.step = "save" /\ alert' = watch.state
  /\ watch' = IF watch.announces THEN [watch EXCEPT !.step = "send"] ELSE WatchIdle
  /\ UNCHANGED <<cycles, told, messages, down, unsettled, faults>>

Delivered ==
  /\ told' = IF watch.state.codes = {} THEN "recovery" ELSE "alarm"
  /\ messages' = messages + 1
SendAlert ==
  /\ watch.step = "send"
  /\ \/ Delivered /\ watch' = [watch EXCEPT !.step = "record"] /\ UNCHANGED <<unsettled, faults>>
     \/ watch' = WatchIdle /\ WatchFault /\ UNCHANGED <<told, messages, unsettled>>
     \/ Delivered /\ watch' = WatchIdle /\ WatchFault /\ unsettled' = TRUE
  /\ UNCHANGED <<alert, cycles, down>>

RecordAlert ==
  /\ watch.step = "record" /\ alert' = Alert(watch.state.codes, TRUE) /\ watch' = WatchIdle
  /\ UNCHANGED <<cycles, told, messages, down, unsettled, faults>>

(********************************** faults ************************************)
\* A kill, or a file that cannot be written: the command ends where it is.
KillWatch ==
  /\ watch # WatchIdle /\ WatchFault /\ watch' = WatchIdle
  /\ unsettled' = (unsettled \/ watch.step = "record")
  /\ UNCHANGED <<alert, cycles, told, messages, down>>
DamageAlert ==
  /\ alert.valid /\ WatchFault /\ alert' = Damaged /\ unsettled' = TRUE
  /\ UNCHANGED <<watch, cycles, told, messages, down>>

WatchInit ==
  /\ alert = Damaged /\ watch = WatchIdle /\ cycles = 0 /\ told = "nothing" /\ messages = 0
  /\ down = FALSE /\ unsettled = FALSE /\ faults = 0
WatchNext ==
  \/ \E local \in SUBSET LocalCheck, data \in SUBSET DataCheck, database \in BOOLEAN :
       Collect(local, data, database)
  \/ SaveAlert \/ SendAlert \/ RecordAlert \/ KillWatch \/ DamageAlert
WatchSpec == WatchInit /\ [][WatchNext]_watchVars

(* Messages pair up: however the failing codes change from run to run, while  *)
(* no delivery is in doubt one outage gives at most one alarm and one return  *)
(* to health at most one recovery, and a recovery is only ever sent to an     *)
(* operator whose last message was an alarm. A kill between a message and the *)
(* file, and a damaged file, put it in doubt (run_alert_cycle).               *)
AlarmsPair ==
  [][~unsettled' /\ messages' > messages
       => messages' = 1 /\ (told' = "recovery" => told = "alarm")]_watchVars
=============================================================================
