----------------------------- MODULE NodeBootstrap -----------------------------
(* _prepare_vpn_node: the first preparation of a node. It installs 3x-ui,     *)
(* backs its database up and lets its binary create an API token, whose value *)
(* is printed once. "Any token ambiguity is durable and never retried": the   *)
(* marker is written before the token is asked for, and stays after a         *)
(* failure. A process whose connection is cut goes on beside the next one.    *)
EXTENDS Naturals

CONSTANTS Boot, MaxBootKills

VARIABLES prepared, \* the marker, token, config, provenance and backup files
          panel,    \* 3x-ui: installed, its service, its tokens, its inbounds
          boot,     \* the step of each bootstrap process
          bootKills \* killed processes so far (a bound)
bootVars == <<prepared, panel, boot, bootKills>>

BootAt(p, step) == boot[p] = step
BootGoes(p, step) == boot' = [boot EXCEPT ![p] = step]
BootEnds(p) == BootGoes(p, "idle")
\* What fails after the marker leaves the panel stopped and the marker behind.
Uncertain(p) == BootEnds(p) /\ panel' = [panel EXCEPT !.up = FALSE] /\ UNCHANGED prepared

StartBootstrap(p) ==
  /\ BootAt(p, "idle") /\ BootGoes(p, "check")
  /\ UNCHANGED <<prepared, panel, bootKills>>

Credentials == <<prepared.token, prepared.config, prepared.provenance>>
(* The files that are there decide: nothing yet, everything, or foreign.      *)
Fresh == /\ ~prepared.marker /\ ~prepared.backup
         /\ Credentials = <<FALSE, FALSE, FALSE>>
CheckFiles(p) ==
  /\ BootAt(p, "check") /\ UNCHANGED <<prepared, panel, bootKills>>
  /\ \/ Fresh /\ panel.installed /\ ~panel.inbound /\ BootGoes(p, "directories")
     \/ Fresh /\ ~panel.installed /\ BootGoes(p, "directories")
     \/ BootEnds(p)   \* already prepared, foreign, or the port is taken
InstallPanel(p) ==
  /\ BootAt(p, "directories") /\ UNCHANGED <<prepared, bootKills>>
  /\ \/ ~panel.installed /\ BootGoes(p, "installed")
        /\ panel' = [panel EXCEPT !.installed = TRUE, !.up = TRUE]
     \/ panel.installed /\ BootGoes(p, "installed") /\ UNCHANGED panel
     \/ BootEnds(p) /\ UNCHANGED panel
\* os.link: the marker is nobody else's.
WriteBootMarker(p) ==
  /\ BootAt(p, "installed") /\ UNCHANGED <<panel, bootKills>>
  /\ IF ~prepared.marker /\ ~panel.inbound
       THEN BootGoes(p, "marked") /\ prepared' = [prepared EXCEPT !.marker = TRUE]
       ELSE BootEnds(p) /\ UNCHANGED prepared
StopPanel(p) ==
  /\ BootAt(p, "marked") /\ UNCHANGED bootKills
  /\ \/ panel' = [panel EXCEPT !.up = FALSE] /\ BootGoes(p, "stopped") /\ UNCHANGED prepared
     \/ Uncertain(p)
\* Mutant of Exclusive: an existing backup is written over.
ExclusiveNever == TRUE
Exclusive == ~prepared.backup
BackupDatabase(p) ==
  /\ BootAt(p, "stopped") /\ UNCHANGED bootKills
  /\ \/ /\ Exclusive /\ BootGoes(p, "backed up") /\ UNCHANGED panel
        /\ prepared' = [prepared EXCEPT !.backup = TRUE]
     \/ Uncertain(p)
(* The token may be in the database although its line is not understood.     *)
CreateToken(p) ==
  /\ BootAt(p, "backed up") /\ UNCHANGED <<prepared, bootKills>>
  /\ \/ panel' = [panel EXCEPT !.tokens = @ + 1] /\ BootGoes(p, "token")
     \/ \E created \in {0, 1} :
          panel' = [panel EXCEPT !.tokens = @ + created, !.up = FALSE] /\ BootEnds(p)
StartPanel(p) ==
  /\ BootAt(p, "token") /\ UNCHANGED bootKills
  /\ \/ panel' = [panel EXCEPT !.up = TRUE] /\ BootGoes(p, "started") /\ UNCHANGED prepared
     \/ Uncertain(p)
Saves(p, from, to, file) ==
  /\ BootAt(p, from) /\ UNCHANGED bootKills
  /\ \/ file /\ BootGoes(p, to) /\ UNCHANGED panel
     \/ Uncertain(p)
SaveToken(p) ==
  Saves(p, "started", "saved token", ~prepared.token /\ prepared' = [prepared EXCEPT !.token = TRUE])
SaveConfig(p) ==
  Saves(p, "saved token", "saved config",
        ~prepared.config /\ prepared' = [prepared EXCEPT !.config = TRUE])
SaveProvenance(p) ==
  Saves(p, "saved config", "saved provenance",
        ~prepared.provenance /\ prepared' = [prepared EXCEPT !.provenance = TRUE])
RemoveBootMarker(p) ==
  Saves(p, "saved provenance", "idle",
        prepared.marker /\ prepared' = [prepared EXCEPT !.marker = FALSE])
KillBootstrap(p) ==
  /\ ~BootAt(p, "idle") /\ bootKills < MaxBootKills /\ bootKills' = bootKills + 1
  /\ BootEnds(p) /\ UNCHANGED <<prepared, panel>>

BootInit ==
  /\ prepared = [f \in {"marker", "token", "config", "provenance", "backup"} |-> FALSE]
  /\ \E installed \in BOOLEAN, inbound \in BOOLEAN :
       /\ inbound => installed
       /\ panel = [installed |-> installed, up |-> installed, inbound |-> inbound, tokens |-> 0]
  /\ boot = [p \in Boot |-> "idle"] /\ bootKills = 0
BootNext ==
  \E p \in Boot :
    \/ StartBootstrap(p) \/ CheckFiles(p) \/ InstallPanel(p) \/ WriteBootMarker(p) \/ StopPanel(p)
    \/ BackupDatabase(p) \/ CreateToken(p) \/ StartPanel(p) \/ SaveToken(p) \/ SaveConfig(p)
    \/ SaveProvenance(p) \/ RemoveBootMarker(p) \/ KillBootstrap(p)
BootSpec == BootInit /\ [][BootNext]_bootVars

(* "any token ambiguity is durable and never retried": however often the      *)
(* bootstrap is killed, cut off and started again, also beside itself, the    *)
(* panel gets one automation token at most, and no file of it without the     *)
(* backup of the database from before.                                        *)
TokenOnce == panel.tokens <= 1 /\ (panel.tokens = 1 => prepared.backup)
=============================================================================
