------------------------------ MODULE FleetProofs ------------------------------
(* Proofs about what happens to a node and to the control server beside the   *)
(* control queue: the bootstrap of a node (NodeBootstrap), the releases of    *)
(* its helper (NodeRelease), the onboarding of its endpoint (NodeOnboarding), *)
(* the daily backup (BackupSets), the control loop's start and stop           *)
(* (ControlLoop), its watchdog (OperationsWatchdog) and the lookups of the    *)
(* tracked domains (DiscoveryChecks), for any number of processes, releases,  *)
(* jobs, keys, sets, probes, outages, kills, edits, names, tickets and days.  *)
EXTENDS NodeBootstrap, NodeRelease, NodeOnboarding, BackupSets, ControlLoop,
        OperationsWatchdog, DiscoveryChecks, TLAPS

-----------------------------------------------------------------------------
(* The bootstrap                                                              *)

BootSteps == {"idle", "check", "directories", "installed", "marked", "stopped", "backed up",
              "token", "started", "saved token", "saved config", "saved provenance"}
PreparedFiles == {"marker", "token", "config", "provenance", "backup"}

Panels == [installed: BOOLEAN, up: BOOLEAN, inbound: BOOLEAN, tokens: Nat]

BootTypeOK ==
  /\ prepared \in [PreparedFiles -> BOOLEAN] /\ panel \in Panels
  /\ boot \in [Boot -> BootSteps] /\ bootKills \in Nat

(* One process may be about to ask for the token, after its backup and before *)
(* any token.                                                                 *)
AskingInv ==
  /\ \A p \in Boot : BootAt(p, "backed up") => prepared.backup /\ panel.tokens = 0
  /\ \A p, q \in Boot : BootAt(p, "backed up") /\ BootAt(q, "backed up") => p = q

BootInv == BootTypeOK /\ AskingInv /\ TokenOnce

(* Steps of the other files leave the backup and the tokens alone.            *)
LEMMA BootAsideKeeps ==
  ASSUME BootInv, BootTypeOK', NEW p \in Boot, NEW step \in BootSteps, step # "backed up",
         BootGoes(p, step), prepared'.backup = prepared.backup, panel'.tokens = panel.tokens
  PROVE  BootInv'
<1>1. \A q \in Boot : BootAt(q, "backed up")' => BootAt(q, "backed up")
  BY DEF BootInv, BootTypeOK, BootGoes, BootAt
<1>2. AskingInv' /\ TokenOnce'
  BY <1>1 DEF BootInv, AskingInv, TokenOnce, BootAt
<1> QED BY <1>2 DEF BootInv

(* What a change of one part leaves of the others.                            *)
LEMMA PartChange ==
  ASSUME BootTypeOK
  PROVE  /\ \A v \in BOOLEAN :
              /\ [panel EXCEPT !.up = v] \in Panels
              /\ [panel EXCEPT !.up = v].tokens = panel.tokens
         /\ \A f \in PreparedFiles : [prepared EXCEPT ![f] = TRUE] \in [PreparedFiles -> BOOLEAN]
         /\ \A f \in PreparedFiles : [prepared EXCEPT ![f] = FALSE] \in [PreparedFiles -> BOOLEAN]
         /\ \A step \in BootSteps, p \in Boot : [boot EXCEPT ![p] = step] \in [Boot -> BootSteps]
  BY DEF BootTypeOK, Panels

(* A failure after the marker stops the panel and nothing else.               *)
LEMMA UncertainKeeps ==
  ASSUME BootInv, NEW p \in Boot, Uncertain(p), bootKills' = bootKills PROVE BootInv'
<1>1. /\ BootGoes(p, "idle") /\ panel' = [panel EXCEPT !.up = FALSE]
      /\ prepared' = prepared /\ boot' = [boot EXCEPT ![p] = "idle"]
  BY DEF Uncertain, BootEnds, BootGoes
<1>2. panel' \in Panels /\ panel'.tokens = panel.tokens
  BY <1>1, PartChange DEF BootInv
<1>3. BootTypeOK'
  BY <1>1, <1>2, PartChange DEF BootInv, BootTypeOK, BootSteps
<1> QED BY <1>1, <1>2, <1>3, BootAsideKeeps DEF BootSteps

(* Whoever writes the backup found none, so nobody asked for a token before.  *)
LEMMA BackupDatabaseKeeps ==
  ASSUME BootInv, NEW p \in Boot, BackupDatabase(p) PROVE BootInv'
<1> USE DEF BootInv
<1>1. CASE Uncertain(p)
  BY <1>1, UncertainKeeps DEF BackupDatabase
<1>2. CASE ~ Uncertain(p)
  <2>1. /\ ~ prepared.backup /\ boot' = [boot EXCEPT ![p] = "backed up"]
        /\ prepared' = [prepared EXCEPT !.backup = TRUE] /\ UNCHANGED <<panel, bootKills>>
    BY <1>2 DEF BackupDatabase, Exclusive, BootGoes
  <2>2. prepared' \in [PreparedFiles -> BOOLEAN] /\ prepared'.backup
    BY <2>1 DEF BootTypeOK, PreparedFiles
  <2>3. BootTypeOK'
    <3>1. boot' \in [Boot -> BootSteps]
      BY <2>1 DEF BootTypeOK, BootSteps
    <3> QED BY <2>1, <2>2, <3>1 DEF BootTypeOK
  <2>4. panel.tokens = 0 /\ \A q \in Boot : ~ BootAt(q, "backed up")
    <3>1. panel.tokens \in Nat
      BY DEF BootTypeOK, Panels
    <3>2. panel.tokens <= 1 /\ panel.tokens # 1
      BY <2>1 DEF TokenOnce
    <3>3. panel.tokens = 0
      BY ONLY <3>1, <3>2
    <3>4. \A q \in Boot : ~ BootAt(q, "backed up")
      BY <2>1 DEF AskingInv
    <3> QED BY <3>3, <3>4
  <2>5. \A q \in Boot : BootAt(q, "backed up")' => q = p
    BY <2>1, <2>4 DEF BootAt, BootTypeOK
  <2> QED BY <2>1, <2>2, <2>3, <2>4, <2>5 DEF AskingInv, TokenOnce
<1> QED BY <1>1, <1>2

(* The token is asked for by the one process, while there is none.            *)
LEMMA CreateTokenKeeps ==
  ASSUME BootInv, NEW p \in Boot, CreateToken(p) PROVE BootInv'
<1> USE DEF BootInv
<1>1. BootAt(p, "backed up") /\ prepared.backup /\ panel.tokens = 0 /\ UNCHANGED <<prepared, bootKills>>
  BY DEF CreateToken, AskingInv
<1>2. PICK step \in {"token", "idle"}, created \in {0, 1}, up \in BOOLEAN :
        /\ boot' = [boot EXCEPT ![p] = step]
        /\ panel' = [installed |-> panel.installed, up |-> up, inbound |-> panel.inbound,
                     tokens |-> panel.tokens + created]
  <2>1. CASE panel' = [panel EXCEPT !.tokens = @ + 1] /\ BootGoes(p, "token")
    <3>1. panel' = [installed |-> panel.installed, up |-> panel.up, inbound |-> panel.inbound,
                    tokens |-> panel.tokens + 1]
      BY <2>1 DEF BootTypeOK, Panels
    <3>2. panel.up \in BOOLEAN /\ boot' = [boot EXCEPT ![p] = "token"]
      BY <2>1 DEF BootTypeOK, Panels, BootGoes
    <3> QED BY <3>1, <3>2
  <2>2. CASE \E created \in {0, 1} :
               panel' = [panel EXCEPT !.tokens = @ + created, !.up = FALSE] /\ BootEnds(p)
    <3>1. PICK created \in {0, 1} :
            panel' = [panel EXCEPT !.tokens = @ + created, !.up = FALSE] /\ BootEnds(p)
      BY <2>2
    <3>2. panel' = [installed |-> panel.installed, up |-> FALSE, inbound |-> panel.inbound,
                    tokens |-> panel.tokens + created]
      BY <3>1 DEF BootTypeOK, Panels
    <3> QED BY <3>1, <3>2 DEF BootEnds, BootGoes
  <2> QED BY <2>1, <2>2 DEF CreateToken
<1>3. panel' \in Panels /\ panel'.tokens = created
  <2>1. panel \in Panels
    BY DEF BootTypeOK
  <2>2. panel.tokens = 0
    BY <1>1
  <2>3. created \in Nat /\ panel.tokens + created = created
    BY ONLY <2>2
  <2>4. panel' = [installed |-> panel.installed, up |-> up, inbound |-> panel.inbound,
                  tokens |-> created]
    BY <1>2, <2>3
  <2> QED BY <2>1, <2>3, <2>4 DEF Panels
<1>4. boot' \in [Boot -> BootSteps]
  BY <1>2 DEF BootTypeOK, BootSteps
<1>5. BootTypeOK'
  BY <1>1, <1>3, <1>4 DEF BootTypeOK
<1>6. \A q \in Boot : ~ BootAt(q, "backed up")'
  <2>1. \A q \in Boot : boot[q] = "backed up" => q = p
    <3>1. \A q, r \in Boot : BootAt(q, "backed up") /\ BootAt(r, "backed up") => q = r
      BY DEF AskingInv
    <3> QED BY <1>1, <3>1 DEF BootAt
  <2>2. \A q \in Boot : boot'[q] = IF q = p THEN step ELSE boot[q]
    <3>1. boot' = [boot EXCEPT ![p] = step] /\ boot \in [Boot -> BootSteps]
      BY <1>2 DEF BootTypeOK
    <3> QED BY ONLY <3>1
  <2> QED BY <2>1, <2>2 DEF BootAt
<1>7. panel'.tokens <= 1
  BY ONLY <1>3
<1> QED BY <1>1, <1>3, <1>5, <1>6, <1>7 DEF AskingInv, TokenOnce

(* Every other step of a process is one of these.                             *)
LEMMA BootStepKeeps ==
  ASSUME BootInv, NEW p \in Boot,
         \/ StartBootstrap(p) \/ CheckFiles(p) \/ InstallPanel(p) \/ WriteBootMarker(p)
         \/ StopPanel(p) \/ StartPanel(p) \/ SaveToken(p) \/ SaveConfig(p)
         \/ SaveProvenance(p) \/ RemoveBootMarker(p) \/ KillBootstrap(p)
  PROVE  BootInv'
<1> USE DEF BootInv
<1>1. ASSUME NEW step \in BootSteps, BootGoes(p, step), step # "backed up",
             panel' = panel \/ panel' = [panel EXCEPT !.up = TRUE]
               \/ panel' = [panel EXCEPT !.up = FALSE]
               \/ panel' = [panel EXCEPT !.installed = TRUE, !.up = TRUE],
             \/ prepared' = prepared
             \/ \E f \in PreparedFiles \ {"backup"} :
                  prepared' = [prepared EXCEPT ![f] = TRUE] \/ prepared' = [prepared EXCEPT ![f] = FALSE],
             bootKills' = bootKills \/ bootKills' = bootKills + 1
      PROVE  BootInv'
  <2>1. panel' \in Panels /\ panel'.tokens = panel.tokens
    <3>1. CASE panel' = [panel EXCEPT !.installed = TRUE, !.up = TRUE]
      <4>1. panel' = [installed |-> TRUE, up |-> TRUE, inbound |-> panel.inbound,
                      tokens |-> panel.tokens]
        BY <3>1 DEF BootTypeOK, Panels
      <4> QED BY <4>1 DEF BootTypeOK, Panels
    <3>2. CASE panel' # [panel EXCEPT !.installed = TRUE, !.up = TRUE]
      BY <1>1, <3>2, PartChange DEF BootTypeOK
    <3> QED BY <3>1, <3>2
  <2>2. prepared' \in [PreparedFiles -> BOOLEAN]
    BY <1>1, PartChange DEF BootTypeOK
  <2>3. prepared'.backup = prepared.backup
    BY <1>1 DEF BootTypeOK, PreparedFiles
  <2>4. BootTypeOK'
    <3>1. boot' \in [Boot -> BootSteps]
      BY <1>1 DEF BootTypeOK, BootGoes
    <3>2. bootKills \in Nat /\ (bootKills' = bootKills \/ bootKills' = bootKills + 1)
      BY <1>1 DEF BootTypeOK
    <3>3. bootKills' \in Nat
      BY ONLY <3>2
    <3> QED BY <2>1, <2>2, <3>1, <3>3 DEF BootTypeOK
  <2> QED BY <1>1, <2>1, <2>3, <2>4, BootAsideKeeps
<1> HIDE DEF BootInv
<1>2. ASSUME StartBootstrap(p) \/ CheckFiles(p) \/ KillBootstrap(p) PROVE BootInv'
  BY <1>1, <1>2 DEF StartBootstrap, CheckFiles, KillBootstrap, BootEnds, BootSteps
<1>3. ASSUME InstallPanel(p) PROVE BootInv'
  BY <1>1, <1>3 DEF InstallPanel, BootEnds, BootSteps
<1>4. ASSUME WriteBootMarker(p) PROVE BootInv'
  BY <1>1, <1>4 DEF WriteBootMarker, BootEnds, BootSteps, PreparedFiles
<1>5. ASSUME StopPanel(p) \/ StartPanel(p) PROVE BootInv'
  BY <1>1, <1>5, UncertainKeeps DEF StopPanel, StartPanel, BootSteps
<1>6. ASSUME SaveToken(p) \/ SaveConfig(p) \/ SaveProvenance(p) \/ RemoveBootMarker(p)
      PROVE  BootInv'
  BY <1>1, <1>6, UncertainKeeps DEF SaveToken, SaveConfig, SaveProvenance, RemoveBootMarker, Saves,
     BootSteps, PreparedFiles
<1> QED BY <1>2, <1>3, <1>4, <1>5, <1>6

LEMMA NextBootInv == BootInv /\ [BootNext]_bootVars => BootInv'
<1>1. ASSUME BootInv, NEW p \in Boot,
             \/ StartBootstrap(p) \/ CheckFiles(p) \/ InstallPanel(p) \/ WriteBootMarker(p)
             \/ StopPanel(p) \/ BackupDatabase(p) \/ CreateToken(p) \/ StartPanel(p)
             \/ SaveToken(p) \/ SaveConfig(p) \/ SaveProvenance(p) \/ RemoveBootMarker(p)
             \/ KillBootstrap(p)
      PROVE  BootInv'
  BY <1>1, BootStepKeeps, BackupDatabaseKeeps, CreateTokenKeeps
<1>2. BootInv /\ UNCHANGED bootVars => BootInv'
  BY DEF bootVars, BootInv, BootTypeOK, AskingInv, TokenOnce, BootAt
<1> QED BY <1>1, <1>2 DEF BootNext

(* However often the bootstrap is killed, cut off and started again, also     *)
(* beside itself, the panel gets one automation token at most, and none       *)
(* without the backup from before.                                            *)
THEOREM TokenIsCreatedOnce == BootSpec => []TokenOnce
<1>1. BootInit => BootInv
  <2> SUFFICES ASSUME BootInit PROVE BootInv
    OBVIOUS
  <2>1. BootTypeOK
    <3>1. prepared \in [PreparedFiles -> BOOLEAN]
      BY DEF BootInit, PreparedFiles
    <3>2. panel \in Panels
      BY DEF BootInit, Panels
    <3>3. boot \in [Boot -> BootSteps] /\ bootKills \in Nat
      BY DEF BootInit, BootSteps
    <3> QED BY <3>1, <3>2, <3>3 DEF BootTypeOK
  <2>2. \A p \in Boot : ~ BootAt(p, "backed up")
    BY DEF BootInit, BootAt
  <2>3. panel.tokens = 0
    BY DEF BootInit
  <2>4. panel.tokens <= 1 /\ panel.tokens # 1
    BY ONLY <2>3
  <2> QED BY <2>1, <2>2, <2>4 DEF BootInv, AskingInv, TokenOnce
<1>2. BootInv /\ [BootNext]_bootVars => BootInv'
  BY NextBootInv
<1>3. BootInv => TokenOnce
  BY DEF BootInv
<1> QED BY <1>1, <1>2, <1>3, PTL DEF BootSpec

-----------------------------------------------------------------------------
(* The releases of the node helper                                            *)

Journals == {"none", "half", "empty", "used"}
Files == Release \cup {NoRelease, "half"}
Markers == [bundle: Release, old: Release \cup {NoRelease}, config: BOOLEAN, journal: Journals]
Installing == {"mark", "half candidate", "candidate", "config", "mkdir", "journal",
               "half previous", "previous", "replace", "unmark"}
Undoing == {"undo candidate", "undo active", "undo previous", "undo config", "undo journal",
            "undo marker"}
Working == helper.at \in Installing \cup Undoing
Disks == [active: Release \cup {NoRelease}, previous: Files, candidate: Files,
          config: BOOLEAN, journal: Journals, marker: Markers \cup {Unmarked}]
Helpers == [at: {"idle", "check"} \cup Installing \cup Undoing, bundle: Release \cup {NoRelease},
            marker: Markers \cup {Unmarked}, recovers: BOOLEAN]

ReleaseTypeOK == disk \in Disks /\ helper \in Helpers /\ serving \in BOOLEAN /\ kills \in Nat

(* A helper at work knows its own marker, and the marker on the disk is none  *)
(* or the same.                                                               *)
HelperInv ==
  /\ helper.at = "check" => helper.bundle \in Release
  /\ Working =>
       /\ helper.bundle \in Release
       /\ helper.marker \in Markers /\ helper.marker.bundle = helper.bundle
       /\ \/ disk.marker = helper.marker /\ helper.at # "mark"
          \/ disk.marker = Unmarked /\ helper.at \in {"mark"} \cup Undoing

(* What is on the disk when the installation has come this far.               *)
InstallInv ==
  /\ helper.at \in Installing \ {"unmark"} => disk.active = helper.marker.old
  /\ helper.at \in {"config", "mkdir", "journal", "half previous", "previous", "replace"} =>
       disk.candidate = helper.bundle
  /\ helper.at \in {"mkdir", "journal", "half previous", "previous", "replace", "unmark"} =>
       disk.config
  /\ helper.at \in {"journal", "half previous", "previous", "replace", "unmark"} =>
       disk.journal # "none"
  /\ helper.at \in {"replace", "unmark"} /\ helper.marker.old # NoRelease =>
       disk.previous = helper.marker.old
  /\ helper.at = "unmark" => disk.active = helper.bundle

(* The release a marker speaks of can be put back from the disk.              *)
Restorable(m) ==
  /\ m.old \in Release /\ m.old # m.bundle /\ m.config /\ m.journal # "none"
  /\ \/ disk.active = m.old
     \/ disk.active \in {m.bundle, NoRelease} /\ disk.previous = m.old

(* A node that serves has a whole release, or a marker that leads back to one;*)
(* the marker goes only when the old release is the active one again.         *)
ServingInv ==
  serving =>
    /\ disk.config /\ disk.journal # "none"
    /\ disk.marker = Unmarked => disk.active \in Release
    /\ disk.marker # Unmarked => Restorable(disk.marker)
    /\ Working =>
         /\ Restorable(helper.marker)
         /\ disk.marker = Unmarked \/ helper.at \in {"undo config", "undo journal", "undo marker"} =>
              disk.active = helper.marker.old
         /\ helper.at = "undo previous" => disk.previous = helper.marker.old

ReleaseInv == ReleaseTypeOK /\ HelperInv /\ InstallInv /\ ServingInv

LEMMA MarkerFacts ==
  ASSUME NEW m \in Markers
  PROVE  /\ m.bundle \in Release /\ m.old \in Release \cup {NoRelease} /\ m.config \in BOOLEAN
         /\ m.journal \in Journals /\ m # Unmarked
<1>1. m.bundle \in Release /\ m.bundle # NoRelease
  BY ReleaseAssumption DEF Markers
<1>2. Unmarked.bundle = NoRelease
  BY DEF Unmarked
<1> QED BY <1>1, <1>2 DEF Markers

LEMMA GoneFacts ==
  /\ Gone \in Helpers /\ Gone.at = "idle"
BY DEF Gone, Helpers, Unmarked

(* A helper that ends leaves a node that serves only what ServingInv asks of  *)
(* the disk.                                                                  *)
LEMMA HelperEnds ==
  ASSUME ReleaseInv, helper' = Gone, disk' \in Disks, serving' \in BOOLEAN, kills' \in Nat,
         serving' => /\ disk'.config /\ disk'.journal # "none"
                     /\ disk'.marker = Unmarked => disk'.active \in Release
                     /\ disk'.marker # Unmarked => Restorable(disk.marker)'
  PROVE  ReleaseInv'
<1>1. helper' \in Helpers /\ helper'.at = "idle"
  BY GoneFacts
<1>2. ~ Working'
  BY <1>1 DEF Working, Installing, Undoing
<1>3. ReleaseTypeOK' /\ HelperInv' /\ InstallInv'
  BY <1>1, <1>2 DEF ReleaseTypeOK, HelperInv, InstallInv, Installing
<1>4. ServingInv'
  BY <1>2 DEF ServingInv, Restorable
<1> QED BY <1>3, <1>4 DEF ReleaseInv

(* An end that changes at most the candidate, and says nothing of success.    *)
LEMMA QuietEnd ==
  ASSUME ReleaseInv, helper' = Gone, serving' = serving, kills' \in Nat,
         disk' = disk \/ disk' = [disk EXCEPT !.candidate = NoRelease]
  PROVE  ReleaseInv'
<1>1. /\ disk' \in Disks /\ disk'.active = disk.active /\ disk'.previous = disk.previous
      /\ disk'.config = disk.config /\ disk'.journal = disk.journal /\ disk'.marker = disk.marker
  BY DEF ReleaseInv, ReleaseTypeOK, Disks, Files
<1>2. serving' \in BOOLEAN
  BY DEF ReleaseInv, ReleaseTypeOK
<1>3. serving' => /\ disk'.config /\ disk'.journal # "none"
                  /\ disk'.marker = Unmarked => disk'.active \in Release
                  /\ disk'.marker # Unmarked => Restorable(disk.marker)'
  BY <1>1 DEF ReleaseInv, ServingInv, Restorable
<1> QED BY <1>1, <1>2, <1>3, HelperEnds

(* What a move of the helper leaves of it.                                    *)
LEMMA HelperMoves ==
  ASSUME ReleaseTypeOK, NEW to \in Installing \cup Undoing, HelperGoes(to)
  PROVE  /\ helper' \in Helpers /\ helper'.at = to /\ Working'
         /\ helper'.bundle = helper.bundle /\ helper'.marker = helper.marker
         /\ helper'.recovers = helper.recovers
<1>1. helper' = [at |-> to, bundle |-> helper.bundle, marker |-> helper.marker,
                 recovers |-> helper.recovers]
  BY DEF ReleaseTypeOK, Helpers, HelperGoes
<1> QED BY <1>1 DEF ReleaseTypeOK, Helpers, Working

(* A step of the installation that fails leads to the rollback.               *)
LEMMA FailureKeeps ==
  ASSUME ReleaseInv, helper.at \in Installing, HelperGoes("undo candidate"), NodeQuiet,
         UNCHANGED disk
  PROVE  ReleaseInv'
<1>1. /\ helper' \in Helpers /\ helper'.at = "undo candidate" /\ Working' /\ Working
      /\ helper'.bundle = helper.bundle /\ helper'.marker = helper.marker
  BY HelperMoves DEF ReleaseInv, Undoing, Working
<1>2. ReleaseTypeOK' /\ InstallInv'
  BY <1>1 DEF ReleaseInv, ReleaseTypeOK, InstallInv, Installing, NodeQuiet
<1>3. HelperInv'
  BY <1>1 DEF ReleaseInv, HelperInv, Undoing
<1>4. ServingInv'
  BY <1>1 DEF ReleaseInv, ServingInv, Restorable, NodeQuiet
<1> QED BY <1>2, <1>3, <1>4 DEF ReleaseInv

(* The steps of the installation that change the disk, where they succeed.    *)
LEMMA WriteKeeps ==
  ASSUME ReleaseInv, NEW from, NEW to, HelperAt(from), HelperGoes(to), NodeQuiet,
         \/ from = "mark" /\ to = "half candidate" /\ disk' = [disk EXCEPT !.marker = helper.marker]
         \/ from = "half candidate" /\ to = "candidate" /\ disk' = [disk EXCEPT !.candidate = "half"]
         \/ from = "candidate" /\ to = "config" /\ disk' = [disk EXCEPT !.candidate = helper.bundle]
         \/ from = "config" /\ to = "mkdir" /\ disk' = [disk EXCEPT !.config = TRUE]
         \/ /\ from = "mkdir" /\ to = "journal" /\ disk.journal = "none"
            /\ disk' = [disk EXCEPT !.journal = "half"]
         \/ from = "mkdir" /\ to = "half previous" /\ disk.journal # "none" /\ disk' = disk
         \/ from = "journal" /\ to = "half previous" /\ disk' = [disk EXCEPT !.journal = "empty"]
         \/ /\ from = "half previous" /\ to = "previous" /\ disk' = [disk EXCEPT !.previous = "half"]
         \/ /\ from = "half previous" /\ to = "replace" /\ disk.active = NoRelease /\ disk' = disk
         \/ /\ from = "previous" /\ to = "replace"
            /\ disk' = [disk EXCEPT !.previous = helper.marker.old]
  PROVE  ReleaseInv'
<1> USE DEF ReleaseInv
<1>1. /\ from \in Installing \ {"unmark"} /\ to \in Installing \ {"mark", "unmark"}
      /\ helper.at = from
  BY DEF Installing, HelperAt
<1>2. /\ helper' \in Helpers /\ helper'.at = to /\ Working' /\ Working
      /\ helper'.bundle = helper.bundle /\ helper'.marker = helper.marker
  BY <1>1, HelperMoves DEF Working
<1>3. /\ helper.bundle \in Release /\ helper.marker \in Markers /\ helper.marker.bundle = helper.bundle
      /\ disk.marker = IF from = "mark" THEN Unmarked ELSE helper.marker
  BY <1>1, <1>2 DEF HelperInv, Installing, Undoing
<1>4. /\ disk' \in Disks /\ disk'.active = disk.active
      /\ disk'.marker = helper.marker
  BY <1>1, <1>3, MarkerFacts DEF ReleaseTypeOK, Disks, Files, Journals
<1>5. ReleaseTypeOK' /\ HelperInv'
  BY <1>1, <1>2, <1>3, <1>4 DEF ReleaseTypeOK, HelperInv, NodeQuiet, Installing
<1>6. InstallInv'
  BY <1>1, <1>2, <1>3, <1>4 DEF ReleaseTypeOK, Disks, InstallInv, Installing
<1>7. ServingInv'
  <2> SUFFICES ASSUME serving PROVE ServingInv'
    BY DEF ServingInv, NodeQuiet
  <2>1. /\ disk.config /\ disk.journal # "none" /\ Restorable(helper.marker)
        /\ disk.active = helper.marker.old
    BY <1>1, <1>2 DEF ServingInv, InstallInv
  <2>2. disk'.config /\ disk'.journal # "none"
    BY <2>1 DEF ReleaseTypeOK, Disks
  <2>3. Restorable(helper.marker)'
    BY <1>2, <1>4, <2>1 DEF Restorable
  <2>4. helper'.at \notin Undoing /\ disk'.marker # Unmarked
    BY <1>1, <1>2, <1>3, <1>4, MarkerFacts DEF Installing, Undoing
  <2> QED BY <1>2, <1>4, <2>2, <2>3, <2>4 DEF ServingInv, Restorable, Undoing
<1> QED BY <1>5, <1>6, <1>7

(* The active file is replaced by the whole candidate, with the old release   *)
(* beside it.                                                                 *)
LEMMA ReplaceKeeps ==
  ASSUME ReleaseInv, HelperAt("replace"), HelperGoes("unmark"), NodeQuiet,
         disk' = [disk EXCEPT !.active = disk.candidate, !.candidate = NoRelease]
  PROVE  ReleaseInv'
<1> USE DEF ReleaseInv
<1>1. /\ helper' \in Helpers /\ helper'.at = "unmark" /\ Working' /\ Working
      /\ helper'.bundle = helper.bundle /\ helper'.marker = helper.marker
      /\ helper.at = "replace"
  BY HelperMoves DEF Installing, HelperAt, Working
<1>2. /\ helper.bundle \in Release /\ helper.marker \in Markers /\ helper.marker.bundle = helper.bundle
      /\ disk.marker = helper.marker /\ disk.candidate = helper.bundle /\ disk.active = helper.marker.old
      /\ disk.config /\ disk.journal # "none"
      /\ helper.marker.old # NoRelease => disk.previous = helper.marker.old
  BY <1>1 DEF HelperInv, InstallInv, Installing, Undoing
<1>3. disk' = [active |-> helper.bundle, previous |-> disk.previous, candidate |-> NoRelease,
               config |-> disk.config, journal |-> disk.journal, marker |-> disk.marker]
  BY <1>2 DEF ReleaseTypeOK, Disks
<1>4. ReleaseTypeOK' /\ HelperInv' /\ InstallInv'
  BY <1>1, <1>2, <1>3 DEF ReleaseTypeOK, Disks, Files, HelperInv, InstallInv, Installing, NodeQuiet
<1>5. ServingInv'
  <2> SUFFICES ASSUME serving PROVE ServingInv'
    BY DEF ServingInv, NodeQuiet
  <2>1. Restorable(helper.marker)
    BY <1>1 DEF ServingInv
  <2>2. Restorable(helper.marker)' /\ disk'.marker # Unmarked
    BY <1>1, <1>2, <1>3, <2>1, MarkerFacts, ReleaseAssumption DEF Restorable
  <2> QED BY <1>1, <1>2, <1>3, <2>2 DEF ServingInv, Restorable
<1> QED BY <1>4, <1>5

(* The marker goes with the new release in place.                             *)
LEMMA RemoveMarkerKeeps ==
  ASSUME ReleaseInv, RemoveMarker PROVE ReleaseInv'
<1>1. CASE HelperGoes("undo candidate") /\ UNCHANGED disk /\ NodeQuiet
  BY <1>1, FailureKeeps DEF RemoveMarker, HelperAt, Installing
<1>2. CASE disk' = [disk EXCEPT !.marker = Unmarked] /\ Prints("installed")
  <2>1. /\ disk' \in Disks /\ disk'.active = disk.active /\ disk'.config = disk.config
        /\ disk'.journal = disk.journal /\ disk'.marker = Unmarked
    BY <1>2 DEF ReleaseInv, ReleaseTypeOK, Disks
  <2>2. disk.active \in Release /\ disk.config /\ disk.journal # "none"
    BY DEF RemoveMarker, HelperAt, ReleaseInv, HelperInv, InstallInv, Working, Installing
  <2>3. helper' = Gone /\ serving' \in BOOLEAN /\ kills' \in Nat
    BY <1>2 DEF Prints, ReleaseInv, ReleaseTypeOK
  <2> QED BY <2>1, <2>2, <2>3, HelperEnds
<1> QED BY <1>1, <1>2 DEF RemoveMarker

(* The steps of the rollback but the last.                                    *)
LEMMA UndoKeeps ==
  ASSUME ReleaseInv, NEW from, NEW to, HelperAt(from), HelperGoes(to), NodeQuiet,
         \/ /\ from = "undo candidate" /\ to = "undo active"
            /\ disk' = [disk EXCEPT !.candidate = NoRelease]
         \/ /\ from = "undo active" /\ to = "undo config" /\ helper.marker.old = NoRelease
            /\ disk' = [disk EXCEPT !.active = NoRelease]
         \/ /\ from = "undo active" /\ to = "undo previous" /\ helper.marker.old # NoRelease
            /\ disk.active \in {helper.bundle, NoRelease}
            /\ disk' = [disk EXCEPT !.active = NoRelease]
         \/ /\ from = "undo active" /\ to = "undo config" /\ disk.active = helper.marker.old
            /\ disk' = [disk EXCEPT !.previous = NoRelease]
         \/ /\ from = "undo previous" /\ to = "undo config" /\ disk.previous = helper.marker.old
            /\ disk' = [disk EXCEPT !.active = disk.previous, !.previous = NoRelease]
         \/ /\ from = "undo config" /\ to = "undo journal"
            /\ disk' = [disk EXCEPT !.config = @ /\ helper.marker.config]
         \/ /\ from = "undo journal" /\ to = "undo marker"
            /\ disk' = IF helper.marker.journal = "none" THEN [disk EXCEPT !.journal = "none"] ELSE disk
  PROVE  ReleaseInv'
<1> USE DEF ReleaseInv
<1>1. from \in Undoing /\ to \in Undoing \ {"undo candidate"} /\ helper.at = from
  BY DEF Undoing, HelperAt
<1>2. /\ helper' \in Helpers /\ helper'.at = to /\ Working' /\ Working
      /\ helper'.bundle = helper.bundle /\ helper'.marker = helper.marker
      /\ to \notin Installing
  BY <1>1, HelperMoves DEF Working, Undoing, Installing
<1>3. /\ helper.bundle \in Release /\ helper.marker \in Markers /\ helper.marker.bundle = helper.bundle
      /\ disk.marker = Unmarked \/ disk.marker = helper.marker
      /\ helper.marker.old \in Release \cup {NoRelease} /\ helper.marker # Unmarked
  BY <1>2, MarkerFacts DEF HelperInv
<1>4. disk' = [active |-> disk'.active, previous |-> disk'.previous, candidate |-> disk'.candidate,
               config |-> disk'.config, journal |-> disk'.journal, marker |-> disk.marker]
  BY <1>1, <1>3 DEF ReleaseTypeOK, Disks
<1>5. /\ disk'.active \in Release \cup {NoRelease} /\ disk'.previous \in Files
      /\ disk'.candidate \in Files /\ disk'.config \in BOOLEAN /\ disk'.journal \in Journals
  BY <1>1, <1>3 DEF ReleaseTypeOK, Disks, Files, Journals
<1>6. disk' \in Disks /\ disk'.marker = disk.marker
  BY <1>4, <1>5 DEF ReleaseTypeOK, Disks
<1>7. ReleaseTypeOK' /\ HelperInv' /\ InstallInv'
  BY <1>1, <1>2, <1>3, <1>6 DEF ReleaseTypeOK, HelperInv, InstallInv, Undoing, NodeQuiet, Installing
<1>8. ServingInv'
  <2> SUFFICES ASSUME serving PROVE ServingInv'
    BY DEF ServingInv, NodeQuiet
  <2>1. /\ disk.config /\ disk.journal # "none" /\ Restorable(helper.marker)
        /\ disk.marker = Unmarked \/ from \in {"undo config", "undo journal", "undo marker"} =>
             disk.active = helper.marker.old
        /\ from = "undo previous" => disk.previous = helper.marker.old
    BY <1>1, <1>2 DEF ServingInv
  <2>2. /\ helper.marker.old \in Release /\ helper.marker.old # NoRelease
        /\ helper.marker.old # helper.bundle /\ helper.marker.config /\ helper.marker.journal # "none"
    BY <1>3, <2>1, ReleaseAssumption DEF Restorable
  <2>3. disk'.config /\ disk'.journal # "none"
    BY <2>1, <2>2 DEF ReleaseTypeOK, Disks
  <2>4. /\ \/ disk'.active = helper.marker.old
           \/ disk'.active \in {helper.bundle, NoRelease} /\ disk'.previous = helper.marker.old
        /\ disk.marker = Unmarked \/ to \in {"undo config", "undo journal", "undo marker"} =>
             disk'.active = helper.marker.old
        /\ to = "undo previous" => disk'.previous = helper.marker.old
    BY <1>1, <1>3, <2>1, <2>2 DEF ReleaseTypeOK, Disks, Restorable
  <2>5. Restorable(helper.marker)'
    BY <1>2, <1>3, <2>2, <2>4 DEF Restorable
  <2> QED BY <1>2, <1>3, <1>6, <2>2, <2>3, <2>4, <2>5 DEF ServingInv, Restorable
<1> QED BY <1>7, <1>8

(* The marker goes last, with the old release in its place.                   *)
LEMMA UndoMarkerKeeps ==
  ASSUME ReleaseInv, HelperAt("undo marker"), disk' = [disk EXCEPT !.marker = Unmarked],
         helper' = Gone, serving' = serving, kills' = kills
  PROVE  ReleaseInv'
<1>1. /\ disk' \in Disks /\ disk'.active = disk.active /\ disk'.config = disk.config
      /\ disk'.journal = disk.journal /\ disk'.marker = Unmarked
  BY DEF ReleaseInv, ReleaseTypeOK, Disks
<1>2. serving => disk.active \in Release /\ disk.config /\ disk.journal # "none"
  BY DEF HelperAt, ReleaseInv, ServingInv, Working, Undoing, Restorable
<1>3. serving' \in BOOLEAN /\ kills' \in Nat
  BY DEF ReleaseInv, ReleaseTypeOK
<1> QED BY <1>1, <1>2, <1>3, HelperEnds

(* A run that finds a marker takes it over.                                   *)
LEMMA RecoverKeeps ==
  ASSUME ReleaseInv, Recover PROVE ReleaseInv'
<1>1. CASE Prints("incomplete")
  BY <1>1, QuietEnd DEF Recover, Prints, ReleaseInv, ReleaseTypeOK
<1>2. CASE Recoverable /\ NodeQuiet
           /\ helper' = [helper EXCEPT !.at = "undo candidate", !.marker = disk.marker, !.recovers = TRUE]
  <2>1. disk.marker \in Markers /\ helper.bundle \in Release /\ disk.marker.bundle = helper.bundle
        /\ helper \in Helpers
    BY <1>2, MarkerFacts DEF Recover, Recoverable, HelperAt, ReleaseInv, ReleaseTypeOK, Disks, HelperInv
  <2>2. helper' = [at |-> "undo candidate", bundle |-> helper.bundle, marker |-> disk.marker,
                   recovers |-> TRUE]
    BY <1>2, <2>1 DEF Helpers
  <2>3. ReleaseTypeOK' /\ HelperInv' /\ InstallInv'
    BY <1>2, <2>1, <2>2 DEF Recover, NodeQuiet, ReleaseInv, ReleaseTypeOK, Helpers, HelperInv,
       InstallInv, Installing, Undoing
  <2>4. ServingInv'
    BY <1>2, <2>2 DEF Recover, NodeQuiet, ReleaseInv, ServingInv, Restorable
  <2> QED BY <2>3, <2>4 DEF ReleaseInv
<1> QED BY <1>1, <1>2 DEF Recover

(* A run on a node without a marker begins an installation, or ends.          *)
LEMMA BeginKeeps ==
  ASSUME ReleaseInv, Begin PROVE ReleaseInv'
<1>1. disk.marker = Unmarked /\ helper.at = "check" /\ helper.bundle \in Release /\ disk' = disk
      /\ disk \in Disks
  BY DEF Begin, HelperAt, ReleaseInv, HelperInv, ReleaseTypeOK
<1>2. CASE CompleteRelease /\ Prints("installed")
  <2>1. disk.active \in Release /\ disk.config /\ disk.journal # "none"
    BY <1>1, <1>2 DEF CompleteRelease
  <2>2. helper' = Gone /\ serving' \in BOOLEAN /\ kills' \in Nat
    BY <1>2 DEF Prints, ReleaseInv, ReleaseTypeOK
  <2> QED BY <1>1, <2>1, <2>2, HelperEnds
<1>3. CASE Prints("failed")
  BY <1>1, <1>3, QuietEnd DEF Prints, ReleaseInv, ReleaseTypeOK
<1>4. CASE /\ ~CompleteRelease /\ disk.previous = NoRelease /\ NodeQuiet
           /\ helper' = [helper EXCEPT !.at = "mark", !.marker =
                [bundle |-> helper.bundle, old |-> disk.active,
                 config |-> disk.config, journal |-> disk.journal]]
  <2>0. PICK m : m = [bundle |-> helper.bundle, old |-> disk.active,
                      config |-> disk.config, journal |-> disk.journal]
    OBVIOUS
  <2>1. m \in Markers /\ m.bundle = helper.bundle /\ m.old = disk.active /\ m.config = disk.config
        /\ m.journal = disk.journal
    BY <1>1, <2>0 DEF Markers, Disks
  <2>2. helper' = [at |-> "mark", bundle |-> helper.bundle, marker |-> m,
                   recovers |-> helper.recovers]
    BY <1>4, <2>0 DEF ReleaseInv, ReleaseTypeOK, Helpers
  <2>3. ReleaseTypeOK' /\ HelperInv' /\ InstallInv'
    <3>1. helper'.at = "mark" /\ helper'.bundle = helper.bundle /\ helper'.marker = m
      BY <2>2
    <3>2. helper' \in Helpers
      BY <2>1, <2>2 DEF ReleaseInv, ReleaseTypeOK, Helpers, Installing
    <3>3. ReleaseTypeOK'
      BY <1>1, <1>4, <3>2 DEF NodeQuiet, ReleaseInv, ReleaseTypeOK
    <3>4. HelperInv'
      BY <1>1, <2>1, <3>1 DEF HelperInv
    <3>5. InstallInv'
      BY <1>1, <2>1, <3>1 DEF InstallInv
    <3> QED BY <3>3, <3>4, <3>5
  <2>4. ServingInv'
    <3> SUFFICES ASSUME serving PROVE ServingInv'
      BY <1>4 DEF ServingInv, NodeQuiet
    <3>1. disk.active \in Release /\ disk.config /\ disk.journal # "none"
      BY <1>1 DEF ReleaseInv, ServingInv
    <3>2. disk.active # helper.bundle
      BY <1>4, <3>1 DEF CompleteRelease
    <3>3. Restorable(helper.marker)'
      BY <1>1, <2>1, <2>2, <3>1, <3>2 DEF Restorable
    <3> QED BY <1>1, <2>1, <2>2, <3>1, <3>3 DEF ServingInv, Restorable
  <2> QED BY <2>3, <2>4 DEF ReleaseInv
<1> QED BY <1>2, <1>3, <1>4 DEF Begin

(* The order is taken up, the helper is killed, an operation runs.            *)
LEMMA SurroundingsKeep ==
  ASSUME ReleaseInv, (\E b \in Release : Deploy(b)) \/ Kill \/ RunOperation PROVE ReleaseInv'
<1>1. CASE \E b \in Release : Deploy(b)
  <2>1. PICK b \in Release : Deploy(b)
    BY <1>1
  <2>2. helper' = [at |-> "check", bundle |-> b, marker |-> Unmarked, recovers |-> FALSE]
    BY <2>1 DEF Deploy, Gone
  <2>3. helper' \in Helpers /\ helper'.at = "check" /\ helper'.bundle \in Release
    BY <2>2 DEF Helpers
  <2>4. ~ Working'
    BY <2>3 DEF Working, Installing, Undoing
  <2>5. ReleaseTypeOK' /\ HelperInv' /\ InstallInv' /\ ServingInv'
    BY <2>1, <2>3, <2>4 DEF Deploy, NodeQuiet, ReleaseInv, ReleaseTypeOK, HelperInv, InstallInv,
       Installing, ServingInv, Restorable
  <2> QED BY <2>5 DEF ReleaseInv
<1>2. CASE Kill
  <2>1. helper' = Gone /\ disk' = disk /\ serving' = serving /\ kills' = kills + 1 /\ kills \in Nat
    BY <1>2 DEF Kill, ReleaseInv, ReleaseTypeOK
  <2>2. kills' \in Nat
    BY ONLY <2>1
  <2> QED BY <2>1, <2>2, QuietEnd
<1>3. CASE RunOperation
  <2>1. /\ serving /\ disk.journal = "empty" /\ disk' = [disk EXCEPT !.journal = "used"]
        /\ UNCHANGED <<helper, serving, kills>>
    BY <1>3 DEF RunOperation
  <2>2. /\ disk' \in Disks /\ disk'.active = disk.active /\ disk'.previous = disk.previous
        /\ disk'.candidate = disk.candidate /\ disk'.config = disk.config
        /\ disk'.journal = "used" /\ disk'.marker = disk.marker
    BY <2>1 DEF ReleaseInv, ReleaseTypeOK, Disks, Journals
  <2>3. ReleaseTypeOK' /\ HelperInv' /\ InstallInv' /\ ServingInv'
    BY <2>1, <2>2 DEF ReleaseInv, ReleaseTypeOK, HelperInv, InstallInv, ServingInv, Working, Restorable
  <2> QED BY <2>3 DEF ReleaseInv
<1> QED BY <1>1, <1>2, <1>3

(* The installation, step by step: it fails, or it is one of the writes.      *)
LEMMA InstallationKeeps ==
  ASSUME ReleaseInv,
         \/ WriteMarker \/ BeginCandidate \/ WriteCandidate \/ CreateConfig \/ CreateJournal
         \/ InitializeJournal \/ BeginPrevious \/ WritePrevious \/ ReplaceActive
  PROVE  ReleaseInv'
<1>1. ASSUME NEW from \in Installing, NEW to, NEW change, Writes(from, to, change),
             ~ (disk' = change /\ HelperGoes(to))
      PROVE  ReleaseInv'
  BY <1>1, FailureKeeps DEF Writes, HelperAt
<1>2. CASE WriteMarker
  BY <1>1, <1>2, WriteKeeps DEF WriteMarker, Writes, Installing
<1>3. CASE BeginCandidate \/ WriteCandidate
  BY <1>1, <1>3, WriteKeeps DEF BeginCandidate, WriteCandidate, Writes, Installing
<1>4. CASE CreateConfig
  BY <1>1, <1>4, WriteKeeps DEF CreateConfig, Writes, Installing
<1>5. CASE CreateJournal
  BY <1>1, <1>5, WriteKeeps DEF CreateJournal, Writes, Skips, Installing
<1>6. CASE InitializeJournal
  BY <1>1, <1>6, WriteKeeps DEF InitializeJournal, Writes, Installing
<1>7. CASE BeginPrevious
  BY <1>1, <1>7, WriteKeeps DEF BeginPrevious, Writes, Skips, Installing
<1>8. CASE WritePrevious
  BY <1>1, <1>8, WriteKeeps DEF WritePrevious, Writes, Installing
<1>9. CASE ReplaceActive
  BY <1>1, <1>9, ReplaceKeeps DEF ReplaceActive, Writes, Installing
<1> QED BY <1>2, <1>3, <1>4, <1>5, <1>6, <1>7, <1>8, <1>9

(* The rollback, step by step: it gives up, or it is one of the undo steps.   *)
LEMMA RollbackKeeps ==
  ASSUME ReleaseInv,
         UndoCandidate \/ UndoActive \/ UndoPrevious \/ UndoConfig \/ UndoJournal \/ UndoMarker
  PROVE  ReleaseInv'
<1>1. ASSUME GivesUp PROVE ReleaseInv'
  BY <1>1, QuietEnd DEF GivesUp, Prints, ReleaseInv, ReleaseTypeOK
<1>2. CASE UndoCandidate
  BY <1>1, <1>2, UndoKeeps DEF UndoCandidate, Undone
<1>3. CASE UndoActive
  BY <1>1, <1>3, UndoKeeps DEF UndoActive, Undone
<1>4. CASE UndoPrevious
  BY <1>1, <1>4, UndoKeeps DEF UndoPrevious, Undone
<1>5. CASE UndoConfig
  BY <1>5, UndoKeeps DEF UndoConfig, Undone
<1>6. CASE UndoJournal
  BY <1>6, UndoKeeps DEF UndoJournal, Undone
<1>7. CASE UndoMarker
  BY <1>1, <1>7, UndoMarkerKeeps DEF UndoMarker, Prints
<1> QED BY <1>2, <1>3, <1>4, <1>5, <1>6, <1>7

LEMMA NextReleaseInv == ReleaseInv /\ [ReleaseNext]_releaseVars => ReleaseInv'
<1>1. ReleaseInv /\ UNCHANGED releaseVars => ReleaseInv'
  <2> SUFFICES ASSUME ReleaseInv, UNCHANGED releaseVars PROVE ReleaseInv'
    OBVIOUS
  <2>1. disk' = disk /\ helper' = helper /\ serving' = serving /\ kills' = kills
    BY DEF releaseVars
  <2>2. ReleaseTypeOK'
    BY <2>1 DEF ReleaseInv, ReleaseTypeOK
  <2>3. HelperInv'
    BY <2>1 DEF ReleaseInv, HelperInv, Working
  <2>4. InstallInv'
    BY <2>1 DEF ReleaseInv, InstallInv
  <2>5. ServingInv'
    BY <2>1 DEF ReleaseInv, ServingInv, Working, Restorable
  <2> QED BY <2>2, <2>3, <2>4, <2>5 DEF ReleaseInv
<1> QED BY <1>1, SurroundingsKeep, RecoverKeeps, BeginKeeps, InstallationKeeps, RemoveMarkerKeeps,
           RollbackKeeps DEF ReleaseNext

(* Whatever fails and wherever the helper is killed, in an installation or in *)
(* the rollback of one, any number of times: a node that serves keeps a whole *)
(* release to serve with and the journal of what it has run.                  *)
THEOREM ReleasesSurviveKills == ReleaseSpec => []ReleaseSurvives
<1>1. ReleaseInit => ReleaseInv
  <2> SUFFICES ASSUME ReleaseInit PROVE ReleaseInv
    OBVIOUS
  <2>1. helper \in Helpers /\ helper.at = "idle" /\ serving = FALSE
    BY GoneFacts DEF ReleaseInit
  <2>2. disk \in Disks /\ kills \in Nat
    BY DEF ReleaseInit, Disks, Files, Journals
  <2>3. ~ Working
    BY <2>1 DEF Working, Installing, Undoing
  <2> QED BY <2>1, <2>2, <2>3 DEF ReleaseInv, ReleaseTypeOK, HelperInv, InstallInv, Installing, ServingInv
<1>2. ReleaseInv /\ [ReleaseNext]_releaseVars => ReleaseInv'
  BY NextReleaseInv
<1>3. ReleaseInv => ReleaseSurvives
  BY DEF ReleaseInv, ServingInv, Restorable, ReleaseSurvives
<1> QED BY <1>1, <1>2, <1>3, PTL DEF ReleaseSpec

-----------------------------------------------------------------------------
(* The daily backup                                                           *)

Named == Stamp \cup {0}
SetRecords == [place: {"none", "partial", "final", "removed"}, has: SUBSET Piece, torn: BOOLEAN]
Place == 1..LastSource
Starting == [step: {"dump", "open"}, set: Stamp, at: Place]
Copying == [step: {"copy", "manifest", "metadata", "promote"}, set: Stamp, at: Place, seen: Nat]
Publishing == [step: {"mark", "sync", "retain", "restore", "demote"}, set: Stamp, previous: Named]
Retaining == [step: {"remove", "retain"}, set: Stamp, old: Stamp]

BackupTypeOK ==
  /\ sets \in [Stamp -> SetRecords] /\ latest \in Named /\ source \in [Place -> Nat]
  /\ backup \in {NoBackup} \cup Starting \cup Copying \cup Publishing \cup Retaining
  /\ published \in BOOLEAN

(* A set is made in order, and is partial and whole-copied until it is done.  *)
Made == [dump |-> {}, open |-> {"dump"}, copy |-> {"dump"}, manifest |-> {"dump", "copies"},
         metadata |-> {"dump", "copies", "manifest"}, promote |-> Piece]
SetInv ==
  /\ \A s \in Stamp : sets[s].place = "none" => sets[s] = Unnamed
  /\ backup.step \in DOMAIN Made =>
       Own.place = "partial" /\ ~Own.torn /\ Own.has = Made[backup.step]

(* While a set is published the marker names it or the one before, both are   *)
(* complete, and retention never holds the one the marker names.              *)
MarkInv ==
  /\ backup.step \in {"mark", "sync", "restore"} =>
       /\ Complete(backup.set) /\ backup.previous # backup.set
       /\ backup.previous # 0 => Complete(backup.previous)
       /\ published => backup.previous # 0
  /\ backup.step = "mark" => latest = backup.previous
  /\ backup.step \in {"sync", "restore", "retain", "remove"} => latest = backup.set
  /\ backup.step = "demote" => latest # backup.set
  /\ backup.step = "remove" => backup.old # latest /\ sets[backup.old].place # "none"

LatestInv == (latest # 0 => Complete(latest)) /\ (published => latest # 0)

BackupInv == BackupTypeOK /\ SetInv /\ MarkInv /\ LatestInv

LEMMA ZeroIsNoStamp == 0 \notin Stamp
BY DEF Stamp

(* Which record the process has at which step.                                *)
LEMMA BackupRecords ==
  ASSUME BackupTypeOK
  PROVE  /\ backup.step \in {"dump", "open"} => backup \in Starting
         /\ backup.step \in {"copy", "manifest", "metadata", "promote"} => backup \in Copying
         /\ backup.step \in {"mark", "sync", "restore", "demote"} => backup \in Publishing
         /\ backup.step = "retain" => backup \in Publishing \/ backup \in Retaining
         /\ backup.step = "remove" => backup \in Retaining
         /\ backup.step # "idle" => backup.set \in Stamp
BY DEF BackupTypeOK, NoBackup, Starting, Copying, Publishing, Retaining

LEMMA BackupMoves ==
  ASSUME NEW step, Moves(step)
  PROVE  /\ backup \in Starting /\ step \in {"dump", "open"} =>
              /\ backup' \in Starting /\ backup'.step = step /\ backup'.set = backup.set
              /\ backup'.at = backup.at
         /\ backup \in Copying /\ step \in {"copy", "manifest", "metadata", "promote"} =>
              /\ backup' \in Copying /\ backup'.step = step /\ backup'.set = backup.set
              /\ backup'.seen = backup.seen
         /\ backup \in Publishing /\ step \in {"mark", "sync", "retain", "restore", "demote"} =>
              /\ backup' \in Publishing /\ backup'.step = step /\ backup'.set = backup.set
              /\ backup'.previous = backup.previous
         /\ backup \in Retaining /\ step \in {"remove", "retain"} =>
              /\ backup' \in Retaining /\ backup'.step = step /\ backup'.set = backup.set
              /\ backup'.old = backup.old
<1>1. CASE backup \in Starting
  BY <1>1 DEF Moves, Starting, Copying, Publishing, Retaining
<1>2. CASE backup \in Copying
  BY <1>2 DEF Moves, Starting, Copying, Publishing, Retaining
<1>3. CASE backup \in Publishing
  BY <1>3 DEF Moves, Starting, Copying, Publishing, Retaining
<1>4. CASE backup \in Retaining
  BY <1>4 DEF Moves, Starting, Copying, Publishing, Retaining
<1> QED BY <1>1, <1>2, <1>3, <1>4

(* A change of one set leaves the others what they are.                       *)
LEMMA OneSet ==
  ASSUME BackupTypeOK, NEW t \in Stamp, NEW r \in SetRecords, sets' = [sets EXCEPT ![t] = r]
  PROVE  /\ sets' \in [Stamp -> SetRecords] /\ sets'[t] = r
         /\ \A s \in Stamp : s # t => sets'[s] = sets[s]
BY DEF BackupTypeOK

(* A change of a set the marker does not name, by a process that is making    *)
(* one or clears one away.                                                    *)
LEMMA LatestStays ==
  ASSUME BackupInv, NEW t \in Stamp, t # latest, UNCHANGED <<latest, published>>,
         \A s \in Stamp : s # t => sets'[s] = sets[s]
  PROVE  LatestInv'
BY DEF BackupInv, BackupTypeOK, LatestInv, Complete, Named

(* A process that ends, whatever it leaves of a set the marker does not name. *)
LEMMA BackupEnds ==
  ASSUME BackupInv, Stops, Keeps,
         \/ UNCHANGED sets
         \/ \E t \in Stamp \ {latest}, r \in SetRecords :
              sets' = [sets EXCEPT ![t] = r] /\ r.place # "none"
  PROVE  BackupInv'
<1>1. backup' = NoBackup /\ backup'.step = "idle"
  BY DEF Stops, NoBackup
<1>2. CASE UNCHANGED sets
  <2>1. BackupTypeOK' /\ SetInv' /\ MarkInv'
    BY <1>1, <1>2 DEF Keeps, BackupInv, BackupTypeOK, SetInv, MarkInv, Made
  <2>2. LatestInv'
    BY <1>2 DEF Keeps, BackupInv, LatestInv, Complete
  <2> QED BY <2>1, <2>2 DEF BackupInv
<1>3. CASE \E t \in Stamp \ {latest}, r \in SetRecords :
              sets' = [sets EXCEPT ![t] = r] /\ r.place # "none"
  <2>1. PICK t \in Stamp \ {latest}, r \in SetRecords :
          sets' = [sets EXCEPT ![t] = r] /\ r.place # "none"
    BY <1>3
  <2>2. /\ sets' \in [Stamp -> SetRecords] /\ sets'[t] = r
        /\ \A s \in Stamp : s # t => sets'[s] = sets[s]
    BY <2>1, OneSet DEF BackupInv
  <2>3. BackupTypeOK' /\ SetInv' /\ MarkInv'
    BY <1>1, <2>1, <2>2 DEF Keeps, BackupInv, BackupTypeOK, SetInv, MarkInv, Made
  <2>4. LatestInv'
    BY <2>1, <2>2, LatestStays DEF Keeps
  <2> QED BY <2>3, <2>4 DEF BackupInv
<1> QED BY <1>2, <1>3

(* A set that is not in its place yet is not the one the marker names.        *)
LEMMA UnpublishedIsNotLatest ==
  ASSUME BackupInv, NEW t \in Stamp, sets[t].place # "final" PROVE t # latest
BY ZeroIsNoStamp DEF BackupInv, LatestInv, Complete

(* A step that makes more of the set, in the order of Made.                   *)
LEMMA MakingKeeps ==
  ASSUME BackupInv, NEW t \in Stamp, NEW r \in SetRecords, sets' = [sets EXCEPT ![t] = r],
         sets[t].place # "final", r.place = "partial", ~r.torn,
         backup' \in Starting \cup Copying, backup'.set = t, backup'.step \in DOMAIN Made,
         r.has = Made[backup'.step], Keeps
  PROVE  BackupInv'
<1>1. /\ sets' \in [Stamp -> SetRecords] /\ sets'[t] = r
      /\ \A s \in Stamp : s # t => sets'[s] = sets[s]
  BY OneSet DEF BackupInv
<1>2. BackupTypeOK'
  BY <1>1 DEF BackupInv, BackupTypeOK, Keeps
<1>3. SetInv'
  BY <1>1 DEF BackupInv, SetInv, Own
<1>4. MarkInv'
  BY DEF MarkInv, Made
<1>5. LatestInv'
  BY <1>1, UnpublishedIsNotLatest, LatestStays DEF Keeps
<1> QED BY <1>2, <1>3, <1>4, <1>5 DEF BackupInv

(* What one more part, or another place, makes of a set.                      *)
LEMMA SetChanges ==
  ASSUME NEW o \in SetRecords, NEW r
  PROVE  /\ \A part \in Piece : r = [o EXCEPT !.has = @ \cup {part}] =>
              /\ r \in SetRecords /\ r.place = o.place /\ r.has = o.has \cup {part}
              /\ r.torn = o.torn
         /\ \A part \in Piece : r = [o EXCEPT !.has = @ \ {part}] =>
              r \in SetRecords /\ r.place = o.place
         /\ \A place \in {"partial", "final", "removed"} : r = [o EXCEPT !.place = place] =>
              r \in SetRecords /\ r.place = place /\ r.has = o.has /\ r.torn = o.torn
BY DEF SetRecords, Piece

LEMMA OwnSet ==
  ASSUME BackupInv, backup.step # "idle" PROVE backup.set \in Stamp /\ Own \in SetRecords
BY BackupRecords DEF BackupInv, BackupTypeOK, Own

LEMMA CreateSetKeeps ==
  ASSUME BackupInv, NEW s \in Stamp, CreateSet(s) PROVE BackupInv'
<1>1. sets[s] = Unnamed /\ sets[s] \in SetRecords /\ sets \in [Stamp -> SetRecords]
  BY DEF CreateSet, BackupInv, BackupTypeOK, SetInv
<1>2. PICK r : r = [sets[s] EXCEPT !.place = "partial"]
  OBVIOUS
<1>3. r \in SetRecords /\ r.place = "partial" /\ r.has = {} /\ ~ r.torn
  BY <1>1, <1>2, SetChanges DEF Unnamed
<1>4. sets' = [sets EXCEPT ![s] = r]
  BY <1>1, <1>2 DEF CreateSet
<1>5. backup' \in Starting /\ backup'.step = "dump" /\ backup'.set = s
  BY LastSourceAssumption DEF CreateSet, Starting, Place
<1>6. "dump" \in DOMAIN Made /\ Made["dump"] = {}
  BY DEF Made
<1> QED BY <1>1, <1>3, <1>4, <1>5, <1>6, MakingKeeps DEF CreateSet, Unnamed

(* The steps that write the dump, the copies, the manifest and the metadata.  *)
LEMMA MakeSteps ==
  ASSUME BackupInv, DumpDatabase \/ ScanSource \/ CopySource \/ WriteManifest \/ WriteMetadata
  PROVE  BackupInv'
<1> USE DEF Doing
<1>1. backup.step \in {"dump", "open", "copy", "manifest", "metadata"}
  BY DEF DumpDatabase, ScanSource, CopySource, WriteManifest, WriteMetadata
<1>2. /\ backup.set \in Stamp /\ Own \in SetRecords /\ Own.place = "partial" /\ ~Own.torn
      /\ Own.has = Made[backup.step] /\ backup \in Starting \cup Copying
  BY <1>1, OwnSet, BackupRecords DEF BackupInv, SetInv, Made
<1>3. ASSUME NEW r \in SetRecords, NEW step \in DOMAIN Made, Holds(r), r.place = "partial",
             r.has = Made[step], ~r.torn,
             backup' \in Starting \cup Copying, backup'.set = backup.set, backup'.step = step, Keeps
      PROVE  BackupInv'
  BY <1>2, <1>3, MakingKeeps DEF Holds, Own
<1>4. ASSUME NEW part \in Piece, Holds([Own EXCEPT !.has = @ \cup {part}]),
             NEW step \in DOMAIN Made, Made[step] = Own.has \cup {part},
             backup' \in Starting \cup Copying, backup'.set = backup.set, backup'.step = step, Keeps
      PROVE  BackupInv'
  <2>1. PICK r : r = [Own EXCEPT !.has = @ \cup {part}]
    OBVIOUS
  <2>2. r \in SetRecords /\ r.place = "partial" /\ ~r.torn /\ r.has = Made[step]
    BY <1>2, <1>4, <2>1, SetChanges
  <2> QED BY <1>3, <1>4, <2>1, <2>2
<1>5. CASE DumpDatabase
  <2>1. backup.step = "dump" /\ backup \in Starting /\ Made["open"] = Own.has \cup {"dump"}
    BY <1>2, <1>5, BackupRecords DEF DumpDatabase, Made, BackupInv
  <2> QED BY <1>4, <1>5, <2>1, BackupMoves DEF DumpDatabase, Made, Piece
<1>6. CASE ScanSource
  <2>1. backup.step = "open" /\ Own.has = Made["copy"] /\ backup \in Starting
    BY <1>2, <1>6, BackupRecords DEF ScanSource, Made, BackupInv
  <2>2. Holds(Own)
    BY <1>2, <1>6 DEF ScanSource, Holds, Own, BackupInv, BackupTypeOK
  <2>3. CopiedSource \in Nat /\ backup.at \in Place
    BY <2>1 DEF CopiedSource, Starting, BackupInv, BackupTypeOK
  <2>4. backup' \in Copying /\ backup'.step = "copy" /\ backup'.set = backup.set
    BY <1>2, <1>6, <2>3 DEF ScanSource, Copying
  <2> QED BY <1>2, <1>3, <1>6, <2>1, <2>2, <2>4 DEF ScanSource, Made
<1>7. CASE CopySource
  <2>1. CASE Stops /\ UNCHANGED sets
    BY <1>7, <2>1, BackupEnds DEF CopySource
  <2>2. CASE Stable
    <3>1. /\ backup \in Copying /\ backup.at \in Place /\ (CopiedSource # backup.seen) = FALSE
          /\ Made["manifest"] = Own.has \cup {"copies"} /\ Own.has = Made["open"]
      BY <1>2, <1>7, <2>2, BackupRecords DEF CopySource, Made, BackupInv, Stable, Copying
    <3>2. CASE /\ backup.at < LastSource
               /\ Holds([Own EXCEPT !.torn = @ \/ CopiedSource # backup.seen])
               /\ backup' = [step |-> "open", set |-> backup.set, at |-> backup.at + 1]
      <4>1. [Own EXCEPT !.torn = @ \/ CopiedSource # backup.seen] = Own
        BY <1>2, <3>1 DEF SetRecords
      <4>2. backup.at + 1 \in Place
        BY <3>1, <3>2, LastSourceAssumption DEF Place
      <4>3. backup' \in Starting /\ backup'.set = backup.set /\ backup'.step = "open"
        BY <1>2, <3>2, <4>2 DEF Starting
      <4>4. "open" \in DOMAIN Made
        BY DEF Made
      <4> QED BY <1>2, <1>3, <1>7, <3>1, <3>2, <4>1, <4>3, <4>4 DEF CopySource
    <3>3. CASE /\ Moves("manifest")
               /\ Holds([Own EXCEPT !.has = @ \cup {"copies"}, !.torn = @ \/ CopiedSource # backup.seen])
      <4>1. PICK r : r = [Own EXCEPT !.has = @ \cup {"copies"}, !.torn = @ \/ CopiedSource # backup.seen]
        OBVIOUS
      <4>2. r \in SetRecords /\ r.place = "partial" /\ ~r.torn /\ r.has = Made["manifest"]
        BY <1>2, <3>1, <4>1 DEF SetRecords, Piece
      <4> QED BY <1>3, <1>7, <3>1, <3>3, <4>1, <4>2, BackupMoves DEF CopySource, Made
    <3> QED BY <1>7, <2>2, <3>2, <3>3 DEF CopySource
  <2> QED BY <1>7, <2>1, <2>2 DEF CopySource
<1>8. CASE WriteManifest
  <2>1. backup \in Copying /\ Made["metadata"] = Own.has \cup {"manifest"}
    BY <1>2, <1>8, BackupRecords DEF WriteManifest, Made, BackupInv
  <2> QED BY <1>4, <1>8, <2>1, BackupMoves DEF WriteManifest, Made, Piece
<1>9. CASE WriteMetadata
  <2>1. backup \in Copying /\ Made["promote"] = Own.has \cup {"metadata"}
    BY <1>2, <1>9, BackupRecords DEF WriteMetadata, Made, BackupInv, Piece
  <2> QED BY <1>4, <1>9, <2>1, BackupMoves DEF WriteMetadata, Made, Piece
<1> QED BY <1>5, <1>6, <1>7, <1>8, <1>9

(* The set gets its name while the marker still names the one before.         *)
LEMMA PromoteSetKeeps ==
  ASSUME BackupInv, PromoteSet PROVE BackupInv'
<1>1. /\ backup.step = "promote" /\ backup.set \in Stamp /\ Own \in SetRecords
      /\ Own.place = "partial" /\ ~Own.torn /\ Own.has = Piece
  BY OwnSet DEF PromoteSet, Doing, BackupInv, SetInv, Made
<1>2. PICK r : r = [Own EXCEPT !.place = "final"]
  OBVIOUS
<1>3. r \in SetRecords /\ r.place = "final" /\ r.has = Piece /\ ~r.torn
  BY <1>1, <1>2, SetChanges
<1>4. sets' = [sets EXCEPT ![backup.set] = r]
  BY <1>2 DEF PromoteSet, Holds
<1>5. /\ sets' \in [Stamp -> SetRecords] /\ sets'[backup.set] = r
      /\ \A s \in Stamp : s # backup.set => sets'[s] = sets[s]
  BY <1>1, <1>3, <1>4, OneSet DEF BackupInv
<1>6. backup.set # latest
  BY <1>1, UnpublishedIsNotLatest DEF Own
<1>7. /\ backup' \in Publishing /\ backup'.step = "mark" /\ backup'.set = backup.set
      /\ backup'.previous = latest
  BY <1>1 DEF PromoteSet, Publishing, BackupInv, BackupTypeOK
<1>8. LatestInv'
  BY <1>1, <1>5, <1>6, LatestStays DEF PromoteSet, Keeps
<1>9. BackupTypeOK'
  BY <1>5, <1>7 DEF PromoteSet, Keeps, BackupInv, BackupTypeOK
<1>10. SetInv'
  BY <1>1, <1>3, <1>5, <1>7 DEF BackupInv, SetInv, Made
<1>11. Complete(backup.set)'
  BY <1>3, <1>5, <1>7 DEF Complete
<1>12. MarkInv'
  BY <1>6, <1>7, <1>8, <1>11 DEF MarkInv, LatestInv, PromoteSet, Keeps
<1> QED BY <1>8, <1>9, <1>10, <1>12 DEF BackupInv

(* The marker is replaced, is on the disk, or goes back.                      *)
LEMMA MarkerKeeps ==
  ASSUME BackupInv, ReplaceMarker \/ MarkerSynced \/ PublishFails \/ RestoreMarker
  PROVE  BackupInv'
<1> USE DEF Doing
<1>1. /\ backup.step \in {"mark", "sync", "restore"} /\ sets' = sets /\ source' = source
      /\ backup \in Publishing /\ backup.set \in Stamp /\ backup.previous \in Named
  BY BackupRecords DEF ReplaceMarker, MarkerSynced, PublishFails, RestoreMarker, Keeps, BackupInv,
     Publishing
<1>2. /\ Complete(backup.set) /\ backup.previous # backup.set
      /\ backup.previous # 0 => Complete(backup.previous)
      /\ published => backup.previous # 0
      /\ backup.step = "mark" => latest = backup.previous
      /\ backup.step \in {"sync", "restore"} => latest = backup.set
  BY <1>1 DEF BackupInv, MarkInv
<1>3. \A s : Complete(s)' <=> Complete(s)
  BY <1>1 DEF Complete
<1>4. CASE RestoreMarker /\ Stops /\ UNCHANGED latest
  BY <1>1, <1>4, BackupEnds DEF RestoreMarker, Keeps
<1>5. ASSUME NEW step \in {"sync", "retain", "restore", "demote"}, Moves(step),
             latest' \in Named, published' \in BOOLEAN,
             step \in {"sync", "retain", "restore"} => latest' = backup.set,
             step = "demote" => latest' = backup.previous,
             step \in {"sync", "restore"} => published' = published,
             step = "demote" => published' = published
      PROVE  BackupInv'
  <2>1. /\ backup' \in Publishing /\ backup'.step = step /\ backup'.set = backup.set
        /\ backup'.previous = backup.previous
    BY <1>1, <1>5, BackupMoves
  <2>2. BackupTypeOK'
    BY <1>1, <1>5, <2>1 DEF BackupInv, BackupTypeOK
  <2>3. SetInv'
    BY <1>1, <1>5, <2>1 DEF BackupInv, SetInv, Made
  <2>4. MarkInv'
    BY <1>2, <1>3, <1>5, <2>1 DEF MarkInv
  <2>5. LatestInv'
    BY <1>1, <1>2, <1>3, <1>5, ZeroIsNoStamp DEF LatestInv
  <2> QED BY <2>2, <2>3, <2>4, <2>5 DEF BackupInv
<1>6. CASE ReplaceMarker
  BY <1>1, <1>5, <1>6 DEF ReplaceMarker, BackupInv, BackupTypeOK, Named
<1>7. CASE MarkerSynced
  BY <1>1, <1>2, <1>5, <1>7 DEF MarkerSynced, BackupInv, BackupTypeOK
<1>8. CASE PublishFails
  <2>1. latest = backup.set <=> backup.step = "sync"
    BY <1>2, <1>8 DEF PublishFails
  <2>2. UNCHANGED <<latest, published>> /\ latest \in Named /\ published \in BOOLEAN
    BY <1>8 DEF PublishFails, Keeps, BackupInv, BackupTypeOK
  <2>3. Moves(IF latest = backup.set THEN "restore" ELSE "demote")
    BY <1>8 DEF PublishFails
  <2>4. CASE latest = backup.set
    BY <1>5, <2>2, <2>3, <2>4
  <2>5. CASE latest # backup.set
    <3>1. latest = backup.previous
      BY <1>2, <1>8, <2>1, <2>5 DEF PublishFails
    <3> QED BY <1>5, <2>2, <2>3, <2>5, <3>1
  <2> QED BY <2>4, <2>5
<1>9. CASE RestoreMarker /\ latest' = backup.previous /\ Moves("demote")
  BY <1>1, <1>5, <1>9 DEF RestoreMarker, BackupInv, BackupTypeOK
<1> QED BY <1>4, <1>6, <1>7, <1>8, <1>9 DEF RestoreMarker

(* Retention chooses among the sets that are not kept, and the one the marker *)
(* names is the process's own, which is kept.                                 *)
LEMMA RetentionKeeps ==
  ASSUME BackupInv, ChooseOld \/ RemoveOld PROVE BackupInv'
<1> USE DEF Doing
<1>1. CASE ChooseOld
  <2>1. PICK s \in Doomed : backup' = [step |-> "remove", set |-> backup.set, old |-> s]
    BY <1>1 DEF ChooseOld
  <2>2. /\ backup.step = "retain" /\ backup.set = latest /\ backup.set \in Stamp
        /\ UNCHANGED <<sets, latest, source, published>>
    BY <1>1, BackupRecords DEF ChooseOld, Keeps, BackupInv, MarkInv
  <2>3. s \in Stamp /\ s # backup.set /\ sets[s].place = "final"
    BY DEF Doomed, Kept, Candidates, Trusted
  <2>4. backup' \in Retaining /\ backup'.step = "remove" /\ backup'.set = backup.set /\ backup'.old = s
    BY <2>1, <2>2, <2>3 DEF Retaining
  <2>5. BackupTypeOK' /\ SetInv' /\ MarkInv'
    BY <2>2, <2>3, <2>4 DEF BackupInv, BackupTypeOK, SetInv, Made, MarkInv
  <2>6. LatestInv'
    BY <2>2 DEF BackupInv, LatestInv, Complete
  <2> QED BY <2>5, <2>6 DEF BackupInv
<1>2. CASE RemoveOld
  <2>1. /\ backup.step = "remove" /\ backup \in Retaining /\ backup.old \in Stamp
        /\ backup.old # latest /\ latest = backup.set /\ sets[backup.old].place # "none"
        /\ sets[backup.old] \in SetRecords /\ sets \in [Stamp -> SetRecords]
        /\ UNCHANGED <<latest, source, published>>
    BY <1>2, BackupRecords DEF RemoveOld, Keeps, BackupInv, BackupTypeOK, MarkInv, Retaining
  <2>2. \E r \in SetRecords :
          /\ sets' = [sets EXCEPT ![backup.old] = r] /\ r.place # "none"
    <3>1. CASE \E p \in Piece : sets' = [sets EXCEPT ![backup.old].has = @ \ {p}]
      <4>1. PICK p \in Piece : sets' = [sets EXCEPT ![backup.old].has = @ \ {p}]
        BY <3>1
      <4>2. PICK r : r = [sets[backup.old] EXCEPT !.has = @ \ {p}]
        OBVIOUS
      <4>3. r \in SetRecords /\ r.place # "none"
        BY <2>1, <4>2, SetChanges
      <4>4. sets' = [sets EXCEPT ![backup.old] = r]
        BY <2>1, <4>1, <4>2
      <4> QED BY <4>3, <4>4
    <3>2. CASE sets' = [sets EXCEPT ![backup.old].place = "removed"]
      <4>1. PICK r : r = [sets[backup.old] EXCEPT !.place = "removed"]
        OBVIOUS
      <4> QED BY <2>1, <3>2, <4>1, SetChanges
    <3>3. "copies" \in Piece /\ sets[backup.old].has \subseteq Piece
      BY <2>1 DEF Piece, SetRecords
    <3> QED BY <1>2, <3>1, <3>2, <3>3 DEF RemoveOld
  <2>3. PICK r \in SetRecords :
          /\ sets' = [sets EXCEPT ![backup.old] = r] /\ r.place # "none"
    BY <2>2
  <2>4. /\ sets' \in [Stamp -> SetRecords] /\ sets'[backup.old] = r
        /\ \A s \in Stamp : s # backup.old => sets'[s] = sets[s]
    BY <2>1, <2>3, OneSet DEF BackupInv
  <2>5. /\ backup' \in Retaining /\ backup'.step \in {"remove", "retain"}
        /\ backup'.set = backup.set /\ backup'.old = backup.old
    BY <1>2, <2>1, BackupMoves DEF RemoveOld
  <2>6. BackupTypeOK' /\ SetInv' /\ MarkInv'
    BY <2>1, <2>3, <2>4, <2>5 DEF BackupInv, BackupTypeOK, SetInv, Made, MarkInv
  <2>7. LatestInv'
    BY <2>1, <2>4, LatestStays
  <2> QED BY <2>6, <2>7 DEF BackupInv
<1> QED BY <1>1, <1>2

(* The steps that end the process, and an edit of the sources.                *)
LEMMA EndsKeep ==
  ASSUME BackupInv, Fails \/ DemoteSet \/ FinishBackup \/ KillBackup \/ (\E n \in 1..LastSource : EditSource(n))
  PROVE  BackupInv'
<1>1. CASE Fails \/ FinishBackup \/ KillBackup
  BY <1>1, BackupEnds DEF Fails, FinishBackup, KillBackup
<1>2. CASE DemoteSet
  <2>1. CASE UNCHANGED sets
    BY <1>2, <2>1, BackupEnds DEF DemoteSet
  <2>2. CASE Holds([Own EXCEPT !.place = "partial"])
    <3>1. backup.set \in Stamp \ {latest} /\ Own \in SetRecords
      BY <1>2, OwnSet DEF DemoteSet, Doing, BackupInv, MarkInv
    <3>2. PICK r : r = [Own EXCEPT !.place = "partial"]
      OBVIOUS
    <3>3. r \in SetRecords /\ r.place # "none" /\ sets' = [sets EXCEPT ![backup.set] = r]
      BY <2>2, <3>1, <3>2, SetChanges DEF Holds
    <3> QED BY <1>2, <3>1, <3>3, BackupEnds DEF DemoteSet
  <2> QED BY <1>2, <2>1, <2>2 DEF DemoteSet
<1>3. ASSUME NEW n \in 1..LastSource, EditSource(n)
      PROVE  BackupInv'
  <2>1. /\ source \in [Place -> Nat] /\ source' = [source EXCEPT ![n] = @ + 1] /\ n \in Place
        /\ UNCHANGED <<sets, latest, backup, published>>
    BY <1>3 DEF EditSource, BackupInv, BackupTypeOK, Place
  <2>2. source' \in [Place -> Nat]
    BY ONLY <2>1
  <2>3. BackupTypeOK' /\ SetInv' /\ MarkInv' /\ LatestInv'
    BY <2>1, <2>2 DEF BackupInv, BackupTypeOK, SetInv, MarkInv, LatestInv, Complete, Own
  <2> QED BY <2>3 DEF BackupInv
<1> QED BY <1>1, <1>2, <1>3

LEMMA NextBackupInv == BackupInv /\ [BackupNext]_backupVars => BackupInv'
<1>1. BackupInv /\ UNCHANGED backupVars => BackupInv'
  BY DEF backupVars, BackupInv, BackupTypeOK, SetInv, MarkInv, LatestInv, Complete, Own
<1> QED BY <1>1, CreateSetKeeps, MakeSteps, PromoteSetKeeps, MarkerKeeps, RetentionKeeps, EndsKeep
        DEF BackupNext

(* For any number of sets, failures, kills, edits and steps of the clock: the *)
(* marker never names a set that is not whole, and from the first publication *)
(* on it names one.                                                           *)
THEOREM LatestSuccessIsComplete == BackupSpec => []LatestIsComplete
<1>1. BackupInit => BackupInv
  <2> SUFFICES ASSUME BackupInit PROVE BackupInv
    OBVIOUS
  <2>1. sets = [s \in Stamp |-> Unnamed] /\ latest = 0 /\ source \in [Place -> Nat] /\ backup = NoBackup
        /\ backup.step = "idle" /\ published = FALSE
    BY DEF BackupInit, NoBackup, Place
  <2>2. Unnamed \in SetRecords
    BY DEF Unnamed, SetRecords
  <2> QED BY <2>1, <2>2 DEF BackupInv, BackupTypeOK, Named, SetInv, Made, MarkInv, LatestInv
<1>2. BackupInv /\ [BackupNext]_backupVars => BackupInv'
  BY NextBackupInv
<1>3. BackupInv => LatestIsComplete
  BY DEF BackupInv, LatestInv, LatestIsComplete, LatestSuccess, Complete, Trusted, Piece
<1> QED BY <1>1, <1>2, <1>3, PTL DEF BackupSpec
-----------------------------------------------------------------------------
(* The onboarding of an endpoint                                              *)

EndpointKeys == PublicKey \cup {NoPublicKey}
OnboardTypeInv ==
  /\ site \in [inbound: EndpointKeys, clients: SUBSET {"test", "customer"}, up: BOOLEAN]
  /\ staged \in [status: {"absent", "staged", "ready"}, key: EndpointKeys, error: BOOLEAN]
  /\ settled \in [marker: EndpointKeys, evidence: EndpointKeys, release: BOOLEAN]
  /\ "step" \in DOMAIN desk
(* Who works at the desk: a test profile and its confirmation only while the  *)
(* endpoint is staged, the latter only of a profile that was handed out, and  *)
(* it promotes only after the test client is gone.                            *)
DeskInv ==
  /\ desk.step \in {"add", "remove", "promote"} => staged.status = "staged"
  /\ desk.step \in {"remove", "promote"} => settled.marker = staged.key
  /\ desk.step = "promote" => "test" \notin site.clients
OnboardInv == OnboardTypeInv /\ DeskInv /\ ReadyIsProven

LEMMA NextOnboardInv == OnboardInv /\ [OnboardNext]_onboardVars => OnboardInv'
<1> SUFFICES ASSUME OnboardInv, [OnboardNext]_onboardVars PROVE OnboardInv' OBVIOUS
<1>1. OnboardTypeInv /\ DeskInv /\ ReadyIsProven BY DEF OnboardInv
<1>2. ASSUME UNCHANGED <<site, staged, settled>>,
             desk'.step \in {"add", "remove", "promote"} => desk' = desk, "step" \in DOMAIN desk'
      PROVE  OnboardInv'
  BY <1>1, <1>2 DEF OnboardInv, OnboardTypeInv, DeskInv, ReadyIsProven
<1>3. CASE \/ StartOnboarding
           \/ \E j \in OnboardJob : TakeOnboarding(j) \/ PersistFailure(j)
           \/ PrepareNode \/ InspectInbound \/ ControlRestarts \/ UNCHANGED onboardVars
  <2>1. UNCHANGED <<site, staged, settled>>
    BY <1>3 DEF StartOnboarding, TakeOnboarding, PersistFailure, PrepareNode, InspectInbound,
       ControlRestarts, onboardVars, NodeKept, RowsKept, OnboardGoes, OnboardFails
  <2>0. "step" \in DOMAIN desk BY <1>1 DEF OnboardTypeInv
  <2>2. /\ desk'.step \in {"add", "remove", "promote"} => desk' = desk
        /\ "step" \in DOMAIN desk'
    <3>1. CASE StartOnboarding \/ ControlRestarts \/ UNCHANGED onboardVars
      BY <2>0, <3>1 DEF StartOnboarding, ControlRestarts, onboardVars, FreeDesk
    <3>2. CASE \E j \in OnboardJob : TakeOnboarding(j) \/ PersistFailure(j)
      BY <2>0, <3>2 DEF TakeOnboarding, PersistFailure, FreeDesk
    <3>3. CASE PrepareNode
      <4>1. desk' = FreeDesk \/ desk' = [desk EXCEPT !.step = "ensure"]
        BY <3>3 DEF PrepareNode, OnboardGoes, OnboardFails
      <4> QED BY <2>0, <3>3, <4>1 DEF PrepareNode, FreeDesk
    <3>4. CASE InspectInbound
      <4>1. desk' = FreeDesk \/ desk' = [desk EXCEPT !.step = "stage"]
        BY <3>4 DEF InspectInbound, OnboardGoes, OnboardFails
      <4> QED BY <2>0, <3>4, <4>1 DEF InspectInbound, FreeDesk
    <3> QED BY <1>3, <3>1, <3>2, <3>3, <3>4
  <2> QED BY <1>2, <2>1, <2>2
<1>4. CASE EnsureInbound
  <2>1. /\ desk.step = "ensure" /\ UNCHANGED <<staged, settled>>
        /\ \/ desk' = [desk EXCEPT !.step = "stage"]
           \/ desk' = [desk EXCEPT !.step = "inspect"]
    BY <1>4 DEF EnsureInbound, OnboardGoes, RowsKept
  <2>2. desk'.step \notin {"add", "remove", "promote"} /\ "step" \in DOMAIN desk'
    BY <1>1, <2>1 DEF OnboardTypeInv
  <2>3. \/ site' = site
        \/ site.inbound = NoPublicKey /\ \E k \in PublicKey : site' = [site EXCEPT !.inbound = k]
    BY <1>4 DEF EnsureInbound
  <2>4. OnboardTypeInv' BY <1>1, <2>1, <2>2, <2>3 DEF OnboardTypeInv, EndpointKeys
  <2>5. site'.clients = site.clients BY <1>1, <2>3 DEF OnboardTypeInv
  <2> QED BY <1>1, <2>1, <2>2, <2>4, <2>5 DEF OnboardInv, DeskInv, ReadyIsProven
<1>5. CASE StageEndpoint
  <2>1. CASE OnboardFails /\ NodeKept
    BY <1>2, <2>1 DEF OnboardFails, NodeKept, RowsKept, FreeDesk
  <2>2. CASE ~(OnboardFails /\ NodeKept)
    <3>1. PICK v \in {"ready", "staged"} :
            /\ staged' = [status |-> v, key |-> site.inbound, error |-> FALSE]
            /\ v = "ready" => staged.status = "ready" /\ staged.key = site.inbound
            /\ desk' = FreeDesk /\ UNCHANGED <<settled, site>>
      BY <1>5, <2>2 DEF StageEndpoint, NodeKept
    <3>2. /\ staged'.status = v /\ staged'.key = site.inbound
      BY <3>1
    <3>3. OnboardTypeInv' BY <1>1, <3>1 DEF OnboardTypeInv, FreeDesk
    <3>4. DeskInv' BY <3>1 DEF DeskInv, FreeDesk
    <3>5. ReadyIsProven' BY <1>1, <3>1, <3>2 DEF ReadyIsProven
    <3> QED BY <3>3, <3>4, <3>5 DEF OnboardInv
  <2> QED BY <2>1, <2>2
<1>6. CASE TestProfile
  <2>1. /\ UNCHANGED <<site, staged, settled>> /\ staged.status = "staged"
        /\ desk' = [step |-> "add"]
    BY <1>6 DEF TestProfile, AcceptanceOpen, NodeKept, RowsKept
  <2> QED BY <1>1, <2>1 DEF OnboardInv, OnboardTypeInv, DeskInv, ReadyIsProven
<1>7. CASE AddTestClient
  <2>1. /\ desk.step = "add" /\ desk' = FreeDesk /\ UNCHANGED staged
        /\ site' = site \/ site' = [site EXCEPT !.clients = {"test"}]
        /\ settled' = settled \/ settled' = [settled EXCEPT !.marker = staged.key]
    BY <1>7 DEF AddTestClient
  <2>2. staged.status = "staged" BY <1>1, <2>1 DEF DeskInv
  <2>3. OnboardTypeInv' BY <1>1, <2>1 DEF OnboardTypeInv, FreeDesk
  <2> QED BY <2>1, <2>2, <2>3 DEF OnboardInv, DeskInv, ReadyIsProven, FreeDesk
<1>8. CASE ConfirmProfile
  <2>1. /\ UNCHANGED <<site, staged, settled>> /\ staged.status = "staged"
        /\ settled.marker = staged.key /\ desk' = [step |-> "remove"]
    BY <1>8 DEF ConfirmProfile, AcceptanceOpen, NodeKept, RowsKept
  <2> QED BY <1>1, <2>1 DEF OnboardInv, OnboardTypeInv, DeskInv, ReadyIsProven
<1>9. CASE RemoveTestClient
  <2>1. /\ desk.step = "remove" /\ UNCHANGED <<staged, settled>>
        /\ \/ site' = [site EXCEPT !.clients = {}] /\ desk' = [step |-> "promote"]
           \/ desk' = FreeDesk /\ (site' = site \/ site' = [site EXCEPT !.clients = {}])
    BY <1>9 DEF RemoveTestClient, RowsKept
  <2>2. staged.status = "staged" /\ settled.marker = staged.key BY <1>1, <2>1 DEF DeskInv
  <2>3. OnboardTypeInv' BY <1>1, <2>1 DEF OnboardTypeInv, FreeDesk
  <2>4. desk'.step = "promote" => site'.clients = {} BY <1>1, <2>1 DEF FreeDesk, OnboardTypeInv
  <2> QED BY <2>1, <2>2, <2>3, <2>4 DEF OnboardInv, DeskInv, ReadyIsProven, FreeDesk
<1>10. CASE PromoteEndpoint
  <2>1. CASE UNCHANGED <<site, staged, settled>>
    BY <1>2, <1>10, <2>1 DEF PromoteEndpoint, FreeDesk
  <2>2. CASE ~UNCHANGED <<site, staged, settled>>
    <3>1. /\ desk.step = "promote" /\ desk' = FreeDesk /\ UNCHANGED site
          /\ staged' = [staged EXCEPT !.status = "ready", !.error = FALSE]
          /\ settled' = [settled EXCEPT !.evidence = staged.key, !.release = TRUE]
      BY <1>10, <2>2 DEF PromoteEndpoint, NodeKept
    <3>2. OnboardTypeInv' BY <1>1, <3>1 DEF OnboardTypeInv, FreeDesk
    <3>3. settled.marker = staged.key /\ "test" \notin site.clients BY <1>1, <3>1 DEF DeskInv
    <3>4. ReadyIsProven' BY <1>1, <3>1, <3>3 DEF ReadyIsProven, OnboardTypeInv
    <3> QED BY <3>1, <3>2, <3>4 DEF OnboardInv, DeskInv, FreeDesk
  <2> QED BY <2>1, <2>2
<1>11. CASE ProbeEndpoint
  <2>1. /\ desk = FreeDesk /\ UNCHANGED <<site, settled, desk>>
        /\ \E b \in BOOLEAN : staged' = [staged EXCEPT !.error = b]
    BY <1>11 DEF ProbeEndpoint, Idle, NodeKept
  <2>2. OnboardTypeInv' /\ staged'.status = staged.status /\ staged'.key = staged.key
    BY <1>1, <2>1 DEF OnboardTypeInv
  <2> QED BY <1>1, <2>1, <2>2 DEF OnboardInv, DeskInv, ReadyIsProven, FreeDesk
<1>12. CASE CustomerJoins
  <2>1. /\ staged.status = "ready" /\ UNCHANGED <<staged, settled, desk>>
        /\ site' = [site EXCEPT !.clients = @ \cup {"customer"}]
    BY <1>12 DEF CustomerJoins
  <2>2. OnboardTypeInv' /\ site'.clients = site.clients \cup {"customer"}
    BY <1>1, <2>1 DEF OnboardTypeInv
  <2> QED BY <1>1, <2>1, <2>2 DEF OnboardInv, DeskInv, ReadyIsProven
<1>13. CASE NodeChanges
  <2>1. /\ UNCHANGED <<staged, settled, desk>>
        /\ \/ \E b \in BOOLEAN : site' = [site EXCEPT !.up = b]
           \/ site' = [inbound |-> NoPublicKey, clients |-> {}, up |-> site.up]
    BY <1>13 DEF NodeChanges
  <2>2. OnboardTypeInv' /\ site'.clients \subseteq site.clients
    BY <1>1, <2>1 DEF OnboardTypeInv, EndpointKeys
  <2> QED BY <1>1, <2>1, <2>2 DEF OnboardInv, DeskInv, ReadyIsProven
<1> QED BY <1>3, <1>4, <1>5, <1>6, <1>7, <1>8, <1>9, <1>10, <1>11, <1>12, <1>13 DEF OnboardNext

(* However jobs, restarts, rebuilt nodes, probes and customers interleave, an *)
(* endpoint that serves was tested and confirmed in its present configuration *)
(* and no test client is on it; for any jobs, keys and changes.               *)
THEOREM ReadyEndpointsAreProven == OnboardSpec => []ReadyIsProven
<1>1. OnboardInit => OnboardInv
  BY DEF OnboardInit, OnboardInv, OnboardTypeInv, DeskInv, ReadyIsProven, NoEndpointRow,
     FreeDesk, EndpointKeys
<1>2. OnboardInv /\ [OnboardNext]_onboardVars => OnboardInv' BY NextOnboardInv
<1>3. OnboardInv => ReadyIsProven BY DEF OnboardInv
<1> QED BY <1>1, <1>2, <1>3, PTL DEF OnboardSpec
-----------------------------------------------------------------------------
(* The control loop                                                           *)

(* Whatever is alive is the probe the loop knows of; it runs only as long as  *)
(* its task waits for it; and a task that has yet to begin one has none.      *)
LoopTypeInv ==
  /\ loop \in {"resting", "cycle", "ended"}
  /\ chores \in [Chore -> {"none", "running", "cancelled"}]
  /\ health \in {"none", "created", "waiting", "cleaning"}
  /\ probes \in [Probing -> {"none", "running", "cancelled", "ended"}]
  /\ stop \in {"none", "loop", "health", "probe", "chores", "done"}
ProbesInv ==
  /\ \A p \in Probing : Alive(p) => current = p
  /\ \A p \in Probing : probes[p] = "running" => health = "waiting"
  /\ health = "created" => current = NoProbing
StopInv ==
  /\ chores["dispatch"] # "none" => database
  /\ stop \in {"health", "probe", "chores", "done"} => loop = "ended"
  /\ stop \in {"probe", "chores", "done"} => health = "none"
  /\ stop = "done" => ~database /\ \A c \in Chore : chores[c] = "none"
LoopInv == LoopTypeInv /\ ProbesInv /\ StopInv

LEMMA NextLoopInv == LoopInv /\ [LoopNext]_loopVars => LoopInv'
<1> SUFFICES ASSUME LoopInv, [LoopNext]_loopVars PROVE LoopInv' OBVIOUS
<1>1. LoopTypeInv /\ ProbesInv /\ StopInv BY DEF LoopInv
<1>2. UNCHANGED <<health, probes, current>> => ProbesInv' BY <1>1 DEF ProbesInv, Alive
<1>3. UNCHANGED <<chores, database, stop, loop, health>> => StopInv' BY <1>1 DEF StopInv
<1>4. CASE CycleOpens
  <2>1. LoopTypeInv' /\ StopInv' BY <1>1, <1>4 DEF CycleOpens, LoopTypeInv, StopInv
  <2> QED BY <1>2, <1>4, <2>1 DEF CycleOpens, LoopInv
<1>5. CASE ReleaseChanges
  BY <1>1, <1>2, <1>3, <1>5 DEF ReleaseChanges, LoopTypeInv, LoopInv
<1>6. CASE \E begun \in SUBSET Chore : \E probing \in BOOLEAN : CycleCloses(begun, probing)
  <2>1. PICK begun \in SUBSET Chore, probing \in BOOLEAN : CycleCloses(begun, probing) BY <1>6
  <2>2. /\ stop = "none" /\ UNCHANGED <<probes, current, stop>> /\ loop' = "resting"
        /\ chores' = [c \in Chore |-> IF c \in begun THEN "running" ELSE chores[c]]
        /\ health' = IF probing THEN "created" ELSE health
        /\ probing => health = "none" /\ current = NoProbing
    BY <2>1 DEF CycleCloses, HealthFree
  <2>3. chores'["dispatch"] # "none" => database'
    <3>1. "dispatch" \in begun => database' BY <2>1 DEF CycleCloses, DispatchReady
    <3>2. database => database' BY <2>1 DEF CycleCloses, DispatchReady
    <3> QED BY <1>1, <2>2, <3>1, <3>2 DEF StopInv, Chore
  <2>4. LoopTypeInv' BY <1>1, <2>2 DEF LoopTypeInv
  <2>5. ProbesInv' BY <1>1, <2>2 DEF ProbesInv, Alive
  <2>6. StopInv' BY <2>2, <2>3 DEF StopInv
  <2> QED BY <2>4, <2>5, <2>6 DEF LoopInv
<1>7. CASE \E c \in Chore : ChoreEnds(c)
  <2>1. PICK c \in Chore : ChoreEnds(c) BY <1>7
  <2>2. chores' = [chores EXCEPT ![c] = "none"] BY <2>1 DEF ChoreEnds
  <2>3. LoopTypeInv' BY <1>1, <2>1, <2>2 DEF ChoreEnds, LoopTypeInv
  <2>4. StopInv' BY <1>1, <2>1, <2>2 DEF ChoreEnds, StopInv, LoopTypeInv, Chore
  <2> QED BY <1>2, <2>1, <2>3, <2>4 DEF ChoreEnds, LoopInv
<1>8. CASE \E c \in Chore : CancelChore(c)
  <2>1. PICK c \in Chore : CancelChore(c) BY <1>8
  <2>2. chores' = [chores EXCEPT ![c] = "cancelled"] /\ chores[c] = "running" /\ stop = "chores"
    BY <2>1 DEF CancelChore
  <2>3. LoopTypeInv' BY <1>1, <2>1, <2>2 DEF CancelChore, LoopTypeInv
  <2>4. StopInv' BY <1>1, <2>1, <2>2 DEF CancelChore, StopInv, LoopTypeInv, Chore
  <2> QED BY <1>2, <2>1, <2>3, <2>4 DEF CancelChore, LoopInv
<1>9. CASE \E p \in Probing : ProbeBegins(p)
  <2>1. PICK p \in Probing : ProbeBegins(p) BY <1>9
  <2>2. /\ probes' = [probes EXCEPT ![p] = "running"] /\ current' = p /\ health' = "waiting"
        /\ health = "created" /\ UNCHANGED <<loop, chores, database, stop>>
    BY <2>1 DEF ProbeBegins
  <2>3. \A q \in Probing : ~Alive(q) BY <1>1, <2>2, ProbingAssumption DEF ProbesInv
  <2>4. LoopTypeInv' BY <1>1, <2>2 DEF LoopTypeInv
  <2>5. ProbesInv' BY <1>1, <2>2, <2>3, <2>4 DEF ProbesInv, Alive, LoopTypeInv
  <2>6. StopInv' BY <1>1, <2>2 DEF StopInv
  <2> QED BY <2>4, <2>5, <2>6 DEF LoopInv
<1>10. CASE \/ HealthTimesOut
            \/ LoopEnds
            \/ HealthStopped
  <2>1. \/ probes' = probes
        \/ probes' = [p \in Probing |-> IF p = current /\ probes[p] = "running" THEN "cancelled"
                                        ELSE probes[p]]
    BY <1>10 DEF HealthTimesOut, LoopEnds, HealthStopped, CancelledIf
  <2>2. \A p \in Probing : /\ Alive(p)' => Alive(p)
                           /\ probes'[p] = "running" => probes[p] = "running"
    BY <1>1, <2>1 DEF Alive, LoopTypeInv
  <2>3. \/ health = "waiting" /\ health' = "cleaning" /\ \A p \in Probing : probes'[p] # "running"
        \/ health = "created" /\ health' = "none"
        \/ health' = health
    <3>1. CASE HealthTimesOut \/ (LoopEnds /\ health = "waiting")
      <4>1. health = "waiting" /\ health' = "cleaning" /\ probes' = CancelledIf(current)
        BY <3>1 DEF HealthTimesOut, LoopEnds
      <4> QED BY <1>1, <4>1 DEF CancelledIf, ProbesInv, Alive
    <3>2. CASE LoopEnds /\ health # "waiting" BY <3>2 DEF LoopEnds
    <3>3. CASE HealthStopped BY <3>3 DEF HealthStopped
    <3> QED BY <1>10, <3>1, <3>2, <3>3
  <2>4. current' = current BY <1>10 DEF HealthTimesOut, LoopEnds, HealthStopped
  <2>5. ProbesInv'
    <3>1. \A p \in Probing : Alive(p)' => current' = p BY <1>1, <2>2, <2>4 DEF ProbesInv
    <3>2. \A p \in Probing : probes'[p] = "running" => health' = "waiting"
      BY <1>1, <2>2, <2>3 DEF ProbesInv
    <3>3. health' = "created" => current' = NoProbing BY <1>1, <2>3, <2>4 DEF ProbesInv
    <3> QED BY <3>1, <3>2, <3>3 DEF ProbesInv
  <2>6. LoopTypeInv'
    <3>1. probes' \in [Probing -> {"none", "running", "cancelled", "ended"}]
      BY <1>1, <2>1 DEF LoopTypeInv
    <3> QED BY <1>1, <1>10, <2>3, <3>1 DEF HealthTimesOut, LoopEnds, HealthStopped, LoopTypeInv
  <2>7. StopInv'
    BY <1>1, <1>10 DEF HealthTimesOut, LoopEnds, HealthStopped, StopInv
  <2> QED BY <2>5, <2>6, <2>7 DEF LoopInv
<1>11. CASE CleanupEnds
  <2>1. LoopTypeInv' BY <1>1, <1>11 DEF CleanupEnds, LoopTypeInv
  <2>2. ProbesInv' BY <1>1, <1>11 DEF CleanupEnds, ProbesInv, Alive
  <2>3. StopInv' BY <1>1, <1>11 DEF CleanupEnds, StopInv
  <2> QED BY <2>1, <2>2, <2>3 DEF LoopInv
<1>12. CASE \E p \in Probing : ProbeEnds(p) \/ ProbeCloses(p)
  <2>1. PICK p \in Probing : ProbeEnds(p) \/ ProbeCloses(p) BY <1>12
  <2>2. /\ probes' = [probes EXCEPT ![p] = "ended"] /\ Alive(p)
        /\ current' = IF current = p THEN NoProbing ELSE current
        /\ UNCHANGED <<loop, chores, database, stop>>
    BY <2>1 DEF ProbeEnds, ProbeCloses, ProbeDone, Alive
  <2>3. current = p BY <1>1, <2>2 DEF ProbesInv
  <2>4. health' = health \/ health' = "none" BY <2>1 DEF ProbeEnds, ProbeCloses
  <2>5. LoopTypeInv' BY <1>1, <2>2, <2>4 DEF LoopTypeInv
  <2>6. \A q \in Probing : ~Alive(q)'
    BY <1>1, <2>2, <2>3 DEF ProbesInv, Alive, LoopTypeInv
  <2>7. ProbesInv' BY <2>2, <2>3, <2>6 DEF ProbesInv, Alive
  <2>8. StopInv' BY <1>1, <2>2, <2>4 DEF StopInv
  <2> QED BY <2>5, <2>7, <2>8 DEF LoopInv
<1>13. CASE StopLoop \/ ProbeStopped
  <2>1. LoopTypeInv' BY <1>1, <1>13 DEF StopLoop, ProbeStopped, LoopTypeInv
  <2>2. StopInv' BY <1>1, <1>13 DEF StopLoop, ProbeStopped, StopInv
  <2> QED BY <1>2, <1>13, <2>1, <2>2 DEF StopLoop, ProbeStopped, LoopInv
<1>14. CASE Disposed
  <2>1. LoopTypeInv' BY <1>1, <1>14 DEF Disposed, LoopTypeInv
  <2>2. StopInv' BY <1>1, <1>14 DEF Disposed, StopInv, Chore
  <2> QED BY <1>2, <1>14, <2>1, <2>2 DEF Disposed, LoopInv
<1>15. CASE UNCHANGED loopVars
  BY <1>1, <1>2, <1>3, <1>15 DEF loopVars, LoopTypeInv, LoopInv
<1> QED BY <1>4, <1>5, <1>6, <1>7, <1>8, <1>9, <1>10, <1>11, <1>12, <1>13, <1>14, <1>15
        DEF LoopNext

(* Whenever a probe outlives its timeout and whenever the loop is told to     *)
(* stop: one probe at a time, connections for every dispatch, and nothing     *)
(* left that was not told to stop; for any number of probes.                  *)
THEOREM LoopLeavesNothing == LoopSpec => []LoopHolds
<1>1. LoopInit => LoopInv
  BY DEF LoopInit, LoopInv, LoopTypeInv, ProbesInv, StopInv, Alive, Chore
<1>2. LoopInv /\ [LoopNext]_loopVars => LoopInv' BY NextLoopInv
<1>3. LoopInv => LoopHolds BY DEF LoopInv, ProbesInv, StopInv, LoopHolds, Chore
<1> QED BY <1>1, <1>2, <1>3, PTL DEF LoopSpec
-----------------------------------------------------------------------------
(* The watchdog                                                               *)

AlertRows == [codes: SUBSET CheckCode, notified: BOOLEAN, valid: BOOLEAN]
WatchRows == [step: {"save", "send", "record"}, state: AlertRows, announces: BOOLEAN]
(* An alert whose last message to the operator was the alarm: the outage was  *)
(* notified, or its recovery was not yet.                                     *)
Alarmed(a) == (a.codes # {} /\ a.notified) \/ (a.codes = {} /\ ~a.notified)
(* Nothing is left to tell of the checks as they are now.                     *)
ToldNow(a) == a.notified /\ a.valid /\ ((a.codes # {}) <=> down)

WatchTypeInv ==
  /\ alert \in AlertRows /\ watch \in WatchRows \cup {WatchIdle}
  /\ messages \in Nat /\ down \in BOOLEAN /\ unsettled \in BOOLEAN
WatchStateInv ==
  watch # WatchIdle =>
    /\ (watch.state.codes # {}) <=> down
    /\ watch.announces => ~watch.state.notified
    /\ watch.step \in {"send", "record"} => watch.announces
AlarmedInv ==
  IF watch.step = "record"
  THEN told = IF watch.state.codes = {} THEN "recovery" ELSE "alarm"
  ELSE /\ Alarmed(alert) => told = "alarm"
       /\ watch.step = "save" /\ Alarmed(watch.state) => told = "alarm"
MessagesInv ==
  /\ watch.step = "record" => messages = 1
  /\ watch.step = "send" => messages = 0 /\ alert = watch.state
  /\ watch.step = "save" /\ watch.announces => messages = 0
  /\ watch.step # "record" /\ messages # 0 =>
       ToldNow(alert) /\ (watch.step = "save" => ToldNow(watch.state))
WatchInv == WatchTypeInv /\ WatchStateInv /\ (~unsettled => AlarmedInv /\ MessagesInv)

LEMMA NextWatchInv == WatchInv /\ [WatchNext]_watchVars => WatchInv'
<1> SUFFICES ASSUME WatchInv, [WatchNext]_watchVars PROVE WatchInv' OBVIOUS
<1> USE DEF WatchInv, WatchTypeInv
<1>1. CASE \E local \in SUBSET LocalCheck, data \in SUBSET DataCheck, reachable \in BOOLEAN :
             Collect(local, data, reachable)
  <2>1. PICK local \in SUBSET LocalCheck, data \in SUBSET DataCheck, reachable \in BOOLEAN :
          Collect(local, data, reachable)
    BY <1>1
  <2>2. PICK codes \in SUBSET CheckCode : codes = FailingCodes(local, data, reachable)
    BY DEF FailingCodes, CheckCode
  <2>3. /\ watch = WatchIdle /\ UNCHANGED <<alert, told, unsettled>>
        /\ down' = (codes # {}) /\ messages' = IF down' = down THEN messages ELSE 0
    BY <2>1, <2>2 DEF Collect
  <2>4. /\ Alert(codes, FALSE) \in AlertRows /\ Silently(codes) \in AlertRows
        /\ Alert(codes, FALSE).codes = codes /\ Silently(codes).codes = codes
        /\ Alert(codes, FALSE).notified = FALSE /\ Silently(codes).valid = TRUE
        /\ Silently(codes).notified = (codes = {} \/ Changed(codes))
    BY DEF Alert, Silently, Healthy, AlertRows, Changed
  <2>5. \/ Quiet(codes) /\ watch' = WatchIdle
        \/ /\ ~Quiet(codes) /\ Announces(codes)
           /\ watch' = [step |-> "save", state |-> Alert(codes, FALSE), announces |-> TRUE]
        \/ /\ ~Quiet(codes) /\ ~Announces(codes)
           /\ watch' = [step |-> "save", state |-> Silently(codes), announces |-> FALSE]
    BY <2>1, <2>2 DEF Collect
  <2>6. ~unsettled => /\ Alarmed(alert) => told = "alarm"
                      /\ messages # 0 => ToldNow(alert)
    BY <2>3 DEF AlarmedInv, MessagesInv, WatchIdle
  <2>7. messages' \in Nat /\ down' \in BOOLEAN /\ alert' \in AlertRows /\ unsettled' \in BOOLEAN
    BY <2>3
  <2>8. ~unsettled /\ messages' # 0 => ToldNow(alert)'
    BY <2>3, <2>6 DEF ToldNow
  <2>9. CASE watch' = WatchIdle
    BY <2>3, <2>6, <2>7, <2>8, <2>9 DEF WatchStateInv, AlarmedInv, MessagesInv, WatchIdle
  <2>10. CASE /\ ~Quiet(codes) /\ Announces(codes)
              /\ watch' = [step |-> "save", state |-> Alert(codes, FALSE), announces |-> TRUE]
    <3>1. watch' \in WatchRows /\ watch'.state = Alert(codes, FALSE) /\ watch'.step = "save"
          /\ watch'.announces = TRUE
      BY <2>4, <2>10 DEF WatchRows
    <3>2. WatchStateInv' BY <2>3, <2>4, <3>1 DEF WatchStateInv
    <3>3. ~unsettled /\ codes = {} => told = "alarm"
      BY <2>6, <2>10 DEF Announces, Alarmed
    <3>4. ~unsettled => AlarmedInv'
      <4> SUFFICES ASSUME ~unsettled PROVE AlarmedInv' OBVIOUS
      <4>1. Alarmed(watch'.state) => told = "alarm" BY <2>4, <3>1, <3>3 DEF Alarmed
      <4>2. Alarmed(alert') => told' = "alarm" BY <2>3, <2>6
      <4> QED BY <2>3, <3>1, <4>1, <4>2 DEF AlarmedInv
    <3>5. ~unsettled => messages' = 0
      <4> SUFFICES ASSUME ~unsettled, messages' # 0 PROVE FALSE OBVIOUS
      <4>1. alert.notified /\ alert.valid /\ ((alert.codes # {}) <=> (codes # {}))
        BY <2>3, <2>8 DEF ToldNow
      <4> QED BY <2>10, <4>1 DEF Announces
    <3>6. ~unsettled => MessagesInv' BY <3>1, <3>5 DEF MessagesInv
    <3> QED BY <2>3, <2>7, <3>1, <3>2, <3>4, <3>6
  <2>11. CASE /\ ~Quiet(codes) /\ ~Announces(codes)
              /\ watch' = [step |-> "save", state |-> Silently(codes), announces |-> FALSE]
    <3>0. PICK a \in AlertRows : /\ a = Silently(codes) /\ a.codes = codes /\ a.valid = TRUE
                                 /\ a.notified <=> (codes = {} \/ Changed(codes))
      BY <2>4
    <3>1. watch' \in WatchRows /\ watch'.state = a /\ watch'.step = "save"
          /\ watch'.announces = FALSE
      BY <2>11, <3>0 DEF WatchRows
    <3>2. WatchStateInv' BY <2>3, <3>0, <3>1 DEF WatchStateInv
    <3>3. ~unsettled /\ Changed(codes) => told = "alarm" BY <2>6 DEF Changed, Alarmed
    <3>4. ~unsettled => AlarmedInv'
      <4> SUFFICES ASSUME ~unsettled PROVE AlarmedInv' OBVIOUS
      <4>1. Alarmed(a) => told = "alarm" BY <3>0, <3>3 DEF Alarmed
      <4>2. Alarmed(alert') => told' = "alarm" BY <2>3, <2>6
      <4> QED BY <2>3, <3>1, <4>1, <4>2 DEF AlarmedInv
    <3>5. ~unsettled /\ messages' # 0 => a.notified
      <4> SUFFICES ASSUME ~unsettled, messages' # 0, codes # {} PROVE Changed(codes)
        BY <3>0
      <4>1. alert.notified /\ alert.valid /\ ((alert.codes # {}) <=> (codes # {}))
        BY <2>3, <2>8 DEF ToldNow
      <4> QED BY <2>11, <4>1 DEF Quiet, ConfirmedAlert, Changed
    <3>6. ~unsettled => MessagesInv' BY <2>3, <2>8, <3>0, <3>1, <3>5 DEF MessagesInv, ToldNow
    <3> QED BY <2>3, <2>7, <3>1, <3>2, <3>4, <3>6
  <2> QED BY <2>5, <2>9, <2>10, <2>11
<1>2. CASE SaveAlert
  <2>1. watch \in WatchRows BY <1>2 DEF SaveAlert, WatchIdle
  <2>2. CASE watch.announces
    <3>1. watch' \in WatchRows /\ watch'.step = "send" /\ watch'.state = watch.state
          /\ watch'.announces = watch.announces
      BY <1>2, <2>1, <2>2 DEF SaveAlert, WatchRows
    <3> QED BY <1>2, <2>1, <2>2, <3>1
            DEF SaveAlert, WatchRows, WatchStateInv, AlarmedInv, MessagesInv, ToldNow, WatchIdle
  <2>3. CASE ~watch.announces
    BY <1>2, <2>1, <2>3
    DEF SaveAlert, WatchRows, WatchStateInv, AlarmedInv, MessagesInv, ToldNow, WatchIdle
  <2> QED BY <2>2, <2>3
<1>3. CASE SendAlert
  <2>1. /\ watch \in WatchRows /\ watch # WatchIdle /\ UNCHANGED <<alert, down>>
        /\ watch.step = "send"
    BY <1>3 DEF SendAlert, WatchIdle, WatchStateInv
  <2>2. CASE Delivered /\ watch' = [watch EXCEPT !.step = "record"] /\ UNCHANGED unsettled
    <3>1. watch' \in WatchRows /\ watch'.step = "record" /\ watch'.state = watch.state
          /\ watch'.announces = watch.announces
      BY <2>1, <2>2 DEF WatchRows
    <3>2. messages' \in Nat /\ (messages = 0 => messages' = 1) BY <2>2 DEF Delivered
    <3>3. WatchStateInv' BY <2>1, <3>1 DEF WatchStateInv
    <3>4. ~unsettled => AlarmedInv' BY <2>2, <3>1 DEF Delivered, AlarmedInv
    <3>5. ~unsettled => MessagesInv' BY <2>1, <3>1, <3>2 DEF MessagesInv
    <3> QED BY <2>1, <2>2, <3>1, <3>2, <3>3, <3>4, <3>5
  <2>3. CASE watch' = WatchIdle /\ UNCHANGED <<told, messages, unsettled>>
    BY <2>1, <2>3 DEF WatchStateInv, AlarmedInv, MessagesInv, WatchIdle
  <2>4. CASE Delivered /\ watch' = WatchIdle /\ unsettled' = TRUE
    <3>1. messages' \in Nat BY <2>4 DEF Delivered
    <3> QED BY <2>1, <2>4, <3>1 DEF WatchStateInv
  <2> QED BY <1>3, <2>2, <2>3, <2>4 DEF SendAlert
<1>4. CASE RecordAlert
  <2>1. /\ watch \in WatchRows /\ watch # WatchIdle BY <1>4 DEF RecordAlert, WatchIdle
  <2>2. /\ alert' \in AlertRows /\ alert'.codes = watch.state.codes
        /\ alert'.notified = TRUE /\ alert'.valid = TRUE
    BY <1>4, <2>1 DEF RecordAlert, Alert, AlertRows, WatchRows
  <2>3. WatchStateInv' BY <1>4 DEF RecordAlert, WatchStateInv
  <2>4. ~unsettled => AlarmedInv'
    BY <1>4, <2>2 DEF RecordAlert, AlarmedInv, Alarmed, WatchIdle
  <2>5. ~unsettled => MessagesInv'
    BY <1>4, <2>1, <2>2 DEF RecordAlert, MessagesInv, WatchStateInv, ToldNow, WatchIdle
  <2> QED BY <1>4, <2>2, <2>3, <2>4, <2>5 DEF RecordAlert
<1>5. CASE KillWatch
  <2>1. /\ watch # WatchIdle /\ watch' = WatchIdle
        /\ UNCHANGED <<alert, told, messages, down>>
        /\ unsettled' = (unsettled \/ watch.step = "record")
    BY <1>5 DEF KillWatch
  <2>2. WatchStateInv' BY <2>1 DEF WatchStateInv
  <2>3. ~unsettled' => ~unsettled /\ watch.step # "record" BY <2>1
  <2>4. ~unsettled' => AlarmedInv' BY <2>1, <2>3 DEF AlarmedInv, WatchIdle
  <2>5. ~unsettled' => MessagesInv' BY <2>1, <2>3 DEF MessagesInv, ToldNow, WatchIdle
  <2>6. unsettled' \in BOOLEAN BY <2>1
  <2> QED BY <2>1, <2>2, <2>4, <2>5, <2>6
<1>6. CASE DamageAlert
  <2>1. alert' \in AlertRows BY <1>6 DEF DamageAlert, Damaged, AlertRows
  <2> QED BY <1>6, <2>1 DEF DamageAlert, WatchStateInv
<1>7. CASE UNCHANGED watchVars
  BY <1>7 DEF watchVars, WatchStateInv, AlarmedInv, MessagesInv, ToldNow
<1> QED BY <1>1, <1>2, <1>3, <1>4, <1>5, <1>6, <1>7 DEF WatchNext

(* However the checks, the kills and the deliveries fall, an outage gives one *)
(* alarm, a return to health one recovery, and a recovery follows an alarm;   *)
(* for any checks, cycles and faults.                                         *)
THEOREM MessagesPairUp == WatchSpec => AlarmsPair
<1>1. WatchInit => WatchInv
  <2> SUFFICES ASSUME WatchInit PROVE WatchInv OBVIOUS
  <2>1. Damaged \in AlertRows /\ Damaged.codes = {} /\ Damaged.notified = TRUE
    BY DEF Damaged, AlertRows
  <2>2. ~Alarmed(alert) BY <2>1 DEF WatchInit, Alarmed
  <2>3. WatchIdle.step = "idle" BY DEF WatchIdle
  <2> QED BY <2>1, <2>2, <2>3
          DEF WatchInit, WatchInv, WatchTypeInv, WatchStateInv, AlarmedInv, MessagesInv
<1>2. WatchInv /\ [WatchNext]_watchVars => WatchInv' BY NextWatchInv
<1>3. WatchInv /\ [WatchNext]_watchVars
      => (~unsettled' /\ messages' > messages
            => messages' = 1 /\ (told' = "recovery" => told = "alarm"))
  <2> SUFFICES ASSUME WatchInv, [WatchNext]_watchVars, ~unsettled', messages' > messages
               PROVE  messages' = 1 /\ (told' = "recovery" => told = "alarm")
    OBVIOUS
  <2>0. messages \in Nat BY DEF WatchInv, WatchTypeInv
  <2>1. SendAlert /\ ~unsettled
    <3>1. ~(messages > messages) /\ ~(0 > messages) BY <2>0
    <3>2. CASE \E local \in SUBSET LocalCheck, data \in SUBSET DataCheck, reachable \in BOOLEAN :
                 Collect(local, data, reachable)
      BY <3>1, <3>2 DEF Collect
    <3>3. messages' # messages BY <3>1
    <3>4. CASE SaveAlert \/ RecordAlert \/ KillWatch \/ DamageAlert \/ UNCHANGED watchVars
      BY <3>3, <3>4 DEF watchVars, SaveAlert, RecordAlert, KillWatch, DamageAlert
    <3>5. CASE SendAlert
      <4>1. unsettled' = unsettled \/ unsettled' = TRUE BY <3>5 DEF SendAlert
      <4> QED BY <3>5, <4>1
    <3> QED BY <3>2, <3>4, <3>5 DEF WatchNext
  <2>2. Delivered BY <2>1, <2>0 DEF SendAlert
  <2>3. watch # WatchIdle /\ watch.step = "send" BY <2>1 DEF SendAlert, WatchIdle
  <2>4. messages = 0 /\ alert = watch.state /\ watch.announces
    BY <2>1, <2>3 DEF WatchInv, WatchStateInv, MessagesInv
  <2>5. ~alert.notified BY <2>3, <2>4 DEF WatchInv, WatchStateInv
  <2>6. told' = "recovery" => told = "alarm"
    BY <2>1, <2>2, <2>3, <2>4, <2>5 DEF Delivered, WatchInv, AlarmedInv, Alarmed
  <2> QED BY <2>2, <2>4, <2>6 DEF Delivered
<1> QED BY <1>1, <1>2, <1>3, PTL DEF WatchSpec, AlarmsPair

-----------------------------------------------------------------------------
(* The lookups of tracked domains                                             *)

Stages == {"registered", "redemption", "pending", "gone"}
Checks == {Nowhere} \cup [at: Int, told: BOOLEAN]
Froms == [at: Int] \cup [at: Int, since: Int, sure: BOOLEAN]
Untils == [at: Int] \cup [at: Int, since: Int]
NameRows ==
  [status: {"tracking", "error", "redemption", "pending_delete", "available"},
   checked: Checks, sighted: BOOLEAN, from: Froms, until: Untils]
Asking == [step: {"asking"}, at: Int, loaded: NameRows \cup {NoRow}]
Telling == [step: {"told"}, at: Int, loaded: NameRows \cup {NoRow}, seen: Stages \cup {"error"},
            source: {"rdap", "whois"}, since: Int]
Looks == {NoLook, [step |-> "lost"]} \cup Asking \cup Telling
Tickets == {NoTicket} \cup [state: {"queued", "running", "failed"}, on: Tracked, assigned: Int,
                            look: Looks]
DiscoveryTypeInv ==
  /\ day \in Int /\ nature \in [Tracked -> [stage: Stages, since: Int]]
  /\ rows \in [Tracked -> NameRows \cup {NoRow}]
  /\ tickets \in [Ticket -> Tickets] /\ looks \in [Reader -> Looks]

LooksOn(d) == {looks[r] : r \in {x \in Reader : x[2] = d}}
              \cup {tickets[t].look : t \in {x \in Ticket : tickets[x].on = d}}
(* What a look that began at `a` and saw no deletion says of every deletion   *)
(* seen by a look that began when it was over: it had not begun before.       *)
Clear(d, a) ==
  /\ a <= day
  /\ nature[d].stage = "pending" => a <= nature[d].since
  /\ \A l \in LooksOn(d) \cap Telling :
       l.seen = "pending" /\ a + LookTime < l.at => a <= l.since
(* A row whose last look told something and that was never sighted.           *)
RowInv(d, row) ==
  row.checked # Nowhere /\ row.checked.told /\ ~row.sighted => Clear(d, row.checked.at)
WindowInv(row) ==
  /\ "since" \in DOMAIN row.until => row.until.since + Grace <= row.until.at + LookTime
  /\ "since" \in DOMAIN row.from => (row.from.sure => row.from.at <= row.from.since + Grace)
LookInv(d, l) ==
  /\ l.at <= day
  /\ l \in Asking => day <= l.at + LookTime
  /\ l.loaded # NoRow =>
       rows[d] # NoRow /\ RowInv(d, l.loaded) /\ (l.loaded.sighted => rows[d].sighted)
ToldInv(d, l) ==
  /\ l.seen = "pending" => l.since <= l.at + LookTime
  /\ l.seen \notin {"pending", "error"} => Clear(d, l.at)
DiscoveryInv ==
  /\ DiscoveryTypeInv
  /\ \A d \in Tracked : nature[d].stage = "pending" => nature[d].since <= day
  /\ \A d \in Tracked : rows[d] # NoRow => RowInv(d, rows[d]) /\ WindowInv(rows[d])
  /\ \A d \in Tracked : \A l \in LooksOn(d) \cap (Asking \cup Telling) : LookInv(d, l)
  /\ \A d \in Tracked : \A l \in LooksOn(d) \cap Telling : ToldInv(d, l)
  /\ \A r \in Reader : looks[r] \in Asking \cup Telling => looks[r].loaded # NoRow

LEMMA LooksAreApart ==
  /\ NoLook \notin Asking \cup Telling /\ [step |-> "lost"] \notin Asking \cup Telling
  /\ \A l \in Asking : l.step = "asking" /\ l \notin Telling
  /\ \A l \in Telling : l.step = "told" /\ l \notin Asking
  /\ \A l \in Looks : l.step = "asking" => l \in Asking
  /\ \A l \in Looks : l.step = "told" => l \in Telling
  /\ \A row \in NameRows : row # NoRow
BY DEF NoLook, Asking, Telling, Looks, NameRows, NoRow

LEMMA LooksAreTyped ==
  ASSUME DiscoveryTypeInv, NEW d \in Tracked
  PROVE  LooksOn(d) \subseteq Looks
<1>1. \A t \in Ticket : tickets[t].look \in Looks
  BY DEF DiscoveryTypeInv, Tickets, NoTicket, Looks
<1> QED BY <1>1 DEF LooksOn, DiscoveryTypeInv

(* What a look said stays said: no later step makes it untrue.                *)
LEMMA ClearStays ==
  ASSUME DiscoveryTypeInv, DiscoveryTypeInv', NEW d \in Tracked, NEW a \in Int, Clear(d, a), day <= day',
         nature'[d] = nature[d] \/ nature'[d].stage # "pending" \/ nature'[d].since = day,
         \A l \in (LooksOn(d) \cap Telling)' : l.seen = "pending" =>
           \/ l \in LooksOn(d)
           \/ nature[d].stage = "pending" /\ l.since = nature[d].since
  PROVE  Clear(d, a)'
<1>1. day \in Int /\ day' \in Int /\ a <= day BY DEF DiscoveryTypeInv, Clear
<1>2. a <= day' BY ONLY <1>1, a \in Int, day <= day'
<1>3. nature'[d].stage = "pending" => a <= nature'[d].since BY <1>1 DEF Clear
<1>4. \A l \in (LooksOn(d) \cap Telling)' : l.seen = "pending" /\ a + LookTime < l.at => a <= l.since
  BY DEF Clear, Telling
<1> QED BY <1>2, <1>3, <1>4 DEF Clear

(* Looks begin, learn something, read their row or are given up, while rows   *)
(* and registry stay as they are.                                             *)
Began(d, l) == l = LookStarted(d, NoRow) \/ (rows[d] # NoRow /\ l = LookStarted(d, rows[d]))
Learned(d, k, l) ==
  k \in Asking /\ \E seen \in Seen(d) : \E origin \in Sources(seen) : l = Told(d, k, seen, origin)
Loaded(d, k, l) == k \in Telling /\ rows[d] # NoRow /\ l = [k EXCEPT !.loaded = rows[d]]

LEMMA LooksChange ==
  ASSUME DiscoveryInv, DiscoveryTypeInv', UNCHANGED <<day, nature, rows>>,
         \A d \in Tracked : \A l \in (LooksOn(d))' :
           \/ l \in LooksOn(d) \/ l \in {NoLook, [step |-> "lost"]} \/ Began(d, l)
           \/ \E k \in LooksOn(d) : Learned(d, k, l) \/ Loaded(d, k, l),
         \A r \in Reader : looks'[r] \in Asking \cup Telling => looks'[r].loaded # NoRow
  PROVE  DiscoveryInv'
<1>1. DiscoveryTypeInv BY DEF DiscoveryInv
<1>2. day \in Int /\ LookTime \in Nat BY <1>1, LookAssumption DEF DiscoveryTypeInv
<1>3. ASSUME NEW d \in Tracked, NEW l \in (LooksOn(d))', Began(d, l)
      PROVE  /\ l \in Asking /\ l.at = day
             /\ l.loaded = NoRow \/ (rows[d] # NoRow /\ l.loaded = rows[d])
  BY <1>1, <1>3 DEF Began, LookStarted, Asking, DiscoveryTypeInv
<1>4. ASSUME NEW d \in Tracked, NEW k \in LooksOn(d), NEW l, Learned(d, k, l)
      PROVE  /\ k \in Asking /\ l \in Telling /\ l.at = k.at /\ l.loaded = k.loaded
             /\ l.seen \in {nature[d].stage, "error"} /\ l.since = nature[d].since
  BY <1>1, <1>4 DEF Learned, Told, Seen, Sources, Asking, Telling, DiscoveryTypeInv
<1>5. ASSUME NEW d \in Tracked, NEW k \in LooksOn(d), NEW l, Loaded(d, k, l)
      PROVE  /\ k \in Telling /\ l \in Telling /\ l.at = k.at /\ l.loaded = rows[d]
             /\ rows[d] # NoRow /\ l.seen = k.seen /\ l.since = k.since
  BY <1>1, <1>5 DEF Loaded, Telling, DiscoveryTypeInv
<1>6. ASSUME NEW d \in Tracked, NEW a \in Int, Clear(d, a) PROVE Clear(d, a)'
  <2>1. ASSUME NEW l \in (LooksOn(d) \cap Telling)', l.seen = "pending"
        PROVE  \/ l \in LooksOn(d) \/ (nature[d].stage = "pending" /\ l.since = nature[d].since)
               \/ \E k \in LooksOn(d) \cap Telling : l.at = k.at /\ l.seen = k.seen /\ l.since = k.since
    BY <1>3, <1>4, <1>5, <2>1, LooksAreApart
  <2>2. \A l \in (LooksOn(d) \cap Telling)' : l.seen = "pending" /\ a + LookTime < l.at => a <= l.since
    BY <1>6, <2>1 DEF Clear, Telling
  <2> QED BY <1>6, <2>2 DEF Clear
<1>7. \A d \in Tracked : \A row \in NameRows : RowInv(d, row) => RowInv(d, row)'
  BY <1>6 DEF RowInv, NameRows, Checks
<1>8. \A d \in Tracked : rows'[d] # NoRow => RowInv(d, rows[d])' /\ WindowInv(rows[d])'
  BY <1>1, <1>7 DEF DiscoveryInv, DiscoveryTypeInv, WindowInv
<1>9. ASSUME NEW d \in Tracked, NEW l \in (LooksOn(d) \cap (Asking \cup Telling))'
      PROVE  LookInv(d, l)'
  <2>1. \A k \in LooksOn(d) \cap (Asking \cup Telling) : LookInv(d, k) BY DEF DiscoveryInv
  <2>2. \A k \in Asking \cup Telling : k.loaded # NoRow => k.loaded \in NameRows
    BY DEF Asking, Telling
  <2>3. CASE l \in LooksOn(d) BY <1>7, <2>1, <2>2, <2>3 DEF LookInv
  <2>4. CASE Began(d, l)
    <3>1. /\ l \in Asking /\ l.at = day
          /\ l.loaded = NoRow \/ (rows[d] # NoRow /\ l.loaded = rows[d])
      BY <1>3, <2>4
    <3>2. day <= day + LookTime BY <1>2
    <3> QED BY <1>2, <1>8, <3>1, <3>2 DEF LookInv
  <2>5. ASSUME NEW k \in LooksOn(d), Learned(d, k, l) PROVE LookInv(d, l)'
    <3>1. k \in Asking /\ l \in Telling /\ l.at = k.at /\ l.loaded = k.loaded BY <1>4, <2>5
    <3> QED BY <1>7, <2>1, <2>2, <3>1, LooksAreApart DEF LookInv
  <2>6. ASSUME NEW k \in LooksOn(d), Loaded(d, k, l) PROVE LookInv(d, l)'
    <3>1. k \in Telling /\ l \in Telling /\ l.at = k.at /\ l.loaded = rows[d] /\ rows[d] # NoRow
      BY <1>5, <2>6
    <3> QED BY <1>8, <2>1, <3>1, LooksAreApart DEF LookInv
  <2> QED BY <2>3, <2>4, <2>5, <2>6, LooksAreApart
<1>10. ASSUME NEW d \in Tracked, NEW l \in (LooksOn(d) \cap Telling)'
       PROVE  ToldInv(d, l)'
  <2>1. \A k \in LooksOn(d) \cap Telling : ToldInv(d, k) BY DEF DiscoveryInv
  <2>2. \A k \in Telling : k.at \in Int BY DEF Telling
  <2>3. CASE l \in LooksOn(d) BY <1>6, <2>1, <2>2, <2>3 DEF ToldInv
  <2>4. l \notin Asking BY LooksAreApart
  <2>5. ASSUME NEW k \in LooksOn(d), Learned(d, k, l) PROVE ToldInv(d, l)'
    <3>1. /\ k \in Asking /\ l.at = k.at /\ l.seen \in {nature[d].stage, "error"}
          /\ l.since = nature[d].since
      BY <1>4, <2>5
    <3>2. LookInv(d, k) BY <3>1 DEF DiscoveryInv
    <3>3. l.at <= day /\ day <= l.at + LookTime BY <3>1, <3>2 DEF LookInv
    <3>4. nature[d].stage = "pending" => nature[d].since <= day BY DEF DiscoveryInv
    <3>5. l.at \in Int /\ nature[d].since \in Int BY <1>1, <2>2 DEF DiscoveryTypeInv
    <3>6. l.seen = "pending" => l.since <= l.at + LookTime
      <4>1. l.seen = "pending" => l.since <= day BY <3>1, <3>4
      <4> QED BY <1>2, <3>1, <3>3, <3>5, <4>1
    <3>7. ASSUME l.seen \notin {"pending", "error"} PROVE Clear(d, l.at)'
      <4>1. nature'[d].stage # "pending" BY <3>1, <3>7
      <4>2. \A m \in (LooksOn(d) \cap Telling)' : m.at \in Int /\ m.at <= day
        BY <1>9, <2>2 DEF LookInv
      <4>3. \A m \in (LooksOn(d) \cap Telling)' : ~(l.at + LookTime < m.at)
        BY <1>2, <3>3, <3>5, <4>2
      <4> QED BY <3>3, <4>1, <4>3 DEF Clear
    <3> QED BY <3>6, <3>7 DEF ToldInv
  <2>6. ASSUME NEW k \in LooksOn(d), Loaded(d, k, l) PROVE ToldInv(d, l)'
    <3>1. k \in Telling /\ l.at = k.at /\ l.seen = k.seen /\ l.since = k.since BY <1>5, <2>6
    <3> QED BY <1>6, <2>1, <2>2, <3>1 DEF ToldInv
  <2>7. ~Began(d, l) BY <1>3, <2>4
  <2> QED BY <2>3, <2>5, <2>6, <2>7, LooksAreApart
<1>11. \A d \in Tracked : nature'[d].stage = "pending" => nature'[d].since <= day'
  BY DEF DiscoveryInv
<1> QED BY <1>8, <1>9, <1>10, <1>11 DEF DiscoveryInv

(* The row a commit leaves: its columns are those of the row or of the look.  *)
LEMMA MergedRow ==
  ASSUME DiscoveryInv, NEW d \in Tracked, NEW l \in LooksOn(d) \cap Telling, l.loaded # NoRow
  PROVE  /\ rows[d] # NoRow /\ Merged(d, l) \in NameRows /\ WindowInv(Merged(d, l))
         /\ RowInv(d, Merged(d, l)) /\ (rows[d].sighted => Merged(d, l).sighted)
<1>1. DiscoveryTypeInv /\ LookInv(d, l) /\ ToldInv(d, l) BY DEF DiscoveryInv
<1>2. /\ l.at \in Int /\ l.since \in Int /\ l.seen \in Stages \cup {"error"}
      /\ l.loaded \in NameRows
  BY DEF Telling
<1>3. rows[d] # NoRow /\ rows[d] \in NameRows BY <1>1 DEF LookInv, DiscoveryTypeInv
<1>4. RowInv(d, rows[d]) /\ WindowInv(rows[d]) BY <1>3 DEF DiscoveryInv
<1>5. RowInv(d, l.loaded) /\ (l.loaded.sighted => rows[d].sighted) BY <1>1 DEF LookInv
<1>6. Grace \in Int /\ Redemption \in Int /\ LookTime \in Int BY LookAssumption
<1> DEFINE new == Observed(l.loaded, l)
           old == l.loaded
           merged == Merged(d, l)
           sighting == l.seen = "pending" /\ ~old.sighted
<1>7. DOMAIN new = {"status", "checked", "sighted", "from", "until"} BY DEF Observed
<1>8. /\ merged = [f \in DOMAIN new |-> IF new[f] # old[f] THEN new[f] ELSE rows[d][f]]
  BY DEF Merged
<1>9. /\ merged.status = IF new.status # old.status THEN new.status ELSE rows[d].status
      /\ merged.checked = IF new.checked # old.checked THEN new.checked ELSE rows[d].checked
      /\ merged.sighted = IF new.sighted # old.sighted THEN new.sighted ELSE rows[d].sighted
      /\ merged.from = IF new.from # old.from THEN new.from ELSE rows[d].from
      /\ merged.until = IF new.until # old.until THEN new.until ELSE rows[d].until
  BY <1>7, <1>8
<1>10. /\ new.status \in {"tracking", "error", "redemption", "pending_delete", "available"}
       /\ new.checked = [at |-> l.at, told |-> l.seen # "error"]
       /\ new.sighted = (old.sighted \/ sighting)
  BY <1>2 DEF Observed, StatusAfter, NameRows, Stages
<1>11. \/ new.from = old.from
       \/ /\ sighting
          /\ new.from = [at |-> PreviousLook(old, l) + Grace, since |-> l.since,
                         sure |-> old.checked # Nowhere /\ Over(old.checked, l)]
       \/ new.from = [at |-> l.at + Redemption + Grace]
  BY DEF Observed
<1>12. \/ new.until = old.until
       \/ sighting /\ new.until = [at |-> l.at + Grace, since |-> l.since]
       \/ new.until = [at |-> l.at + Redemption + Grace]
  BY DEF Observed
<1>13. old.checked \in Checks /\ old.sighted \in BOOLEAN BY <1>2 DEF NameRows
<1>14. PreviousLook(old, l) \in Int BY <1>2, <1>13 DEF PreviousLook, Checks
<1> HIDE DEF new, old, merged
<1>15. merged.checked \in Checks /\ merged.sighted \in BOOLEAN
  <2>1. (l.seen # "error") \in BOOLEAN OBVIOUS
  <2>2. \A x \in Int, b \in BOOLEAN : [at |-> x, told |-> b] \in Checks BY DEF Checks
  <2>3. new.checked \in Checks BY <1>2, <1>10, <2>1, <2>2
  <2>4. (old.sighted \/ sighting) \in BOOLEAN OBVIOUS
  <2>5. new.sighted \in BOOLEAN BY <1>10, <2>4
  <2> QED BY <1>3, <1>9, <2>3, <2>5 DEF NameRows
<1>16. merged.from \in Froms
  <2>1. \A x, y \in Int, b \in BOOLEAN : [at |-> x, since |-> y, sure |-> b] \in Froms
    BY DEF Froms
  <2>2. \A x \in Int : [at |-> x] \in Froms BY DEF Froms
  <2>3. PreviousLook(old, l) + Grace \in Int /\ l.at + Redemption + Grace \in Int
    BY <1>2, <1>6, <1>14
  <2>4. (old.checked # Nowhere /\ Over(old.checked, l)) \in BOOLEAN OBVIOUS
  <2>5. new.from = old.from \/ new.from \in Froms BY <1>2, <1>11, <2>1, <2>2, <2>3, <2>4
  <2> QED BY <1>3, <1>9, <2>5 DEF NameRows
<1>17. merged.until \in Untils
  <2>1. \A x, y \in Int : [at |-> x, since |-> y] \in Untils /\ [at |-> x] \in Untils BY DEF Untils
  <2>2. l.at + Grace \in Int /\ l.at + Redemption + Grace \in Int BY <1>2, <1>6
  <2>3. new.until = old.until \/ new.until \in Untils BY <1>2, <1>12, <2>1, <2>2
  <2> QED BY <1>3, <1>9, <2>3 DEF NameRows
<1>18. merged \in NameRows
  <2>1. merged.status \in {"tracking", "error", "redemption", "pending_delete", "available"}
    BY <1>3, <1>9, <1>10 DEF NameRows
  <2> QED BY <1>7, <1>8, <1>15, <1>16, <1>17, <2>1 DEF NameRows
<1>19. WindowInv(merged)
  <2>1. "since" \in DOMAIN merged.until => merged.until.since + Grace <= merged.until.at + LookTime
    <3>1. CASE merged.until = rows[d].until BY <1>4, <3>1 DEF WindowInv
    <3>2. CASE sighting /\ merged.until = [at |-> l.at + Grace, since |-> l.since]
      <4>1. l.since <= l.at + LookTime BY <1>1, <3>2 DEF ToldInv
      <4>2. l.since + Grace <= l.at + Grace + LookTime BY ONLY <1>2, <1>6, <4>1
      <4> QED BY <3>2, <4>2
    <3>3. CASE merged.until = [at |-> l.at + Redemption + Grace] BY <3>3
    <3> QED BY <1>9, <1>12, <3>1, <3>2, <3>3
  <2>2. "since" \in DOMAIN merged.from => (merged.from.sure => merged.from.at <= merged.from.since + Grace)
    <3>1. CASE merged.from = rows[d].from BY <1>4, <3>1 DEF WindowInv
    <3>2. CASE /\ sighting
               /\ merged.from = [at |-> PreviousLook(old, l) + Grace, since |-> l.since,
                                 sure |-> old.checked # Nowhere /\ Over(old.checked, l)]
      <4>1. ASSUME old.checked # Nowhere, Over(old.checked, l)
            PROVE  PreviousLook(old, l) <= l.since
        <5>1. old.checked.told /\ old.checked.at + LookTime < l.at BY <4>1 DEF Over
        <5>2. Clear(d, old.checked.at) BY <1>5, <3>2, <4>1, <5>1 DEF RowInv, old
        <5>3. old.checked.at <= l.since BY <3>2, <5>1, <5>2 DEF Clear
        <5> QED BY <4>1, <5>3 DEF PreviousLook
      <4>2. PreviousLook(old, l) <= l.since => PreviousLook(old, l) + Grace <= l.since + Grace
        BY ONLY <1>2, <1>6, <1>14
      <4>3. /\ merged.from.at = PreviousLook(old, l) + Grace /\ merged.from.since = l.since
            /\ merged.from.sure = (old.checked # Nowhere /\ Over(old.checked, l))
        BY <3>2
      <4>4. merged.from.sure => old.checked # Nowhere /\ Over(old.checked, l) BY <4>3
      <4> QED BY <4>1, <4>2, <4>3, <4>4
    <3>3. CASE merged.from = [at |-> l.at + Redemption + Grace] BY <3>3
    <3> QED BY <1>9, <1>11, <3>1, <3>2, <3>3
  <2> QED BY <2>1, <2>2 DEF WindowInv
<1>20. rows[d].sighted => merged.sighted BY <1>3, <1>5, <1>9, <1>10, <1>13 DEF NameRows, old
<1>21. RowInv(d, merged)
  <2>1. CASE merged.checked = rows[d].checked BY <1>4, <1>20, <2>1 DEF RowInv
  <2>2. CASE merged.checked = [at |-> l.at, told |-> l.seen # "error"]
    <3>1. sighting => merged.sighted BY <1>9, <1>10
    <3>2. l.seen = "pending" => merged.sighted BY <1>3, <1>5, <1>9, <1>10, <3>1, <1>13 DEF NameRows, old
    <3>3. l.seen # "error" /\ l.seen # "pending" => Clear(d, l.at) BY <1>1 DEF ToldInv
    <3>4. merged.checked.at = l.at /\ merged.checked.told = (l.seen # "error") BY <2>2
    <3>5. merged.checked.told => l.seen # "error" BY <3>4
    <3> QED BY <3>2, <3>3, <3>4, <3>5 DEF RowInv
  <2> QED BY <1>9, <1>10, <2>1, <2>2
<1> QED BY <1>3, <1>18, <1>19, <1>20, <1>21 DEF merged

(* Rows are committed, and the looks that were committed are done.            *)
LEMMA CommitsKeep ==
  ASSUME DiscoveryInv, DiscoveryTypeInv', UNCHANGED <<day, nature>>,
         \A d \in Tracked : (LooksOn(d))' \subseteq LooksOn(d) \cup {NoLook},
         \A d \in Tracked : \/ rows'[d] = rows[d]
                            \/ \E l \in LooksOn(d) \cap Telling : l.loaded # NoRow /\ rows'[d] = Merged(d, l),
         \A r \in Reader : looks'[r] \in Asking \cup Telling => looks'[r].loaded # NoRow
  PROVE  DiscoveryInv'
<1>1. DiscoveryTypeInv BY DEF DiscoveryInv
<1>2. \A d \in Tracked : (LooksOn(d))' \cap (Asking \cup Telling) \subseteq LooksOn(d)
  BY LooksAreApart
<1>3. ASSUME NEW d \in Tracked, NEW a \in Int, Clear(d, a) PROVE Clear(d, a)'
  BY <1>2, <1>3 DEF Clear
<1>4. \A d \in Tracked : \A row \in NameRows : RowInv(d, row) => RowInv(d, row)'
  BY <1>3 DEF RowInv, NameRows, Checks
<1>5. ASSUME NEW d \in Tracked
      PROVE  /\ rows[d] # NoRow => rows'[d] # NoRow /\ (rows[d].sighted => rows'[d].sighted)
             /\ rows'[d] # NoRow => RowInv(d, rows'[d]) /\ WindowInv(rows'[d]) /\ rows'[d] \in NameRows
  <2>1. CASE rows'[d] = rows[d] BY <1>1, <2>1 DEF DiscoveryInv, DiscoveryTypeInv
  <2>2. ASSUME NEW l \in LooksOn(d) \cap Telling, l.loaded # NoRow, rows'[d] = Merged(d, l)
        PROVE  /\ rows[d] # NoRow => rows'[d] # NoRow /\ (rows[d].sighted => rows'[d].sighted)
               /\ rows'[d] # NoRow => RowInv(d, rows'[d]) /\ WindowInv(rows'[d]) /\ rows'[d] \in NameRows
    BY <2>2, MergedRow, LooksAreApart
  <2> QED BY <2>1, <2>2
<1>6. \A d \in Tracked : rows'[d] # NoRow => RowInv(d, rows[d])' /\ WindowInv(rows[d])'
  <2>1. \A d \in Tracked : rows'[d] # NoRow => RowInv(d, rows'[d]) /\ rows'[d] \in NameRows BY <1>5
  <2>2. \A d \in Tracked : rows'[d] # NoRow => RowInv(d, rows[d])'
    BY <1>3, <2>1 DEF RowInv, NameRows, Checks
  <2> QED BY <1>5, <2>2 DEF WindowInv
<1>7. ASSUME NEW d \in Tracked, NEW l \in (LooksOn(d) \cap (Asking \cup Telling))'
      PROVE  LookInv(d, l)'
  <2>1. LookInv(d, l) BY <1>2 DEF DiscoveryInv
  <2>2. l.loaded # NoRow => l.loaded \in NameRows BY DEF Asking, Telling
  <2> QED BY <1>4, <1>5, <2>1, <2>2 DEF LookInv
<1>8. ASSUME NEW d \in Tracked, NEW l \in (LooksOn(d) \cap Telling)' PROVE ToldInv(d, l)'
  <2>1. ToldInv(d, l) /\ l.at \in Int BY <1>2 DEF DiscoveryInv, Telling
  <2> QED BY <1>3, <2>1 DEF ToldInv
<1>9. \A d \in Tracked : nature'[d].stage = "pending" => nature'[d].since <= day'
  BY DEF DiscoveryInv
<1> QED BY <1>6, <1>7, <1>8, <1>9 DEF DiscoveryInv

(* The registry moves on, or a day passes.                                    *)
LEMMA TimeKeeps ==
  ASSUME DiscoveryInv, DiscoveryTypeInv', UNCHANGED <<rows, tickets, looks>>, day <= day',
         \A d \in Tracked : \/ nature'[d] = nature[d]
                            \/ nature'[d].stage # "pending" \/ nature'[d].since = day,
         \A d \in Tracked : \A l \in LooksOn(d) \cap Asking : day' <= l.at + LookTime
  PROVE  DiscoveryInv'
<1>1. DiscoveryTypeInv /\ day \in Int /\ day' \in Int BY DEF DiscoveryInv, DiscoveryTypeInv
<1>2. \A d \in Tracked : (LooksOn(d))' = LooksOn(d) BY DEF LooksOn
<1>3. ASSUME NEW d \in Tracked, NEW a \in Int, Clear(d, a) PROVE Clear(d, a)'
  <2>1. a <= day BY <1>3 DEF Clear
  <2>2. a <= day' BY ONLY <1>1, <2>1, a \in Int, day <= day'
  <2> QED BY <1>2, <1>3, <2>1, <2>2 DEF Clear
<1>4. \A d \in Tracked : \A row \in NameRows : RowInv(d, row) => RowInv(d, row)'
  BY <1>3 DEF RowInv, NameRows, Checks
<1>5. \A d \in Tracked : rows'[d] # NoRow => RowInv(d, rows[d])' /\ WindowInv(rows[d])'
  BY <1>1, <1>4 DEF DiscoveryInv, DiscoveryTypeInv, WindowInv
<1>6. ASSUME NEW d \in Tracked, NEW l \in (LooksOn(d) \cap (Asking \cup Telling))'
      PROVE  LookInv(d, l)'
  <2>1. LookInv(d, l) BY <1>2 DEF DiscoveryInv
  <2>2. l.at \in Int /\ (l.loaded # NoRow => l.loaded \in NameRows) BY DEF Asking, Telling
  <2>3. l.at <= day BY <2>1 DEF LookInv
  <2>4. l.at <= day' BY ONLY <1>1, <2>2, <2>3, day <= day'
  <2>5. l \in Asking => day' <= l.at + LookTime BY <1>2
  <2> QED BY <1>4, <2>1, <2>2, <2>4, <2>5 DEF LookInv
<1>7. ASSUME NEW d \in Tracked, NEW l \in (LooksOn(d) \cap Telling)' PROVE ToldInv(d, l)'
  <2>1. ToldInv(d, l) /\ l.at \in Int BY <1>2 DEF DiscoveryInv, Telling
  <2> QED BY <1>3, <2>1 DEF ToldInv
<1>8. ASSUME NEW d \in Tracked, nature'[d].stage = "pending" PROVE nature'[d].since <= day'
  <2>1. nature[d].stage = "pending" => nature[d].since <= day BY DEF DiscoveryInv
  <2>2. nature'[d].since <= day BY <1>1, <1>8, <2>1
  <2>3. nature'[d].since \in Int BY DEF DiscoveryTypeInv
  <2> QED BY ONLY <1>1, <2>2, <2>3, day <= day'
<1> QED BY <1>5, <1>6, <1>7, <1>8, <1>1, <1>2 DEF DiscoveryInv

TicketRows == [state: {"queued", "running", "failed"}, on: Tracked, assigned: Int, look: Looks]

LEMMA TicketsAreTyped ==
  ASSUME DiscoveryTypeInv, NEW t \in Ticket
  PROVE  /\ tickets[t] = NoTicket \/ tickets[t] \in TicketRows
         /\ tickets[t].look # NoLook \/ tickets[t].state # "none" => tickets[t] \in TicketRows
         /\ tickets[t].look.step = "asking" => tickets[t].look \in Asking
         /\ tickets[t].look.step = "told" => tickets[t].look \in Telling
         /\ tickets[t] \in TicketRows => tickets[t].look \in LooksOn(tickets[t].on)
<1>1. tickets[t] = NoTicket \/ tickets[t] \in TicketRows BY DEF DiscoveryTypeInv, Tickets, TicketRows
<1>2. NoTicket.look = NoLook /\ NoTicket.state = "none" BY DEF NoTicket
<1>3. tickets[t].look \in Looks BY <1>1, <1>2 DEF TicketRows, Looks
<1> QED BY <1>1, <1>2, <1>3, LooksAreApart DEF LooksOn

LEMMA TicketChanges ==
  ASSUME DiscoveryTypeInv, NEW t \in Ticket, NEW T \in TicketRows \cup {NoTicket},
         tickets' = [tickets EXCEPT ![t] = T], UNCHANGED <<day, nature, looks>>,
         rows' \in [Tracked -> NameRows \cup {NoRow}]
  PROVE  /\ DiscoveryTypeInv'
         /\ \A d \in Tracked : \A l \in (LooksOn(d))' : l \in LooksOn(d) \/ (T.on = d /\ l = T.look)
<1>1. DiscoveryTypeInv' BY DEF DiscoveryTypeInv, Tickets, TicketRows
<1>2. tickets'[t] = T /\ \A s \in Ticket \ {t} : tickets'[s] = tickets[s] BY DEF DiscoveryTypeInv
<1> QED BY <1>1, <1>2 DEF LooksOn

(* Tasks that are given up keep what was found out.                           *)
LEMMA GivenUpTickets ==
  ASSUME DiscoveryTypeInv, NEW t \in Ticket
  PROVE  /\ GivenUp(t) \in Tickets
         /\ GivenUp(t).look = tickets[t].look \/ GivenUp(t).look = NoLook
         /\ GivenUp(t).on = tickets[t].on \/ GivenUp(t).look = NoLook
<1>1. tickets[t] \in Tickets BY DEF DiscoveryTypeInv
<1>2. CASE ~Stale(t) BY <1>1, <1>2 DEF GivenUp
<1>3. CASE Stale(t) /\ tickets[t].look = NoLook BY <1>3 DEF GivenUp, Tickets, NoTicket
<1>4. CASE Stale(t) /\ tickets[t].look # NoLook
  <2>1. tickets[t] \in TicketRows BY <1>4, TicketsAreTyped
  <2>2. GivenUp(t) = [tickets[t] EXCEPT !.state = "failed"] BY <1>4 DEF GivenUp
  <2> QED BY <2>1, <2>2 DEF TicketRows, Tickets
<1> QED BY <1>2, <1>3, <1>4

LEMMA DispatchKeeps ==
  DiscoveryInv /\ (\E S \in SUBSET Tracked : \E chosen \in [S -> Ticket] : DispatchTickets(chosen))
    => DiscoveryInv'
<1> SUFFICES ASSUME DiscoveryInv, NEW S \in SUBSET Tracked, NEW chosen \in [S -> Ticket],
                    DispatchTickets(chosen)
             PROVE  DiscoveryInv'
  OBVIOUS
<1>1. DiscoveryTypeInv BY DEF DiscoveryInv
<1>2. /\ UNCHANGED <<day, nature, rows, looks>>
      /\ tickets' = [t \in Ticket |->
           IF \E d \in S : chosen[d] = t
           THEN [state |-> "queued", on |-> CHOOSE d \in S : chosen[d] = t,
                 assigned |-> day, look |-> NoLook]
           ELSE GivenUp(t)]
  BY DEF DispatchTickets
<1>3. ASSUME NEW t \in Ticket
      PROVE  /\ tickets'[t] \in Tickets
             /\ tickets'[t].look = NoLook \/ tickets'[t] = GivenUp(t)
  <2>1. CASE \E d \in S : chosen[d] = t
    <3>1. (CHOOSE d \in S : chosen[d] = t) \in Tracked BY <2>1
    <3>2. NoLook \in Looks /\ day \in Int BY <1>1 DEF Looks, DiscoveryTypeInv
    <3> QED BY <1>2, <2>1, <3>1, <3>2 DEF Tickets
  <2>2. CASE ~\E d \in S : chosen[d] = t BY <1>1, <1>2, <2>2, GivenUpTickets
  <2> QED BY <2>1, <2>2
<1>4. tickets' \in [Ticket -> Tickets] BY <1>2, <1>3
<1>5. DiscoveryTypeInv' BY <1>1, <1>2, <1>4 DEF DiscoveryTypeInv
<1>6. \A d \in Tracked : \A l \in (LooksOn(d))' : l \in LooksOn(d) \/ l = NoLook
  <2>1. \A t \in Ticket : tickets'[t].look = NoLook
          \/ (tickets'[t].look = tickets[t].look /\ tickets'[t].on = tickets[t].on)
    BY <1>1, <1>3, GivenUpTickets
  <2> QED BY <1>2, <2>1 DEF LooksOn
<1>7. \A r \in Reader : looks'[r] \in Asking \cup Telling => looks'[r].loaded # NoRow
  BY <1>2 DEF DiscoveryInv
<1> QED BY <1>2, <1>5, <1>6, <1>7, LooksChange

(* What a worker does with its task.                                          *)
LEMMA TicketStepsKeep ==
  ASSUME DiscoveryInv, NEW t \in Ticket,
         \/ TakeTicket(t) \/ ReadForResult(t) \/ CommitResult(t) \/ LoseLook(t)
         \/ \E d \in Tracked : \E seen \in Seen(d) : \E origin \in Sources(seen) :
              d = tickets[t].on /\ AskFor(t, seen, origin)
  PROVE  DiscoveryInv'
<1>1. DiscoveryTypeInv BY DEF DiscoveryInv
<1> DEFINE T == tickets[t]
<1>2. T \in TicketRows
  BY <1>1, TicketsAreTyped DEF TakeTicket, ReadForResult, CommitResult, LoseLook, AskFor, NoLook
<1>3. UNCHANGED <<day, nature, looks>>
  BY DEF TakeTicket, ReadForResult, CommitResult, LoseLook, AskFor
<1>4. T.on \in Tracked /\ T.look \in LooksOn(T.on) /\ tickets \in [Ticket -> Tickets]
  BY <1>1, <1>2, TicketsAreTyped DEF TicketRows, DiscoveryTypeInv
<1>5. \A r \in Reader : looks'[r] \in Asking \cup Telling => looks'[r].loaded # NoRow
  BY <1>3 DEF DiscoveryInv
<1>6. ASSUME NEW state \in {"queued", "running", "failed"}, NEW l \in Looks, rows' = rows,
             tickets' = [tickets EXCEPT ![t] = [T EXCEPT !.state = state, !.look = l]],
             \/ l = T.look \/ l \in {NoLook, [step |-> "lost"]} \/ Began(T.on, l)
             \/ Learned(T.on, T.look, l) \/ Loaded(T.on, T.look, l)
      PROVE  DiscoveryInv'
  <2> DEFINE N == [T EXCEPT !.state = state, !.look = l]
  <2>1. N \in TicketRows /\ N.on = T.on /\ N.look = l BY <1>2, <1>6 DEF TicketRows
  <2>2. rows' \in [Tracked -> NameRows \cup {NoRow}] BY <1>1, <1>6 DEF DiscoveryTypeInv
  <2> HIDE DEF N
  <2>3. tickets' = [tickets EXCEPT ![t] = N] BY <1>6 DEF N
  <2>4. /\ DiscoveryTypeInv'
        /\ \A d \in Tracked : \A k \in (LooksOn(d))' : k \in LooksOn(d) \/ (T.on = d /\ k = l)
    BY <1>1, <1>3, <2>1, <2>2, <2>3, TicketChanges
  <2> QED BY <1>3, <1>4, <1>5, <1>6, <2>4, LooksChange
<1>7. CASE TakeTicket(t)
  <2> DEFINE l == LookStarted(T.on, NoRow)
  <2>1. l \in Looks BY <1>1 DEF LookStarted, Looks, Asking, DiscoveryTypeInv
  <2>2. tickets' = [tickets EXCEPT ![t] = [T EXCEPT !.state = "running", !.look = l]]
    BY <1>4, <1>7 DEF TakeTicket
  <2>3. Began(T.on, l) BY DEF Began
  <2>4. rows' = rows BY <1>7 DEF TakeTicket
  <2> QED BY <1>6, <2>1, <2>2, <2>3, <2>4
<1>8. ASSUME NEW d \in Tracked, NEW seen \in Seen(d), NEW origin \in Sources(seen),
             d = T.on, AskFor(t, seen, origin)
      PROVE  DiscoveryInv'
  <2> DEFINE l == Told(T.on, T.look, seen, origin)
  <2>1. T.look \in Asking BY <1>1, <1>8, TicketsAreTyped DEF AskFor
  <2>2. l \in Looks
    BY <1>1, <1>8, <2>1 DEF Told, Looks, Asking, Telling, DiscoveryTypeInv, Seen, Sources
  <2>3. tickets' = [tickets EXCEPT ![t] = [T EXCEPT !.look = l]] BY <1>4, <1>8 DEF AskFor
  <2>4. [T EXCEPT !.look = l] = [T EXCEPT !.state = T.state, !.look = l] BY <1>2 DEF TicketRows
  <2>5. Learned(T.on, T.look, l) BY <1>8, <2>1 DEF Learned
  <2>6. rows' = rows /\ T.state \in {"queued", "running", "failed"}
    BY <1>2, <1>8 DEF AskFor, TicketRows
  <2> HIDE DEF l
  <2> QED BY <1>6, <2>2, <2>3, <2>4, <2>5, <2>6
<1>9. CASE ReadForResult(t)
  <2> DEFINE l == [T.look EXCEPT !.loaded = rows[T.on]]
  <2>1. T.look \in Telling /\ T.look.loaded = NoRow BY <1>1, <1>9, TicketsAreTyped DEF ReadForResult
  <2>2. rows[T.on] \in NameRows \cup {NoRow} BY <1>1, <1>4 DEF DiscoveryTypeInv
  <2>3. l \in Looks BY <2>1, <2>2 DEF Looks, Telling
  <2>4. tickets' = [tickets EXCEPT ![t] = [T EXCEPT !.look = l]] BY <1>2, <1>4, <1>9 DEF ReadForResult
  <2>5. [T EXCEPT !.look = l] = [T EXCEPT !.state = T.state, !.look = l] BY <1>2 DEF TicketRows
  <2>6. rows[T.on] = NoRow => l = T.look BY <2>1 DEF Telling
  <2>7. rows[T.on] # NoRow => Loaded(T.on, T.look, l) BY <2>1 DEF Loaded
  <2>8. rows' = rows /\ T.state \in {"queued", "running", "failed"}
    BY <1>2, <1>9 DEF ReadForResult, TicketRows
  <2> HIDE DEF l
  <2> QED BY <1>6, <2>3, <2>4, <2>5, <2>6, <2>7, <2>8
<1>10. CASE LoseLook(t)
  <2>1. rows' = rows /\ T.state \in {"queued", "running", "failed"}
    BY <1>2, <1>10 DEF LoseLook, TicketRows
  <2>2. CASE Active(t)
    <3> DEFINE l == [step |-> "lost"]
    <3>1. tickets' = [tickets EXCEPT ![t] = [T EXCEPT !.look = l]] BY <1>4, <1>10, <2>2 DEF LoseLook
    <3>2. [T EXCEPT !.look = l] = [T EXCEPT !.state = T.state, !.look = l] BY <1>2 DEF TicketRows
    <3>3. l \in Looks BY DEF Looks
    <3> QED BY <1>6, <2>1, <3>1, <3>2, <3>3
  <2>3. CASE ~Active(t)
    <3>1. tickets' = [tickets EXCEPT ![t] = NoTicket] BY <1>4, <1>10, <2>3 DEF LoseLook
    <3>2. rows' \in [Tracked -> NameRows \cup {NoRow}] BY <1>1, <2>1 DEF DiscoveryTypeInv
    <3>3. NoTicket.look = NoLook BY DEF NoTicket
    <3>4. /\ DiscoveryTypeInv'
          /\ \A d \in Tracked : \A k \in (LooksOn(d))' : k \in LooksOn(d) \/ k = NoLook
      BY <1>1, <1>3, <3>1, <3>2, <3>3, TicketChanges
    <3> QED BY <1>3, <1>5, <2>1, <3>4, LooksChange
  <2> QED BY <2>2, <2>3
<1>11. CASE CommitResult(t)
  <2>1. T.look \in Telling /\ T.look.loaded # NoRow BY <1>1, <1>11, TicketsAreTyped DEF CommitResult
  <2>2. rows' = [rows EXCEPT ![T.on] = Merged(T.on, T.look)] /\ tickets' = [tickets EXCEPT ![t] = NoTicket]
    BY <1>11 DEF CommitResult
  <2>3. Merged(T.on, T.look) \in NameRows BY <1>4, <2>1, MergedRow
  <2>4. /\ rows' \in [Tracked -> NameRows \cup {NoRow}] /\ rows'[T.on] = Merged(T.on, T.look)
        /\ \A d \in Tracked \ {T.on} : rows'[d] = rows[d]
    BY <1>1, <1>4, <2>2, <2>3 DEF DiscoveryTypeInv
  <2>5. NoTicket.look = NoLook BY DEF NoTicket
  <2>6. /\ DiscoveryTypeInv'
        /\ \A d \in Tracked : \A k \in (LooksOn(d))' : k \in LooksOn(d) \/ k = NoLook
    BY <1>1, <1>3, <2>2, <2>4, <2>5, TicketChanges
  <2> QED BY <1>3, <1>4, <1>5, <2>1, <2>4, <2>6, CommitsKeep
<1> QED BY <1>7, <1>8, <1>9, <1>10, <1>11

(* What the cycle and the panel do with their looks.                          *)
LEMMA ReaderStepsKeep ==
  ASSUME DiscoveryInv,
         \/ BeginLocal
         \/ \E d \in Tracked : CheckNow(d)
         \/ \E r \in Reader : \E seen \in Seen(r[2]) : \E origin \in Sources(seen) : Ask(r, seen, origin)
         \/ \E who \in {"cycle", "panel"} : CommitLooks(who) \/ CutLooks(who)
  PROVE  DiscoveryInv'
<1>1. DiscoveryTypeInv BY DEF DiscoveryInv
<1>2. UNCHANGED <<day, nature>> BY DEF BeginLocal, CheckNow, Ask, CommitLooks, CutLooks
<1>3. /\ looks \in [Reader -> Looks] /\ \A r \in Reader : r[2] \in Tracked /\ looks[r] \in LooksOn(r[2])
      /\ \A r \in Reader : looks[r] \in Asking \cup Telling => looks[r].loaded # NoRow
      /\ \A d \in Tracked : \A who \in {"cycle", "panel"} : <<who, d>> \in Reader
  BY <1>1 DEF DiscoveryInv, DiscoveryTypeInv, LooksOn, Reader
<1>4. ASSUME NEW d \in Tracked, rows[d] # NoRow
      PROVE  LookStarted(d, rows[d]) \in Asking /\ LookStarted(d, rows[d]).loaded # NoRow
  BY <1>1, <1>4 DEF LookStarted, Asking, DiscoveryTypeInv
<1>5. NoLook \in Looks /\ Asking \subseteq Looks /\ Telling \subseteq Looks BY DEF Looks
<1>6. CASE BeginLocal
  <2>1. /\ rows' = rows
        /\ looks' = [r \in Reader |-> IF r[1] = "cycle" /\ Due(r[2]) THEN LookStarted(r[2], rows[r[2]])
                                      ELSE looks[r]]
        /\ tickets' = [t \in Ticket |-> GivenUp(t)] \/ UNCHANGED tickets
    BY <1>6 DEF BeginLocal
  <2>2. \A d \in Tracked : Due(d) => rows[d] # NoRow BY DEF Due, NoRow
  <2>3. \A r \in Reader :
          /\ \/ looks'[r] = looks[r]
             \/ rows[r[2]] # NoRow /\ looks'[r] = LookStarted(r[2], rows[r[2]])
          /\ looks'[r] \in Looks
          /\ looks'[r] \in Asking \cup Telling => looks'[r].loaded # NoRow
    BY <1>3, <1>4, <1>5, <2>1, <2>2
  <2>4. looks' \in [Reader -> Looks] BY <2>1, <2>3
  <2>5. /\ tickets' \in [Ticket -> Tickets]
        /\ \A t \in Ticket : tickets'[t].look = NoLook
             \/ (tickets'[t].look = tickets[t].look /\ tickets'[t].on = tickets[t].on)
    BY <1>1, <2>1, GivenUpTickets DEF DiscoveryTypeInv
  <2>6. DiscoveryTypeInv' BY <1>1, <1>2, <2>1, <2>4, <2>5 DEF DiscoveryTypeInv
  <2>7. \A d \in Tracked : \A l \in (LooksOn(d))' : l \in LooksOn(d) \/ l = NoLook \/ Began(d, l)
    BY <2>3, <2>5 DEF LooksOn, Began
  <2> QED BY <1>2, <2>1, <2>3, <2>6, <2>7, LooksChange
<1>7. ASSUME NEW r \in Reader, NEW l \in Looks, rows' = rows, tickets' = tickets,
             looks' = [looks EXCEPT ![r] = l], l \in Asking \cup Telling => l.loaded # NoRow,
             Began(r[2], l) \/ Learned(r[2], looks[r], l)
      PROVE  DiscoveryInv'
  <2>1. looks'[r] = l /\ \A q \in Reader \ {r} : looks'[q] = looks[q] BY <1>3, <1>7
  <2>2. DiscoveryTypeInv' BY <1>1, <1>2, <1>7 DEF DiscoveryTypeInv
  <2>3. \A d \in Tracked : \A k \in (LooksOn(d))' : k \in LooksOn(d) \/ (r[2] = d /\ k = l)
    BY <1>7, <2>1 DEF LooksOn
  <2>4. \A q \in Reader : looks'[q] \in Asking \cup Telling => looks'[q].loaded # NoRow
    BY <1>3, <1>7, <2>1
  <2> QED BY <1>2, <1>3, <1>7, <2>2, <2>3, <2>4, LooksChange
<1>8. ASSUME NEW d \in Tracked, CheckNow(d) PROVE DiscoveryInv'
  <2> DEFINE r == <<"panel", d>>
  <2>1. r \in Reader /\ r[2] = d BY <1>3
  <2>2. /\ rows[d] # NoRow /\ rows' = rows /\ tickets' = tickets
        /\ looks' = [looks EXCEPT ![r] = LookStarted(d, rows[d])]
    BY <1>8 DEF CheckNow
  <2>3. Began(r[2], LookStarted(d, rows[d])) BY <2>1, <2>2 DEF Began
  <2> HIDE DEF r
  <2> QED BY <1>4, <1>5, <1>7, <2>1, <2>2, <2>3
<1>9. ASSUME NEW r \in Reader, NEW seen \in Seen(r[2]), NEW origin \in Sources(seen), Ask(r, seen, origin)
      PROVE  DiscoveryInv'
  <2> DEFINE l == Told(r[2], looks[r], seen, origin)
  <2>1. looks[r] \in Asking BY <1>3, <1>9, LooksAreApart DEF Ask
  <2>2. l \in Telling /\ l.loaded = looks[r].loaded
    BY <1>1, <1>3, <1>9, <2>1 DEF Told, Asking, Telling, DiscoveryTypeInv, Seen, Sources
  <2>3. Learned(r[2], looks[r], l) BY <1>9, <2>1 DEF Learned
  <2>4. looks' = [looks EXCEPT ![r] = l] /\ rows' = rows /\ tickets' = tickets
    BY <1>3, <1>9 DEF Ask
  <2> HIDE DEF l
  <2> QED BY <1>3, <1>5, <1>7, <2>1, <2>2, <2>3, <2>4
<1>10. ASSUME NEW who \in {"cycle", "panel"},
              looks' = [r \in Reader |-> IF r[1] = who THEN NoLook ELSE looks[r]], tickets' = tickets
       PROVE  /\ looks' \in [Reader -> Looks]
              /\ \A d \in Tracked : (LooksOn(d))' \subseteq LooksOn(d) \cup {NoLook}
              /\ \A r \in Reader : looks'[r] \in Asking \cup Telling => looks'[r].loaded # NoRow
  <2>1. \A r \in Reader : looks'[r] = NoLook \/ looks'[r] = looks[r] BY <1>10
  <2>2. looks' \in [Reader -> Looks] BY <1>3, <1>5, <1>10
  <2> QED BY <1>3, <1>10, <2>1, <2>2, LooksAreApart DEF LooksOn
<1>11. ASSUME NEW who \in {"cycle", "panel"}, CommitLooks(who) PROVE DiscoveryInv'
  <2>1. /\ rows' = [d \in Tracked |-> IF Stored(who, d) THEN Merged(d, looks[<<who, d>>]) ELSE rows[d]]
        /\ looks' = [r \in Reader |-> IF r[1] = who THEN NoLook ELSE looks[r]] /\ tickets' = tickets
    BY <1>11 DEF CommitLooks
  <2>2. ASSUME NEW d \in Tracked, Stored(who, d)
        PROVE  /\ looks[<<who, d>>] \in LooksOn(d) \cap Telling /\ looks[<<who, d>>].loaded # NoRow
               /\ Merged(d, looks[<<who, d>>]) \in NameRows
    <3>1. <<who, d>> \in Reader /\ <<who, d>>[2] = d BY <1>3
    <3>2. looks[<<who, d>>] \in LooksOn(d) /\ looks[<<who, d>>] \in Looks BY <1>3, <3>1
    <3>3. looks[<<who, d>>] \in Telling BY <2>2, <3>2, LooksAreApart DEF Stored
    <3>4. looks[<<who, d>>].loaded # NoRow BY <1>3, <3>1, <3>3
    <3> QED BY <3>2, <3>3, <3>4, MergedRow
  <2>3. \A d \in Tracked : \/ rows'[d] = rows[d]
                           \/ \E l \in LooksOn(d) \cap Telling : l.loaded # NoRow /\ rows'[d] = Merged(d, l)
    BY <2>1, <2>2
  <2>4. rows' \in [Tracked -> NameRows \cup {NoRow}] BY <1>1, <2>1, <2>2 DEF DiscoveryTypeInv
  <2>5. DiscoveryTypeInv' BY <1>1, <1>2, <1>10, <2>1, <2>4 DEF DiscoveryTypeInv
  <2>6. /\ \A d \in Tracked : (LooksOn(d))' \subseteq LooksOn(d) \cup {NoLook}
        /\ \A r \in Reader : looks'[r] \in Asking \cup Telling => looks'[r].loaded # NoRow
    BY <1>10, <2>1
  <2> QED BY <1>2, <2>3, <2>5, <2>6, CommitsKeep
<1>12. ASSUME NEW who \in {"cycle", "panel"}, CutLooks(who) PROVE DiscoveryInv'
  <2>1. /\ looks' = [r \in Reader |-> IF r[1] = who THEN NoLook ELSE looks[r]]
        /\ tickets' = tickets /\ rows' = rows
    BY <1>12 DEF CutLooks
  <2>2. DiscoveryTypeInv' BY <1>1, <1>2, <1>10, <2>1 DEF DiscoveryTypeInv
  <2>3. /\ \A d \in Tracked : (LooksOn(d))' \subseteq LooksOn(d) \cup {NoLook}
        /\ \A r \in Reader : looks'[r] \in Asking \cup Telling => looks'[r].loaded # NoRow
    BY <1>10, <2>1
  <2> QED BY <1>2, <2>1, <2>2, <2>3, CommitsKeep
<1> QED BY <1>6, <1>8, <1>9, <1>11, <1>12

(* The other steps: names are added or tracked again, the registry moves on,  *)
(* days pass.                                                                 *)
LEMMA RegistryKeeps ==
  ASSUME DiscoveryInv,
         DayPasses \/ \E d \in Tracked : ImportDomain(d) \/ TrackAgain(d) \/ NatureMoves(d)
  PROVE  DiscoveryInv'
<1>1. DiscoveryTypeInv /\ day \in Int BY DEF DiscoveryInv, DiscoveryTypeInv
<1>2. \A d \in Tracked : LooksOn(d) \subseteq Looks BY <1>1, LooksAreTyped
<1>3. CASE DayPasses
  <2>1. day' = day + 1 /\ UNCHANGED <<nature, rows, tickets, looks>> BY <1>3 DEF DayPasses
  <2>2. ASSUME NEW d \in Tracked, NEW l \in LooksOn(d) \cap Asking PROVE day' <= l.at + LookTime
    <3>1. l.step = "asking" /\ l.at \in Int BY LooksAreApart DEF Asking
    <3>2. l \in {looks[r] : r \in Reader} \cup {tickets[t].look : t \in Ticket} BY DEF LooksOn
    <3>3. day < l.at + LookTime BY <1>3, <3>1, <3>2 DEF DayPasses
    <3> QED BY ONLY <1>1, <2>1, <3>1, <3>3, LookAssumption
  <2>3. DiscoveryTypeInv' BY <1>1, <2>1 DEF DiscoveryTypeInv
  <2>4. day <= day' BY ONLY <1>1, <2>1
  <2> QED BY <2>1, <2>2, <2>3, <2>4, TimeKeeps
<1>4. ASSUME NEW d \in Tracked, NatureMoves(d) PROVE DiscoveryInv'
  <2>1. PICK stage \in After(nature[d].stage) :
          nature' = [nature EXCEPT ![d] = [stage |-> stage, since |-> IF stage = "pending" THEN day ELSE Never]]
    BY <1>4 DEF NatureMoves
  <2>2. stage \in Stages BY DEF After, Stages
  <2>3. UNCHANGED <<day, rows, tickets, looks>> BY <1>4 DEF NatureMoves
  <2>4. [stage |-> stage, since |-> IF stage = "pending" THEN day ELSE Never] \in [stage: Stages, since: Int]
    BY <1>1, <2>2 DEF Never
  <2>5. DiscoveryTypeInv' BY <1>1, <2>1, <2>3, <2>4 DEF DiscoveryTypeInv
  <2>6. \A e \in Tracked : \/ nature'[e] = nature[e]
                           \/ nature'[e].stage # "pending" \/ nature'[e].since = day
    BY <1>1, <2>1 DEF DiscoveryTypeInv
  <2>7. ASSUME NEW e \in Tracked, NEW l \in LooksOn(e) \cap Asking PROVE day <= l.at + LookTime
    BY DEF DiscoveryInv, LookInv
  <2> QED BY <1>1, <2>3, <2>5, <2>6, <2>7, TimeKeeps
<1>5. ASSUME NEW d \in Tracked, NEW row \in NameRows, rows' = [rows EXCEPT ![d] = row],
             UNCHANGED <<day, nature, tickets, looks>>,
             \/ rows[d] = NoRow /\ row = NewRow
             \/ /\ rows[d] # NoRow /\ row.checked = rows[d].checked /\ row.sighted = rows[d].sighted
                /\ row.from = rows[d].from /\ row.until = rows[d].until
      PROVE  DiscoveryInv'
  <2>1. DiscoveryTypeInv' BY <1>1, <1>5 DEF DiscoveryTypeInv
  <2>2. rows'[d] = row /\ \A e \in Tracked \ {d} : rows'[e] = rows[e]
    BY <1>1, <1>5 DEF DiscoveryTypeInv
  <2>3. \A e \in Tracked : (LooksOn(e))' = LooksOn(e) BY <1>5 DEF LooksOn
  <2>4. \A e \in Tracked : \A a : Clear(e, a)' <=> Clear(e, a) BY <1>5, <2>3 DEF Clear
  <2>5. \A e \in Tracked : \A r \in NameRows : RowInv(e, r)' <=> RowInv(e, r)
    BY <2>4 DEF RowInv
  <2>6. RowInv(d, row) /\ WindowInv(row)
    <3>1. CASE row = NewRow
      <4>1. NewRow.checked = Nowhere /\ NewRow.until = Nowhere /\ NewRow.from = Nowhere
        BY DEF NewRow
      <4>2. "since" \notin DOMAIN Nowhere BY DEF Nowhere
      <4> QED BY <3>1, <4>1, <4>2 DEF RowInv, WindowInv
    <3>2. CASE rows[d] # NoRow /\ row.checked = rows[d].checked /\ row.sighted = rows[d].sighted
               /\ row.from = rows[d].from /\ row.until = rows[d].until
      <4>1. RowInv(d, rows[d]) /\ WindowInv(rows[d]) BY <3>2 DEF DiscoveryInv
      <4> QED BY <3>2, <4>1 DEF RowInv, WindowInv
    <3> QED BY <1>5, <3>1, <3>2
  <2>7. \A e \in Tracked : rows'[e] # NoRow => RowInv(e, rows[e])' /\ WindowInv(rows[e])'
    <3>1. \A e \in Tracked : rows'[e] # NoRow => RowInv(e, rows'[e]) /\ WindowInv(rows'[e])
      BY <2>2, <2>6 DEF DiscoveryInv
    <3>2. \A e \in Tracked : rows'[e] # NoRow => RowInv(e, rows[e])'
      BY <2>4, <3>1 DEF RowInv
    <3> QED BY <3>1, <3>2 DEF WindowInv
  <2>8. ASSUME NEW e \in Tracked, NEW l \in (LooksOn(e) \cap (Asking \cup Telling))'
        PROVE  LookInv(e, l)'
    <3>1. LookInv(e, l) BY <2>3 DEF DiscoveryInv
    <3>2. l.loaded # NoRow => l.loaded \in NameRows BY DEF Asking, Telling
    <3>3. rows[e] # NoRow => rows'[e] # NoRow /\ (rows[e].sighted => rows'[e].sighted)
      BY <1>5, <2>2, LooksAreApart
    <3> QED BY <1>5, <2>5, <3>1, <3>2, <3>3 DEF LookInv
  <2>9. ASSUME NEW e \in Tracked, NEW l \in (LooksOn(e) \cap Telling)' PROVE ToldInv(e, l)'
    <3>1. ToldInv(e, l) BY <2>3 DEF DiscoveryInv
    <3> QED BY <2>4, <3>1 DEF ToldInv
  <2> QED BY <1>5, <2>1, <2>7, <2>8, <2>9 DEF DiscoveryInv
<1>6. ASSUME NEW d \in Tracked, ImportDomain(d) PROVE DiscoveryInv'
  <2>1. NewRow \in NameRows BY DEF NewRow, NameRows, Nowhere, Checks, Froms, Untils, Never
  <2> QED BY <1>5, <1>6, <2>1 DEF ImportDomain
<1>7. ASSUME NEW d \in Tracked, TrackAgain(d) PROVE DiscoveryInv'
  <2>1. rows[d] # NoRow BY <1>7 DEF TrackAgain, NoRow
  <2>2. rows[d] \in NameRows BY <1>1, <2>1 DEF DiscoveryTypeInv
  <2> DEFINE row == [rows[d] EXCEPT !.status = "tracking"]
  <2>3. /\ row \in NameRows /\ row.checked = rows[d].checked /\ row.sighted = rows[d].sighted
        /\ row.from = rows[d].from /\ row.until = rows[d].until
    BY <2>2 DEF NameRows
  <2>4. rows' = [rows EXCEPT ![d] = row] BY <1>1, <1>7 DEF TrackAgain, DiscoveryTypeInv
  <2> HIDE DEF row
  <2> QED BY <1>5, <1>7, <2>1, <2>3, <2>4 DEF TrackAgain
<1> QED BY <1>3, <1>4, <1>6, <1>7

LEMMA NextDiscoveryInv == DiscoveryInv /\ [DiscoveryNext]_discoveryVars => DiscoveryInv'
<1> SUFFICES ASSUME DiscoveryInv, [DiscoveryNext]_discoveryVars PROVE DiscoveryInv' OBVIOUS
<1>1. CASE UNCHANGED discoveryVars
  <2>1. UNCHANGED <<day, nature, rows, tickets, looks>> BY <1>1 DEF discoveryVars
  <2>2. DiscoveryTypeInv' BY <2>1 DEF DiscoveryInv, DiscoveryTypeInv
  <2>3. \A d \in Tracked : (LooksOn(d))' = LooksOn(d) BY <2>1 DEF LooksOn
  <2>4. \A r \in Reader : looks'[r] \in Asking \cup Telling => looks'[r].loaded # NoRow
    BY <2>1 DEF DiscoveryInv
  <2> QED BY <2>1, <2>2, <2>3, <2>4, CommitsKeep
<1> QED
  BY <1>1, DispatchKeeps, TicketStepsKeep, ReaderStepsKeep, RegistryKeeps DEF DiscoveryNext

(* Whoever looks, however late a look is reported and whatever is written in  *)
(* between: the window predicted from the first sighting of a deletion ends   *)
(* no more than one lookup before the drop, and does not begin after it when  *)
(* the look before had told something and was over; for any names, tickets,   *)
(* days and number of looks (apply_discovery_observation).                    *)
THEOREM WindowsHoldTheDrop == DiscoverySpec => []WindowHolds
<1>1. DiscoveryInit => DiscoveryInv
  <2> SUFFICES ASSUME DiscoveryInit PROVE DiscoveryInv OBVIOUS
  <2>1. DiscoveryTypeInv
    BY DEF DiscoveryInit, DiscoveryTypeInv, Tickets, Looks, Stages, Never
  <2>2. \A d \in Tracked : LooksOn(d) \subseteq {NoLook} BY DEF DiscoveryInit, LooksOn, NoTicket
  <2> QED BY <2>1, <2>2, LooksAreApart DEF DiscoveryInit, DiscoveryInv
<1>2. DiscoveryInv /\ [DiscoveryNext]_discoveryVars => DiscoveryInv' BY NextDiscoveryInv
<1>3. DiscoveryInv => WindowHolds BY DEF DiscoveryInv, WindowHolds, WindowInv
<1> QED BY <1>1, <1>2, <1>3, PTL DEF DiscoverySpec
=============================================================================
