------------------------------ MODULE NodeRelease ------------------------------
(* The deployment helper on a node: install_node_release writes a marker,     *)
(* then the candidate, the configuration, the journal and a copy of the old   *)
(* release, replaces the active file and removes the marker. A failure rolls  *)
(* back at once, a run that finds a marker only rolls back. Every disk change *)
(* is a step; the helper may be killed between any two of them.               *)
EXTENDS Naturals

CONSTANTS Release, MaxKills, NoRelease

ASSUME ReleaseAssumption == NoRelease \notin Release \cup {"half"} /\ "half" \notin Release

VARIABLES disk,    \* the files of /usr/local/lib/veltrix-vpn-node and the journal
          helper,  \* the helper process: its step, its bundle, its marker
          serving, \* a helper has answered "installed": operations come
          kills    \* killed helpers so far (a bound)
releaseVars == <<disk, helper, serving, kills>>

\* "half" is a file of which only a part is written.
Unmarked == [bundle |-> NoRelease]
Gone == [at |-> "idle", bundle |-> NoRelease, marker |-> Unmarked, recovers |-> FALSE]

HelperAt(step) == helper.at = step
HelperGoes(step) == helper' = [helper EXCEPT !.at = step]
NodeQuiet == UNCHANGED <<serving, kills>>
Skips(from, to) == HelperAt(from) /\ HelperGoes(to) /\ NodeQuiet /\ UNCHANGED disk
\* The helper prints its outcome and exits; an answer may be lost on its way.
Prints(said) ==
  /\ helper' = Gone /\ UNCHANGED kills
  /\ serving' \in IF said = "installed" THEN {TRUE, serving} ELSE {serving}

(******************************** the checks **********************************)
Deploy(b) ==
  /\ HelperAt("idle") /\ helper' = [Gone EXCEPT !.at = "check", !.bundle = b]
  /\ UNCHANGED disk /\ NodeQuiet

Recoverable ==
  LET m == disk.marker
  IN  /\ m.bundle = helper.bundle
      /\ m.journal # "none" => disk.journal = m.journal
      /\ m.old \in {NoRelease, disk.active, disk.previous}
Recover ==
  /\ HelperAt("check") /\ disk.marker # Unmarked /\ UNCHANGED disk
  /\ \/ /\ Recoverable /\ NodeQuiet
        /\ helper' = [helper EXCEPT !.at = "undo candidate", !.marker = disk.marker, !.recovers = TRUE]
     \/ ~Recoverable /\ Prints("incomplete")

CompleteRelease == disk.active = helper.bundle /\ disk.config /\ disk.journal # "none"
Begin ==
  /\ HelperAt("check") /\ disk.marker = Unmarked /\ UNCHANGED disk
  /\ \/ CompleteRelease /\ Prints("installed")
     \/ ~CompleteRelease /\ disk.previous # NoRelease /\ Prints("failed")
     \/ /\ ~CompleteRelease /\ disk.previous = NoRelease /\ NodeQuiet
        /\ helper' = [helper EXCEPT !.at = "mark", !.marker =
             [bundle |-> helper.bundle, old |-> disk.active,
              config |-> disk.config, journal |-> disk.journal]]

(****************************** the installation ******************************)
(* A step that changes the disk may also fail; then the rollback begins.      *)
Writes(from, to, change) ==
  /\ HelperAt(from) /\ NodeQuiet
  /\ \/ disk' = change /\ HelperGoes(to)
     \/ UNCHANGED disk /\ HelperGoes("undo candidate")

WriteMarker == Writes("mark", "half candidate", [disk EXCEPT !.marker = helper.marker])
BeginCandidate == Writes("half candidate", "candidate", [disk EXCEPT !.candidate = "half"])
WriteCandidate == Writes("candidate", "config", [disk EXCEPT !.candidate = helper.bundle])
\* Only a candidate that answers the import probe goes on.
CreateConfig == Writes("config", "mkdir", [disk EXCEPT !.config = TRUE])
CreateJournal ==
  \/ disk.journal = "none" /\ Writes("mkdir", "journal", [disk EXCEPT !.journal = "half"])
  \/ disk.journal # "none" /\ Skips("mkdir", "half previous")
InitializeJournal == Writes("journal", "half previous", [disk EXCEPT !.journal = "empty"])
\* Mutant of BeginPrevious: the old release is not kept.
BeginPreviousNever == Skips("half previous", "replace")
BeginPrevious ==
  \/ /\ disk.active # NoRelease
     /\ Writes("half previous", "previous", [disk EXCEPT !.previous = "half"])
  \/ disk.active = NoRelease /\ Skips("half previous", "replace")
WritePrevious == Writes("previous", "replace", [disk EXCEPT !.previous = helper.marker.old])
ReplaceActive ==
  Writes("replace", "unmark", [disk EXCEPT !.active = disk.candidate, !.candidate = NoRelease])
Protected == helper.marker.journal # "none" => disk.journal = helper.marker.journal
RemoveMarker ==
  /\ HelperAt("unmark")
  /\ \/ Protected /\ disk' = [disk EXCEPT !.marker = Unmarked] /\ Prints("installed")
     \/ HelperGoes("undo candidate") /\ UNCHANGED disk /\ NodeQuiet

(******************************** the rollback ********************************)
(* In the process that failed, or in one that has found a marker. What it     *)
(* does not recognise it leaves alone: "incomplete". The process that failed  *)
(* removes its candidate in any case.                                         *)
GivesUp ==
  /\ disk' = IF helper.recovers THEN disk ELSE [disk EXCEPT !.candidate = NoRelease]
  /\ Prints("incomplete")
Undone(next, change) == disk' = change /\ HelperGoes(next) /\ NodeQuiet

UndoCandidate ==
  /\ HelperAt("undo candidate")
  /\ IF disk.candidate = "half" THEN GivesUp
     ELSE Undone("undo active", [disk EXCEPT !.candidate = NoRelease])
UndoActive ==
  LET old == helper.marker.old
      new == helper.bundle
  IN  /\ HelperAt("undo active")
      /\ \/ old = NoRelease /\ Undone("undo config", [disk EXCEPT !.active = NoRelease])
         \/ /\ old # NoRelease /\ disk.active \in {new, NoRelease}
            /\ Undone("undo previous", [disk EXCEPT !.active = NoRelease])
         \/ /\ old # NoRelease /\ disk.active = old /\ disk.previous \in {NoRelease, old}
            /\ Undone("undo config", [disk EXCEPT !.previous = NoRelease])
         \/ old # NoRelease /\ disk.active = old /\ disk.previous = "half" /\ GivesUp
UndoPrevious ==
  /\ HelperAt("undo previous")
  /\ IF disk.previous = helper.marker.old
       THEN Undone("undo config", [disk EXCEPT !.active = disk.previous, !.previous = NoRelease])
       ELSE GivesUp
UndoConfig ==
  /\ HelperAt("undo config")
  /\ Undone("undo journal", [disk EXCEPT !.config = @ /\ helper.marker.config])
UndoJournal ==
  /\ HelperAt("undo journal")
  /\ Undone("undo marker",
            IF helper.marker.journal = "none" THEN [disk EXCEPT !.journal = "none"] ELSE disk)
UndoMarker ==
  /\ HelperAt("undo marker")
  /\ IF ~helper.recovers /\ ~Protected THEN GivesUp
     ELSE /\ disk' = [disk EXCEPT !.marker = Unmarked]
          /\ Prints(IF helper.recovers THEN "recovered" ELSE "failed")

Kill ==
  /\ ~HelperAt("idle") /\ kills < MaxKills /\ kills' = kills + 1
  /\ helper' = Gone /\ UNCHANGED <<disk, serving>>
RunOperation ==
  /\ serving /\ disk.active # NoRelease /\ disk.journal = "empty"
  /\ disk' = [disk EXCEPT !.journal = "used"] /\ UNCHANGED <<helper, serving, kills>>

ReleaseInit ==
  /\ \E config \in BOOLEAN :
       disk = [active |-> NoRelease, previous |-> NoRelease, candidate |-> NoRelease,
               config |-> config, journal |-> "none", marker |-> Unmarked]
  /\ helper = Gone /\ serving = FALSE /\ kills = 0
ReleaseNext ==
  \/ (\E b \in Release : Deploy(b)) \/ Recover \/ Begin
  \/ WriteMarker \/ BeginCandidate \/ WriteCandidate \/ CreateConfig \/ CreateJournal
  \/ InitializeJournal \/ BeginPrevious \/ WritePrevious \/ ReplaceActive \/ RemoveMarker
  \/ UndoCandidate \/ UndoActive \/ UndoPrevious \/ UndoConfig \/ UndoJournal \/ UndoMarker
  \/ Kill \/ RunOperation
ReleaseSpec == ReleaseInit /\ [][ReleaseNext]_releaseVars

(* "interrupted replacement yields either old or new complete code": a node   *)
(* that serves has a whole release, as its active file or, with the rollback  *)
(* still to be finished, as the copy of it; and the journal of the operations *)
(* it has run is never removed.                                               *)
ReleaseSurvives ==
  serving => /\ \/ disk.active \in Release
                \/ disk.previous \in Release /\ disk.marker # Unmarked
             /\ disk.journal # "none"
=============================================================================
