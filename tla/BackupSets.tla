------------------------------ MODULE BackupSets ------------------------------
(* The daily backup (operations/backup.py): a dump and copies of the sources  *)
(* go into a private set, the set is renamed, the marker latest-success.json  *)
(* is replaced, and old sets are removed down to the retention. Every change  *)
(* of the directory is a step; the process may be killed between two of them, *)
(* sources change while they are copied, and the clock may step back between  *)
(* two backups: a set's name is its time. Environment, unit, nginx and        *)
(* frontend are looked at and copied one after the other: a set holds every   *)
(* source as it was at some moment, not all of them as of one moment.         *)
EXTENDS Naturals, FiniteSets

CONSTANTS MaxSets, Retention, LastSource, MaxEdits

ASSUME RetentionAssumption == Retention \in Nat \ {0, 1}
ASSUME LastSourceAssumption == LastSource \in Nat \ {0}

VARIABLES sets,     \* the directories below the backup root, by their time
          latest,   \* latest-success.json: the set it names, 0 without a file
          source,   \* the version of each source, in the order they are copied
          backup,   \* the process that holds .backup.lock
          published \* some backup has been published
backupVars == <<sets, latest, source, backup, published>>

Stamp == 1..MaxSets
Piece == {"dump", "copies", "manifest", "metadata"}
NoBackup == [step |-> "idle"]
Unnamed == [place |-> "none", has |-> {}, torn |-> FALSE]

Doing(step) == backup.step = step
Own == sets[backup.set]
CopiedSource == source[backup.at]
Moves(step) == backup' = [backup EXCEPT !.step = step]
Stops == backup' = NoBackup
Keeps == UNCHANGED <<latest, source, published>>
Holds(change) == sets' = [sets EXCEPT ![backup.set] = change]

\* _trusted_success: name, metadata and manifest agree; the files it lists are not read.
Trusted(s) == sets[s].place = "final" /\ {"manifest", "metadata"} \subseteq sets[s].has
Complete(s) == sets[s].place = "final" /\ sets[s].has = Piece /\ ~sets[s].torn

(******************************** making a set ********************************)
CreateSet(s) ==
  /\ Doing("idle") /\ sets[s].place = "none" /\ Keeps
  /\ sets' = [sets EXCEPT ![s].place = "partial"]
  /\ backup' = [step |-> "dump", set |-> s, at |-> 1]

\* Timeout, limit, a refused source: the command ends, its partial set stays.
Fails ==
  /\ backup.step \in {"dump", "open", "copy", "manifest", "metadata", "promote"}
  /\ Stops /\ Keeps /\ UNCHANGED sets

\* pg_dump into a file of its own, read once for its digest, then pg_restore of it.
DumpDatabase ==
  /\ Doing("dump") /\ Holds([Own EXCEPT !.has = @ \cup {"dump"}]) /\ Moves("open") /\ Keeps

\* What a source was when it was looked at is what it must be after its copy.
ScanSource ==
  /\ Doing("open") /\ Keeps /\ UNCHANGED sets
  /\ backup' = [step |-> "copy", set |-> backup.set, at |-> backup.at, seen |-> CopiedSource]
\* Mutant of Stable: the copy is not checked against the look.
StableAlways == TRUE
Stable == CopiedSource = backup.seen
CopySource ==
  /\ Doing("copy") /\ Keeps
  /\ \/ ~Stable /\ Stops /\ UNCHANGED sets
     \/ /\ Stable /\ backup.at < LastSource
        /\ Holds([Own EXCEPT !.torn = @ \/ CopiedSource # backup.seen])
        /\ backup' = [step |-> "open", set |-> backup.set, at |-> backup.at + 1]
     \/ /\ Stable /\ backup.at = LastSource /\ Moves("manifest")
        /\ Holds([Own EXCEPT !.has = @ \cup {"copies"}, !.torn = @ \/ CopiedSource # backup.seen])

WriteManifest ==
  /\ Doing("manifest") /\ Holds([Own EXCEPT !.has = @ \cup {"manifest"}])
  /\ Moves("metadata") /\ Keeps
WriteMetadata ==
  /\ Doing("metadata") /\ Holds([Own EXCEPT !.has = @ \cup {"metadata"}])
  /\ Moves("promote") /\ Keeps

(********************************* publishing *********************************)
\* A marker that names no trusted set stops every publication.
PromoteSet ==
  /\ Doing("promote") /\ (latest # 0 => Trusted(latest)) /\ Keeps
  /\ Holds([Own EXCEPT !.place = "final"])
  /\ backup' = [step |-> "mark", set |-> backup.set, previous |-> latest]
ReplaceMarker ==
  /\ Doing("mark") /\ latest' = backup.set /\ Moves("sync")
  /\ UNCHANGED <<sets, source, published>>
MarkerSynced ==
  /\ Doing("sync") /\ published' = TRUE /\ Moves("retain")
  /\ UNCHANGED <<sets, latest, source>>
\* A rename or an fsync fails: the marker goes back first, then the set.
PublishFails ==
  /\ backup.step \in {"mark", "sync"} /\ Keeps /\ UNCHANGED sets
  /\ Moves(IF latest = backup.set THEN "restore" ELSE "demote")
RestoreMarker ==
  /\ Doing("restore") /\ UNCHANGED <<sets, source, published>>
  /\ \/ /\ backup.previous # 0 => Trusted(backup.previous)
        /\ latest' = backup.previous /\ Moves("demote")
     \/ Stops /\ UNCHANGED latest
DemoteSet ==
  /\ Doing("demote") /\ Stops /\ Keeps
  /\ Holds([Own EXCEPT !.place = "partial"]) \/ UNCHANGED sets

(********************************* retention **********************************)
Candidates == {s \in Stamp : Trusted(s)}
Newest(S, n) == {s \in S : Cardinality({t \in S : t > s}) < n}
Kept == {backup.set} \cup Newest(Candidates \ {backup.set}, Retention - 1)
Doomed == Candidates \ Kept

ChooseOld ==
  /\ Doing("retain") /\ Doomed # {} /\ Keeps /\ UNCHANGED sets
  /\ \E s \in Doomed : /\ \A t \in Doomed : t <= s
                       /\ backup' = [step |-> "remove", set |-> backup.set, old |-> s]
\* Deepest paths first: the copies before the four files of the set itself.
RemoveOld ==
  LET old == sets[backup.old]
  IN  /\ Doing("remove") /\ Keeps
      /\ \/ /\ "copies" \in old.has /\ UNCHANGED backup
            /\ sets' = [sets EXCEPT ![backup.old].has = @ \ {"copies"}]
         \/ /\ "copies" \notin old.has /\ UNCHANGED backup
            /\ \E p \in old.has : sets' = [sets EXCEPT ![backup.old].has = @ \ {p}]
         \/ /\ old.has = {} /\ Moves("retain")
            /\ sets' = [sets EXCEPT ![backup.old].place = "removed"]
FinishBackup ==
  /\ Doing("retain") /\ Doomed = {} /\ Stops /\ Keeps /\ UNCHANGED sets

(******************************** surroundings ********************************)
\* The lock goes with the process; nothing on the disk is cleaned up.
KillBackup == ~Doing("idle") /\ Stops /\ Keeps /\ UNCHANGED sets
EditSource(n) ==
  /\ source[n] < MaxEdits /\ source' = [source EXCEPT ![n] = @ + 1]
  /\ UNCHANGED <<sets, latest, backup, published>>

BackupInit ==
  /\ sets = [s \in Stamp |-> Unnamed] /\ latest = 0 /\ source = [n \in 1..LastSource |-> 0]
  /\ backup = NoBackup /\ published = FALSE
BackupNext ==
  \/ (\E s \in Stamp : CreateSet(s)) \/ Fails \/ DumpDatabase \/ ScanSource \/ CopySource
  \/ WriteManifest \/ WriteMetadata \/ PromoteSet \/ ReplaceMarker \/ MarkerSynced
  \/ PublishFails \/ RestoreMarker \/ DemoteSet \/ ChooseOld \/ RemoveOld \/ FinishBackup
  \/ KillBackup \/ (\E n \in 1..LastSource : EditSource(n))
BackupSpec == BackupInit /\ [][BackupNext]_backupVars

\* validated_latest_success_at: what watchdog and readiness take for the last backup.
LatestSuccess == IF latest = 0 THEN 0 ELSE IF Trusted(latest) THEN latest ELSE 0

(* The last success is a real one: from the first publication on, whatever    *)
(* fails, is killed or is removed, the marker names a set of which every part *)
(* is there and no source was copied while it changed (_publish_backup,       *)
(* _restore_marker, _apply_retention).                                        *)
LatestIsComplete ==
  /\ latest # 0 => Complete(latest)
  /\ published => LatestSuccess # 0
=============================================================================
