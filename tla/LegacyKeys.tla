------------------------------ MODULE LegacyKeys ------------------------------
(* One subscription's keys without an endpoint binding: scripts over SSH add, *)
(* disable or remove their clients at once, inside the transaction that     *)
(* records the outcome. The lifecycle cycle and the panel take turns under  *)
(* vpn_mutation_lock; a cut connection leaves open what its script did.     *)
EXTENDS Naturals, FiniteSets

CONSTANTS LegacyKey, BatchSize, MaxBreaks, NoLegacyKey
ASSUME LegacyKeyAssumption == NoLegacyKey \notin LegacyKey

VARIABLES keyRows,  \* the committed rows of vpn_access_keys
          tx,       \* the rows as the open transaction sees them
          client,   \* the clients in the 3x-ui database of the node
          wanted,   \* what the subscription of the keys asks for
          eligible, \* evaluate_vpn_node of the node
          turn,     \* who holds the mutation lock, its keys to do, its script
          late,     \* scripts whose connection is cut and that may still run
          doubt,    \* keys of which a script's outcome is not recorded
          breaks    \* timeouts, cancellations and restarts so far (a bound)
legacyVars == <<keyRows, tx, client, wanted, eligible, turn, late, doubt, breaks>>

KeyAction == {"provision", "suspend", "revoke"}
PendingFor == [provision |-> "pending_sync", suspend |-> "pending_suspend",
               revoke |-> "pending_revoke"]
DoneBy == [provision |-> "active", suspend |-> "suspended", revoke |-> "revoked"]
Restorable == {"active", "pending_sync", "pending_suspend", "suspended", "failed"}
DeviceSlot == Restorable \cup {"pending_revoke"}

CycleRests == [by |-> "none", todo |-> {}, key |-> NoLegacyKey, action |-> "none", sent |-> "no"]
PutStatus(S, k, status) == [S EXCEPT ![k].status = status]

(* What the scripts do to a client, and the row once their marker is seen. *)
Provisioned == "enabled"
Removed == "absent"
Disabled(c) == IF c = "absent" THEN "absent" ELSE "disabled"
Scripted(c, action) == CASE action = "provision" -> Provisioned
                         [] action = "suspend" -> Disabled(c)
                         [] action = "revoke" -> Removed
Confirmed(row, action) ==
  [row EXCEPT !.status = DoneBy[action], !.uri = @ \/ action = "provision"]

(* A key without a node and without a URI was never on a node. *)
Bodiless(k) == ~tx[k].placed /\ ~tx[k].uri

(************************** which script a key gets ***************************)
BeginScript(k, action) == turn' = [turn EXCEPT !.key = k, !.action = action, !.sent = "no",
                                         !.todo = @ \ {k}]
SettleKey(k, status) == /\ tx' = PutStatus(tx, k, status)
                     /\ turn' = [turn EXCEPT !.todo = @ \ {k}, !.key = k, !.action = "none",
                                             !.sent = "end"]

\* _process_revoke, revoke_vpn_access_key and suspend_vpn_access_key.
Disable(k, action) ==
  \/ /\ Bodiless(k) /\ SettleKey(k, DoneBy[action])
  \/ /\ ~Bodiless(k) /\ (~tx[k].placed \/ ~eligible) /\ SettleKey(k, PendingFor[action])
  \/ /\ tx[k].placed /\ eligible /\ BeginScript(k, action)
     /\ tx' = PutStatus(tx, k, PendingFor[action])
\* _process_provision and provision_vpn_access_key; the plan may be full.
Provision(k) ==
  \/ SettleKey(k, "pending_sync")
  \/ /\ eligible /\ (tx[k].placed \/ ~tx[k].uri)
     /\ tx' = [tx EXCEPT ![k].status = "syncing", ![k].placed = TRUE]
     /\ BeginScript(k, "provision")
\* subscription_key_action, and the stickiness of a pending revoke.
ActionFor(k) == IF tx[k].status = "pending_revoke" THEN "revoke" ELSE wanted
ProcessKey(k) == IF ActionFor(k) = "provision" THEN Provision(k) ELSE Disable(k, ActionFor(k))
RestKept == UNCHANGED <<keyRows, client, wanted, eligible, late, doubt, breaks>>

(***************************** the lifecycle **********************************)
ToDisable == {k \in LegacyKey : \/ keyRows[k].status = "pending_revoke"
                                \/ /\ wanted \in {"revoke", "suspend"}
                                   /\ keyRows[k].status \in Restorable
                                   /\ keyRows[k].status = "suspended" => wanted = "revoke"}
ToProvision ==
  {k \in LegacyKey : /\ wanted = "provision"
                     /\ keyRows[k].status \in {"pending_sync", "pending_suspend", "suspended"}}
CycleStarts ==
  /\ turn = CycleRests /\ ToDisable \cup ToProvision # {}
  /\ \E B \in SUBSET (ToDisable \cup ToProvision) :
       /\ Cardinality(B) <= BatchSize
       /\ B = ToDisable \cup ToProvision \/ Cardinality(B) = BatchSize
       /\ B \cap ToProvision # {} => ToDisable \subseteq B
       /\ turn' = [CycleRests EXCEPT !.by = "cycle", !.todo = B]
  /\ UNCHANGED tx /\ RestKept
CycleTakes ==
  /\ turn.by = "cycle" /\ turn.key = NoLegacyKey
  /\ \E k \in turn.todo : ProcessKey(k)
  /\ RestKept

(******************************* the panel ************************************)
\* create_vpn_access_key stores the row with its client in one transaction.
CreateKey(k) ==
  /\ turn = CycleRests /\ keyRows[k].status = "none" /\ wanted = "provision"
  /\ tx' = [tx EXCEPT ![k] = [status |-> IF eligible THEN "syncing" ELSE "pending_sync",
                               uri |-> FALSE, placed |-> eligible]]
  /\ turn' = [CycleRests EXCEPT !.by = "panel", !.key = k,
                !.action = IF eligible THEN "provision" ELSE "none",
                !.sent = IF eligible THEN "no" ELSE "end"]
  /\ RestKept
ProvisionExisting(k) ==
  /\ turn = CycleRests /\ keyRows[k].status \in {"pending_sync", "failed"} /\ wanted = "provision"
  /\ eligible /\ (keyRows[k].placed \/ ~keyRows[k].uri)
  /\ tx' = [tx EXCEPT ![k].status = "syncing", ![k].placed = TRUE]
  /\ turn' = [CycleRests EXCEPT !.by = "panel", !.key = k, !.action = "provision"]
  /\ RestKept
RevokeExisting(k) ==
  /\ turn = CycleRests /\ keyRows[k].status \in DeviceSlot
  /\ tx' = PutStatus(tx, k, "pending_revoke")
  /\ turn' = [CycleRests EXCEPT !.by = "panel", !.key = k, !.action = "revoke",
                !.sent = IF keyRows[k].placed /\ eligible THEN "no" ELSE "end"]
  /\ RestKept
\* archive_vpn_customer revokes every key of the customer and commits once.
ArchiveCustomer ==
  /\ turn = CycleRests
  /\ \E K \in SUBSET {k \in LegacyKey : keyRows[k].status \in DeviceSlot} :
       /\ K # {}
       /\ tx' = [k \in LegacyKey |->
                   IF k \in K THEN [tx[k] EXCEPT !.status = "pending_revoke"] ELSE tx[k]]
       /\ turn' = [CycleRests EXCEPT !.by = "archive", !.todo = K]
  /\ RestKept
ArchiveTakes ==
  /\ turn.by = "archive" /\ turn.key = NoLegacyKey
  /\ \E k \in turn.todo : Disable(k, "revoke")
  /\ RestKept
\* stage_subscription_update, and a customer or a clock that changes the policy.
PolicyChanges ==
  /\ turn = CycleRests
  /\ \E action \in KeyAction, staged \in BOOLEAN :
       /\ staged \/ action # wanted
       /\ wanted' = action
       /\ keyRows' = [k \in LegacyKey |->
                        IF staged /\ keyRows[k].status \in DeviceSlot \ {"pending_revoke"}
                        THEN [keyRows[k] EXCEPT !.status = PendingFor[action]] ELSE keyRows[k]]
       /\ tx' = keyRows'
  /\ UNCHANGED <<client, eligible, turn, late, doubt, breaks>>
\* decommission_worker does not ask the node: "remote revoke was not confirmed".
Retire ==
  /\ turn = CycleRests
  /\ LET K == {k \in LegacyKey : keyRows[k].placed /\ keyRows[k].status \in DeviceSlot}
     IN  /\ K # {}
         /\ keyRows' = [k \in LegacyKey |->
                         IF k \in K THEN [keyRows[k] EXCEPT !.status = "revoked", !.uri = FALSE]
                         ELSE keyRows[k]]
         /\ doubt' = doubt \cup K
  /\ tx' = keyRows' /\ eligible' = FALSE
  /\ UNCHANGED <<client, wanted, turn, late, breaks>>

(*************************** scripts and outcomes *****************************)
ExecuteScript ==
  /\ turn.action # "none" /\ turn.sent = "no"
  /\ \/ /\ client' = [client EXCEPT ![turn.key] = Scripted(@, turn.action)]
        /\ turn' = [turn EXCEPT !.sent = "done"]
     \/ /\ turn' = [turn EXCEPT !.sent = "failed"]  \* also when only the restart failed
        /\ client' \in {client, [client EXCEPT ![turn.key] = Scripted(@, turn.action)]}
  /\ UNCHANGED <<keyRows, tx, wanted, eligible, late, doubt, breaks>>

RecordScript ==
  /\ turn.sent \in {"done", "failed"}
  /\ tx' = IF turn.sent = "done" THEN [tx EXCEPT ![turn.key] = Confirmed(@, turn.action)]
           ELSE PutStatus(tx, turn.key, PendingFor[turn.action])
  /\ turn' = [turn EXCEPT !.sent = "end"]
  /\ RestKept

\* Mutant of Checkpoint: the cycle commits once, after its last key.
CheckpointLast == IF turn.todo = {} THEN tx ELSE keyRows
\* A cycle commits after every key, the panel's requests when they are done.
Checkpoint == IF turn.by = "archive" /\ turn.todo # {} THEN keyRows ELSE tx
CommitKeys ==
  /\ turn.sent = "end"
  /\ keyRows' = Checkpoint
  /\ turn' = IF turn.todo = {} THEN CycleRests
             ELSE [turn EXCEPT !.key = NoLegacyKey, !.action = "none", !.sent = "no"]
  /\ UNCHANGED <<tx, client, wanted, eligible, late, doubt, breaks>>

(* The connection is cut before the script is known to have ended. *)
CutOff == /\ breaks < MaxBreaks /\ breaks' = breaks + 1
          /\ doubt' = doubt \cup ({turn.key} \ {NoLegacyKey})
          /\ late' = IF turn.action # "none" /\ turn.sent = "no"
                       THEN late \cup {<<turn.key, turn.action>>} ELSE late
          /\ UNCHANGED <<client, wanted, eligible>>
KeyTimeout ==
  /\ turn.by = "cycle" /\ turn.action # "none" /\ turn.sent \in {"no", "done"} /\ CutOff
  /\ tx' = PutStatus(tx, turn.key, PendingFor[turn.action])
  /\ turn' = [turn EXCEPT !.sent = "end"]
  /\ UNCHANGED keyRows
(* The cycle's own timeout, and the stop of the control process. *)
CycleCancelled ==
  /\ turn.by = "cycle" /\ CutOff
  /\ tx' = keyRows /\ turn' = CycleRests /\ UNCHANGED keyRows
PanelCancelled ==
  /\ turn.by \in {"panel", "archive"}
  /\ breaks < MaxBreaks /\ breaks' = breaks + 1
  /\ doubt' = doubt \cup {k \in LegacyKey : tx[k] # keyRows[k] /\ k \notin turn.todo}
  /\ late' = IF turn.action # "none" /\ turn.sent = "no"
               THEN late \cup {<<turn.key, turn.action>>} ELSE late
  /\ tx' = keyRows /\ turn' = CycleRests
  /\ UNCHANGED <<keyRows, client, wanted, eligible>>
Straggler ==
  /\ \E s \in late : /\ late' = late \ {s}
                     /\ \/ client' = [client EXCEPT ![s[1]] = Scripted(@, s[2])]
                        \/ UNCHANGED client
  /\ UNCHANGED <<keyRows, tx, wanted, eligible, turn, doubt, breaks>>
(* Attacks, maintenance and checks of the node come and go. *)
Reevaluate ==
  /\ turn.action = "none" /\ eligible' = ~eligible
  /\ UNCHANGED <<keyRows, tx, client, wanted, turn, late, doubt, breaks>>

LegacyInit ==
  /\ keyRows = [k \in LegacyKey |-> [status |-> "none", uri |-> FALSE, placed |-> FALSE]]
  /\ tx = keyRows
  /\ client = [k \in LegacyKey |-> "absent"]
  /\ wanted = "provision"
  /\ eligible = TRUE /\ turn = CycleRests /\ late = {} /\ doubt = {} /\ breaks = 0
LegacyNext ==
  \/ CycleStarts \/ CycleTakes \/ ArchiveCustomer \/ ArchiveTakes \/ PolicyChanges \/ Retire
  \/ \E k \in LegacyKey : CreateKey(k) \/ ProvisionExisting(k) \/ RevokeExisting(k)
  \/ ExecuteScript \/ RecordScript \/ CommitKeys \/ KeyTimeout \/ CycleCancelled \/ PanelCancelled
  \/ Straggler \/ Reevaluate
LegacySpec == LegacyInit /\ [][LegacyNext]_legacyVars

Agrees(status, c) == /\ status = "active" => c = "enabled"
                     /\ status = "suspended" => c # "enabled"
                     /\ status \in {"revoked", "none"} => c = "absent"

(* "Every remote transition is its own durable checkpoint": apart from keys  *)
(* whose own script was cut off, and from the one in progress, the row of a  *)
(* key agrees with its client on the node, whichever cycle was cancelled and *)
(* whatever the panel did between (_run_vpn_lifecycle_maintenance,           *)
(* provision_vpn_access_key).                                                *)
LegacyKeysAgree ==
  \A k \in LegacyKey \ (doubt \cup {turn.key}) :
    turn.by # "archive" => Agrees(keyRows[k].status, client[k])
=============================================================================
