--------------------------- MODULE VpnControlQueue ---------------------------
(***************************************************************************)
(* The control server's queue of node operations (vpn_control_intents.py): *)
(* the access keys, the policy of their subscriptions, and one row per     *)
(* generation of a key.  Every action is one database transaction under    *)
(* row locks.  Receipts are arbitrary here; VpnControlDispatch says where  *)
(* they come from.  Each key has a subscription and a customer of its own. *)
(***************************************************************************)
EXTENDS Naturals

CONSTANTS Key,            \* endpoint-bound access keys
          Worker,         \* nodes
          WorkerOf,       \* the node a key is bound to
          Terms,          \* expiry and traffic limit of a subscription
          MaxGeneration,  \* _MAX_GENERATION, 2^31 - 1 in the code
          NoIntent

ASSUME QueueAssumption ==
  /\ WorkerOf \in [Key -> Worker]
  /\ MaxGeneration \in Nat \ {0}

Generation == 1 .. MaxGeneration
Operation == Key \X Generation
KeyOf(o) == o[1]
GenOf(o) == o[2]
On(w) == {o \in Operation : WorkerOf[KeyOf(o)] = w}

KeyActions == {"provision", "suspend", "revoke"}
Policies == [action: KeyActions, terms: Terms]
Intents == [action: KeyActions, terms: Terms, create: BOOLEAN]
Pending == [provision |-> "pending_sync", suspend |-> "pending_suspend",
            revoke |-> "pending_revoke"]
Settled == [provision |-> "active", suspend |-> "suspended", revoke |-> "revoked"]
KeyStatuses == {"unissued", "pending_sync", "pending_suspend", "pending_revoke",
                "active", "suspended", "revoked"}

\* "refused" is the failed state with vpn_node_key_revoked, which no retry accepts.
Finished == {"succeeded", "failed", "refused", "superseded"}
OpStates == {"none", "queued", "claimed", "uncertain"} \cup Finished
QueueReceipts == {"observed", "failed", "uncertain", "stale",
                  "reconciliation_required", "key_revoked"}

VARIABLES policy,      \* what subscription, customer and clock ask of a key
          keyStatus,   \* vpn_access_keys.status
          generation,  \* vpn_access_keys.operation_generation
          revokeAsked, \* keys with revoke_requested_at
          hasUri,      \* keys with config_uri
          opState,     \* vpn_control_operations: state of a key's generation
          intent,      \* vpn_control_operations: its request snapshot
          endpoint,    \* vpn_endpoints.status of a node
          attack,      \* the domain attack of a node: its task and its run
          maintenance  \* nodes with a queued or running VPN maintenance job

keys == <<policy, keyStatus, generation, revokeAsked, hasUri>>
ops == <<opState, intent>>
nodes == <<endpoint, attack, maintenance>>
queueVars == <<policy, keyStatus, generation, revokeAsked, hasUri, opState,
               intent, endpoint, attack, maintenance>>

-----------------------------------------------------------------------------
(* Reading the rows                                                        *)

Newest(k) == <<k, generation[k]>>
Home(k) == WorkerOf[k]

\* active_attack_worker_ids, and what bars the queue from a node with it.
Attacked(w) == attack[w] \in {"tasked", "again"}
Reserved(w) == Attacked(w) \/ w \in maintenance

\* active_vpn_control_worker_ids, and the part of it that bars a claim.
InUse(w) == \E o \in On(w) : opState[o] \in {"queued", "claimed", "uncertain"}
\* Mutant of Occupied: an uncertain operation no longer bars the node.
OccupiedIfClaimed(w) == \E o \in On(w) : opState[o] = "claimed"

Occupied(w) == \E o \in On(w) : opState[o] \in {"claimed", "uncertain"}

Sticky(k) == k \in revokeAsked \/ keyStatus[k] \in {"pending_revoke", "revoked"}
\* Mutant of Desired: policy decides, even over a revoke.
DesiredByPolicy(k) == policy[k].action

Desired(k) == IF Sticky(k) THEN "revoke" ELSE policy[k].action

\* _validate_endpoint_policy: allow_create, and whether the endpoint permits it.
Creates(k, action) == action = "provision" /\ k \notin hasUri
Permitted(k, action) ==
  action = "provision" =>
    endpoint[Home(k)] \in (IF k \in hasUri THEN {"ready", "draining"} ELSE {"ready"})

IntentOf(k, action) ==
  [action |-> action, terms |-> policy[k].terms, create |-> Creates(k, action)]

\* _intent_matches: the row is what would be staged for its key right now.
Matches(o) ==
  LET k == KeyOf(o) IN
  /\ GenOf(o) = generation[k]
  /\ intent[o].action = Desired(k)
  /\ keyStatus[k] = Pending[intent[o].action]
  /\ Permitted(k, intent[o].action)
  /\ intent[o] = IntentOf(k, intent[o].action)

-----------------------------------------------------------------------------
(* Staging                                                                 *)

\* The newest row already asks for this: it is returned, or refused a repeat.
Repeats(k, action, retryFailed) ==
  /\ generation[k] > 0
  /\ intent[Newest(k)].action = action
  /\ \/ opState[Newest(k)] \in {"queued", "claimed", "uncertain", "refused"}
     \/ opState[Newest(k)] = "failed" /\ ~ retryFailed

\* The new row is queued and the one that still waited is superseded.
Queued(k, g) ==
  [o \in Operation |->
     CASE o = <<k, g>> -> "queued"
       [] KeyOf(o) = k /\ GenOf(o) < g /\ opState[o] = "queued" -> "superseded"
       [] OTHER -> opState[o]]

Stage(k, action, retryFailed) ==
  LET g == generation[k] + 1 IN
  /\ ~ Reserved(Home(k))
  /\ action # "revoke" => Desired(k) = action
  /\ ~ Repeats(k, action, retryFailed)
  /\ Permitted(k, action)
  /\ generation[k] < MaxGeneration
  /\ generation' = [generation EXCEPT ![k] = g]
  /\ keyStatus' = [keyStatus EXCEPT ![k] = Pending[action]]
  /\ revokeAsked' = IF action = "revoke" THEN revokeAsked \cup {k} ELSE revokeAsked
  /\ intent' = [intent EXCEPT ![<<k, g>>] = IntentOf(k, action)]
  /\ opState' = Queued(k, g)
  /\ UNCHANGED <<policy, hasUri, nodes>>

\* A profile is created and staged in one transaction.
Issue(k) == keyStatus[k] = "unissued" /\ Stage(k, "provision", FALSE)

\* The lifecycle pass stages what policy asks of a key that is not there yet;
\* an active key on a usable policy is not even looked at.
Lifecycle(k) ==
  LET action == IF keyStatus[k] = "pending_revoke" THEN "revoke" ELSE policy[k].action IN
  /\ keyStatus[k] \notin {"unissued", "revoked"}
  /\ action = "suspend" => keyStatus[k] # "suspended"
  /\ action = "provision" => keyStatus[k] # "active"
  /\ Stage(k, action, FALSE)

\* retry_friend_invitation: the administrator's retry, of provisions only.
RetryProvision(k) ==
  /\ keyStatus[k] # "unissued"
  /\ opState[Newest(k)] = "failed" /\ intent[Newest(k)].action = "provision"
  /\ Stage(k, "provision", TRUE)

\* disable_friend_invitation stages the revoke itself.
DisableInvitation(k) == keyStatus[k] # "unissued" /\ Stage(k, "revoke", FALSE)

-----------------------------------------------------------------------------
(* Policy                                                                  *)

Stamp(k, status) ==
  /\ keyStatus' = [keyStatus EXCEPT ![k] = status]
  /\ UNCHANGED <<generation, revokeAsked, hasUri, ops, nodes>>

\* stage_subscription_update: an edit also stamps the key, unless it is being
\* or has been revoked.
UpdateSubscription(k, new) ==
  /\ keyStatus[k] # "unissued"
  /\ policy' = [policy EXCEPT ![k] = new]
  /\ Stamp(k, IF keyStatus[k] \in {"pending_revoke", "revoked"}
              THEN keyStatus[k] ELSE Pending[new.action])

\* The clock or an edit of the customer changes what policy asks, silently.
Drift(k, action) ==
  /\ keyStatus[k] # "unissued"
  /\ policy' = [policy EXCEPT ![k].action = action]
  /\ UNCHANGED <<keyStatus, generation, revokeAsked, hasUri, ops, nodes>>

\* The revoke and delete routes leave a bound key to the lifecycle pass.  They
\* spare a revoked key, except that during an attack they stamp it as well.
AskRevoke(k) ==
  /\ keyStatus[k] # "unissued"
  /\ keyStatus[k] # "revoked" \/ Attacked(Home(k))
  /\ Stamp(k, "pending_revoke")
  /\ UNCHANGED policy

Archive(k) ==
  /\ keyStatus[k] \notin {"unissued", "revoked"}
  /\ policy' = [policy EXCEPT ![k].action = "revoke"]
  /\ Stamp(k, "pending_revoke")

-----------------------------------------------------------------------------
(* Claiming and finalizing                                                 *)

\* The list of candidates is read before any lock is taken: it may miss rows that
\* came since, and its word on what is queued and on which nodes are occupied is
\* stale.  So any list will do, and only the second look under the locks counts.
Candidates == {o \in Operation : opState[o] = "queued"}

\* Mutant of Tried: no second look at the node's other operations.
TriedUnchecked(skipped) == {o \in Candidates \ skipped : ~ Reserved(Home(KeyOf(o)))}

\* Skipped are the rows that are not on the list and those another transaction has
\* locked; so are, after that look, the rows of an occupied or reserved node.
Tried(skipped) == {o \in Candidates \ skipped :
                     ~ Occupied(Home(KeyOf(o))) /\ ~ Reserved(Home(KeyOf(o)))}

Outdated(passed) == [o \in Operation |-> IF o \in passed THEN "superseded" ELSE opState[o]]

\* Mutant of Claim: a turn ends with nothing done at a first row that no longer matches.
ClaimFirst(o, skipped) ==
  /\ o \in Tried(skipped) /\ Matches(o)
  /\ \A c \in Tried(skipped) \ {o} : GenOf(c) > GenOf(o)
  /\ opState' = [opState EXCEPT ![o] = "claimed"]
  /\ UNCHANGED <<keys, intent, nodes>>

\* claim_next_vpn_control_operation: in generation order, rows that no longer
\* match are superseded and the first that does is claimed.
Claim(o, skipped) ==
  LET passed == {c \in Tried(skipped) : GenOf(c) <= GenOf(o)} \ {o} IN
  /\ o \in Tried(skipped)
  /\ Matches(o)
  /\ \A c \in passed : ~ Matches(c)
  /\ opState' = [Outdated(passed) EXCEPT ![o] = "claimed"]
  /\ UNCHANGED <<keys, intent, nodes>>

ClaimNothing(skipped) ==
  /\ Tried(skipped) # {}
  /\ \A c \in Tried(skipped) : ~ Matches(c)
  /\ opState' = Outdated(Tried(skipped))
  /\ UNCHANGED <<keys, intent, nodes>>

Result == [observed |-> "succeeded", failed |-> "failed", key_revoked |-> "refused"]

\* Mutant of Outcome: a late receipt counts without looking at the key again.
OutcomeUnmatched(o, receipt) ==
  CASE receipt \in {"uncertain", "reconciliation_required"} -> "uncertain"
    [] receipt = "stale" -> "superseded"
    [] receipt \in DOMAIN Result -> Result[receipt]

Outcome(o, receipt) ==
  CASE receipt \in {"uncertain", "reconciliation_required"} -> "uncertain"
    [] receipt = "stale" -> "superseded"
    [] receipt \in DOMAIN Result -> IF Matches(o) THEN Result[receipt] ELSE "superseded"

\* finalize_vpn_control_operation of a claimed row; it leaves finished rows as
\* they are and never resolves an uncertain one.
Finalize(o, receipt) ==
  LET k == KeyOf(o)
      action == intent[o].action
      done == Outcome(o, receipt) = "succeeded"
  IN
  /\ opState[o] = "claimed"
  /\ opState' = [opState EXCEPT ![o] = Outcome(o, receipt)]
  /\ keyStatus' = [keyStatus EXCEPT ![k] = IF done THEN Settled[action] ELSE @]
  /\ hasUri' = IF done /\ action = "provision" THEN hasUri \cup {k} ELSE hasUri
  /\ UNCHANGED <<policy, generation, revokeAsked, intent, nodes>>

-----------------------------------------------------------------------------
(* The rest of the control server                                          *)

\* Mutant of PlanAttack: a queued operation does not keep the node.
PlanAttackUnclaimed(w) ==
  /\ attack[w] \in {"none", "ended"} /\ w \notin maintenance /\ ~ Occupied(w)
  /\ attack' = [attack EXCEPT ![w] = "tasked"]
  /\ UNCHANGED <<keys, ops, endpoint, maintenance>>

\* The planner gives a task to a node that no operation and no job is using.
PlanAttack(w) ==
  /\ attack[w] \in {"none", "ended"} /\ w \notin maintenance /\ ~ InUse(w)
  /\ attack' = [attack EXCEPT ![w] = "tasked"]
  /\ UNCHANGED <<keys, ops, endpoint, maintenance>>

\* The node went silent or reported, its task is over, and its run goes on.
TaskEnds(w) ==
  /\ Attacked(w)
  /\ attack' = [attack EXCEPT ![w] = "ended"]
  /\ UNCHANGED <<keys, ops, endpoint, maintenance>>

\* The run is verified, which counts all its tasks, or a late acknowledgement
\* revives the task; neither looks at the queue or locks the node.
AttackReturns(w) ==
  /\ attack[w] = "ended"
  /\ attack' = [attack EXCEPT ![w] = "again"]
  /\ UNCHANGED <<keys, ops, endpoint, maintenance>>

AttackOver(w) ==
  /\ attack[w] # "none"
  /\ attack' = [attack EXCEPT ![w] = "none"]
  /\ UNCHANGED <<keys, ops, endpoint, maintenance>>

\* A job is queued for a node that no operation and no attack is using.
Maintain(w) ==
  /\ w \notin maintenance /\ ~ Attacked(w) /\ ~ InUse(w)
  /\ maintenance' = maintenance \cup {w}
  /\ UNCHANGED <<keys, ops, endpoint, attack>>

MaintenanceOver(w) ==
  /\ w \in maintenance
  /\ maintenance' = maintenance \ {w}
  /\ UNCHANGED <<keys, ops, endpoint, attack>>

Release(w) == AttackOver(w) \/ MaintenanceOver(w)

\* An operator drains, disables or reopens an endpoint.
SetEndpoint(w, status) ==
  /\ endpoint' = [endpoint EXCEPT ![w] = status]
  /\ UNCHANGED <<keys, ops, attack, maintenance>>

-----------------------------------------------------------------------------

QueueInit ==
  /\ policy \in [Key -> {p \in Policies : p.action = "provision"}]
  /\ keyStatus = [k \in Key |-> "unissued"]
  /\ generation = [k \in Key |-> 0]
  /\ revokeAsked = {} /\ hasUri = {}
  /\ opState = [o \in Operation |-> "none"]
  /\ intent = [o \in Operation |-> NoIntent]
  /\ endpoint = [w \in Worker |-> "ready"]
  /\ attack = [w \in Worker |-> "none"] /\ maintenance = {}

Admin(k) ==
  \/ Issue(k) \/ RetryProvision(k) \/ DisableInvitation(k)
  \/ \E new \in Policies : UpdateSubscription(k, new)
  \/ \E action \in KeyActions : Drift(k, action)
  \/ AskRevoke(k) \/ Archive(k)

ClaimSome == \E skipped \in SUBSET Tried({}) :
  ClaimNothing(skipped) \/ \E o \in Operation : Claim(o, skipped)

Neighbours ==
  \E w \in Worker :
    \/ PlanAttack(w) \/ TaskEnds(w) \/ AttackReturns(w)
    \/ Maintain(w) \/ Release(w)
    \/ \E status \in {"ready", "draining", "disabled"} : SetEndpoint(w, status)

QueueNext ==
  \/ \E k \in Key : Admin(k) \/ Lifecycle(k)
  \/ ClaimSome
  \/ \E o \in Operation, receipt \in QueueReceipts : Finalize(o, receipt)
  \/ Neighbours

QueueSpec == QueueInit /\ [][QueueNext]_queueVars

\* A turn that knows every queued row and finds none locked.  It goes through the
\* rows before the one it claims: those of lower generations, and of the same one
\* those created earlier; creation times are left open, so any may come later.
ClaimTurn ==
  \/ ClaimNothing({})
  \/ \E o \in Operation, later \in SUBSET Tried({}) :
       /\ \A c \in later : c # o /\ GenOf(c) = GenOf(o)
       /\ Claim(o, later)

\* The control loop keeps claiming, row locks are short, and attacks and
\* maintenance end.  Nothing makes a claimed row finish: its dispatcher may have
\* died.  Nor is the lifecycle pass needed to retire a row that stands in the way.
ClaimFairness ==
  /\ WF_queueVars(ClaimTurn)
  /\ \A w \in Worker : WF_queueVars(Release(w))

\* The control loop also keeps running the lifecycle pass.
QueueFairness == ClaimFairness /\ \A k \in Key : WF_queueVars(Lifecycle(k))

LiveQueueSpec == QueueSpec /\ QueueFairness

-----------------------------------------------------------------------------
(* Properties                                                              *)

QueueTypeOK ==
  /\ policy \in [Key -> Policies]
  /\ keyStatus \in [Key -> KeyStatuses]
  /\ generation \in [Key -> 0 .. MaxGeneration]
  /\ revokeAsked \subseteq Key /\ hasUri \subseteq Key
  /\ opState \in [Operation -> OpStates]
  /\ intent \in [Operation -> Intents \cup {NoIntent}]
  /\ endpoint \in [Worker -> {"ready", "draining", "disabled"}]
  /\ attack \in [Worker -> {"none", "tasked", "ended", "again"}]
  /\ maintenance \subseteq Worker

\* A node is never given a second operation while one is claimed on it or has
\* an unknown result, whatever was staged, skipped or superseded meanwhile.
OneAtATime ==
  \A o, p \in Operation :
    /\ opState[o] \in {"claimed", "uncertain"} /\ opState[p] \in {"claimed", "uncertain"}
    /\ Home(KeyOf(o)) = Home(KeyOf(p))
    => o = p

\* A planned attack or a maintenance job and a control operation never have a
\* node at the same time: each checks the others under the node's row lock.  An
\* attack that comes back by itself may find operations on its node.
NeverShared ==
  \A w \in Worker : attack[w] = "tasked" \/ w \in maintenance => ~ InUse(w)

\* Only a key's newest operation waits to be sent: an older wish that was not
\* claimed yet is gone for good.
OnlyNewestWaits ==
  \A o \in Operation : opState[o] = "queued" => GenOf(o) = generation[KeyOf(o)]

\* A key reads active, suspended or revoked only when its newest operation said
\* so and was observed, and an active or suspended key on the terms its
\* subscription has now: late receipts and edits under way never show through.
SettledKeysAreConfirmed ==
  \A k \in Key, action \in KeyActions :
    keyStatus[k] = Settled[action] =>
      /\ generation[k] > 0
      /\ opState[Newest(k)] = "succeeded" /\ intent[Newest(k)].action = action
      /\ action # "revoke" => intent[Newest(k)].terms = policy[k].terms

\* Once a revoke was asked for, no edit, renewal, late receipt, retry or
\* lifecycle pass brings the key back or starts anything but a revoke.
RevokeSticks ==
  [][\A k \in Key : Sticky(k) =>
       /\ Sticky(k)' /\ keyStatus[k]' \in {"pending_revoke", "revoked"}
       /\ \A o \in Operation :
            KeyOf(o) = k /\ opState[o] # opState'[o] /\ opState'[o] \in {"queued", "claimed"}
            => intent'[o].action = "revoke"]_queueVars

\* No operation waits for ever behind rows of other nodes, however old, outdated
\* or stuck those are: a turn that meets one goes on to the next.
NoHeadOfLineBlocking ==
  \A o \in Operation :
    opState[o] = "queued" ~> opState[o] # "queued" \/ Occupied(Home(KeyOf(o)))

\* docs/vpn-service.md:344-346: "The scheduled worker retries pending
\* operations even when the browser's immediate maintenance request fails."
\* A key whose operation failed before any mutation, and is still what policy
\* asks for, would then not stay pending for ever on a free and ready node.
StuckOnSafeNode(k) ==
  /\ keyStatus[k] \in {"pending_sync", "pending_suspend", "pending_revoke"}
  /\ 0 < generation[k] /\ generation[k] < MaxGeneration
  /\ opState[Newest(k)] = "failed" /\ intent[Newest(k)].action = Desired(k)
  /\ ~ Reserved(Home(k)) /\ endpoint[Home(k)] = "ready"

PendingIsRetried == \A k \in Key : ~ <>[] StuckOnSafeNode(k)
=============================================================================
