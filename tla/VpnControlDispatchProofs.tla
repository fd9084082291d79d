----------------------- MODULE VpnControlDispatchProofs -----------------------
(***************************************************************************)
(* Proofs about VpnControlDispatch: any number of nodes, keys, terms and   *)
(* generations, whatever is lost, killed or left ambiguous.                *)
(***************************************************************************)
EXTENDS VpnControlDispatch, VpnControlQueueProofs

Active(o) == opState[o] \in {"claimed", "uncertain"}

-----------------------------------------------------------------------------
(* What the queue alone guarantees of its rows                             *)

\* Rows are staged generation by generation, and a revoke row marks its key.
RowInv ==
  \A o \in Operation : opState[o] # "none" =>
    /\ GenOf(o) <= generation[KeyOf(o)]
    /\ intent[o].action = "revoke" => KeyOf(o) \in revokeAsked

\* Nothing of a key that reads active, suspended or revoked is under way.
SettledIdle ==
  \A k \in Key, o \in Operation :
    keyStatus[k] \in {"active", "suspended", "revoked"} /\ KeyOf(o) = k => ~ Active(o)

RowsInv == IInv /\ RowInv /\ SettledIdle

-----------------------------------------------------------------------------
(* What the dispatcher adds                                                *)

\* Where the dispatcher is, its operation is still claimed, and it writes only
\* what was never written.
JobInv ==
  /\ stage # "idle" => job \in Operation
  /\ stage \in {"claimed", "written", "finalizing", "resolving"} => opState[job] = "claimed"
  /\ stage = "claimed" => job \notin written
  /\ stage \in {"finalizing", "reconciling", "resolving"} => receipt \in QueueReceipts
  /\ stage \in {"finalizing", "reconciling"} /\ ~ lookup =>
       receipt = "failed" /\ job \notin written

\* What the dispatcher is about to record is true of the node.
ReceiptInv ==
  stage \in {"finalizing", "resolving"} \/ (stage = "reconciling" /\ opState[job] = "claimed") =>
    /\ receipt \in {"observed", "failed", "uncertain", "reconciliation_required"}
    /\ receipt = "observed" => nodeState[job] = "observed"
    /\ receipt = "failed" => job \notin inflight /\ nodeState[job] \in {"absent", "failed"}

\* Only rows that were claimed are written, what is on its way has not arrived,
\* and what arrived is what the row says.
WireInv ==
  /\ \A o \in Operation :
       /\ o \in written => opState[o] \notin {"none", "queued"}
       /\ o \in inflight => o \in written /\ nodeState[o] = "absent"
       /\ nodeState[o] # "absent" => o \in written
  /\ binding = [o \in Operation |->
       IF nodeState[o] = "absent" THEN NoRequest ELSE Request(o, intent[o])]

\* What is on its way or unsettled on the node holds it.
QuietInv ==
  \A o \in Operation :
    o \in inflight \/ nodeState[o] \in {"accepted", "mutating", "uncertain"} => Active(o)

\* An active operation is the newest of its key that was written, and nothing
\* but a revoke is active once a revoke was written.
OrderInv ==
  \A o \in Operation, i \in written :
    Active(o) /\ KeyOf(i) = KeyOf(o) =>
      /\ GenOf(i) <= GenOf(o)
      /\ intent[i].action = "revoke" => intent[o].action = "revoke"

DInv ==
  /\ RowsInv /\ DispatchTypeOK /\ NodeNeverRefuses /\ VerdictsAreTrue
  /\ JobInv /\ ReceiptInv /\ WireInv /\ QuietInv /\ OrderInv

-----------------------------------------------------------------------------
(* The rows                                                                *)

\* A node is occupied while an operation is active on it.
LEMMA OccupiedWhileActive ==
  \A w \in Worker : Occupied(w) <=> \E o \in On(w) : Active(o)
  BY DEF Occupied, Active

\* So at most one operation is active on a node, and of a key.
LEMMA OneActive ==
  ASSUME IInv, NEW o \in Operation, NEW p \in Operation, Active(o), Active(p),
         Home(KeyOf(o)) = Home(KeyOf(p))
  PROVE  o = p
  BY DEF IInv, OneAtATime, Active

\* What everything but claiming and finalizing does to the rows: it adds one to
\* a key as a new generation, supersedes the one that waited, or does neither.
Waiting(o) ==
  \/ opState'[o] = opState[o]
  \/ opState[o] = "none" /\ opState'[o] = "queued"
  \/ opState[o] = "queued" /\ opState'[o] = "superseded"

RowsWait ==
  \A o \in Operation : Waiting(o) /\ (opState[o] # "none" => intent'[o] = intent[o])

\* Staging adds a row above all others of its key, and marks a revoke.
LEMMA StageRows ==
  ASSUME RowsInv, NEW k \in Key, NEW action \in KeyActions, NEW retry \in BOOLEAN,
         Stage(k, action, retry)
  PROVE  RowsWait /\ RowInv' /\ SettledIdle'
<1> DEFINE g == generation[k] + 1
<1>1. /\ generation[k] \in Nat /\ g \in Generation /\ <<k, g>> \in Operation
      /\ KeyOf(<<k, g>>) = k /\ GenOf(<<k, g>>) = g
  <2>1. generation[k] \in 0 .. MaxGeneration /\ generation[k] < MaxGeneration
    BY DEF Stage, RowsInv, IInv, QueueTypeOK
  <2>2. generation[k] \in Nat /\ g \in Generation
    BY <2>1, QueueAssumption DEF Generation
  <2> QED BY <2>2, OperationFacts
<1>2. /\ generation' = [generation EXCEPT ![k] = g]
      /\ keyStatus' = [keyStatus EXCEPT ![k] = Pending[action]]
      /\ revokeAsked' = IF action = "revoke" THEN revokeAsked \cup {k} ELSE revokeAsked
      /\ intent' = [intent EXCEPT ![<<k, g>>] = IntentOf(k, action)]
      /\ opState' = [o \in Operation |->
          CASE o = <<k, g>> -> "queued"
            [] KeyOf(o) = k /\ GenOf(o) < g /\ opState[o] = "queued" -> "superseded"
            [] OTHER -> opState[o]]
  BY DEF Stage, Queued
<1>3. opState[<<k, g>>] = "none"
  BY <1>1 DEF RowsInv, RowInv
<1>4. RowsWait
  BY <1>1, <1>2, <1>3 DEF RowsWait, Waiting, RowsInv, IInv, QueueTypeOK
<1>5. RowInv'
  <2> SUFFICES ASSUME NEW o \in Operation, opState'[o] # "none"
               PROVE  /\ GenOf(o) <= generation'[KeyOf(o)]
                      /\ intent'[o].action = "revoke" => KeyOf(o) \in revokeAsked'
    BY DEF RowInv
  <2>1. CASE o = <<k, g>>
    <3>1. intent'[o] = IntentOf(k, action) /\ generation'[k] = g
      BY <1>1, <1>2, <2>1 DEF RowsInv, IInv, QueueTypeOK
    <3> QED BY <1>1, <1>2, <2>1, <3>1 DEF IntentOf
  <2>2. CASE o # <<k, g>>
    <3>1. opState[o] # "none" /\ intent'[o] = intent[o]
      BY <1>2, <2>2 DEF RowsInv, IInv, QueueTypeOK
    <3>2. /\ GenOf(o) <= generation[KeyOf(o)]
          /\ intent[o].action = "revoke" => KeyOf(o) \in revokeAsked
      BY <3>1 DEF RowsInv, RowInv
    <3>3. GenOf(o) \in Nat /\ KeyOf(o) \in Key
      BY OperationFacts
    <3>4. GenOf(o) <= generation'[KeyOf(o)]
      BY <1>1, <1>2, <3>2, <3>3 DEF RowsInv, IInv, QueueTypeOK
    <3> QED BY <1>2, <3>1, <3>2, <3>4
  <2> QED BY <2>1, <2>2
<1>6. SettledIdle'
  <2>1. \A o \in Operation : Active(o)' => Active(o)
    BY <1>4 DEF RowsWait, Waiting, Active
  <2>2. \A j \in Key : keyStatus'[j] \in {"active", "suspended", "revoked"} =>
          keyStatus'[j] = keyStatus[j]
    BY <1>2, StatusFacts DEF RowsInv, IInv, QueueTypeOK
  <2> QED BY <2>1, <2>2 DEF RowsInv, SettledIdle
<1> QED BY <1>4, <1>5, <1>6

\* A step that leaves the rows alone and settles no key keeps all of this.
LEMMA StampRows ==
  ASSUME RowsInv, UNCHANGED <<generation, revokeAsked, opState, intent>>,
         \A k \in Key : keyStatus'[k] \in {"active", "suspended", "revoked"} =>
           keyStatus'[k] = keyStatus[k]
  PROVE  RowsWait /\ RowInv' /\ SettledIdle'
  BY DEF RowsInv, RowInv, SettledIdle, RowsWait, Waiting, Active

\* An administrator's action and the lifecycle pass only add rows that wait.
LEMMA AdminRows ==
  ASSUME RowsInv, NEW k \in Key, Admin(k) \/ Lifecycle(k)
  PROVE  RowsWait /\ RowInv' /\ SettledIdle'
<1>0. keyStatus \in [Key -> KeyStatuses] /\ policy[k].action \in KeyActions
  BY DEF RowsInv, IInv, QueueTypeOK, Policies
<1>1. CASE Issue(k)
  BY <1>1, StageRows DEF Issue, KeyActions
<1>2. CASE RetryProvision(k)
  BY <1>2, StageRows DEF RetryProvision, KeyActions
<1>3. CASE DisableInvitation(k)
  BY <1>3, StageRows DEF DisableInvitation, KeyActions
<1>4. CASE Lifecycle(k)
  <2>1. PICK action \in KeyActions : Stage(k, action, FALSE)
    BY <1>0, <1>4 DEF Lifecycle, KeyActions
  <2> QED BY <2>1, StageRows
<1>5. CASE \E new \in Policies : UpdateSubscription(k, new)
  <2>1. PICK new \in Policies : UpdateSubscription(k, new)
    BY <1>5
  <2>2. Pending[new.action] \in {"pending_sync", "pending_suspend", "pending_revoke"}
    BY StatusFacts DEF Policies
  <2> QED BY <1>0, <2>1, <2>2, StampRows DEF UpdateSubscription, Stamp, ops
<1>6. CASE \E action \in KeyActions : Drift(k, action)
  BY <1>6, StampRows DEF Drift, ops
<1>7. CASE AskRevoke(k)
  BY <1>0, <1>7, StampRows DEF AskRevoke, Stamp, ops
<1>8. CASE Archive(k)
  BY <1>0, <1>8, StampRows DEF Archive, Stamp, ops
<1> QED BY <1>1, <1>2, <1>3, <1>4, <1>5, <1>6, <1>7, <1>8 DEF Admin

\* Neighbours touch no row.
LEMMA NeighboursRows ==
  ASSUME RowsInv, Neighbours
  PROVE  RowsWait /\ RowInv' /\ SettledIdle'
  BY StampRows DEF Neighbours, PlanAttack, TaskEnds, AttackReturns, Maintain, Release,
     AttackOver, MaintenanceOver, SetEndpoint, keys, ops

\* The row a claim takes is its key's newest, asks what is asked now, and belongs to
\* a key that is pending.
LEMMA ClaimRows ==
  ASSUME RowsInv, NEW skipped, NEW o \in Operation, Claim(o, skipped)
  PROVE  /\ RowInv' /\ SettledIdle'
         /\ opState[o] = "queued" /\ opState'[o] = "claimed"
         /\ \A p \in Operation \ {o} : Waiting(p)
         /\ GenOf(o) = generation[KeyOf(o)]
         /\ KeyOf(o) \in revokeAsked => intent[o].action = "revoke"
         /\ UNCHANGED intent
<1> DEFINE passed == {c \in Tried(skipped) : GenOf(c) <= GenOf(o)} \ {o}
<1>1. /\ UNCHANGED <<policy, keyStatus, generation, revokeAsked, hasUri, intent>>
      /\ opState' = [p \in Operation |->
           IF p = o THEN "claimed" ELSE IF p \in passed THEN "superseded" ELSE opState[p]]
  BY DEF Claim, Outdated, keys
<1>2. o \in Operation /\ opState[o] = "queued"
  BY DEF Claim, Tried, Candidates
<1>3. \A p \in passed : opState[p] = "queued"
  BY DEF Tried, Candidates
<1>5. /\ GenOf(o) = generation[KeyOf(o)] /\ intent[o].action = Desired(KeyOf(o))
      /\ keyStatus[KeyOf(o)] = Pending[intent[o].action]
  BY DEF Claim, Matches
<1>6. KeyOf(o) \in revokeAsked => intent[o].action = "revoke"
  BY <1>5 DEF Desired, Sticky
<1>7. opState'[o] = "claimed" /\ \A p \in Operation \ {o} : Waiting(p)
  BY <1>1, <1>2, <1>3 DEF Waiting
<1>8. RowInv'
  BY <1>1, <1>2, <1>3 DEF RowsInv, RowInv
<1>9. SettledIdle'
  <2>1. \A p \in Operation : Active(p)' => p = o \/ Active(p)
    BY <1>7 DEF Waiting, Active
  <2>2. intent[o].action \in KeyActions
    BY <1>2 DEF RowsInv, IInv, IntentInv, Intents
  <2>3. keyStatus[KeyOf(o)] \notin {"active", "suspended", "revoked"}
    BY <1>5, <2>2, StatusFacts
  <2> QED BY <1>1, <2>1, <2>3 DEF RowsInv, SettledIdle
<1> QED BY <1>1, <1>2, <1>5, <1>6, <1>7, <1>8, <1>9

\* A claim that finds only outdated rows supersedes them.
LEMMA ClaimNothingRows ==
  ASSUME RowsInv, NEW skipped, ClaimNothing(skipped)
  PROVE  RowsWait /\ RowInv' /\ SettledIdle'
<1>1. /\ UNCHANGED <<policy, keyStatus, generation, revokeAsked, hasUri, intent>>
      /\ opState' = [p \in Operation |->
           IF p \in Tried(skipped) THEN "superseded" ELSE opState[p]]
  BY DEF ClaimNothing, Outdated, keys
<1>2. \A p \in Tried(skipped) : opState[p] = "queued"
  BY DEF Tried, Candidates
<1>3. RowsWait
  BY <1>1, <1>2 DEF RowsWait, Waiting
<1>4. RowInv' /\ SettledIdle'
  BY <1>1, <1>2 DEF RowsInv, RowInv, SettledIdle, Active
<1> QED BY <1>3, <1>4

\* Finalizing settles the row by the receipt, or leaves its node occupied.
LEMMA FinalizeRows ==
  ASSUME RowsInv, NEW o \in Operation,
         NEW found \in {"observed", "failed", "uncertain", "reconciliation_required"},
         Finalize(o, found)
  PROVE  /\ RowInv' /\ SettledIdle'
         /\ opState[o] = "claimed"
         /\ \A p \in Operation \ {o} : opState'[p] = opState[p]
         /\ UNCHANGED intent
         /\ \/ opState'[o] = "uncertain"
            \/ found = "observed" /\ opState'[o] \in {"succeeded", "superseded"}
            \/ found = "failed" /\ opState'[o] \in {"failed", "superseded"}
<1> DEFINE result == Outcome(o, found)
<1>1. /\ opState[o] = "claimed" /\ opState' = [opState EXCEPT ![o] = result]
      /\ UNCHANGED <<policy, generation, revokeAsked, intent>>
      /\ keyStatus' = [keyStatus EXCEPT ![KeyOf(o)] =
           IF result = "succeeded" THEN Settled[intent[o].action] ELSE @]
  BY DEF Finalize
<1>2. \/ found \in {"uncertain", "reconciliation_required"} /\ result = "uncertain"
      \/ found = "observed" /\ result \in {"succeeded", "superseded"}
      \/ found = "failed" /\ result \in {"failed", "superseded"}
  BY DEF Outcome, Result
<1>3. /\ opState'[o] = result
      /\ \A p \in Operation \ {o} : opState'[p] = opState[p]
  BY <1>1 DEF RowsInv, IInv, QueueTypeOK
<1>4. RowInv'
  BY <1>1, <1>3 DEF RowsInv, RowInv
<1>5. SettledIdle'
  <2>1. \A p \in Operation : Active(p) /\ KeyOf(p) = KeyOf(o) => p = o
    BY <1>1, OneActive DEF RowsInv, Active
  <2>2. \A p \in Operation : Active(p)' =>
          Active(p) /\ (KeyOf(p) = KeyOf(o) => result = "uncertain")
    BY <1>1, <1>2, <1>3, <2>1 DEF Active
  <2>3. result = "uncertain" => keyStatus' = keyStatus
    BY <1>1 DEF RowsInv, IInv, QueueTypeOK
  <2> QED BY <1>1, <2>2, <2>3 DEF RowsInv, SettledIdle, Active
<1> QED BY <1>1, <1>2, <1>3, <1>4, <1>5

-----------------------------------------------------------------------------
(* The dispatcher, the network and the node                                *)

\* What DInv says beyond the rows.
WorkInv ==
  /\ DispatchTypeOK /\ NodeNeverRefuses /\ VerdictsAreTrue
  /\ JobInv /\ ReceiptInv /\ WireInv /\ QuietInv /\ OrderInv

\* Initially nothing was staged, claimed or sent.
LEMMA InitDInv == DispatchInit => DInv
<1> SUFFICES ASSUME DispatchInit PROVE DInv
  OBVIOUS
<1>1. QueueInit /\ opState = [o \in Operation |-> "none"] /\ IInv
  BY InitIInv DEF DispatchInit, QueueInit
<1>2. RowsInv
  BY <1>1 DEF RowsInv, RowInv, SettledIdle, Active
<1>3. DispatchTypeOK /\ NodeNeverRefuses /\ VerdictsAreTrue
  BY <1>1 DEF DispatchInit, Nodes!NodeInit, DispatchTypeOK, NodeNeverRefuses, VerdictsAreTrue,
     NoAnswer, Receipts, QueueReceipts, Nodes!Statuses
<1>4. JobInv /\ ReceiptInv /\ WireInv /\ QuietInv /\ OrderInv
  BY <1>1 DEF DispatchInit, Nodes!NodeInit, JobInv, ReceiptInv, WireInv, QuietInv, OrderInv, Active
<1> QED BY <1>2, <1>3, <1>4 DEF DInv

\* Rows that come, wait and go unclaimed are nothing to the dispatcher.
LEMMA WaitingIsApart ==
  ASSUME DInv, RowsWait, UNCHANGED <<dispatcher, atNodes, network>>
  PROVE  WorkInv'
<1>1. UNCHANGED <<binding, nodeState, inflight, refusal, written, stage, job, receipt, lookup>>
  BY DEF dispatcher, atNodes, network
<1>2. \A o \in Operation :
        /\ opState'[o] \in {"claimed", "uncertain", "succeeded", "failed"}
             <=> opState[o] \in {"claimed", "uncertain", "succeeded", "failed"}
        /\ opState[o] \in {"claimed", "uncertain", "succeeded", "failed"} =>
             opState'[o] = opState[o]
        /\ opState[o] \notin {"none", "queued"} => opState'[o] \notin {"none", "queued"}
        /\ opState[o] # "none" => intent'[o] = intent[o]
  BY DEF RowsWait, Waiting
<1>3. DispatchTypeOK' /\ NodeNeverRefuses' /\ VerdictsAreTrue'
  BY <1>1, <1>2 DEF DInv, DispatchTypeOK, NodeNeverRefuses, VerdictsAreTrue
<1>4. JobInv' /\ ReceiptInv'
  BY <1>1, <1>2 DEF DInv, JobInv, ReceiptInv
<1>5. WireInv' /\ QuietInv'
  BY <1>1, <1>2 DEF DInv, WireInv, QuietInv, Active, Request
<1>6. OrderInv'
  <2>1. \A o \in written : o \in Operation /\ opState[o] # "none"
    BY DEF DInv, DispatchTypeOK, WireInv
  <2> QED BY <1>1, <1>2, <2>1 DEF DInv, OrderInv, Active
<1> QED BY <1>3, <1>4, <1>5, <1>6 DEF WorkInv

\* A claimed row was never written, and everything of its key that was written
\* is older.
LEMMA TakeNextDInv == ASSUME DInv, TakeNext PROVE WorkInv' /\ RowInv' /\ SettledIdle'
<1>0. RowsInv
  BY DEF DInv
<1>1. ASSUME NEW skipped, ClaimNothing(skipped), UNCHANGED dispatcher
      PROVE  WorkInv' /\ RowInv' /\ SettledIdle'
  BY <1>0, <1>1, ClaimNothingRows, WaitingIsApart DEF TakeNext
<1>2. ASSUME NEW skipped, NEW o \in Operation, Claim(o, skipped),
             \/ stage' = "claimed" /\ job' = o /\ UNCHANGED <<receipt, lookup>>
             \/ UNCHANGED dispatcher
      PROVE  WorkInv' /\ RowInv' /\ SettledIdle'
  <2>1. /\ RowInv' /\ SettledIdle'
        /\ opState[o] = "queued" /\ opState'[o] = "claimed"
        /\ \A p \in Operation \ {o} : Waiting(p)
        /\ GenOf(o) = generation[KeyOf(o)]
        /\ KeyOf(o) \in revokeAsked => intent[o].action = "revoke"
        /\ UNCHANGED intent
    BY <1>0, <1>2, ClaimRows
  <2>2. /\ UNCHANGED <<binding, nodeState, inflight, refusal, written>>
        /\ stage = "idle" /\ UNCHANGED <<receipt, lookup>>
        /\ \/ stage' = "claimed" /\ job' = o
           \/ stage' = "idle" /\ job' = job
    BY <1>2 DEF TakeNext, atNodes, network, dispatcher
  <2>3. o \notin written
    BY <2>1 DEF DInv, WireInv
  <2>4. DispatchTypeOK' /\ NodeNeverRefuses'
    BY <2>2 DEF DInv, DispatchTypeOK, NodeNeverRefuses
  <2>5. VerdictsAreTrue'
    BY <2>1, <2>2 DEF DInv, VerdictsAreTrue, Waiting
  <2>6. JobInv' /\ ReceiptInv'
    BY <2>1, <2>2, <2>3 DEF DInv, JobInv, ReceiptInv
  <2>7. WireInv'
    BY <2>1, <2>2 DEF DInv, WireInv, Waiting, Request
  <2>8. QuietInv'
    BY <2>1, <2>2 DEF DInv, QuietInv, Waiting, Active
  <2>9. OrderInv'
    <3>1. \A p \in Operation : Active(p)' => p = o \/ Active(p)
      BY <2>1 DEF Waiting, Active
    <3>2. ASSUME NEW i \in written, KeyOf(i) = KeyOf(o)
          PROVE  /\ GenOf(i) <= GenOf(o)
                 /\ intent[i].action = "revoke" => intent[o].action = "revoke"
      <4>1. i \in Operation /\ opState[i] # "none"
        BY DEF DInv, DispatchTypeOK, WireInv
      <4> QED BY <1>0, <2>1, <3>2, <4>1 DEF RowsInv, RowInv
    <3> QED BY <2>1, <2>2, <3>1, <3>2 DEF DInv, OrderInv
  <2> QED BY <2>1, <2>4, <2>5, <2>6, <2>7, <2>8, <2>9 DEF WorkInv
<1>3. PICK skipped \in SUBSET Tried({}) :
        \/ ClaimNothing(skipped) /\ UNCHANGED dispatcher
        \/ \E o \in Operation :
             /\ Claim(o, skipped)
             /\ \/ stage' = "claimed" /\ job' = o /\ UNCHANGED <<receipt, lookup>>
                \/ UNCHANGED dispatcher
  BY DEF TakeNext
<1> QED BY <1>1, <1>2, <1>3

\* The dispatcher is between claiming and finalizing, and the rows are as they
\* were; only it moves, or what was written and its answers with it.
LEMMA MoveDInv ==
  ASSUME DInv, UNCHANGED <<queueVars, binding, nodeState, inflight, refusal, written>>,
         DispatchTypeOK', JobInv', ReceiptInv'
  PROVE  WorkInv'
<1>1. UNCHANGED <<opState, intent, binding, nodeState, inflight, refusal, written>>
  BY DEF queueVars
<1>2. NodeNeverRefuses' /\ VerdictsAreTrue' /\ WireInv' /\ QuietInv' /\ OrderInv'
  BY <1>1 DEF DInv, NodeNeverRefuses, VerdictsAreTrue, WireInv, QuietInv, OrderInv,
     Active, Request
<1> QED BY <1>2 DEF WorkInv

\* Turning to finalize with a receipt that is true of the node.
LEMMA GoFinalizeDInv ==
  ASSUME DInv, stage # "idle", opState[job] = "claimed",
         NEW found \in {"observed", "failed", "uncertain", "reconciliation_required"},
         NEW needs \in BOOLEAN, GoFinalize(found, needs),
         found = "observed" => nodeState[job] = "observed",
         found = "failed" => job \notin inflight /\ nodeState[job] \in {"absent", "failed"},
         ~ needs => found = "failed" /\ job \notin written
  PROVE  WorkInv'
<1>1. /\ UNCHANGED <<queueVars, binding, nodeState, inflight, refusal, written>>
      /\ UNCHANGED <<opState, job>>
      /\ stage' = "finalizing" /\ receipt' = found /\ lookup' = needs
  BY DEF GoFinalize, queueVars, atNodes, network
<1>2. DispatchTypeOK'
  BY <1>1 DEF DInv, DispatchTypeOK, Receipts, QueueReceipts
<1>3. JobInv' /\ ReceiptInv'
  BY <1>1 DEF DInv, JobInv, ReceiptInv, QueueReceipts
<1> QED BY <1>1, <1>2, <1>3, MoveDInv

\* What was not written is not at the node, nor on its way to it.
LEMMA PrewriteFailsDInv == ASSUME DInv, PrewriteFails PROVE WorkInv'
<1>1. /\ stage = "claimed" /\ job \in Operation /\ opState[job] = "claimed"
      /\ job \notin written /\ job \notin inflight /\ nodeState[job] = "absent"
  BY DEF PrewriteFails, DInv, JobInv, WireInv
<1> QED BY <1>1, GoFinalizeDInv DEF PrewriteFails

\* Nothing else of its key is active, so this may follow all that was written of it.
LEMMA WriteDInv == ASSUME DInv, Write PROVE WorkInv'
<1>1. /\ stage = "claimed" /\ job \in Operation /\ opState[job] = "claimed"
      /\ job \notin written /\ nodeState[job] = "absent"
  BY DEF Write, DInv, JobInv, WireInv
<1>2. /\ stage' = "written" /\ inflight' = inflight \cup {job}
      /\ written' = written \cup {job}
      /\ UNCHANGED <<opState, intent, binding, nodeState, refusal, job, receipt, lookup>>
  BY DEF Write, queueVars, atNodes
<1>3. DispatchTypeOK' /\ NodeNeverRefuses' /\ VerdictsAreTrue'
  BY <1>1, <1>2 DEF DInv, DispatchTypeOK, NodeNeverRefuses, VerdictsAreTrue
<1>4. JobInv' /\ ReceiptInv'
  BY <1>1, <1>2 DEF DInv, JobInv, ReceiptInv
<1>5. WireInv' /\ QuietInv'
  BY <1>1, <1>2 DEF DInv, WireInv, QuietInv, Request, Active
<1>6. OrderInv'
  <2>1. \A o \in Operation : Active(o) /\ KeyOf(o) = KeyOf(job) => o = job
    BY <1>1, OneActive DEF DInv, RowsInv, Active
  <2>2. GenOf(job) <= GenOf(job)
    BY <1>1, OperationFacts
  <2> QED BY <1>2, <2>1, <2>2 DEF DInv, OrderInv, Active
<1> QED BY <1>3, <1>4, <1>5, <1>6 DEF WorkInv

\* An answer is the node's verdict, for nothing was refused.
LEMMA ReceiveDInv == ASSUME DInv, Receive PROVE WorkInv'
<1>1. stage = "written" /\ job \in Operation /\ opState[job] = "claimed"
  BY DEF Receive, DInv, JobInv
<1>2. refusal[job] = "none"
  BY <1>1 DEF DInv, NodeNeverRefuses, NoAnswer
<1>3. /\ Answer(job) \in {"observed", "failed", "uncertain"}
      /\ Answer(job) = nodeState[job]
  BY <1>2 DEF Receive, Answer
<1>4. job \in inflight => nodeState[job] = "absent"
  BY <1>1 DEF DInv, WireInv
<1> QED BY <1>1, <1>3, <1>4, GoFinalizeDInv DEF Receive

\* Without an answer nothing is claimed about the node.
LEMMA TransportFailsDInv == ASSUME DInv, TransportFails PROVE WorkInv'
<1>1. stage = "written" /\ opState[job] = "claimed"
  BY DEF TransportFails, DInv, JobInv
<1> QED BY <1>1, GoFinalizeDInv DEF TransportFails

\* The receipt is true of the node, so the row's verdict is; and a row that is
\* settled has left nothing under way.
LEMMA CommitDInv ==
  ASSUME DInv, stage \in {"finalizing", "resolving"}, Finalize(job, receipt),
         UNCHANGED <<atNodes, network>>
  PROVE  /\ RowInv' /\ SettledIdle'
         /\ opState'[job] # "claimed"
         /\ NodeNeverRefuses' /\ VerdictsAreTrue' /\ WireInv' /\ QuietInv' /\ OrderInv'
<1>1. /\ job \in Operation /\ opState[job] = "claimed"
      /\ receipt \in {"observed", "failed", "uncertain", "reconciliation_required"}
      /\ receipt = "observed" => nodeState[job] = "observed"
      /\ receipt = "failed" => job \notin inflight /\ nodeState[job] \in {"absent", "failed"}
  BY DEF DInv, JobInv, ReceiptInv
<1>2. UNCHANGED <<binding, nodeState, inflight, refusal, written>>
  BY DEF atNodes, network
<1>3. /\ RowInv' /\ SettledIdle'
      /\ \A p \in Operation \ {job} : opState'[p] = opState[p]
      /\ UNCHANGED intent
      /\ \/ opState'[job] = "uncertain"
         \/ receipt = "observed" /\ opState'[job] \in {"succeeded", "superseded"}
         \/ receipt = "failed" /\ opState'[job] \in {"failed", "superseded"}
  BY <1>1, FinalizeRows DEF DInv
<1>4. opState'[job] # "claimed" /\ NodeNeverRefuses' /\ VerdictsAreTrue'
  BY <1>1, <1>2, <1>3 DEF DInv, NodeNeverRefuses, VerdictsAreTrue
<1>5. WireInv'
  BY <1>1, <1>2, <1>3 DEF DInv, WireInv, Request
<1>6. QuietInv'
  <2>1. opState'[job] # "uncertain" =>
          job \notin inflight /\ nodeState[job] \notin {"accepted", "mutating", "uncertain"}
    BY <1>1, <1>3 DEF DInv, WireInv
  <2> QED BY <1>1, <1>2, <1>3, <2>1 DEF DInv, QuietInv, Active
<1>7. OrderInv'
  BY <1>1, <1>2, <1>3 DEF DInv, OrderInv, Active
<1> QED BY <1>3, <1>4, <1>5, <1>6, <1>7

\* Whoever is idle has no job.
LEMMA IdleFacts == ASSUME Idle, DInv, UNCHANGED <<inflight, refusal, nodeState, written>>
                   PROVE  DispatchTypeOK' /\ JobInv' /\ ReceiptInv'
<1>1. DispatchTypeOK'
  BY DEF Idle, DInv, DispatchTypeOK, Receipts
<1>2. JobInv' /\ ReceiptInv'
  BY DEF Idle, JobInv, ReceiptInv
<1> QED BY <1>1, <1>2

\* Finalizing, with its commit known or unknown, and reconciling.
LEMMA FinalizeDInv ==
  ASSUME DInv,
         \/ FinalizeCommits \/ FinalizeUnclear \/ ReconcileDone
         \/ ReconcileLookup \/ ReconcileCommits \/ GiveUp
  PROVE  WorkInv' /\ RowInv' /\ SettledIdle'
<1>1. ASSUME UNCHANGED queueVars PROVE RowInv' /\ SettledIdle'
  BY <1>1 DEF queueVars, DInv, RowsInv, RowInv, SettledIdle, Active
<1>2. CASE FinalizeCommits \/ ReconcileCommits
  <2>1. /\ stage \in {"finalizing", "resolving"} /\ Finalize(job, receipt) /\ Idle
        /\ UNCHANGED <<atNodes, network>>
    BY <1>2 DEF FinalizeCommits, ReconcileCommits
  <2>2. UNCHANGED <<inflight, refusal, nodeState, written>>
    BY <2>1 DEF atNodes, network
  <2> QED BY <2>1, <2>2, CommitDInv, IdleFacts DEF WorkInv
<1>3. CASE FinalizeUnclear
  <2>1. /\ stage = "finalizing" /\ stage' = "reconciling" /\ UNCHANGED <<job, receipt, lookup>>
        /\ UNCHANGED <<inflight, refusal, nodeState, written, binding>>
        /\ UNCHANGED <<atNodes, network>>
    BY <1>3 DEF FinalizeUnclear, atNodes, network
  <2>2. DispatchTypeOK'
    BY <2>1 DEF DInv, DispatchTypeOK
  <2>3. CASE Finalize(job, receipt)
    <3>1. opState'[job] # "claimed"
      BY <2>1, <2>3, CommitDInv
    <3>2. JobInv' /\ ReceiptInv'
      BY <2>1, <3>1 DEF DInv, JobInv, ReceiptInv
    <3> QED BY <2>1, <2>2, <2>3, <3>2, CommitDInv DEF WorkInv
  <2>4. CASE UNCHANGED queueVars
    <3>1. JobInv' /\ ReceiptInv'
      BY <2>1, <2>4 DEF queueVars, DInv, JobInv, ReceiptInv
    <3> QED BY <1>1, <2>1, <2>2, <2>4, <3>1, MoveDInv
  <2> QED BY <1>3, <2>3, <2>4 DEF FinalizeUnclear
<1>4. CASE ReconcileDone \/ GiveUp
  <2>1. Idle /\ UNCHANGED <<queueVars, binding, nodeState, inflight, refusal, written>>
    BY <1>4 DEF ReconcileDone, GiveUp, atNodes, network
  <2> QED BY <1>1, <2>1, IdleFacts, MoveDInv
<1>5. CASE ReconcileLookup
  <2>1. /\ stage = "reconciling" /\ job \in Operation /\ opState[job] = "claimed"
        /\ lookup => Found(job) # "none"
        /\ stage' = "resolving" /\ receipt' = IF lookup THEN Found(job) ELSE receipt
        /\ UNCHANGED <<job, lookup>>
        /\ UNCHANGED <<queueVars, binding, nodeState, inflight, refusal, written>>
        /\ UNCHANGED opState
    BY <1>5 DEF ReconcileLookup, queueVars, atNodes, network, DInv, JobInv
  <2>2. nodeState[job] \in Nodes!Statuses
    BY <2>1 DEF DInv, DispatchTypeOK
  <2>3. lookup =>
          /\ Found(job) \in {"observed", "failed", "uncertain", "reconciliation_required"}
          /\ Found(job) = "observed" => nodeState[job] = "observed"
          /\ Found(job) = "failed" => job \notin inflight /\ nodeState[job] = "failed"
    BY <2>1, <2>2 DEF Found, Nodes!Statuses, DInv, WireInv
  <2>4. ~ lookup =>
          /\ receipt \in {"observed", "failed", "uncertain", "reconciliation_required"}
          /\ receipt = "observed" => nodeState[job] = "observed"
          /\ receipt = "failed" => job \notin inflight /\ nodeState[job] \in {"absent", "failed"}
    BY <2>1 DEF DInv, ReceiptInv
  <2>5. lookup \in BOOLEAN
    BY DEF DInv, DispatchTypeOK
  <2>6. DispatchTypeOK' /\ JobInv' /\ ReceiptInv'
    <3>1. /\ receipt' \in {"observed", "failed", "uncertain", "reconciliation_required"}
          /\ receipt' = "observed" => nodeState[job] = "observed"
          /\ receipt' = "failed" => job \notin inflight /\ nodeState[job] \in {"absent", "failed"}
      BY <2>1, <2>3, <2>4, <2>5
    <3>2. DispatchTypeOK'
      BY <2>1, <3>1 DEF DInv, DispatchTypeOK, Receipts, QueueReceipts
    <3>3. JobInv' /\ ReceiptInv'
      BY <2>1, <3>1 DEF JobInv, ReceiptInv, QueueReceipts
    <3> QED BY <3>2, <3>3
  <2> QED BY <1>1, <2>1, <2>6, MoveDInv
<1> QED BY <1>2, <1>3, <1>4, <1>5

\* A node accepts whatever reaches it: nothing is unsettled there, and what
\* it accepted for the key is older, and a revoke only if this is one.
LEMMA DeliverDInv == ASSUME DInv, NEW o \in Operation, Deliver(o) PROVE WorkInv'
<1> DEFINE r == Request(o, intent[o])
           w == Home(KeyOf(o))
<1>1. /\ o \in inflight /\ nodeState[o] = "absent" /\ Active(o) /\ o \in written
      /\ opState[o] # "none"
      /\ inflight' = inflight \ {o}
      /\ UNCHANGED <<opState, intent, written, stage, job, receipt, lookup>>
  BY DEF Deliver, DInv, WireInv, QuietInv, Active, queueVars, dispatcher
<1>2. /\ r.id = o /\ r.key = KeyOf(o) /\ r.gen = GenOf(o) /\ r.action = intent[o].action
      /\ o \in On(w) /\ On(w) \subseteq Operation
  BY DEF Request, On, Home
<1>3. \A i \in On(w) : nodeState[i] \notin {"accepted", "mutating", "uncertain"}
  BY <1>1, OneActive DEF DInv, RowsInv, QuietInv, On, Home
<1>4. ASSUME NEW i \in Operation, binding[i] # NoRequest, binding[i].key = KeyOf(o)
      PROVE  /\ binding[i].gen < GenOf(o)
             /\ binding[i].action = "revoke" => intent[o].action = "revoke"
  <2>1. nodeState[i] # "absent" /\ i \in written /\ i # o
    BY <1>1, <1>4 DEF DInv, WireInv
  <2>2. /\ binding[i] = Request(i, intent[i]) /\ KeyOf(i) = KeyOf(o)
        /\ binding[i].gen = GenOf(i) /\ binding[i].action = intent[i].action
    BY <1>4, <2>1 DEF DInv, WireInv, Request
  <2>3. /\ GenOf(i) <= GenOf(o) /\ GenOf(i) # GenOf(o)
        /\ intent[i].action = "revoke" => intent[o].action = "revoke"
    BY <1>1, <2>1, <2>2, OperationFacts DEF DInv, OrderInv
  <2> QED BY <2>2, <2>3, OperationFacts
<1>5. Node(w)!Acceptable(r)
  <2> HIDE DEF r, w
  <2> QED BY <1>1, <1>2, <1>3, <1>4
     DEF Node!Acceptable, Node!AcceptedFor, Node!Unsettled
<1>6. /\ binding' = [binding EXCEPT ![o] = r]
      /\ nodeState' = [nodeState EXCEPT ![o] = "accepted"]
      /\ UNCHANGED refusal
  BY <1>2, <1>5 DEF Deliver, Nodes!Enter
<1>7. DispatchTypeOK' /\ NodeNeverRefuses' /\ VerdictsAreTrue'
  BY <1>1, <1>6 DEF DInv, DispatchTypeOK, NodeNeverRefuses, VerdictsAreTrue, Active, Nodes!Statuses
<1>8. JobInv' /\ ReceiptInv'
  <2>1. JobInv'
    BY <1>1 DEF DInv, JobInv
  <2>2. ReceiptInv'
    BY <1>1, <1>6 DEF DInv, ReceiptInv, DispatchTypeOK
  <2> QED BY <2>1, <2>2
<1>9. WireInv' /\ QuietInv' /\ OrderInv'
  <2>1. /\ nodeState'[o] = "accepted"
        /\ \A i \in Operation \ {o} : nodeState'[i] = nodeState[i]
    BY <1>6 DEF DInv, DispatchTypeOK
  <2>2. WireInv'
    <3>1. binding' = [i \in Operation |->
             IF nodeState'[i] = "absent" THEN NoRequest ELSE Request(i, intent'[i])]
      BY <1>1, <1>6, <2>1 DEF DInv, WireInv, Request
    <3> QED BY <1>1, <2>1, <3>1 DEF DInv, WireInv
  <2>3. QuietInv' /\ OrderInv'
    BY <1>1, <2>1 DEF DInv, QuietInv, OrderInv, Active
  <2> QED BY <2>2, <2>3
<1> QED BY <1>7, <1>8, <1>9 DEF WorkInv

\* A request that is lost never ran.
LEMMA LoseDInv == ASSUME DInv, NEW o \in Operation, Lose(o) PROVE WorkInv'
<1>1. /\ inflight' = inflight \ {o}
      /\ UNCHANGED <<opState, intent, binding, nodeState, refusal, written, stage, job,
                     receipt, lookup>>
  BY DEF Lose, queueVars, dispatcher, atNodes
<1>2. DispatchTypeOK' /\ NodeNeverRefuses' /\ VerdictsAreTrue' /\ JobInv' /\ ReceiptInv'
  BY <1>1 DEF DInv, DispatchTypeOK, NodeNeverRefuses, VerdictsAreTrue, JobInv, ReceiptInv
<1>3. WireInv' /\ QuietInv' /\ OrderInv'
  BY <1>1 DEF DInv, WireInv, QuietInv, OrderInv, Active, Request
<1> QED BY <1>2, <1>3 DEF WorkInv

\* What runs on the node is active in the queue.
LEMMA RunDInv == ASSUME DInv, NEW o \in Operation, Run(o) PROVE WorkInv'
<1>1. PICK to \in {"failed", "mutating", "observed", "uncertain"} :
        /\ nodeState[o] \in {"accepted", "mutating"}
        /\ nodeState' = [nodeState EXCEPT ![o] = to]
        /\ UNCHANGED binding
  BY DEF Run, Nodes!Fail, Nodes!StartMutation, Nodes!Observe, Nodes!LoseTrack, Nodes!Settle
<1>2. UNCHANGED <<opState, intent, inflight, refusal, written, stage, job, receipt, lookup>>
  BY DEF Run, queueVars, dispatcher, network
<1>3. /\ nodeState'[o] = to /\ \A i \in Operation \ {o} : nodeState'[i] = nodeState[i]
      /\ Active(o) /\ o \in written /\ o \notin inflight
  BY <1>1 DEF DInv, DispatchTypeOK, QuietInv, WireInv
<1>4. DispatchTypeOK' /\ NodeNeverRefuses' /\ VerdictsAreTrue'
  BY <1>1, <1>2, <1>3 DEF DInv, DispatchTypeOK, NodeNeverRefuses, VerdictsAreTrue, Active,
     Nodes!Statuses
<1>5. JobInv' /\ ReceiptInv'
  <2>1. JobInv'
    BY <1>2 DEF DInv, JobInv
  <2>2. ReceiptInv'
    <3>1. stage # "idle" => job \in Operation
      BY DEF DInv, JobInv
    <3> QED BY <1>1, <1>2, <1>3, <3>1 DEF DInv, ReceiptInv
  <2> QED BY <2>1, <2>2
<1>6. WireInv' /\ QuietInv' /\ OrderInv'
  BY <1>1, <1>2, <1>3 DEF DInv, WireInv, QuietInv, OrderInv, Active, Request
<1> QED BY <1>4, <1>5, <1>6 DEF WorkInv

-----------------------------------------------------------------------------
(* The queue and the node, seen through the dispatcher                     *)

\* Whatever the dispatcher does to the rows is a step of the queue.
LEMMA QueueStep == DInv /\ [DispatchNext]_dispatchVars => [QueueNext]_queueVars
<1> SUFFICES ASSUME DInv, [DispatchNext]_dispatchVars PROVE [QueueNext]_queueVars
  OBVIOUS
<1>1. stage \in {"finalizing", "resolving"} => job \in Operation /\ receipt \in QueueReceipts
  BY DEF DInv, JobInv
<1>2. CASE TakeNext
  BY <1>2 DEF TakeNext, QueueNext, ClaimSome
<1>3. CASE PrewriteFails \/ Write \/ Receive \/ TransportFails
  BY <1>3 DEF PrewriteFails, Write, Receive, TransportFails, GoFinalize
<1>4. CASE FinalizeCommits \/ FinalizeUnclear \/ ReconcileCommits
  BY <1>1, <1>4 DEF FinalizeCommits, FinalizeUnclear, ReconcileCommits, QueueNext
<1>5. CASE ReconcileDone \/ ReconcileLookup \/ GiveUp
  BY <1>5 DEF ReconcileDone, ReconcileLookup, GiveUp
<1>6. CASE \E o \in Operation : Deliver(o) \/ Lose(o) \/ Run(o)
  BY <1>6 DEF Deliver, Lose, Run
<1>7. CASE Elsewhere
  BY <1>7 DEF Elsewhere, QueueNext
<1>8. CASE UNCHANGED dispatchVars
  BY <1>8 DEF dispatchVars
<1> QED BY <1>2, <1>3, <1>4, <1>5, <1>6, <1>7, <1>8 DEF DispatchNext, DispatchStep

\* Every step of the whole keeps the invariant.
LEMMA NextDInv == DInv /\ [DispatchNext]_dispatchVars => DInv'
<1> SUFFICES ASSUME DInv, [DispatchNext]_dispatchVars PROVE DInv'
  OBVIOUS
<1>1. IInv'
  BY QueueStep, NextIInv DEF DInv, RowsInv
<1>2. ASSUME UNCHANGED queueVars PROVE RowInv' /\ SettledIdle'
  BY <1>2 DEF queueVars, DInv, RowsInv, RowInv, SettledIdle, Active
<1>3. WorkInv' /\ RowInv' /\ SettledIdle'
  <2>1. CASE TakeNext
    BY <2>1, TakeNextDInv
  <2>2. CASE PrewriteFails
    BY <1>2, <2>2, PrewriteFailsDInv DEF PrewriteFails, GoFinalize
  <2>3. CASE Write
    BY <1>2, <2>3, WriteDInv DEF Write
  <2>4. CASE Receive
    BY <1>2, <2>4, ReceiveDInv DEF Receive, GoFinalize
  <2>5. CASE TransportFails
    BY <1>2, <2>5, TransportFailsDInv DEF TransportFails, GoFinalize
  <2>6. CASE \/ FinalizeCommits \/ FinalizeUnclear \/ ReconcileDone
             \/ ReconcileLookup \/ ReconcileCommits \/ GiveUp
    BY <2>6, FinalizeDInv
  <2>7. ASSUME NEW o \in Operation, Deliver(o) \/ Lose(o) \/ Run(o)
        PROVE  WorkInv' /\ RowInv' /\ SettledIdle'
    BY <1>2, <2>7, DeliverDInv, LoseDInv, RunDInv DEF Deliver, Lose, Run
  <2>8. CASE Elsewhere
    <3>1. RowsInv
      BY DEF DInv
    <3>2. RowsWait /\ RowInv' /\ SettledIdle'
      BY <2>8, <3>1, AdminRows, NeighboursRows DEF Elsewhere
    <3> QED BY <2>8, <3>2, WaitingIsApart DEF Elsewhere
  <2>9. CASE UNCHANGED dispatchVars
    <3>1. UNCHANGED <<queueVars, binding, nodeState, inflight, refusal, written>>
          /\ UNCHANGED <<opState, stage, job, receipt, lookup>>
      BY <2>9 DEF dispatchVars, queueVars
    <3>2. DispatchTypeOK' /\ JobInv' /\ ReceiptInv'
      BY <3>1 DEF DInv, DispatchTypeOK, JobInv, ReceiptInv
    <3> QED BY <1>2, <3>1, <3>2, MoveDInv
  <2> QED BY <2>1, <2>2, <2>3, <2>4, <2>5, <2>6, <2>7, <2>8, <2>9
       DEF DispatchNext, DispatchStep
<1> QED BY <1>1, <1>3 DEF DInv, WorkInv, RowsInv

\* The invariant the rest follows from.
THEOREM DispatchInductiveInvariant == DispatchSpec => []DInv
<1>1. DispatchInit => DInv
  BY InitDInv
<1>2. DInv /\ [DispatchNext]_dispatchVars => DInv'
  BY NextDInv
<1> QED BY <1>1, <1>2, PTL DEF DispatchSpec

\* The dispatcher's state, the wire and the node keep their types.
THEOREM DispatchTypeCorrectness == DispatchSpec => []DispatchTypeOK
<1>1. DInv => DispatchTypeOK
  BY DEF DInv
<1> QED BY <1>1, DispatchInductiveInvariant, PTL

\* With the dispatcher and the node in place of arbitrary receipts, the queue
\* still runs as VpnControlQueue says, so all its theorems hold of it.
THEOREM DispatchImplementsQueue == DispatchSpec => QueueSpec
<1>1. DispatchInit => QueueInit
  BY DEF DispatchInit
<1>2. DInv /\ [DispatchNext]_dispatchVars => [QueueNext]_queueVars
  BY QueueStep
<1> QED BY <1>1, <1>2, DispatchInductiveInvariant, PTL DEF DispatchSpec, QueueSpec

\* What one node sees of a step that leaves all nodes alone, or moves a row of one.
LEMMA NodeSeesStep ==
  ASSUME NEW w \in Worker, DInv, [DispatchNext]_dispatchVars
  PROVE  [Node(w)!NodeNext]_(Node(w)!nodeVars)
<1>0. /\ nodeState \in [Operation -> Nodes!Statuses] /\ DOMAIN binding = Operation
      /\ On(w) \subseteq Operation
  BY DEF DInv, DispatchTypeOK, WireInv, On
<1>1. CASE UNCHANGED atNodes
  BY <1>1 DEF atNodes, Node!nodeVars
<1>2. ASSUME NEW o \in Operation, Deliver(o) PROVE [Node(w)!NodeNext]_(Node(w)!nodeVars)
  <2> DEFINE r == Request(o, intent[o])
  <2>1. CASE UNCHANGED atNodes
    BY <1>1, <2>1
  <2>2. CASE Node(Home(KeyOf(o)))!Acceptable(r) /\ Nodes!Enter(r)
    <3>1. /\ r.id = o
          /\ binding' = [binding EXCEPT ![o] = r]
          /\ nodeState' = [nodeState EXCEPT ![o] = "accepted"]
      BY <2>2 DEF Nodes!Enter, Request
    <3>2. CASE o \in On(w)
      <4>1. intent[o] \in Intents
        BY <1>2 DEF Deliver, DInv, RowsInv, IInv, IntentInv, QuietInv, Active
      <4>2. r \in {Request(p, snapshot) : p \in On(w), snapshot \in Intents}
        BY <3>2, <4>1
      <4>3. Home(KeyOf(o)) = w
        BY <3>2 DEF On, Home
      <4>4. /\ [p \in On(w) |-> binding'[p]] = [[p \in On(w) |-> binding[p]] EXCEPT ![o] = r]
            /\ [p \in On(w) |-> nodeState'[p]]
                 = [[p \in On(w) |-> nodeState[p]] EXCEPT ![o] = "accepted"]
        <5> HIDE DEF r
        <5> QED BY <1>0, <3>1, <3>2
      <4>5. Node(w)!Enter(r)
        <5> HIDE DEF r
        <5> QED BY <3>1, <4>4 DEF Node!Enter
      <4>6. Node(w)!Accept(r)
        BY <2>2, <4>3, <4>5 DEF Node!Accept
      <4> QED BY <4>2, <4>6 DEF Node!NodeNext
    <3>3. CASE o \notin On(w)
      BY <1>0, <3>1, <3>3 DEF Node!nodeVars
    <3> QED BY <3>2, <3>3
  <2> QED BY <1>2, <2>1, <2>2 DEF Deliver
<1>3. ASSUME NEW o \in Operation, Run(o) PROVE [Node(w)!NodeNext]_(Node(w)!nodeVars)
  <2>1. CASE o \in On(w)
    <3>1. ASSUME NEW from, NEW to, Nodes!Settle(o, from, to) PROVE Node(w)!Settle(o, from, to)
      <4>1. [p \in On(w) |-> nodeState'[p]]
              = [[p \in On(w) |-> nodeState[p]] EXCEPT ![o] = to]
        BY <1>0, <2>1, <3>1 DEF Nodes!Settle
      <4> QED BY <2>1, <3>1, <4>1 DEF Nodes!Settle, Node!Settle
    <3>2. Node(w)!Fail(o) \/ Node(w)!StartMutation(o) \/ Node(w)!Observe(o) \/ Node(w)!LoseTrack(o)
      BY <1>3, <3>1 DEF Run, Nodes!Fail, Nodes!StartMutation, Nodes!Observe, Nodes!LoseTrack,
         Node!Fail, Node!StartMutation, Node!Observe, Node!LoseTrack
    <3> QED BY <2>1, <3>2 DEF Node!NodeNext
  <2>2. CASE o \notin On(w)
    BY <1>0, <1>3, <2>2 DEF Run, Nodes!Fail, Nodes!StartMutation, Nodes!Observe, Nodes!LoseTrack,
       Nodes!Settle, Node!nodeVars
  <2> QED BY <2>1, <2>2
<1>4. CASE TakeNext \/ DispatchStep \/ Elsewhere \/ \E o \in Operation : Lose(o)
  <2>1. UNCHANGED atNodes
    BY <1>4 DEF TakeNext, DispatchStep, Elsewhere, Lose, PrewriteFails, Write, Receive,
       TransportFails, GoFinalize, FinalizeCommits, FinalizeUnclear, ReconcileDone,
       ReconcileLookup, ReconcileCommits, GiveUp
  <2> QED BY <1>1, <2>1
<1>5. CASE UNCHANGED dispatchVars
  BY <1>1, <1>5 DEF dispatchVars, atNodes
<1> QED BY <1>2, <1>3, <1>4, <1>5 DEF DispatchNext

\* The dispatcher drives each node only as NodeExecution allows.
THEOREM DispatchKeepsNodeContract == DispatchSpec => \A w \in Worker : Node(w)!NodeSpec
<1> SUFFICES ASSUME NEW w \in Worker PROVE DispatchSpec => Node(w)!NodeSpec
  OBVIOUS
<1>1. DispatchInit => Node(w)!NodeInit
  BY DEF DispatchInit, Nodes!NodeInit, Node!NodeInit, On
<1>2. DInv /\ [DispatchNext]_dispatchVars => [Node(w)!NodeNext]_(Node(w)!nodeVars)
  BY NodeSeesStep
<1> QED BY <1>1, <1>2, DispatchInductiveInvariant, PTL DEF DispatchSpec, Node!NodeSpec

\* The queue's verdicts are true of the node, however they came about.
THEOREM VerdictsTrueOfNode == DispatchSpec => []VerdictsAreTrue
<1>1. DInv => VerdictsAreTrue
  BY DEF DInv
<1> QED BY <1>1, DispatchInductiveInvariant, PTL

\* What a settled key reads is what its node last did for it.
THEOREM SettledKeysMatchNode == DispatchSpec => []KeysAgreeWithNode
<1>1. DInv => KeysAgreeWithNode
  <2> SUFFICES ASSUME DInv, NEW k \in Key, NEW action \in KeyActions,
                      keyStatus[k] = Settled[action]
               PROVE  /\ nodeState[Newest(k)] = "observed" /\ binding[Newest(k)].action = action
                      /\ \A o \in Operation : KeyOf(o) = k =>
                           o \notin inflight /\ nodeState[o] \notin Nodes!Unsettled
    BY DEF KeysAgreeWithNode
  <2>1. /\ generation[k] > 0 /\ opState[Newest(k)] = "succeeded"
        /\ intent[Newest(k)].action = action
    BY DEF DInv, RowsInv, IInv, SettledKeysAreConfirmed
  <2>2. Newest(k) \in Operation
    BY <2>1, NewestFacts DEF DInv, RowsInv, IInv
  <2>3. nodeState[Newest(k)] = "observed"
    BY <2>1, <2>2 DEF DInv, VerdictsAreTrue
  <2>4. binding[Newest(k)].action = action
    BY <2>1, <2>2, <2>3 DEF DInv, WireInv, Request
  <2>5. keyStatus[k] \in {"active", "suspended", "revoked"}
    BY StatusFacts
  <2>6. \A o \in Operation : KeyOf(o) = k =>
          o \notin inflight /\ nodeState[o] \notin Nodes!Unsettled
    BY <2>5 DEF DInv, RowsInv, SettledIdle, QuietInv, Nodes!Unsettled
  <2> QED BY <2>3, <2>4, <2>6
<1> QED BY <1>1, DispatchInductiveInvariant, PTL

\* A node no operation holds has nothing on its way and nothing unsettled.
THEOREM FreeNodesAreQuiet == DispatchSpec => []FreeMeansQuiet
<1>1. DInv => FreeMeansQuiet
  <2> SUFFICES ASSUME DInv, NEW w \in Worker, ~ Occupied(w), NEW o \in On(w)
               PROVE  o \notin inflight /\ nodeState[o] \notin Nodes!Unsettled
    BY DEF FreeMeansQuiet
  <2>1. o \in Operation /\ ~ Active(o)
    BY OccupiedWhileActive DEF On
  <2> QED BY <2>1 DEF DInv, QuietInv, Nodes!Unsettled
<1> QED BY <1>1, DispatchInductiveInvariant, PTL

\* Nothing the queue lets through is ever refused by the node.
THEOREM NothingIsRefused == DispatchSpec => []NodeNeverRefuses
<1>1. DInv => NodeNeverRefuses
  BY DEF DInv
<1> QED BY <1>1, DispatchInductiveInvariant, PTL

\* An operation is written to the node at most once.
THEOREM OperationsAreWrittenOnce == DispatchSpec => WrittenOnce
<1>1. DInv /\ [DispatchNext]_dispatchVars =>
        [\A o \in Operation : o \in written => o \notin inflight' \ inflight]_dispatchVars
  <2> SUFFICES ASSUME DInv, DispatchNext, NEW o \in written
               PROVE  o \notin inflight' \ inflight
    OBVIOUS
  <2>1. CASE Write
    BY <2>1 DEF Write, DInv, JobInv
  <2>2. CASE \E p \in Operation : Deliver(p) \/ Lose(p)
    BY <2>2 DEF Deliver, Lose
  <2>3. CASE ~ Write /\ ~ \E p \in Operation : Deliver(p) \/ Lose(p)
    <3>1. UNCHANGED network
      BY <2>3 DEF DispatchNext, DispatchStep, TakeNext, Elsewhere, PrewriteFails, Receive,
         TransportFails, GoFinalize, FinalizeCommits, FinalizeUnclear, ReconcileDone,
         ReconcileLookup, ReconcileCommits, GiveUp, Run
    <3> QED BY <3>1 DEF network
  <2> QED BY <2>1, <2>2, <2>3
<1> QED BY <1>1, DispatchInductiveInvariant, PTL DEF DispatchSpec, WrittenOnce
=============================================================================
