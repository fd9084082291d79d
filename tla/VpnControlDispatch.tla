-------------------------- MODULE VpnControlDispatch --------------------------
(***************************************************************************)
(* The dispatcher (vpn_control_dispatcher.py, vpn_control_reconciliation.py *)
(* and vpn_node_transport.py) between the queue and the nodes: claim and   *)
(* commit, one SSH run, finalize, and reconciliation of a finalize that    *)
(* did not report success.  Messages may be lost, runs killed, commits     *)
(* ambiguous, and the control process may die at any point.  One dispatcher *)
(* serves all nodes, and each node is NodeExecution, which its own journal  *)
(* implements.                                                             *)
(***************************************************************************)
EXTENDS VpnControlQueue

CONSTANTS NoRequest, NoOperation

VARIABLES binding,   \* nodes: the request an operation was accepted with
          nodeState, \* nodes: what became of it
          inflight,  \* requests written to the SSH channel, not yet read
          refusal,   \* a node's answer to requests it did not accept
          written,   \* history: operations written to a node
          stage,     \* where the dispatcher is
          job,       \* the operation it claimed
          receipt,   \* what it will finalize with
          lookup     \* requires_node_lookup

dispatcher == <<stage, job, receipt, lookup>>
network == <<inflight, refusal, written>>
atNodes == <<binding, nodeState>>
dispatchVars == <<queueVars, binding, nodeState, inflight, refusal, written,
                  stage, job, receipt, lookup>>

\* The request a row's snapshot stands for.
Request(o, snapshot) ==
  [id |-> o, key |-> KeyOf(o), gen |-> GenOf(o), action |-> snapshot.action,
   digest |-> snapshot]

\* The rows of all nodes.
Nodes == INSTANCE NodeExecution WITH
  OperationId <- Operation,
  Requests <- {Request(o, snapshot) : o \in Operation, snapshot \in Intents},
  status <- nodeState

\* One node, with the rows that are its own.
Node(w) == INSTANCE NodeExecution WITH
  OperationId <- On(w),
  Requests <- {Request(o, snapshot) : o \in On(w), snapshot \in Intents},
  binding <- [o \in On(w) |-> binding[o]],
  status <- [o \in On(w) |-> nodeState[o]]

Receipts == QueueReceipts \cup {"none"}
NoAnswer == [o \in Operation |-> "none"]

DispatchInit ==
  /\ QueueInit
  /\ Nodes!NodeInit
  /\ inflight = {} /\ refusal = NoAnswer /\ written = {}
  /\ stage = "idle" /\ job = NoOperation /\ receipt = "none" /\ lookup = FALSE

-----------------------------------------------------------------------------
(* The dispatcher                                                          *)

Idle == stage' = "idle" /\ job' = NoOperation /\ receipt' = "none" /\ lookup' = FALSE

\* Claim and COMMIT.  When the commit is not confirmed the dispatcher stops and
\* the row stays claimed.
TakeNext ==
  /\ stage = "idle"
  /\ \E skipped \in SUBSET Tried({}) :
       \/ ClaimNothing(skipped) /\ UNCHANGED dispatcher
       \/ \E o \in Operation :
            /\ Claim(o, skipped)
            /\ \/ stage' = "claimed" /\ job' = o /\ UNCHANGED <<receipt, lookup>>
               \/ UNCHANGED dispatcher
  /\ UNCHANGED <<atNodes, network>>

GoFinalize(found, needsLookup) ==
  /\ stage' = "finalizing"
  /\ receipt' = found
  /\ lookup' = needsLookup
  /\ UNCHANGED <<queueVars, job, atNodes, network>>

\* No connection, no process, a cancellation: nothing was written.
PrewriteFails == stage = "claimed" /\ GoFinalize("failed", FALSE)

\* The request goes to the node once, from the first byte on it may run.
Write ==
  /\ stage = "claimed"
  /\ stage' = "written"
  /\ inflight' = inflight \cup {job}
  /\ written' = written \cup {job}
  /\ UNCHANGED <<queueVars, atNodes, refusal, job, receipt, lookup>>

\* What a finished run of the node answers, and what a lookup finds.
Answer(o) ==
  CASE refusal[o] # "none" -> refusal[o]
    [] refusal[o] = "none" /\ nodeState[o] \in {"observed", "failed", "uncertain"} -> nodeState[o]
    [] OTHER -> "none"

Found(o) ==
  CASE nodeState[o] = "absent" -> "none"
    [] nodeState[o] \in {"accepted", "mutating"} -> "reconciliation_required"
    [] OTHER -> nodeState[o]

\* Mutant of Receive: any answer counts as success.
ReceiveAny ==
  /\ stage = "written"
  /\ Answer(job) # "none"
  /\ GoFinalize("observed", TRUE)

Receive ==
  /\ stage = "written"
  /\ Answer(job) # "none"
  /\ GoFinalize(Answer(job), TRUE)

\* Mutant of TransportFails: a timeout counts as a failure.
TransportFailsSafely == stage = "written" /\ GoFinalize("failed", TRUE)

\* A timeout, a lost connection, a cancellation or a malformed answer.
TransportFails == stage = "written" /\ GoFinalize("uncertain", TRUE)

\* _bounded_finalize: committed and known to be ...
FinalizeCommits ==
  /\ stage = "finalizing"
  /\ Finalize(job, receipt)
  /\ Idle
  /\ UNCHANGED <<atNodes, network>>

\* ... or not known to be: whether the commit took effect or not, reconcile.
FinalizeUnclear ==
  /\ stage = "finalizing"
  /\ Finalize(job, receipt) \/ UNCHANGED queueVars
  /\ stage' = "reconciling"
  /\ UNCHANGED <<job, receipt, lookup, atNodes, network>>

\* reconcile_vpn_control_finalize: a row that has left "claimed" was committed.
ReconcileDone ==
  /\ stage = "reconciling"
  /\ opState[job] # "claimed"
  /\ Idle
  /\ UNCHANGED <<queueVars, atNodes, network>>

\* Mutant of ReconcileLookup: what the node does not know is sent again.
ReconcileBySending ==
  /\ stage = "reconciling"
  /\ opState[job] = "claimed"
  /\ stage' = IF lookup /\ Found(job) = "none" THEN "claimed" ELSE "resolving"
  /\ receipt' = IF lookup THEN Found(job) ELSE receipt
  /\ UNCHANGED <<queueVars, job, lookup, atNodes, network>>

\* Otherwise the node is asked, unless nothing was ever written to it.
ReconcileLookup ==
  /\ stage = "reconciling"
  /\ opState[job] = "claimed"
  /\ lookup => Found(job) # "none"
  /\ stage' = "resolving"
  /\ receipt' = IF lookup THEN Found(job) ELSE receipt
  /\ UNCHANGED <<queueVars, job, lookup, atNodes, network>>

ReconcileCommits ==
  /\ stage = "resolving"
  /\ Finalize(job, receipt)
  /\ Idle
  /\ UNCHANGED <<atNodes, network>>

\* The lookup or the second finalize fails, the node knows nothing, or the
\* control process dies: the row is left as it is, claimed unless finalized.
GiveUp ==
  /\ stage # "idle"
  /\ Idle
  /\ UNCHANGED <<queueVars, atNodes, network>>

-----------------------------------------------------------------------------
(* The network and the nodes                                               *)

\* The node reads a request and accepts it or answers why not.
Deliver(o) ==
  LET r == Request(o, intent[o])
      w == Home(KeyOf(o))
  IN
  /\ o \in inflight
  /\ inflight' = inflight \ {o}
  /\ \/ Node(w)!Acceptable(r) /\ Nodes!Enter(r) /\ UNCHANGED refusal
     \/ /\ ~ Node(w)!Acceptable(r)
        /\ refusal' = [refusal EXCEPT ![o] =
             CASE \E i \in On(w) : nodeState[i] \in Nodes!Unsettled -> "reconciliation_required"
               [] \E i \in Nodes!AcceptedFor(KeyOf(o)) : binding[i].gen >= GenOf(o) -> "stale"
               [] OTHER -> "key_revoked"]
        /\ UNCHANGED atNodes
  /\ UNCHANGED <<queueVars, dispatcher, written>>

\* The channel broke, or the run was killed before its first commit.
Lose(o) ==
  /\ o \in inflight
  /\ inflight' = inflight \ {o}
  /\ UNCHANGED <<queueVars, dispatcher, atNodes, refusal, written>>

Run(o) ==
  /\ \/ Nodes!Fail(o) \/ Nodes!StartMutation(o) \/ Nodes!Observe(o) \/ Nodes!LoseTrack(o)
  /\ UNCHANGED <<queueVars, dispatcher, network>>

-----------------------------------------------------------------------------

Elsewhere ==
  /\ \/ \E k \in Key : Admin(k) \/ Lifecycle(k)
     \/ Neighbours
  /\ UNCHANGED <<dispatcher, atNodes, network>>

DispatchStep ==
  \/ PrewriteFails \/ Write \/ Receive \/ TransportFails
  \/ FinalizeCommits \/ FinalizeUnclear
  \/ ReconcileDone \/ ReconcileLookup \/ ReconcileCommits \/ GiveUp

DispatchNext ==
  \/ TakeNext \/ DispatchStep
  \/ \E o \in Operation : Deliver(o) \/ Lose(o) \/ Run(o)
  \/ Elsewhere

DispatchSpec == DispatchInit /\ [][DispatchNext]_dispatchVars

-----------------------------------------------------------------------------
(* Properties                                                              *)

DispatchTypeOK ==
  /\ inflight \subseteq Operation /\ written \subseteq Operation
  /\ refusal \in [Operation -> Receipts]
  /\ nodeState \in [Operation -> Nodes!Statuses]
  /\ stage \in {"idle", "claimed", "written", "finalizing", "reconciling", "resolving"}
  /\ job \in Operation \cup {NoOperation}
  /\ receipt \in Receipts /\ lookup \in BOOLEAN

\* The queue's verdicts are true of the nodes: a succeeded operation was
\* observed there, and one that failed is not on its way and never ran.
VerdictsAreTrue ==
  \A o \in Operation :
    /\ opState[o] = "succeeded" => nodeState[o] = "observed"
    /\ opState[o] = "failed" => o \notin inflight /\ nodeState[o] \in {"absent", "failed"}

\* A key that reads active, suspended or revoked is so on its node: its newest
\* operation was the last one the node carried out for it, and no older one is
\* still on its way or unsettled there.
KeysAgreeWithNode ==
  \A k \in Key, action \in KeyActions :
    keyStatus[k] = Settled[action] =>
      /\ nodeState[Newest(k)] = "observed" /\ binding[Newest(k)].action = action
      /\ \A o \in Operation :
           KeyOf(o) = k => o \notin inflight /\ nodeState[o] \notin Nodes!Unsettled

\* A node without a claimed or uncertain operation is quiet: nothing is on its
\* way to it and nothing is unsettled on it, so attacks, maintenance and the
\* next operation may have it, whatever crashed or timed out before.
FreeMeansQuiet ==
  \A w \in Worker : ~ Occupied(w) =>
    \A o \in On(w) : o \notin inflight /\ nodeState[o] \notin Nodes!Unsettled

\* The nodes' own refusals are never needed: the queue sends nothing stale,
\* nothing after a revoke and nothing behind an unsettled operation.
NodeNeverRefuses == refusal = NoAnswer

\* Claiming, crashing, reconciling and retrying never write an operation twice.
WrittenOnce == [][\A o \in Operation : o \in written => o \notin inflight' \ inflight]_dispatchVars
=============================================================================
