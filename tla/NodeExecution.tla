---------------------------- MODULE NodeExecution ----------------------------
(***************************************************************************)
(* What a VPN node promises the control server about the operations it is   *)
(* sent, with no gate, no process and no database: every operation is       *)
(* accepted at most once, one at a time, and is settled for good.  An       *)
(* operation whose effect cannot be told stops the node.                    *)
(* VpnNodeJournal implements this module; VpnControlDispatch uses it.       *)
(***************************************************************************)
EXTENDS Naturals

CONSTANTS OperationId,  \* operation UUIDs
          Requests,     \* [id, key, gen, action, digest] records
          NoRequest

VARIABLES binding,      \* the request an operation id was accepted with
          status        \* what became of it

nodeVars == <<binding, status>>

Statuses == {"absent", "accepted", "mutating", "observed", "failed", "uncertain"}
Unsettled == {"accepted", "mutating", "uncertain"}

NodeInit ==
  /\ binding = [i \in OperationId |-> NoRequest]
  /\ status = [i \in OperationId |-> "absent"]

\* The accepted requests of a key.
AcceptedFor(k) == {i \in OperationId : binding[i] # NoRequest /\ binding[i].key = k}

\* A request may run only on a settled node, above every generation of its
\* key, and never as a provision of a key that was once told to be revoked.
Acceptable(r) ==
  /\ status[r.id] = "absent"
  /\ \A i \in OperationId : status[i] \notin Unsettled
  /\ \A i \in AcceptedFor(r.key) : binding[i].gen < r.gen
  /\ r.action = "provision" =>
       \A i \in AcceptedFor(r.key) : binding[i].action # "revoke"

Enter(r) ==
  /\ binding' = [binding EXCEPT ![r.id] = r]
  /\ status' = [status EXCEPT ![r.id] = "accepted"]

Accept(r) == Acceptable(r) /\ Enter(r)

Settle(i, from, to) ==
  /\ status[i] \in from
  /\ status' = [status EXCEPT ![i] = to]
  /\ UNCHANGED binding

Fail(i) == Settle(i, {"accepted"}, "failed")
StartMutation(i) == Settle(i, {"accepted"}, "mutating")
Observe(i) == Settle(i, {"accepted", "mutating"}, "observed")
LoseTrack(i) == Settle(i, {"mutating"}, "uncertain")

NodeNext ==
  \/ \E r \in Requests : Accept(r)
  \/ \E i \in OperationId : Fail(i) \/ StartMutation(i) \/ Observe(i) \/ LoseTrack(i)

NodeSpec == NodeInit /\ [][NodeNext]_nodeVars
=============================================================================
