-------------------------- MODULE MCVpnControlQueue --------------------------
(* Keys of one node or of two.                                              *)
EXTENDS VpnControlQueue, TLC

CONSTANTS k1, k2, w1, w2, t1

OneNode == [k \in Key |-> w1]
TwoNodes == [k \in Key |-> IF k = k1 THEN w1 ELSE w2]

Symmetry == Permutations(Key)

\* Bounds on steps.  Calm: while the task of an attack is over or came back, nothing
\* else disturbs the nodes.  Paced: also, keys are on one set of terms, of which one is
\* issued again, or one key is on all terms while the others are not issued and no
\* attack comes back.
Calm ==
  \A w \in Worker : attack'[w] \in {"ended", "again"} =>
    /\ maintenance' = {}
    /\ \A v \in Worker : endpoint'[v] = "ready" /\ (v # w => attack'[v] = "none")
Paced ==
  /\ Calm
  /\ \/ /\ \A k \in Key : policy'[k].terms = t1
        /\ \A o \in Operation : intent'[o] # NoIntent => intent'[o].terms = t1
        /\ \E k \in Key : generation'[k] <= 2 /\ \A j \in Key \ {k} : generation'[j] <= 1
     \/ /\ \E k \in Key : \A j \in Key \ {k} : generation'[j] = 0
        /\ \A w \in Worker : attack'[w] \in {"none", "tasked"}
PacedInit == QueueInit /\ \A k \in Key : policy[k].terms = t1

\* One key is issued again, so that its row can come behind one of the other node, or
\* that one behind its own, and one node at a time is not at rest.  The rest is left
\* out because something kept does the same to the queue: draining as disabled, an
\* uncertain row as one that stays claimed, a failed or refused one as one superseded,
\* a policy of revoking as a revoke.  No action that is fair breaks these bounds.
AtRest(w) == endpoint'[w] = "ready" /\ attack'[w] = "none" /\ w \notin maintenance'
CalmNext ==
  /\ QueueNext
  /\ \E w \in Worker : endpoint'[w] # "draining" /\ \A v \in Worker \ {w} : AtRest(v)
  /\ \E k \in Key : \A j \in Key \ {k} : generation'[j] <= 1
  /\ \A k \in Key : policy'[k].action # "revoke"
  /\ \A o \in Operation : opState'[o] \notin {"uncertain", "failed", "refused"}
CalmSpec == QueueInit /\ [][CalmNext]_queueVars /\ ClaimFairness
=============================================================================
