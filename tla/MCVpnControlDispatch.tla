------------------------- MODULE MCVpnControlDispatch -------------------------
(* Two keys that share a node, and a third one with a node of its own.       *)
EXTENDS VpnControlDispatch, TLC

CONSTANTS k1, k2, k3, w1, w2

TwoNodes == [k \in Key |-> IF k = k3 THEN w2 ELSE w1]
Symmetry == Permutations({k1, k2})

\* The bound on steps: all generations of one key of the shared node, which may be
\* attacked or disabled (either bars no less than maintenance and draining do), an
\* attack that comes back meeting at most two of them; or one generation of both its
\* keys, or of a key on either node, on nodes left alone and, for the latter, without
\* a change of policy.
Undisturbed(w) == endpoint'[w] = "ready" /\ attack'[w] = "none" /\ w \notin maintenance'
Single(k) == \A j \in Key \ {k} : generation'[j] = 0
Pair(j, k) == \A i \in Key : generation'[i] <= IF i \in {j, k} THEN 1 ELSE 0
Paced ==
  /\ Undisturbed(w2)
  /\ \/ /\ \E k \in {k1, k2} : Single(k)
        /\ endpoint'[w1] # "draining" /\ maintenance' = {}
        /\ attack'[w1] = "none" \/ endpoint'[w1] = "ready"
        /\ attack'[w1] \in {"ended", "again"} => \A k \in Key : generation'[k] <= 2
     \/ Pair(k1, k2) /\ Undisturbed(w1)
     \/ /\ \E k \in {k1, k2} : Pair(k, k3)
        /\ Undisturbed(w1) /\ UNCHANGED policy
=============================================================================
