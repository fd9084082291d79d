-------------------------- MODULE MCVpnNodeJournal --------------------------
(* A small node for VpnNodeJournal: two processes, two keys, and requests   *)
(* that meet each other on one key (grant, revoke, grant again) and beside  *)
(* it (a suspend of the other key, an id reused for another request).       *)
EXTENDS VpnNodeJournal, TLC

CONSTANTS i1, i2, i3, i4, k1, k2, d1, d2, d3, d4, d5

Request(i, k, g, a, d) == [id |-> i, key |-> k, gen |-> g, action |-> a, digest |-> d]

Grant == Request(i1, k1, 1, "provision", d1)
Revoke == Request(i2, k1, 2, "revoke", d2)
Regrant == Request(i3, k1, 3, "provision", d3)
Other == Request(i4, k2, 1, "suspend", d4)
Forged == Request(i1, k1, 4, "suspend", d5)

MCOperationId == {i1, i2, i3, i4}
MCKey == {k1, k2}
MCDigest == {d1, d2, d3, d4, d5}
MCRequests == {Grant, Revoke, Regrant, Other, Forged}

\* The same key without the other one, for the temporal properties.
SmallOperationId == {i1, i2, i3}
SmallRequests == {Grant, Revoke, Regrant}

Symmetry == Permutations(Proc)
=============================================================================
