-------------------------- MODULE MCVpnNodeExecutor --------------------------
(* One key granted on terms that run out, suspended and resumed on others, *)
(* beside a second key on the terms that run out.                          *)
EXTENDS VpnNodeExecutor

CONSTANTS i1, i2, i3, i4, k1, k2, d1, d2, d3, d4, t1, t2

Request(i, k, g, a, d) == [id |-> i, key |-> k, gen |-> g, action |-> a, digest |-> d]

Grant == Request(i1, k1, 1, "provision", d1)
Suspend == Request(i2, k1, 2, "suspend", d2)
Resume == Request(i3, k1, 3, "provision", d3)
Other == Request(i4, k2, 1, "provision", d4)

MCOperationId == {i1, i2, i3, i4}
MCKey == {k1, k2}
MCDigest == {d1, d2, d3, d4}
MCRequests == {Grant, Suspend, Resume, Other}
MCTerms == {t1, t2}
MCLimited == {t2}
MCTermsOf == [d \in MCDigest |-> IF d \in {d1, d4} THEN t2 ELSE t1]
MCCreates == {d1, d4}
=============================================================================
