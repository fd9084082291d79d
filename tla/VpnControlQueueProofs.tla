------------------------ MODULE VpnControlQueueProofs ------------------------
(***************************************************************************)
(* Proofs about VpnControlQueue for any keys, nodes, terms and generation  *)
(* limit, whatever receipts arrive.                                        *)
(***************************************************************************)
EXTENDS VpnControlQueue, TLAPS

-----------------------------------------------------------------------------
(* The inductive invariant: what the runs check, and what ties it together *)

\* A key exists once its first operation was staged.
IssuedInv ==
  \A k \in Key : keyStatus[k] = "unissued" <=> generation[k] = 0

\* Asking for a revoke stamps the key, and no stamp ever takes it back.
AskedInv ==
  \A k \in revokeAsked : keyStatus[k] \in {"pending_revoke", "revoked"}

\* Every row that was staged has a snapshot.
IntentInv ==
  \A o \in Operation : opState[o] # "none" => intent[o] \in Intents

IInv ==
  /\ QueueTypeOK /\ IssuedInv /\ AskedInv /\ IntentInv
  /\ OneAtATime /\ NeverShared /\ OnlyNewestWaits /\ SettledKeysAreConfirmed

-----------------------------------------------------------------------------

\* An operation is a key with one of its generations.
LEMMA OperationFacts ==
  /\ \A o \in Operation : /\ KeyOf(o) \in Key /\ GenOf(o) \in Generation
                          /\ GenOf(o) \in Nat /\ o = <<KeyOf(o), GenOf(o)>>
  /\ \A k \in Key, g \in Generation :
       <<k, g>> \in Operation /\ KeyOf(<<k, g>>) = k /\ GenOf(<<k, g>>) = g
  /\ \A o, p \in Operation : KeyOf(o) = KeyOf(p) /\ GenOf(o) = GenOf(p) => o = p
  BY QueueAssumption DEF Operation, KeyOf, GenOf, Generation

\* A key that was issued has a newest operation.
LEMMA NewestFacts ==
  ASSUME QueueTypeOK, NEW k \in Key, generation[k] > 0
  PROVE  /\ Newest(k) \in Operation /\ KeyOf(Newest(k)) = k
         /\ GenOf(Newest(k)) = generation[k]
  BY QueueAssumption, OperationFacts DEF QueueTypeOK, Newest, Generation

\* The statuses an action leads through.
LEMMA StatusFacts ==
  \A a \in KeyActions :
    /\ Pending[a] \in {"pending_sync", "pending_suspend", "pending_revoke"}
    /\ Settled[a] \in {"active", "suspended", "revoked"}
    /\ Pending[a] = "pending_revoke" <=> a = "revoke"
    /\ Settled[a] = "revoked" <=> a = "revoke"
  BY DEF KeyActions, Pending, Settled

\* Nothing was issued yet.
LEMMA InitIInv == QueueInit => IInv
  BY QueueAssumption
     DEF QueueInit, IInv, QueueTypeOK, IssuedInv, AskedInv, IntentInv, OneAtATime,
         NeverShared, OnlyNewestWaits, SettledKeysAreConfirmed, InUse, On, OpStates,
         KeyStatuses, Settled, Policies, KeyActions

\* A stamp is a pending status, or keeps a key that is being or was revoked.
LEMMA StampIInv ==
  ASSUME IInv, NEW k \in Key,
         UNCHANGED <<generation, revokeAsked, hasUri, opState, intent, endpoint, attack, maintenance>>,
         policy' \in [Key -> Policies], \A j \in Key \ {k} : policy'[j] = policy[j],
         keyStatus' \in [Key -> KeyStatuses],
         \A j \in Key \ {k} : keyStatus'[j] = keyStatus[j],
         keyStatus[k] # "unissued",
         \/ keyStatus'[k] = "pending_revoke"
         \/ keyStatus'[k] = keyStatus[k] /\ keyStatus[k] = "revoked"
         \/ /\ keyStatus[k] \notin {"pending_revoke", "revoked"}
            /\ keyStatus'[k] \in {"pending_sync", "pending_suspend"}
  PROVE  IInv'
<1>1. QueueTypeOK' /\ IssuedInv' /\ AskedInv' /\ IntentInv'
  BY DEF IInv, QueueTypeOK, IssuedInv, AskedInv, IntentInv
<1>2. OneAtATime' /\ NeverShared' /\ OnlyNewestWaits'
  BY DEF IInv, OneAtATime, NeverShared, OnlyNewestWaits, InUse, On
<1>3. SettledKeysAreConfirmed'
  BY StatusFacts DEF IInv, QueueTypeOK, SettledKeysAreConfirmed, Newest
<1> QED BY <1>1, <1>2, <1>3 DEF IInv

\* An edit of a subscription stamps a key that no revoke holds.
LEMMA UpdateSubscriptionIInv ==
  ASSUME IInv, NEW k \in Key, NEW new \in Policies, UpdateSubscription(k, new)
  PROVE  IInv'
<1> DEFINE status == IF keyStatus[k] \in {"pending_revoke", "revoked"}
                     THEN keyStatus[k] ELSE Pending[new.action]
<1>1. /\ UNCHANGED <<generation, revokeAsked, hasUri, opState, intent, endpoint, attack, maintenance>>
      /\ policy' = [policy EXCEPT ![k] = new]
      /\ keyStatus' = [keyStatus EXCEPT ![k] = status]
      /\ keyStatus[k] # "unissued"
  BY DEF UpdateSubscription, Stamp, ops, nodes
<1>2. /\ policy' \in [Key -> Policies]
      /\ \A j \in Key \ {k} : policy'[j] = policy[j] /\ keyStatus'[j] = keyStatus[j]
  BY <1>1 DEF IInv, QueueTypeOK
<1>3. Pending[new.action] \in {"pending_sync", "pending_suspend", "pending_revoke"}
  BY StatusFacts DEF Policies
<1>4. keyStatus' \in [Key -> KeyStatuses]
  BY <1>1, <1>3 DEF IInv, QueueTypeOK, KeyStatuses
<1>5. keyStatus'[k] = status
  BY <1>1 DEF IInv, QueueTypeOK
<1> QED BY <1>1, <1>2, <1>3, <1>4, <1>5, StampIInv

\* What the clock asks changes no status and no terms.
LEMMA DriftIInv ==
  ASSUME IInv, NEW k \in Key, NEW action \in KeyActions, Drift(k, action)
  PROVE  IInv'
<1>1. /\ UNCHANGED <<keyStatus, generation, revokeAsked, hasUri, opState, intent>>
      /\ UNCHANGED <<endpoint, attack, maintenance>>
      /\ policy' = [policy EXCEPT ![k] = [policy[k] EXCEPT !.action = action]]
  BY DEF Drift, ops, nodes
<1>2. policy' \in [Key -> Policies]
  BY <1>1 DEF IInv, QueueTypeOK, Policies
<1>3. \A j \in Key : policy'[j].terms = policy[j].terms
  BY <1>1 DEF IInv, QueueTypeOK, Policies
<1>4. QueueTypeOK' /\ IssuedInv' /\ AskedInv' /\ IntentInv'
  BY <1>1, <1>2 DEF IInv, QueueTypeOK, IssuedInv, AskedInv, IntentInv
<1>5. OneAtATime' /\ NeverShared' /\ OnlyNewestWaits'
  BY <1>1 DEF IInv, OneAtATime, NeverShared, OnlyNewestWaits, InUse, On
<1>6. SettledKeysAreConfirmed'
  BY <1>1, <1>3 DEF IInv, SettledKeysAreConfirmed, Newest
<1> QED BY <1>4, <1>5, <1>6 DEF IInv

\* Asking for a revoke only stamps the key.
LEMMA AskRevokeIInv ==
  ASSUME IInv, NEW k \in Key, AskRevoke(k)
  PROVE  IInv'
<1>1. /\ UNCHANGED <<generation, revokeAsked, hasUri, opState, intent, endpoint, attack, maintenance>>
      /\ keyStatus' = [keyStatus EXCEPT ![k] = "pending_revoke"]
      /\ keyStatus[k] # "unissued"
  BY DEF AskRevoke, Stamp, ops, nodes
<1>2. policy' \in [Key -> Policies] /\ \A j \in Key \ {k} : policy'[j] = policy[j]
  BY DEF AskRevoke, IInv, QueueTypeOK
<1>3. /\ keyStatus' \in [Key -> KeyStatuses] /\ keyStatus'[k] = "pending_revoke"
      /\ \A j \in Key \ {k} : keyStatus'[j] = keyStatus[j]
  BY <1>1 DEF IInv, QueueTypeOK, KeyStatuses
<1> QED BY <1>1, <1>2, <1>3, StampIInv

\* So does archiving its customer, whose policy then asks for it too.
LEMMA ArchiveIInv ==
  ASSUME IInv, NEW k \in Key, Archive(k)
  PROVE  IInv'
<1>1. /\ UNCHANGED <<generation, revokeAsked, hasUri, opState, intent, endpoint, attack, maintenance>>
      /\ keyStatus' = [keyStatus EXCEPT ![k] = "pending_revoke"]
      /\ keyStatus[k] # "unissued"
  BY DEF Archive, Stamp, ops, nodes
<1>2. policy' \in [Key -> Policies] /\ \A j \in Key \ {k} : policy'[j] = policy[j]
  BY DEF Archive, IInv, QueueTypeOK, Policies, KeyActions
<1>3. /\ keyStatus' \in [Key -> KeyStatuses] /\ keyStatus'[k] = "pending_revoke"
      /\ \A j \in Key \ {k} : keyStatus'[j] = keyStatus[j]
  BY <1>1 DEF IInv, QueueTypeOK, KeyStatuses
<1> QED BY <1>1, <1>2, <1>3, StampIInv

\* Reservations and endpoints touch no row; NeverShared is what they could break.
LEMMA NeighboursIInv == ASSUME IInv, Neighbours PROVE IInv'
<1>1. /\ UNCHANGED <<policy, keyStatus, generation, revokeAsked, hasUri, opState, intent>>
      /\ endpoint' \in [Worker -> {"ready", "draining", "disabled"}]
      /\ attack' \in [Worker -> {"none", "tasked", "ended", "again"}]
      /\ maintenance' \subseteq Worker
      /\ \A w \in Worker :
           /\ attack'[w] = "tasked" => attack[w] = "tasked" \/ ~ InUse(w)
           /\ w \in maintenance' => w \in maintenance \/ ~ InUse(w)
  BY DEF Neighbours, PlanAttack, TaskEnds, AttackReturns, Maintain, Release, AttackOver,
         MaintenanceOver, SetEndpoint, keys, ops, IInv, QueueTypeOK
<1>2. QueueTypeOK' /\ IssuedInv' /\ AskedInv' /\ IntentInv' /\ OneAtATime' /\ OnlyNewestWaits'
  BY <1>1 DEF IInv, QueueTypeOK, IssuedInv, AskedInv, IntentInv, OneAtATime, OnlyNewestWaits
<1>3. NeverShared'
  BY <1>1 DEF IInv, NeverShared, InUse
<1>4. SettledKeysAreConfirmed'
  BY <1>1 DEF IInv, SettledKeysAreConfirmed, Newest
<1> QED BY <1>2, <1>3, <1>4 DEF IInv

\* Staging queues the key's next generation and supersedes the queued one; its
\* node is not reserved, and the key is pending again.
LEMMA StageIInv ==
  ASSUME IInv, NEW k \in Key, NEW action \in KeyActions, NEW retry \in BOOLEAN,
         Stage(k, action, retry)
  PROVE  IInv'
<1> DEFINE g == generation[k] + 1
<1>0. /\ g \in Nat /\ g \in Generation
      /\ generation[k] \in Nat /\ generation[k] < MaxGeneration
  <2>1. generation[k] \in 0 .. MaxGeneration /\ generation[k] < MaxGeneration
    BY DEF Stage, IInv, QueueTypeOK
  <2> QED BY <2>1, QueueAssumption DEF Generation
<1>1. /\ g \in Generation /\ g \in Nat /\ <<k, g>> \in Operation
      /\ KeyOf(<<k, g>>) = k /\ GenOf(<<k, g>>) = g
      /\ attack[WorkerOf[k]] # "tasked" /\ WorkerOf[k] \notin maintenance
      /\ WorkerOf[k] \in Worker
  BY <1>0, QueueAssumption, OperationFacts DEF Stage, Home, Reserved, Attacked
<1>2. /\ generation' = [generation EXCEPT ![k] = g]
      /\ keyStatus' = [keyStatus EXCEPT ![k] = Pending[action]]
      /\ revokeAsked' = IF action = "revoke" THEN revokeAsked \cup {k} ELSE revokeAsked
      /\ intent' = [intent EXCEPT ![<<k, g>>] = IntentOf(k, action)]
      /\ UNCHANGED <<policy, hasUri, endpoint, attack, maintenance>>
  BY DEF Stage, Queued, nodes
<1>3. /\ opState' \in [Operation -> OpStates]
      /\ opState'[<<k, g>>] = "queued"
      /\ \A o \in Operation : o # <<k, g>> =>
           /\ opState[o] = "queued" /\ KeyOf(o) = k => opState'[o] = "superseded"
           /\ opState[o] # "queued" \/ KeyOf(o) # k => opState'[o] = opState[o]
  <2>1. opState' = [o \in Operation |->
          CASE o = <<k, g>> -> "queued"
            [] KeyOf(o) = k /\ GenOf(o) < g /\ opState[o] = "queued" -> "superseded"
            [] OTHER -> opState[o]]
    BY DEF Stage, Queued
  <2>2. \A o \in Operation : opState[o] = "queued" /\ KeyOf(o) = k => GenOf(o) < g
    BY <1>1, OperationFacts DEF IInv, OnlyNewestWaits, QueueTypeOK
  <2> QED BY <1>1, <2>1, <2>2 DEF IInv, QueueTypeOK, OpStates, Finished
<1>4. IntentOf(k, action) \in Intents
  BY DEF IntentOf, Intents, Policies, IInv, QueueTypeOK, Creates
<1>5. QueueTypeOK'
  <2>1. Pending[action] \in KeyStatuses
    BY StatusFacts DEF KeyStatuses
  <2>2. g \in 0 .. MaxGeneration
    BY <1>0, QueueAssumption
  <2> QED BY <1>1, <1>2, <1>3, <1>4, <2>1, <2>2 DEF IInv, QueueTypeOK
<1>6. IssuedInv' /\ AskedInv' /\ IntentInv'
  <2>1. action # "revoke" => k \notin revokeAsked
    BY DEF Stage, Desired, Sticky
  <2> QED BY <1>1, <1>2, <1>3, <1>4, <2>1
     DEF IInv, QueueTypeOK, IssuedInv, AskedInv, IntentInv, Pending, KeyActions
<1>7. OneAtATime'
  BY <1>2, <1>3 DEF IInv, OneAtATime
<1>8. NeverShared'
  BY <1>1, <1>2, <1>3, OperationFacts DEF IInv, NeverShared, InUse, On
<1>9. OnlyNewestWaits'
  BY <1>1, <1>2, <1>3, OperationFacts DEF IInv, QueueTypeOK, OnlyNewestWaits
<1>10. SettledKeysAreConfirmed'
  <2> SUFFICES ASSUME NEW j \in Key, NEW a \in KeyActions, keyStatus'[j] = Settled[a]
               PROVE  /\ generation'[j] > 0
                      /\ opState'[<<j, generation'[j]>>] = "succeeded"
                      /\ intent'[<<j, generation'[j]>>].action = a
                      /\ a # "revoke" => intent'[<<j, generation'[j]>>].terms = policy'[j].terms
    BY DEF SettledKeysAreConfirmed, Newest
  <2>1. j # k
    BY <1>2, StatusFacts DEF IInv, QueueTypeOK
  <2>2. keyStatus[j] = Settled[a] /\ generation'[j] = generation[j] /\ policy'[j] = policy[j]
    BY <1>2, <2>1 DEF IInv, QueueTypeOK
  <2>3. /\ generation[j] > 0 /\ opState[<<j, generation[j]>>] = "succeeded"
        /\ intent[<<j, generation[j]>>].action = a
        /\ a # "revoke" => intent[<<j, generation[j]>>].terms = policy[j].terms
    BY <2>2 DEF IInv, SettledKeysAreConfirmed, Newest
  <2>4. <<j, generation[j]>> \in Operation /\ <<j, generation[j]>> # <<k, g>>
    BY <2>1, <2>3, NewestFacts DEF IInv, Newest
  <2> QED BY <1>2, <1>3, <2>2, <2>3, <2>4 DEF IInv, QueueTypeOK
<1> QED BY <1>5, <1>6, <1>7, <1>8, <1>9, <1>10 DEF IInv

\* The rows that pass a claim's second look.
Free == {o \in Operation : opState[o] = "queued" /\ ~ Occupied(Home(KeyOf(o)))}

LEMMA TriedAreFree ==
  ASSUME NEW skipped
  PROVE  Tried(skipped) \in SUBSET Free
BY DEF Tried, Candidates, Free

\* What a claim does to the rows: queued ones of free nodes are superseded, and
\* at most one of them is claimed.
LEMMA ClaimStepIInv ==
  ASSUME IInv, NEW passed \in SUBSET Free, UNCHANGED <<keys, intent, nodes>>,
         opState' \in [Operation -> OpStates],
         NEW chosen \in SUBSET Free, \A o, p \in chosen : o = p,
         \A o \in Operation :
           /\ o \in chosen => opState'[o] = "claimed"
           /\ o \in passed \ chosen => opState'[o] = "superseded"
           /\ o \notin passed \cup chosen => opState'[o] = opState[o]
  PROVE  IInv'
<1>1. UNCHANGED <<policy, keyStatus, generation, revokeAsked, hasUri, intent, endpoint, attack, maintenance>>
  BY DEF keys, nodes
<1>2. \A o \in passed \cup chosen :
         o \in Operation /\ opState[o] = "queued" /\ ~ Occupied(Home(KeyOf(o)))
  BY DEF Free
<1>3. QueueTypeOK' /\ IssuedInv' /\ AskedInv'
  BY <1>1 DEF IInv, QueueTypeOK, IssuedInv, AskedInv
<1>4. IntentInv' /\ OnlyNewestWaits'
  BY <1>1, <1>2 DEF IInv, IntentInv, OnlyNewestWaits
<1>5. OneAtATime'
  BY <1>2, OperationFacts DEF IInv, OneAtATime, Occupied, On, Home
<1>6. NeverShared'
  BY <1>1, <1>2 DEF IInv, NeverShared, InUse, On
<1>7. SettledKeysAreConfirmed'
  BY <1>1, <1>2, NewestFacts DEF IInv, SettledKeysAreConfirmed, Newest
<1> QED BY <1>3, <1>4, <1>5, <1>6, <1>7 DEF IInv

\* The claimed row is the only one chosen.
LEMMA ClaimIInv ==
  ASSUME IInv, NEW skipped, NEW o \in Operation, Claim(o, skipped)
  PROVE  IInv'
<1> DEFINE passed == {c \in Tried(skipped) : GenOf(c) <= GenOf(o)} \ {o}
<1>1. passed \in SUBSET Free /\ {o} \in SUBSET Free /\ o \notin passed
  BY TriedAreFree DEF Claim
<1>2. opState' = [Outdated(passed) EXCEPT ![o] = "claimed"] /\ UNCHANGED <<keys, intent, nodes>>
  BY DEF Claim
<1>3. opState' \in [Operation -> OpStates]
  BY <1>2 DEF Outdated, IInv, QueueTypeOK, OpStates, Finished
<1>4. \A p \in Operation :
        /\ p \in {o} => opState'[p] = "claimed"
        /\ p \in passed \ {o} => opState'[p] = "superseded"
        /\ p \notin passed \cup {o} => opState'[p] = opState[p]
  BY <1>2 DEF Outdated, IInv, QueueTypeOK
<1>5. \A p, q \in {o} : p = q
  OBVIOUS
<1>6. \A chosen \in SUBSET Free :
        /\ \A p, q \in chosen : p = q
        /\ \A p \in Operation :
             /\ p \in chosen => opState'[p] = "claimed"
             /\ p \in passed \ chosen => opState'[p] = "superseded"
             /\ p \notin passed \cup chosen => opState'[p] = opState[p]
        => IInv'
  <2> HIDE DEF passed
  <2> QED BY <1>1, <1>2, <1>3, ClaimStepIInv
<1> HIDE DEF passed
<1> QED BY <1>1, <1>4, <1>5, <1>6

\* A claim may find only outdated rows.
LEMMA ClaimNothingIInv ==
  ASSUME IInv, NEW skipped, ClaimNothing(skipped)
  PROVE  IInv'
<1>1. Tried(skipped) \in SUBSET Free /\ {} \in SUBSET Free
  BY TriedAreFree
<1>2. opState' = Outdated(Tried(skipped)) /\ UNCHANGED <<keys, intent, nodes>>
  BY DEF ClaimNothing
<1>3. opState' \in [Operation -> OpStates]
  BY <1>2 DEF Outdated, IInv, QueueTypeOK, OpStates, Finished
<1>4. \A p \in Operation :
        /\ p \in {} => opState'[p] = "claimed"
        /\ p \in Tried(skipped) \ {} => opState'[p] = "superseded"
        /\ p \notin Tried(skipped) \cup {} => opState'[p] = opState[p]
  BY <1>2 DEF Outdated, IInv, QueueTypeOK
<1> QED BY <1>1, <1>2, <1>3, <1>4, ClaimStepIInv

\* A receipt settles a key only if its row still matches; otherwise it only
\* closes the row.
LEMMA FinalizeIInv ==
  ASSUME IInv, NEW o \in Operation, NEW receipt \in QueueReceipts, Finalize(o, receipt)
  PROVE  IInv'
<1> DEFINE k == KeyOf(o)
           result == Outcome(o, receipt)
<1>1. /\ UNCHANGED <<policy, generation, revokeAsked, intent, endpoint, attack, maintenance>>
      /\ opState[o] = "claimed" /\ opState' = [opState EXCEPT ![o] = result]
      /\ keyStatus' = [keyStatus EXCEPT
           ![k] = IF result = "succeeded" THEN Settled[intent[o].action] ELSE @]
      /\ hasUri' = IF result = "succeeded" /\ intent[o].action = "provision"
                   THEN hasUri \cup {k} ELSE hasUri
  BY DEF Finalize, nodes
<1>2. result \in {"succeeded", "failed", "refused", "superseded", "uncertain"}
  BY DEF Outcome, Result, QueueReceipts
<1>3. result = "succeeded" => Matches(o)
  BY DEF Outcome, Result, QueueReceipts
<1>4. k \in Key /\ o = <<k, GenOf(o)>> /\ GenOf(o) \in Nat /\ GenOf(o) > 0
  BY QueueAssumption, OperationFacts DEF Generation
<1>5. intent[o] \in Intents
  BY <1>1 DEF IInv, IntentInv
<1>6. intent[o].action \in KeyActions
  BY <1>5 DEF Intents
<1>7. Settled[intent[o].action] \in {"active", "suspended", "revoked"}
  BY <1>6, StatusFacts
<1>8. result = "succeeded" =>
        /\ GenOf(o) = generation[k] /\ intent[o].action = Desired(k)
        /\ intent[o].terms = policy[k].terms
  BY <1>3 DEF Matches, IntentOf
<1> HIDE DEF result
<1>9. QueueTypeOK' /\ IntentInv'
  BY <1>1, <1>2, <1>4, <1>7 DEF IInv, QueueTypeOK, IntentInv, OpStates, Finished, KeyStatuses
<1>10. IssuedInv'
  BY <1>1, <1>4, <1>7, <1>8 DEF IInv, QueueTypeOK, IssuedInv
<1>11. AskedInv'
  <2>1. k \in revokeAsked /\ result = "succeeded" => Settled[intent[o].action] = "revoked"
    BY <1>8 DEF Desired, Sticky, Settled
  <2> QED BY <1>1, <1>4, <2>1 DEF IInv, QueueTypeOK, AskedInv
<1>12. OneAtATime' /\ NeverShared' /\ OnlyNewestWaits'
  BY <1>1, <1>2 DEF IInv, QueueTypeOK, OneAtATime, NeverShared, OnlyNewestWaits, InUse, On
<1>13. SettledKeysAreConfirmed'
  <2> SUFFICES ASSUME NEW j \in Key, NEW a \in KeyActions, keyStatus'[j] = Settled[a]
               PROVE  /\ generation[j] > 0
                      /\ opState'[<<j, generation[j]>>] = "succeeded"
                      /\ intent[<<j, generation[j]>>].action = a
                      /\ a # "revoke" => intent[<<j, generation[j]>>].terms = policy[j].terms
    BY <1>1 DEF SettledKeysAreConfirmed, Newest
  <2>1. CASE j = k /\ result = "succeeded"
    <3>1. Settled[intent[o].action] = Settled[a]
      BY <1>1, <1>4, <2>1 DEF IInv, QueueTypeOK
    <3>2. intent[o].action = a
      BY <1>6, <3>1 DEF Settled, KeyActions
    <3> QED BY <1>1, <1>4, <1>8, <2>1, <3>2 DEF IInv, QueueTypeOK
  <2>2. CASE ~ (j = k /\ result = "succeeded")
    <3>1. keyStatus[j] = Settled[a]
      BY <1>1, <1>4, <2>2 DEF IInv, QueueTypeOK
    <3>2. /\ generation[j] > 0
          /\ opState[<<j, generation[j]>>] = "succeeded"
          /\ intent[<<j, generation[j]>>].action = a
          /\ a # "revoke" => intent[<<j, generation[j]>>].terms = policy[j].terms
      BY <3>1 DEF IInv, SettledKeysAreConfirmed, Newest
    <3> QED BY <1>1, <3>2 DEF IInv, QueueTypeOK
  <2> QED BY <2>1, <2>2
<1> QED BY <1>9, <1>10, <1>11, <1>12, <1>13 DEF IInv

-----------------------------------------------------------------------------
(* The invariant holds always                                              *)

\* Every step of the queue keeps the invariant.
LEMMA NextIInv == IInv /\ [QueueNext]_queueVars => IInv'
<1> SUFFICES ASSUME IInv, [QueueNext]_queueVars PROVE IInv'
  OBVIOUS
<1>1. ASSUME NEW k \in Key, Admin(k) \/ Lifecycle(k) PROVE IInv'
  <2>1. CASE Issue(k)
    BY <2>1, StageIInv DEF Issue, KeyActions
  <2>2. CASE RetryProvision(k)
    BY <2>2, StageIInv DEF RetryProvision, KeyActions
  <2>3. CASE DisableInvitation(k)
    BY <2>3, StageIInv DEF DisableInvitation, KeyActions
  <2>4. CASE Lifecycle(k)
    <3>1. PICK action \in KeyActions : Stage(k, action, FALSE)
      <4>1. policy[k].action \in KeyActions /\ "revoke" \in KeyActions
        BY DEF IInv, QueueTypeOK, Policies, KeyActions
      <4> QED BY <2>4, <4>1 DEF Lifecycle
    <3> QED BY <3>1, StageIInv
  <2>5. CASE \E new \in Policies : UpdateSubscription(k, new)
    BY <2>5, UpdateSubscriptionIInv
  <2>6. CASE \E action \in KeyActions : Drift(k, action)
    BY <2>6, DriftIInv
  <2>7. CASE AskRevoke(k)
    BY <2>7, AskRevokeIInv
  <2>8. CASE Archive(k)
    BY <2>8, ArchiveIInv
  <2> QED BY <1>1, <2>1, <2>2, <2>3, <2>4, <2>5, <2>6, <2>7, <2>8 DEF Admin
<1>2. CASE ClaimSome
  BY <1>2, ClaimIInv, ClaimNothingIInv DEF ClaimSome
<1>3. CASE \E o \in Operation, receipt \in QueueReceipts : Finalize(o, receipt)
  BY <1>3, FinalizeIInv
<1>4. CASE Neighbours
  BY <1>4, NeighboursIInv
<1>5. CASE UNCHANGED queueVars
  BY <1>5 DEF queueVars, IInv, QueueTypeOK, IssuedInv, AskedInv, IntentInv, OneAtATime,
     NeverShared, OnlyNewestWaits, SettledKeysAreConfirmed, InUse, On, Newest
<1> QED BY <1>1, <1>2, <1>3, <1>4, <1>5 DEF QueueNext

\* The invariant the others follow from.
THEOREM QueueInductiveInvariant == QueueSpec => []IInv
<1>1. QueueInit => IInv
  BY InitIInv
<1>2. IInv /\ [QueueNext]_queueVars => IInv'
  BY NextIInv
<1> QED BY <1>1, <1>2, PTL DEF QueueSpec

\* The rows of the queue keep their types.
THEOREM QueueTypeCorrectness == QueueSpec => []QueueTypeOK
<1>1. IInv => QueueTypeOK
  BY DEF IInv
<1> QED BY <1>1, QueueInductiveInvariant, PTL

\* No node ever has two operations claimed or of unknown result, for any
\* number of keys and nodes.
THEOREM NodesServeOneAtATime == QueueSpec => []OneAtATime
<1>1. IInv => OneAtATime
  BY DEF IInv
<1> QED BY <1>1, QueueInductiveInvariant, PTL

\* A node is never with a planned attack or maintenance and with the queue at once.
THEOREM NodesAreNeverShared == QueueSpec => []NeverShared
<1>1. IInv => NeverShared
  BY DEF IInv
<1> QED BY <1>1, QueueInductiveInvariant, PTL

\* A waiting row is its key's newest.
THEOREM StaleRowsNeverWait == QueueSpec => []OnlyNewestWaits
<1>1. IInv => OnlyNewestWaits
  BY DEF IInv
<1> QED BY <1>1, QueueInductiveInvariant, PTL

\* A settled status was observed for the newest operation and current terms.
THEOREM SettledMeansConfirmed == QueueSpec => []SettledKeysAreConfirmed
<1>1. IInv => SettledKeysAreConfirmed
  BY DEF IInv
<1> QED BY <1>1, QueueInductiveInvariant, PTL

-----------------------------------------------------------------------------
(* A revoke sticks                                                         *)

RevokeSticksStep ==
  \A k \in Key : Sticky(k) =>
    /\ Sticky(k)' /\ keyStatus[k]' \in {"pending_revoke", "revoked"}
    /\ \A o \in Operation :
         KeyOf(o) = k /\ opState[o] # opState'[o] /\ opState'[o] \in {"queued", "claimed"}
         => intent'[o].action = "revoke"

\* A key that a revoke holds already has the status of one.
LEMMA StickyStatus ==
  ASSUME IInv, NEW k \in Key, Sticky(k)
  PROVE  keyStatus[k] \in {"pending_revoke", "revoked"}
  BY DEF IInv, AskedInv, Sticky

\* A step that leaves a key and the rows alone leaves its revoke alone.
LEMMA UntouchedSticks ==
  ASSUME IInv, IInv', UNCHANGED <<revokeAsked, opState, intent>>,
         \A k \in Key : keyStatus[k] \in {"pending_revoke", "revoked"} =>
           keyStatus'[k] \in {"pending_revoke", "revoked"}
  PROVE  RevokeSticksStep
  BY StickyStatus DEF RevokeSticksStep, Sticky

\* Staging for a key that a revoke holds stages a revoke.
LEMMA StageSticks ==
  ASSUME IInv, NEW k \in Key, NEW action \in KeyActions, NEW retry \in BOOLEAN,
         Stage(k, action, retry)
  PROVE  RevokeSticksStep
<1> SUFFICES ASSUME NEW j \in Key, Sticky(j)
             PROVE  /\ Sticky(j)' /\ keyStatus[j]' \in {"pending_revoke", "revoked"}
                    /\ \A o \in Operation :
                         KeyOf(o) = j /\ opState[o] # opState'[o]
                         /\ opState'[o] \in {"queued", "claimed"}
                         => intent'[o].action = "revoke"
  BY DEF RevokeSticksStep
<1>1. keyStatus[j] \in {"pending_revoke", "revoked"}
  BY StickyStatus
<1>2. j = k => action = "revoke"
  BY DEF Stage, Desired
<1>3. /\ keyStatus' = [keyStatus EXCEPT ![k] = Pending[action]]
      /\ revokeAsked \subseteq revokeAsked'
      /\ intent' = [intent EXCEPT ![<<k, generation[k] + 1>>] = IntentOf(k, action)]
      /\ opState' = [o \in Operation |->
           CASE o = <<k, generation[k] + 1>> -> "queued"
             [] KeyOf(o) = k /\ GenOf(o) < generation[k] + 1 /\ opState[o] = "queued" -> "superseded"
             [] OTHER -> opState[o]]
  BY DEF Stage, Queued
<1>4. keyStatus'[j] \in {"pending_revoke", "revoked"}
  BY <1>1, <1>2, <1>3, StatusFacts DEF IInv, QueueTypeOK
<1>5. ASSUME NEW o \in Operation, KeyOf(o) = j, opState[o] # opState'[o],
             opState'[o] \in {"queued", "claimed"}
      PROVE  intent'[o].action = "revoke"
  <2>1. o = <<k, generation[k] + 1>>
    BY <1>3, <1>5
  <2>2. j = k
    BY <2>1, <1>5 DEF KeyOf
  <2> QED BY <1>2, <1>3, <2>1, <2>2 DEF IInv, QueueTypeOK, IntentOf
<1> QED BY <1>4, <1>5 DEF Sticky

\* Every step of the queue respects a revoke.
LEMMA NextSticks == IInv /\ IInv' /\ [QueueNext]_queueVars => RevokeSticksStep
<1> SUFFICES ASSUME IInv, IInv', [QueueNext]_queueVars PROVE RevokeSticksStep
  OBVIOUS
<1>1. ASSUME NEW k \in Key, Admin(k) \/ Lifecycle(k) PROVE RevokeSticksStep
  <2>1. CASE Issue(k) \/ RetryProvision(k) \/ DisableInvitation(k)
    BY <2>1, StageSticks DEF Issue, RetryProvision, DisableInvitation, KeyActions
  <2>2. CASE Lifecycle(k)
    <3>1. PICK action \in KeyActions : Stage(k, action, FALSE)
      <4>1. policy[k].action \in KeyActions /\ "revoke" \in KeyActions
        BY DEF IInv, QueueTypeOK, Policies, KeyActions
      <4> QED BY <2>2, <4>1 DEF Lifecycle
    <3> QED BY <3>1, StageSticks
  <2>3. CASE \E new \in Policies : UpdateSubscription(k, new)
    <3>1. PICK new \in Policies : UpdateSubscription(k, new)
      BY <2>3
    <3> QED BY <3>1, UntouchedSticks DEF UpdateSubscription, Stamp, ops, IInv, QueueTypeOK
  <2>4. CASE \E action \in KeyActions : Drift(k, action)
    BY <2>4, UntouchedSticks DEF Drift, ops, IInv, QueueTypeOK
  <2>5. CASE AskRevoke(k)
    BY <2>5, UntouchedSticks DEF AskRevoke, Stamp, ops, IInv, QueueTypeOK
  <2>6. CASE Archive(k)
    BY <2>6, UntouchedSticks DEF Archive, Stamp, ops, IInv, QueueTypeOK
  <2> QED BY <1>1, <2>1, <2>2, <2>3, <2>4, <2>5, <2>6 DEF Admin
<1>2. ASSUME NEW skipped, NEW o \in Operation, Claim(o, skipped)
      PROVE  RevokeSticksStep
  <2>1. \A p \in Operation : opState'[p] # opState[p] /\ opState'[p] \in {"queued", "claimed"} => p = o
    BY <1>2 DEF Claim, Outdated, IInv, QueueTypeOK
  <2>2. UNCHANGED <<keyStatus, revokeAsked, intent>>
    BY <1>2 DEF Claim, keys
  <2>3. intent[o].action = Desired(KeyOf(o))
    BY <1>2 DEF Claim, Matches
  <2> QED BY <2>1, <2>2, <2>3, StickyStatus DEF RevokeSticksStep, Sticky, Desired
<1>3. ASSUME NEW skipped, ClaimNothing(skipped)
      PROVE  RevokeSticksStep
  <2>1. \A p \in Operation : opState'[p] # opState[p] => opState'[p] \notin {"queued", "claimed"}
    BY <1>3 DEF ClaimNothing, Outdated, IInv, QueueTypeOK
  <2>2. UNCHANGED <<keyStatus, revokeAsked, intent>>
    BY <1>3 DEF ClaimNothing, keys
  <2> QED BY <2>1, <2>2, StickyStatus DEF RevokeSticksStep, Sticky
<1>4. ASSUME NEW o \in Operation, NEW receipt \in QueueReceipts, Finalize(o, receipt)
      PROVE  RevokeSticksStep
  <2>1. \A p \in Operation : opState'[p] # opState[p] => opState'[p] \notin {"queued", "claimed"}
    BY <1>4 DEF Finalize, Outcome, Result, QueueReceipts, IInv, QueueTypeOK
  <2>2. UNCHANGED <<revokeAsked, intent>>
    BY <1>4 DEF Finalize
  <2>3. \A k \in Key : keyStatus[k] \in {"pending_revoke", "revoked"} =>
          keyStatus'[k] \in {"pending_revoke", "revoked"}
    <3>1. KeyOf(o) \in Key /\ opState[o] # "none" /\ opState[o] = "claimed"
      BY <1>4, OperationFacts DEF Finalize
    <3>2. CASE Outcome(o, receipt) # "succeeded"
      BY <1>4, <3>2 DEF Finalize, IInv, QueueTypeOK
    <3>3. CASE Outcome(o, receipt) = "succeeded"
      <4>1. Matches(o)
        BY <3>3 DEF Outcome, Result, QueueReceipts
      <4>2. keyStatus' = [keyStatus EXCEPT ![KeyOf(o)] = Settled[intent[o].action]]
        BY <1>4, <3>3 DEF Finalize
      <4>3. intent[o].action = Desired(KeyOf(o))
        BY <4>1 DEF Matches
      <4>4. keyStatus[KeyOf(o)] \in {"pending_revoke", "revoked"} => intent[o].action = "revoke"
        BY <4>3 DEF Desired, Sticky
      <4> QED BY <3>1, <4>2, <4>4 DEF IInv, QueueTypeOK, Settled
    <3> QED BY <3>2, <3>3
  <2> QED BY <2>1, <2>2, <2>3, StickyStatus DEF RevokeSticksStep, Sticky
<1>5. CASE Neighbours
  BY <1>5, UntouchedSticks DEF Neighbours, PlanAttack, TaskEnds, AttackReturns, Maintain,
     Release, AttackOver, MaintenanceOver, SetEndpoint, keys, ops
<1>6. CASE UNCHANGED queueVars
  BY <1>6, UntouchedSticks DEF queueVars
<1> QED BY <1>1, <1>2, <1>3, <1>4, <1>5, <1>6 DEF QueueNext, ClaimSome

\* Whatever edits, renewals, retries and late receipts come, a key whose revoke
\* was asked for is only ever revoked.
THEOREM RevokesAreNeverUndone == QueueSpec => RevokeSticks
<1>1. IInv /\ IInv' /\ [QueueNext]_queueVars => [RevokeSticksStep]_queueVars
  BY NextSticks
<1> QED BY <1>1, QueueInductiveInvariant, PTL DEF QueueSpec, RevokeSticks, RevokeSticksStep
=============================================================================
