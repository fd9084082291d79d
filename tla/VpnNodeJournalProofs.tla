------------------------ MODULE VpnNodeJournalProofs ------------------------
(***************************************************************************)
(* Proofs about VpnNodeJournal for any number of processes, operations,    *)
(* keys and requests, and for every callback that keeps its contract.      *)
(***************************************************************************)
EXTENDS VpnNodeJournal, TLAPS

-----------------------------------------------------------------------------
(* The inductive invariant.  Each part names what the gate protects.       *)

Unsettled == {"queued", "mutating", "uncertain"}

\* The gate is held by exactly the process that is past opening it.
GateInv ==
  \A p \in Proc : gate = p <=> pc[p] \notin {"idle", "opening"}

\* A process that is not idle knows its request.
RequestInv ==
  \A p \in Proc : pc[p] # "idle" => req[p] \in Requests

\* The rows agree with the fences and sit under their own id, and a callback
\* was entered once for every stored row.
RowInv ==
  /\ RowsValid
  /\ \A i \in OperationId : Stored(i) => row[i].id = i
  /\ \A i \in OperationId : entered[i] = IF Stored(i) THEN 1 ELSE 0

\* The node has at most one operation whose outcome is open.
SingleInv ==
  \A i, j \in OperationId :
    phase[i] \in Unsettled /\ phase[j] \in Unsettled => i = j

\* What the process in the gate knows about its own row.
OwnerInv ==
  \A p \in Proc :
    LET r == req[p] IN
    /\ pc[p] = "accepting" =>
         /\ \A i \in OperationId : phase[i] \notin {"queued", "mutating"}
         /\ Stored(r.id) => row[r.id] = r
    /\ pc[p] \in {"performing", "marked", "mark_failed"} =>
         /\ row[r.id] = r
         /\ latest[r.key] = r.gen
         /\ r.action = "provision" => r.key \notin revoked
         /\ \A j \in OperationId : 
              Stored(j) /\ j # r.id /\ row[j].key = r.key => row[j].gen < r.gen
    /\ pc[p] = "performing" => phase[r.id] = "queued"
    /\ pc[p] = "marked" => phase[r.id] = "mutating"
    /\ pc[p] = "mark_failed" => phase[r.id] \in {"queued", "mutating"}
    /\ pc[p] = "closing" /\ reply[p] \in Terminal => phase[r.id] = reply[p]

\* Only a marked operation sends, and only an open one is still on the wire.
SentInv ==
  /\ \A i \in sent : phase[i] \in {"mutating", "observed", "uncertain"}
  /\ \A i \in wire : phase[i] \in {"mutating", "uncertain"}

\* A refusal has a reason, and every reason is permanent.
RefusedInv ==
  \A r \in refused :
    /\ row[r.id] # r
    /\ \/ IsStale(r)
       \/ IsRevoked(r)
       \/ \E i \in OperationId : phase[i] = "uncertain"

IInv ==
  /\ TypeOK /\ GateInv /\ RequestInv /\ RowInv /\ SingleInv
  /\ OwnerInv /\ SentInv /\ RefusedInv

-----------------------------------------------------------------------------

\* An empty journal.
LEMMA InitIInv == Init => IInv
  BY RequestsAssumption
     DEF Init, IInv, TypeOK, GateInv, RequestInv, RowInv, RowsValid, SingleInv,
         OwnerInv, SentInv, RefusedInv, Stored, Unsettled, IsStale, IsRevoked,
         Terminal, Failed, Receipts, Refusals, Phases

\* A new run only brings a request.
LEMMA InvokeIInv == ASSUME IInv, NEW p \in Proc, NEW r \in Requests, Invoke(p, r) PROVE IInv'
  BY RequestsAssumption
     DEF Invoke, IInv, TypeOK, GateInv, RequestInv, RowInv, RowsValid, SingleInv,
         OwnerInv, SentInv, RefusedInv, Stored, Unsettled, IsStale, IsRevoked,
         journal, process, effects, history,
         Terminal, Failed, Receipts, Refusals, Phases

\* The gate goes to one run.
LEMMA AcquireGateIInv == ASSUME IInv, NEW p \in Proc, AcquireGate(p) PROVE IInv'
  BY RequestsAssumption
     DEF AcquireGate, IInv, TypeOK, GateInv, RequestInv, RowInv, RowsValid, SingleInv,
         OwnerInv, SentInv, RefusedInv, Stored, Unsettled, IsStale, IsRevoked,
         journal, process, effects, history,
         Terminal, Failed, Receipts, Refusals, Phases

\* A run that does not get the gate leaves nothing behind.
LEMMA GateBusyIInv == ASSUME IInv, NEW p \in Proc, GateBusy(p) PROVE IInv'
  BY RequestsAssumption
     DEF GateBusy, IInv, TypeOK, GateInv, RequestInv, RowInv, RowsValid, SingleInv,
         OwnerInv, SentInv, RefusedInv, Stored, Unsettled, IsStale, IsRevoked,
         journal, process, effects, history,
         Terminal, Failed, Receipts, Refusals, Phases, Leave

\* Nor does one whose id is stored with other fields.
LEMMA ConflictIInv == ASSUME IInv, NEW p \in Proc, Conflict(p) PROVE IInv'
  BY RequestsAssumption
     DEF Conflict, IInv, TypeOK, GateInv, RequestInv, RowInv, RowsValid, SingleInv,
         OwnerInv, SentInv, RefusedInv, Stored, Unsettled, IsStale, IsRevoked,
         journal, process, effects, history,
         Terminal, Failed, Receipts, Refusals, Phases, Leave

\* The gate's owner settles rows no running process can own.
LEMMA RecoverIInv == ASSUME IInv, NEW p \in Proc, Recover(p) PROVE IInv'
  BY RequestsAssumption
     DEF Recover, IInv, TypeOK, GateInv, RequestInv, RowInv, RowsValid, SingleInv,
         OwnerInv, SentInv, RefusedInv, Stored, Unsettled, IsStale, IsRevoked,
         journal, process, effects, history,
         Terminal, Failed, Receipts, Refusals, Phases, Recovered

\* A stored settled row is its own answer.
LEMMA ReplayIInv == ASSUME IInv, NEW p \in Proc, Replay(p) PROVE IInv'
  BY RequestsAssumption
     DEF Replay, IInv, TypeOK, GateInv, RequestInv, RowInv, RowsValid, SingleInv,
         OwnerInv, SentInv, RefusedInv, Stored, Unsettled, IsStale, IsRevoked,
         journal, process, effects, history,
         Terminal, Failed, Receipts, Refusals, Phases, Close

\* A refused request was not stored, and its fence or the open row keeps it out.
LEMMA RefuseIInv == ASSUME IInv, NEW p \in Proc, Refuse(p) PROVE IInv'
  BY RequestsAssumption
     DEF Refuse, IInv, TypeOK, GateInv, RequestInv, RowInv, RowsValid, SingleInv,
         OwnerInv, SentInv, RefusedInv, Stored, Unsettled, IsStale, IsRevoked,
         journal, process, effects, history,
         Terminal, Failed, Receipts, Refusals, Phases, Close, Unresolved

\* The second commit: the only step that advances a fence and adds a row.  It
\* needs that nothing is open (SingleInv) and that the request is newer than
\* its fence (RowInv, OwnerInv).
LEMMA AdmitIInv == ASSUME IInv, NEW p \in Proc, Admit(p) PROVE IInv'
<1> DEFINE r == req[p]
<1> USE RequestsAssumption
<1>1. /\ r \in Requests /\ r.id \in OperationId /\ r.key \in Key
      /\ r.gen \in Nat \ {0} /\ r.action \in Actions
      /\ pc[p] = "accepting" /\ ~ Stored(r.id) /\ phase[r.id] = "absent"
      /\ latest[r.key] \in Nat /\ latest[r.key] < r.gen
  BY DEF Admit, IInv, TypeOK, RequestInv, RowInv, RowsValid, IsStale
<1>2. /\ row' = [row EXCEPT ![r.id] = r]
      /\ phase' = [phase EXCEPT ![r.id] = "queued"]
      /\ entered' = [entered EXCEPT ![r.id] = @ + 1]
      /\ pc' = [pc EXCEPT ![p] = "performing"]
      /\ latest' = [latest EXCEPT ![r.key] = r.gen]
      /\ revoked' = IF r.action = "revoke" THEN revoked \cup {r.key} ELSE revoked
      /\ UNCHANGED <<gate, req, reply, wire, sent, refused>>
  BY DEF Admit, effects
<1>3. \A i \in OperationId : phase[i] \notin Unsettled
  BY <1>1 DEF Admit, IInv, OwnerInv, Unresolved, Unsettled
<1>4. TypeOK'
  BY <1>1, <1>2 DEF IInv, TypeOK, Phases
<1>5. GateInv' /\ RequestInv'
  BY <1>1, <1>2 DEF IInv, TypeOK, GateInv, RequestInv
<1>6. RowInv'
  <2>1. RowsValid'
    BY <1>1, <1>2 DEF IInv, TypeOK, RowInv, RowsValid, Stored
  <2>2. QED
    BY <2>1, <1>1, <1>2 DEF IInv, TypeOK, RowInv, Stored
<1>7. SingleInv'
  BY <1>1, <1>2, <1>3 DEF IInv, TypeOK, SingleInv
<1>8. OwnerInv'
  <2>1. \A q \in Proc : q # p => pc[q] \in {"idle", "opening"}
    BY <1>1 DEF IInv, GateInv
  <2>2. \A j \in OperationId : Stored(j) /\ row[j].key = r.key => row[j].gen < r.gen
    BY <1>1 DEF IInv, TypeOK, RowInv, RowsValid, Stored
  <2>3. r.action = "provision" => r.key \notin revoked
    BY DEF Admit, IsRevoked
  <2>4. QED
    BY <1>1, <1>2, <2>1, <2>2, <2>3 DEF IInv, TypeOK, OwnerInv, Stored
<1>9. SentInv'
  BY <1>1, <1>2 DEF IInv, TypeOK, SentInv
<1>10. RefusedInv'
  <2> SUFFICES ASSUME NEW s \in refused
               PROVE  row'[s.id] # s /\ (IsStale(s) \/ IsRevoked(s))'
    BY <1>2 DEF RefusedInv
  <2>1. /\ s \in Requests /\ s.id \in OperationId /\ s.key \in Key /\ s.gen \in Nat
        /\ latest[s.key] \in Nat /\ row[s.id] # s
        /\ IsStale(s) \/ IsRevoked(s)
    BY <1>3 DEF IInv, TypeOK, RefusedInv, Unsettled
  <2>2. r # s
    BY <2>1 DEF Admit
  <2>3. (IsStale(s) \/ IsRevoked(s))'
    BY <1>1, <1>2, <2>1 DEF IInv, TypeOK, IsStale, IsRevoked
  <2>4. row'[s.id] # s
    <3>1. row \in [OperationId -> Requests \cup {NoRequest}]
      BY DEF IInv, TypeOK
    <3>2. row'[s.id] = IF s.id = r.id THEN r ELSE row[s.id]
      BY <1>1, <1>2, <2>1, <3>1
    <3>3. QED
      BY <2>1, <2>2, <3>2
  <2>5. QED
    BY <2>3, <2>4
<1>11. QED
  BY <1>4, <1>5, <1>6, <1>7, <1>8, <1>9, <1>10 DEF IInv

\* The mark changes the row of the gate's owner.
LEMMA MarkMutatingIInv == ASSUME IInv, NEW p \in Proc, MarkMutating(p) PROVE IInv'
  BY RequestsAssumption
     DEF MarkMutating, IInv, TypeOK, GateInv, RequestInv, RowInv, RowsValid, SingleInv,
         OwnerInv, SentInv, RefusedInv, Stored, Unsettled, IsStale, IsRevoked,
         journal, process, effects, history,
         Terminal, Failed, Receipts, Refusals, Phases

\* A failed mark left the row queued or made it mutating; either way the row
\* stays the only open one and was not sent.
LEMMA MarkFailsIInv == ASSUME IInv, NEW p \in Proc, MarkFails(p) PROVE IInv'
<1>1. CASE UNCHANGED phase
  BY <1>1, RequestsAssumption
     DEF MarkFails, IInv, TypeOK, GateInv, RequestInv, RowInv, RowsValid, SingleInv,
         OwnerInv, SentInv, RefusedInv, Stored, Unsettled, IsStale, IsRevoked,
         journal, process, effects, history
<1>2. CASE phase' = [phase EXCEPT ![req[p].id] = "mutating"]
  BY <1>2, RequestsAssumption
     DEF MarkFails, IInv, TypeOK, GateInv, RequestInv, RowInv, RowsValid, SingleInv,
         OwnerInv, SentInv, RefusedInv, Stored, Unsettled, IsStale, IsRevoked,
         journal, process, effects, history,
         Terminal, Failed, Receipts, Refusals, Phases
<1>3. QED
  BY <1>1, <1>2 DEF MarkFails

\* Only a marked operation is sent.
LEMMA SendIInv == ASSUME IInv, NEW p \in Proc, Send(p) PROVE IInv'
  BY RequestsAssumption
     DEF Send, IInv, TypeOK, GateInv, RequestInv, RowInv, RowsValid, SingleInv,
         OwnerInv, SentInv, RefusedInv, Stored, Unsettled, IsStale, IsRevoked,
         journal, process, effects, history,
         Terminal, Failed, Receipts, Refusals, Phases

\* A send that ends leaves fewer on the wire.
LEMMA LandIInv == ASSUME IInv, NEW i \in OperationId, Land(i) PROVE IInv'
  BY RequestsAssumption
     DEF Land, IInv, TypeOK, GateInv, RequestInv, RowInv, RowsValid, SingleInv,
         OwnerInv, SentInv, RefusedInv, Stored, Unsettled, IsStale, IsRevoked,
         journal, process, effects, history,
         Terminal, Failed, Receipts, Refusals, Phases

\* Success is written when nothing of the operation is on the wire.
LEMMA ReturnObservedIInv == ASSUME IInv, NEW p \in Proc, ReturnObserved(p) PROVE IInv'
  BY RequestsAssumption
     DEF ReturnObserved, IInv, TypeOK, GateInv, RequestInv, RowInv, RowsValid, SingleInv,
         OwnerInv, SentInv, RefusedInv, Stored, Unsettled, IsStale, IsRevoked,
         journal, process, effects, history,
         Terminal, Failed, Receipts, Refusals, Phases, Conclude, Close, Running

\* An unmarked callback sent nothing.
LEMMA RaiseUnmarkedIInv == ASSUME IInv, NEW p \in Proc, RaiseUnmarked(p) PROVE IInv'
  BY RequestsAssumption
     DEF RaiseUnmarked, IInv, TypeOK, GateInv, RequestInv, RowInv, RowsValid, SingleInv,
         OwnerInv, SentInv, RefusedInv, Stored, Unsettled, IsStale, IsRevoked,
         journal, process, effects, history,
         Terminal, Failed, Receipts, Refusals, Phases, Conclude, Close

\* A marked callback may have sent something; its row stays open as uncertain.
LEMMA RaiseMarkedIInv == ASSUME IInv, NEW p \in Proc, RaiseMarked(p) PROVE IInv'
  BY RequestsAssumption
     DEF RaiseMarked, IInv, TypeOK, GateInv, RequestInv, RowInv, RowsValid, SingleInv,
         OwnerInv, SentInv, RefusedInv, Stored, Unsettled, IsStale, IsRevoked,
         journal, process, effects, history,
         Terminal, Failed, Receipts, Refusals, Phases, Conclude, Close

\* The receipt was written before it is returned.
LEMMA ReturnIInv == ASSUME IInv, NEW p \in Proc, Return(p) PROVE IInv'
  BY RequestsAssumption
     DEF Return, IInv, TypeOK, GateInv, RequestInv, RowInv, RowsValid, SingleInv,
         OwnerInv, SentInv, RefusedInv, Stored, Unsettled, IsStale, IsRevoked,
         journal, process, effects, history,
         Terminal, Failed, Receipts, Refusals, Phases, Leave

\* A run whose mark failed leaves its row to recovery.
LEMMA FailClosedIInv == ASSUME IInv, NEW p \in Proc, FailClosed(p) PROVE IInv'
  BY RequestsAssumption
     DEF FailClosed, IInv, TypeOK, GateInv, RequestInv, RowInv, RowsValid, SingleInv,
         OwnerInv, SentInv, RefusedInv, Stored, Unsettled, IsStale, IsRevoked,
         journal, process, effects, history,
         Terminal, Failed, Receipts, Refusals, Phases, Leave

\* So does a killed run.
LEMMA AbortIInv == ASSUME IInv, NEW p \in Proc, Abort(p) PROVE IInv'
  BY RequestsAssumption
     DEF Abort, IInv, TypeOK, GateInv, RequestInv, RowInv, RowsValid, SingleInv,
         OwnerInv, SentInv, RefusedInv, Stored, Unsettled, IsStale, IsRevoked,
         journal, process, effects, history,
         Terminal, Failed, Receipts, Refusals, Phases, Leave

\* Every step keeps the invariant.
LEMMA NextIInv == IInv /\ [Next]_vars => IInv'
<1> SUFFICES ASSUME IInv, [Next]_vars PROVE IInv'
  OBVIOUS
<1>1. ASSUME NEW p \in Proc, Step(p) PROVE IInv'
  BY <1>1, AcquireGateIInv, GateBusyIInv, ConflictIInv, RecoverIInv, ReplayIInv,
     RefuseIInv, AdmitIInv, MarkMutatingIInv, MarkFailsIInv, ReturnObservedIInv,
     RaiseUnmarkedIInv, RaiseMarkedIInv, ReturnIInv, FailClosedIInv DEF Step
<1>2. ASSUME NEW p \in Proc, Send(p) \/ Abort(p) PROVE IInv'
  BY <1>2, SendIInv, AbortIInv
<1>3. ASSUME NEW p \in Proc, NEW r \in Requests, Invoke(p, r) PROVE IInv'
  BY <1>3, InvokeIInv
<1>4. ASSUME NEW i \in OperationId, Land(i) PROVE IInv'
  BY <1>4, LandIInv
<1>5. CASE UNCHANGED vars
  BY <1>5 DEF vars, IInv, TypeOK, GateInv, RequestInv, RowInv, RowsValid, SingleInv,
         OwnerInv, SentInv, RefusedInv, Stored, Unsettled, IsStale, IsRevoked, Unresolved
<1>6. QED
  BY <1>1, <1>2, <1>3, <1>4, <1>5 DEF Next

\* The inductive invariant holds in every reachable state.
THEOREM InductiveInvariant == Spec => []IInv
  BY InitIInv, NextIInv, PTL DEF Spec

-----------------------------------------------------------------------------
(* The properties the runs check                                           *)

\* Every variable keeps its type.
THEOREM TypeCorrectness == Spec => []TypeOK
<1>1. IInv => TypeOK
  BY DEF IInv
<1>2. QED
  BY <1>1, InductiveInvariant, PTL

\* The fail-closed check of the rows never trips: no crash, replay or refusal
\* leaves a journal that a later run or lookup would refuse to open.
THEOREM JournalNeverLocksItselfOut == Spec => []JournalStaysValid
<1>1. IInv => JournalStaysValid
  BY DEF IInv, RowInv, JournalStaysValid
<1>2. QED
  BY <1>1, InductiveInvariant, PTL

\* "Execute at most once", for every number of runs, kills and replays.
THEOREM ExecutesAtMostOnce == Spec => []AtMostOnce
<1>1. IInv => AtMostOnce
  BY DEF IInv, RowInv, AtMostOnce
<1>2. QED
  BY <1>1, InductiveInvariant, PTL

\* A failed receipt proves that nothing was sent.
THEOREM FailedMeansNothingSent == Spec => []FailedNeverSent
<1>1. IInv => FailedNeverSent
  BY DEF IInv, SentInv, FailedNeverSent, Failed
<1>2. QED
  BY <1>1, InductiveInvariant, PTL

\* A callback never runs while an earlier operation's send may still land.
THEOREM EffectsNeverOverlap == Spec => []NoOverlap
<1>1. ASSUME IInv PROVE NoOverlap
  <2>1. \A i, j \in wire : i = j
    BY <1>1 DEF IInv, TypeOK, SingleInv, SentInv, Unsettled
  <2>2. ASSUME NEW p \in Proc, Running(p) PROVE wire \subseteq {req[p].id}
    <3>1. req[p].id \in OperationId /\ phase[req[p].id] \in Unsettled
      BY <1>1, <2>2, RequestsAssumption
         DEF IInv, RequestInv, OwnerInv, Running, Unsettled
    <3>2. QED
      BY <1>1, <3>1 DEF IInv, TypeOK, SingleInv, SentInv, Unsettled
  <2>3. QED
    BY <2>1, <2>2 DEF NoOverlap
<1>2. QED
  BY <1>1, InductiveInvariant, PTL

\* No answer a run gave is ever taken back.
THEOREM AnswersAreKept == Spec => []AnswersHold
<1>1. IInv => AnswersHold
  BY DEF IInv, OwnerInv, RefusedInv, AnswersHold
<1>2. QED
  BY <1>1, InductiveInvariant, PTL

-----------------------------------------------------------------------------
(* What a step may never do                                                *)

\* Only Send adds to sent, and it adds the operation of a marked process.
LEMMA OnlySendSends ==
  ASSUME [Next]_vars, NEW i \in sent' \ sent
  PROVE  \E p \in Proc : Send(p) /\ i = req[p].id
  BY DEF Next, Step, Invoke, AcquireGate, GateBusy, Conflict, Recover, Replay,
         Refuse, Admit, MarkMutating, MarkFails, Send, Land, ReturnObserved,
         RaiseUnmarked, RaiseMarked, Conclude, Return, FailClosed, Abort,
         effects, vars

\* The panel is told the requests of a key in generation order.
THEOREM SendsFollowGenerations == Spec => SendsInOrder
<1>1. ASSUME IInv, [Next]_vars,
             NEW i \in sent' \ sent, NEW j \in sent, row'[i].key = row'[j].key
      PROVE  row'[j].gen < row'[i].gen
  <2>1. PICK p \in Proc : Send(p) /\ i = req[p].id
    BY <1>1, OnlySendSends
  <2>2. row' = row /\ pc[p] = "marked" /\ req[p] \in Requests /\ row[i] = req[p]
    BY <1>1, <2>1 DEF IInv, RequestInv, OwnerInv, Send, journal
  <2>3. j \in OperationId /\ Stored(j) /\ j # i
    BY <1>1 DEF IInv, TypeOK, RowInv, RowsValid, SentInv
  <2>4. QED
    BY <1>1, <2>1, <2>2, <2>3 DEF IInv, OwnerInv
<1>2. IInv /\ [Next]_vars =>
        [\A i \in sent' \ sent, j \in sent :
           row'[i].key = row'[j].key => row'[j].gen < row'[i].gen]_vars
  BY <1>1
<1>3. QED
  BY <1>2, InductiveInvariant, PTL DEF Spec, SendsInOrder

\* A revoked key is never provisioned again, whatever became of the revoke.
THEOREM RevokedKeysStayRevoked == Spec => RevokeIsFinal
<1>1. ASSUME IInv, [Next]_vars, NEW i \in sent' \ sent, NEW j \in OperationId,
             Stored(j), row[j].action = "revoke", row[j].key = row'[i].key
      PROVE  row'[i].action # "provision"
  <2>1. PICK p \in Proc : Send(p) /\ i = req[p].id
    BY <1>1, OnlySendSends
  <2>2. row' = row /\ pc[p] = "marked" /\ row[i] = req[p]
    BY <1>1, <2>1 DEF IInv, OwnerInv, Send, journal
  <2>3. row[i].key \in revoked
    BY <1>1, <2>2 DEF IInv, RowInv, RowsValid
  <2>4. QED
    BY <1>1, <2>1, <2>2, <2>3 DEF IInv, OwnerInv
<1>2. IInv /\ [Next]_vars =>
        [\A i \in sent' \ sent, j \in OperationId :
           /\ Stored(j) /\ row[j].action = "revoke"
           /\ row[j].key = row'[i].key
           => row'[i].action # "provision"]_vars
  BY <1>1
<1>3. QED
  BY <1>2, InductiveInvariant, PTL DEF Spec, RevokeIsFinal

\* A stored row keeps its fields and a settled row its phase.
LEMMA RowsPersist ==
  ASSUME IInv, [Next]_vars, NEW i \in OperationId, Stored(i)
  PROVE  /\ row'[i] = row[i]
         /\ phase[i] \in Terminal => phase'[i] = phase[i]
         /\ phase'[i] # "absent"
<1> USE DEF Terminal, Failed
<1>1. CASE \E p \in Proc : Step(p)
  <2>1. PICK p \in Proc : Step(p)
    BY <1>1
  <2>2. CASE Admit(p)
    BY <2>2 DEF Admit, IInv, TypeOK, RowInv, RowsValid, Stored
  <2>3. CASE Recover(p)
    BY <2>3 DEF Recover, Recovered, IInv, TypeOK, RowInv, RowsValid
  <2>4. CASE MarkMutating(p) \/ MarkFails(p) \/ ReturnObserved(p)
             \/ RaiseUnmarked(p) \/ RaiseMarked(p)
    BY <2>4 DEF MarkMutating, MarkFails, ReturnObserved, RaiseUnmarked, RaiseMarked,
                Conclude, Running, IInv, TypeOK, RowInv, RowsValid, OwnerInv
  <2>5. CASE AcquireGate(p) \/ GateBusy(p) \/ Conflict(p) \/ Replay(p)
             \/ Refuse(p) \/ Return(p) \/ FailClosed(p)
    BY <2>5 DEF AcquireGate, GateBusy, Conflict, Replay, Refuse, Return, FailClosed,
                journal, IInv, RowInv, RowsValid
  <2>6. QED
    BY <2>1, <2>2, <2>3, <2>4, <2>5 DEF Step
<1>2. CASE ~ \E p \in Proc : Step(p)
  BY <1>2 DEF Next, Send, Abort, Invoke, Land, vars, journal, IInv, RowInv, RowsValid
<1>3. QED
  BY <1>1, <1>2

\* What a lookup once reported as settled, it reports for good.
THEOREM LookupsNeverDisagree == Spec => LookupsAgree
<1>1. ASSUME IInv, [Next]_vars, NEW r \in Requests
      PROVE  /\ LookupReceipt(r) \in Terminal => LookupReceipt(r)' = LookupReceipt(r)
             /\ LookupReceipt(r) # "none" => LookupReceipt(r)' # "none"
  <2>1. r.id \in OperationId
    BY RequestsAssumption
  <2>2. CASE ~ Stored(r.id)
    BY <2>2 DEF LookupReceipt, Terminal, Failed
  <2>3. CASE Stored(r.id)
    <3>1. /\ row'[r.id] = row[r.id]
          /\ phase[r.id] \in Terminal => phase'[r.id] = phase[r.id]
          /\ phase'[r.id] # "absent"
      BY <1>1, <2>1, <2>3, RowsPersist
    <3>2. Stored(r.id)'
      BY <2>3, <3>1 DEF Stored
    <3>3. (IInv)' 
      BY <1>1, NextIInv
    <3>4. phase'[r.id] \in Phases
      BY <2>1, <3>3 DEF IInv, TypeOK
    <3>5. QED
      BY <2>3, <3>1, <3>2, <3>4 DEF LookupReceipt, Terminal, Failed, Phases
  <2>4. QED
    BY <2>2, <2>3
<1>2. IInv /\ [Next]_vars =>
        [\A r \in Requests :
           /\ LookupReceipt(r) \in Terminal => LookupReceipt(r)' = LookupReceipt(r)
           /\ LookupReceipt(r) # "none" => LookupReceipt(r)' # "none"]_vars
  BY <1>1
<1>3. QED
  BY <1>2, InductiveInvariant, PTL DEF Spec, LookupsAgree

-----------------------------------------------------------------------------
(* The journal implements NodeExecution                                    *)


\* Writing one row's phase is writing that operation's abstract status.
LEMMA StatusUpdate ==
  ASSUME TypeOK, NEW i \in OperationId, NEW ph, phase' = [phase EXCEPT ![i] = ph]
  PROVE  [j \in OperationId |-> AbstractStatus(phase'[j])] =
         [[j \in OperationId |-> AbstractStatus(phase[j])] EXCEPT ![i] = AbstractStatus(ph)]
  BY DEF TypeOK

\* Accepting is the abstract Accept: the fences say what the accepted rows say.
LEMMA AdmitImplementsNode ==
  ASSUME IInv, NEW p \in Proc, Admit(p) PROVE Node!Accept(req[p])
<1> DEFINE r == req[p]
<1>1. /\ r \in Requests /\ r.id \in OperationId /\ r.key \in Key /\ ~ Stored(r.id)
      /\ r.gen \in Nat /\ latest[r.key] < r.gen /\ latest[r.key] \in Nat
  BY RequestsAssumption DEF Admit, IInv, TypeOK, RequestInv, IsStale
<1>2. \A i \in OperationId : phase[i] \notin Unsettled
  BY DEF Admit, IInv, OwnerInv, Unresolved, Unsettled
<1>3. \A i \in OperationId : AbstractStatus(phase[i]) \notin Node!Unsettled
  BY <1>2 DEF IInv, TypeOK, AbstractStatus, Unsettled, Node!Unsettled, Phases,
              Terminal, Failed
<1>4. AbstractStatus(phase[r.id]) = "absent"
  BY <1>1 DEF IInv, RowInv, RowsValid, AbstractStatus, Failed
<1>5. \A i \in Node!AcceptedFor(r.key) :
        row[i].gen < r.gen /\ (r.action = "provision" => row[i].action # "revoke")
  <2> SUFFICES ASSUME NEW i \in OperationId, Stored(i), row[i].key = r.key
               PROVE  /\ row[i].gen < r.gen
                      /\ r.action = "provision" => row[i].action # "revoke"
    BY DEF Node!AcceptedFor, Stored
  <2>1. row[i].gen <= latest[r.key] /\ (row[i].action = "revoke" => r.key \in revoked)
    BY DEF IInv, RowInv, RowsValid
  <2>2. row[i].gen \in Nat
    BY RequestsAssumption DEF IInv, TypeOK, Stored
  <2>3. QED
    BY <1>1, <2>1, <2>2 DEF Admit, IsRevoked
<1>6. Node!Acceptable(r)
  BY <1>1, <1>3, <1>4, <1>5 DEF Node!Acceptable
<1>7. AbstractStatus("queued") = "accepted"
  BY DEF AbstractStatus, Failed
<1>8. [i \in OperationId |-> AbstractStatus(phase'[i])] =
        [[i \in OperationId |-> AbstractStatus(phase[i])] EXCEPT ![r.id] = "accepted"]
  BY <1>1, <1>7, StatusUpdate DEF Admit, IInv
<1>9. QED
  BY <1>6, <1>8 DEF Node!Accept, Node!Enter, Admit

\* Settling one row from a phase of the running process.
LEMMA SettleImplementsNode ==
  ASSUME IInv, NEW i \in OperationId, NEW ph, phase' = [phase EXCEPT ![i] = ph],
         UNCHANGED row, NEW from, AbstractStatus(phase[i]) \in from
  PROVE  Node!Settle(i, from, AbstractStatus(ph))
  BY StatusUpdate DEF Node!Settle, IInv

\* Recovery settles at most the one open row, as Fail or LoseTrack.
LEMMA RecoverImplementsNode ==
  ASSUME IInv, NEW p \in Proc, Recover(p)
  PROVE  Node!NodeNext \/ UNCHANGED Node!nodeVars
<1>1. CASE \E i \in OperationId : phase[i] \in {"queued", "mutating"}
  <2>1. PICK i \in OperationId : phase[i] \in {"queued", "mutating"}
    BY <1>1
  <2>2. \A j \in OperationId : j # i => phase[j] \notin {"queued", "mutating"}
    BY <2>1 DEF IInv, SingleInv, Unsettled
  <2>3. phase' = [phase EXCEPT ![i] = Recovered(phase[i])]
    BY <2>2 DEF Recover, Recovered, IInv, TypeOK
  <2>4. CASE phase[i] = "queued"
    <3>1. /\ AbstractStatus(phase[i]) \in {"accepted"} /\ Recovered(phase[i]) = "interrupted"
          /\ AbstractStatus("interrupted") = "failed"
      BY <2>4 DEF AbstractStatus, Recovered, Failed
    <3>2. Node!Settle(i, {"accepted"}, "failed")
      BY <2>3, <3>1, SettleImplementsNode DEF Recover
    <3>3. QED
      BY <3>2 DEF Node!NodeNext, Node!Fail
  <2>5. CASE phase[i] = "mutating"
    <3>1. /\ AbstractStatus(phase[i]) \in {"mutating"} /\ Recovered(phase[i]) = "uncertain"
          /\ AbstractStatus("uncertain") = "uncertain"
      BY <2>5 DEF AbstractStatus, Recovered, Failed
    <3>2. Node!Settle(i, {"mutating"}, "uncertain")
      BY <2>3, <3>1, SettleImplementsNode DEF Recover
    <3>3. QED
      BY <3>2 DEF Node!NodeNext, Node!LoseTrack
  <2>6. QED
    BY <2>1, <2>4, <2>5
<1>2. CASE \A i \in OperationId : phase[i] \notin {"queued", "mutating"}
  <2>1. phase' = phase
    BY <1>2 DEF Recover, Recovered, IInv, TypeOK
  <2>2. QED
    BY <2>1 DEF Recover, Node!nodeVars
<1>3. QED
  BY <1>1, <1>2

\* Every step of a run is one step of the abstract node, or none.
LEMMA StepImplementsNode ==
  ASSUME IInv, [Next]_vars
  PROVE  Node!NodeNext \/ UNCHANGED Node!nodeVars
<1>1. CASE UNCHANGED <<row, phase>>
  BY <1>1 DEF Node!nodeVars
<1>2. ASSUME NEW p \in Proc, Step(p)
      PROVE  Node!NodeNext \/ UNCHANGED <<row, phase>> \/ UNCHANGED Node!nodeVars
  <2> DEFINE i == req[p].id
  <2>1. pc[p] # "idle"
    BY <1>2 DEF Step, AcquireGate, GateBusy, Conflict, Recover, Replay, Refuse, Admit,
                MarkMutating, MarkFails, ReturnObserved, RaiseUnmarked, RaiseMarked,
                Return, FailClosed, Running
  <2>2. req[p] \in Requests /\ i \in OperationId
    BY <2>1, RequestsAssumption DEF IInv, RequestInv
  <2>3. /\ pc[p] = "performing" => AbstractStatus(phase[i]) = "accepted"
        /\ pc[p] = "marked" => AbstractStatus(phase[i]) = "mutating"
        /\ AbstractStatus("mutating") = "mutating"
        /\ AbstractStatus("observed") = "observed"
        /\ AbstractStatus("uncertain") = "uncertain"
        /\ AbstractStatus("preflight_failed") = "failed"
    BY DEF IInv, OwnerInv, AbstractStatus, Failed
  <2>4. CASE Admit(p)
    BY <2>2, <2>4, AdmitImplementsNode DEF Node!NodeNext
  <2>5. CASE Recover(p)
    BY <2>5, RecoverImplementsNode
  <2>6. CASE MarkMutating(p) \/ MarkFails(p)
    <3>1. CASE phase' = [phase EXCEPT ![i] = "mutating"]
      <4>1. UNCHANGED row /\ AbstractStatus(phase[i]) \in {"accepted"}
        BY <2>3, <2>6 DEF MarkMutating, MarkFails
      <4>2. Node!Settle(i, {"accepted"}, "mutating")
        BY <2>2, <2>3, <3>1, <4>1, SettleImplementsNode
      <4>3. QED
        BY <2>2, <4>2 DEF Node!NodeNext, Node!StartMutation
    <3>2. QED
      BY <2>6, <3>1 DEF MarkMutating, MarkFails
  <2>7. CASE ReturnObserved(p)
    <3>1. Node!Settle(i, {"accepted", "mutating"}, "observed")
      BY <2>2, <2>3, <2>7, SettleImplementsNode DEF ReturnObserved, Running, Conclude
    <3>2. QED
      BY <2>2, <3>1 DEF Node!NodeNext, Node!Observe
  <2>8. CASE RaiseUnmarked(p)
    <3>1. Node!Settle(i, {"accepted"}, "failed")
      BY <2>2, <2>3, <2>8, SettleImplementsNode DEF RaiseUnmarked, Conclude
    <3>2. QED
      BY <2>2, <3>1 DEF Node!NodeNext, Node!Fail
  <2>9. CASE RaiseMarked(p)
    <3>1. Node!Settle(i, {"mutating"}, "uncertain")
      BY <2>2, <2>3, <2>9, SettleImplementsNode DEF RaiseMarked, Conclude
    <3>2. QED
      BY <2>2, <3>1 DEF Node!NodeNext, Node!LoseTrack
  <2>10. QED
    BY <1>2, <2>4, <2>5, <2>6, <2>7, <2>8, <2>9
       DEF Step, AcquireGate, GateBusy, Conflict, Replay, Refuse, Return, FailClosed, journal
<1>3. CASE ~ \E p \in Proc : Step(p)
  BY <1>1, <1>3 DEF Next, Send, Abort, Invoke, Land, vars, journal
<1>4. QED
  BY <1>1, <1>2, <1>3

\* The control server may take every node for the abstract one.
THEOREM JournalImplementsNode == Spec => ImplementsNode
<1>1. Init => Node!NodeInit
  BY DEF Init, Node!NodeInit, AbstractStatus, Failed
<1>2. IInv /\ [Next]_vars => [Node!NodeNext]_(Node!nodeVars)
  BY StepImplementsNode
<1>3. QED
  BY <1>1, <1>2, InductiveInvariant, PTL DEF Spec, ImplementsNode, Node!NodeSpec

=============================================================================
