--------------------------- MODULE VpnNodeJournal ---------------------------
(***************************************************************************)
(* The node-local journal (vpn_node_journal.py): a gate database whose     *)
(* write transaction is held for a whole run, and an operations database   *)
(* that records intent before a run's callback and mutation before its     *)
(* first send.  Runs are the one-shot processes the control server starts  *)
(* over SSH; any of them may be killed at any step.                        *)
(*                                                                         *)
(* The callback ("perform") is any code that keeps the contract of         *)
(* execute_node_operation: it marks before it sends, and it returns only   *)
(* when the panel has answered what it sent.  VpnNodeExecutor is the       *)
(* callback the node really uses.                                          *)
(***************************************************************************)
EXTENDS Naturals

CONSTANTS Proc,         \* node processes that may run at the same time
          OperationId,  \* operation UUIDs
          Key,          \* access keys
          Digest,       \* SHA-256 digests of whole requests
          Requests,     \* the requests the node may be sent
          NoProc, NoRequest, NoReceipt

Actions == {"provision", "suspend", "revoke"}

ASSUME RequestsAssumption ==
  /\ Requests \subseteq [id: OperationId, key: Key, gen: Nat \ {0},
                         action: Actions, digest: Digest]
  /\ NoRequest \notin Requests
  /\ NoProc \notin Proc

\* A phase stands for the row's (phase, error_code) pair, "absent" for no row.
Failed == {"preflight_failed", "interrupted"}
Terminal == {"observed", "uncertain"} \cup Failed
Phases == {"absent", "queued", "mutating"} \cup Terminal

\* A receipt's (state, error_code); the terminal ones are the row's own.
Refusals == {"stale", "reconciliation_required", "key_revoked"}
Receipts == Terminal \cup Refusals

VARIABLES row,      \* operations: the identity fields stored under an id
          phase,    \* operations: phase and error_code
          latest,   \* key_fences: latest_generation (0 for no row)
          revoked,  \* key_fences: the keys with permanently_revoked
          gate,     \* the process that holds the gate transaction
          pc,       \* where a process is in execute_node_operation
          req,      \* the operation it was started with
          reply,    \* the receipt it is about to return
          wire,     \* operations with a send the panel has not finished
          sent,     \* history: operations that sent anything
          entered,  \* history: how often an operation's callback was entered
          refused   \* history: requests a run refused

journal == <<row, phase, latest, revoked>>
process == <<gate, pc, req, reply>>
effects == <<wire, sent>>
history == <<entered, refused>>
vars == <<row, phase, latest, revoked, gate, pc, req, reply, wire, sent, entered, refused>>

-----------------------------------------------------------------------------
(* Reading the journal                                                     *)

Stored(i) == row[i] # NoRequest

\* _validate_rows: every row lies at or below its key's fence, and a stored
\* revoke has the permanent bit.
RowsValid ==
  \A i \in OperationId :
    /\ Stored(i) <=> phase[i] # "absent"
    /\ Stored(i) =>
         /\ row[i].gen <= latest[row[i].key]
         /\ row[i].action = "revoke" => row[i].key \in revoked

\* Mutant of Unresolved: an uncertain operation no longer stops the node.
UnresolvedIfMutating == \E i \in OperationId : phase[i] = "mutating"

Unresolved == \E i \in OperationId : phase[i] \in {"mutating", "uncertain"}
\* Mutant of IsStale: only the generation accepted last is refused.
IsStaleIfLatest(r) == r.gen = latest[r.key]

IsStale(r) == r.gen <= latest[r.key]
\* Mutant of IsRevoked: the permanent bit counts only for its own generation.
IsRevokedNow(r) == r.key \in revoked /\ r.action = "provision" /\ IsStale(r)

IsRevoked(r) == r.key \in revoked /\ r.action = "provision"

\* Mutant of Recovered: an abandoned mutation counts as interrupted.
RecoveredAsFailed(ph) == IF ph \in {"queued", "mutating"} THEN "interrupted" ELSE ph

\* The gate proves that rows still in progress were abandoned.
Recovered(ph) == CASE ph = "queued" -> "interrupted"
                   [] ph = "mutating" -> "uncertain"
                   [] OTHER -> ph

-----------------------------------------------------------------------------
(* Running one operation                                                   *)

Running(p) == pc[p] \in {"performing", "marked"}

Leave(p) ==
  /\ pc' = [pc EXCEPT ![p] = "idle"]
  /\ req' = [req EXCEPT ![p] = NoRequest]
  /\ reply' = [reply EXCEPT ![p] = NoReceipt]
  /\ gate' = IF gate = p THEN NoProc ELSE gate

Close(p, receipt) ==
  /\ pc' = [pc EXCEPT ![p] = "closing"]
  /\ reply' = [reply EXCEPT ![p] = receipt]
  /\ UNCHANGED <<gate, req>>

Init ==
  /\ row = [i \in OperationId |-> NoRequest]
  /\ phase = [i \in OperationId |-> "absent"]
  /\ latest = [k \in Key |-> 0]
  /\ revoked = {}
  /\ gate = NoProc
  /\ pc = [p \in Proc |-> "idle"]
  /\ req = [p \in Proc |-> NoRequest]
  /\ reply = [p \in Proc |-> NoReceipt]
  /\ wire = {} /\ sent = {}
  /\ entered = [i \in OperationId |-> 0]
  /\ refused = {}

\* The control server starts a run; it may start the same request again.
Invoke(p, r) ==
  /\ pc[p] = "idle"
  /\ pc' = [pc EXCEPT ![p] = "opening"]
  /\ req' = [req EXCEPT ![p] = r]
  /\ UNCHANGED <<gate, reply, journal, effects, history>>

\* BEGIN IMMEDIATE on the gate succeeds ...
AcquireGate(p) ==
  /\ pc[p] = "opening"
  /\ gate = NoProc
  /\ gate' = p
  /\ pc' = [pc EXCEPT ![p] = "checking"]
  /\ UNCHANGED <<req, reply, journal, effects, history>>

\* Mutant of GateBusy: the wait for the gate has no timeout.
GateWaits(p) == pc[p] = "opening" /\ gate # NoProc /\ UNCHANGED vars

\* ... or times out on another run: vpn_node_journal_busy, no receipt.
GateBusy(p) ==
  /\ pc[p] = "opening"
  /\ gate # NoProc
  /\ Leave(p)
  /\ UNCHANGED <<journal, effects, history>>

\* The id is stored with other fields: vpn_node_operation_conflict, no receipt.
Conflict(p) ==
  /\ pc[p] = "checking"
  /\ RowsValid
  /\ Stored(req[p].id)
  /\ row[req[p].id] # req[p]
  /\ Leave(p)
  /\ UNCHANGED <<journal, effects, history>>

\* First commit: settle what earlier processes left in progress.
Recover(p) ==
  /\ pc[p] = "checking"
  /\ RowsValid
  /\ Stored(req[p].id) => row[req[p].id] = req[p]
  /\ phase' = [i \in OperationId |-> Recovered(phase[i])]
  /\ pc' = [pc EXCEPT ![p] = "accepting"]
  /\ UNCHANGED <<row, latest, revoked, gate, req, reply, effects, history>>

Replay(p) ==
  /\ pc[p] = "accepting"
  /\ Stored(req[p].id)
  /\ Close(p, phase[req[p].id])
  /\ UNCHANGED <<journal, effects, history>>

\* The order of the three refusals is the code's.
Refuse(p) ==
  /\ pc[p] = "accepting"
  /\ ~ Stored(req[p].id)
  /\ \/ Unresolved /\ Close(p, "reconciliation_required")
     \/ ~ Unresolved /\ IsStale(req[p]) /\ Close(p, "stale")
     \/ /\ ~ Unresolved /\ ~ IsStale(req[p]) /\ IsRevoked(req[p])
        /\ Close(p, "key_revoked")
  /\ refused' = refused \cup {req[p]}
  /\ UNCHANGED <<journal, effects, entered>>

\* Mutant of Admit: an operation that failed may be run again.
AdmitAgain(p) ==
  LET r == req[p] IN
  /\ pc[p] = "accepting"
  /\ phase[r.id] \in Failed \/ (~ Stored(r.id) /\ ~ IsStale(r))
  /\ ~ Unresolved /\ ~ IsRevoked(r)
  /\ latest' = [latest EXCEPT ![r.key] = r.gen]
  /\ revoked' = IF r.action = "revoke" THEN revoked \cup {r.key} ELSE revoked
  /\ row' = [row EXCEPT ![r.id] = r]
  /\ phase' = [phase EXCEPT ![r.id] = "queued"]
  /\ pc' = [pc EXCEPT ![p] = "performing"]
  /\ entered' = [entered EXCEPT ![r.id] = @ + 1]
  /\ UNCHANGED <<gate, req, reply, effects, refused>>

\* Second commit: the advanced fence and the queued row, then the callback.
Admit(p) ==
  LET r == req[p] IN
  /\ pc[p] = "accepting"
  /\ ~ Stored(r.id)
  /\ ~ Unresolved /\ ~ IsStale(r) /\ ~ IsRevoked(r)
  /\ latest' = [latest EXCEPT ![r.key] = r.gen]
  /\ revoked' = IF r.action = "revoke" THEN revoked \cup {r.key} ELSE revoked
  /\ row' = [row EXCEPT ![r.id] = r]
  /\ phase' = [phase EXCEPT ![r.id] = "queued"]
  /\ pc' = [pc EXCEPT ![p] = "performing"]
  /\ entered' = [entered EXCEPT ![r.id] = @ + 1]
  /\ UNCHANGED <<gate, req, reply, effects, refused>>

\* mark_mutating: durable before the callback goes on; later calls do nothing.
MarkMutating(p) ==
  /\ pc[p] = "performing"
  /\ phase' = [phase EXCEPT ![req[p].id] = "mutating"]
  /\ pc' = [pc EXCEPT ![p] = "marked"]
  /\ UNCHANGED <<row, latest, revoked, gate, req, reply, effects, history>>

\* Its commit reports an error, having reached the disk or not.
MarkFails(p) ==
  /\ pc[p] = "performing"
  /\ \/ UNCHANGED phase
     \/ phase' = [phase EXCEPT ![req[p].id] = "mutating"]
  /\ pc' = [pc EXCEPT ![p] = "mark_failed"]
  /\ UNCHANGED <<row, latest, revoked, gate, req, reply, effects, history>>

\* The callback sends a mutating request to the panel.
Send(p) ==
  /\ pc[p] = "marked"
  /\ wire' = wire \cup {req[p].id}
  /\ sent' = sent \cup {req[p].id}
  /\ UNCHANGED <<journal, process, history>>

\* The panel finishes it, however late and whether or not anyone waits.
Land(i) ==
  /\ i \in wire
  /\ wire' = wire \ {i}
  /\ UNCHANGED <<journal, process, sent, history>>

\* Mutant of Conclude: the outcome is returned without being written.
ConcludeUnwritten(p, outcome) == Close(p, outcome) /\ UNCHANGED <<journal, effects, history>>

\* The callback ended; its outcome is committed before it is returned.
Conclude(p, outcome) ==
  /\ phase' = [phase EXCEPT ![req[p].id] = outcome]
  /\ Close(p, outcome)
  /\ UNCHANGED <<row, latest, revoked, effects, history>>

ReturnObserved(p) ==
  /\ Running(p)
  /\ req[p].id \notin wire
  /\ Conclude(p, "observed")

RaiseUnmarked(p) == pc[p] = "performing" /\ Conclude(p, "preflight_failed")
RaiseMarked(p) == pc[p] = "marked" /\ Conclude(p, "uncertain")

\* The receipt reaches the caller and the gate is released.
Return(p) ==
  /\ pc[p] = "closing"
  /\ Leave(p)
  /\ UNCHANGED <<journal, effects, history>>

\* A failed mark ends the run with an error whatever the callback then does.
FailClosed(p) ==
  /\ pc[p] = "mark_failed"
  /\ Leave(p)
  /\ UNCHANGED <<journal, effects, history>>

\* A kill, an interruption or a journal error at any point: the gate is
\* released, the committed rows stay, and no receipt is returned.
Abort(p) ==
  /\ pc[p] \notin {"idle", "mark_failed"}
  /\ Leave(p)
  /\ UNCHANGED <<journal, effects, history>>

\* lookup_node_operation_receipt: read without the gate, even during a run.
LookupReceipt(r) ==
  CASE ~ Stored(r.id) -> "none"
    [] Stored(r.id) /\ row[r.id].digest # r.digest -> "conflict"
    [] Stored(r.id) /\ row[r.id].digest = r.digest ->
         IF phase[r.id] \in {"queued", "mutating"}
         THEN "reconciliation_required" ELSE phase[r.id]

\* A process goes on by itself; Step leaves out Invoke, Send and Abort.
Step(p) ==
  \/ AcquireGate(p) \/ GateBusy(p) \/ Conflict(p) \/ Recover(p)
  \/ Replay(p) \/ Refuse(p) \/ Admit(p) \/ MarkMutating(p) \/ MarkFails(p)
  \/ ReturnObserved(p) \/ RaiseUnmarked(p) \/ RaiseMarked(p)
  \/ Return(p) \/ FailClosed(p)

Next ==
  \/ \E p \in Proc : Step(p) \/ Send(p) \/ Abort(p)
  \/ \E p \in Proc, r \in Requests : Invoke(p, r)
  \/ \E i \in OperationId : Land(i)

Spec == Init /\ [][Next]_vars

\* Every wait of a run is bounded: gate and panel timeouts, read deadlines.
Fairness == \A p \in Proc : WF_vars(Step(p))

LiveSpec == Spec /\ Fairness

-----------------------------------------------------------------------------
(* Properties                                                              *)

TypeOK ==
  /\ row \in [OperationId -> Requests \cup {NoRequest}]
  /\ phase \in [OperationId -> Phases]
  /\ latest \in [Key -> Nat]
  /\ revoked \subseteq Key
  /\ gate \in Proc \cup {NoProc}
  /\ pc \in [Proc -> {"idle", "opening", "checking", "accepting", "performing",
                      "marked", "mark_failed", "closing"}]
  /\ req \in [Proc -> Requests \cup {NoRequest}]
  /\ reply \in [Proc -> Receipts \cup {NoReceipt}]
  /\ wire \subseteq OperationId /\ sent \subseteq OperationId
  /\ entered \in [OperationId -> Nat]
  /\ refused \subseteq Requests

\* _validate_rows refuses to open a journal whose rows disagree with its
\* fences: no crash between the two commits, no late write and no replay ever
\* makes the journal lock itself out.
JournalStaysValid == RowsValid

\* "Execute at most once": whatever is killed, replayed or sent twice, the
\* callback of an operation id is entered at most once.
AtMostOnce == \A i \in OperationId : entered[i] <= 1

\* A failed receipt means nothing was sent: the control server may retry.
FailedNeverSent == \A i \in OperationId : phase[i] \in Failed => i \notin sent

\* While a callback runs, no earlier operation's send is still on its way to
\* the panel, even one whose process was killed long ago.
NoOverlap ==
  /\ \A p \in Proc : Running(p) => wire \subseteq {req[p].id}
  /\ \A i, j \in wire : i = j

\* A settled receipt is on disk before it is handed out, and a request that
\* was refused is never accepted afterwards: no answer is taken back.
AnswersHold ==
  /\ \A p \in Proc :
       pc[p] = "closing" /\ reply[p] \in Terminal => phase[req[p].id] = reply[p]
  /\ \A r \in refused : row[r.id] # r

\* A lookup that once found a settled receipt finds it for good, and one that
\* found a row at all never again finds none.
LookupsAgree ==
  [][\A r \in Requests :
       /\ LookupReceipt(r) \in Terminal => LookupReceipt(r)' = LookupReceipt(r)
       /\ LookupReceipt(r) # "none" => LookupReceipt(r)' # "none"]_vars

\* Sends of a key happen in generation order, so the newest intent of the
\* control server is the last one the panel is told.
SendsInOrder ==
  [][\A i \in sent' \ sent, j \in sent :
       row'[i].key = row'[j].key => row'[j].gen < row'[i].gen]_vars

\* Once a revoke of a key was accepted, even one whose callback failed, no
\* provision of that key is ever sent again.
RevokeIsFinal ==
  [][\A i \in sent' \ sent, j \in OperationId :
       /\ Stored(j) /\ row[j].action = "revoke"
       /\ row[j].key = row'[i].key
       => row'[i].action # "provision"]_vars

\* Every run ends and gives the gate back: a stuck or killed run never keeps
\* the node for itself.
RunsEnd == \A p \in Proc : pc[p] # "idle" ~> pc[p] = "idle"

-----------------------------------------------------------------------------
(* The journal implements the node the control server relies on.           *)

AbstractStatus(ph) == CASE ph = "queued" -> "accepted"
                        [] ph \in Failed -> "failed"
                        [] OTHER -> ph

Node == INSTANCE NodeExecution WITH
  binding <- row,
  status <- [i \in OperationId |-> AbstractStatus(phase[i])]

\* The gate, the two commits and the recovery of abandoned rows together act
\* like a node that accepts one operation at a time and settles it for good.
ImplementsNode == Node!NodeSpec
=============================================================================
