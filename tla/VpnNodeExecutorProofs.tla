------------------------ MODULE VpnNodeExecutorProofs ------------------------
(***************************************************************************)
(* Proofs about VpnNodeExecutor for any number of processes, operations,   *)
(* keys and terms, whatever is killed, refused by the panel or late.       *)
(***************************************************************************)
EXTENDS VpnNodeExecutor, VpnNodeJournalProofs

-----------------------------------------------------------------------------
(* The inductive invariant, on top of the journal's                        *)

\* The generations of a key tell its operations apart.
GenerationInv ==
  \A i, j \in OperationId :
    Stored(i) /\ Stored(j) /\ row[i].key = row[j].key /\ row[i].gen = row[j].gen => i = j

\* The wire holds at most the one POST, and its request is its key's newest.
PostInv ==
  /\ wire = IF post = NoPost THEN {} ELSE {post.req.id}
  /\ post # NoPost =>
       row[post.req.id] = post.req /\ latest[post.req.key] = post.req.gen

\* The stage is that of the process inside the gate; it marks before it sends,
\* restarts only to disable, and moves on only when its POST was answered.
StageInv ==
  /\ stage = "none" => \A p \in Proc : ~ Running(p)
  /\ stage # "none" => \E p \in Proc : Running(p)
  /\ \A p \in Proc : Running(p) =>
       /\ stage \in {"snapshot", "observe", "change"} => pc[p] = "performing"
       /\ stage \in {"post_change", "sent", "post_restart", "restart_sent", "watch_forced"} =>
            pc[p] = "marked"
       /\ stage \in {"restart", "post_restart", "restart_sent", "watch_forced"} =>
            req[p].action # "provision"
       /\ post # NoPost =>
            /\ post.req = req[p]
            /\ \/ stage = "sent" /\ post.route = Route(req[p])
               \/ stage = "restart_sent" /\ post.route = "restart"

\* Until its POST is applied, the client is as the callback found it, except
\* that the panel may have disabled it when its terms ran out.
BeforeInv ==
  \A p \in Proc :
    LET k == req[p].key IN
    Running(p) /\ stage \in {"observe", "change", "post_change", "sent"} =>
      /\ \/ client[k] = before[k]
         \/ /\ before[k] # Absent /\ before[k].terms \in expired
            /\ client[k] = [before[k] EXCEPT !.state = "disabled"]
      /\ stage # "observe" =>
           /\ Route(req[p]) # "none"
           /\ req[p].action # "provision" => before[k] # Absent

\* From then on the client is what the request wants, but for its terms running
\* out, and Xray agrees once it was seen to.
ChangeInv ==
  \A p \in Proc :
    LET r == req[p] IN
    Running(p) /\ stage \in {"watch", "verify", "restart", "post_restart", "restart_sent",
                             "watch_forced"} =>
      /\ r.action = "provision" =>
           /\ client[r.key] # Absent /\ client[r.key].terms = TermsFor(r)
           /\ Enabled(r.key) \/ TermsFor(r) \in expired
           /\ stage = "verify" => r.key \in serving \/ TermsFor(r) \in expired
      /\ r.action # "provision" =>
           /\ client[r.key].state = "disabled"
           /\ stage = "verify" => r.key \notin serving

\* A connection needs a process that lets the key in; only a restart forgets it.
SessionInv == sessions \subseteq serving

PerformInv ==
  /\ ExecTypeOK /\ GenerationInv /\ PostInv /\ StageInv /\ BeforeInv /\ ChangeInv
  /\ SessionInv /\ DisableHolds /\ ProvisionHolds

XInv == IInv /\ PerformInv

-----------------------------------------------------------------------------
(* What the gate gives the callback                                        *)

\* One process runs the callback, for a stored operation that is its key's
\* newest and that is open.
LEMMA RunnerFacts ==
  ASSUME IInv, NEW p \in Proc, Running(p)
  PROVE  /\ req[p] \in Requests /\ req[p].id \in OperationId /\ req[p].key \in Key
         /\ req[p].action \in Actions /\ TermsFor(req[p]) \in Terms
         /\ row[req[p].id] = req[p] /\ Stored(req[p].id)
         /\ latest[req[p].key] = req[p].gen
         /\ phase[req[p].id] \in {"queued", "mutating"}
         /\ \A q \in Proc : Running(q) => q = p
<1>1. req[p] \in Requests
  BY DEF IInv, RequestInv, Running
<1>2. /\ req[p].id \in OperationId /\ req[p].key \in Key /\ req[p].digest \in Digest
      /\ req[p].action \in Actions /\ req[p] # NoRequest
  BY <1>1, RequestsAssumption
<1>3. /\ row[req[p].id] = req[p] /\ latest[req[p].key] = req[p].gen
      /\ phase[req[p].id] \in {"queued", "mutating"}
  BY DEF IInv, OwnerInv, Running
<1>4. \A q \in Proc : Running(q) => q = p
  BY DEF IInv, GateInv, Running
<1> QED BY <1>1, <1>2, <1>3, <1>4, TermsAssumption DEF TermsFor, Stored

\* A POST under way is that of an open operation.
LEMMA PostFacts ==
  ASSUME IInv, PerformInv, post # NoPost
  PROVE  /\ post \in Posts /\ post.req \in Requests /\ post.req.id \in OperationId
         /\ post.req.key \in Key /\ TermsFor(post.req) \in Terms
         /\ post.route \in Routes \ {"none"}
         /\ Stored(post.req.id) /\ post.req.id \in wire
         /\ phase[post.req.id] \in {"mutating", "uncertain"}
<1>1. post \in Posts
  BY DEF PerformInv, ExecTypeOK
<1>2. /\ post.req \in Requests /\ post.req # NoRequest
      /\ post.route \in Routes \ {"none"}
      /\ post.req.id \in OperationId /\ post.req.key \in Key /\ post.req.digest \in Digest
  BY <1>1, RequestsAssumption DEF Posts
<1>3. post.req.id \in wire /\ row[post.req.id] = post.req
  BY DEF PerformInv, PostInv
<1>4. phase[post.req.id] \in {"mutating", "uncertain"}
  BY <1>3 DEF IInv, SentInv
<1> QED BY <1>1, <1>2, <1>3, <1>4, TermsAssumption DEF TermsFor, Stored

\* How a route was chosen: nothing to change, no client yet, other terms, or
\* only its state.
LEMMA RouteFacts ==
  ASSUME NEW r, before[r.key] \in Clients
  PROVE  /\ Route(r) = "none" => before[r.key] # Absent /\ before[r.key] = Desired(r)
         /\ Route(r) = "add" => before[r.key] = Absent
         /\ Route(r) = "update" => r.action = "provision"
         /\ Route(r) = "enable" =>
              /\ before[r.key] # Absent /\ before[r.key].terms = TermsFor(r)
              /\ before[r.key] # Desired(r) /\ r.action = "provision"
         /\ Route(r) = "disable" => r.action # "provision"
         /\ Route(r) \in {"none", "add", "update", "enable", "disable"}
<1>1. CASE before[r.key] = Absent
  <2>1. Desired(r) # Absent
    BY <1>1 DEF Desired, Client, Absent
  <2>2. Route(r) = "add"
    BY <1>1, <2>1 DEF Route
  <2> QED BY <1>1, <2>2
<1>2. CASE before[r.key] # Absent /\ before[r.key] = Desired(r)
  <2>1. r.action = "provision" => before[r.key].terms = TermsFor(r)
    BY <1>2 DEF Desired, Client
  <2>2. Route(r) = "none"
    BY <1>2, <2>1 DEF Route
  <2> QED BY <1>2, <2>2
<1>3. CASE /\ before[r.key] # Absent /\ before[r.key] # Desired(r)
           /\ r.action = "provision" /\ before[r.key].terms # TermsFor(r)
  <2>1. Route(r) = "update"
    BY <1>3 DEF Route
  <2> QED BY <1>3, <2>1
<1>4. CASE /\ before[r.key] # Absent /\ before[r.key] # Desired(r)
           /\ ~ (r.action = "provision" /\ before[r.key].terms # TermsFor(r))
  <2>1. Route(r) = IF r.action = "provision" THEN "enable" ELSE "disable"
    BY <1>4 DEF Route
  <2> QED BY <1>4, <2>1
<1> QED BY <1>1, <1>2, <1>3, <1>4

\* The callback marks before it sends and succeeds only with its POST answered,
\* so what it does to the journal is what the journal allows.
LEMMA ContractStep ==
  IInv /\ PerformInv /\ [ExecNext]_execVars => [Next]_vars
<1> SUFFICES ASSUME IInv, PerformInv, [ExecNext]_execVars PROVE [Next]_vars
  OBVIOUS
<1>1. ASSUME NEW p \in Proc, Outside(p) PROVE Next
  BY <1>1 DEF Outside, Next, Step
<1>2. ASSUME NEW p \in Proc, Enter(p) \/ Kill(p) \/ MarkError(p) \/ Raise(p) PROVE Next
  BY <1>2 DEF Enter, Kill, MarkError, Raise, Next, Step
<1>3. ASSUME NEW p \in Proc, Mark(p) PROVE [Next]_vars
  BY <1>3 DEF Mark, Next, Step
<1>4. ASSUME NEW p \in Proc, Snapshot(p) \/ Preflight(p) \/ Watch(p) \/ ForceRestart(p)
      PROVE  UNCHANGED vars
  BY <1>4 DEF Snapshot, Preflight, Watch, ForceRestart
<1>5. ASSUME NEW p \in Proc, Post(p) PROVE Next
  <2>1. pc[p] = "marked"
    BY <1>5 DEF Post, PerformInv, StageInv
  <2> QED BY <1>5, <2>1 DEF Post, Next, Send
<1>6. ASSUME NEW p \in Proc, Succeed(p) PROVE Next
  <2>1. Running(p) /\ stage = "verify"
    BY <1>6 DEF Succeed
  <2>2. post = NoPost
    BY <2>1 DEF PerformInv, StageInv
  <2>3. wire = {}
    BY <2>2 DEF PerformInv, PostInv
  <2> QED BY <1>6, <2>1, <2>3 DEF Succeed, ReturnObserved, Next, Step
<1>7. CASE Apply \/ Reject
  <2>1. post # NoPost
    BY <1>7 DEF Apply, Reject
  <2> QED BY <1>7, <2>1, PostFacts DEF Apply, Reject, Next
<1>8. CASE XrayRestart \/ \E k \in Key : HotAdd(k) \/ Connect(k) \/ AutoDisable(k)
  BY <1>8 DEF XrayRestart, HotAdd, Connect, AutoDisable
<1>9. CASE \E t \in Terms : Expire(t)
  BY <1>9 DEF Expire
<1>10. CASE UNCHANGED execVars
  BY <1>10 DEF execVars
<1> QED BY <1>1, <1>2, <1>3, <1>4, <1>5, <1>6, <1>7, <1>8, <1>9, <1>10 DEF ExecNext

\* An empty panel beside an empty journal.
LEMMA InitXInv == ExecInit => XInv
<1> SUFFICES ASSUME ExecInit PROVE XInv
  OBVIOUS
<1>1. Init /\ IInv
  BY InitIInv DEF ExecInit
<1>2. \A p \in Proc : ~ Running(p)
  BY <1>1 DEF Init, Running
<1>3. \A i \in OperationId : ~ Stored(i)
  BY <1>1 DEF Init, Stored
<1>4. ExecTypeOK
  BY DEF ExecInit, ExecTypeOK, Clients
<1>5. GenerationInv /\ PostInv /\ StageInv /\ BeforeInv /\ ChangeInv /\ SessionInv
  BY <1>1, <1>2, <1>3 DEF ExecInit, Init, GenerationInv, PostInv, StageInv, BeforeInv,
     ChangeInv, SessionInv
<1>6. DisableHolds /\ ProvisionHolds
  BY <1>3 DEF DisableHolds, ProvisionHolds, Newest
<1> QED BY <1>1, <1>4, <1>5, <1>6 DEF XInv, PerformInv

-----------------------------------------------------------------------------
(* Steps of the journal that leave the callback alone                      *)

\* Steps that store no row, settle none as observed, and start or stop no
\* callback leave everything the callback relies on.
LEMMA ApartKeeps ==
  ASSUME IInv, PerformInv, UNCHANGED <<row, latest, wire, executor>>,
         \A i \in OperationId : phase'[i] = "observed" <=> phase[i] = "observed",
         \A p \in Proc : /\ Running(p)' = Running(p)
                         /\ Running(p) => pc'[p] = pc[p] /\ req'[p] = req[p]
  PROVE  PerformInv'
<1>1. UNCHANGED <<client, serving, sessions, renewed, expired, post, stage, before>>
  BY DEF executor
<1>2. ExecTypeOK' /\ GenerationInv' /\ PostInv' /\ SessionInv'
  BY <1>1 DEF PerformInv, ExecTypeOK, GenerationInv, PostInv, SessionInv, Stored
<1>3. StageInv'
  BY <1>1 DEF PerformInv, StageInv, Route, Desired, TermsFor
<1>4. BeforeInv'
  BY <1>1 DEF PerformInv, BeforeInv, Route, Desired, TermsFor
<1>5. ChangeInv'
  BY <1>1 DEF PerformInv, ChangeInv, Enabled, TermsFor
<1>6. DisableHolds' /\ ProvisionHolds'
  BY <1>1 DEF PerformInv, DisableHolds, ProvisionHolds, Newest, Stored, TermsFor
<1> QED BY <1>2, <1>3, <1>4, <1>5, <1>6 DEF PerformInv

\* Steps before and after the callback.
LEMMA OutsideKeeps ==
  ASSUME IInv, PerformInv, NEW p \in Proc, Outside(p)
  PROVE  PerformInv'
<1> USE DEF Running
<1>0. pc \in [Proc -> {"idle", "opening", "checking", "accepting", "performing",
                       "marked", "mark_failed", "closing"}]
      /\ req \in [Proc -> Requests \cup {NoRequest}] /\ phase \in [OperationId -> Phases]
  BY DEF IInv, TypeOK
<1>1. UNCHANGED <<row, latest, wire, executor>>
  BY DEF Outside, AcquireGate, GateBusy, Conflict, Recover, Replay, Refuse, Return, FailClosed,
     Invoke, journal, effects
<1>2. \A i \in OperationId : phase'[i] = "observed" <=> phase[i] = "observed"
  BY <1>0 DEF Outside, AcquireGate, GateBusy, Conflict, Recover, Replay, Refuse, Return, FailClosed,
     Invoke, journal, Recovered
<1>3. ~ Running(p)
  BY DEF Outside, AcquireGate, GateBusy, Conflict, Recover, Replay, Refuse, Return, FailClosed,
     Invoke
<1>4. /\ pc'[p] \notin {"performing", "marked"}
      /\ \A q \in Proc \ {p} : pc'[q] = pc[q] /\ req'[q] = req[q]
  BY <1>0 DEF Outside, AcquireGate, GateBusy, Conflict, Recover, Replay, Refuse, Return, FailClosed,
     Invoke, Leave, Close
<1> QED BY <1>1, <1>2, <1>3, <1>4, ApartKeeps

\* A callback that ends without success leaves its open row, and whatever it
\* sent, behind.
LEMMA EndKeeps ==
  ASSUME IInv, PerformInv, NEW p \in Proc, UNCHANGED <<row, latest, wire, panel, post, before>>,
         stage' = IF Running(p) THEN "none" ELSE stage,
         pc' \in [Proc -> {"idle", "opening", "checking", "accepting", "performing",
                           "marked", "mark_failed", "closing"}],
         pc'[p] \notin {"performing", "marked"},
         \A q \in Proc \ {p} : pc'[q] = pc[q] /\ req'[q] = req[q],
         \A i \in OperationId : phase'[i] = "observed" => phase[i] = "observed"
  PROVE  PerformInv'
<1>1. UNCHANGED <<client, serving, sessions, renewed, expired, post, before>>
  BY DEF panel
<1>2. CASE ~ Running(p)
  <2>1. stage' = stage /\ \A q \in Proc : Running(q)' = Running(q)
    BY <1>2 DEF Running
  <2>2. \A q \in Proc : Running(q) => q # p
    BY <1>2
  <2>3. ExecTypeOK' /\ GenerationInv' /\ PostInv' /\ SessionInv'
    BY <1>1, <2>1 DEF PerformInv, ExecTypeOK, GenerationInv, PostInv, SessionInv, Stored
  <2>4. StageInv' /\ BeforeInv' /\ ChangeInv'
    BY <1>1, <2>1, <2>2
       DEF PerformInv, StageInv, BeforeInv, ChangeInv, Route, Desired, TermsFor, Enabled
  <2>5. DisableHolds' /\ ProvisionHolds'
    BY <1>1 DEF PerformInv, DisableHolds, ProvisionHolds, Newest, Stored, TermsFor
  <2> QED BY <2>3, <2>4, <2>5 DEF PerformInv
<1>3. CASE Running(p)
  <2>1. \A q \in Proc : Running(q) => q = p
    BY <1>3, RunnerFacts
  <2>2. stage' = "none" /\ \A q \in Proc : ~ Running(q)'
    BY <1>3, <2>1 DEF Running
  <2>3. ExecTypeOK' /\ GenerationInv' /\ PostInv' /\ SessionInv'
    BY <1>1, <2>2 DEF PerformInv, ExecTypeOK, GenerationInv, PostInv, SessionInv, Stored
  <2>4. StageInv' /\ BeforeInv' /\ ChangeInv'
    BY <2>2 DEF StageInv, BeforeInv, ChangeInv
  <2>5. DisableHolds' /\ ProvisionHolds'
    BY <1>1 DEF PerformInv, DisableHolds, ProvisionHolds, Newest, Stored, TermsFor
  <2> QED BY <2>3, <2>4, <2>5 DEF PerformInv
<1> QED BY <1>2, <1>3

\* A kill, a failed mark and an exception end it so.
LEMMA FailureKeeps ==
  ASSUME IInv, PerformInv, NEW p \in Proc, Kill(p) \/ MarkError(p) \/ Raise(p)
  PROVE  PerformInv'
<1>0. pc \in [Proc -> {"idle", "opening", "checking", "accepting", "performing",
                       "marked", "mark_failed", "closing"}]
      /\ req \in [Proc -> Requests \cup {NoRequest}] /\ phase \in [OperationId -> Phases]
  BY DEF IInv, TypeOK
<1>1. UNCHANGED <<row, latest, wire, panel, post, before>>
  BY DEF Kill, MarkError, Raise, Abort, MarkFails, RaiseUnmarked, RaiseMarked, Conclude,
     journal, effects
<1>2. /\ pc' \in [Proc -> {"idle", "opening", "checking", "accepting", "performing",
                           "marked", "mark_failed", "closing"}]
      /\ pc'[p] \notin {"performing", "marked"}
      /\ \A q \in Proc \ {p} : pc'[q] = pc[q] /\ req'[q] = req[q]
  BY <1>0 DEF Kill, MarkError, Raise, Abort, MarkFails, RaiseUnmarked, RaiseMarked, Conclude,
     Leave, Close
<1>3. \A i \in OperationId : phase'[i] = "observed" => phase[i] = "observed"
  BY <1>0 DEF Kill, MarkError, Raise, Abort, MarkFails, RaiseUnmarked, RaiseMarked, Conclude,
     journal
<1>4. stage' = IF Running(p) THEN "none" ELSE stage
  BY DEF Kill, MarkError, Raise, MarkFails, RaiseUnmarked, RaiseMarked, Running
<1> QED BY <1>1, <1>2, <1>3, <1>4, EndKeeps

\* The callback starts with nothing open and nothing on the wire, for a
\* generation above all others of its key.
LEMMA EnterKeeps == ASSUME IInv, PerformInv, NEW p \in Proc, Enter(p) PROVE PerformInv'
<1> DEFINE r == req[p]
<1>1. /\ r \in Requests /\ r.id \in OperationId /\ r.key \in Key /\ r.gen \in Nat
      /\ ~ Stored(r.id) /\ latest[r.key] \in Nat /\ latest[r.key] < r.gen
      /\ r # NoRequest
  BY RequestsAssumption DEF Enter, Admit, IInv, TypeOK, RequestInv, IsStale
<1>2. /\ row' = [row EXCEPT ![r.id] = r]
      /\ phase' = [phase EXCEPT ![r.id] = "queued"]
      /\ latest' = [latest EXCEPT ![r.key] = r.gen]
      /\ pc' = [pc EXCEPT ![p] = "performing"]
      /\ UNCHANGED <<req, wire, client, serving, sessions, renewed, expired, post, before>>
      /\ stage' = "snapshot" /\ pc[p] = "accepting"
  BY DEF Enter, Admit, effects, panel
<1>3. \A q \in Proc : q # p => ~ Running(q)
  BY <1>2 DEF IInv, GateInv, Running
<1>4. /\ pc' \in [Proc -> {"idle", "opening", "checking", "accepting", "performing",
                           "marked", "mark_failed", "closing"}]
      /\ pc'[p] = "performing" /\ \A q \in Proc : Running(q)' => q = p
  BY <1>2, <1>3 DEF IInv, TypeOK, Running
<1>5. post = NoPost
  <2>1. \A i \in OperationId : phase[i] \notin {"mutating", "uncertain"}
    BY DEF Enter, Admit, Unresolved
  <2> QED BY <2>1, PostFacts
<1>6. \A j \in OperationId : Stored(j) =>
        /\ row'[j] = row[j] /\ j # r.id /\ row[j].gen \in Nat /\ row[j].key \in Key
        /\ row[j].key = r.key => row[j].gen < r.gen
  <2> SUFFICES ASSUME NEW j \in OperationId, Stored(j)
               PROVE  /\ row'[j] = row[j] /\ j # r.id /\ row[j].gen \in Nat /\ row[j].key \in Key
                      /\ row[j].key = r.key => row[j].gen < r.gen
    OBVIOUS
  <2>1. row[j] \in Requests
    BY DEF IInv, TypeOK, Stored
  <2>2. row[j].gen \in Nat /\ row[j].key \in Key /\ latest[row[j].key] \in Nat
    BY <2>1, RequestsAssumption DEF IInv, TypeOK
  <2>3. row[j].gen <= latest[row[j].key]
    BY DEF IInv, RowInv, RowsValid
  <2> QED BY <1>1, <1>2, <2>2, <2>3 DEF IInv, TypeOK
<1>7. row'[r.id] = r /\ \A j \in OperationId : Stored(j)' => Stored(j) \/ j = r.id
  BY <1>1, <1>2 DEF IInv, TypeOK, Stored
<1>8. ExecTypeOK' /\ SessionInv'
  BY <1>2 DEF PerformInv, ExecTypeOK, SessionInv
<1>9. GenerationInv'
  <2> SUFFICES ASSUME NEW i \in OperationId, NEW j \in OperationId, Stored(i)', Stored(j)',
                      row'[i].key = row'[j].key, row'[i].gen = row'[j].gen
               PROVE  i = j
    BY DEF GenerationInv
  <2>1. CASE i = r.id \/ j = r.id
    BY <1>1, <1>6, <1>7, <2>1
  <2>2. CASE i # r.id /\ j # r.id
    BY <1>6, <1>7, <2>2 DEF PerformInv, GenerationInv
  <2> QED BY <2>1, <2>2
<1>10. PostInv'
  BY <1>2, <1>5 DEF PerformInv, PostInv
<1>11. StageInv' /\ BeforeInv' /\ ChangeInv'
  <2>1. Running(p)'
    BY <1>4 DEF Running
  <2> QED BY <1>2, <1>4, <1>5, <2>1 DEF StageInv, BeforeInv, ChangeInv
<1>12. \A i \in OperationId : Newest(i)' /\ phase'[i] = "observed" =>
         Newest(i) /\ phase[i] = "observed" /\ row'[i] = row[i]
  <2> SUFFICES ASSUME NEW i \in OperationId, Newest(i)', phase'[i] = "observed"
               PROVE  Newest(i) /\ phase[i] = "observed" /\ row'[i] = row[i]
    OBVIOUS
  <2>1. i # r.id /\ phase[i] = "observed" /\ Stored(i)
    BY <1>1, <1>2, <1>7 DEF IInv, TypeOK, Newest
  <2>2. row'[i] = row[i] /\ row[i].key # r.key
    BY <1>1, <1>2, <1>6, <2>1 DEF IInv, TypeOK, Newest
  <2>3. latest'[row[i].key] = latest[row[i].key]
    BY <1>2, <1>6, <2>1, <2>2 DEF IInv, TypeOK
  <2> QED BY <2>1, <2>2, <2>3 DEF Newest
<1>13. DisableHolds' /\ ProvisionHolds'
  BY <1>2, <1>12 DEF PerformInv, DisableHolds, ProvisionHolds, TermsFor
<1> QED BY <1>8, <1>9, <1>10, <1>11, <1>13 DEF PerformInv

-----------------------------------------------------------------------------
(* Steps of the callback                                                   *)

\* What does not concern the stage of the callback is kept by its steps that
\* settle nothing and touch no client.
LEMMA StepKeeps ==
  ASSUME IInv, PerformInv, NEW p \in Proc, Running(p),
         UNCHANGED <<row, latest, wire, client, serving, sessions, expired, post, req>>,
         \A i \in OperationId : phase'[i] = "observed" => phase[i] = "observed",
         \A q \in Proc \ {p} : pc'[q] = pc[q], Running(p)',
         renewed' \in BOOLEAN, before' \in [Key -> Clients],
         stage' \in {"snapshot", "observe", "change", "post_change", "sent",
                     "watch", "restart", "post_restart", "restart_sent", "watch_forced",
                     "verify"}
  PROVE  /\ ExecTypeOK' /\ GenerationInv' /\ PostInv' /\ SessionInv'
         /\ DisableHolds' /\ ProvisionHolds'
         /\ \A q \in Proc : Running(q)' => q = p
<1>1. ExecTypeOK' /\ GenerationInv' /\ PostInv' /\ SessionInv'
  BY DEF PerformInv, ExecTypeOK, GenerationInv, PostInv, SessionInv, Stored
<1>2. DisableHolds' /\ ProvisionHolds'
  BY DEF PerformInv, DisableHolds, ProvisionHolds, Newest, Stored, TermsFor
<1>3. \A q \in Proc : Running(q)' => q = p
  BY RunnerFacts DEF Running
<1> QED BY <1>1, <1>2, <1>3

\* Reading the panel: the client is as it is read.
LEMMA SnapshotKeeps == ASSUME IInv, PerformInv, NEW p \in Proc, Snapshot(p) PROVE PerformInv'
<1>1. /\ Running(p) /\ stage = "snapshot" /\ stage' = "observe" /\ before' = client
      /\ pc[p] = "performing"
      /\ UNCHANGED <<row, latest, phase, wire, client, serving, sessions, expired, post, req,
                     pc, renewed>>
  BY DEF Snapshot, Running, vars, panel
<1>2. before' \in [Key -> Clients] /\ renewed' \in BOOLEAN
  BY <1>1 DEF PerformInv, ExecTypeOK
<1>3. Running(p)'
  BY <1>1 DEF Running
<1>4. /\ ExecTypeOK' /\ GenerationInv' /\ PostInv' /\ SessionInv'
      /\ DisableHolds' /\ ProvisionHolds'
      /\ \A q \in Proc : Running(q)' => q = p
  BY <1>1, <1>2, <1>3, StepKeeps
<1>5. post = NoPost
  BY <1>1 DEF PerformInv, StageInv
<1>6. StageInv' /\ BeforeInv' /\ ChangeInv'
  BY <1>1, <1>3, <1>4, <1>5 DEF StageInv, BeforeInv, ChangeInv
<1> QED BY <1>4, <1>6 DEF PerformInv

\* The checks before anything is changed: nothing is to be done only when the
\* record is already as asked.
LEMMA PreflightKeeps == ASSUME IInv, PerformInv, NEW p \in Proc, Preflight(p) PROVE PerformInv'
<1> DEFINE r == req[p]
<1>1. /\ Running(p) /\ stage = "observe" /\ pc[p] = "performing"
      /\ stage' = IF Route(r) = "none" THEN "watch" ELSE "change"
      /\ r.action = "provision" => TermsFor(r) \notin expired
      /\ r.action # "provision" => before[r.key] # Absent
      /\ renewed' = FALSE
      /\ UNCHANGED <<row, latest, phase, wire, client, serving, sessions, expired, post, req,
                     pc, before>>
  BY DEF Preflight, Running, vars
<1>2. before' \in [Key -> Clients] /\ renewed' \in BOOLEAN
  BY <1>1 DEF PerformInv, ExecTypeOK
<1>3. Running(p)'
  BY <1>1 DEF Running
<1>4. /\ ExecTypeOK' /\ GenerationInv' /\ PostInv' /\ SessionInv'
      /\ DisableHolds' /\ ProvisionHolds'
      /\ \A q \in Proc : Running(q)' => q = p
  BY <1>1, <1>2, <1>3, StepKeeps
<1>5. post = NoPost
  BY <1>1 DEF PerformInv, StageInv
<1>6. StageInv'
  BY <1>1, <1>3, <1>4, <1>5 DEF StageInv
<1>7. BeforeInv'
  <2>1. Route(r)' = Route(r)
    BY <1>1 DEF Route, Desired, TermsFor
  <2> QED BY <1>1, <1>4, <2>1 DEF PerformInv, BeforeInv
<1>8. ChangeInv'
  <2> SUFFICES ASSUME Route(r) = "none"
               PROVE  /\ r.action = "provision" =>
                           /\ client[r.key] # Absent /\ client[r.key].terms = TermsFor(r)
                           /\ Enabled(r.key) \/ TermsFor(r) \in expired
                      /\ r.action # "provision" => client[r.key].state = "disabled"
    BY <1>1, <1>4 DEF ChangeInv, Enabled, TermsFor
  <2>1. r.key \in Key /\ before[r.key] \in Clients
    BY <1>1, RunnerFacts DEF PerformInv, ExecTypeOK
  <2>2. before[r.key] # Absent /\ before[r.key] = Desired(r)
    BY <2>1, RouteFacts
  <2>3. \/ client[r.key] = before[r.key]
        \/ /\ before[r.key].terms \in expired
           /\ client[r.key] = [before[r.key] EXCEPT !.state = "disabled"]
    BY <1>1 DEF PerformInv, BeforeInv
  <2>4. CASE r.action = "provision"
    <3>1. before[r.key] = Client("enabled", TermsFor(r))
      BY <2>2, <2>4 DEF Desired
    <3>2. before[r.key].terms \notin expired
      BY <1>1, <2>4, <3>1 DEF Client
    <3> QED BY <2>2, <2>3, <2>4, <3>1, <3>2 DEF Client, Enabled
  <2>5. CASE r.action # "provision"
    <3>1. before[r.key] \in [state: {"enabled", "disabled"}, terms: Terms]
      BY <2>1, <2>2 DEF Clients
    <3>2. before[r.key] = [before[r.key] EXCEPT !.state = "disabled"]
      BY <2>2, <2>5 DEF Desired
    <3>3. before[r.key].state = "disabled"
      BY <3>1, <3>2
    <3> QED BY <2>3, <2>5, <3>1, <3>3
  <2> QED BY <2>4, <2>5
<1> QED BY <1>4, <1>6, <1>7, <1>8 DEF PerformInv

\* The mark.
LEMMA MarkKeeps == ASSUME IInv, PerformInv, NEW p \in Proc, Mark(p) PROVE PerformInv'
<1>1. /\ Running(p) /\ stage \in {"change", "restart"}
      /\ stage' = IF stage = "change" THEN "post_change" ELSE "post_restart"
      /\ UNCHANGED <<row, latest, wire, client, serving, sessions, expired, post, req,
                     before, renewed>>
  BY DEF Mark, Running, MarkMutating, vars, panel, effects
<1>2. /\ pc'[p] = "marked" /\ \A q \in Proc \ {p} : pc'[q] = pc[q]
      /\ \A i \in OperationId : phase'[i] = "observed" => phase[i] = "observed"
  BY <1>1 DEF Mark, MarkMutating, vars, IInv, TypeOK
<1>3. before' \in [Key -> Clients] /\ renewed' \in BOOLEAN
  BY <1>1 DEF PerformInv, ExecTypeOK
<1>4. Running(p)'
  BY <1>2 DEF Running
<1>5. /\ ExecTypeOK' /\ GenerationInv' /\ PostInv' /\ SessionInv'
      /\ DisableHolds' /\ ProvisionHolds'
      /\ \A q \in Proc : Running(q)' => q = p
  BY <1>1, <1>2, <1>3, <1>4, StepKeeps
<1>6. post = NoPost
  BY <1>1 DEF PerformInv, StageInv
<1>7. StageInv'
  BY <1>1, <1>2, <1>4, <1>5, <1>6 DEF PerformInv, StageInv
<1>8. BeforeInv' /\ ChangeInv'
  <2>1. Route(req[p])' = Route(req[p])
    BY <1>1 DEF Route, Desired, TermsFor
  <2> QED BY <1>1, <1>5, <2>1 DEF PerformInv, BeforeInv, ChangeInv, Enabled, TermsFor
<1> QED BY <1>5, <1>7, <1>8 DEF PerformInv

\* Xray shows what is asked.
LEMMA WatchKeeps == ASSUME IInv, PerformInv, NEW p \in Proc, Watch(p) PROVE PerformInv'
<1>1. /\ Running(p) /\ stage \in {"watch", "watch_forced"} /\ stage' = "verify"
      /\ Ready(req[p])
      /\ UNCHANGED <<row, latest, phase, wire, client, serving, sessions, expired, post, req,
                     pc, before, renewed>>
  BY DEF Watch, vars, panel
<1>2. before' \in [Key -> Clients] /\ renewed' \in BOOLEAN
  BY <1>1 DEF PerformInv, ExecTypeOK
<1>3. Running(p)'
  BY <1>1 DEF Running
<1>4. /\ ExecTypeOK' /\ GenerationInv' /\ PostInv' /\ SessionInv'
      /\ DisableHolds' /\ ProvisionHolds'
      /\ \A q \in Proc : Running(q)' => q = p
  BY <1>1, <1>2, <1>3, StepKeeps
<1>5. post = NoPost
  BY <1>1 DEF PerformInv, StageInv
<1>6. StageInv' /\ BeforeInv'
  BY <1>1, <1>3, <1>4, <1>5 DEF StageInv, BeforeInv
<1>7. ChangeInv'
  BY <1>1, <1>4 DEF PerformInv, ChangeInv, Ready, Enabled, TermsFor
<1> QED BY <1>4, <1>6, <1>7 DEF PerformInv

\* The record was verified, only the process is still the old one.
LEMMA ForceRestartKeeps == ASSUME IInv, PerformInv, NEW p \in Proc, ForceRestart(p) PROVE PerformInv'
<1>1. /\ Running(p) /\ stage = "watch" /\ stage' = "restart" /\ req[p].action # "provision"
      /\ UNCHANGED <<row, latest, phase, wire, client, serving, sessions, expired, post, req,
                     pc, before, renewed>>
  BY DEF ForceRestart, vars, panel
<1>2. before' \in [Key -> Clients] /\ renewed' \in BOOLEAN
  BY <1>1 DEF PerformInv, ExecTypeOK
<1>3. Running(p)'
  BY <1>1 DEF Running
<1>4. /\ ExecTypeOK' /\ GenerationInv' /\ PostInv' /\ SessionInv'
      /\ DisableHolds' /\ ProvisionHolds'
      /\ \A q \in Proc : Running(q)' => q = p
  BY <1>1, <1>2, <1>3, StepKeeps
<1>5. post = NoPost
  BY <1>1 DEF PerformInv, StageInv
<1>6. StageInv' /\ BeforeInv'
  BY <1>1, <1>3, <1>4, <1>5 DEF StageInv, BeforeInv
<1>7. ChangeInv'
  BY <1>1, <1>4 DEF PerformInv, ChangeInv, Enabled, TermsFor
<1> QED BY <1>4, <1>6, <1>7 DEF PerformInv

\* The POST leaves: the only one, of the operation that is inside the gate.
LEMMA PostKeeps == ASSUME IInv, PerformInv, NEW p \in Proc, Post(p) PROVE PerformInv'
<1> DEFINE r == req[p]
           route == IF stage = "post_change" THEN Route(r) ELSE "restart"
<1>1. /\ Running(p) /\ stage \in {"post_change", "post_restart"}
      /\ wire' = wire \cup {r.id} /\ post' = [req |-> r, route |-> route]
      /\ stage' = IF stage = "post_change" THEN "sent" ELSE "restart_sent"
      /\ UNCHANGED <<row, phase, latest, pc, req, client, serving, sessions, renewed, expired,
                     before>>
  BY DEF Post, journal, process, panel
<1>2. /\ r \in Requests /\ r.key \in Key /\ row[r.id] = r /\ latest[r.key] = r.gen
      /\ \A q \in Proc : Running(q) => q = p
  BY <1>1, RunnerFacts
<1>3. post = NoPost /\ wire = {}
  BY <1>1 DEF PerformInv, StageInv, PostInv
<1>4. route \in Routes \ {"none"}
  <2>1. CASE stage = "post_change"
    <3>1. Route(r) # "none" /\ before[r.key] \in Clients
      BY <1>1, <1>2, <2>1 DEF PerformInv, BeforeInv, ExecTypeOK
    <3> QED BY <2>1, <3>1, RouteFacts DEF Routes
  <2>2. CASE stage = "post_restart"
    BY <2>2 DEF Routes
  <2> QED BY <1>1, <2>1, <2>2
<1>5. post' \in Posts /\ post' # NoPost /\ post'.req = r /\ post'.route = route
  <2> HIDE DEF r, route
  <2>1. post' \in Posts /\ post'.req = r /\ post'.route = route
    BY <1>1, <1>2, <1>4 DEF Posts
  <2> QED BY <2>1, TermsAssumption
<1>6. Running(p)' /\ \A q \in Proc : Running(q)' => q = p
  BY <1>1, <1>2 DEF Running
<1>7. Route(r)' = Route(r)
  BY <1>1 DEF Route, Desired, TermsFor
<1>8. ExecTypeOK' /\ GenerationInv' /\ SessionInv'
  BY <1>1, <1>5 DEF PerformInv, ExecTypeOK, GenerationInv, SessionInv, Stored
<1>9. PostInv'
  BY <1>1, <1>2, <1>3, <1>5 DEF PostInv
<1>10. StageInv'
  BY <1>1, <1>5, <1>6, <1>7 DEF PerformInv, StageInv
<1>11. BeforeInv' /\ ChangeInv'
  BY <1>1, <1>6, <1>7 DEF PerformInv, BeforeInv, ChangeInv, Enabled, TermsFor
<1>12. DisableHolds' /\ ProvisionHolds'
  BY <1>1 DEF PerformInv, DisableHolds, ProvisionHolds, Newest, Stored, TermsFor
<1> QED BY <1>8, <1>9, <1>10, <1>11, <1>12 DEF PerformInv

\* Success: the record and Xray are as asked, and stay so.
LEMMA SucceedKeeps == ASSUME IInv, PerformInv, NEW p \in Proc, Succeed(p) PROVE PerformInv'
<1> DEFINE r == req[p]
<1>1. /\ Running(p) /\ stage = "verify" /\ stage' = "none"
      /\ Verified(r)
      /\ r.action = "provision" => TermsFor(r) \notin expired
      /\ phase' = [phase EXCEPT ![r.id] = "observed"]
      /\ pc' = [pc EXCEPT ![p] = "closing"]
      /\ UNCHANGED <<row, latest, wire, post, req, client, serving, sessions, renewed, expired,
                     before>>
  BY DEF Succeed, Conclude, Close, effects, panel
<1>2. /\ r \in Requests /\ r.key \in Key /\ r.id \in OperationId /\ row[r.id] = r
      /\ TermsFor(r) \in Terms
      /\ \A q \in Proc : Running(q) => q = p
  BY <1>1, RunnerFacts
<1>3. \A q \in Proc : ~ Running(q)'
  BY <1>1, <1>2 DEF IInv, TypeOK, Running
<1>4. ExecTypeOK' /\ GenerationInv' /\ PostInv' /\ SessionInv'
  BY <1>1 DEF PerformInv, ExecTypeOK, GenerationInv, PostInv, SessionInv, Stored
<1>5. StageInv' /\ BeforeInv' /\ ChangeInv'
  BY <1>1, <1>3 DEF StageInv, BeforeInv, ChangeInv
<1>6. \A i \in OperationId : phase'[i] = "observed" => phase[i] = "observed" \/ i = r.id
  BY <1>1 DEF IInv, TypeOK
<1>7. r.action # "provision" =>
        client[r.key].state = "disabled" /\ r.key \notin serving /\ r.key \notin sessions
  BY <1>1 DEF PerformInv, ChangeInv, SessionInv
<1>8. r.action = "provision" =>
        client[r.key] = Client("enabled", TermsFor(r)) /\ r.key \in serving
  BY <1>1 DEF PerformInv, ChangeInv, Verified, Desired
<1>9. DisableHolds'
  BY <1>1, <1>2, <1>6, <1>7 DEF PerformInv, DisableHolds, Newest, Stored
<1>10. ProvisionHolds'
  BY <1>1, <1>2, <1>6, <1>8 DEF PerformInv, ProvisionHolds, Newest, Stored, TermsFor
<1> QED BY <1>4, <1>5, <1>9, <1>10 DEF PerformInv

-----------------------------------------------------------------------------
(* Steps of the panel, Xray and the customers                              *)

\* A POST that is lost or refused changes nothing.
LEMMA RejectKeeps == ASSUME IInv, PerformInv, Reject PROVE PerformInv'
<1>1. /\ post # NoPost /\ post' = NoPost /\ wire' = wire \ {post.req.id}
      /\ UNCHANGED <<row, phase, latest, pc, req, client, serving, sessions, renewed, expired,
                     before, stage>>
  BY DEF Reject, Land, journal, process, history, panel
<1>2. wire' = {}
  BY <1>1 DEF PerformInv, PostInv
<1>3. ExecTypeOK' /\ GenerationInv' /\ SessionInv' /\ PostInv'
  BY <1>1, <1>2 DEF PerformInv, ExecTypeOK, GenerationInv, SessionInv, PostInv, Stored
<1>4. \A q \in Proc : Running(q)' = Running(q) /\ Route(req[q])' = Route(req[q])
  BY <1>1 DEF Running, Route, Desired, TermsFor
<1>5. StageInv'
  BY <1>1, <1>4 DEF PerformInv, StageInv
<1>6. BeforeInv'
  BY <1>1, <1>4 DEF PerformInv, BeforeInv
<1>7. ChangeInv'
  BY <1>1, <1>4 DEF PerformInv, ChangeInv, Enabled, TermsFor
<1>8. DisableHolds' /\ ProvisionHolds'
  BY <1>1 DEF PerformInv, DisableHolds, ProvisionHolds, Newest, Stored, TermsFor
<1> QED BY <1>3, <1>5, <1>6, <1>7, <1>8 DEF PerformInv

\* What the panel makes of a POST is what its request wants; the client of
\* every other key, and so every other observed operation, is left alone.
LEMMA ApplyKeeps == ASSUME IInv, PerformInv, Apply PROVE PerformInv'
<1> DEFINE r == post.req
           k == post.req.key
           new == CASE post.route \in {"add", "update"} -> Client("enabled", TermsFor(post.req))
                    [] post.route = "enable" -> [client[k] EXCEPT !.state = "enabled"]
                    [] OTHER -> [client[k] EXCEPT !.state = "disabled"]
<1>1. /\ post # NoPost /\ post' = NoPost /\ wire' = wire \ {post.req.id}
      /\ stage' = Answered
      /\ UNCHANGED <<row, phase, latest, pc, req, expired, before>>
  BY DEF Apply, Land, journal, process, history
<1>2. \/ /\ post.route = "restart" /\ serving' = {j \in Key : Enabled(j)}
         /\ sessions' = {} /\ renewed' = TRUE /\ client' = client
      \/ /\ post.route # "restart" /\ ((client[k] = Absent) <=> (post.route = "add"))
         /\ client' = [client EXCEPT ![k] = new]
         /\ UNCHANGED <<serving, sessions, renewed>>
  BY DEF Apply, Restarted
<1> HIDE DEF new
<1>3. /\ r \in Requests /\ r.id \in OperationId /\ k \in Key /\ TermsFor(r) \in Terms
      /\ Stored(r.id) /\ row[r.id] = r /\ latest[k] = r.gen
      /\ phase[r.id] \in {"mutating", "uncertain"} /\ post.route \in Routes \ {"none"}
  BY <1>1, PostFacts DEF PerformInv, PostInv
<1>4. ExecTypeOK /\ SessionInv /\ client[k] \in Clients /\ before[k] \in Clients
  BY <1>3 DEF PerformInv, ExecTypeOK
<1>5. /\ client[k] # Absent => client[k] \in [state: {"enabled", "disabled"}, terms: Terms]
      /\ before[k] # Absent => before[k] \in [state: {"enabled", "disabled"}, terms: Terms]
  BY <1>4 DEF Clients
<1>6. \A q \in Proc : Running(q)' = Running(q)
  BY <1>1 DEF Running
<1>7. post.route # "restart" => new \in Clients
  <2> SUFFICES ASSUME post.route # "restart" PROVE new \in Clients
    OBVIOUS
  <2>1. CASE post.route \in {"add", "update"}
    BY <1>3, <2>1 DEF new, Client, Clients
  <2>2. CASE post.route \notin {"add", "update"}
    <3>1. client[k] \in [state: {"enabled", "disabled"}, terms: Terms]
      BY <1>2, <1>5, <2>2
    <3>2. new = [client[k] EXCEPT !.state = "enabled"] \/ new = [client[k] EXCEPT !.state = "disabled"]
      BY <2>2 DEF new
    <3> QED BY <3>1, <3>2 DEF Clients
  <2> QED BY <2>1, <2>2
<1>8. ExecTypeOK'
  <2>1. client' \in [Key -> Clients]
    BY <1>2, <1>4, <1>7 DEF ExecTypeOK
  <2>2. serving' \subseteq Key /\ sessions' \subseteq Key /\ renewed' \in BOOLEAN
    BY <1>2, <1>4 DEF ExecTypeOK
  <2> QED BY <1>1, <1>4, <2>1, <2>2 DEF ExecTypeOK, Answered
<1>9. GenerationInv' /\ PostInv' /\ SessionInv'
  <2>1. wire' = {}
    BY <1>1 DEF PerformInv, PostInv
  <2>2. SessionInv'
    BY <1>2, <1>4 DEF SessionInv
  <2> QED BY <1>1, <2>1, <2>2 DEF PerformInv, GenerationInv, PostInv, Stored
<1>10. StageInv'
  BY <1>1, <1>6 DEF PerformInv, StageInv, Answered
<1>11. ASSUME NEW p \in Proc, Running(p)
       PROVE  /\ req[p] = r /\ req'[p] = r
              /\ \/ /\ stage = "sent" /\ post.route = Route(r) /\ stage' = "watch"
                 \/ /\ stage = "restart_sent" /\ post.route = "restart"
                    /\ stage' = "watch_forced"
  BY <1>1, <1>11 DEF PerformInv, StageInv, Answered
<1>12. BeforeInv'
  BY <1>6, <1>11 DEF BeforeInv
<1>13. ChangeInv'
  <2> SUFFICES ASSUME NEW p \in Proc, Running(p)
               PROVE  /\ r.action = "provision" =>
                           /\ client'[k] # Absent /\ client'[k].terms = TermsFor(r)
                           /\ client'[k].state = "enabled"
                      /\ r.action # "provision" => client'[k].state = "disabled"
    BY <1>6, <1>11 DEF ChangeInv, Enabled, TermsFor
  <2>1. CASE stage = "sent"
    <3>1. post.route = Route(r) /\ Route(r) \in {"none", "add", "update", "enable", "disable"}
      BY <1>4, <1>11, <2>1, RouteFacts
    <3>2. client'[k] = new /\ (client[k] = Absent <=> post.route = "add")
      BY <1>2, <1>3, <1>4, <3>1 DEF ExecTypeOK
    <3>3. /\ \/ client[k] = before[k]
             \/ before[k] # Absent /\ client[k] = [before[k] EXCEPT !.state = "disabled"]
          /\ r.action # "provision" => before[k] # Absent
      BY <1>11, <2>1 DEF PerformInv, BeforeInv
    <3>4. CASE post.route \in {"add", "update"}
      <4>1. client'[k] = Client("enabled", TermsFor(r))
        BY <3>2, <3>4 DEF new
      <4>2. r.action = "provision"
        BY <1>4, <3>1, <3>3, <3>4, RouteFacts
      <4> QED BY <4>1, <4>2 DEF Client, Absent
    <3>5. CASE post.route = "enable"
      <4>1. /\ r.action = "provision" /\ before[k] # Absent /\ before[k].terms = TermsFor(r)
        BY <1>4, <3>1, <3>5, RouteFacts
      <4>2. client'[k] = [client[k] EXCEPT !.state = "enabled"]
        BY <3>2, <3>5 DEF new
      <4>3. client[k] \in [state: {"enabled", "disabled"}, terms: Terms]
        BY <1>5, <3>2, <3>5
      <4>4. client[k].terms = TermsFor(r)
        BY <1>5, <3>3, <4>1
      <4>5. client'[k] = [state |-> "enabled", terms |-> TermsFor(r)]
        BY <4>2, <4>3, <4>4
      <4> QED BY <4>1, <4>5 DEF Absent
    <3>6. CASE post.route = "disable"
      <4>1. r.action # "provision"
        BY <1>4, <3>1, <3>6, RouteFacts
      <4>2. client'[k] = [client[k] EXCEPT !.state = "disabled"]
        BY <3>2, <3>6 DEF new
      <4>3. client[k] \in [state: {"enabled", "disabled"}, terms: Terms]
        BY <1>5, <3>2, <3>6
      <4> QED BY <4>1, <4>2, <4>3
    <3> QED BY <1>3, <3>1, <3>4, <3>5, <3>6
  <2>2. CASE stage = "restart_sent"
    <3>1. client' = client
      BY <1>2, <1>11, <2>2
    <3> QED BY <1>11, <2>2, <3>1 DEF PerformInv, StageInv, ChangeInv
  <2> QED BY <1>11, <2>1, <2>2
<1>14. ASSUME NEW i \in OperationId, Newest(i)', phase'[i] = "observed"
       PROVE  /\ Newest(i) /\ phase[i] = "observed" /\ row'[i] = row[i]
              /\ row[i].key \in Key /\ row[i].key # k
  <2>1. Newest(i) /\ phase[i] = "observed" /\ row'[i] = row[i]
    BY <1>1, <1>14 DEF Newest, Stored
  <2>2. i # r.id
    BY <1>3, <2>1
  <2>3. row[i].key # k
    BY <1>3, <2>1, <2>2 DEF PerformInv, GenerationInv, Newest
  <2>4. row[i].key \in Key
    BY <2>1, RequestsAssumption DEF Newest, Stored, IInv, TypeOK
  <2> QED BY <2>1, <2>3, <2>4
<1>15. ASSUME NEW j \in Key, j # k
       PROVE  /\ client'[j] = client[j]
              /\ j \in serving' <=> IF post.route = "restart" THEN Enabled(j) ELSE j \in serving
              /\ j \in sessions' => j \in sessions
  <2>1. client'[j] = client[j]
    BY <1>2, <1>4, <1>15 DEF ExecTypeOK
  <2> QED BY <1>2, <2>1
<1>16. DisableHolds'
  <2> SUFFICES ASSUME NEW i \in OperationId, Newest(i)', phase'[i] = "observed",
                      row'[i].action # "provision"
               PROVE  /\ client'[row'[i].key].state = "disabled"
                      /\ row'[i].key \notin serving' /\ row'[i].key \notin sessions'
    BY DEF DisableHolds
  <2>1. /\ client[row[i].key].state = "disabled"
        /\ row[i].key \notin serving /\ row[i].key \notin sessions
    BY <1>14 DEF PerformInv, DisableHolds
  <2> QED BY <1>14, <1>15, <2>1 DEF Enabled
<1>17. ProvisionHolds'
  <2> SUFFICES ASSUME NEW i \in OperationId, Newest(i)', phase'[i] = "observed",
                      row'[i].action = "provision", TermsFor(row'[i]) \notin expired'
               PROVE  /\ client'[row'[i].key] = Client("enabled", TermsFor(row'[i]))
                      /\ row'[i].key \in serving'
    BY DEF ProvisionHolds, TermsFor
  <2>1. Newest(i) /\ phase[i] = "observed" /\ row'[i] = row[i] /\ row[i].key \in Key /\ row[i].key # k
    BY <1>14
  <2>2. client[row[i].key] = Client("enabled", TermsFor(row[i])) /\ row[i].key \in serving
    BY <1>1, <2>1 DEF PerformInv, ProvisionHolds
  <2>3. Enabled(row[i].key)
    BY <2>2 DEF Enabled, Client
  <2> QED BY <1>15, <2>1, <2>2, <2>3
<1> QED BY <1>8, <1>9, <1>10, <1>12, <1>13, <1>16, <1>17 DEF PerformInv

\* What the environment does by itself enables no client and forgets no
\* connection without a restart.
Spontaneous ==
  /\ UNCHANGED <<vars, callback>>
  /\ \A k \in Key :
       \/ client'[k] = client[k]
       \/ /\ Enabled(k) /\ client[k].terms \in expired
          /\ client'[k] = [client[k] EXCEPT !.state = "disabled"]
  /\ \A k \in serving' : k \in serving \/ Enabled(k)
  /\ \A k \in Key : k \in serving /\ Enabled(k) => k \in serving'
  /\ sessions' \subseteq serving'
  /\ expired \subseteq expired'
  /\ client' \in [Key -> Clients] /\ serving' \subseteq Key
  /\ renewed' \in BOOLEAN /\ expired' \subseteq Limited

\* These are the steps of the environment beside a POST.
LEMMA SpontaneousSteps ==
  ASSUME PerformInv,
         \/ XrayRestart \/ \E k \in Key : HotAdd(k) \/ Connect(k) \/ AutoDisable(k)
         \/ \E t \in Terms : Expire(t)
  PROVE  Spontaneous
<1>0. ExecTypeOK /\ SessionInv
  BY DEF PerformInv
<1>1. CASE XrayRestart
  BY <1>0, <1>1 DEF XrayRestart, Restarted, Spontaneous, ExecTypeOK
<1>2. ASSUME NEW k \in Key, HotAdd(k) PROVE Spontaneous
  BY <1>0, <1>2 DEF HotAdd, Spontaneous, ExecTypeOK, SessionInv
<1>3. ASSUME NEW k \in Key, Connect(k) PROVE Spontaneous
  BY <1>0, <1>3 DEF Connect, Spontaneous, ExecTypeOK, SessionInv
<1>4. ASSUME NEW k \in Key, AutoDisable(k) PROVE Spontaneous
  <2>1. client[k] \in [state: {"enabled", "disabled"}, terms: Terms]
    BY <1>0, <1>4 DEF AutoDisable, ExecTypeOK, Enabled, Clients, Absent
  <2>2. [client[k] EXCEPT !.state = "disabled"] \in Clients
    BY <2>1 DEF Clients
  <2>3. client' \in [Key -> Clients]
    BY <1>0, <1>4, <2>2 DEF AutoDisable, ExecTypeOK
  <2> QED BY <1>0, <1>4, <2>3 DEF AutoDisable, Spontaneous, ExecTypeOK, SessionInv
<1>5. ASSUME NEW t \in Terms, Expire(t) PROVE Spontaneous
  BY <1>0, <1>5 DEF Expire, Spontaneous, ExecTypeOK, SessionInv
<1> QED BY <1>1, <1>2, <1>3, <1>4, <1>5

\* A client that is disabled stays so, and out of Xray once it is out; one that
\* is enabled on terms that last stays so, and let in.
LEMMA SpontaneousClients ==
  ASSUME PerformInv, Spontaneous, NEW k \in Key
  PROVE  /\ client[k].state = "disabled" => client'[k].state = "disabled"
         /\ client[k].state = "disabled" /\ k \notin serving =>
              k \notin serving' /\ k \notin sessions'
         /\ client[k] # Absent =>
              client'[k] # Absent /\ client'[k].terms = client[k].terms
         /\ Enabled(k) /\ client[k].terms \notin expired =>
              client'[k] = client[k] /\ (k \in serving => k \in serving')
<1>1. client[k] \in Clients /\ sessions \subseteq serving
  BY DEF PerformInv, ExecTypeOK, SessionInv
<1>2. client'[k] = client[k] \/
        (Enabled(k) /\ client[k].terms \in expired
          /\ client'[k] = [client[k] EXCEPT !.state = "disabled"])
  BY DEF Spontaneous
<1>3. client[k] # Absent => client[k] \in [state: {"enabled", "disabled"}, terms: Terms]
  BY <1>1 DEF Clients
<1>4. Enabled(k) => client[k] # Absent
  BY DEF Enabled, Absent
<1>5. client[k] # Absent => client'[k] # Absent /\ client'[k].terms = client[k].terms
  BY <1>2, <1>3, <1>4 DEF Absent
<1>6. client[k].state = "disabled" => ~ Enabled(k)
  BY DEF Enabled
<1>7. /\ k \in serving' => k \in serving \/ Enabled(k)
      /\ k \in sessions' => k \in serving'
      /\ k \in serving /\ Enabled(k) => k \in serving'
  BY DEF Spontaneous
<1> QED BY <1>2, <1>5, <1>6, <1>7

\* So what was observed, and what the callback relies on, stays true.
LEMMA SpontaneousKeeps == ASSUME IInv, PerformInv, Spontaneous PROVE PerformInv'
<1>1. /\ UNCHANGED <<row, phase, latest, wire, pc, req, post, stage, before>>
      /\ expired \subseteq expired'
      /\ client' \in [Key -> Clients]
  BY DEF Spontaneous, vars, callback
<1>2. ExecTypeOK' /\ GenerationInv' /\ PostInv' /\ SessionInv'
  <2>1. ExecTypeOK' /\ SessionInv'
    BY <1>1 DEF PerformInv, ExecTypeOK, SessionInv, Spontaneous
  <2>2. GenerationInv' /\ PostInv'
    BY <1>1 DEF PerformInv, GenerationInv, PostInv, Stored
  <2> QED BY <2>1, <2>2
<1>3. StageInv'
  BY <1>1 DEF PerformInv, StageInv, Running, Route, Desired, TermsFor
<1>4. BeforeInv'
  <2> SUFFICES ASSUME NEW p \in Proc, Running(p)',
                      stage' \in {"observe", "change", "post_change", "sent"}
               PROVE  LET k == req'[p].key IN
                      /\ \/ client'[k] = before'[k]
                         \/ /\ before'[k] # Absent /\ before'[k].terms \in expired'
                            /\ client'[k] = [before'[k] EXCEPT !.state = "disabled"]
                      /\ stage' # "observe" =>
                           /\ Route(req[p])' # "none"
                           /\ req'[p].action # "provision" => before'[k] # Absent
    BY DEF BeforeInv
  <2> DEFINE k == req[p].key
  <2>1. Running(p) /\ stage \in {"observe", "change", "post_change", "sent"} /\ req'[p] = req[p]
    BY <1>1 DEF Running
  <2>2. k \in Key
    BY <2>1, RunnerFacts
  <2>3. /\ \/ client[k] = before[k]
           \/ /\ before[k] # Absent /\ before[k].terms \in expired
              /\ client[k] = [before[k] EXCEPT !.state = "disabled"]
        /\ stage # "observe" =>
             /\ Route(req[p]) # "none"
             /\ req[p].action # "provision" => before[k] # Absent
    BY <2>1 DEF PerformInv, BeforeInv
  <2>4. \/ client'[k] = client[k]
        \/ /\ Enabled(k) /\ client[k] # Absent /\ client[k].terms \in expired
           /\ client'[k] = [client[k] EXCEPT !.state = "disabled"]
    BY <2>2 DEF Spontaneous, Enabled, Absent
  <2>5. before[k] # Absent => before[k] \in [state: {"enabled", "disabled"}, terms: Terms]
    BY <2>2 DEF PerformInv, ExecTypeOK, Clients
  <2>6. \/ client'[k] = before[k]
        \/ /\ before[k] # Absent /\ before[k].terms \in expired
           /\ client'[k] = [before[k] EXCEPT !.state = "disabled"]
    <3>1. CASE client[k] = before[k]
      BY <2>4, <3>1
    <3>2. CASE before[k] # Absent /\ client[k] = [before[k] EXCEPT !.state = "disabled"]
      <4>1. ~ Enabled(k)
        BY <2>5, <3>2 DEF Enabled
      <4> QED BY <2>3, <2>4, <4>1
    <3> QED BY <2>3, <3>1, <3>2
  <2>7. Route(req[p])' = Route(req[p])
    BY <1>1 DEF Route, Desired, TermsFor
  <2> QED BY <1>1, <2>1, <2>3, <2>6, <2>7
<1>5. ChangeInv'
  <2> SUFFICES ASSUME NEW p \in Proc, Running(p)',
                      stage' \in {"watch", "verify", "restart", "post_restart", "restart_sent",
                                  "watch_forced"}
               PROVE  LET r == req[p] IN
                      /\ r.action = "provision" =>
                           /\ client'[r.key] # Absent /\ client'[r.key].terms = TermsFor(r)
                           /\ client'[r.key].state = "enabled" \/ TermsFor(r) \in expired'
                           /\ stage' = "verify" => r.key \in serving' \/ TermsFor(r) \in expired'
                      /\ r.action # "provision" =>
                           /\ client'[r.key].state = "disabled"
                           /\ stage' = "verify" => r.key \notin serving'
    BY <1>1 DEF ChangeInv, Enabled, TermsFor
  <2> DEFINE r == req[p]
  <2>1. Running(p) /\ stage' = stage /\ expired \subseteq expired'
    BY <1>1 DEF Running
  <2>2. r.key \in Key
    BY <2>1, RunnerFacts
  <2>3. /\ r.action = "provision" =>
             /\ client[r.key] # Absent /\ client[r.key].terms = TermsFor(r)
             /\ Enabled(r.key) \/ TermsFor(r) \in expired
             /\ stage = "verify" => r.key \in serving \/ TermsFor(r) \in expired
        /\ r.action # "provision" =>
             /\ client[r.key].state = "disabled"
             /\ stage = "verify" => r.key \notin serving
    BY <2>1 DEF PerformInv, ChangeInv
  <2> QED BY <2>1, <2>2, <2>3, SpontaneousClients DEF Enabled
<1>6. \A i \in OperationId : Newest(i) => row[i].key \in Key
  BY RequestsAssumption DEF Newest, Stored, IInv, TypeOK
<1>7. DisableHolds'
  BY <1>1, <1>6, SpontaneousClients DEF PerformInv, DisableHolds, Newest, Stored
<1>8. ProvisionHolds'
  <2> SUFFICES ASSUME NEW i \in OperationId, Newest(i)', phase'[i] = "observed",
                      row'[i].action = "provision", TermsFor(row'[i]) \notin expired'
               PROVE  /\ client'[row'[i].key] = Client("enabled", TermsFor(row'[i]))
                      /\ row'[i].key \in serving'
    BY DEF ProvisionHolds, TermsFor
  <2>1. Newest(i) /\ row'[i] = row[i] /\ TermsFor(row[i]) \notin expired /\ row[i].key \in Key
    BY <1>1, <1>6 DEF Newest, Stored
  <2>2. client[row[i].key] = Client("enabled", TermsFor(row[i])) /\ row[i].key \in serving
    BY <1>1, <2>1 DEF PerformInv, ProvisionHolds
  <2>3. Enabled(row[i].key) /\ client[row[i].key].terms = TermsFor(row[i])
    BY <2>2 DEF Enabled, Client
  <2> QED BY <2>1, <2>2, <2>3, SpontaneousClients
<1> QED BY <1>2, <1>3, <1>4, <1>5, <1>7, <1>8 DEF PerformInv

-----------------------------------------------------------------------------
(* The theorems                                                            *)

\* Every step of the node keeps what the callback relies on.
LEMMA NextXInv == XInv /\ [ExecNext]_execVars => XInv'
<1> SUFFICES ASSUME IInv, PerformInv, [ExecNext]_execVars PROVE IInv' /\ PerformInv'
  BY DEF XInv
<1>1. IInv'
  BY ContractStep, NextIInv
<1>2. ASSUME NEW p \in Proc,
             \/ Outside(p) \/ Enter(p) \/ Kill(p) \/ MarkError(p) \/ Raise(p)
      PROVE  PerformInv'
  BY <1>2, OutsideKeeps, EnterKeeps, FailureKeeps
<1>3. ASSUME NEW p \in Proc,
             \/ Snapshot(p) \/ Preflight(p) \/ Mark(p) \/ Post(p) \/ Watch(p) \/ Succeed(p)
             \/ ForceRestart(p)
      PROVE  PerformInv'
  BY <1>3, SnapshotKeeps, PreflightKeeps, MarkKeeps, PostKeeps, WatchKeeps, SucceedKeeps,
     ForceRestartKeeps
<1>4. ASSUME Apply \/ Reject PROVE PerformInv'
  BY <1>4, ApplyKeeps, RejectKeeps
<1>5. ASSUME \/ XrayRestart \/ \E k \in Key : HotAdd(k) \/ Connect(k) \/ AutoDisable(k)
             \/ \E t \in Terms : Expire(t)
      PROVE  PerformInv'
  BY <1>5, SpontaneousSteps, SpontaneousKeeps
<1>6. ASSUME UNCHANGED execVars PROVE PerformInv'
  <2>1. UNCHANGED <<row, latest, wire, executor, phase, pc, req>>
    BY <1>6 DEF execVars, vars
  <2> QED BY <2>1, ApartKeeps DEF Running
<1>7. PerformInv'
  BY <1>2, <1>3, <1>4, <1>5, <1>6 DEF ExecNext
<1> QED BY <1>1, <1>7

\* Whatever is killed, refused, lost or late, the journal and the callback keep
\* the invariant on which everything below rests.
THEOREM ExecInductiveInvariant == ExecSpec => []XInv
<1>1. ExecInit => XInv
  BY InitXInv
<1>2. XInv /\ [ExecNext]_execVars => XInv'
  BY NextXInv
<1> QED BY <1>1, <1>2, PTL DEF ExecSpec

\* The panel, Xray and the callback only take values of their types.
THEOREM ExecTypeCorrectness == ExecSpec => []ExecTypeOK
<1>1. XInv => ExecTypeOK
  BY DEF XInv, PerformInv
<1> QED BY <1>1, ExecInductiveInvariant, PTL

\* The callback marks before it sends and returns success only after the panel
\* answered, so the node as deployed is a journal run by a callback that keeps
\* its contract, and everything proved of the journal holds of it.
THEOREM NodeKeepsContract == ExecSpec => KeepsContract
<1>1. ExecInit => Init
  BY DEF ExecInit
<1>2. XInv /\ [ExecNext]_execVars => [Next]_vars
  BY ContractStep DEF XInv
<1> QED BY <1>1, <1>2, ExecInductiveInvariant, PTL DEF ExecSpec, KeepsContract, Spec

\* So the real node is the node the control server relies on: one operation at
\* a time, each settled for good.
THEOREM DeployedNodeImplementsNode == ExecSpec => ImplementsNode
  BY NodeKeepsContract, JournalImplementsNode, PTL DEF KeepsContract

\* A suspend or revoke that was observed stays true of the panel, of Xray and
\* of every open connection until something newer of its key is accepted.
THEOREM ObservedDisablesHold == ExecSpec => []DisableHolds
<1>1. XInv => DisableHolds
  BY DEF XInv, PerformInv
<1> QED BY <1>1, ExecInductiveInvariant, PTL

\* A provision that was observed stays true of the panel and of Xray until
\* something newer of its key is accepted or its terms run out.
THEOREM ObservedProvisionsHold == ExecSpec => []ProvisionHolds
<1>1. XInv => ProvisionHolds
  BY DEF XInv, PerformInv
<1> QED BY <1>1, ExecInductiveInvariant, PTL

\* Only the newest operation of a key changes its client, however late an older
\* request reaches the panel.
THEOREM NewestOperationDecides == ExecSpec => NewestDecides
<1> DEFINE Decided ==
      \A k \in Key : client'[k] # client[k] =>
        \/ client[k] # Absent /\ client[k].terms \in expired
        \/ \E i \in OperationId :
             Newest(i) /\ row[i].key = k /\ phase[i] \in {"mutating", "uncertain"}
<1>1. IInv /\ PerformInv /\ Apply => Decided
  <2> SUFFICES ASSUME IInv, PerformInv, Apply, NEW k \in Key, client'[k] # client[k]
               PROVE  \E i \in OperationId :
                        Newest(i) /\ row[i].key = k /\ phase[i] \in {"mutating", "uncertain"}
    OBVIOUS
  <2>1. post # NoPost /\ client \in [Key -> Clients]
    BY DEF Apply, PerformInv, ExecTypeOK
  <2>2. k = post.req.key
    BY <2>1 DEF Apply, Restarted
  <2>3. /\ post.req.id \in OperationId /\ Stored(post.req.id)
        /\ phase[post.req.id] \in {"mutating", "uncertain"}
    BY <2>1, PostFacts
  <2>4. row[post.req.id] = post.req /\ latest[post.req.key] = post.req.gen
    BY <2>1 DEF PerformInv, PostInv
  <2> QED BY <2>2, <2>3, <2>4 DEF Newest
<1>2. PerformInv /\ (\E k \in Key : AutoDisable(k)) => Decided
  <2> SUFFICES ASSUME PerformInv, NEW j \in Key, AutoDisable(j), NEW k \in Key,
                      client'[k] # client[k]
               PROVE  client[k] # Absent /\ client[k].terms \in expired
    OBVIOUS
  <2>1. j = k /\ Enabled(j) /\ client[j].terms \in expired
    BY DEF AutoDisable, PerformInv, ExecTypeOK
  <2> QED BY <2>1 DEF Enabled, Absent
<1>3. ASSUME NEW p \in Proc,
             \/ Outside(p) \/ Enter(p) \/ Snapshot(p) \/ Preflight(p) \/ Mark(p)
             \/ MarkError(p) \/ Post(p) \/ Watch(p) \/ Succeed(p) \/ ForceRestart(p)
             \/ Raise(p) \/ Kill(p)
      PROVE  client' = client
  BY <1>3 DEF Outside, Enter, Snapshot, Preflight, Mark, MarkError, Post, Watch, Succeed,
     ForceRestart, Raise, Kill, executor, panel
<1>4. ASSUME \/ Reject \/ XrayRestart
             \/ \E k \in Key : HotAdd(k) \/ Connect(k)
             \/ \E t \in Terms : Expire(t)
      PROVE  client' = client
  BY <1>4 DEF Reject, XrayRestart, HotAdd, Connect, Expire, panel
<1>5. ASSUME UNCHANGED execVars PROVE client' = client
  BY <1>5 DEF execVars, executor
<1>6. XInv /\ [ExecNext]_execVars => Decided
  BY <1>1, <1>2, <1>3, <1>4, <1>5 DEF ExecNext, XInv
<1>7. XInv /\ [ExecNext]_execVars => [Decided]_execVars
  BY <1>6
<1> QED BY <1>7, ExecInductiveInvariant, PTL DEF ExecSpec, NewestDecides
=============================================================================
