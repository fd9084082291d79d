--------------------------- MODULE VpnNodeExecutor ---------------------------
(***************************************************************************)
(* The callback the node runs inside its journal                           *)
(* (vpn_xui_node_executor.py, perform): it changes one client in the 3x-UI *)
(* panel over HTTP and returns only when the panel's database and the      *)
(* running Xray process both show what was asked.  The panel, Xray and     *)
(* the customers' connections are the environment; disabling a client does *)
(* not remove it from a running Xray process, only a restart does.         *)
(***************************************************************************)
EXTENDS VpnNodeJournal

CONSTANTS Terms,      \* expiry and quota of a client
          Limited,    \* the terms that can run out
          TermsOf,    \* the terms a request digest stands for
          Creates,    \* digests of requests with allow_create
          NoPost

Absent == [state |-> "absent"]
Client(state, terms) == [state |-> state, terms |-> terms]
Clients == {Absent} \cup [state: {"enabled", "disabled"}, terms: Terms]
Routes == {"none", "add", "update", "enable", "disable", "restart"}
Posts == [req: Requests, route: Routes \ {"none"}]

ASSUME TermsAssumption ==
  /\ Limited \subseteq Terms
  /\ TermsOf \in [Digest -> Terms]
  /\ Creates \subseteq Digest
  /\ NoPost \notin Posts

VARIABLES client,    \* the panel's client records
          serving,   \* keys the running Xray process lets in
          sessions,  \* keys with a connection through that process
          renewed,   \* Xray was restarted since the run's first observation
          expired,   \* terms that have run out
          post,      \* the mutating request on its way to the panel
          stage,     \* where the callback is
          before     \* the clients it found

panel == <<client, serving, sessions, renewed, expired>>
callback == <<post, stage, before>>
executor == <<client, serving, sessions, renewed, expired, post, stage, before>>
execVars == <<vars, executor>>

Enabled(k) == client[k].state = "enabled"

ExecInit ==
  /\ Init
  /\ client = [k \in Key |-> Absent]
  /\ serving = {} /\ sessions = {} /\ renewed = FALSE /\ expired = {}
  /\ post = NoPost /\ stage = "none" /\ before = client

-----------------------------------------------------------------------------
(* The callback                                                            *)

TermsFor(r) == TermsOf[r.digest]

\* Mutant of Desired: an existing client keeps its terms.
DesiredOnOldTerms(r) ==
  IF r.action = "provision" /\ before[r.key] = Absent
  THEN Client("enabled", TermsFor(r))
  ELSE [before[r.key] EXCEPT !.state =
          IF r.action = "provision" THEN "enabled" ELSE "disabled"]

\* What the request wants the client record to be, given what it was.
Desired(r) ==
  IF r.action = "provision" THEN Client("enabled", TermsFor(r))
                            ELSE [before[r.key] EXCEPT !.state = "disabled"]

Route(r) ==
  CASE before[r.key] = Absent -> "add"
    [] before[r.key] = Desired(r) -> "none"
    [] r.action = "provision" /\ before[r.key] # Absent
       /\ before[r.key].terms # TermsFor(r) -> "update"
    [] OTHER -> IF r.action = "provision" THEN "enable" ELSE "disable"

\* Entering the callback, under the gate.
Enter(p) ==
  /\ Admit(p)
  /\ stage' = "snapshot"
  /\ UNCHANGED <<panel, post, before>>

\* _snapshot: the panel is read ...
Snapshot(p) ==
  /\ pc[p] = "performing" /\ stage = "snapshot"
  /\ before' = client
  /\ stage' = "observe"
  /\ UNCHANGED <<vars, panel, post>>

\* ... then Xray, and the request is checked against both.
Preflight(p) ==
  LET r == req[p] IN
  /\ pc[p] = "performing" /\ stage = "observe"
  /\ IF r.action = "provision" THEN TermsFor(r) \notin expired
                               ELSE before[r.key] # Absent
  /\ before[r.key] = Absent => r.digest \in Creates /\ r.key \notin serving
  /\ r.action = "provision" /\ Route(r) = "none" => r.key \in serving
  /\ renewed' = FALSE
  /\ stage' = IF Route(r) = "none" THEN "watch" ELSE "change"
  /\ UNCHANGED <<vars, client, serving, sessions, expired, post, before>>

\* Mutant of Mark: the restart is not counted as a mutation.
MarkChangeOnly(p) ==
  /\ Running(p) /\ stage \in {"change", "restart"}
  /\ IF stage = "change" THEN MarkMutating(p) ELSE UNCHANGED vars
  /\ stage' = IF stage = "change" THEN "post_change" ELSE "post_restart"
  /\ UNCHANGED <<panel, post, before>>

\* mark_mutating before either POST; it does nothing once marked.
Mark(p) ==
  /\ Running(p) /\ stage \in {"change", "restart"}
  /\ MarkMutating(p) \/ (pc[p] = "marked" /\ UNCHANGED vars)
  /\ stage' = IF stage = "change" THEN "post_change" ELSE "post_restart"
  /\ UNCHANGED <<panel, post, before>>

MarkError(p) ==
  /\ stage \in {"change", "restart"}
  /\ MarkFails(p)
  /\ stage' = "none"
  /\ UNCHANGED <<panel, post, before>>

\* panel.request: the POST leaves, whatever the journal thinks of it.
Post(p) ==
  LET r == req[p] IN
  /\ Running(p) /\ stage \in {"post_change", "post_restart"}
  /\ wire' = wire \cup {r.id} /\ sent' = sent \cup {r.id}
  /\ post' = [req |-> r, route |-> IF stage = "post_change" THEN Route(r) ELSE "restart"]
  /\ stage' = IF stage = "post_change" THEN "sent" ELSE "restart_sent"
  /\ UNCHANGED <<journal, process, history, panel, before>>

\* verify: the panel shows the wanted record and every other as it was.
Verified(r) ==
  /\ client[r.key] = Desired(r)
  /\ \A k \in Key \ {r.key} : client[k] = before[k]

\* Mutant of Ready: any restart since the first observation will do.
ReadyAfterRestart(r) == IF r.action = "provision" THEN r.key \in serving ELSE renewed

\* One poll of Xray shows the wanted state: the user is known, or the process
\* is a new one that does not know it.
Ready(r) == IF r.action = "provision" THEN r.key \in serving
                                      ELSE renewed /\ r.key \notin serving

Watch(p) ==
  /\ Running(p) /\ stage \in {"watch", "watch_forced"}
  /\ Ready(req[p])
  /\ stage' = "verify"
  /\ UNCHANGED <<vars, panel, post, before>>

Succeed(p) ==
  LET r == req[p] IN
  /\ Running(p) /\ stage = "verify"
  /\ Verified(r)
  /\ r.action = "provision" => TermsFor(r) \notin expired
  /\ Conclude(p, "observed")
  /\ stage' = "none"
  /\ UNCHANGED <<panel, post, before>>

\* The grace period ended with the old process still observed: one forced
\* restart, after the record was verified.
ForceRestart(p) ==
  LET r == req[p] IN
  /\ Running(p) /\ stage = "watch"
  /\ r.action # "provision" /\ ~ renewed
  /\ Verified(r)
  /\ stage' = "restart"
  /\ UNCHANGED <<vars, panel, post, before>>

\* Any read, check, answer or deadline of the callback may fail.
Raise(p) ==
  /\ RaiseUnmarked(p) \/ RaiseMarked(p)
  /\ stage' = "none"
  /\ UNCHANGED <<panel, post, before>>

-----------------------------------------------------------------------------
(* The panel, Xray and the customers                                       *)

\* The answer goes to the callback if it still waits for it.
Answered == CASE stage = "sent" -> "watch"
              [] stage = "restart_sent" -> "watch_forced"
              [] OTHER -> stage

Restarted ==
  /\ serving' = {k \in Key : Enabled(k)}
  /\ sessions' = {}
  /\ renewed' = TRUE

\* The panel carries out the POST; bulk routes report a client they changed.
Apply ==
  LET k == post.req.key
      new == CASE post.route \in {"add", "update"} -> Client("enabled", TermsFor(post.req))
               [] post.route = "enable" -> [client[k] EXCEPT !.state = "enabled"]
               [] OTHER -> [client[k] EXCEPT !.state = "disabled"]
  IN
  /\ post # NoPost
  /\ Land(post.req.id)
  /\ post' = NoPost
  /\ stage' = Answered
  /\ IF post.route = "restart"
     THEN Restarted /\ UNCHANGED client
     ELSE /\ (client[k] = Absent) <=> (post.route = "add")
          /\ client[k] # new
          /\ client' = [client EXCEPT ![k] = new]
          /\ UNCHANGED <<serving, sessions, renewed>>
  /\ UNCHANGED <<expired, before>>

\* It refuses or loses the POST; the callback is left without an answer.
Reject ==
  /\ post # NoPost
  /\ Land(post.req.id)
  /\ post' = NoPost
  /\ UNCHANGED <<panel, stage, before>>

\* An enabled client is added to the running process; removal waits for a
\* restart, which the panel does after a disable and an operator may do too.
HotAdd(k) ==
  /\ Enabled(k) /\ k \notin serving
  /\ serving' = serving \cup {k}
  /\ UNCHANGED <<vars, client, sessions, renewed, expired, callback>>

XrayRestart ==
  /\ Restarted
  /\ UNCHANGED <<vars, client, expired, callback>>

Connect(k) ==
  /\ k \in serving
  /\ sessions' = sessions \cup {k}
  /\ UNCHANGED <<vars, client, serving, renewed, expired, callback>>

Expire(t) ==
  /\ t \in Limited
  /\ expired' = expired \cup {t}
  /\ UNCHANGED <<vars, client, serving, sessions, renewed, callback>>

\* The panel's own job disables a client whose terms have run out.
AutoDisable(k) ==
  /\ Enabled(k) /\ client[k].terms \in expired
  /\ client' = [client EXCEPT ![k].state = "disabled"]
  /\ UNCHANGED <<vars, serving, sessions, renewed, expired, callback>>

-----------------------------------------------------------------------------

\* Steps of the journal outside the callback.
Outside(p) ==
  /\ \/ AcquireGate(p) \/ GateBusy(p) \/ Conflict(p) \/ Recover(p)
     \/ Replay(p) \/ Refuse(p) \/ Return(p) \/ FailClosed(p)
     \/ \E r \in Requests : Invoke(p, r)
  /\ UNCHANGED executor

Kill(p) ==
  /\ Abort(p)
  /\ stage' = IF Running(p) THEN "none" ELSE stage
  /\ UNCHANGED <<panel, post, before>>

ExecNext ==
  \/ \E p \in Proc :
       \/ Outside(p) \/ Enter(p) \/ Snapshot(p) \/ Preflight(p) \/ Mark(p)
       \/ MarkError(p) \/ Post(p) \/ Watch(p) \/ Succeed(p) \/ ForceRestart(p)
       \/ Raise(p) \/ Kill(p)
  \/ Apply \/ Reject \/ XrayRestart
  \/ \E k \in Key : HotAdd(k) \/ Connect(k) \/ AutoDisable(k)
  \/ \E t \in Terms : Expire(t)

ExecSpec == ExecInit /\ [][ExecNext]_execVars

-----------------------------------------------------------------------------
(* Properties                                                              *)

ExecTypeOK ==
  /\ client \in [Key -> Clients] /\ before \in [Key -> Clients]
  /\ serving \subseteq Key /\ sessions \subseteq Key
  /\ renewed \in BOOLEAN /\ expired \subseteq Limited
  /\ post \in Posts \cup {NoPost}
  /\ stage \in {"none", "snapshot", "observe", "change", "post_change", "sent",
                "watch", "restart", "post_restart", "restart_sent", "watch_forced",
                "verify"}

\* The newest accepted operation of its key.
Newest(i) == Stored(i) /\ row[i].gen = latest[row[i].key]

\* An observed suspend or revoke is true on the node until something newer is
\* accepted: the panel has the client disabled, Xray does not let it in, and
\* no connection made before survives, whatever restarted in between.
DisableHolds ==
  \A i \in OperationId :
    /\ Newest(i) /\ phase[i] = "observed" /\ row[i].action # "provision"
    => /\ client[row[i].key].state = "disabled"
       /\ row[i].key \notin serving /\ row[i].key \notin sessions

\* An observed provision is true on the node until something newer is
\* accepted or its terms run out: enabled, on its own terms, and let in.
ProvisionHolds ==
  \A i \in OperationId :
    /\ Newest(i) /\ phase[i] = "observed" /\ row[i].action = "provision"
    /\ TermsFor(row[i]) \notin expired
    => /\ client[row[i].key] = Client("enabled", TermsFor(row[i]))
       /\ row[i].key \in serving

\* The real callback keeps the journal's contract: it marks before it sends
\* and returns only after the panel answered, so all the journal promises
\* holds of the node as deployed.
KeepsContract == Spec

\* The panel is changed only by the newest operation of a key, never by a
\* late request of an older one, except when the terms have run out.
NewestDecides ==
  [][\A k \in Key : client'[k] # client[k] =>
       \/ client[k] # Absent /\ client[k].terms \in expired
       \/ \E i \in OperationId :
            Newest(i) /\ row[i].key = k /\ phase[i] \in {"mutating", "uncertain"}]_execVars
=============================================================================
