---------------------------- MODULE DiscoveryChecks ----------------------------
(* Watching names that are about to drop (services/discovery.py,              *)
(* services/discovery_worker_runtime.py, the discovery part of run_cycle, the *)
(* worker's loop and the panel's routes). A name is looked up by a worker, by *)
(* the control process when no worker is there, or at once from the panel;    *)
(* nobody locks its row: each writes the columns it changed against what it   *)
(* had read. A task that takes too long is given up, its result still counts. *)
EXTENDS Integers, FiniteSets

CONSTANTS Tracked, Ticket, Grace, Redemption, LookTime, StaleAfter, MaxDays, MaxLooks
ASSUME LookAssumption == Grace \in Nat /\ Redemption \in Nat /\ LookTime \in Nat

VARIABLES day,     \* the clock
          nature,  \* what the registry holds of a name
          rows,    \* discovery_domains
          tickets, \* discovery_worker_tasks
          looks,   \* lookups of the control process and of the panel
          asked    \* lookups begun, up to MaxLooks
discoveryVars == <<day, nature, rows, tickets, looks, asked>>

Reader == {"cycle", "panel"} \X Tracked
Never == -1
Nowhere == [at |-> Never]
NoRow == [status |-> "none"]
NewRow == [status |-> "tracking", checked |-> Nowhere, sighted |-> FALSE, from |-> Nowhere,
           until |-> Nowhere]
NoLook == [step |-> "none"]
NoTicket == [state |-> "none", on |-> "none", look |-> NoLook]
Counts == asked < MaxLooks /\ asked' = asked + 1
Active(t) == tickets[t].state \in {"queued", "running"}
\* next_check_at: seconds or minutes after the last look, so at some time of every day.
Due(d) == rows[d].status \notin {"none", "available"}

(****************************** one observation *******************************)
\* What a lookup tells, by RDAP or else by WHOIS: the stage of the name, or nothing.
Seen(d) == {nature[d].stage, "error"}
Sources(seen) == IF seen \in {"pending", "redemption"} THEN {"rdap", "whois"} ELSE {"rdap"}
\* observed_at is taken before the lookup; the name is asked about within LookTime.
LookStarted(d, loaded) == [step |-> "asking", at |-> day, loaded |-> loaded]
Told(d, look, seen, source) ==
  [step |-> "told", at |-> look.at, loaded |-> look.loaded, seen |-> seen,
   source |-> source, since |-> nature[d].since]
\* Mutant of PreviousLook: last_checked_at is overwritten before it is kept.
PreviousLooked(row, look) == look.at
PreviousLook(row, look) == IF row.checked = Nowhere THEN look.at ELSE row.checked.at

Over(before, look) == before.told /\ before.at + LookTime < look.at

\* apply_discovery_observation. A window computed from a sighting
\* keeps, for the properties, when the deletion that was sighted began, and whether the
\* look before had told something and was over.
StatusAfter(row, seen) ==
  CASE seen = "error" -> "error"
    [] seen = "redemption" -> "redemption"
    [] seen = "pending" -> "pending_delete"
    [] seen = "gone" -> "available"
    [] OTHER -> IF row.status \in {"tracking", "error"} THEN "tracking" ELSE row.status
Observed(row, look) ==
  LET sighted == look.seen = "pending" /\ ~row.sighted
      predicts == look.source = "rdap"
      anchored == look.seen = "redemption" /\ predicts /\ row.from = Nowhere
  IN  [status |-> StatusAfter(row, look.seen),
       checked |-> [at |-> look.at, told |-> look.seen # "error"],
       sighted |-> row.sighted \/ sighted,
       from |-> IF sighted /\ predicts
                THEN [at |-> PreviousLook(row, look) + Grace, since |-> look.since,
                      sure |-> row.checked # Nowhere /\ Over(row.checked, look)]
                ELSE IF anchored THEN [at |-> look.at + Redemption + Grace] ELSE row.from,
       until |-> IF sighted /\ predicts THEN [at |-> look.at + Grace, since |-> look.since]
                 ELSE IF anchored THEN [at |-> look.at + Redemption + Grace] ELSE row.until]

\* The session writes the columns that differ from what it had loaded.
Merged(d, look) ==
  LET new == Observed(look.loaded, look)
  IN  [f \in DOMAIN new |-> IF new[f] # look.loaded[f] THEN new[f] ELSE rows[d][f]]

(********************************* the workers ********************************)
\* run_cycle with workers: stale tasks are given up, due names without an active task get
\* one, in one transaction.
Stale(t) == Active(t) /\ tickets[t].assigned + StaleAfter < day
GivenUp(t) == IF ~Stale(t) THEN tickets[t]
              ELSE IF tickets[t].look = NoLook THEN NoTicket
              ELSE [tickets[t] EXCEPT !.state = "failed"]
DispatchTickets(chosen) ==
  LET kept == {t \in Ticket : Active(t) /\ ~Stale(t)}
      due == {d \in Tracked : Due(d) /\ \A t \in kept : tickets[t].on # d}
  IN  /\ \A d \in Tracked : looks[<<"cycle", d>>] = NoLook
      /\ DOMAIN chosen = due /\ \A d \in due : tickets[chosen[d]] = NoTicket
      /\ \A d, e \in due : chosen[d] = chosen[e] => d = e
      /\ tickets' = [t \in Ticket |->
           IF \E d \in due : chosen[d] = t
           THEN [state |-> "queued", on |-> CHOOSE d \in due : chosen[d] = t,
                 assigned |-> day, look |-> NoLook]
           ELSE GivenUp(t)]
      /\ UNCHANGED <<day, nature, rows, looks, asked>>
\* get_next_discovery_task, acknowledge_discovery_task, check_discovery_task.
TakeTicket(t) ==
  /\ tickets[t].state = "queued" /\ tickets[t].look = NoLook
  /\ tickets' = [tickets EXCEPT ![t].state = "running", ![t].look = LookStarted(tickets[t].on, NoRow)]
  /\ Counts /\ UNCHANGED <<day, nature, rows, looks>>
AskFor(t, seen, source) ==
  /\ tickets[t].look.step = "asking"
  /\ tickets' = [tickets EXCEPT ![t].look = Told(tickets[t].on, @, seen, source)]
  /\ UNCHANGED <<day, nature, rows, looks, asked>>
\* report_discovery_task_result: whatever became of the task; the row is read, then written.
ReadForResult(t) ==
  /\ tickets[t].look.step = "told" /\ tickets[t].look.loaded = NoRow
  /\ tickets' = [tickets EXCEPT ![t].look.loaded = rows[tickets[t].on]]
  /\ UNCHANGED <<day, nature, rows, looks, asked>>
CommitResult(t) ==
  LET d == tickets[t].on
  IN  /\ tickets[t].look.step = "told" /\ tickets[t].look.loaded # NoRow
      /\ rows' = [rows EXCEPT ![d] = Merged(d, tickets[t].look)]
      /\ tickets' = [tickets EXCEPT ![t] = NoTicket]
      /\ UNCHANGED <<day, nature, looks, asked>>
\* The worker's loop ends, or its report is lost: the task is left to expire.
LoseLook(t) ==
  /\ tickets[t].look # NoLook
  /\ tickets' = [tickets EXCEPT ![t] = IF Active(t) THEN [@ EXCEPT !.look = [step |-> "lost"]]
                                       ELSE NoTicket]
  /\ UNCHANGED <<day, nature, rows, looks, asked>>

(***************************** control and the panel ***************************)
\* process_due_discovery_domains, without workers: tasks that are still out do not count,
\* and stale ones are given up unless tasks are switched off.
BeginLocal ==
  /\ \A d \in Tracked : looks[<<"cycle", d>>] = NoLook
  /\ \E d \in Tracked : Due(d)
  /\ looks' = [r \in Reader |-> IF r[1] = "cycle" /\ Due(r[2]) THEN LookStarted(r[2], rows[r[2]])
                                ELSE looks[r]]
  /\ tickets' = [t \in Ticket |-> GivenUp(t)] \/ UNCHANGED tickets
  /\ Counts /\ UNCHANGED <<day, nature, rows>>
\* check_discovery_domain_now
CheckNow(d) ==
  /\ looks[<<"panel", d>>] = NoLook /\ rows[d] # NoRow
  /\ looks' = [looks EXCEPT ![<<"panel", d>>] = LookStarted(d, rows[d])]
  /\ Counts /\ UNCHANGED <<day, nature, rows, tickets>>
Ask(r, seen, source) ==
  /\ looks[r].step = "asking" /\ looks' = [looks EXCEPT ![r] = Told(r[2], @, seen, source)]
  /\ UNCHANGED <<day, nature, rows, tickets, asked>>
\* One commit for all names of the cycle, and for the one of the panel.
Stored(who, d) == looks[<<who, d>>].step = "told"
CommitLooks(who) ==
  /\ \E d \in Tracked : Stored(who, d)
  /\ \A d \in Tracked : looks[<<who, d>>] = NoLook \/ Stored(who, d)
  /\ rows' = [d \in Tracked |-> IF Stored(who, d) THEN Merged(d, looks[<<who, d>>]) ELSE rows[d]]
  /\ looks' = [r \in Reader |-> IF r[1] = who THEN NoLook ELSE looks[r]]
  /\ UNCHANGED <<day, nature, tickets, asked>>
CutLooks(who) ==
  /\ \E d \in Tracked : looks[<<who, d>>] # NoLook
  /\ looks' = [r \in Reader |-> IF r[1] = who THEN NoLook ELSE looks[r]]
  /\ UNCHANGED <<day, nature, rows, tickets, asked>>

ImportDomain(d) ==
  /\ rows[d] = NoRow /\ rows' = [rows EXCEPT ![d] = NewRow]
  /\ UNCHANGED <<day, nature, tickets, looks, asked>>
\* _ensure_drop_domain_discovery_tracking: a drop domain of that name is added.
TrackAgain(d) ==
  /\ rows[d].status \in {"available", "error"}
  /\ rows' = [rows EXCEPT ![d].status = "tracking"]
  /\ UNCHANGED <<day, nature, tickets, looks, asked>>

(********************************* the registry *******************************)
After(stage) == CASE stage = "registered" -> {"redemption"}
                  [] stage = "redemption" -> {"registered", "pending"}
                  [] stage = "pending" -> {"gone"}
                  [] OTHER -> {"registered"}
NatureMoves(d) ==
  \E stage \in After(nature[d].stage) :
    /\ stage = "gone" => nature[d].since + Grace <= day
    /\ nature' = [nature EXCEPT ![d] = [stage |-> stage,
                                        since |-> IF stage = "pending" THEN day ELSE Never]]
    /\ UNCHANGED <<day, rows, tickets, looks, asked>>
\* A lookup takes LookTime at most; what it found may be reported at any later time. A
\* name drops when Grace is over.
DayPasses ==
  /\ day < MaxDays /\ day' = day + 1
  /\ \A l \in {looks[r] : r \in Reader} \cup {tickets[t].look : t \in Ticket} :
       l.step = "asking" => day < l.at + LookTime
  /\ \A d \in Tracked : nature[d].stage = "pending" => day < nature[d].since + Grace
  /\ UNCHANGED <<nature, rows, tickets, looks, asked>>

DiscoveryInit ==
  /\ day = 0 /\ nature = [d \in Tracked |-> [stage |-> "registered", since |-> Never]]
  /\ rows = [d \in Tracked |-> NoRow] /\ tickets = [t \in Ticket |-> NoTicket]
  /\ looks = [r \in Reader |-> NoLook] /\ asked = 0
DiscoveryNext ==
  \/ \E S \in SUBSET Tracked : \E chosen \in [S -> Ticket] : DispatchTickets(chosen)
  \/ \E t \in Ticket : \/ TakeTicket(t) \/ ReadForResult(t) \/ CommitResult(t) \/ LoseLook(t)
                       \/ \E d \in Tracked : \E seen \in Seen(d) : \E source \in Sources(seen) :
                            d = tickets[t].on /\ AskFor(t, seen, source)
  \/ BeginLocal
  \/ \E r \in Reader : \E seen \in Seen(r[2]) : \E source \in Sources(seen) : Ask(r, seen, source)
  \/ \E who \in {"cycle", "panel"} : CommitLooks(who) \/ CutLooks(who)
  \/ \E d \in Tracked : CheckNow(d) \/ ImportDomain(d) \/ TrackAgain(d) \/ NatureMoves(d)
  \/ DayPasses
DiscoverySpec == DiscoveryInit /\ [][DiscoveryNext]_discoveryVars

(* The drop is in its window: whoever looked, however late it was reported    *)
(* and whatever was written in between, the window predicted when a deletion  *)
(* was first seen ends no more than one lookup before the name drops, and it  *)
(* does not begin after it when the look before had told something and was    *)
(* over when this one began (apply_discovery_observation).                    *)
WindowHolds ==
  \A d \in Tracked : IF rows[d] = NoRow THEN TRUE ELSE
    /\ "since" \in DOMAIN rows[d].until
         => rows[d].until.since + Grace <= rows[d].until.at + LookTime
    /\ "since" \in DOMAIN rows[d].from
         => (rows[d].from.sure => rows[d].from.at <= rows[d].from.since + Grace)
=============================================================================
