----------------------------- MODULE TrialAccess -----------------------------
(* How people get profiles: the free trial (vpn_public_trial.py), a friend's  *)
(* invitation (vpn_friend_invitations.py), both through the bot               *)
(* (vpn_telegram.py) or the portal, and the administrator's grant. Requests   *)
(* run concurrently; each is one database transaction that takes row locks    *)
(* and holds them to its end, reads what others committed, and commits at     *)
(* once. A bot update may be delivered again while, or after, it is served.   *)
EXTENDS Naturals, FiniteSets

CONSTANTS Asker, Person, Link, Place, Update, AccessKey, NoKey, NoUpdate, MaxRoom, MaxTokens

ASSUME AccessAssumption ==
  NoKey \notin AccessKey /\ NoUpdate \notin Update /\ MaxRoom \in Nat /\ MaxTokens \in Nat

VARIABLES asks,    \* requests under way
          access,  \* profiles that were created
          started, \* customers whose trial_started_at is set
          links,   \* invitations: state, token, profile
          room,    \* max_active_profiles of an endpoint
          open,    \* endpoints that are ready, fresh and on an eligible worker
          updates  \* bot messages and the rows kept for them
accessVars == <<asks, access, started, links, room, open, updates>>

NoAsk == [step |-> "idle", want |-> [kind |-> "none"], update |-> NoUpdate, tried |-> {},
          outcome |-> "none", key |-> NoKey, held |-> {}]
NoAccess == [state |-> "none"]
Unsent == [want |-> [kind |-> "none"], outcome |-> "none", key |-> NoKey, processed |-> FALSE]
Unspent == [state |-> "open", token |-> 1, key |-> NoKey]
Row(table, id) == <<table, id>>
Tables == UNCHANGED <<access, started, links, room, open, updates>>

At(q, step) == asks[q].step = step
Want(q) == asks[q].want
Becomes(q, step, held) == asks' = [asks EXCEPT ![q].step = step, ![q].held = held]
Decides(q, outcome, key, held) ==
  asks' = [asks EXCEPT ![q].step = "commit", ![q].outcome = outcome, ![q].key = key,
                       ![q].held = held]

\* Mutant of FreeRow: the customer is read without FOR UPDATE.
FreeUnlocked(row) == row[1] = "customer" \/ \A q \in Asker : row \notin asks[q].held
FreeRow(row) == \A q \in Asker : row \notin asks[q].held

Owned(p, kinds) == {k \in AccessKey : IF access[k].state = "none" THEN FALSE
                                      ELSE access[k].owner = p /\ access[k].kind \in kinds}
Live(S) == {k \in S : access[k].state = "live"}
Counted(e) == {k \in AccessKey : IF access[k].state = "live" THEN access[k].place = e ELSE FALSE}
HasRoom(e) == open[e] /\ Cardinality(Counted(e)) < room[e]
\* Mutant of StillRoom: once the endpoint is locked its profiles are not counted again.
StillOpen(e) == open[e]
StillRoom(e) == HasRoom(e)

(********************************** requests **********************************)
Wants == [kind : {"trial", "grant"}, person : Person]
         \cup [kind : {"redeem"}, person : Person, link : Link, token : 1..MaxTokens]
SendUpdate(u, want) ==
  /\ updates[u] = Unsent /\ want.kind # "grant"
  /\ want.kind = "redeem" => want.token <= links[want.link].token
  /\ updates' = [updates EXCEPT ![u].want = want]
  /\ UNCHANGED <<asks, access, started, links, room, open>>

\* The webhook, as often as Telegram delivers the update.
DeliverUpdate(q, u) ==
  /\ At(q, "idle") /\ updates[u] # Unsent /\ Tables
  /\ asks' = [asks EXCEPT ![q] = [NoAsk EXCEPT !.step = "claim", !.want = updates[u].want,
                                              !.update = u]]
\* trial_activate of the portal, create_vpn_access_key of the panel.
AskDirectly(q, want) ==
  /\ At(q, "idle") /\ want.kind # "redeem" /\ Tables
  /\ asks' = [asks EXCEPT ![q] = [NoAsk EXCEPT !.step = "customer", !.want = want]]

\* process_telegram_update: the row of the update is locked or inserted; one that
\* somebody committed before is only answered again.
ClaimUpdate(q) ==
  LET row == Row("update", asks[q].update)
      kept == updates[asks[q].update]
  IN  /\ At(q, "claim") /\ FreeRow(row) /\ Tables
      /\ IF kept.outcome = "none"
         THEN Becomes(q, IF Want(q).kind = "redeem" THEN "link" ELSE "customer", {row})
         ELSE IF kept.processed THEN asks' = [asks EXCEPT ![q] = NoAsk]
         ELSE Becomes(q, "reply", {row})

\* redeem_friend_invitation, the invitation: found by its token, locked, replayed if it
\* is spent; the release marker, or its own deadline, may refuse it.
LockLink(q) ==
  LET l == Want(q).link
      row == Row("link", l)
      held == asks[q].held
  IN  /\ At(q, "link") /\ FreeRow(row) /\ Tables
      /\ \/ /\ links[l].token = Want(q).token /\ links[l].state = "open"
            /\ Becomes(q, "customer", held \cup {row})
         \/ /\ links[l].token = Want(q).token /\ links[l].state = "redeemed"
            /\ access[links[l].key].owner = Want(q).person
            /\ Decides(q, "kept", links[l].key, held)
         \/ Decides(q, "refused", NoKey, held)

\* resolve_telegram_customer, _existing_trial, _validate_vpn_key_issue.
Entitled(q) ==
  LET p == Want(q).person
  IN  IF Want(q).kind = "grant" THEN Live(Owned(p, {"grant"})) = {}
      ELSE ~started[p] /\ Owned(p, {"redeem"}) = {}
Replayed(q) == IF Want(q).kind = "trial" THEN Live(Owned(Want(q).person, {"trial"})) ELSE {}
LockCustomer(q) ==
  LET row == Row("customer", Want(q).person)
      held == asks[q].held
  IN  /\ At(q, "customer") /\ FreeRow(row) /\ Tables
      /\ IF Entitled(q) THEN Becomes(q, "choose", held \cup {row})
         ELSE IF Replayed(q) = {} THEN Decides(q, "refused", NoKey, held)
         ELSE \E k \in Replayed(q) : Decides(q, "kept", k, held)

\* select_public_vpn_endpoint: candidates are read without locks, then tried one by one;
\* settings, the release marker and the plan may refuse before it.
ChooseCandidates(q) ==
  /\ At(q, "choose") /\ Tables
  /\ \/ asks' = [asks EXCEPT ![q].step = "place", ![q].tried = {e \in Place : HasRoom(e)}]
     \/ Decides(q, "refused", NoKey, asks[q].held)
LockPlace(q) ==
  /\ At(q, "place") /\ Tables
  /\ IF asks[q].tried = {} THEN Decides(q, "refused", NoKey, asks[q].held)
     ELSE \E e \in asks[q].tried :
            /\ FreeRow(Row("place", e))
            /\ IF StillRoom(e)
               THEN Decides(q, "granted", NoKey, asks[q].held \cup {Row("place", e)})
               ELSE asks' = [asks EXCEPT ![q].tried = @ \ {e}]

(******************************** transactions ********************************)
PlaceOf(q) == CHOOSE e \in Place : Row("place", e) \in asks[q].held
NewAccess(q) == [state |-> "live", owner |-> Want(q).person, place |-> PlaceOf(q),
                 kind |-> Want(q).kind,
                 link |-> IF Want(q).kind = "redeem" THEN {Want(q).link} ELSE {}]
\* The profile, its provisioning intent, the marks that it is spent, and the outcome of
\* the update: one commit, before anything is answered.
CommitAsk(q) ==
  /\ At(q, "commit")
  /\ \E k \in AccessKey :
       LET granted == asks[q].outcome = "granted"
           key == IF granted THEN k ELSE asks[q].key
           u == asks[q].update
       IN  /\ granted => access[k] = NoAccess
           /\ access' = IF granted THEN [access EXCEPT ![k] = NewAccess(q)] ELSE access
           /\ started' = [p \in Person |-> \/ started[p]
                                           \/ /\ granted /\ p = Want(q).person
                                              /\ Want(q).kind # "grant"]
           /\ links' = IF granted /\ Want(q).kind = "redeem"
                       THEN [links EXCEPT ![Want(q).link].state = "redeemed",
                                          ![Want(q).link].key = k]
                       ELSE links
           /\ IF u = NoUpdate
              THEN asks' = [asks EXCEPT ![q] = NoAsk] /\ UNCHANGED updates
              ELSE /\ updates' = [updates EXCEPT ![u].outcome = asks[q].outcome, ![u].key = key]
                   /\ asks' = [asks EXCEPT ![q] = [NoAsk EXCEPT !.step = "reply", !.update = u]]
  /\ UNCHANGED <<room, open>>

\* The answer is sent after the commit; a failed one leaves the update unprocessed.
Reply(q) ==
  LET u == asks[q].update
  IN  /\ At(q, "reply") /\ asks' = [asks EXCEPT ![q] = NoAsk]
      /\ \/ /\ \A r \in Asker \ {q} : Row("update", u) \notin asks[r].held
            /\ updates' = [updates EXCEPT ![u].processed = TRUE]
         \/ UNCHANGED updates
      /\ UNCHANGED <<access, started, links, room, open>>

\* A cut connection, a refused intent, a dead process: the transaction is rolled back.
RollBack(q) == ~At(q, "idle") /\ asks' = [asks EXCEPT ![q] = NoAsk] /\ Tables

(************************** administration, lifecycle *************************)
RotateLink(l) ==
  /\ FreeRow(Row("link", l)) /\ links[l].state = "open" /\ links[l].token < MaxTokens
  /\ links' = [links EXCEPT ![l].token = @ + 1]
  /\ UNCHANGED <<asks, access, started, room, open, updates>>
\* disable_friend_invitation: a revocation is staged with it; the profile ends later.
DisableLink(l) ==
  /\ FreeRow(Row("link", l)) /\ links[l].state = "redeemed"
  /\ links' = [links EXCEPT ![l].state = "revoked"]
  /\ UNCHANGED <<asks, access, started, room, open, updates>>
EndAccess(k) ==
  /\ access[k].state = "live" /\ access' = [access EXCEPT ![k].state = "ended"]
  /\ UNCHANGED <<asks, started, links, room, open, updates>>
UpdateCapacity(e, n) ==
  /\ FreeRow(Row("place", e)) /\ n # room[e] /\ room' = [room EXCEPT ![e] = n]
  /\ UNCHANGED <<asks, access, started, links, open, updates>>
\* The fleet probe, staleness, a runtime or attack on the worker.
ChangeHealth(e) ==
  /\ FreeRow(Row("place", e)) /\ open' = [open EXCEPT ![e] = ~@]
  /\ UNCHANGED <<asks, access, started, links, room, updates>>

AccessInit ==
  /\ asks = [q \in Asker |-> NoAsk] /\ access = [k \in AccessKey |-> NoAccess]
  /\ started = [p \in Person |-> FALSE] /\ links = [l \in Link |-> Unspent]
  /\ room = [e \in Place |-> 1] /\ open = [e \in Place |-> TRUE]
  /\ updates = [u \in Update |-> Unsent]
AccessNext ==
  \/ \E u \in Update, w \in Wants : SendUpdate(u, w)
  \/ \E q \in Asker : \/ \E u \in Update : DeliverUpdate(q, u)
                      \/ \E w \in Wants : AskDirectly(q, w)
                      \/ ClaimUpdate(q) \/ LockLink(q) \/ LockCustomer(q)
                      \/ ChooseCandidates(q) \/ LockPlace(q) \/ CommitAsk(q)
                      \/ Reply(q) \/ RollBack(q)
  \/ \E l \in Link : RotateLink(l) \/ DisableLink(l)
  \/ \E k \in AccessKey : EndAccess(k)
  \/ \E e \in Place : ChangeHealth(e) \/ \E n \in 0..MaxRoom : UpdateCapacity(e, n)
AccessSpec == AccessInit /\ [][AccessNext]_accessVars

(* Access is given once: however requests, redeliveries and rollbacks         *)
(* interleave, a person has had one trial or friend's profile at most and     *)
(* never more granted profiles at a time than a device; an invitation gave    *)
(* one profile; and what an update was answered is a profile of its sender    *)
(* (activate_public_trial, redeem_friend_invitation, process_telegram_update).*)
AccessOnce ==
  /\ \A p \in Person : /\ Cardinality(Owned(p, {"trial", "redeem"})) <= 1
                       /\ Cardinality(Live(Owned(p, {"grant"}))) <= 1
  /\ \A l \in Link :
       {k \in AccessKey : IF access[k].state = "none" THEN FALSE ELSE l \in access[k].link}
         = {links[l].key} \ {NoKey}
  /\ \A u \in Update : updates[u].key # NoKey
                         => access[updates[u].key].owner = updates[u].want.person

(* Nobody is placed on a full endpoint: the profiles counted on an endpoint   *)
(* only grow up to the limit it has at that moment, whoever chose it, and     *)
(* whatever the limit was when it was chosen (select_public_vpn_endpoint).    *)
PlacedWithinLimit ==
  [][\A e \in Place : Cardinality(Counted(e)') > Cardinality(Counted(e))
                        => Cardinality(Counted(e)') <= room[e]]_accessVars
=============================================================================
