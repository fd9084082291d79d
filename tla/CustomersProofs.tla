---------------------------- MODULE CustomersProofs ----------------------------
(* Proofs about the customers' side: who is given access (TrialAccess), the   *)
(* notice that a profile is ready (ReadyNotices), signing in to the portal    *)
(* (PortalSessions) and the gate that opens the service (ReleaseReadiness),   *)
(* for any number of requests, people, invitations, endpoints, workers,       *)
(* visits, sessions, links, nodes, openings and restarts.                     *)
EXTENDS TrialAccess, PortalSessions, ReadyNotices, ReleaseReadiness, FiniteSetTheorems, TLAPS

-----------------------------------------------------------------------------
(* Access, given once                                                         *)

NoWant == [kind |-> "none"]
AskSteps == {"idle", "claim", "link", "customer", "choose", "place", "commit", "reply"}
Outcomes == {"none", "granted", "kept", "refused"}
Rows == {Row("update", u) : u \in Update} \cup {Row("link", l) : l \in Link}
        \cup {Row("customer", p) : p \in Person} \cup {Row("place", e) : e \in Place}
AskRows == [step: AskSteps, want: Wants \cup {NoWant}, update: Update \cup {NoUpdate},
            tried: SUBSET Place, outcome: Outcomes, key: AccessKey \cup {NoKey}, held: SUBSET Rows]
AccessRows == [state: {"live", "ended"}, owner: Person, place: Place,
               kind: {"trial", "grant", "redeem"}, link: SUBSET Link]
LinkRows == [state: {"open", "redeemed", "revoked"}, token: Nat, key: AccessKey \cup {NoKey}]
UpdateRows == [want: Wants \cup {NoWant}, outcome: Outcomes, key: AccessKey \cup {NoKey},
               processed: BOOLEAN]

AccessTypeOK ==
  /\ asks \in [Asker -> AskRows] /\ access \in [AccessKey -> {NoAccess} \cup AccessRows]
  /\ started \in [Person -> BOOLEAN] /\ links \in [Link -> LinkRows]
  /\ room \in [Place -> Nat] /\ open \in [Place -> BOOLEAN] /\ updates \in [Update -> UpdateRows]

Created(k) == access[k].state # "none"
EntitledTo(w) ==
  IF w.kind = "grant" THEN Live(Owned(w.person, {"grant"})) = {}
  ELSE ~started[w.person] /\ Owned(w.person, {"redeem"}) = {}

(* No row is locked by two requests.                                          *)
HoldInv ==
  \A q, r \in Asker, row \in Rows : row \in asks[q].held /\ row \in asks[r].held => q = r

(* What a request has found out, and has the lock for, is still so.           *)
Granting(a) == a.step \in {"choose", "place"} \/ (a.step = "commit" /\ a.outcome = "granted")
Sound(a) ==
  /\ a.step \notin {"idle", "reply"} => a.want \in Wants
  /\ a.step # "idle" /\ a.update # NoUpdate => updates[a.update] # Unsent
  /\ a.step \notin {"idle", "reply"} /\ a.update # NoUpdate => a.want = updates[a.update].want
  /\ a.step \in {"claim", "link"} => a.update # NoUpdate
  /\ a.step = "link" => a.want.kind = "redeem"
  /\ (a.step = "customer" \/ Granting(a)) /\ a.want.kind = "redeem" =>
       Row("link", a.want.link) \in a.held /\ links[a.want.link].state = "open"
  /\ Granting(a) => Row("customer", a.want.person) \in a.held /\ EntitledTo(a.want)
  /\ a.step = "commit" /\ a.outcome = "granted" => \E e \in Place : Row("place", e) \in a.held
  /\ a.key # NoKey => Created(a.key) /\ access[a.key].owner = a.want.person
  /\ \A e \in Place : Row("place", e) \in a.held => Cardinality(Counted(e)) < room[e]
WorkInv == \A q \in Asker : Sound(asks[q])

(* Who has had a trial or a friend's profile is marked, and has had one.      *)
OwnInv ==
  \A p \in Person :
    /\ \A k \in Owned(p, {"trial", "redeem"}) : started[p]
    /\ \A k, j \in Owned(p, {"trial", "redeem"}) : k = j
    /\ \A k, j \in Live(Owned(p, {"grant"})) : k = j

(* An invitation knows its profile, and the profile it.                       *)
LinkInv ==
  \A l \in Link :
    /\ links[l].state = "open" => links[l].key = NoKey
    /\ \A k \in AccessKey : Created(k) /\ l \in access[k].link <=> k = links[l].key

UpdateInv ==
  \A u \in Update :
    /\ updates[u] # Unsent => updates[u].want \in Wants
    /\ updates[u].key # NoKey =>
         Created(updates[u].key) /\ access[updates[u].key].owner = updates[u].want.person

CountInv == \A e \in Place : IsFiniteSet(Counted(e))

AccessInv == AccessTypeOK /\ HoldInv /\ WorkInv /\ OwnInv /\ LinkInv /\ UpdateInv /\ CountInv

LEMMA RowsDiffer ==
  /\ \A l \in Link, p \in Person : Row("link", l) # Row("customer", p)
  /\ \A l \in Link, e \in Place : Row("link", l) # Row("place", e)
  /\ \A p \in Person, e \in Place : Row("customer", p) # Row("place", e)
  /\ \A l \in Link : Row("link", l) \in Rows
  /\ \A p \in Person : Row("customer", p) \in Rows
  /\ \A e \in Place : Row("place", e) \in Rows
  /\ \A u \in Update : Row("update", u) \in Rows
  /\ \A l, m \in Link : Row("link", l) = Row("link", m) => l = m
  /\ \A l, m \in Person : Row("customer", l) = Row("customer", m) => l = m
  /\ \A l, m \in Place : Row("place", l) = Row("place", m) => l = m
BY DEF Row, Rows

LEMMA WantFacts ==
  ASSUME NEW w \in Wants
  PROVE  /\ w.kind \in {"trial", "grant", "redeem"} /\ w.person \in Person
         /\ w.kind = "redeem" => w.link \in Link
         /\ w # NoWant
BY DEF Wants, NoWant

LEMMA CountsAreNumbers ==
  ASSUME CountInv
  PROVE  \A e \in Place : Cardinality(Counted(e)) \in Nat
BY FS_CardinalityType DEF CountInv

(* What a request relies on, whatever the others do meanwhile.                *)
LEMMA SoundStays ==
  ASSUME NEW q \in Asker, asks[q] \in AskRows, asks'[q] = asks[q], Sound(asks[q]),
         room \in [Place -> Nat], room' \in [Place -> Nat], CountInv, CountInv',
         \A u \in Update : updates[u] # Unsent =>
           updates'[u] # Unsent /\ updates'[u].want = updates[u].want,
         \A k \in AccessKey : Created(k) =>
           Created(k)' /\ access'[k].owner = access[k].owner,
         \A l \in Link : Row("link", l) \in asks[q].held => links'[l].state = links[l].state,
         \A p \in Person : Row("customer", p) \in asks[q].held =>
           /\ started'[p] = started[p]
           /\ Owned(p, {"redeem"})' \subseteq Owned(p, {"redeem"})
           /\ Live(Owned(p, {"grant"}))' \subseteq Live(Owned(p, {"grant"})),
         \A e \in Place : Row("place", e) \in asks[q].held =>
           /\ room'[e] = room[e]
           /\ Cardinality(Counted(e))' <= Cardinality(Counted(e))
  PROVE  Sound(asks[q])'
<1> PICK a \in AskRows : a = asks[q] OBVIOUS
<1>0. a = asks'[q] OBVIOUS
<1>1. /\ a.step \notin {"idle", "reply"} => a.want \in Wants
      /\ a.step \in {"claim", "link"} => a.update # NoUpdate
      /\ a.step = "link" => a.want.kind = "redeem"
      /\ a.step = "commit" /\ a.outcome = "granted" => \E e \in Place : Row("place", e) \in a.held
  BY DEF Sound
<1>2. a.update # NoUpdate =>
        /\ a.step # "idle" => updates'[a.update] # Unsent
        /\ a.step \notin {"idle", "reply"} => a.want = updates'[a.update].want
  <2>1. a.update \in Update \cup {NoUpdate} BY DEF AskRows
  <2> QED BY <2>1 DEF Sound
<1>3. (a.step = "customer" \/ Granting(a)) /\ a.want.kind = "redeem" =>
        Row("link", a.want.link) \in a.held /\ links'[a.want.link].state = "open"
  <2> SUFFICES ASSUME a.step = "customer" \/ Granting(a), a.want.kind = "redeem"
               PROVE  Row("link", a.want.link) \in a.held /\ links'[a.want.link].state = "open"
    OBVIOUS
  <2>1. a.want \in Wants BY <1>1 DEF Granting
  <2>2. a.want.link \in Link BY <2>1, WantFacts
  <2> QED BY <2>2 DEF Sound
<1>4. Granting(a) => Row("customer", a.want.person) \in a.held /\ EntitledTo(a.want)'
  <2> SUFFICES ASSUME Granting(a)
               PROVE  Row("customer", a.want.person) \in a.held /\ EntitledTo(a.want)'
    OBVIOUS
  <2>1. a.want \in Wants BY <1>1 DEF Granting
  <2>2. PICK p \in Person : p = a.want.person BY <2>1, WantFacts
  <2>3. Row("customer", p) \in a.held /\ EntitledTo(a.want) BY <2>2 DEF Sound
  <2>4. CASE a.want.kind = "grant"
    <3>1. Live(Owned(p, {"grant"})) = {} BY <2>2, <2>3, <2>4 DEF EntitledTo
    <3>2. Live(Owned(p, {"grant"}))' = {} BY <3>1, <2>3
    <3> QED BY <3>2, <2>2, <2>3, <2>4 DEF EntitledTo
  <2>5. CASE a.want.kind # "grant"
    <3>1. ~started[p] /\ Owned(p, {"redeem"}) = {} BY <2>2, <2>3, <2>5 DEF EntitledTo
    <3>2. ~started'[p] /\ Owned(p, {"redeem"})' = {} BY <3>1, <2>3
    <3> QED BY <3>2, <2>2, <2>3, <2>5 DEF EntitledTo
  <2> QED BY <2>4, <2>5
<1>5. a.key # NoKey => Created(a.key)' /\ access'[a.key].owner = a.want.person
  <2>1. a.key \in AccessKey \cup {NoKey} BY DEF AskRows
  <2> QED BY <2>1 DEF Sound
<1>6. ASSUME NEW e \in Place, Row("place", e) \in a.held
      PROVE  Cardinality(Counted(e))' < room'[e]
  <2>1. PICK n \in Nat : n = Cardinality(Counted(e)) BY CountsAreNumbers
  <2>2. Cardinality(Counted(e))' \in Nat BY FS_CardinalityType DEF CountInv
  <2>3. PICK m \in Nat : m = Cardinality(Counted(e))' BY <2>2
  <2>4. room[e] \in Nat /\ n < room[e] BY <1>6, <2>1 DEF Sound
  <2>5. m <= n /\ room'[e] = room[e] BY <1>6, <2>1, <2>3
  <2>6. m < room'[e] BY ONLY <2>4, <2>5, m \in Nat, n \in Nat
  <2> QED BY <2>3, <2>6
<1> QED BY <1>0, <1>1, <1>2, <1>3, <1>4, <1>5, <1>6 DEF Sound, Granting

(* A step that only moves a request on.                                       *)
LEMMA AskChanges ==
  ASSUME AccessInv, Tables, NEW q \in Asker, NEW a \in AskRows, asks' = [asks EXCEPT ![q] = a],
         Sound(a), \A r \in Asker \ {q} : \A row \in a.held : row \notin asks[r].held
  PROVE  AccessInv'
<1> USE DEF Tables
<1>1. AccessTypeOK' BY DEF AccessInv, AccessTypeOK
<1>2. HoldInv'
  <2> SUFFICES ASSUME NEW p \in Asker, NEW r \in Asker, NEW row \in Rows,
                      row \in asks'[p].held, row \in asks'[r].held
               PROVE  p = r
    BY DEF HoldInv
  <2> QED BY DEF AccessInv, AccessTypeOK, HoldInv
<1>3. ASSUME NEW r \in Asker PROVE Sound(asks[r])'
  <2>1. CASE r = q
    <3>1. asks'[r] = a BY <2>1 DEF AccessInv, AccessTypeOK
    <3> QED BY <3>1 DEF Sound, EntitledTo, Created, Owned, Live, Counted
  <2>2. CASE r # q
    <3>1. asks'[r] = asks[r] BY <2>2 DEF AccessInv, AccessTypeOK
    <3>2. Sound(asks[r]) BY DEF AccessInv, WorkInv
    <3> QED BY <3>1, <3>2 DEF Sound, EntitledTo, Created, Owned, Live, Counted
  <2> QED BY <2>1, <2>2
<1>4. OwnInv' BY DEF AccessInv, OwnInv, Owned, Live
<1>5. LinkInv' BY DEF AccessInv, LinkInv, Created
<1>6. UpdateInv' BY DEF AccessInv, UpdateInv, Created
<1>7. CountInv' BY DEF AccessInv, CountInv, Counted
<1> QED BY <1>1, <1>2, <1>3, <1>4, <1>5, <1>6, <1>7 DEF AccessInv, WorkInv

LEMMA DeliverUpdateKeeps ==
  ASSUME AccessInv, NEW q \in Asker, NEW u \in Update, DeliverUpdate(q, u)
  PROVE  AccessInv'
<1> PICK a : a = [NoAsk EXCEPT !.step = "claim", !.want = updates[u].want, !.update = u] OBVIOUS
<1>1. a.step = "claim" /\ a.want = updates[u].want /\ a.update = u /\ a.key = NoKey /\ a.held = {}
  BY DEF NoAsk
<1>2. updates[u] # Unsent /\ updates[u].want \in Wants
  BY DEF DeliverUpdate, AccessInv, UpdateInv
<1>3. a \in AskRows BY <1>2 DEF NoAsk, AskRows, AskSteps, Outcomes
<1>4. Sound(a) BY <1>1, <1>2, AccessAssumption DEF Sound, Granting
<1>5. asks' = [asks EXCEPT ![q] = a] /\ Tables BY DEF DeliverUpdate
<1> QED BY <1>1, <1>3, <1>4, <1>5, AskChanges

LEMMA AskDirectlyKeeps ==
  ASSUME AccessInv, NEW q \in Asker, NEW w \in Wants, AskDirectly(q, w)
  PROVE  AccessInv'
<1> PICK a : a = [NoAsk EXCEPT !.step = "customer", !.want = w] OBVIOUS
<1>1. a.step = "customer" /\ a.want = w /\ a.update = NoUpdate /\ a.key = NoKey /\ a.held = {}
  BY DEF NoAsk
<1>2. a \in AskRows BY DEF NoAsk, AskRows, AskSteps, Outcomes
<1>3. Sound(a) BY <1>1 DEF Sound, Granting, AskDirectly
<1>4. asks' = [asks EXCEPT ![q] = a] /\ Tables BY DEF AskDirectly
<1> QED BY <1>1, <1>2, <1>3, <1>4, AskChanges

LEMMA RollBackKeeps ==
  ASSUME AccessInv, NEW q \in Asker, RollBack(q)
  PROVE  AccessInv'
<1>1. NoAsk \in AskRows BY DEF NoAsk, NoWant, AskRows, AskSteps, Outcomes
<1>2. Sound(NoAsk) BY DEF NoAsk, Sound, Granting
<1>3. NoAsk.held = {} BY DEF NoAsk
<1>4. asks' = [asks EXCEPT ![q] = NoAsk] /\ Tables BY DEF RollBack
<1> QED BY <1>1, <1>2, <1>3, <1>4, AskChanges

(* What Becomes and Decides leave of a request.                               *)
LEMMA BecomesFacts ==
  ASSUME AccessInv, NEW q \in Asker, NEW step \in AskSteps, NEW held \in SUBSET Rows,
         Becomes(q, step, held)
  PROVE  \E a \in AskRows :
           /\ asks' = [asks EXCEPT ![q] = a]
           /\ a.step = step /\ a.held = held /\ a.want = asks[q].want
           /\ a.update = asks[q].update /\ a.key = asks[q].key /\ a.outcome = asks[q].outcome
<1>1. asks[q] \in AskRows BY DEF AccessInv, AccessTypeOK
<1> PICK a : a = [asks[q] EXCEPT !.step = step, !.held = held] OBVIOUS
<1>2. /\ a \in AskRows /\ a.step = step /\ a.held = held /\ a.want = asks[q].want
      /\ a.update = asks[q].update /\ a.key = asks[q].key /\ a.outcome = asks[q].outcome
  BY <1>1 DEF AskRows
<1>3. asks' = [asks EXCEPT ![q] = a] BY <1>1 DEF Becomes, AccessInv, AccessTypeOK
<1> QED BY <1>2, <1>3
LEMMA DecidesFacts ==
  ASSUME AccessInv, NEW q \in Asker, NEW outcome \in Outcomes, NEW key \in AccessKey \cup {NoKey},
         NEW held \in SUBSET Rows, Decides(q, outcome, key, held)
  PROVE  \E a \in AskRows :
           /\ asks' = [asks EXCEPT ![q] = a]
           /\ a.step = "commit" /\ a.held = held /\ a.want = asks[q].want
           /\ a.update = asks[q].update /\ a.key = key /\ a.outcome = outcome
<1>1. asks[q] \in AskRows BY DEF AccessInv, AccessTypeOK
<1> PICK a : a = [asks[q] EXCEPT !.step = "commit", !.outcome = outcome, !.key = key, !.held = held]
  OBVIOUS
<1>2. /\ a \in AskRows /\ a.step = "commit" /\ a.held = held /\ a.want = asks[q].want
      /\ a.update = asks[q].update /\ a.key = key /\ a.outcome = outcome
  BY <1>1 DEF AskRows, AskSteps
<1>3. asks' = [asks EXCEPT ![q] = a] BY <1>1 DEF Decides, AccessInv, AccessTypeOK
<1> QED BY <1>2, <1>3

LEMMA AskFacts ==
  ASSUME AccessInv, NEW q \in Asker
  PROVE  /\ asks[q] \in AskRows /\ Sound(asks[q]) /\ asks[q].held \subseteq Rows
         /\ \A r \in Asker \ {q} : \A row \in asks[q].held : row \notin asks[r].held
BY DEF AccessInv, AccessTypeOK, WorkInv, HoldInv, AskRows

(* A refusal, or an answer with a profile of the person who asks.             *)
LEMMA AnswerKeeps ==
  ASSUME AccessInv, Tables, NEW q \in Asker, asks[q].step \notin {"idle", "reply"},
         NEW outcome \in {"kept", "refused"}, NEW key \in AccessKey \cup {NoKey},
         key # NoKey => Created(key) /\ access[key].owner = asks[q].want.person,
         Decides(q, outcome, key, asks[q].held)
  PROVE  AccessInv'
<1>1. asks[q].held \in SUBSET Rows /\ outcome \in Outcomes BY AskFacts DEF Outcomes
<1>2. PICK a \in AskRows :
           /\ asks' = [asks EXCEPT ![q] = a]
           /\ a.step = "commit" /\ a.held = asks[q].held /\ a.want = asks[q].want
           /\ a.update = asks[q].update /\ a.key = key /\ a.outcome = outcome
  BY <1>1, DecidesFacts
<1>3. Sound(asks[q]) BY AskFacts
<1>4. Sound(a) BY <1>2, <1>3 DEF Sound, Granting
<1> QED BY <1>2, <1>4, AskFacts, AskChanges

LEMMA ClaimUpdateKeeps ==
  ASSUME AccessInv, NEW q \in Asker, ClaimUpdate(q)
  PROVE  AccessInv'
<1> DEFINE row == Row("update", asks[q].update)
           step == IF Want(q).kind = "redeem" THEN "link" ELSE "customer"
<1>1. /\ At(q, "claim") /\ FreeRow(row) /\ Tables
      /\ \/ Becomes(q, step, {row}) \/ asks' = [asks EXCEPT ![q] = NoAsk]
         \/ Becomes(q, "reply", {row})
  BY DEF ClaimUpdate
<1>2. Sound(asks[q]) /\ asks[q] \in AskRows BY AskFacts
<1>3. asks[q].update \in Update BY <1>1, <1>2 DEF Sound, AskRows, At
<1>10. LET b == asks[q]
       IN  /\ b.want \in Wants /\ b.update # NoUpdate
           /\ updates[b.update] # Unsent /\ b.want = updates[b.update].want
           /\ b.key # NoKey => Created(b.key) /\ access[b.key].owner = b.want.person
  BY <1>1, <1>2 DEF Sound, At
<1>4. row \in Rows BY <1>3, RowsDiffer
<1>5. \A r \in Asker \ {q} : \A x \in {row} : x \notin asks[r].held BY <1>1 DEF FreeRow
<1>6. CASE Becomes(q, step, {row})
  <2>1. step \in AskSteps /\ {row} \in SUBSET Rows BY <1>4 DEF AskSteps
  <2>2. PICK a \in AskRows :
           /\ asks' = [asks EXCEPT ![q] = a]
           /\ a.step = step /\ a.held = {row} /\ a.want = asks[q].want
           /\ a.update = asks[q].update /\ a.key = asks[q].key
    BY <1>6, <2>1, BecomesFacts
  <2>3. row[1] = "update" BY DEF Row
  <2>4. \A e \in Place : Row("place", e) # row BY <2>3 DEF Row
  <2>5. \A e \in Place : Row("place", e) \notin a.held BY <2>2, <2>4
  <2>6. Sound(a) BY <1>1, <1>10, <2>2, <2>5 DEF Sound, Granting, Want
  <2>7. \A r \in Asker \ {q} : \A x \in a.held : x \notin asks[r].held BY <1>5, <2>2
  <2>8. Tables /\ asks' = [asks EXCEPT ![q] = a] BY <1>1, <2>2
  <2> QED BY <2>6, <2>7, <2>8, AskChanges
<1>7. CASE asks' = [asks EXCEPT ![q] = NoAsk]
  BY <1>1, <1>7, RollBackKeeps DEF RollBack, At
<1>8. CASE Becomes(q, "reply", {row})
  <2>1. "reply" \in AskSteps /\ {row} \in SUBSET Rows BY <1>4 DEF AskSteps
  <2>2. PICK a \in AskRows :
           /\ asks' = [asks EXCEPT ![q] = a]
           /\ a.step = "reply" /\ a.held = {row} /\ a.want = asks[q].want
           /\ a.update = asks[q].update /\ a.key = asks[q].key
    BY <1>8, <2>1, BecomesFacts
  <2>3. \A e \in Place : Row("place", e) # row BY DEF Row
  <2>5. \A e \in Place : Row("place", e) \notin a.held BY <2>2, <2>3
  <2>4. Sound(a) BY <1>10, <2>2, <2>5 DEF Sound, Granting
  <2>7. \A r \in Asker \ {q} : \A x \in a.held : x \notin asks[r].held BY <1>5, <2>2
  <2>8. Tables /\ asks' = [asks EXCEPT ![q] = a] BY <1>1, <2>2
  <2> QED BY <2>4, <2>7, <2>8, AskChanges
<1> QED BY <1>1, <1>6, <1>7, <1>8

LEMMA LockLinkKeeps ==
  ASSUME AccessInv, NEW q \in Asker, LockLink(q)
  PROVE  AccessInv'
<1> DEFINE l == Want(q).link
           row == Row("link", l)
           held == asks[q].held
<1>1. /\ At(q, "link") /\ FreeRow(row) /\ Tables
      /\ \/ links[l].state = "open" /\ Becomes(q, "customer", held \cup {row})
         \/ access[links[l].key].owner = Want(q).person /\ Decides(q, "kept", links[l].key, held)
         \/ Decides(q, "refused", NoKey, held)
  BY DEF LockLink
<1>2. /\ Sound(asks[q]) /\ asks[q] \in AskRows /\ held \subseteq Rows
      /\ \A r \in Asker \ {q} : \A x \in held : x \notin asks[r].held
  BY AskFacts
<1>3. Want(q) \in Wants /\ Want(q).kind = "redeem" BY <1>1, <1>2 DEF Sound, At, Want
<1>4. l \in Link BY <1>3, WantFacts
<1>5. links[l].key \in AccessKey \cup {NoKey} /\ row \in Rows
  BY <1>4, RowsDiffer DEF AccessInv, AccessTypeOK, LinkRows
<1>6. CASE links[l].state = "open" /\ Becomes(q, "customer", held \cup {row})
  <2>1. "customer" \in AskSteps /\ held \cup {row} \in SUBSET Rows BY <1>2, <1>5 DEF AskSteps
  <2>2. PICK a \in AskRows :
           /\ asks' = [asks EXCEPT ![q] = a]
           /\ a.step = "customer" /\ a.held = held \cup {row} /\ a.want = asks[q].want
           /\ a.update = asks[q].update /\ a.key = asks[q].key
    BY <1>6, <2>1, BecomesFacts
  <2>3. \A e \in Place : Row("place", e) # row BY <1>4, RowsDiffer
  <2>4. Sound(a) BY <1>1, <1>2, <1>6, <2>2, <2>3 DEF Sound, Granting, At, Want
  <2>5. \A r \in Asker \ {q} : \A x \in a.held : x \notin asks[r].held
    BY <1>1, <1>2, <2>2 DEF FreeRow
  <2> QED BY <1>1, <2>2, <2>4, <2>5, AskChanges
<1>7. CASE access[links[l].key].owner = Want(q).person /\ Decides(q, "kept", links[l].key, held)
  <2>1. links[l].key # NoKey => Created(links[l].key)
    BY <1>4, <1>5 DEF AccessInv, LinkInv
  <2> QED BY <1>1, <1>5, <1>7, <2>1, AnswerKeeps DEF At, Want
<1>8. CASE Decides(q, "refused", NoKey, held)
  BY <1>1, <1>8, AnswerKeeps DEF At
<1> QED BY <1>1, <1>6, <1>7, <1>8

LEMMA LockCustomerKeeps ==
  ASSUME AccessInv, NEW q \in Asker, LockCustomer(q)
  PROVE  AccessInv'
<1> DEFINE p == Want(q).person
           row == Row("customer", p)
           held == asks[q].held
<1>1. /\ At(q, "customer") /\ FreeRow(row) /\ Tables
      /\ \/ Entitled(q) /\ Becomes(q, "choose", held \cup {row})
         \/ Decides(q, "refused", NoKey, held)
         \/ \E k \in Replayed(q) : Decides(q, "kept", k, held)
  BY DEF LockCustomer
<1>2. /\ Sound(asks[q]) /\ asks[q] \in AskRows /\ held \subseteq Rows
      /\ \A r \in Asker \ {q} : \A x \in held : x \notin asks[r].held
  BY AskFacts
<1>3. Want(q) \in Wants /\ p \in Person BY <1>1, <1>2, WantFacts DEF Sound, At, Want
<1>4. row \in Rows /\ \A e \in Place : Row("place", e) # row BY <1>3, RowsDiffer
<1>5. CASE Entitled(q) /\ Becomes(q, "choose", held \cup {row})
  <2>1. "choose" \in AskSteps /\ held \cup {row} \in SUBSET Rows BY <1>2, <1>4 DEF AskSteps
  <2>2. PICK a \in AskRows :
           /\ asks' = [asks EXCEPT ![q] = a]
           /\ a.step = "choose" /\ a.held = held \cup {row} /\ a.want = asks[q].want
           /\ a.update = asks[q].update /\ a.key = asks[q].key
    BY <1>5, <2>1, BecomesFacts
  <2>3. EntitledTo(a.want) BY <1>5, <2>2 DEF Entitled, EntitledTo, Want
  <2>4. Sound(a) BY <1>1, <1>2, <1>4, <2>2, <2>3 DEF Sound, Granting, At, Want
  <2>5. \A r \in Asker \ {q} : \A x \in a.held : x \notin asks[r].held
    BY <1>1, <1>2, <2>2 DEF FreeRow
  <2> QED BY <1>1, <2>2, <2>4, <2>5, AskChanges
<1>6. CASE Decides(q, "refused", NoKey, held)
  BY <1>1, <1>6, AnswerKeeps DEF At
<1>7. ASSUME NEW k \in Replayed(q), Decides(q, "kept", k, held)
      PROVE  AccessInv'
  <2>1. k \in AccessKey /\ Created(k) /\ access[k].owner = Want(q).person
    BY DEF Replayed, Live, Owned, Created
  <2> QED BY <1>1, <1>7, <2>1, AnswerKeeps DEF At, Want
<1> QED BY <1>1, <1>5, <1>6, <1>7

LEMMA ChooseCandidatesKeeps ==
  ASSUME AccessInv, NEW q \in Asker, ChooseCandidates(q)
  PROVE  AccessInv'
<1>1. At(q, "choose") /\ Tables BY DEF ChooseCandidates
<1>2. Sound(asks[q]) /\ asks[q] \in AskRows BY AskFacts
<1>3. CASE asks' = [asks EXCEPT ![q].step = "place", ![q].tried = {e \in Place : HasRoom(e)}]
  <2> PICK a : a = [asks[q] EXCEPT !.step = "place", !.tried = {e \in Place : HasRoom(e)}] OBVIOUS
  <2>1. /\ a \in AskRows /\ a.step = "place" /\ a.held = asks[q].held /\ a.want = asks[q].want
        /\ a.update = asks[q].update /\ a.key = asks[q].key
    BY <1>2 DEF AskRows, AskSteps
  <2>2. asks' = [asks EXCEPT ![q] = a] BY <1>2, <1>3 DEF AccessInv, AccessTypeOK
  <2>3. Sound(a) BY <1>1, <1>2, <2>1 DEF Sound, Granting, At
  <2>4. \A r \in Asker \ {q} : \A x \in a.held : x \notin asks[r].held BY <2>1, AskFacts
  <2>5. a \in AskRows /\ Tables BY <1>1, <2>1
  <2> QED BY <2>2, <2>3, <2>4, <2>5, AskChanges
<1>4. CASE Decides(q, "refused", NoKey, asks[q].held)
  BY <1>1, <1>4, AnswerKeeps DEF At
<1> QED BY <1>3, <1>4 DEF ChooseCandidates

LEMMA LockPlaceKeeps ==
  ASSUME AccessInv, NEW q \in Asker, LockPlace(q)
  PROVE  AccessInv'
<1> DEFINE held == asks[q].held
<1>1. At(q, "place") /\ Tables BY DEF LockPlace
<1>2. /\ Sound(asks[q]) /\ asks[q] \in AskRows /\ held \subseteq Rows
      /\ \A r \in Asker \ {q} : \A x \in held : x \notin asks[r].held
  BY AskFacts
<1>3. CASE Decides(q, "refused", NoKey, held)
  BY <1>1, <1>3, AnswerKeeps DEF At
<1>4. ASSUME NEW e \in asks[q].tried, FreeRow(Row("place", e)), HasRoom(e),
             Decides(q, "granted", NoKey, held \cup {Row("place", e)})
      PROVE  AccessInv'
  <2>1. e \in Place BY <1>2 DEF AskRows
  <2>2. held \cup {Row("place", e)} \in SUBSET Rows BY <1>2, <2>1, RowsDiffer
  <2>3. PICK a \in AskRows :
           /\ asks' = [asks EXCEPT ![q] = a]
           /\ a.step = "commit" /\ a.held = held \cup {Row("place", e)} /\ a.want = asks[q].want
           /\ a.update = asks[q].update /\ a.key = NoKey /\ a.outcome = "granted"
    BY <1>4, <2>2, DecidesFacts DEF Outcomes
  <2>4. ASSUME NEW f \in Place, Row("place", f) \in a.held
        PROVE  Cardinality(Counted(f)) < room[f]
    <3>1. CASE f = e BY <1>4, <3>1 DEF HasRoom
    <3>2. CASE f # e
      <4>1. Row("place", f) \in held BY <2>1, <2>3, <2>4, <3>2, RowsDiffer
      <4> QED BY <1>2, <4>1 DEF Sound
    <3> QED BY <3>1, <3>2
  <2>5. \E f \in Place : Row("place", f) \in a.held BY <2>1, <2>3
  <2>6. Sound(a) BY <1>1, <1>2, <2>3, <2>4, <2>5 DEF Sound, Granting, At
  <2>7. \A r \in Asker \ {q} : \A x \in a.held : x \notin asks[r].held
    BY <1>2, <1>4, <2>3 DEF FreeRow
  <2> QED BY <1>1, <2>3, <2>6, <2>7, AskChanges
<1>5. ASSUME NEW e \in asks[q].tried, asks' = [asks EXCEPT ![q].tried = @ \ {e}]
      PROVE  AccessInv'
  <2> PICK a : a = [asks[q] EXCEPT !.tried = @ \ {e}] OBVIOUS
  <2>1. /\ a \in AskRows /\ a.step = asks[q].step /\ a.held = held /\ a.want = asks[q].want
        /\ a.update = asks[q].update /\ a.key = asks[q].key /\ a.outcome = asks[q].outcome
    BY <1>2 DEF AskRows
  <2>2. asks' = [asks EXCEPT ![q] = a] BY <1>2, <1>5 DEF AccessInv, AccessTypeOK
  <2>3. Sound(a) BY <1>2, <2>1 DEF Sound, Granting
  <2>4. \A r \in Asker \ {q} : \A x \in a.held : x \notin asks[r].held BY <2>1, <1>2
  <2>5. a \in AskRows /\ Tables BY <1>1, <2>1
  <2> QED BY <2>2, <2>3, <2>4, <2>5, AskChanges
<1> QED BY <1>3, <1>4, <1>5 DEF LockPlace, StillRoom

(* Steps that leave the requests alone.                                       *)
LEMMA OthersKeep ==
  ASSUME AccessInv, asks' = asks, AccessTypeOK', CountInv', OwnInv', LinkInv', UpdateInv',
         \A u \in Update : updates[u] # Unsent =>
           updates'[u] # Unsent /\ updates'[u].want = updates[u].want,
         \A k \in AccessKey : Created(k) =>
           Created(k)' /\ access'[k].owner = access[k].owner,
         \A l \in Link : FreeRow(Row("link", l)) \/ links'[l].state = links[l].state,
         started' = started,
         \A p \in Person :
           /\ Owned(p, {"redeem"})' \subseteq Owned(p, {"redeem"})
           /\ Live(Owned(p, {"grant"}))' \subseteq Live(Owned(p, {"grant"})),
         \A e \in Place :
           /\ FreeRow(Row("place", e)) \/ room'[e] = room[e]
           /\ Cardinality(Counted(e))' <= Cardinality(Counted(e))
  PROVE  AccessInv'
<1>1. HoldInv' BY DEF AccessInv, HoldInv
<1>2. ASSUME NEW q \in Asker PROVE Sound(asks[q])'
  <2>1. Sound(asks[q]) /\ asks[q] \in AskRows /\ asks'[q] = asks[q] BY AskFacts
  <2>2. \A l \in Link : Row("link", l) \in asks[q].held => links'[l].state = links[l].state
    BY DEF FreeRow
  <2>3. \A e \in Place : Row("place", e) \in asks[q].held =>
           room'[e] = room[e] /\ Cardinality(Counted(e))' <= Cardinality(Counted(e))
    BY DEF FreeRow
  <2>4. room \in [Place -> Nat] /\ room' \in [Place -> Nat] /\ CountInv
    BY DEF AccessInv, AccessTypeOK
  <2>5. \A p \in Person : Row("customer", p) \in asks[q].held =>
           /\ started'[p] = started[p]
           /\ Owned(p, {"redeem"})' \subseteq Owned(p, {"redeem"})
           /\ Live(Owned(p, {"grant"}))' \subseteq Live(Owned(p, {"grant"}))
    OBVIOUS
  <2> QED BY <2>1, <2>2, <2>3, <2>4, <2>5, SoundStays
<1> QED BY <1>1, <1>2 DEF AccessInv, WorkInv

(* Where the profiles are left alone so is what is read off them.             *)
LEMMA SameAccess ==
  ASSUME AccessInv, access' = access
  PROVE  /\ CountInv'
         /\ \A k \in AccessKey : Created(k) => Created(k)' /\ access'[k].owner = access[k].owner
         /\ \A p \in Person :
              /\ Owned(p, {"redeem"})' \subseteq Owned(p, {"redeem"})
              /\ Live(Owned(p, {"grant"}))' \subseteq Live(Owned(p, {"grant"}))
         /\ \A e \in Place : Cardinality(Counted(e))' <= Cardinality(Counted(e))
         /\ started' = started => OwnInv'
<1>1. CountInv' BY DEF AccessInv, CountInv, Counted
<1>2. \A k \in AccessKey : Created(k) => Created(k)' /\ access'[k].owner = access[k].owner
  BY DEF Created
<1>3. \A p \in Person :
        /\ Owned(p, {"redeem"})' \subseteq Owned(p, {"redeem"})
        /\ Live(Owned(p, {"grant"}))' \subseteq Live(Owned(p, {"grant"}))
  BY DEF Owned, Live
<1>4. ASSUME NEW e \in Place PROVE Cardinality(Counted(e))' <= Cardinality(Counted(e))
  <2>1. Counted(e)' = Counted(e) BY DEF Counted
  <2>2. Cardinality(Counted(e))' = Cardinality(Counted(e)) BY <2>1
  <2>3. PICK n \in Nat : n = Cardinality(Counted(e)) BY CountsAreNumbers DEF AccessInv
  <2>4. n <= n BY ONLY n \in Nat
  <2> QED BY <2>2, <2>3, <2>4
<1>5. started' = started => OwnInv' BY DEF AccessInv, OwnInv, Owned, Live
<1> QED BY <1>1, <1>2, <1>3, <1>4, <1>5

LEMMA SendUpdateKeeps ==
  ASSUME AccessInv, NEW u \in Update, NEW w \in Wants, SendUpdate(u, w)
  PROVE  AccessInv'
<1> PICK b : b = [updates[u] EXCEPT !.want = w] OBVIOUS
<1>1. updates[u] \in UpdateRows /\ updates[u] = Unsent BY DEF SendUpdate, AccessInv, AccessTypeOK
<1>2. b \in UpdateRows /\ b.want = w /\ b.key = NoKey /\ b # Unsent
  <2>1. b \in UpdateRows /\ b.want = w BY <1>1 DEF UpdateRows
  <2>2. b.key = updates[u].key BY <1>1 DEF UpdateRows
  <2>3. Unsent.key = NoKey /\ Unsent.want = NoWant BY DEF Unsent, NoWant
  <2>4. w # NoWant BY WantFacts
  <2> QED BY <1>1, <2>1, <2>2, <2>3, <2>4
<1>3. updates' = [updates EXCEPT ![u] = b] BY <1>1 DEF SendUpdate, AccessInv, AccessTypeOK
<1>4. UNCHANGED <<asks, access, started, links, room, open>> BY DEF SendUpdate
<1>5. AccessTypeOK' BY <1>2, <1>3, <1>4 DEF AccessInv, AccessTypeOK
<1>6. \A v \in Update : v # u => updates'[v] = updates[v] BY <1>3 DEF AccessInv, AccessTypeOK
<1>7. updates'[u] = b BY <1>3 DEF AccessInv, AccessTypeOK
<1>8. UpdateInv' BY <1>2, <1>4, <1>6, <1>7 DEF AccessInv, UpdateInv, Created
<1>9. LinkInv' BY <1>4 DEF AccessInv, LinkInv, Created
<1>10. \A v \in Update : updates[v] # Unsent =>
           updates'[v] # Unsent /\ updates'[v].want = updates[v].want
  BY <1>1, <1>6
<1> QED BY <1>4, <1>5, <1>8, <1>9, <1>10, SameAccess, OthersKeep

LEMMA RotateLinkKeeps ==
  ASSUME AccessInv, NEW l \in Link, RotateLink(l)
  PROVE  AccessInv'
<1> PICK b : b = [links[l] EXCEPT !.token = @ + 1] OBVIOUS
<1>1. links[l] \in LinkRows BY DEF AccessInv, AccessTypeOK
<1>2. b \in LinkRows /\ b.state = links[l].state /\ b.key = links[l].key
  BY <1>1 DEF LinkRows
<1>3. links' = [links EXCEPT ![l] = b] BY <1>1 DEF RotateLink, AccessInv, AccessTypeOK
<1>4. UNCHANGED <<asks, access, started, room, open, updates>> BY DEF RotateLink
<1>5. AccessTypeOK' BY <1>2, <1>3, <1>4 DEF AccessInv, AccessTypeOK
<1>6. \A m \in Link : links'[m].state = links[m].state /\ links'[m].key = links[m].key
  BY <1>2, <1>3 DEF AccessInv, AccessTypeOK
<1>7. LinkInv' BY <1>4, <1>6 DEF AccessInv, LinkInv, Created
<1>8. UpdateInv' BY <1>4 DEF AccessInv, UpdateInv, Created
<1> QED BY <1>4, <1>5, <1>6, <1>7, <1>8, SameAccess, OthersKeep

LEMMA DisableLinkKeeps ==
  ASSUME AccessInv, NEW l \in Link, DisableLink(l)
  PROVE  AccessInv'
<1> PICK b : b = [links[l] EXCEPT !.state = "revoked"] OBVIOUS
<1>1. links[l] \in LinkRows BY DEF AccessInv, AccessTypeOK
<1>2. b \in LinkRows /\ b.state = "revoked" /\ b.key = links[l].key
  BY <1>1 DEF LinkRows
<1>3. links' = [links EXCEPT ![l] = b] BY <1>1 DEF DisableLink, AccessInv, AccessTypeOK
<1>4. UNCHANGED <<asks, access, started, room, open, updates>> /\ FreeRow(Row("link", l))
  BY DEF DisableLink
<1>5. AccessTypeOK' BY <1>2, <1>3, <1>4 DEF AccessInv, AccessTypeOK
<1>6. \A m \in Link : /\ m # l => links'[m].state = links[m].state
                      /\ links'[m].key = links[m].key
  BY <1>2, <1>3 DEF AccessInv, AccessTypeOK
<1>7. links'[l].state = "revoked" BY <1>2, <1>3 DEF AccessInv, AccessTypeOK
<1>8. LinkInv' BY <1>4, <1>6, <1>7 DEF AccessInv, LinkInv, Created
<1>9. UpdateInv' BY <1>4 DEF AccessInv, UpdateInv, Created
<1> QED BY <1>4, <1>5, <1>6, <1>8, <1>9, SameAccess, OthersKeep

LEMMA UpdateCapacityKeeps ==
  ASSUME AccessInv, NEW e \in Place, NEW n \in Nat, UpdateCapacity(e, n)
  PROVE  AccessInv'
<1>1. UNCHANGED <<asks, access, started, links, open, updates>> /\ FreeRow(Row("place", e))
      /\ room' = [room EXCEPT ![e] = n]
  BY DEF UpdateCapacity
<1>2. AccessTypeOK' BY <1>1 DEF AccessInv, AccessTypeOK
<1>3. \A f \in Place : f # e => room'[f] = room[f] BY <1>1 DEF AccessInv, AccessTypeOK
<1>4. LinkInv' /\ UpdateInv' BY <1>1 DEF AccessInv, LinkInv, UpdateInv, Created
<1> QED BY <1>1, <1>2, <1>3, <1>4, SameAccess, OthersKeep

LEMMA ChangeHealthKeeps ==
  ASSUME AccessInv, NEW e \in Place, ChangeHealth(e)
  PROVE  AccessInv'
<1>1. UNCHANGED <<asks, access, started, links, room, updates>> /\ open' = [open EXCEPT ![e] = ~@]
  BY DEF ChangeHealth
<1>2. AccessTypeOK' BY <1>1 DEF AccessInv, AccessTypeOK
<1>3. LinkInv' /\ UpdateInv' BY <1>1 DEF AccessInv, LinkInv, UpdateInv, Created
<1> QED BY <1>1, <1>2, <1>3, SameAccess, OthersKeep

LEMMA EndAccessKeeps ==
  ASSUME AccessInv, NEW k \in AccessKey, EndAccess(k)
  PROVE  /\ AccessInv'
         /\ \A e \in Place : Cardinality(Counted(e))' <= Cardinality(Counted(e))
<1> PICK b : b = [access[k] EXCEPT !.state = "ended"] OBVIOUS
<1>1. access[k] \in AccessRows /\ access[k].state = "live"
  BY DEF EndAccess, AccessInv, AccessTypeOK, NoAccess
<1>2. /\ b \in AccessRows /\ b.state = "ended" /\ b.owner = access[k].owner
      /\ b.kind = access[k].kind /\ b.link = access[k].link
  BY <1>1 DEF AccessRows
<1>3. access' = [access EXCEPT ![k] = b] BY <1>1 DEF EndAccess, AccessInv, AccessTypeOK
<1>4. UNCHANGED <<asks, started, links, room, open, updates>> BY DEF EndAccess
<1>5. AccessTypeOK' BY <1>2, <1>3, <1>4 DEF AccessInv, AccessTypeOK
<1>6. \A j \in AccessKey : j # k => access'[j] = access[j] BY <1>3 DEF AccessInv, AccessTypeOK
<1>7. access'[k] = b BY <1>3 DEF AccessInv, AccessTypeOK
<1>8. \A j \in AccessKey : /\ Created(j)' <=> Created(j)
                           /\ Created(j) => /\ access'[j].owner = access[j].owner
                                            /\ access'[j].link = access[j].link
  BY <1>1, <1>2, <1>6, <1>7 DEF Created
<1>9. LinkInv' BY <1>4, <1>8 DEF AccessInv, LinkInv
<1>10. UpdateInv' BY <1>4, <1>8 DEF AccessInv, AccessTypeOK, UpdateRows, UpdateInv
<1>11. \A p \in Person, K \in SUBSET {"trial", "grant", "redeem"} :
         /\ Owned(p, K)' = Owned(p, K)
         /\ Live(Owned(p, K))' \subseteq Live(Owned(p, K))
  <2> SUFFICES ASSUME NEW p \in Person, NEW K \in SUBSET {"trial", "grant", "redeem"}
               PROVE  /\ Owned(p, K)' = Owned(p, K)
                      /\ Live(Owned(p, K))' \subseteq Live(Owned(p, K))
    OBVIOUS
  <2>1. \A j \in AccessKey : /\ j \in Owned(p, K)' <=> j \in Owned(p, K)
                             /\ access'[j].state = "live" => access[j].state = "live"
    <3> SUFFICES ASSUME NEW j \in AccessKey
                 PROVE  /\ j \in Owned(p, K)' <=> j \in Owned(p, K)
                        /\ access'[j].state = "live" => access[j].state = "live"
      OBVIOUS
    <3>1. CASE j = k BY <3>1, <1>1, <1>2, <1>7 DEF Owned
    <3>2. CASE j # k BY <3>2, <1>6 DEF Owned
    <3> QED BY <3>1, <3>2
  <2>2. Owned(p, K) \subseteq AccessKey /\ Owned(p, K)' \subseteq AccessKey BY DEF Owned
  <2>3. Owned(p, K)' = Owned(p, K) BY <2>1, <2>2
  <2> QED BY <2>1, <2>2, <2>3 DEF Live
<1>12. OwnInv' BY <1>4, <1>11 DEF AccessInv, OwnInv
<1>13. ASSUME NEW e \in Place
       PROVE  IsFiniteSet(Counted(e))' /\ Cardinality(Counted(e))' <= Cardinality(Counted(e))
  <2>1. Counted(e)' \subseteq Counted(e) BY <1>1, <1>2, <1>6, <1>7 DEF Counted
  <2>2. IsFiniteSet(Counted(e)) BY DEF AccessInv, CountInv
  <2> QED BY <2>1, <2>2, FS_Subset
<1>14. CountInv' BY <1>13 DEF CountInv
<1>15. \A p \in Person :
           /\ Owned(p, {"redeem"})' \subseteq Owned(p, {"redeem"})
           /\ Live(Owned(p, {"grant"}))' \subseteq Live(Owned(p, {"grant"}))
  BY <1>11
<1> QED BY <1>4, <1>5, <1>8, <1>9, <1>10, <1>12, <1>13, <1>14, <1>15, OthersKeep

(* A request ends: it may have changed the rows it held the locks of.         *)
LEMMA RequestEnds ==
  ASSUME AccessInv, NEW q \in Asker, NEW a \in AskRows, asks' = [asks EXCEPT ![q] = a],
         a.step \in {"idle", "reply"}, a.key = NoKey, a.held = {},
         a.step = "reply" /\ a.update # NoUpdate => updates'[a.update] # Unsent,
         AccessTypeOK', CountInv', OwnInv', LinkInv', UpdateInv', room' = room,
         \A u \in Update : updates[u] # Unsent =>
           updates'[u] # Unsent /\ updates'[u].want = updates[u].want,
         \A k \in AccessKey : Created(k) =>
           Created(k)' /\ access'[k].owner = access[k].owner,
         \A l \in Link : Row("link", l) \notin asks[q].held => links'[l].state = links[l].state,
         \A p \in Person : Row("customer", p) \notin asks[q].held =>
           /\ started'[p] = started[p]
           /\ Owned(p, {"redeem"})' \subseteq Owned(p, {"redeem"})
           /\ Live(Owned(p, {"grant"}))' \subseteq Live(Owned(p, {"grant"})),
         \A e \in Place : Row("place", e) \notin asks[q].held =>
           Cardinality(Counted(e))' <= Cardinality(Counted(e))
  PROVE  AccessInv'
<1>1. asks'[q] = a /\ \A r \in Asker \ {q} : asks'[r] = asks[r] BY DEF AccessInv, AccessTypeOK
<1>2. HoldInv'
  <2> SUFFICES ASSUME NEW p \in Asker, NEW r \in Asker, NEW row \in Rows,
                      row \in asks'[p].held, row \in asks'[r].held
               PROVE  p = r
    BY DEF HoldInv
  <2>1. p # q /\ r # q BY <1>1
  <2> QED BY <1>1, <2>1 DEF AccessInv, HoldInv
<1>3. ASSUME NEW r \in Asker PROVE Sound(asks[r])'
  <2>1. CASE r = q
    <3>1. a.step \notin {"choose", "place", "commit", "claim", "link", "customer"} OBVIOUS
    <3> QED BY <1>1, <2>1, <3>1 DEF Sound, Granting
  <2>2. CASE r # q
    <3>1. Sound(asks[r]) /\ asks[r] \in AskRows /\ asks'[r] = asks[r] BY <1>1, <2>2, AskFacts
    <3>2. \A row \in Rows : row \in asks[r].held => row \notin asks[q].held
      BY <2>2 DEF AccessInv, HoldInv
    <3>3. \A l \in Link : Row("link", l) \in asks[r].held => links'[l].state = links[l].state
      BY <3>2, RowsDiffer
    <3>4. \A e \in Place : Row("place", e) \in asks[r].held =>
             room'[e] = room[e] /\ Cardinality(Counted(e))' <= Cardinality(Counted(e))
      BY <3>2, RowsDiffer
    <3>5. room \in [Place -> Nat] /\ room' \in [Place -> Nat] /\ CountInv
      BY DEF AccessInv, AccessTypeOK
    <3>6. \A p \in Person : Row("customer", p) \in asks[r].held =>
             /\ started'[p] = started[p]
             /\ Owned(p, {"redeem"})' \subseteq Owned(p, {"redeem"})
             /\ Live(Owned(p, {"grant"}))' \subseteq Live(Owned(p, {"grant"}))
      BY <3>2, RowsDiffer
    <3> QED BY <3>1, <3>3, <3>4, <3>5, <3>6, SoundStays
  <2> QED BY <2>1, <2>2
<1> QED BY <1>2, <1>3 DEF AccessInv, WorkInv

LEMMA ReplyKeeps ==
  ASSUME AccessInv, NEW q \in Asker, Reply(q)
  PROVE  AccessInv'
<1> DEFINE u == asks[q].update
<1>1. /\ asks' = [asks EXCEPT ![q] = NoAsk] /\ UNCHANGED <<access, started, links, room, open>>
      /\ \/ updates' = [updates EXCEPT ![u].processed = TRUE] \/ updates' = updates
  BY DEF Reply
<1>2. NoAsk \in AskRows /\ NoAsk.step = "idle" /\ NoAsk.key = NoKey /\ NoAsk.held = {}
  BY DEF NoAsk, NoWant, AskRows, AskSteps, Outcomes
<1>3. ASSUME NEW v \in Update
      PROVE  /\ updates'[v] \in UpdateRows /\ updates'[v].want = updates[v].want
             /\ updates'[v].key = updates[v].key
             /\ updates[v] # Unsent => updates'[v] # Unsent
             /\ updates'[v] # Unsent => updates[v] # Unsent \/ v = u
  <2>1. updates[v] \in UpdateRows BY DEF AccessInv, AccessTypeOK
  <2> PICK b : b = [updates[v] EXCEPT !.processed = TRUE] OBVIOUS
  <2>2. /\ b \in UpdateRows /\ b.want = updates[v].want /\ b.key = updates[v].key
        /\ b.processed = TRUE
    BY <2>1 DEF UpdateRows
  <2>3. updates'[v] = b \/ updates'[v] = updates[v] BY <1>1 DEF AccessInv, AccessTypeOK
  <2>4. Unsent.processed = FALSE BY DEF Unsent
  <2>5. b # Unsent BY <2>2, <2>4
  <2>6. v # u => updates'[v] = updates[v] BY <1>1 DEF AccessInv, AccessTypeOK
  <2> QED BY <2>1, <2>2, <2>3, <2>5, <2>6
<1>4. updates' \in [Update -> UpdateRows]
  <2>1. updates' = [v \in Update |-> updates'[v]] BY <1>1 DEF AccessInv, AccessTypeOK
  <2> QED BY <1>3, <2>1
<1>5. AccessTypeOK' BY <1>1, <1>2, <1>4 DEF AccessInv, AccessTypeOK
<1>6. UpdateInv'
  <2>1. u \in Update => updates[u] # Unsent
    BY AskFacts, AccessAssumption DEF Sound, Reply, At
  <2>2. \A v \in Update : updates'[v] # Unsent => updates[v].want \in Wants
    BY <1>3, <2>1 DEF AccessInv, UpdateInv
  <2> QED BY <1>1, <1>3, <2>2 DEF AccessInv, UpdateInv, Created
<1>7. LinkInv' BY <1>1 DEF AccessInv, LinkInv, Created
<1> QED BY <1>1, <1>2, <1>3, <1>5, <1>6, <1>7, SameAccess, RequestEnds

(* What one commit does, with the key it takes if it grants.                  *)
Grants(q) == asks[q].outcome = "granted"
Commits(q, k) ==
  LET u == asks[q].update
  IN  /\ At(q, "commit") /\ UNCHANGED <<room, open>>
      /\ Grants(q) => access[k] = NoAccess
      /\ access' = IF Grants(q) THEN [access EXCEPT ![k] = NewAccess(q)] ELSE access
      /\ started' = [p \in Person |->
                      started[p] \/ (Grants(q) /\ p = Want(q).person /\ Want(q).kind # "grant")]
      /\ links' = IF Grants(q) /\ Want(q).kind = "redeem"
                  THEN [links EXCEPT ![Want(q).link].state = "redeemed",
                                     ![Want(q).link].key = k]
                  ELSE links
      /\ \/ /\ u = NoUpdate /\ updates' = updates /\ asks' = [asks EXCEPT ![q] = NoAsk]
         \/ /\ u # NoUpdate
            /\ updates' = [updates EXCEPT ![u].outcome = asks[q].outcome,
                                          ![u].key = IF Grants(q) THEN k ELSE asks[q].key]
            /\ asks' = [asks EXCEPT ![q] = [NoAsk EXCEPT !.step = "reply", !.update = u]]

LEMMA CommitAskCommits ==
  ASSUME NEW q \in Asker, CommitAsk(q)
  PROVE  \E k \in AccessKey : Commits(q, k)
BY DEF CommitAsk, Commits, Grants

(* Before it commits: who grants may, and what it read still holds.           *)
LEMMA CommitFacts ==
  ASSUME AccessInv, NEW q \in Asker, At(q, "commit")
  PROVE  /\ Want(q) \in Wants
         /\ asks[q].update \in Update \cup {NoUpdate} /\ asks[q].outcome \in Outcomes
         /\ asks[q].key \in AccessKey \cup {NoKey}
         /\ asks[q].update # NoUpdate => /\ updates[asks[q].update] # Unsent
                                         /\ Want(q) = updates[asks[q].update].want
         /\ asks[q].key # NoKey => /\ Created(asks[q].key)
                                   /\ access[asks[q].key].owner = Want(q).person
         /\ Grants(q) =>
              /\ Row("customer", Want(q).person) \in asks[q].held /\ EntitledTo(Want(q))
              /\ Want(q).kind = "redeem" => /\ Row("link", Want(q).link) \in asks[q].held
                                            /\ links[Want(q).link].state = "open"
              /\ PlaceOf(q) \in Place /\ Row("place", PlaceOf(q)) \in asks[q].held
              /\ Cardinality(Counted(PlaceOf(q))) < room[PlaceOf(q)]
<1>1. Sound(asks[q]) /\ asks[q] \in AskRows BY AskFacts
<1>2. asks[q].step = "commit" BY DEF At
<1>3. /\ asks[q].update \in Update \cup {NoUpdate} /\ asks[q].outcome \in Outcomes
      /\ asks[q].key \in AccessKey \cup {NoKey}
  BY <1>1 DEF AskRows
<1>4. ASSUME Grants(q)
      PROVE  /\ Row("customer", Want(q).person) \in asks[q].held /\ EntitledTo(Want(q))
             /\ Want(q).kind = "redeem" => /\ Row("link", Want(q).link) \in asks[q].held
                                           /\ links[Want(q).link].state = "open"
             /\ PlaceOf(q) \in Place /\ Row("place", PlaceOf(q)) \in asks[q].held
             /\ Cardinality(Counted(PlaceOf(q))) < room[PlaceOf(q)]
  <2>1. Granting(asks[q]) BY <1>2, <1>4 DEF Granting, Grants
  <2>2. \E e \in Place : Row("place", e) \in asks[q].held BY <1>1, <1>2, <1>4 DEF Sound, Grants
  <2>3. PlaceOf(q) \in Place /\ Row("place", PlaceOf(q)) \in asks[q].held BY <2>2 DEF PlaceOf
  <2>4. Cardinality(Counted(PlaceOf(q))) < room[PlaceOf(q)] BY <1>1, <2>3 DEF Sound
  <2>5. Row("customer", Want(q).person) \in asks[q].held /\ EntitledTo(Want(q))
    BY <1>1, <2>1 DEF Sound, Want
  <2>6. Want(q).kind = "redeem" => /\ Row("link", Want(q).link) \in asks[q].held
                                   /\ links[Want(q).link].state = "open"
    BY <1>1, <2>1 DEF Sound, Want
  <2> QED BY <2>3, <2>4, <2>5, <2>6
<1> QED BY <1>1, <1>2, <1>3, <1>4 DEF Sound, Want

(* A grant adds one live profile, to its person and its place.                *)
LEMMA GrantAdds ==
  ASSUME AccessInv, NEW q \in Asker, NEW k \in AccessKey, Commits(q, k), Grants(q)
  PROVE  /\ NewAccess(q) \in AccessRows /\ access' \in [AccessKey -> {NoAccess} \cup AccessRows]
         /\ ~Created(k) /\ Created(k)' /\ access'[k].owner = Want(q).person
         /\ access'[k].link = IF Want(q).kind = "redeem" THEN {Want(q).link} ELSE {}
         /\ \A j \in AccessKey \ {k} : access'[j] = access[j]
         /\ \A p \in Person, K \in SUBSET {"trial", "grant", "redeem"} :
              /\ Owned(p, K)' = IF p = Want(q).person /\ Want(q).kind \in K
                                THEN Owned(p, K) \cup {k} ELSE Owned(p, K)
              /\ Live(Owned(p, K))' = IF p = Want(q).person /\ Want(q).kind \in K
                                      THEN Live(Owned(p, K)) \cup {k} ELSE Live(Owned(p, K))
         /\ \A e \in Place :
              Counted(e)' = IF e = PlaceOf(q) THEN Counted(e) \cup {k} ELSE Counted(e)
<1> DEFINE w == Want(q)
<1> PICK n : n = NewAccess(q) OBVIOUS
<1>1. /\ At(q, "commit") /\ access[k] = NoAccess /\ access' = [access EXCEPT ![k] = n]
  BY DEF Commits
<1>2. w \in Wants /\ PlaceOf(q) \in Place BY <1>1, CommitFacts
<1>3. /\ w.kind \in {"trial", "grant", "redeem"} /\ w.person \in Person
      /\ w.kind = "redeem" => w.link \in Link
  BY <1>2, WantFacts
<1>4. /\ n \in AccessRows /\ n.state = "live" /\ n.owner = w.person /\ n.kind = w.kind
      /\ n.place = PlaceOf(q) /\ n.link = IF w.kind = "redeem" THEN {w.link} ELSE {}
  BY <1>2, <1>3 DEF NewAccess, AccessRows
<1>5. access' \in [AccessKey -> {NoAccess} \cup AccessRows]
  BY <1>1, <1>4 DEF AccessInv, AccessTypeOK
<1>6. access'[k] = n /\ \A j \in AccessKey \ {k} : access'[j] = access[j]
  BY <1>1 DEF AccessInv, AccessTypeOK
<1>7. access[k].state = "none" BY <1>1 DEF NoAccess
<1>8. ~Created(k) /\ Created(k)' BY <1>4, <1>6, <1>7 DEF Created
<1>9. ASSUME NEW p \in Person, NEW K \in SUBSET {"trial", "grant", "redeem"}
      PROVE  /\ Owned(p, K)' = IF p = w.person /\ w.kind \in K
                               THEN Owned(p, K) \cup {k} ELSE Owned(p, K)
             /\ Live(Owned(p, K))' = IF p = w.person /\ w.kind \in K
                                     THEN Live(Owned(p, K)) \cup {k} ELSE Live(Owned(p, K))
  <2>1. Owned(p, K) \subseteq AccessKey /\ Owned(p, K)' \subseteq AccessKey BY DEF Owned
  <2>2. k \notin Owned(p, K) BY <1>7 DEF Owned
  <2>3. k \in Owned(p, K)' <=> p = w.person /\ w.kind \in K BY <1>4, <1>6 DEF Owned
  <2>4. \A j \in AccessKey \ {k} : j \in Owned(p, K)' <=> j \in Owned(p, K)
    BY <1>6 DEF Owned
  <2>5. Owned(p, K)' = IF p = w.person /\ w.kind \in K
                      THEN Owned(p, K) \cup {k} ELSE Owned(p, K)
    BY <2>1, <2>2, <2>3, <2>4
  <2> QED BY <2>1, <2>2, <2>5, <1>4, <1>6 DEF Live
<1>10. ASSUME NEW e \in Place
       PROVE  Counted(e)' = IF e = PlaceOf(q) THEN Counted(e) \cup {k} ELSE Counted(e)
  <2>1. Counted(e) \subseteq AccessKey /\ Counted(e)' \subseteq AccessKey BY DEF Counted
  <2>2. k \notin Counted(e) BY <1>7 DEF Counted
  <2>3. k \in Counted(e)' <=> e = PlaceOf(q) BY <1>4, <1>6 DEF Counted
  <2>4. \A j \in AccessKey \ {k} : j \in Counted(e)' <=> j \in Counted(e) BY <1>6 DEF Counted
  <2> QED BY <2>1, <2>2, <2>3, <2>4
<1> QED BY <1>4, <1>5, <1>6, <1>8, <1>9, <1>10

LEMMA StartedAfter ==
  ASSUME AccessInv, NEW q \in Asker, NEW k \in AccessKey, Commits(q, k)
  PROVE  /\ started' \in [Person -> BOOLEAN]
         /\ \A p \in Person : started'[p] <=>
              started[p] \/ (Grants(q) /\ p = Want(q).person /\ Want(q).kind # "grant")
         /\ ~Grants(q) => started' = started
<1>1. started \in [Person -> BOOLEAN] BY DEF AccessInv, AccessTypeOK
<1>2. started' = [p \in Person |->
                   started[p] \/ (Grants(q) /\ p = Want(q).person /\ Want(q).kind # "grant")]
  BY DEF Commits
<1>3. \A p \in Person : started[p] \in BOOLEAN BY <1>1
<1>4. ~Grants(q) => started' = [p \in Person |-> started[p]]
  BY <1>2, <1>3
<1> QED BY <1>1, <1>2, <1>3, <1>4

LEMMA LinksAfter ==
  ASSUME AccessInv, NEW q \in Asker, NEW k \in AccessKey, Commits(q, k)
  PROVE  /\ links' \in [Link -> LinkRows]
         /\ Grants(q) /\ Want(q).kind = "redeem" =>
              /\ links'[Want(q).link].state = "redeemed" /\ links'[Want(q).link].key = k
              /\ \A l \in Link \ {Want(q).link} : links'[l] = links[l]
         /\ ~(Grants(q) /\ Want(q).kind = "redeem") => links' = links
<1>1. links \in [Link -> LinkRows] BY DEF AccessInv, AccessTypeOK
<1>2. CASE Grants(q) /\ Want(q).kind = "redeem"
  <2>1. PICK l \in Link : l = Want(q).link BY <1>2, CommitFacts, WantFacts DEF Commits
  <2>2. links' = [links EXCEPT ![l].state = "redeemed", ![l].key = k]
    BY <1>2, <2>1 DEF Commits
  <2>3. links[l] \in LinkRows BY <1>1
  <2> PICK b : b = [links[l] EXCEPT !.state = "redeemed", !.key = k] OBVIOUS
  <2>4. b \in LinkRows /\ b.state = "redeemed" /\ b.key = k BY <2>3 DEF LinkRows
  <2>5. links' = [links EXCEPT ![l] = b] BY <1>1, <2>2
  <2> QED BY <1>1, <1>2, <2>1, <2>4, <2>5
<1>3. CASE ~(Grants(q) /\ Want(q).kind = "redeem")
  <2>1. links' = links BY <1>3 DEF Commits
  <2> QED BY <1>1, <1>3, <2>1
<1> QED BY <1>2, <1>3

LEMMA UpdatesAfter ==
  ASSUME AccessInv, NEW q \in Asker, NEW k \in AccessKey, Commits(q, k)
  PROVE  /\ updates' \in [Update -> UpdateRows]
         /\ \A v \in Update :
              /\ updates[v] # Unsent => updates'[v] # Unsent
              /\ updates'[v] # Unsent => updates[v] # Unsent
              /\ updates'[v].want = updates[v].want
              /\ \/ updates'[v].key = updates[v].key
                 \/ /\ updates'[v].want = Want(q)
                    /\ updates'[v].key = IF Grants(q) THEN k ELSE asks[q].key
<1> DEFINE u == asks[q].update
<1>1. updates \in [Update -> UpdateRows] BY DEF AccessInv, AccessTypeOK
<1>2. CASE updates' = updates
  BY <1>1, <1>2
<1>3. CASE u # NoUpdate
  <2>1. PICK key \in AccessKey \cup {NoKey} : key = IF Grants(q) THEN k ELSE asks[q].key
    BY CommitFacts DEF Commits
  <2>2. PICK o \in Outcomes : o = asks[q].outcome BY CommitFacts DEF Commits
  <2>3. /\ u \in Update /\ updates[u] # Unsent /\ Want(q) = updates[u].want
        /\ updates[u].want \in Wants
    BY <1>3, CommitFacts DEF Commits, AccessInv, UpdateInv
  <2>4. updates' = [updates EXCEPT ![u].outcome = o, ![u].key = key]
    BY <1>3, <2>1, <2>2 DEF Commits
  <2> PICK b : b = [updates[u] EXCEPT !.outcome = o, !.key = key] OBVIOUS
  <2>5. b \in UpdateRows /\ b.want = updates[u].want /\ b.key = key
    BY <1>1, <2>3 DEF UpdateRows
  <2>6. updates' = [updates EXCEPT ![u] = b] BY <1>1, <2>3, <2>4
  <2>7. Unsent.want = NoWant BY DEF Unsent, NoWant
  <2>8. b # Unsent BY <2>3, <2>5, <2>7, WantFacts
  <2>9. updates' \in [Update -> UpdateRows] BY <1>1, <2>5, <2>6
  <2>10. updates'[u] = b /\ \A v \in Update \ {u} : updates'[v] = updates[v]
    BY <1>1, <2>3, <2>6
  <2> QED BY <2>1, <2>3, <2>5, <2>8, <2>9, <2>10
<1> QED BY <1>2, <1>3 DEF Commits

LEMMA CommitAskKeeps ==
  ASSUME AccessInv, NEW q \in Asker, CommitAsk(q)
  PROVE  AccessInv'
<1>1. PICK k \in AccessKey : Commits(q, k) BY CommitAskCommits
<1> DEFINE w == Want(q)
           u == asks[q].update
<1>2. At(q, "commit") /\ room' = room /\ open' = open BY <1>1 DEF Commits
<1>3. w \in Wants /\ w.kind \in {"trial", "grant", "redeem"} /\ w.person \in Person
  BY <1>2, CommitFacts, WantFacts
<1>4. PICK a \in AskRows :
        /\ asks' = [asks EXCEPT ![q] = a]
        /\ a.step \in {"idle", "reply"} /\ a.key = NoKey /\ a.held = {}
        /\ a.step = "reply" /\ a.update # NoUpdate => updates'[a.update] # Unsent
  <2>1. NoAsk \in AskRows /\ NoAsk.step = "idle" /\ NoAsk.key = NoKey /\ NoAsk.held = {}
    BY DEF NoAsk, NoWant, AskRows, AskSteps, Outcomes
  <2>2. CASE asks' = [asks EXCEPT ![q] = NoAsk] BY <2>1, <2>2
  <2>3. CASE u # NoUpdate /\ asks' = [asks EXCEPT ![q] = [NoAsk EXCEPT !.step = "reply", !.update = u]]
    <3> PICK b : b = [NoAsk EXCEPT !.step = "reply", !.update = u] OBVIOUS
    <3>1. u \in Update /\ updates[u] # Unsent BY <1>2, <2>3, CommitFacts
    <3>2. b \in AskRows /\ b.step = "reply" /\ b.key = NoKey /\ b.held = {} /\ b.update = u
      BY <3>1 DEF NoAsk, NoWant, AskRows, AskSteps, Outcomes
    <3>3. updates'[u] # Unsent BY <1>1, <3>1, UpdatesAfter
    <3> QED BY <2>3, <3>2, <3>3
  <2> QED BY <1>1, <2>2, <2>3 DEF Commits
<1>5. asks' \in [Asker -> AskRows] BY <1>4 DEF AccessInv, AccessTypeOK
<1>6. CASE Grants(q)
  <2>1. /\ Row("customer", w.person) \in asks[q].held /\ EntitledTo(w)
        /\ w.kind = "redeem" => Row("link", w.link) \in asks[q].held /\ links[w.link].state = "open"
        /\ PlaceOf(q) \in Place /\ Row("place", PlaceOf(q)) \in asks[q].held
    BY <1>2, <1>6, CommitFacts
  <2>2. /\ access' \in [AccessKey -> {NoAccess} \cup AccessRows]
        /\ ~Created(k) /\ Created(k)' /\ access'[k].owner = w.person
        /\ access'[k].link = IF w.kind = "redeem" THEN {w.link} ELSE {}
        /\ \A j \in AccessKey \ {k} : access'[j] = access[j]
    BY <1>1, <1>6, GrantAdds
  <2>3. \A p \in Person, K \in SUBSET {"trial", "grant", "redeem"} :
          /\ Owned(p, K)' = IF p = w.person /\ w.kind \in K
                            THEN Owned(p, K) \cup {k} ELSE Owned(p, K)
          /\ Live(Owned(p, K))' = IF p = w.person /\ w.kind \in K
                                  THEN Live(Owned(p, K)) \cup {k} ELSE Live(Owned(p, K))
    BY <1>1, <1>6, GrantAdds
  <2>4. \A e \in Place :
          Counted(e)' = IF e = PlaceOf(q) THEN Counted(e) \cup {k} ELSE Counted(e)
    BY <1>1, <1>6, GrantAdds
  <2>5. AccessTypeOK'
    BY <1>1, <1>2, <1>5, <2>2, StartedAfter, LinksAfter, UpdatesAfter DEF AccessInv, AccessTypeOK
  <2>6. CountInv'
    <3> SUFFICES ASSUME NEW e \in Place PROVE IsFiniteSet(Counted(e)')
      BY DEF CountInv
    <3>1. IsFiniteSet(Counted(e)) BY DEF AccessInv, CountInv
    <3>2. IsFiniteSet(Counted(e) \cup {k}) BY <3>1, FS_AddElement
    <3> QED BY <2>4, <3>1, <3>2
  <2>7. OwnInv'
    <3> SUFFICES ASSUME NEW p \in Person
                 PROVE  /\ \A j \in Owned(p, {"trial", "redeem"})' : started'[p]
                        /\ \A i, j \in Owned(p, {"trial", "redeem"})' : i = j
                        /\ \A i, j \in Live(Owned(p, {"grant"}))' : i = j
      BY DEF OwnInv
    <3>1. /\ \A j \in Owned(p, {"trial", "redeem"}) : started[p]
          /\ \A i, j \in Owned(p, {"trial", "redeem"}) : i = j
          /\ \A i, j \in Live(Owned(p, {"grant"})) : i = j
      BY DEF AccessInv, OwnInv
    <3>2. CASE p # w.person
      <4>1. /\ Owned(p, {"trial", "redeem"})' = Owned(p, {"trial", "redeem"})
            /\ Live(Owned(p, {"grant"}))' = Live(Owned(p, {"grant"}))
        BY <2>3, <3>2
      <4> QED BY <1>1, <3>1, <4>1, StartedAfter
    <3>3. CASE p = w.person /\ w.kind = "grant"
      <4>1. /\ Owned(p, {"trial", "redeem"})' = Owned(p, {"trial", "redeem"})
            /\ Live(Owned(p, {"grant"}))' = Live(Owned(p, {"grant"})) \cup {k}
        BY <2>3, <3>3
      <4>2. Live(Owned(p, {"grant"})) = {} BY <2>1, <3>3 DEF EntitledTo
      <4> QED BY <1>1, <3>1, <4>1, <4>2, StartedAfter
    <3>4. CASE p = w.person /\ w.kind # "grant"
      <4>1. /\ Owned(p, {"trial", "redeem"})' = Owned(p, {"trial", "redeem"}) \cup {k}
            /\ Live(Owned(p, {"grant"}))' = Live(Owned(p, {"grant"}))
        BY <1>3, <2>3, <3>4
      <4>2. ~started[p] BY <2>1, <3>4 DEF EntitledTo
      <4>3. Owned(p, {"trial", "redeem"}) = {} BY <3>1, <4>2
      <4>4. started'[p] BY <1>1, <1>6, <3>4, StartedAfter
      <4> QED BY <3>1, <4>1, <4>3, <4>4
    <3> QED BY <3>2, <3>3, <3>4
  <2>8. LinkInv'
    <3> SUFFICES ASSUME NEW l \in Link
                 PROVE  /\ links'[l].state = "open" => links'[l].key = NoKey
                        /\ \A j \in AccessKey :
                             Created(j)' /\ l \in access'[j].link <=> j = links'[l].key
      BY DEF LinkInv
    <3>1. /\ links[l].state = "open" => links[l].key = NoKey
          /\ \A j \in AccessKey : Created(j) /\ l \in access[j].link <=> j = links[l].key
      BY DEF AccessInv, LinkInv
    <3>2. \A j \in AccessKey \ {k} : Created(j)' /\ l \in access'[j].link
                                     <=> j = links[l].key
      BY <2>2, <3>1 DEF Created
    <3>3. CASE w.kind = "redeem" /\ l = w.link
      <4>1. links'[l].state = "redeemed" /\ links'[l].key = k BY <1>1, <1>6, <3>3, LinksAfter
      <4>2. links[l].key = NoKey BY <2>1, <3>1, <3>3
      <4>3. l \in access'[k].link BY <2>2, <3>3
      <4> QED BY <2>2, <3>2, <4>1, <4>2, <4>3, AccessAssumption
    <3>4. CASE ~(w.kind = "redeem" /\ l = w.link)
      <4>1. links'[l] = links[l] BY <1>1, <1>6, <3>4, LinksAfter
      <4>2. l \notin access'[k].link BY <2>2, <3>4
      <4>3. k # links[l].key BY <2>2, <3>1
      <4> QED BY <3>1, <3>2, <4>1, <4>2, <4>3
    <3> QED BY <3>3, <3>4
  <2>9. \A j \in AccessKey : Created(j) => Created(j)' /\ access'[j].owner = access[j].owner
    BY <2>2 DEF Created
  <2>10. UpdateInv'
    <3> SUFFICES ASSUME NEW v \in Update
                 PROVE  /\ updates'[v] # Unsent => updates'[v].want \in Wants
                        /\ updates'[v].key # NoKey =>
                             /\ access'[updates'[v].key].state # "none"
                             /\ access'[updates'[v].key].owner = updates'[v].want.person
      BY DEF UpdateInv, Created
    <3>1. /\ updates[v] # Unsent => updates[v].want \in Wants
          /\ updates[v].key # NoKey => /\ Created(updates[v].key)
                                       /\ access[updates[v].key].owner = updates[v].want.person
          /\ updates[v].key \in AccessKey \cup {NoKey}
      BY DEF AccessInv, AccessTypeOK, UpdateRows, UpdateInv
    <3>2. /\ updates'[v] # Unsent => updates[v] # Unsent
          /\ updates'[v].want = updates[v].want
          /\ \/ updates'[v].key = updates[v].key
             \/ updates'[v].want = w /\ updates'[v].key = k
      BY <1>1, <1>6, UpdatesAfter
    <3>3. CASE updates'[v].key = updates[v].key
      BY <2>9, <3>1, <3>2, <3>3 DEF Created
    <3>4. CASE updates'[v].want = w /\ updates'[v].key = k
      BY <2>2, <3>1, <3>2, <3>4 DEF Created
    <3> QED BY <3>2, <3>3, <3>4
  <2>11. \A l \in Link : Row("link", l) \notin asks[q].held => links'[l].state = links[l].state
    BY <1>1, <2>1, LinksAfter
  <2>12. \A p \in Person : Row("customer", p) \notin asks[q].held =>
           /\ started'[p] = started[p]
           /\ Owned(p, {"redeem"})' \subseteq Owned(p, {"redeem"})
           /\ Live(Owned(p, {"grant"}))' \subseteq Live(Owned(p, {"grant"}))
    <3> SUFFICES ASSUME NEW p \in Person, Row("customer", p) \notin asks[q].held
                 PROVE  /\ started'[p] = started[p]
                        /\ Owned(p, {"redeem"})' = Owned(p, {"redeem"})
                        /\ Live(Owned(p, {"grant"}))' = Live(Owned(p, {"grant"}))
      OBVIOUS
    <3>1. p # w.person BY <2>1
    <3>2. started'[p] \in BOOLEAN /\ started[p] \in BOOLEAN
      BY <1>1, StartedAfter DEF AccessInv, AccessTypeOK
    <3> QED BY <1>1, <2>3, <3>1, <3>2, StartedAfter
  <2>13. \A e \in Place : Row("place", e) \notin asks[q].held =>
           Cardinality(Counted(e))' <= Cardinality(Counted(e))
    <3> SUFFICES ASSUME NEW e \in Place, Row("place", e) \notin asks[q].held
                 PROVE  Cardinality(Counted(e))' <= Cardinality(Counted(e))
      OBVIOUS
    <3>1. e # PlaceOf(q) BY <2>1
    <3>2. Cardinality(Counted(e))' = Cardinality(Counted(e)) BY <2>4, <3>1
    <3>3. PICK n \in Nat : n = Cardinality(Counted(e)) BY CountsAreNumbers DEF AccessInv
    <3>4. n <= n BY ONLY n \in Nat
    <3> QED BY <3>2, <3>3, <3>4
  <2>14. \A v \in Update : updates[v] # Unsent =>
           updates'[v] # Unsent /\ updates'[v].want = updates[v].want
    BY <1>1, UpdatesAfter
  <2> QED BY <1>2, <1>4, <2>5, <2>6, <2>7, <2>8, <2>9, <2>10, <2>11, <2>12, <2>13, <2>14,
             RequestEnds
<1>7. CASE ~Grants(q)
  <2>1. access' = access /\ started' = started /\ links' = links
    BY <1>1, <1>7, StartedAfter, LinksAfter DEF Commits
  <2>2. AccessTypeOK' BY <1>1, <1>2, <1>5, <2>1, UpdatesAfter DEF AccessInv, AccessTypeOK
  <2>3. LinkInv' BY <2>1 DEF AccessInv, LinkInv, Created
  <2>4. UpdateInv'
    <3> SUFFICES ASSUME NEW v \in Update
                 PROVE  /\ updates'[v] # Unsent => updates'[v].want \in Wants
                        /\ updates'[v].key # NoKey =>
                             /\ Created(updates'[v].key)
                             /\ access[updates'[v].key].owner = updates'[v].want.person
      BY <2>1 DEF UpdateInv, Created
    <3>1. /\ updates[v] # Unsent => updates[v].want \in Wants
          /\ updates[v].key # NoKey => /\ Created(updates[v].key)
                                       /\ access[updates[v].key].owner = updates[v].want.person
      BY DEF AccessInv, UpdateInv
    <3>2. asks[q].key # NoKey => Created(asks[q].key) /\ access[asks[q].key].owner = w.person
      BY <1>2, CommitFacts
    <3>3. /\ updates'[v] # Unsent => updates[v] # Unsent
          /\ updates'[v].want = updates[v].want
          /\ \/ updates'[v].key = updates[v].key
             \/ updates'[v].want = w /\ updates'[v].key = asks[q].key
      BY <1>1, <1>7, UpdatesAfter
    <3> QED BY <3>1, <3>2, <3>3
  <2>5. \A v \in Update : updates[v] # Unsent =>
           updates'[v] # Unsent /\ updates'[v].want = updates[v].want
    BY <1>1, UpdatesAfter
  <2>6. /\ CountInv' /\ OwnInv'
        /\ \A j \in AccessKey : Created(j) => Created(j)' /\ access'[j].owner = access[j].owner
        /\ \A p \in Person :
             /\ Owned(p, {"redeem"})' \subseteq Owned(p, {"redeem"})
             /\ Live(Owned(p, {"grant"}))' \subseteq Live(Owned(p, {"grant"}))
        /\ \A e \in Place : Cardinality(Counted(e))' <= Cardinality(Counted(e))
    BY <2>1, SameAccess
  <2> QED BY <1>2, <1>4, <2>1, <2>2, <2>3, <2>4, <2>5, <2>6, RequestEnds
<1> QED BY <1>6, <1>7

LEMMA NextAccessInv ==
  ASSUME AccessInv, [AccessNext]_accessVars
  PROVE  AccessInv'
<1>1. CASE \E u \in Update, w \in Wants : SendUpdate(u, w) BY <1>1, SendUpdateKeeps
<1>2. ASSUME NEW q \in Asker,
             \/ \E u \in Update : DeliverUpdate(q, u)
             \/ \E w \in Wants : AskDirectly(q, w)
             \/ ClaimUpdate(q) \/ LockLink(q) \/ LockCustomer(q) \/ ChooseCandidates(q)
             \/ LockPlace(q) \/ CommitAsk(q) \/ Reply(q) \/ RollBack(q)
      PROVE  AccessInv'
  BY <1>2, DeliverUpdateKeeps, AskDirectlyKeeps, ClaimUpdateKeeps, LockLinkKeeps, LockCustomerKeeps,
     ChooseCandidatesKeeps, LockPlaceKeeps, CommitAskKeeps, ReplyKeeps, RollBackKeeps
<1>3. CASE \E l \in Link : RotateLink(l) \/ DisableLink(l)
  BY <1>3, RotateLinkKeeps, DisableLinkKeeps
<1>4. CASE \E k \in AccessKey : EndAccess(k) BY <1>4, EndAccessKeeps
<1>5. ASSUME NEW e \in Place, ChangeHealth(e) \/ \E n \in 0..MaxRoom : UpdateCapacity(e, n)
      PROVE  AccessInv'
  <2>1. \A n \in 0..MaxRoom : n \in Nat BY AccessAssumption
  <2> QED BY <1>5, <2>1, ChangeHealthKeeps, UpdateCapacityKeeps
<1>6. CASE UNCHANGED accessVars
  <2>1. UNCHANGED <<asks, access, started, links, room, open, updates>> BY <1>6 DEF accessVars
  <2>2. AccessTypeOK' BY <2>1 DEF AccessInv, AccessTypeOK
  <2>3. LinkInv' /\ UpdateInv' BY <2>1 DEF AccessInv, LinkInv, UpdateInv, Created
  <2> QED BY <2>1, <2>2, <2>3, SameAccess, OthersKeep
<1> QED BY <1>1, <1>2, <1>3, <1>4, <1>5, <1>6 DEF AccessNext

(* For any number of requests, people, invitations, endpoints, updates and    *)
(* profiles: the locks, what the requests under them rely on, and the profiles*)
(* and the marks of what was spent agree.                                     *)
THEOREM AccessInductiveInvariant == AccessSpec => []AccessInv
<1>1. AccessInit => AccessInv
  <2> SUFFICES ASSUME AccessInit PROVE AccessInv
    OBVIOUS
  <2>1. NoAsk \in AskRows /\ NoAsk.held = {} /\ NoAsk.step = "idle" /\ NoAsk.key = NoKey
    BY DEF NoAsk, NoWant, AskRows, AskSteps, Outcomes
  <2>2. Unspent \in LinkRows /\ Unspent.key = NoKey BY DEF Unspent, LinkRows
  <2>3. Unsent \in UpdateRows /\ Unsent.key = NoKey BY DEF Unsent, UpdateRows, NoWant, Outcomes
  <2>4. NoAccess.state = "none" BY DEF NoAccess
  <2>5. AccessTypeOK BY <2>1, <2>2, <2>3 DEF AccessInit, AccessTypeOK
  <2>6. HoldInv BY <2>1 DEF AccessInit, HoldInv
  <2>7. WorkInv BY <2>1 DEF AccessInit, WorkInv, Sound, Granting
  <2>8. \A k \in AccessKey : ~Created(k) BY <2>4 DEF AccessInit, Created
  <2>9. /\ \A p \in Person : Owned(p, {"trial", "redeem"}) = {} /\ Owned(p, {"grant"}) = {}
        /\ \A e \in Place : Counted(e) = {}
    BY <2>4 DEF AccessInit, Owned, Counted
  <2>10. OwnInv BY <2>9 DEF OwnInv, Live
  <2>11. LinkInv BY <2>2, <2>8, AccessAssumption DEF AccessInit, LinkInv
  <2>12. UpdateInv BY <2>3 DEF AccessInit, UpdateInv
  <2>13. CountInv BY <2>9, FS_EmptySet DEF CountInv
  <2> QED BY <2>5, <2>6, <2>7, <2>10, <2>11, <2>12, <2>13 DEF AccessInv
<1>2. AccessInv /\ [AccessNext]_accessVars => AccessInv' BY NextAccessInv
<1> QED BY <1>1, <1>2, PTL DEF AccessSpec

LEMMA AtMostOne ==
  ASSUME NEW S, \A x, y \in S : x = y
  PROVE  Cardinality(S) <= 1
<1>1. CASE S = {}
  <2>1. Cardinality(S) = 0 BY <1>1, FS_EmptySet
  <2> QED BY <2>1
<1>2. CASE S # {}
  <2>1. PICK x : x \in S BY <1>2
  <2>2. S = {x} BY <2>1
  <2>3. Cardinality(S) = 1 BY <2>2, FS_Singleton
  <2> QED BY <2>3
<1> QED BY <1>1, <1>2

(* However requests, redeliveries and rollbacks interleave, however many:     *)
(* one trial or friend's profile to a person, one granted profile at a time,  *)
(* one profile to an invitation, and no answer with somebody else's.          *)
THEOREM AccessIsGivenOnce == AccessSpec => []AccessOnce
<1>1. AccessInv => AccessOnce
  <2> SUFFICES ASSUME AccessInv PROVE AccessOnce
    OBVIOUS
  <2>1. ASSUME NEW p \in Person
        PROVE  /\ Cardinality(Owned(p, {"trial", "redeem"})) <= 1
               /\ Cardinality(Live(Owned(p, {"grant"}))) <= 1
    BY AtMostOne DEF AccessInv, OwnInv
  <2>2. ASSUME NEW l \in Link
        PROVE  {k \in AccessKey : IF access[k].state = "none" THEN FALSE ELSE l \in access[k].link}
                 = {links[l].key} \ {NoKey}
    <3>1. links[l].key \in AccessKey \cup {NoKey} BY DEF AccessInv, AccessTypeOK, LinkRows
    <3>2. \A k \in AccessKey : Created(k) /\ l \in access[k].link <=> k = links[l].key
      BY DEF AccessInv, LinkInv
    <3> QED BY <3>1, <3>2, AccessAssumption DEF Created
  <2>3. ASSUME NEW u \in Update, updates[u].key # NoKey
        PROVE  access[updates[u].key].owner = updates[u].want.person
    BY <2>3 DEF AccessInv, UpdateInv
  <2> QED BY <2>1, <2>2, <2>3 DEF AccessOnce
<1> QED BY <1>1, AccessInductiveInvariant, PTL

(* Whoever chose an endpoint, and whatever its limit was then: a profile is   *)
(* added to it only within the limit it has at that moment.                   *)
THEOREM EndpointsFillToTheirLimit == AccessSpec => PlacedWithinLimit
<1> DEFINE Placed == \A e \in Place : Cardinality(Counted(e)') > Cardinality(Counted(e))
                                        => Cardinality(Counted(e)') <= room[e]
<1>1. ASSUME AccessInv, AccessInv', [AccessNext]_accessVars PROVE Placed
  <2> SUFFICES ASSUME NEW e \in Place, Cardinality(Counted(e)') > Cardinality(Counted(e))
               PROVE  Cardinality(Counted(e)') <= room[e]
    OBVIOUS
  <2>1. /\ IsFiniteSet(Counted(e)) /\ Cardinality(Counted(e)) \in Nat
        /\ Cardinality(Counted(e)') \in Nat /\ room[e] \in Nat
    BY <1>1, FS_CardinalityType DEF AccessInv, AccessTypeOK, CountInv
  <2>2. CASE access' = access
    <3>1. Counted(e)' = Counted(e) BY <2>2 DEF Counted
    <3>2. Cardinality(Counted(e)') = Cardinality(Counted(e)) BY <3>1
    <3> QED BY <2>1, <3>2
  <2>3. ASSUME NEW k \in AccessKey, EndAccess(k)
        PROVE  FALSE
    <3>1. Cardinality(Counted(e)') <= Cardinality(Counted(e)) BY <1>1, <2>3, EndAccessKeeps
    <3> QED BY <2>1, <3>1
  <2>4. ASSUME NEW q \in Asker, CommitAsk(q), access' # access
        PROVE  Cardinality(Counted(e)') <= room[e]
    <3>1. PICK k \in AccessKey : Commits(q, k) BY <2>4, CommitAskCommits
    <3>2. At(q, "commit") /\ Grants(q) BY <2>4, <3>1 DEF Commits
    <3>3. Counted(e)' = IF e = PlaceOf(q) THEN Counted(e) \cup {k} ELSE Counted(e)
      BY <1>1, <3>1, <3>2, GrantAdds
    <3>4. e = PlaceOf(q)
      <4> SUFFICES ASSUME e # PlaceOf(q) PROVE FALSE
        OBVIOUS
      <4>1. Cardinality(Counted(e)') = Cardinality(Counted(e)) BY <3>3
      <4> QED BY <2>1, <4>1
    <3>5. Cardinality(Counted(e)) < room[e] BY <1>1, <3>2, <3>4, CommitFacts
    <3>6. \/ Cardinality(Counted(e)') = Cardinality(Counted(e))
          \/ Cardinality(Counted(e)') = Cardinality(Counted(e)) + 1
      <4>1. Cardinality(Counted(e) \cup {k}) = IF k \in Counted(e) THEN Cardinality(Counted(e))
                                               ELSE Cardinality(Counted(e)) + 1
        BY <2>1, FS_AddElement
      <4>2. Counted(e)' = Counted(e) \cup {k} BY <3>3, <3>4
      <4> QED BY <4>1, <4>2
    <3> QED BY <2>1, <3>5, <3>6
  <2>5. \/ access' = access \/ \E k \in AccessKey : EndAccess(k)
        \/ \E q \in Asker : CommitAsk(q)
    BY <1>1 DEF AccessNext, accessVars, SendUpdate, DeliverUpdate, AskDirectly, ClaimUpdate, LockLink,
       LockCustomer, ChooseCandidates, LockPlace, Reply, RollBack, Tables, RotateLink, DisableLink,
       UpdateCapacity, ChangeHealth
  <2> QED BY <2>2, <2>3, <2>4, <2>5
<1>2. AccessInv /\ AccessInv' /\ [AccessNext]_accessVars => [Placed]_accessVars BY <1>1
<1> QED BY <1>2, AccessInductiveInvariant, PTL DEF AccessSpec, PlacedWithinLimit

-----------------------------------------------------------------------------
(* Telling a customer once                                                    *)

NoticeRows == [ready: BOOLEAN, claimed: Int, retry: Int, told: BOOLEAN]
Claiming == [step: {"claim"}, now: Nat]
Telling == [step: {"send", "success", "failure"}, now: Nat, key: Notified, since: Nat,
            arrived: BOOLEAN]

NoticeTypeOK ==
  /\ moment \in Nat /\ notices \in [Notified -> NoticeRows]
  /\ tellers \in [Teller -> {Resting} \cup Claiming \cup Telling]
  /\ sent \in [Notified -> Nat] /\ unsure \in [Notified -> Nat]

Tells(p) == tellers[p] \in Telling
(* The message of a teller has reached the customer, and the teller may still *)
(* say so.                                                                    *)
Outstanding(p) == Tells(p) /\ tellers[p].arrived /\ tellers[p].step # "failure"

(* Nobody is longer at one step than the code lets him.                       *)
InTime(p) ==
  /\ tellers[p] \in Claiming =>
       tellers[p].now <= moment /\ moment <= tellers[p].now + ClaimTime
  /\ tellers[p] \in Telling /\ tellers[p].step = "send" =>
       /\ tellers[p].now <= moment /\ tellers[p].since <= tellers[p].now + ClaimTime
       /\ moment <= tellers[p].since + SendTime
  /\ tellers[p] \in Telling /\ tellers[p].step # "send" =>
       /\ tellers[p].now <= moment /\ tellers[p].since <= tellers[p].now + ClaimTime + SendTime
       /\ moment <= tellers[p].since + RecordTime
TimesInv == \A p \in Teller : InTime(p)

(* So the claim of whoever tells is still his, and nobody else's.             *)
ClaimInv ==
  /\ \A p \in Teller : Tells(p) =>
       /\ notices[tellers[p].key].claimed = tellers[p].now /\ ~ notices[tellers[p].key].told
       /\ tellers[p].step = "success" => tellers[p].arrived
  /\ \A p, q \in Teller : Tells(p) /\ Tells(q) /\ tellers[p].key = tellers[q].key => p = q

(* A message more than the unsure ones is known, or on its way to be.         *)
SentInv ==
  \A k \in Notified :
    /\ sent[k] <= unsure[k] + 1
    /\ \/ sent[k] <= unsure[k]
       \/ notices[k].told
       \/ \E p \in Teller : Outstanding(p) /\ tellers[p].key = k

NoticeInv == NoticeTypeOK /\ TimesInv /\ ClaimInv /\ SentInv

(* Which record a teller has at which step.                                   *)
LEMMA TellerRecords ==
  ASSUME NoticeTypeOK, NEW p \in Teller
  PROVE  /\ tellers[p].step = "claim" => tellers[p] \in Claiming
         /\ tellers[p].step \in {"send", "success", "failure"} => Tells(p)
         /\ tellers[p] \in Claiming => tellers[p] # Resting /\ ~ Tells(p)
         /\ Tells(p) => tellers[p] # Resting /\ tellers[p].step \in {"send", "success", "failure"}
         /\ tellers[p] = Resting \/ tellers[p] \in Claiming \/ Tells(p)
<1>1. tellers[p] \in {Resting} \cup Claiming \cup Telling
  BY DEF NoticeTypeOK
<1>2. Resting.step = "rest"
  BY DEF Resting
<1>3. \A t \in Claiming : t.step = "claim"
  BY DEF Claiming
<1>4. \A t \in Telling : t.step \in {"send", "success", "failure"}
  BY DEF Telling
<1> QED BY <1>1, <1>2, <1>3, <1>4 DEF Tells

(* A teller that changes leaves the others what they are.                     *)
LEMMA OneTeller ==
  ASSUME NoticeTypeOK, NEW p \in Teller, NEW t \in {Resting} \cup Claiming \cup Telling,
         tellers' = [tellers EXCEPT ![p] = t]
  PROVE  /\ tellers' \in [Teller -> {Resting} \cup Claiming \cup Telling] /\ tellers'[p] = t
         /\ \A q \in Teller : q # p => tellers'[q] = tellers[q]
BY DEF NoticeTypeOK

(* A teller that rests or wakes tells nothing; the others go on.              *)
LEMMA QuietTeller ==
  ASSUME NoticeInv, NEW p \in Teller, NEW t \in {Resting} \cup Claiming,
         tellers' = [tellers EXCEPT ![p] = t],
         t \in Claiming => t.now <= moment /\ moment <= t.now + ClaimTime,
         UNCHANGED <<moment, notices>>, NoticeTypeOK'
  PROVE  TimesInv' /\ ClaimInv'
<1>1. /\ tellers'[p] = t /\ \A q \in Teller : q # p => tellers'[q] = tellers[q]
  BY OneTeller DEF NoticeInv
<1>2. t \notin Telling
  <2>1. Resting.step = "rest"
    BY DEF Resting
  <2> QED BY <2>1 DEF Claiming, Telling
<1>3. TimesInv'
  <2> SUFFICES ASSUME NEW q \in Teller
               PROVE  InTime(q)'
    BY DEF TimesInv
  <2>1. CASE q = p
    BY <1>1, <1>2, <2>1 DEF InTime
  <2>2. CASE q # p
    BY <1>1, <2>2 DEF NoticeInv, TimesInv, InTime
  <2> QED BY <2>1, <2>2
<1>4. ClaimInv'
  BY <1>1, <1>2 DEF NoticeInv, ClaimInv, Tells
<1> QED BY <1>3, <1>4

(* Whoever tells has not been at it for the time after which a claim is stale.*)
LEMMA NobodyIsOvertaken ==
  ASSUME NoticeInv, NEW p \in Teller, Tells(p)
  PROVE  ~ (tellers[p].now <= moment - StaleClaim) /\ tellers[p].now # Unclaimed
<1>1. tellers[p] \in Telling /\ InTime(p) /\ moment \in Nat
  BY DEF Tells, NoticeInv, TimesInv, NoticeTypeOK
<1>2. tellers[p].now \in Nat /\ tellers[p].since \in Nat
  BY <1>1 DEF Telling
<1>3. \/ /\ tellers[p].since <= tellers[p].now + ClaimTime
         /\ moment <= tellers[p].since + SendTime
      \/ /\ tellers[p].since <= tellers[p].now + ClaimTime + SendTime
         /\ moment <= tellers[p].since + RecordTime
  BY <1>1 DEF InTime
<1>4. PICK now \in Nat, since \in Nat, m \in Nat :
        now = tellers[p].now /\ since = tellers[p].since /\ m = moment
  BY <1>1, <1>2
<1>5. \/ since <= now + ClaimTime /\ m <= since + SendTime
      \/ since <= now + ClaimTime + SendTime /\ m <= since + RecordTime
  BY <1>3, <1>4
<1>6. ~ (now <= m - StaleClaim) /\ now # Unclaimed
  BY ONLY <1>5, StaleClaimAssumption DEF Unclaimed
<1> QED BY <1>4, <1>6

(* A claim is taken of a key that nobody tells of.                            *)
LEMMA ClaimNoticeKeeps ==
  ASSUME NoticeInv, NEW p \in Teller, ClaimNotice(p) PROVE NoticeInv'
<1>1. /\ tellers[p] \in Claiming /\ ~ Tells(p) /\ InTime(p) /\ tellers[p].now \in Nat
      /\ UNCHANGED <<moment, sent, unsure>>
  BY TellerRecords DEF ClaimNotice, NoticeInv, TimesInv, Claiming
<1>2. CASE tellers' = [tellers EXCEPT ![p] = Resting] /\ UNCHANGED notices
  <2>1. NoticeTypeOK'
    BY <1>1, <1>2, OneTeller DEF NoticeInv, NoticeTypeOK
  <2>2. TimesInv' /\ ClaimInv'
    <3>1. Resting \notin Claiming
      BY DEF Resting, Claiming
    <3> QED BY <1>1, <1>2, <2>1, <3>1, QuietTeller
  <2>3. SentInv'
    BY <1>1, <1>2 DEF NoticeInv, NoticeTypeOK, SentInv, Outstanding, Tells
  <2> QED BY <2>1, <2>2, <2>3 DEF NoticeInv
<1>3. CASE \E k \in Notified :
             /\ ~ notices[k].told /\ Claimable(k, tellers[p].now)
             /\ notices' = [notices EXCEPT ![k].claimed = tellers[p].now]
             /\ tellers' = [tellers EXCEPT ![p] = [step |-> "send", now |-> tellers[p].now, key |-> k,
                                                   since |-> moment, arrived |-> FALSE]]
  <2>1. PICK k \in Notified :
             /\ ~ notices[k].told /\ Claimable(k, tellers[p].now)
             /\ notices' = [notices EXCEPT ![k].claimed = tellers[p].now]
             /\ tellers' = [tellers EXCEPT ![p] = [step |-> "send", now |-> tellers[p].now, key |-> k,
                                                   since |-> moment, arrived |-> FALSE]]
    BY <1>3
  <2>2. PICK t : t = [step |-> "send", now |-> tellers[p].now, key |-> k, since |-> moment,
                      arrived |-> FALSE]
    OBVIOUS
  <2>3. t \in Telling /\ t.step = "send" /\ t.now = tellers[p].now /\ t.key = k /\ t.since = moment
        /\ ~ t.arrived
    BY <1>1, <2>2 DEF Telling, NoticeInv, NoticeTypeOK
  <2>4. /\ tellers' \in [Teller -> {Resting} \cup Claiming \cup Telling] /\ tellers'[p] = t
        /\ \A q \in Teller : q # p => tellers'[q] = tellers[q]
    BY <2>1, <2>2, <2>3, OneTeller DEF NoticeInv
  <2>5. /\ notices' \in [Notified -> NoticeRows] /\ notices'[k].claimed = tellers[p].now
        /\ \A l \in Notified : notices'[l].told = notices[l].told
        /\ \A l \in Notified : l # k => notices'[l] = notices[l]
    BY <1>1, <2>1 DEF NoticeInv, NoticeTypeOK, NoticeRows
  <2>6. NoticeTypeOK'
    BY <1>1, <2>4, <2>5 DEF NoticeInv, NoticeTypeOK
  <2>7. \A q \in Teller : Tells(q) => tellers[q].key # k
    <3> SUFFICES ASSUME NEW q \in Teller, Tells(q), tellers[q].key = k PROVE FALSE
      OBVIOUS
    <3>1. notices[k].claimed = tellers[q].now
      BY DEF NoticeInv, ClaimInv
    <3>2. tellers[q].now \in Nat /\ tellers[p].now \in Nat /\ moment \in Nat /\ tellers[p].now <= moment
      BY <1>1 DEF Tells, Telling, InTime, NoticeInv, NoticeTypeOK
    <3>3. tellers[q].now <= tellers[p].now - StaleClaim
      BY <2>1, <3>1, NobodyIsOvertaken DEF Claimable
    <3>4. PICK a \in Nat, b \in Nat, m \in Nat :
            a = tellers[q].now /\ b = tellers[p].now /\ m = moment
      BY <3>2
    <3>5. a <= b - StaleClaim /\ b <= m
      BY <3>2, <3>3, <3>4
    <3>6. a <= m - StaleClaim
      BY ONLY <3>5, StaleClaimAssumption
    <3> QED BY <3>4, <3>6, NobodyIsOvertaken
  <2>8. TimesInv'
    <3> SUFFICES ASSUME NEW q \in Teller PROVE InTime(q)'
      BY DEF TimesInv
    <3>1. CASE q = p
      <4>1. /\ t.since = moment /\ t.now = tellers[p].now /\ moment \in Nat /\ tellers[p].now \in Nat
            /\ tellers[p].now <= moment /\ moment <= tellers[p].now + ClaimTime
        BY <1>1, <2>3 DEF InTime, NoticeInv, NoticeTypeOK
      <4>2. moment <= moment + SendTime
        BY ONLY <4>1, StaleClaimAssumption
      <4>3. t \notin Claiming
        BY <2>3 DEF Claiming
      <4> QED BY <1>1, <2>3, <2>4, <3>1, <4>1, <4>2, <4>3 DEF InTime
    <3>2. CASE q # p
      BY <1>1, <2>4, <3>2 DEF NoticeInv, TimesInv, InTime
    <3> QED BY <3>1, <3>2
  <2>9. ClaimInv'
    <3>1. \A q \in Teller : q # p => (Tells(q)' <=> Tells(q))
      BY <2>4 DEF Tells
    <3>2. \A q \in Teller : Tells(q) => tellers[q].key \in Notified
      BY DEF Tells, Telling
    <3> QED BY <2>1, <2>3, <2>4, <2>5, <2>7, <3>1, <3>2 DEF NoticeInv, ClaimInv
  <2>10. SentInv'
    <3>1. \A q \in Teller : Outstanding(q) => Outstanding(q)' /\ tellers'[q].key = tellers[q].key
      BY <1>1, <2>4 DEF Outstanding, Tells
    <3> QED BY <1>1, <2>5, <3>1 DEF NoticeInv, SentInv
  <2> QED BY <2>6, <2>8, <2>9, <2>10 DEF NoticeInv
<1> QED BY <1>2, <1>3 DEF ClaimNotice

LEMMA WakeTellerKeeps ==
  ASSUME NoticeInv, NEW p \in Teller, WakeTeller(p) PROVE NoticeInv'
<1>1. PICK t : t = [step |-> "claim", now |-> moment]
  OBVIOUS
<1>2. /\ t \in Claiming /\ t.now = moment /\ moment \in Nat /\ ~ Tells(p)
      /\ tellers' = [tellers EXCEPT ![p] = t] /\ UNCHANGED <<moment, notices, sent, unsure>>
  BY <1>1, TellerRecords DEF WakeTeller, Claiming, NoticeInv, NoticeTypeOK
<1>3. /\ tellers' \in [Teller -> {Resting} \cup Claiming \cup Telling]
      /\ \A q \in Teller : q # p => tellers'[q] = tellers[q]
  BY <1>2, OneTeller DEF NoticeInv
<1>4. NoticeTypeOK'
  BY <1>2, <1>3 DEF NoticeInv, NoticeTypeOK
<1>5. moment <= moment + ClaimTime /\ moment <= moment
  <2>1. moment \in Nat
    BY <1>2
  <2> QED BY ONLY <2>1, StaleClaimAssumption
<1>6. TimesInv' /\ ClaimInv'
  BY <1>2, <1>4, <1>5, QuietTeller
<1>7. SentInv'
  BY <1>2, <1>3 DEF NoticeInv, SentInv, Outstanding, Tells
<1> QED BY <1>4, <1>6, <1>7 DEF NoticeInv

(* A teller goes on with the key, and with the time, of its claim.            *)
LEMMA TellerGoesOn ==
  ASSUME NoticeInv, NEW p \in Teller, Tells(p), NEW t \in Telling,
         tellers' = [tellers EXCEPT ![p] = t], t.now = tellers[p].now, t.key = tellers[p].key,
         t.step = "success" => t.arrived, UNCHANGED <<moment, notices>>,
         \/ t.step = "send" /\ tellers[p].step = "send" /\ t.since = tellers[p].since
         \/ t.step # "send" /\ tellers[p].step = "send" /\ t.since = moment
  PROVE  TimesInv' /\ ClaimInv'
<1>1. /\ tellers'[p] = t /\ \A q \in Teller : q # p => tellers'[q] = tellers[q]
  BY OneTeller DEF NoticeInv
<1>2. t \notin Claiming /\ tellers[p] \in Telling
  BY DEF Claiming, Telling, Tells
<1>3. InTime(p)'
  <2>1. /\ tellers[p].now <= moment /\ tellers[p].since <= tellers[p].now + ClaimTime
        /\ moment <= tellers[p].since + SendTime
    BY <1>2 DEF NoticeInv, TimesInv, InTime
  <2>2. tellers[p].now \in Nat /\ tellers[p].since \in Nat /\ moment \in Nat
    BY <1>2 DEF Telling, NoticeInv, NoticeTypeOK
  <2>3. PICK now \in Nat, since \in Nat, m \in Nat :
          now = tellers[p].now /\ since = tellers[p].since /\ m = moment
    BY <2>2
  <2>4. since <= now + ClaimTime /\ m <= since + SendTime
    BY <2>1, <2>3
  <2>5. m <= now + ClaimTime + SendTime /\ m <= m + RecordTime
    BY ONLY <2>4, StaleClaimAssumption
  <2>6. moment <= tellers[p].now + ClaimTime + SendTime /\ moment <= moment + RecordTime
    BY <2>3, <2>5
  <2> QED BY <1>1, <1>2, <2>1, <2>6 DEF InTime
<1>4. \A q \in Teller : q # p => InTime(q)'
  BY <1>1 DEF NoticeInv, TimesInv, InTime
<1>5. \A q \in Teller : (Tells(q)' <=> Tells(q)) /\ tellers'[q].key = tellers[q].key
                        /\ tellers'[q].now = tellers[q].now
  BY <1>1 DEF Tells
<1>6. ClaimInv'
  BY <1>1, <1>5 DEF NoticeInv, ClaimInv
<1> QED BY <1>3, <1>4, <1>6 DEF TimesInv

(* The message arrives: it is the first of which somebody may still say so.   *)
LEMMA ArrivesKeeps ==
  ASSUME NoticeInv, NEW p \in Teller, Arrives(p) PROVE NoticeInv'
<1>1. /\ Tells(p) /\ tellers[p] \in Telling /\ tellers[p].step = "send" /\ ~ tellers[p].arrived
      /\ UNCHANGED <<moment, notices, unsure>>
  BY TellerRecords DEF Arrives, NoticeInv, Tells
<1>2. PICK t : t = [tellers[p] EXCEPT !.arrived = TRUE]
  OBVIOUS
<1>3. /\ t \in Telling /\ t.step = "send" /\ t.now = tellers[p].now /\ t.key = tellers[p].key
      /\ t.since = tellers[p].since /\ t.arrived
  BY <1>1, <1>2 DEF Telling
<1>4. tellers' = [tellers EXCEPT ![p] = t]
  BY <1>2 DEF Arrives
<1>5. TimesInv' /\ ClaimInv'
  BY <1>1, <1>3, <1>4, TellerGoesOn
<1>6. PICK k \in Notified : k = tellers[p].key
  BY <1>1 DEF Telling
<1>7. sent' = [sent EXCEPT ![k] = sent[k] + 1]
  BY <1>6 DEF Arrives
<1>8. sent[k] \in Nat /\ unsure[k] \in Nat /\ sent \in [Notified -> Nat]
  BY DEF NoticeInv, NoticeTypeOK
<1>9. /\ sent' \in [Notified -> Nat] /\ sent'[k] = sent[k] + 1
      /\ \A l \in Notified : l # k => sent'[l] = sent[l]
  <2>1. sent[k] + 1 \in Nat
    BY ONLY <1>8
  <2> QED BY <1>7, <1>8, <2>1
<1>10. /\ tellers' \in [Teller -> {Resting} \cup Claiming \cup Telling] /\ tellers'[p] = t
       /\ \A q \in Teller : q # p => tellers'[q] = tellers[q]
  BY <1>3, <1>4, OneTeller DEF NoticeInv
<1>11. NoticeTypeOK'
  BY <1>1, <1>9, <1>10 DEF NoticeInv, NoticeTypeOK
<1>12. sent[k] <= unsure[k]
  <2>1. ~ notices[k].told
    BY <1>1, <1>6 DEF NoticeInv, ClaimInv
  <2>2. \A q \in Teller : ~ (Outstanding(q) /\ tellers[q].key = k)
    BY <1>1, <1>6 DEF NoticeInv, ClaimInv, Outstanding
  <2> QED BY <2>1, <2>2 DEF NoticeInv, SentInv
<1>13. sent'[k] <= unsure'[k] + 1
  <2>1. sent[k] + 1 <= unsure[k] + 1
    BY ONLY <1>8, <1>12
  <2> QED BY <1>1, <1>9, <2>1
<1>14. Outstanding(p)' /\ tellers'[p].key = k
  BY <1>3, <1>6, <1>10 DEF Outstanding, Tells
<1>15. \A q \in Teller : Outstanding(q) => Outstanding(q)' /\ tellers'[q].key = tellers[q].key
  BY <1>3, <1>10 DEF Outstanding, Tells
<1>16. SentInv'
  <2> SUFFICES ASSUME NEW l \in Notified
               PROVE  /\ sent'[l] <= unsure'[l] + 1
                      /\ \/ sent'[l] <= unsure'[l]
                         \/ notices'[l].told
                         \/ \E q \in Teller : Outstanding(q)' /\ tellers'[q].key = l
    BY DEF SentInv
  <2>1. CASE l = k
    BY <1>13, <1>14, <2>1
  <2>2. CASE l # k
    BY <1>1, <1>9, <1>15, <2>2 DEF NoticeInv, SentInv
  <2> QED BY <2>1, <2>2
<1> QED BY <1>5, <1>11, <1>16 DEF NoticeInv

(* The answer came: the message stays known.                                  *)
LEMMA AnsweredKeeps ==
  ASSUME NoticeInv, NEW p \in Teller, Answered(p) PROVE NoticeInv'
<1>1. /\ Tells(p) /\ tellers[p] \in Telling /\ tellers[p].step = "send" /\ tellers[p].arrived
      /\ moment \in Nat /\ UNCHANGED <<moment, notices, sent, unsure>>
  BY TellerRecords DEF Answered, NoticeInv, NoticeTypeOK, Tells
<1>2. PICK t : t = [tellers[p] EXCEPT !.step = "success", !.since = moment]
  OBVIOUS
<1>3. /\ t \in Telling /\ t.step = "success" /\ t.now = tellers[p].now /\ t.key = tellers[p].key
      /\ t.since = moment /\ t.arrived
  BY <1>1, <1>2 DEF Telling
<1>4. tellers' = [tellers EXCEPT ![p] = t]
  BY <1>1, <1>2 DEF Answered, Records, NoticeInv, NoticeTypeOK
<1>5. TimesInv' /\ ClaimInv'
  BY <1>1, <1>3, <1>4, TellerGoesOn
<1>6. /\ tellers' \in [Teller -> {Resting} \cup Claiming \cup Telling] /\ tellers'[p] = t
      /\ \A q \in Teller : q # p => tellers'[q] = tellers[q]
  BY <1>3, <1>4, OneTeller DEF NoticeInv
<1>7. NoticeTypeOK'
  BY <1>1, <1>6 DEF NoticeInv, NoticeTypeOK
<1>8. \A q \in Teller : Outstanding(q) => Outstanding(q)' /\ tellers'[q].key = tellers[q].key
  BY <1>3, <1>6 DEF Outstanding, Tells
<1>9. SentInv'
  BY <1>1, <1>8 DEF NoticeInv, SentInv
<1> QED BY <1>5, <1>7, <1>9 DEF NoticeInv

(* A teller that nobody will hear of: its message, if it arrived, is unsure.  *)
LEMMA UnheardKeeps ==
  ASSUME NoticeInv, NEW p \in Teller, Tells(p), NEW k \in Notified, k = tellers[p].key,
         \A q \in Teller : q # p => tellers'[q] = tellers[q], ~ Outstanding(p)',
         unsure' = [unsure EXCEPT ![k] =
                      IF tellers[p].step # "failure" /\ tellers[p].arrived THEN @ + 1 ELSE @],
         UNCHANGED <<notices, sent>>
  PROVE  SentInv' /\ unsure' \in [Notified -> Nat]
<1>1. sent \in [Notified -> Nat] /\ unsure \in [Notified -> Nat]
  BY DEF NoticeInv, NoticeTypeOK
<1>2. \A q \in Teller : Outstanding(q) /\ q # p => Outstanding(q)' /\ tellers'[q].key = tellers[q].key
  BY DEF Outstanding, Tells
<1>3. CASE tellers[p].step # "failure" /\ tellers[p].arrived
  <2>1. unsure' = [unsure EXCEPT ![k] = unsure[k] + 1]
    BY <1>3
  <2>2. sent[k] \in Nat /\ unsure[k] \in Nat /\ sent[k] <= unsure[k] + 1
    BY <1>1 DEF NoticeInv, SentInv
  <2>3. sent[k] <= (unsure[k] + 1) + 1 /\ unsure[k] + 1 \in Nat
    BY ONLY <2>2
  <2>4. /\ unsure' \in [Notified -> Nat] /\ unsure'[k] = unsure[k] + 1
        /\ \A l \in Notified : l # k => unsure'[l] = unsure[l]
    BY <1>1, <2>1, <2>3
  <2>5. ASSUME NEW l \in Notified
        PROVE  /\ sent'[l] <= unsure'[l] + 1
               /\ \/ sent'[l] <= unsure'[l]
                  \/ notices'[l].told
                  \/ \E q \in Teller : Outstanding(q)' /\ tellers'[q].key = l
    <3>1. CASE l = k
      BY <2>2, <2>3, <2>4, <3>1
    <3>2. CASE l # k
      BY <1>2, <2>4, <3>2 DEF NoticeInv, SentInv
    <3> QED BY <3>1, <3>2
  <2> QED BY <2>4, <2>5 DEF SentInv
<1>4. CASE ~ (tellers[p].step # "failure" /\ tellers[p].arrived)
  <2>1. unsure' = unsure
    BY <1>1, <1>4
  <2>2. ~ Outstanding(p)
    BY <1>4 DEF Outstanding
  <2> QED BY <1>1, <1>2, <2>1, <2>2 DEF NoticeInv, SentInv
<1> QED BY <1>3, <1>4

LEMMA UnansweredKeeps ==
  ASSUME NoticeInv, NEW p \in Teller, Unanswered(p) PROVE NoticeInv'
<1>1. /\ Tells(p) /\ tellers[p] \in Telling /\ tellers[p].step = "send" /\ tellers[p].key \in Notified
      /\ moment \in Nat /\ UNCHANGED <<moment, notices, sent>>
  BY TellerRecords DEF Unanswered, NoticeInv, NoticeTypeOK, Tells, Telling
<1>2. PICK t : t = [tellers[p] EXCEPT !.step = "failure", !.since = moment]
  OBVIOUS
<1>3. /\ t \in Telling /\ t.step = "failure" /\ t.now = tellers[p].now /\ t.key = tellers[p].key
      /\ t.since = moment
  BY <1>1, <1>2 DEF Telling
<1>4. tellers' = [tellers EXCEPT ![p] = t]
  BY <1>1, <1>2 DEF Unanswered, Records, NoticeInv, NoticeTypeOK
<1>5. TimesInv' /\ ClaimInv'
  BY <1>1, <1>3, <1>4, TellerGoesOn
<1>6. /\ tellers' \in [Teller -> {Resting} \cup Claiming \cup Telling] /\ tellers'[p] = t
      /\ \A q \in Teller : q # p => tellers'[q] = tellers[q]
  BY <1>3, <1>4, OneTeller DEF NoticeInv
<1>7. ~ Outstanding(p)'
  BY <1>3, <1>6 DEF Outstanding
<1>8. PICK k \in Notified : k = tellers[p].key
  BY <1>1
<1>9. unsure' = [unsure EXCEPT ![k] =
                   IF tellers[p].step # "failure" /\ tellers[p].arrived THEN @ + 1 ELSE @]
  BY <1>1, <1>8 DEF Unanswered
<1>10. SentInv' /\ unsure' \in [Notified -> Nat]
  BY <1>1, <1>6, <1>7, <1>8, <1>9, UnheardKeeps
<1>11. NoticeTypeOK'
  BY <1>1, <1>6, <1>10 DEF NoticeInv, NoticeTypeOK
<1> QED BY <1>5, <1>10, <1>11 DEF NoticeInv

(* A process ends or stalls: its claim stays, and its message is unsure.      *)
LEMMA LeavingKeeps ==
  ASSUME NoticeInv, NEW p \in Teller, tellers[p] # Resting, Leaves(p),
         UNCHANGED <<moment, notices, sent>>
  PROVE  NoticeInv'
<1>1. /\ tellers' = [tellers EXCEPT ![p] = Resting] /\ UNCHANGED <<moment, notices, sent>>
      /\ Resting \notin Claiming /\ Resting \notin Telling
  BY DEF Leaves, Resting, Claiming, Telling
<1>2. /\ tellers' \in [Teller -> {Resting} \cup Claiming \cup Telling] /\ tellers'[p] = Resting
      /\ \A q \in Teller : q # p => tellers'[q] = tellers[q]
  BY <1>1, OneTeller DEF NoticeInv
<1>3. ~ Outstanding(p)'
  BY <1>1, <1>2 DEF Outstanding, Tells
<1>4. SentInv' /\ unsure' \in [Notified -> Nat]
  <2>1. CASE tellers[p].step = "claim"
    <3>1. unsure' = unsure /\ ~ Tells(p)
      BY <2>1, TellerRecords DEF Leaves, NoticeInv
    <3>2. \A q \in Teller : Outstanding(q) => Outstanding(q)' /\ tellers'[q].key = tellers[q].key
      BY <1>2, <3>1 DEF Outstanding, Tells
    <3> QED BY <1>1, <3>1, <3>2 DEF NoticeInv, NoticeTypeOK, SentInv
  <2>2. CASE tellers[p].step # "claim"
    <3>1. Tells(p)
      <4>1. \A t \in Claiming : t.step = "claim"
        BY DEF Claiming
      <4> QED BY <2>2, <4>1, TellerRecords DEF Leaves, NoticeInv
    <3>2. PICK k \in Notified : k = tellers[p].key
      BY <3>1 DEF Tells, Telling
    <3>3. unsure' = [unsure EXCEPT ![k] =
                       IF tellers[p].step # "failure" /\ tellers[p].arrived THEN @ + 1 ELSE @]
      BY <2>2, <3>2 DEF Leaves
    <3> QED BY <1>1, <1>2, <1>3, <3>1, <3>2, <3>3, UnheardKeeps
  <2> QED BY <2>1, <2>2
<1>5. NoticeTypeOK'
  BY <1>1, <1>2, <1>4 DEF NoticeInv, NoticeTypeOK
<1>6. TimesInv' /\ ClaimInv'
  BY <1>1, <1>5, QuietTeller
<1> QED BY <1>4, <1>5, <1>6 DEF NoticeInv

(* The outcome is recorded under the claim of the teller, which is his own.   *)
LEMMA RecordNoticeKeeps ==
  ASSUME NoticeInv, NEW p \in Teller, RecordNotice(p) PROVE NoticeInv'
<1>1. /\ Tells(p) /\ tellers[p].step \in {"success", "failure"}
      /\ tellers' = [tellers EXCEPT ![p] = Resting] /\ UNCHANGED <<moment, sent, unsure>>
      /\ Resting \notin Claiming /\ Resting \notin Telling
  BY TellerRecords DEF RecordNotice, NoticeInv, Resting, Claiming, Telling
<1>2. PICK k \in Notified : k = tellers[p].key
  BY <1>1 DEF Tells, Telling
<1>3. notices[k].claimed = tellers[p].now /\ ~ notices[k].told
  BY <1>1, <1>2 DEF NoticeInv, ClaimInv
<1>4. PICK success \in BOOLEAN, retry \in Int :
        /\ success = (tellers[p].step = "success")
        /\ notices' = [notices EXCEPT ![k].claimed = Unclaimed, ![k].told = success, ![k].retry = retry]
  <2>1. moment + Backoff \in Int /\ 0 \in Int
    <3>1. moment \in Nat
      BY DEF NoticeInv, NoticeTypeOK
    <3> QED BY ONLY <3>1, StaleClaimAssumption
  <2>2. Own(k, tellers[p].now)
    BY <1>3 DEF Own
  <2>3. CASE tellers[p].step = "success"
    BY <1>1, <1>2, <2>1, <2>2, <2>3 DEF RecordNotice, Succeeded
  <2>4. CASE tellers[p].step = "failure"
    <3>1. notices' = [notices EXCEPT ![k].claimed = Unclaimed, ![k].retry = moment + Backoff]
      BY <1>1, <1>2, <2>2, <2>4 DEF RecordNotice, Failed, Put
    <3>2. notices \in [Notified -> NoticeRows]
      BY DEF NoticeInv, NoticeTypeOK
    <3>3. notices' = [notices EXCEPT ![k].claimed = Unclaimed, ![k].told = FALSE,
                                     ![k].retry = moment + Backoff]
      BY <1>3, <3>1, <3>2 DEF NoticeRows
    <3> QED BY <2>1, <2>4, <3>3
  <2> QED BY <1>1, <2>3, <2>4
<1>5. Unclaimed \in Int
  BY DEF Unclaimed
<1>6. /\ notices' \in [Notified -> NoticeRows] /\ notices'[k].told = success
      /\ \A l \in Notified : l # k => notices'[l] = notices[l]
  <2>1. PICK r : r = [notices[k] EXCEPT !.claimed = Unclaimed, !.told = success, !.retry = retry]
    OBVIOUS
  <2>2. notices[k] \in NoticeRows /\ notices \in [Notified -> NoticeRows]
    BY DEF NoticeInv, NoticeTypeOK
  <2>3. r \in NoticeRows /\ r.told = success
    BY <1>5, <2>1, <2>2 DEF NoticeRows
  <2>4. notices' = [notices EXCEPT ![k] = r]
    BY <1>4, <2>1, <2>2
  <2> QED BY <2>2, <2>3, <2>4
<1>7. /\ tellers' \in [Teller -> {Resting} \cup Claiming \cup Telling] /\ tellers'[p] = Resting
      /\ \A q \in Teller : q # p => tellers'[q] = tellers[q]
  BY <1>1, OneTeller DEF NoticeInv
<1>8. NoticeTypeOK'
  BY <1>1, <1>6, <1>7 DEF NoticeInv, NoticeTypeOK
<1>9. TimesInv'
  BY <1>1, <1>7 DEF NoticeInv, TimesInv, InTime
<1>10. ClaimInv'
  <2>1. \A q \in Teller : Tells(q)' => q # p /\ Tells(q) /\ tellers[q].key \in Notified \ {k}
    BY <1>1, <1>2, <1>7 DEF Tells, Telling, NoticeInv, ClaimInv
  <2> QED BY <1>6, <1>7, <2>1 DEF NoticeInv, ClaimInv
<1>11. SentInv'
  <2>1. \A q \in Teller : Outstanding(q) /\ q # p => Outstanding(q)' /\ tellers'[q].key = tellers[q].key
    BY <1>7 DEF Outstanding, Tells
  <2>2. \/ sent[k] <= unsure[k] \/ success
    BY <1>1, <1>2, <1>3, <1>4 DEF NoticeInv, SentInv, ClaimInv, Outstanding
  <2>3. \A l \in Notified : l # k =>
          \A q \in Teller : Outstanding(q) /\ tellers[q].key = l => q # p
    BY <1>2
  <2> QED BY <1>1, <1>6, <2>1, <2>2, <2>3 DEF NoticeInv, SentInv
<1> QED BY <1>8, <1>9, <1>10, <1>11 DEF NoticeInv

LEMMA ChangeNoticeKeeps ==
  ASSUME NoticeInv, NEW k \in Notified, ChangeNotice(k) PROVE NoticeInv'
<1>1. UNCHANGED <<moment, tellers, sent, unsure>>
  BY DEF ChangeNotice
<1>2. /\ notices' \in [Notified -> NoticeRows]
      /\ \A l \in Notified : notices'[l].claimed = notices[l].claimed /\ notices'[l].told = notices[l].told
  BY DEF ChangeNotice, NoticeInv, NoticeTypeOK, NoticeRows
<1>3. NoticeTypeOK' /\ TimesInv'
  BY <1>1, <1>2 DEF NoticeInv, NoticeTypeOK, TimesInv, InTime
<1>4. ClaimInv'
  BY <1>1, <1>2 DEF NoticeInv, ClaimInv, Tells, Telling
<1>5. SentInv'
  BY <1>1, <1>2 DEF NoticeInv, SentInv, Outstanding, Tells
<1> QED BY <1>3, <1>4, <1>5 DEF NoticeInv

(* Time passes while every teller is within what the code lets him take.      *)
LEMMA MomentPassesKeeps ==
  ASSUME NoticeInv, MomentPasses PROVE NoticeInv'
<1>1. moment \in Nat /\ moment' = moment + 1 /\ UNCHANGED <<notices, tellers, sent, unsure>>
  BY DEF MomentPasses, NoticeInv, NoticeTypeOK
<1>2. moment' \in Nat
  BY ONLY <1>1
<1>3. NoticeTypeOK'
  BY <1>1, <1>2 DEF NoticeInv, NoticeTypeOK
<1>4. ClaimInv' /\ SentInv'
  BY <1>1 DEF NoticeInv, ClaimInv, SentInv, Outstanding, Tells
<1>5. ASSUME NEW p \in Teller PROVE InTime(p)'
  <2>1. CASE tellers[p] \in Claiming
    <3>1. tellers[p] \notin Telling /\ tellers[p].step = "claim" /\ tellers[p].now \in Nat
      BY <2>1 DEF Claiming, Telling
    <3>2. moment < tellers[p].now + ClaimTime /\ tellers[p].now <= moment
      BY <2>1, <3>1 DEF MomentPasses, NoticeInv, TimesInv, InTime
    <3>3. PICK now \in Nat : now = tellers[p].now
      BY <3>1
    <3>4. now <= moment' /\ moment' <= now + ClaimTime
      <4>1. moment < now + ClaimTime /\ now <= moment
        BY <3>2, <3>3
      <4> QED BY ONLY <1>1, <4>1, StaleClaimAssumption
    <3> QED BY <1>1, <3>1, <3>3, <3>4 DEF InTime
  <2>2. CASE tellers[p] \in Telling
    <3>1. /\ tellers[p] \notin Claiming /\ tellers[p].now \in Nat /\ tellers[p].since \in Nat
          /\ tellers[p].step \in {"send", "success", "failure"}
      BY <2>2 DEF Claiming, Telling
    <3>2. PICK now \in Nat, since \in Nat : now = tellers[p].now /\ since = tellers[p].since
      BY <3>1
    <3>3. now <= moment /\ now <= moment'
      <4>1. now <= moment
        BY <2>2, <3>2 DEF NoticeInv, TimesInv, InTime
      <4> QED BY ONLY <1>1, <4>1
    <3>4. CASE tellers[p].step = "send"
      <4>1. moment < since + SendTime
        BY <3>2, <3>4 DEF MomentPasses
      <4>2. moment' <= since + SendTime
        BY ONLY <1>1, <4>1, StaleClaimAssumption
      <4>3. since <= now + ClaimTime
        BY <2>2, <3>2, <3>4 DEF NoticeInv, TimesInv, InTime
      <4> QED BY <1>1, <3>1, <3>2, <3>3, <3>4, <4>2, <4>3 DEF InTime
    <3>5. CASE tellers[p].step \in {"success", "failure"}
      <4>1. moment < since + RecordTime
        BY <3>2, <3>5 DEF MomentPasses
      <4>2. moment' <= since + RecordTime
        BY ONLY <1>1, <4>1, StaleClaimAssumption
      <4>3. since <= now + ClaimTime + SendTime
        BY <2>2, <3>2, <3>5 DEF NoticeInv, TimesInv, InTime
      <4> QED BY <1>1, <3>1, <3>2, <3>3, <3>5, <4>2, <4>3 DEF InTime
    <3> QED BY <3>1, <3>4, <3>5
  <2>3. CASE tellers[p] \notin Claiming \cup Telling
    BY <1>1, <2>3 DEF InTime
  <2> QED BY <2>1, <2>2, <2>3
<1>6. TimesInv'
  BY <1>5 DEF TimesInv
<1> QED BY <1>3, <1>4, <1>6 DEF NoticeInv

(* A sender that stalled still has its claim, or has had the time in which    *)
(* another may take it over; no two of a key have the same claim.             *)
StalledRows == [key: Notified, now: Nat, step: {"send", "success", "failure"}, arrived: BOOLEAN]
Holds(g) ==
  /\ notices[g.key].claimed = g.now
  /\ \A p \in Teller : Tells(p) => tellers[p].key # g.key
Overdue(g) == g.now + StaleClaim <= moment
StalledInv ==
  /\ stalled \subseteq StalledRows
  /\ \A g \in stalled : Holds(g) \/ Overdue(g)
  /\ \A g, h \in stalled : g.key = h.key /\ g.now = h.now => g = h

(* Whoever tells of the key of a stalled sender has a claim of its own.       *)
LEMMA ClaimsDiffer ==
  ASSUME NoticeInv, StalledInv, NEW g \in stalled, NEW p \in Teller, Tells(p), tellers[p].key = g.key
  PROVE  tellers[p].now # g.now /\ Overdue(g)
<1>1. Overdue(g) /\ g.now \in Nat /\ moment \in Nat
  BY DEF StalledInv, Holds, StalledRows, NoticeInv, NoticeTypeOK
<1>2. g.now <= moment - StaleClaim
  <2>1. PICK now \in Nat, m \in Nat : now = g.now /\ m = moment
    BY <1>1
  <2>2. now + StaleClaim <= m
    BY <1>1, <2>1 DEF Overdue
  <2>3. now <= m - StaleClaim
    BY ONLY <2>2, StaleClaimAssumption
  <2> QED BY <2>1, <2>3
<1> QED BY <1>1, <1>2, NobodyIsOvertaken

(* Steps that take no claim and record nothing leave the stalled ones alone.  *)
LEMMA QuietSteps ==
  ASSUME NoticeTypeOK, StalledInv, stalled' \subseteq stalled,
         moment' = moment \/ moment' = moment + 1,
         \A k \in Notified : notices'[k].claimed = notices[k].claimed,
         \A p \in Teller : Tells(p)' => Tells(p) /\ tellers'[p].key = tellers[p].key
  PROVE  StalledInv'
<1>1. ASSUME NEW g \in stalled PROVE Holds(g)' \/ Overdue(g)'
  <2>1. g.key \in Notified /\ g.now \in Nat /\ moment \in Nat
    BY DEF StalledInv, StalledRows, NoticeTypeOK
  <2>2. CASE Holds(g)
    BY <2>1, <2>2 DEF Holds
  <2>3. CASE Overdue(g)
    <3>1. g.now + StaleClaim <= moment
      BY <2>3 DEF Overdue
    <3>2. PICK m \in Nat, now \in Nat : m = moment /\ now = g.now
      BY <2>1
    <3>3. now + StaleClaim <= m /\ now + StaleClaim <= m + 1
      <4>1. now + StaleClaim <= m
        BY <3>1, <3>2
      <4> QED BY ONLY <4>1, StaleClaimAssumption
    <3> QED BY <3>2, <3>3 DEF Overdue
  <2> QED BY <2>2, <2>3 DEF StalledInv
<1> QED BY <1>1 DEF StalledInv

(* The steps of a teller, of a key and of the clock.                          *)
LEMMA TellerStepsKeepStalled ==
  ASSUME NoticeInv, StalledInv, NEW p \in Teller,
         WakeTeller(p) \/ Arrives(p) \/ Answered(p) \/ Unanswered(p) \/ EndTeller(p)
  PROVE  StalledInv'
<1>1. NoticeTypeOK /\ UNCHANGED <<moment, notices, stalled>>
  BY DEF NoticeInv, WakeTeller, Arrives, Answered, Unanswered, EndTeller
<1>2. PICK t : tellers' = [tellers EXCEPT ![p] = t] /\ (t \in Telling => Tells(p) /\ t.key = tellers[p].key)
  <2>1. CASE WakeTeller(p)
    <3>1. [step |-> "claim", now |-> moment] \notin Telling
      BY DEF Telling
    <3> QED BY <2>1, <3>1 DEF WakeTeller
  <2>2. CASE Arrives(p)
    <3>1. Tells(p)
      BY <1>1, <2>2, TellerRecords DEF Arrives
    <3>2. [tellers[p] EXCEPT !.arrived = TRUE].key = tellers[p].key
      BY <3>1 DEF Tells, Telling
    <3> QED BY <2>2, <3>1, <3>2 DEF Arrives
  <2>3. ASSUME NEW step \in {"success", "failure"}, tellers[p].step = "send", tellers' = Records(p, step)
        PROVE  \E t : tellers' = [tellers EXCEPT ![p] = t]
                      /\ (t \in Telling => Tells(p) /\ t.key = tellers[p].key)
    <3>1. Tells(p)
      BY <1>1, <2>3, TellerRecords
    <3>2. PICK t : t = [tellers[p] EXCEPT !.step = step, !.since = moment]
      OBVIOUS
    <3>3. t.key = tellers[p].key
      BY <3>1, <3>2 DEF Tells, Telling
    <3>4. tellers' = [tellers EXCEPT ![p] = t]
      BY <1>1, <2>3, <3>2 DEF Records, NoticeTypeOK
    <3> QED BY <3>1, <3>3, <3>4
  <2>4. CASE Answered(p)
    BY <2>3, <2>4 DEF Answered
  <2>5. CASE Unanswered(p)
    BY <2>3, <2>5 DEF Unanswered
  <2>6. CASE EndTeller(p)
    <3>1. Resting \notin Telling
      BY DEF Resting, Telling
    <3> QED BY <2>6, <3>1 DEF EndTeller, Leaves
  <2> QED BY <2>1, <2>2, <2>4, <2>5, <2>6
<1>3. /\ tellers'[p] = t /\ \A q \in Teller : q # p => tellers'[q] = tellers[q]
  BY <1>1, <1>2 DEF NoticeTypeOK
<1>4. \A q \in Teller : Tells(q)' => Tells(q) /\ tellers'[q].key = tellers[q].key
  BY <1>2, <1>3 DEF Tells
<1> QED BY <1>1, <1>4, QuietSteps

(* A claim is taken when that of a stalled sender is gone or overdue.         *)
LEMMA ClaimKeepsStalled ==
  ASSUME NoticeInv, StalledInv, NEW p \in Teller, ClaimNotice(p) PROVE StalledInv'
<1>1. /\ tellers[p] \in Claiming /\ InTime(p) /\ ~ Tells(p) /\ UNCHANGED <<moment, stalled>>
      /\ NoticeTypeOK /\ moment \in Nat
  BY TellerRecords DEF ClaimNotice, NoticeInv, TimesInv, NoticeTypeOK
<1>2. CASE tellers' = [tellers EXCEPT ![p] = Resting] /\ UNCHANGED notices
  <2>1. \A q \in Teller : Tells(q)' => Tells(q) /\ tellers'[q].key = tellers[q].key
    <3>1. Resting \notin Telling
      BY DEF Resting, Telling
    <3> QED BY <1>1, <1>2, <3>1 DEF Tells, NoticeTypeOK
  <2> QED BY <1>1, <1>2, <2>1, QuietSteps
<1>3. CASE \E k \in Notified :
             /\ Claimable(k, tellers[p].now)
             /\ notices' = [notices EXCEPT ![k].claimed = tellers[p].now]
             /\ tellers' = [tellers EXCEPT ![p] = [step |-> "send", now |-> tellers[p].now, key |-> k,
                                                   since |-> moment, arrived |-> FALSE]]
  <2>1. PICK k \in Notified :
             /\ Claimable(k, tellers[p].now)
             /\ notices' = [notices EXCEPT ![k].claimed = tellers[p].now]
             /\ tellers' = [tellers EXCEPT ![p] = [step |-> "send", now |-> tellers[p].now, key |-> k,
                                                   since |-> moment, arrived |-> FALSE]]
    BY <1>3
  <2>2. /\ tellers'[p].key = k /\ \A q \in Teller : q # p => tellers'[q] = tellers[q]
        /\ \A l \in Notified : l # k => notices'[l] = notices[l]
    BY <1>1, <2>1 DEF NoticeTypeOK
  <2>3. ASSUME NEW g \in stalled PROVE Holds(g)' \/ Overdue(g)'
    <3>1. g.key \in Notified /\ g.now \in Nat
      BY DEF StalledInv, StalledRows
    <3>2. CASE Overdue(g)
      BY <1>1, <3>2 DEF Overdue
    <3>3. CASE Holds(g) /\ g.key # k
      BY <2>1, <2>2, <3>1, <3>3 DEF Holds, Tells
    <3>4. CASE Holds(g) /\ g.key = k
      <4>1. g.now <= tellers[p].now - StaleClaim /\ tellers[p].now <= moment /\ tellers[p].now \in Nat
        BY <1>1, <2>1, <3>1, <3>4 DEF Holds, Claimable, Unclaimed, InTime, Claiming
      <4>2. PICK a \in Nat, b \in Nat, m \in Nat : a = g.now /\ b = tellers[p].now /\ m = moment
        BY <1>1, <3>1, <4>1
      <4>3. a <= b - StaleClaim /\ b <= m
        BY <4>1, <4>2
      <4>4. a + StaleClaim <= m
        BY ONLY <4>3, StaleClaimAssumption
      <4> QED BY <1>1, <4>2, <4>4 DEF Overdue
    <3> QED BY <3>2, <3>3, <3>4 DEF StalledInv
  <2> QED BY <1>1, <2>3 DEF StalledInv
<1> QED BY <1>2, <1>3 DEF ClaimNotice

(* A teller records under its own claim, which no stalled sender has.         *)
LEMMA RecordKeepsStalled ==
  ASSUME NoticeInv, StalledInv, NEW p \in Teller, RecordNotice(p) PROVE StalledInv'
<1>1. /\ Tells(p) /\ tellers' = [tellers EXCEPT ![p] = Resting] /\ UNCHANGED <<moment, stalled>>
      /\ Resting \notin Telling /\ NoticeTypeOK
  BY TellerRecords DEF RecordNotice, NoticeInv, Resting, Telling
<1>2. \A q \in Teller : Tells(q)' => Tells(q) /\ tellers'[q].key = tellers[q].key
  BY <1>1 DEF Tells, NoticeTypeOK
<1>3. \A l \in Notified : l # tellers[p].key => notices'[l] = notices[l]
  BY <1>1 DEF RecordNotice, Succeeded, Failed, Put, NoticeTypeOK
<1>4. ASSUME NEW g \in stalled PROVE Holds(g)' \/ Overdue(g)'
  <2>1. g.key \in Notified
    BY DEF StalledInv, StalledRows
  <2>2. CASE Overdue(g)
    BY <1>1, <2>2 DEF Overdue
  <2>3. CASE Holds(g)
    BY <1>1, <1>2, <1>3, <2>1, <2>3 DEF Holds
  <2> QED BY <2>2, <2>3 DEF StalledInv
<1> QED BY <1>1, <1>4 DEF StalledInv

(* The claim of whoever stalls is its own, and nobody else tells of the key.  *)
LEMMA StallTellerKeeps ==
  ASSUME NoticeInv, StalledInv, NEW p \in Teller, StallTeller(p) PROVE NoticeInv' /\ StalledInv'
<1>1. /\ Tells(p) /\ tellers[p] # Resting /\ Leaves(p) /\ UNCHANGED <<moment, notices, sent>>
      /\ NoticeTypeOK /\ Resting \notin Telling /\ tellers' = [tellers EXCEPT ![p] = Resting]
  BY TellerRecords DEF StallTeller, NoticeInv, Leaves, Resting, Telling
<1>2. NoticeInv'
  BY <1>1, LeavingKeeps
<1>3. PICK h : h = [key |-> tellers[p].key, now |-> tellers[p].now, step |-> tellers[p].step,
                    arrived |-> tellers[p].arrived]
  OBVIOUS
<1>4. /\ h \in StalledRows /\ h.key = tellers[p].key /\ h.now = tellers[p].now
      /\ stalled' = stalled \cup {h}
  BY <1>1, <1>3 DEF StallTeller, StalledRows, Tells, Telling
<1>5. \A q \in Teller : Tells(q)' => Tells(q) /\ tellers'[q].key = tellers[q].key /\ q # p
  BY <1>1 DEF Tells, NoticeTypeOK
<1>6. Holds(h)'
  BY <1>1, <1>4, <1>5 DEF Holds, NoticeInv, ClaimInv
<1>7. ASSUME NEW g \in stalled PROVE Holds(g)' \/ Overdue(g)'
  BY <1>1, <1>5 DEF StalledInv, Holds, Overdue
<1>8. \A g \in stalled : ~ (g.key = h.key /\ g.now = h.now)
  BY <1>1, <1>4, ClaimsDiffer
<1>9. StalledInv'
  BY <1>4, <1>6, <1>7, <1>8 DEF StalledInv
<1> QED BY <1>2, <1>9

(* A stalled sender's message is unsure when it arrives.                      *)
LEMMA StalledArrivesKeeps ==
  ASSUME NoticeInv, StalledInv, NEW g \in stalled, StalledArrives(g) PROVE NoticeInv' /\ StalledInv'
<1>1. UNCHANGED <<moment, notices, tellers>> /\ g \in StalledRows /\ g.key \in Notified
  BY DEF StalledArrives, StalledInv, StalledRows
<1>2. PICK h : h = [g EXCEPT !.arrived = TRUE]
  OBVIOUS
<1>3. /\ h \in StalledRows /\ h.key = g.key /\ h.now = g.now
      /\ stalled' = (stalled \ {g}) \cup {h}
  BY <1>1, <1>2 DEF StalledArrives, StalledRows
<1>4. StalledInv'
  <2>1. \A f \in stalled : (Holds(f) => Holds(f)') /\ (Overdue(f) => Overdue(f)')
    BY <1>1 DEF Holds, Overdue, Tells
  <2>2. Holds(h)' \/ Overdue(h)'
    BY <1>1, <1>3 DEF StalledInv, Holds, Overdue, Tells
  <2>3. \A f \in stalled \ {g} : ~ (f.key = h.key /\ f.now = h.now)
    BY <1>3 DEF StalledInv
  <2> QED BY <1>3, <2>1, <2>2, <2>3 DEF StalledInv
<1>5. PICK k \in Notified : k = g.key
  BY <1>1
<1>6. /\ sent \in [Notified -> Nat] /\ unsure \in [Notified -> Nat]
      /\ sent' = [sent EXCEPT ![k] = sent[k] + 1] /\ unsure' = [unsure EXCEPT ![k] = unsure[k] + 1]
  BY <1>5 DEF StalledArrives, NoticeInv, NoticeTypeOK
<1>7. /\ sent[k] + 1 \in Nat /\ unsure[k] + 1 \in Nat
      /\ sent[k] <= unsure[k] + 1 => sent[k] + 1 <= (unsure[k] + 1) + 1
      /\ sent[k] <= unsure[k] => sent[k] + 1 <= unsure[k] + 1
  <2>1. sent[k] \in Nat /\ unsure[k] \in Nat
    BY <1>6
  <2> QED BY ONLY <2>1
<1>8. /\ sent' \in [Notified -> Nat] /\ unsure' \in [Notified -> Nat]
      /\ sent'[k] = sent[k] + 1 /\ unsure'[k] = unsure[k] + 1
      /\ \A l \in Notified : l # k => sent'[l] = sent[l] /\ unsure'[l] = unsure[l]
  BY <1>6, <1>7
<1>9. NoticeTypeOK' /\ TimesInv' /\ ClaimInv'
  BY <1>1, <1>8 DEF NoticeInv, NoticeTypeOK, TimesInv, InTime, ClaimInv, Tells
<1>10. SentInv'
  <2> SUFFICES ASSUME NEW l \in Notified
               PROVE  /\ sent'[l] <= unsure'[l] + 1
                      /\ \/ sent'[l] <= unsure'[l]
                         \/ notices'[l].told
                         \/ \E q \in Teller : Outstanding(q)' /\ tellers'[q].key = l
    BY DEF SentInv
  <2>1. \A q \in Teller : Outstanding(q) => Outstanding(q)' /\ tellers'[q].key = tellers[q].key
    BY <1>1 DEF Outstanding, Tells
  <2>2. /\ sent[l] <= unsure[l] + 1
        /\ \/ sent[l] <= unsure[l]
           \/ notices[l].told
           \/ \E q \in Teller : Outstanding(q) /\ tellers[q].key = l
    BY DEF NoticeInv, SentInv
  <2>3. CASE l = k
    BY <1>1, <1>7, <1>8, <2>1, <2>2, <2>3
  <2>4. CASE l # k
    BY <1>1, <1>8, <2>1, <2>2, <2>4
  <2> QED BY <2>3, <2>4
<1> QED BY <1>4, <1>9, <1>10 DEF NoticeInv

(* A stalled sender records an outcome only where the claim is still its own, *)
(* and there nobody tells.                                                    *)
LEMMA StalledEndsKeeps ==
  ASSUME NoticeInv, StalledInv, NEW g \in stalled, StalledEnds(g) PROVE NoticeInv' /\ StalledInv'
<1>1. /\ UNCHANGED <<moment, tellers, sent, unsure>> /\ stalled' = stalled \ {g} /\ g.key \in Notified
      /\ NoticeTypeOK /\ moment \in Nat
  BY DEF StalledEnds, StalledInv, StalledRows, NoticeInv, NoticeTypeOK
<1>2. CASE UNCHANGED notices
  <2>1. NoticeInv'
    BY <1>1, <1>2 DEF NoticeInv, NoticeTypeOK, TimesInv, InTime, ClaimInv, SentInv, Outstanding, Tells
  <2>2. StalledInv'
    BY <1>1, <1>2, QuietSteps DEF Tells
  <2> QED BY <2>1, <2>2
<1>3. CASE ~ UNCHANGED notices
  <2>1. notices' = Succeeded(g.key, g.now) \/ notices' = Failed(g.key, g.now)
    BY <1>3 DEF StalledEnds
  <2>2. Own(g.key, g.now)
    BY <1>3, <2>1 DEF Succeeded, Failed
  <2>3. \A q \in Teller : Tells(q) => tellers[q].key # g.key
    BY <2>2, ClaimsDiffer DEF Own, NoticeInv, ClaimInv
  <2>4. PICK k \in Notified : k = g.key
    BY <1>1
  <2>5. PICK told \in BOOLEAN, retry \in Int :
          notices' = [notices EXCEPT ![k].claimed = Unclaimed, ![k].told = told, ![k].retry = retry]
    <3>1. notices \in [Notified -> NoticeRows] /\ ~ notices[k].told
      BY <2>2, <2>4 DEF NoticeInv, NoticeTypeOK, Own
    <3>2. moment + Backoff \in Int /\ 0 \in Int
      <4>1. moment \in Nat
        BY <1>1
      <4> QED BY ONLY <4>1, StaleClaimAssumption
    <3>3. CASE notices' = Succeeded(g.key, g.now)
      BY <2>2, <2>4, <3>2, <3>3 DEF Succeeded
    <3>4. CASE notices' = Failed(g.key, g.now)
      <4>1. notices' = [notices EXCEPT ![k].claimed = Unclaimed, ![k].retry = moment + Backoff]
        BY <2>2, <2>4, <3>4 DEF Failed, Put
      <4>2. notices' = [notices EXCEPT ![k].claimed = Unclaimed, ![k].told = FALSE,
                                       ![k].retry = moment + Backoff]
        BY <3>1, <4>1 DEF NoticeRows
      <4> QED BY <3>2, <4>2
    <3> QED BY <2>1, <3>3, <3>4
  <2>6. notices' \in [Notified -> NoticeRows] /\ \A l \in Notified : l # g.key => notices'[l] = notices[l]
    <3>1. PICK r : r = [notices[k] EXCEPT !.claimed = Unclaimed, !.told = told, !.retry = retry]
      OBVIOUS
    <3>2. notices[k] \in NoticeRows /\ notices \in [Notified -> NoticeRows]
      BY <1>1 DEF NoticeTypeOK
    <3>3. r \in NoticeRows
      <4>1. Unclaimed \in Int
        BY DEF Unclaimed
      <4> QED BY <3>1, <3>2, <4>1 DEF NoticeRows
    <3>4. notices' = [notices EXCEPT ![k] = r]
      BY <2>5, <3>1, <3>2
    <3> QED BY <2>4, <3>2, <3>3, <3>4
  <2>7. \A l \in Notified : notices[l].told => notices'[l].told
    BY <2>2, <2>6 DEF Own
  <2>8. NoticeInv'
    <3>1. NoticeTypeOK' /\ TimesInv'
      BY <1>1, <2>6 DEF NoticeInv, NoticeTypeOK, TimesInv, InTime
    <3>2. ClaimInv'
      <4>1. \A q \in Teller : Tells(q) => tellers[q].key \in Notified \ {g.key}
        BY <2>3 DEF Tells, Telling
      <4> QED BY <1>1, <2>6, <4>1 DEF NoticeInv, ClaimInv, Tells
    <3>3. SentInv'
      BY <1>1, <2>7 DEF NoticeInv, SentInv, Outstanding, Tells
    <3> QED BY <3>1, <3>2, <3>3 DEF NoticeInv
  <2>9. StalledInv'
    <3>1. ASSUME NEW h \in stalled \ {g} PROVE Holds(h)' \/ Overdue(h)'
      <4>1. CASE Overdue(h)
        BY <1>1, <4>1 DEF Overdue
      <4>2. CASE Holds(h)
        <5>1. h.key \in Notified /\ (h.key = g.key => h.now # g.now)
          BY DEF StalledInv, StalledRows
        <5>2. h.key # g.key
          BY <2>2, <4>2, <5>1 DEF Holds, Own
        <5> QED BY <1>1, <2>6, <4>2, <5>1, <5>2 DEF Holds, Tells
      <4> QED BY <4>1, <4>2 DEF StalledInv
    <3> QED BY <1>1, <3>1 DEF StalledInv
  <2> QED BY <2>8, <2>9
<1> QED BY <1>2, <1>3

LEMMA NextNoticeInv == NoticeInv /\ StalledInv /\ [NoticeNext]_noticeVars => NoticeInv' /\ StalledInv'
<1> SUFFICES ASSUME NoticeInv, StalledInv, [NoticeNext]_noticeVars PROVE NoticeInv' /\ StalledInv'
  OBVIOUS
<1>1. CASE UNCHANGED noticeVars
  <2>1. NoticeInv'
    BY <1>1 DEF noticeVars, NoticeInv, NoticeTypeOK, TimesInv, InTime, ClaimInv, SentInv, Outstanding, Tells
  <2>2. StalledInv'
    BY <1>1, QuietSteps DEF noticeVars, NoticeInv, Tells
  <2> QED BY <2>1, <2>2
<1>2. ASSUME NEW p \in Teller,
             \/ WakeTeller(p) \/ ClaimNotice(p) \/ Arrives(p) \/ Answered(p) \/ Unanswered(p)
             \/ RecordNotice(p) \/ EndTeller(p)
      PROVE  NoticeInv' /\ StalledInv'
  <2>1. StalledInv'
    BY <1>2, TellerStepsKeepStalled, ClaimKeepsStalled, RecordKeepsStalled
  <2>2. EndTeller(p) => NoticeInv'
    BY LeavingKeeps DEF EndTeller
  <2> QED BY <1>2, <2>1, <2>2, WakeTellerKeeps, ClaimNoticeKeeps, ArrivesKeeps, AnsweredKeeps,
             UnansweredKeeps, RecordNoticeKeeps
<1>3. ASSUME NEW k \in Notified, ChangeNotice(k) PROVE NoticeInv' /\ StalledInv'
  <2>1. UNCHANGED <<moment, tellers, stalled>> /\ NoticeTypeOK
        /\ \A l \in Notified : notices'[l].claimed = notices[l].claimed
    BY <1>3 DEF ChangeNotice, NoticeInv, NoticeTypeOK, NoticeRows
  <2> QED BY <1>3, <2>1, ChangeNoticeKeeps, QuietSteps DEF Tells
<1>4. CASE MomentPasses
  <2>1. UNCHANGED <<notices, tellers, stalled>> /\ NoticeTypeOK /\ moment' = moment + 1
    BY <1>4 DEF MomentPasses, NoticeInv
  <2> QED BY <1>4, <2>1, MomentPassesKeeps, QuietSteps DEF Tells
<1> QED BY <1>1, <1>2, <1>3, <1>4, StallTellerKeeps, StalledArrivesKeeps, StalledEndsKeeps DEF NoticeNext

(* For any number of processes and keys, any times of which the stale claim is*)
(* longer than what a teller that does not stall may take, and whoever stalls:*)
(* a message more than the unsure ones is the last.                           *)
THEOREM CustomerHearsOnce == NoticeSpec => []NoticeOnce
<1>1. NoticeInit => NoticeInv /\ StalledInv
  <2> SUFFICES ASSUME NoticeInit PROVE NoticeInv /\ StalledInv
    OBVIOUS
  <2>1. Resting \notin Claiming /\ Resting \notin Telling
    BY DEF Resting, Claiming, Telling
  <2>2. \A p \in Teller : tellers[p] = Resting
    BY DEF NoticeInit
  <2>3. NoticeTypeOK
    <3>1. Unclaimed \in Int
      BY DEF Unclaimed
    <3> QED BY <3>1 DEF NoticeInit, NoticeTypeOK, NoticeRows
  <2>4. TimesInv /\ ClaimInv
    BY <2>1, <2>2 DEF TimesInv, InTime, ClaimInv, Tells
  <2>5. \A k \in Notified : sent[k] = 0 /\ unsure[k] = 0
    BY DEF NoticeInit
  <2>6. 0 <= 0 + 1 /\ 0 <= 0
    OBVIOUS
  <2>7. SentInv
    BY <2>5, <2>6 DEF SentInv
  <2>8. StalledInv
    BY DEF NoticeInit, StalledInv
  <2> QED BY <2>3, <2>4, <2>7, <2>8 DEF NoticeInv
<1>2. NoticeInv /\ StalledInv /\ [NoticeNext]_noticeVars => NoticeInv' /\ StalledInv'
  BY NextNoticeInv
<1>3. NoticeInv => NoticeOnce
  <2> SUFFICES ASSUME NoticeInv, NEW k \in Notified PROVE sent[k] <= 1 + unsure[k]
    BY DEF NoticeOnce
  <2>1. sent[k] \in Nat /\ unsure[k] \in Nat /\ sent[k] <= unsure[k] + 1
    BY DEF NoticeInv, NoticeTypeOK, SentInv
  <2> QED BY ONLY <2>1
<1> QED BY <1>1, <1>2, <1>3, PTL DEF NoticeSpec

-----------------------------------------------------------------------------
(* Signing in once, and staying out                                           *)

Opened == [state: {"open", "consumed", "removed"}, until: Int]
SessionRows == [state: {"valid", "revoked"}, until: Int, era: Nat]
Visits == [step: {"exchange", "lock", "issue"}, origin: Launch \cup Attempt, now: Nat,
           known: BOOLEAN, era: Nat]

PortalTypeOK ==
  /\ clock \in Nat /\ claims \in [Launch -> Int]
  /\ attempts \in [Attempt -> {NotOpened} \cup Opened]
  /\ sessions \in [Session -> {NoSession} \cup SessionRows]
  /\ visits \in [Visit -> {Away} \cup Visits]
  /\ locker \in Visit \cup {NoVisit} /\ admitted \in BOOLEAN /\ era \in Nat
  /\ issued \in [Launch \cup Attempt -> Nat]

Present(v) == visits[v] \in Visits
Issues(v) == visits[v] \in Visits /\ visits[v].step = "issue"

(* Who issues has the lock of the person, and has read the era under it.      *)
LockInv == \A v \in Visit : Issues(v) => locker = v /\ visits[v].era = era

(* The first moment at which a claim of the launch may be cleaned up.         *)
Forgotten == LaunchDate - LaunchSkew + ClaimLife

(* No request is longer under way than its patience, so one for a launch ends *)
(* before the claim of it can be forgotten.                                   *)
TimelyInv ==
  \A v \in Visit : Present(v) =>
    /\ visits[v].now <= clock /\ clock <= visits[v].now + Patience
    /\ visits[v].origin \in Launch =>
         visits[v].now - LaunchAge <= LaunchDate /\ LaunchDate <= visits[v].now + LaunchSkew

LaunchInv ==
  /\ \A l \in Launch :
       /\ issued[l] <= 1 /\ (claims[l] # NoClaim => Forgotten <= claims[l])
       /\ issued[l] = 0 \/ claims[l] # NoClaim \/ Forgotten <= clock
  /\ \A v \in Visit : Issues(v) /\ visits[v].origin \in Launch => claims[visits[v].origin] = NoClaim

(* An attempt that may be consumed has led to nothing, one that was consumed  *)
(* is in the hands of one request.                                            *)
AttemptInv ==
  /\ \A a \in Attempt : issued[a] <= 1
  /\ \A a \in Attempt : attempts[a] = NotOpened \/ attempts[a].state = "open" =>
       issued[a] = 0 /\ \A v \in Visit : Present(v) => visits[v].origin # a
  /\ \A v \in Visit : Present(v) /\ visits[v].origin \in Attempt =>
       /\ issued[visits[v].origin] = 0
       /\ \A w \in Visit : Present(w) /\ visits[w].origin = visits[v].origin => w = v

PortalInv == PortalTypeOK /\ LockInv /\ TimelyInv /\ LaunchInv /\ AttemptInv /\ DisabledStaysOut

LEMMA AwayIsNoVisit == Away \notin Visits /\ Away.step = "away"
BY DEF Away, Visits

(* Which record a request has at which step.                                  *)
LEMMA VisitRecords ==
  ASSUME PortalTypeOK, NEW v \in Visit
  PROVE  /\ visits[v] = Away \/ Present(v)
         /\ visits[v].step \in {"exchange", "lock", "issue"} => Present(v)
         /\ Present(v) => visits[v] # Away
  BY AwayIsNoVisit DEF PortalTypeOK, Present

(* A request that changes leaves the others what they are.                    *)
LEMMA OneVisit ==
  ASSUME PortalTypeOK, NEW v \in Visit, NEW t \in {Away} \cup Visits,
         visits' = [visits EXCEPT ![v] = t]
  PROVE  /\ visits' \in [Visit -> {Away} \cup Visits] /\ visits'[v] = t
         /\ \A w \in Visit : w # v => visits'[w] = visits[w]
BY DEF PortalTypeOK

(* A request that ends gives its lock up and leaves the others theirs.        *)
LEMMA VisitEnds ==
  ASSUME PortalInv, NEW v \in Visit, Ends(v), Frees(v), UNCHANGED <<clock, era>>
  PROVE  /\ visits' \in [Visit -> {Away} \cup Visits] /\ locker' \in Visit \cup {NoVisit}
         /\ \A w \in Visit : Present(w)' => w # v /\ Present(w) /\ visits'[w] = visits[w]
         /\ LockInv' /\ TimelyInv'
<1>1. /\ visits' \in [Visit -> {Away} \cup Visits] /\ visits'[v] = Away
      /\ \A w \in Visit : w # v => visits'[w] = visits[w]
  BY OneVisit DEF Ends, PortalInv
<1>2. \A w \in Visit : Present(w)' => w # v /\ Present(w) /\ visits'[w] = visits[w]
  BY <1>1, AwayIsNoVisit DEF Present
<1>3. locker' \in Visit \cup {NoVisit} /\ \A w \in Visit : w # v /\ locker = w => locker' = w
  BY DEF Frees, PortalInv, PortalTypeOK
<1>4. LockInv'
  BY <1>2, <1>3 DEF PortalInv, LockInv, Issues, Present
<1>5. TimelyInv'
  BY <1>2 DEF PortalInv, TimelyInv
<1> QED BY <1>1, <1>2, <1>3, <1>4, <1>5

(* A request that does not issue a session is cut.                            *)
LEMMA CutVisitKeeps ==
  ASSUME PortalInv, NEW v \in Visit, Ends(v), Frees(v),
         UNCHANGED <<clock, claims, attempts, sessions, admitted, era, issued>>
  PROVE  PortalInv'
<1>1. /\ visits' \in [Visit -> {Away} \cup Visits] /\ locker' \in Visit \cup {NoVisit}
      /\ \A w \in Visit : Present(w)' => w # v /\ Present(w) /\ visits'[w] = visits[w]
      /\ LockInv' /\ TimelyInv'
  BY VisitEnds
<1>2. PortalTypeOK'
  BY <1>1 DEF PortalInv, PortalTypeOK
<1>3. LaunchInv'
  BY <1>1 DEF PortalInv, LaunchInv, Issues, Present
<1>4. AttemptInv'
  BY <1>1 DEF PortalInv, AttemptInv
<1>5. DisabledStaysOut'
  BY DEF PortalInv, DisabledStaysOut
<1> QED BY <1>1, <1>2, <1>3, <1>4, <1>5 DEF PortalInv

LEMMA CreateLoginAttemptKeeps ==
  ASSUME PortalInv, NEW a \in Attempt, CreateLoginAttempt(a) PROVE PortalInv'
<1>1. /\ attempts[a] = NotOpened
      /\ UNCHANGED <<clock, claims, sessions, visits, locker, admitted, era, issued>>
  BY DEF CreateLoginAttempt
<1>2. clock + AttemptLife \in Int
  <2>1. clock \in Nat
    BY DEF PortalInv, PortalTypeOK
  <2> QED BY ONLY <2>1, LifetimesAssumption
<1>3. [state |-> "open", until |-> clock + AttemptLife] \in Opened
  BY <1>2 DEF Opened
<1>4. /\ attempts' \in [Attempt -> {NotOpened} \cup Opened]
      /\ \A b \in Attempt : b # a => attempts'[b] = attempts[b]
  BY <1>3 DEF CreateLoginAttempt, PortalInv, PortalTypeOK
<1>5. PortalTypeOK' /\ LockInv' /\ TimelyInv' /\ LaunchInv' /\ DisabledStaysOut'
  BY <1>1, <1>4 DEF PortalInv, PortalTypeOK, LockInv, TimelyInv, LaunchInv, DisabledStaysOut,
     Issues, Present
<1>6. AttemptInv'
  BY <1>1, <1>4 DEF PortalInv, AttemptInv, Present
<1> QED BY <1>5, <1>6 DEF PortalInv

(* A request begins: it is timely, and has no lock.                           *)
LEMMA VisitBegins ==
  ASSUME PortalInv, NEW v \in Visit, NEW t \in Visits, t.step # "issue", t.now = clock,
         t.origin \in Launch => FreshLaunch(t.origin), visits' = [visits EXCEPT ![v] = t],
         UNCHANGED <<clock, claims, sessions, locker, era, issued>>
  PROVE  /\ visits' \in [Visit -> {Away} \cup Visits] /\ visits'[v] = t
         /\ \A w \in Visit : w # v => visits'[w] = visits[w]
         /\ LockInv' /\ TimelyInv' /\ LaunchInv' /\ DisabledStaysOut'
<1>1. /\ visits' \in [Visit -> {Away} \cup Visits] /\ visits'[v] = t
      /\ \A w \in Visit : w # v => visits'[w] = visits[w]
  BY OneVisit DEF PortalInv
<1>2. \A w \in Visit : Issues(w)' => Issues(w) /\ visits'[w] = visits[w]
  BY <1>1 DEF Issues
<1>3. LockInv' /\ LaunchInv' /\ DisabledStaysOut'
  BY <1>2 DEF PortalInv, LockInv, LaunchInv, DisabledStaysOut
<1>4. clock <= clock + Patience /\ clock <= clock
  <2>1. clock \in Nat
    BY DEF PortalInv, PortalTypeOK
  <2> QED BY ONLY <2>1, LifetimesAssumption
<1>5. TimelyInv'
  <2> SUFFICES ASSUME NEW w \in Visit, Present(w)'
               PROVE  /\ visits'[w].now <= clock' /\ clock' <= visits'[w].now + Patience
                      /\ visits'[w].origin \in Launch =>
                           /\ visits'[w].now - LaunchAge <= LaunchDate
                           /\ LaunchDate <= visits'[w].now + LaunchSkew
    BY DEF TimelyInv
  <2>1. CASE w = v
    BY <1>1, <1>4, <2>1 DEF FreshLaunch
  <2>2. CASE w # v
    BY <1>1, <2>2 DEF PortalInv, TimelyInv, Present
  <2> QED BY <2>1, <2>2
<1> QED BY <1>1, <1>3, <1>5

LEMMA PresentLaunchKeeps ==
  ASSUME PortalInv, NEW v \in Visit, NEW l \in Launch, NEW known \in BOOLEAN,
         PresentLaunch(v, l, known)
  PROVE  PortalInv'
<1>1. PICK t : t = [step |-> "lock", origin |-> l, now |-> clock, known |-> known, era |-> era]
  OBVIOUS
<1>2. t \in Visits /\ t.step = "lock" /\ t.origin = l /\ t.now = clock
  BY <1>1 DEF Visits, PortalInv, PortalTypeOK
<1>3. /\ visits[v] = Away /\ FreshLaunch(l) /\ visits' = [visits EXCEPT ![v] = t]
      /\ UNCHANGED <<clock, claims, attempts, sessions, locker, admitted, era, issued>>
  BY <1>1 DEF PresentLaunch
<1>4. /\ visits' \in [Visit -> {Away} \cup Visits] /\ visits'[v] = t
      /\ \A w \in Visit : w # v => visits'[w] = visits[w]
      /\ LockInv' /\ TimelyInv' /\ LaunchInv' /\ DisabledStaysOut'
  BY <1>2, <1>3, VisitBegins
<1>5. PortalTypeOK'
  BY <1>3, <1>4 DEF PortalInv, PortalTypeOK
<1>6. AttemptInv'
  <2>1. l \notin Attempt
    BY SignInAssumption
  <2>2. \A w \in Visit : Present(w)' /\ visits'[w].origin \in Attempt =>
          w # v /\ Present(w) /\ visits'[w] = visits[w]
    BY <1>2, <1>4, <2>1 DEF Present
  <2>3. \A a \in Attempt, w \in Visit : Present(w)' /\ visits'[w].origin = a =>
          Present(w) /\ visits[w].origin = a
    BY <2>2
  <2> QED BY <1>3, <2>2, <2>3 DEF PortalInv, AttemptInv
<1> QED BY <1>4, <1>5, <1>6 DEF PortalInv

(* The attempt is consumed by one request, whoever opens the callback.        *)
LEMMA ConsumeAttemptKeeps ==
  ASSUME PortalInv, NEW v \in Visit, NEW a \in Attempt, ConsumeAttempt(v, a) PROVE PortalInv'
<1>1. PICK t : t = [step |-> "exchange", origin |-> a, now |-> clock, known |-> FALSE, era |-> era]
  OBVIOUS
<1>2. t \in Visits /\ t.step = "exchange" /\ t.origin = a /\ t.now = clock /\ a \notin Launch
  BY <1>1, SignInAssumption DEF Visits, PortalInv, PortalTypeOK
<1>3. /\ visits[v] = Away /\ attempts[a].state = "open" /\ visits' = [visits EXCEPT ![v] = t]
      /\ attempts' = [attempts EXCEPT ![a].state = "consumed"]
      /\ UNCHANGED <<clock, claims, sessions, locker, admitted, era, issued>>
  BY <1>1 DEF ConsumeAttempt
<1>4. /\ visits' \in [Visit -> {Away} \cup Visits] /\ visits'[v] = t
      /\ \A w \in Visit : w # v => visits'[w] = visits[w]
      /\ LockInv' /\ TimelyInv' /\ LaunchInv' /\ DisabledStaysOut'
  BY <1>2, <1>3, VisitBegins
<1>5. /\ attempts' \in [Attempt -> {NotOpened} \cup Opened] /\ attempts'[a].state = "consumed"
      /\ attempts'[a] # NotOpened
      /\ \A b \in Attempt : b # a => attempts'[b] = attempts[b]
  <2>1. attempts[a] \in Opened /\ attempts \in [Attempt -> {NotOpened} \cup Opened]
    BY <1>3 DEF PortalInv, PortalTypeOK, NotOpened
  <2>2. PICK r : r = [attempts[a] EXCEPT !.state = "consumed"]
    OBVIOUS
  <2>3. r \in Opened /\ r.state = "consumed"
    BY <2>1, <2>2 DEF Opened
  <2>4. r # NotOpened
    BY <2>3 DEF NotOpened
  <2> QED BY <1>3, <2>1, <2>2, <2>3, <2>4
<1>6. PortalTypeOK'
  BY <1>3, <1>4, <1>5 DEF PortalInv, PortalTypeOK
<1>7. AttemptInv'
  <2>1. issued[a] = 0 /\ \A w \in Visit : Present(w) => visits[w].origin # a
    BY <1>3 DEF PortalInv, AttemptInv
  <2>2. \A w \in Visit : Present(w)' /\ visits'[w].origin # a =>
          w # v /\ Present(w) /\ visits'[w] = visits[w]
    BY <1>2, <1>4 DEF Present
  <2>3. \A w \in Visit : Present(w)' /\ visits'[w].origin = a => w = v
    BY <1>4, <2>1 DEF Present
  <2> QED BY <1>3, <1>5, <2>1, <2>2, <2>3 DEF PortalInv, AttemptInv
<1> QED BY <1>4, <1>6, <1>7 DEF PortalInv

(* A request that goes on keeps its time and what it came with.               *)
LEMMA VisitGoesOn ==
  ASSUME PortalInv, NEW v \in Visit, Present(v), NEW t \in Visits,
         t.origin = visits[v].origin, t.now = visits[v].now, visits' = [visits EXCEPT ![v] = t],
         UNCHANGED <<clock, attempts, issued>>
  PROVE  /\ visits' \in [Visit -> {Away} \cup Visits] /\ visits'[v] = t
         /\ \A w \in Visit : w # v => visits'[w] = visits[w]
         /\ TimelyInv' /\ AttemptInv'
<1>1. /\ visits' \in [Visit -> {Away} \cup Visits] /\ visits'[v] = t
      /\ \A w \in Visit : w # v => visits'[w] = visits[w]
  BY OneVisit DEF PortalInv
<1>2. \A w \in Visit : (Present(w)' <=> Present(w)) /\ visits'[w].origin = visits[w].origin
                       /\ visits'[w].now = visits[w].now
  BY <1>1 DEF Present
<1>3. TimelyInv'
  BY <1>2 DEF PortalInv, TimelyInv
<1>4. AttemptInv'
  BY <1>2 DEF PortalInv, AttemptInv
<1> QED BY <1>1, <1>3, <1>4

LEMMA ExchangeCodeKeeps ==
  ASSUME PortalInv, NEW v \in Visit, ExchangeCode(v) PROVE PortalInv'
<1>1. /\ Present(v) /\ visits[v] \in Visits /\ ~ Issues(v)
      /\ UNCHANGED <<clock, claims, attempts, sessions, locker, admitted, era, issued>>
  BY VisitRecords DEF ExchangeCode, PortalInv, Present, Issues
<1>2. CASE Ends(v)
  <2>1. /\ visits' \in [Visit -> {Away} \cup Visits] /\ visits'[v] = Away
        /\ \A w \in Visit : w # v => visits'[w] = visits[w]
    BY <1>2, OneVisit DEF Ends, PortalInv
  <2>2. \A w \in Visit : Present(w)' => w # v /\ Present(w) /\ visits'[w] = visits[w]
    BY <2>1, AwayIsNoVisit DEF Present
  <2>3. PortalTypeOK'
    BY <1>1, <2>1 DEF PortalInv, PortalTypeOK
  <2>4. LockInv' /\ TimelyInv' /\ LaunchInv' /\ DisabledStaysOut'
    BY <1>1, <2>2 DEF PortalInv, LockInv, TimelyInv, LaunchInv, DisabledStaysOut, Issues, Present
  <2>5. AttemptInv'
    BY <1>1, <2>2 DEF PortalInv, AttemptInv
  <2> QED BY <2>3, <2>4, <2>5 DEF PortalInv
<1>3. CASE Goes(v, "lock")
  <2>1. PICK t : t = [visits[v] EXCEPT !.step = "lock"]
    OBVIOUS
  <2>2. t \in Visits /\ t.step = "lock" /\ t.origin = visits[v].origin /\ t.now = visits[v].now
    BY <1>1, <2>1 DEF Visits
  <2>3. visits' = [visits EXCEPT ![v] = t]
    BY <1>3, <2>1 DEF Goes
  <2>4. /\ visits' \in [Visit -> {Away} \cup Visits] /\ visits'[v] = t
        /\ \A w \in Visit : w # v => visits'[w] = visits[w]
        /\ TimelyInv' /\ AttemptInv'
    BY <1>1, <2>2, <2>3, VisitGoesOn
  <2>5. \A w \in Visit : Issues(w)' => Issues(w) /\ visits'[w] = visits[w]
    BY <2>2, <2>4 DEF Issues
  <2>6. PortalTypeOK'
    BY <1>1, <2>4 DEF PortalInv, PortalTypeOK
  <2>7. LockInv' /\ LaunchInv' /\ DisabledStaysOut'
    BY <1>1, <2>5 DEF PortalInv, LockInv, LaunchInv, DisabledStaysOut
  <2> QED BY <2>4, <2>6, <2>7 DEF PortalInv
<1> QED BY <1>2, <1>3 DEF ExchangeCode

(* The person is locked and asked about again.                                *)
LEMMA LockVisitorKeeps ==
  ASSUME PortalInv, NEW v \in Visit, LockVisitor(v) PROVE PortalInv'
<1>1. /\ Present(v) /\ visits[v] \in Visits /\ locker = NoVisit
      /\ UNCHANGED <<clock, claims, attempts, sessions, admitted, era, issued>>
  BY VisitRecords DEF LockVisitor, CustomerFree, PortalInv, Present
<1>2. CASE Ends(v) /\ UNCHANGED locker
  <2>1. Frees(v)
    BY <1>1, <1>2, SignInAssumption DEF Frees
  <2> QED BY <1>1, <1>2, <2>1, CutVisitKeeps
<1>3. CASE /\ visits[v].origin \in Launch => claims[visits[v].origin] = NoClaim
           /\ locker' = v
           /\ visits' = [visits EXCEPT ![v].step = "issue", ![v].era = era]
  <2>1. PICK t : t = [visits[v] EXCEPT !.step = "issue", !.era = era]
    OBVIOUS
  <2>2. t \in Visits /\ t.step = "issue" /\ t.origin = visits[v].origin /\ t.now = visits[v].now
        /\ t.era = era
    BY <1>1, <2>1 DEF Visits, PortalInv, PortalTypeOK
  <2>3. visits' = [visits EXCEPT ![v] = t]
    BY <1>1, <1>3, <2>1 DEF PortalInv, PortalTypeOK
  <2>4. /\ visits' \in [Visit -> {Away} \cup Visits] /\ visits'[v] = t
        /\ \A w \in Visit : w # v => visits'[w] = visits[w]
        /\ TimelyInv' /\ AttemptInv'
    BY <1>1, <2>2, <2>3, VisitGoesOn
  <2>5. \A w \in Visit : ~ Issues(w)
    BY <1>1, SignInAssumption DEF PortalInv, LockInv
  <2>6. \A w \in Visit : Issues(w)' => w = v
    BY <2>4, <2>5 DEF Issues
  <2>7. PortalTypeOK'
    BY <1>1, <1>3, <2>4 DEF PortalInv, PortalTypeOK
  <2>8. LockInv' /\ LaunchInv' /\ DisabledStaysOut'
    BY <1>1, <1>3, <2>2, <2>4, <2>6 DEF PortalInv, LockInv, LaunchInv, DisabledStaysOut
  <2> QED BY <2>4, <2>7, <2>8 DEF PortalInv
<1> QED BY <1>2, <1>3 DEF LockVisitor

(* A request for a launch is early enough that no claim of it is forgotten,   *)
(* and the claim it makes is kept for long enough.                            *)
LEMMA LaunchTimes ==
  ASSUME PortalInv, NEW v \in Visit, Present(v), visits[v].origin \in Launch
  PROVE  /\ ~ (Forgotten <= clock) /\ Forgotten <= ClaimUntil(visits[v].now)
         /\ ClaimUntil(visits[v].now) \in Int /\ ClaimUntil(visits[v].now) # NoClaim
<1>1. visits[v].now \in Nat /\ clock \in Nat
  BY DEF Present, Visits, PortalInv, PortalTypeOK
<1>2. PICK now \in Nat : now = visits[v].now
  BY <1>1
<1>3. /\ clock <= now + Patience /\ now - LaunchAge <= LaunchDate /\ LaunchDate <= now + LaunchSkew
  BY <1>2 DEF PortalInv, TimelyInv
<1>4. /\ ~ (LaunchDate - LaunchSkew + ClaimLife <= clock)
      /\ LaunchDate - LaunchSkew + ClaimLife <= now + ClaimLife
      /\ now + ClaimLife \in Int /\ now + ClaimLife # -1
  BY ONLY <1>1, <1>3, LifetimesAssumption
<1> QED BY <1>2, <1>4 DEF Forgotten, ClaimUntil, NoClaim

(* A session is opened under the lock, for what has opened none.              *)
LEMMA IssueSessionKeeps ==
  ASSUME PortalInv, NEW v \in Visit, IssueSession(v) PROVE PortalInv'
<1>1. /\ Present(v) /\ Issues(v) /\ visits[v] \in Visits /\ visits[v].era = era
      /\ Ends(v) /\ Frees(v) /\ UNCHANGED <<clock, attempts, admitted, era>>
  BY VisitRecords DEF IssueSession, PortalInv, LockInv, Present, Issues
<1>2. PICK o \in Launch \cup Attempt : o = visits[v].origin
  BY <1>1 DEF Visits
<1>3. issued[o] = 0 /\ (o \in Launch => claims[o] = NoClaim)
  BY <1>1, <1>2, LaunchTimes DEF PortalInv, LaunchInv, AttemptInv
<1>4. /\ visits' \in [Visit -> {Away} \cup Visits] /\ locker' \in Visit \cup {NoVisit}
      /\ \A w \in Visit : Present(w)' => w # v /\ Present(w) /\ visits'[w] = visits[w]
      /\ LockInv' /\ TimelyInv'
  BY <1>1, VisitEnds
<1>5. /\ issued' \in [Launch \cup Attempt -> Nat] /\ issued'[o] \in {0, 1}
      /\ \A x \in Launch \cup Attempt : x # o => issued'[x] = issued[x]
  <2>1. issued \in [Launch \cup Attempt -> Nat]
    BY DEF PortalInv, PortalTypeOK
  <2>2. CASE visits[v].known
    BY <1>3, <2>1, <2>2 DEF IssueSession
  <2>3. CASE ~ visits[v].known
    <3>1. issued' = [issued EXCEPT ![o] = issued[o] + 1]
      BY <1>2, <2>3 DEF IssueSession
    <3>2. issued[o] + 1 = 1
      BY ONLY <1>3
    <3> QED BY <2>1, <3>1, <3>2
  <2> QED BY <2>2, <2>3
<1>6. /\ claims' \in [Launch -> Int]
      /\ o \in Launch => claims'[o] # NoClaim /\ Forgotten <= claims'[o]
      /\ \A l \in Launch : l # o => claims'[l] = claims[l]
  <2>1. claims' = IF o \in Launch THEN [claims EXCEPT ![o] = ClaimUntil(visits[v].now)] ELSE claims
    BY <1>2 DEF IssueSession
  <2>2. o \in Launch => /\ Forgotten <= ClaimUntil(visits[v].now)
                        /\ ClaimUntil(visits[v].now) \in Int /\ ClaimUntil(visits[v].now) # NoClaim
    BY <1>1, <1>2, LaunchTimes
  <2>3. claims \in [Launch -> Int]
    BY DEF PortalInv, PortalTypeOK
  <2> QED BY <2>1, <2>2, <2>3
<1>7. sessions' \in [Session -> {NoSession} \cup SessionRows] /\ DisabledStaysOut'
  <2>1. CASE visits[v].known
    BY <1>1, <2>1 DEF IssueSession, PortalInv, PortalTypeOK, DisabledStaysOut
  <2>2. CASE ~ visits[v].known
    <3>1. PICK s \in Session :
            sessions' = [sessions EXCEPT ![s] =
              [state |-> "valid", until |-> visits[v].now + SessionLife, era |-> visits[v].era]]
      BY <2>2 DEF IssueSession
    <3>2. PICK r : r = [state |-> "valid", until |-> visits[v].now + SessionLife, era |-> visits[v].era]
      OBVIOUS
    <3>3. visits[v].now + SessionLife \in Int
      <4>1. visits[v].now \in Nat
        BY <1>1 DEF Visits
      <4> QED BY ONLY <4>1, LifetimesAssumption
    <3>4. r \in SessionRows /\ r.era = era
      BY <1>1, <3>2, <3>3 DEF SessionRows, Visits
    <3> QED BY <1>1, <3>1, <3>2, <3>4 DEF PortalInv, PortalTypeOK, DisabledStaysOut
  <2> QED BY <2>1, <2>2
<1>8. PortalTypeOK'
  BY <1>1, <1>4, <1>5, <1>6, <1>7 DEF PortalInv, PortalTypeOK
<1>9. LaunchInv'
  <2>1. \A w \in Visit : ~ Issues(w)'
    BY <1>1, <1>4 DEF PortalInv, LockInv, Issues, Present
  <2>2. \A l \in Launch : l = o => issued'[l] <= 1
    BY <1>5
  <2> QED BY <1>1, <1>5, <1>6, <2>1, <2>2 DEF PortalInv, LaunchInv
<1>10. AttemptInv'
  <2>1. \A a \in Attempt : a = o => issued'[a] <= 1
    BY <1>5
  <2>2. o \in Attempt => ~ (attempts[o] = NotOpened \/ attempts[o].state = "open")
    BY <1>1, <1>2 DEF PortalInv, AttemptInv
  <2>3. o \in Attempt => \A w \in Visit : Present(w) /\ visits[w].origin = o => w = v
    BY <1>1, <1>2 DEF PortalInv, AttemptInv
  <2> QED BY <1>1, <1>4, <1>5, <2>1, <2>2, <2>3 DEF PortalInv, AttemptInv
<1> QED BY <1>4, <1>7, <1>8, <1>9, <1>10 DEF PortalInv

LEMMA LogoutKeeps ==
  ASSUME PortalInv, NEW s \in Session, Logout(s) PROVE PortalInv'
<1>1. /\ sessions' = [sessions EXCEPT ![s].state = "revoked"] /\ sessions[s].state = "valid"
      /\ UNCHANGED <<clock, claims, attempts, visits, locker, admitted, era, issued>>
  BY DEF Logout, Standing
<1>2. sessions[s] \in SessionRows /\ sessions \in [Session -> {NoSession} \cup SessionRows]
  BY <1>1 DEF PortalInv, PortalTypeOK, NoSession
<1>3. PICK r : r = [sessions[s] EXCEPT !.state = "revoked"]
  OBVIOUS
<1>4. r \in SessionRows /\ r.state = "revoked" /\ sessions' = [sessions EXCEPT ![s] = r]
  BY <1>1, <1>2, <1>3 DEF SessionRows
<1>5. PortalTypeOK' /\ DisabledStaysOut'
  BY <1>1, <1>2, <1>4 DEF PortalInv, PortalTypeOK, DisabledStaysOut
<1>6. LockInv' /\ TimelyInv' /\ LaunchInv' /\ AttemptInv'
  BY <1>1 DEF PortalInv, LockInv, TimelyInv, LaunchInv, AttemptInv, Issues, Present
<1> QED BY <1>5, <1>6 DEF PortalInv

(* Who is put out meanwhile: nobody has the lock, so nobody issues a session, *)
(* and whoever will has to read the new era.                                  *)
LEMMA DisableInvitationKeeps ==
  ASSUME PortalInv, DisableInvitation PROVE PortalInv'
<1>1. /\ locker = NoVisit /\ admitted' = FALSE /\ era' = era + 1 /\ era \in Nat
      /\ UNCHANGED <<clock, claims, attempts, visits, locker, issued>>
  BY DEF DisableInvitation, InvitationFree, CustomerFree, PortalInv, PortalTypeOK
<1>2. era' \in Nat
  BY ONLY <1>1
<1>3. \A w \in Visit : ~ Issues(w)
  BY <1>1, SignInAssumption DEF PortalInv, LockInv
<1>4. ASSUME NEW s \in Session
      PROVE  sessions'[s] \in {NoSession} \cup SessionRows /\ sessions'[s].state # "valid"
  <2>1. sessions[s] \in {NoSession} \cup SessionRows
    BY DEF PortalInv, PortalTypeOK
  <2>2. CASE sessions[s].state = "valid"
    <3>1. PICK r : r = [sessions[s] EXCEPT !.state = "revoked"]
      OBVIOUS
    <3>2. sessions[s] \in SessionRows
      BY <2>1, <2>2 DEF NoSession
    <3>3. r \in SessionRows /\ r.state = "revoked"
      BY <3>1, <3>2 DEF SessionRows
    <3> QED BY <2>2, <3>1, <3>3 DEF DisableInvitation
  <2>3. CASE sessions[s].state # "valid"
    BY <2>1, <2>3 DEF DisableInvitation
  <2> QED BY <2>2, <2>3
<1>5. PortalTypeOK'
  <2>1. sessions' \in [Session -> {NoSession} \cup SessionRows]
    BY <1>4 DEF DisableInvitation
  <2> QED BY <1>1, <1>2, <2>1 DEF PortalInv, PortalTypeOK
<1>6. LockInv' /\ TimelyInv' /\ LaunchInv' /\ AttemptInv'
  BY <1>1, <1>3 DEF PortalInv, LockInv, TimelyInv, LaunchInv, AttemptInv, Issues, Present
<1>7. DisabledStaysOut'
  BY <1>4 DEF DisabledStaysOut
<1> QED BY <1>5, <1>6, <1>7 DEF PortalInv

(* The cleanup forgets a claim when no fresh launch is left to present.       *)
LEMMA CleanupPortalKeeps ==
  ASSUME PortalInv, CleanupPortal PROVE PortalInv'
<1>1. UNCHANGED <<clock, visits, locker, admitted, era, issued>>
  BY DEF CleanupPortal
<1>2. ASSUME NEW l \in Launch
      PROVE  /\ claims'[l] \in Int
             /\ claims'[l] = claims[l] \/ (claims'[l] = NoClaim /\ claims[l] <= clock)
  <2>1. claims'[l] = IF claims[l] <= clock THEN NoClaim ELSE claims[l]
    BY DEF CleanupPortal
  <2>2. claims[l] \in Int /\ NoClaim \in Int
    BY DEF PortalInv, PortalTypeOK, NoClaim
  <2> QED BY <2>1, <2>2
<1>3. ASSUME NEW a \in Attempt
      PROVE  /\ attempts'[a] \in {NotOpened} \cup Opened
             /\ \/ attempts'[a] = attempts[a]
                \/ attempts'[a] # NotOpened /\ attempts'[a].state = "removed"
  <2>1. attempts[a] \in {NotOpened} \cup Opened
    BY DEF PortalInv, PortalTypeOK
  <2>2. PICK r : r = [attempts[a] EXCEPT !.state = "removed"]
    OBVIOUS
  <2>3. attempts'[a] = attempts[a] \/ (attempts[a] # NotOpened /\ attempts'[a] = r)
    BY <2>2 DEF CleanupPortal
  <2>4. attempts[a] # NotOpened => r \in Opened /\ r.state = "removed" /\ r # NotOpened
    BY <2>1, <2>2 DEF Opened, NotOpened
  <2> QED BY <2>1, <2>3, <2>4
<1>4. \A s \in Session : sessions'[s] = sessions[s] \/ sessions'[s] = NoSession
  BY DEF CleanupPortal
<1>5. PortalTypeOK'
  <2>1. claims' \in [Launch -> Int]
    BY <1>2 DEF CleanupPortal
  <2>2. attempts' \in [Attempt -> {NotOpened} \cup Opened]
    BY <1>3 DEF CleanupPortal
  <2>3. sessions' \in [Session -> {NoSession} \cup SessionRows]
    BY <1>4 DEF CleanupPortal, PortalInv, PortalTypeOK
  <2> QED BY <1>1, <2>1, <2>2, <2>3 DEF PortalInv, PortalTypeOK
<1>6. LaunchInv'
  <2>1. ASSUME NEW l \in Launch
        PROVE  /\ issued'[l] <= 1 /\ (claims'[l] # NoClaim => Forgotten <= claims'[l])
               /\ issued'[l] = 0 \/ claims'[l] # NoClaim \/ Forgotten <= clock'
    <3>1. CASE claims'[l] = claims[l]
      BY <1>1, <3>1 DEF PortalInv, LaunchInv
    <3>2. CASE claims'[l] = NoClaim /\ claims[l] <= clock /\ claims[l] # NoClaim
      <4>1. Forgotten <= claims[l] /\ claims[l] <= clock
        BY <3>2 DEF PortalInv, LaunchInv
      <4>2. Forgotten \in Int /\ claims[l] \in Int /\ clock \in Int
        BY LifetimesAssumption DEF Forgotten, PortalInv, PortalTypeOK
      <4>3. Forgotten <= clock
        BY ONLY <4>1, <4>2
      <4> QED BY <1>1, <3>2, <4>3 DEF PortalInv, LaunchInv
    <3> QED BY <1>2, <3>1, <3>2
  <2>2. \A w \in Visit : Issues(w)' /\ visits'[w].origin \in Launch => claims'[visits'[w].origin] = NoClaim
    BY <1>1, <1>2 DEF PortalInv, LaunchInv, Issues
  <2> QED BY <2>1, <2>2 DEF LaunchInv
<1>7. AttemptInv'
  BY <1>1, <1>3 DEF PortalInv, AttemptInv, Present
<1>8. LockInv' /\ TimelyInv'
  BY <1>1 DEF PortalInv, LockInv, TimelyInv, Issues, Present
<1>9. DisabledStaysOut'
  <2>1. NoSession.state # "valid"
    BY DEF NoSession
  <2> QED BY <1>1, <1>4, <2>1 DEF PortalInv, DisabledStaysOut
<1> QED BY <1>5, <1>6, <1>7, <1>8, <1>9 DEF PortalInv

(* Time passes while every request has patience left.                         *)
LEMMA TickPortalKeeps ==
  ASSUME PortalInv, TickPortal PROVE PortalInv'
<1>1. /\ clock' = clock + 1 /\ clock \in Nat
      /\ UNCHANGED <<claims, attempts, sessions, visits, locker, admitted, era, issued>>
  BY DEF TickPortal, PortalInv, PortalTypeOK
<1>2. clock' \in Nat
  BY ONLY <1>1
<1>3. PortalTypeOK'
  BY <1>1, <1>2 DEF PortalInv, PortalTypeOK
<1>4. LockInv' /\ AttemptInv' /\ DisabledStaysOut'
  BY <1>1 DEF PortalInv, LockInv, AttemptInv, DisabledStaysOut, Issues, Present
<1>5. TimelyInv'
  <2> SUFFICES ASSUME NEW v \in Visit, Present(v)
               PROVE  visits[v].now <= clock' /\ clock' <= visits[v].now + Patience
    BY <1>1 DEF PortalInv, TimelyInv, Present
  <2>1. PICK now \in Nat : now = visits[v].now
    BY DEF Present, Visits
  <2>2. now <= clock /\ clock < now + Patience
    BY <2>1, VisitRecords DEF TickPortal, PortalInv, TimelyInv
  <2>3. now <= clock' /\ clock' <= now + Patience
    BY ONLY <1>1, <2>2, LifetimesAssumption
  <2> QED BY <2>1, <2>3
<1>6. LaunchInv'
  <2>1. Forgotten <= clock => Forgotten <= clock'
    <3>1. Forgotten \in Int
      BY LifetimesAssumption DEF Forgotten
    <3> QED BY ONLY <1>1, <3>1
  <2> QED BY <1>1, <2>1 DEF PortalInv, LaunchInv, Issues
<1> QED BY <1>3, <1>4, <1>5, <1>6 DEF PortalInv

LEMMA NextPortalInv == PortalInv /\ [PortalNext]_portalVars => PortalInv'
<1>1. PortalInv /\ UNCHANGED portalVars => PortalInv'
  BY DEF portalVars, PortalInv, PortalTypeOK, LockInv, TimelyInv, LaunchInv, AttemptInv,
     DisabledStaysOut, Issues, Present
<1>2. ASSUME PortalInv, AdmitAgain PROVE PortalInv'
  BY <1>2 DEF AdmitAgain, PortalInv, PortalTypeOK, LockInv, TimelyInv, LaunchInv, AttemptInv,
     DisabledStaysOut, Issues, Present
<1>3. ASSUME PortalInv, NEW v \in Visit, CutVisit(v) PROVE PortalInv'
  BY <1>3, CutVisitKeeps DEF CutVisit
<1> QED BY <1>1, <1>2, <1>3, CreateLoginAttemptKeeps, PresentLaunchKeeps, ConsumeAttemptKeeps,
           ExchangeCodeKeeps, LockVisitorKeeps, IssueSessionKeeps, LogoutKeeps,
           DisableInvitationKeeps, CleanupPortalKeeps, TickPortalKeeps DEF PortalNext

(* For any number of visits, attempts, launches and sessions, any lifetimes   *)
(* and any wait for a row lock: the portal's inductive invariant holds.       *)
THEOREM PortalInductiveInvariant == PortalSpec => []PortalInv
<1>1. PortalInit => PortalInv
  <2> SUFFICES ASSUME PortalInit PROVE PortalInv
    OBVIOUS
  <2>1. \A v \in Visit : ~ Present(v) /\ ~ Issues(v)
    BY AwayIsNoVisit DEF PortalInit, Present, Issues
  <2>2. NoClaim \in Int /\ NoSession.state # "valid"
    BY DEF NoClaim, NoSession
  <2>3. PortalTypeOK
    BY <2>2 DEF PortalInit, PortalTypeOK
  <2>4. \A o \in Launch \cup Attempt : issued[o] = 0 /\ issued[o] <= 1
    BY DEF PortalInit
  <2>5. LockInv /\ TimelyInv /\ LaunchInv /\ AttemptInv
    BY <2>1, <2>4 DEF PortalInit, LockInv, TimelyInv, LaunchInv, AttemptInv
  <2>6. DisabledStaysOut
    BY <2>2 DEF PortalInit, DisabledStaysOut
  <2> QED BY <2>3, <2>5, <2>6 DEF PortalInv
<1>2. PortalInv /\ [PortalNext]_portalVars => PortalInv'
  BY NextPortalInv
<1> QED BY <1>1, <1>2, PTL DEF PortalSpec

(* However often a launch is presented or a callback opened, and whatever is  *)
(* cleaned up meanwhile: it opens one session at most, if a claim outlives    *)
(* the launch and the requests that carry it.                                 *)
THEOREM SignInOpensOnce == PortalSpec => []SignInOnce
<1>1. PortalInv => SignInOnce
  BY DEF PortalInv, LaunchInv, AttemptInv, SignInOnce
<1> QED BY <1>1, PortalInductiveInvariant, PTL

(* No session from before the invitation was disabled stands after it.        *)
THEOREM DisabledPersonStaysOut == PortalSpec => []DisabledStaysOut
<1>1. PortalInv => DisabledStaysOut
  BY DEF PortalInv
<1> QED BY <1>1, PortalInductiveInvariant, PTL
-----------------------------------------------------------------------------
(* The gate that opens the service                                            *)

(* The tables are locked for as long as the report is under way, so what it   *)
(* has read is what they hold.                                                *)
FleetRows ==
  [target: [ReadyPoint -> Int], proof: [ReadyPoint -> Int], probed: [ReadyPoint -> Int],
   healthy: [ReadyPoint -> BOOLEAN], filled: [ReadyPoint -> BOOLEAN],
   work: [ReadyPoint -> {"none", "attack", "control", "maintenance"}],
   watch: [passed: BOOLEAN, at: Int]]
ReadyInv ==
  /\ fleet \in FleetRows /\ minute \in Int
  /\ probe \in [on: SUBSET ReadyPoint, at: Int] \cup {NoProbe}
  /\ report # NoReport => report.seen = fleet

LEMMA NextReadyInv == ReadyInv /\ [ReadyNext]_readyVars => ReadyInv'
<1> SUFFICES ASSUME ReadyInv, [ReadyNext]_readyVars PROVE ReadyInv' OBVIOUS
<1>1. fleet \in FleetRows /\ minute \in Int BY DEF ReadyInv
<1>2. probe \in [on: SUBSET ReadyPoint, at: Int] \cup {NoProbe} BY DEF ReadyInv
<1>3. report # NoReport => report.seen = fleet BY DEF ReadyInv
<1>4. \A x : [step |-> "endpoints", seen |-> x] # NoReport /\ [step |-> "work", seen |-> x] # NoReport
  BY DEF NoReport
<1>5. CASE LockReadinessTables BY <1>1, <1>2, <1>5 DEF LockReadinessTables, ReadyInv
<1>6. CASE LoadEndpoints BY <1>1, <1>2, <1>6 DEF LoadEndpoints, ReadyInv
<1>7. CASE LoadWork
  <2>1. report # NoReport BY <1>7 DEF LoadWork, NoReport
  <2>2. [fleet EXCEPT !.work = fleet.work] = fleet BY <1>1 DEF FleetRows
  <2>3. report'.seen = fleet BY <1>3, <1>7, <2>1, <2>2 DEF LoadWork
  <2> QED BY <1>1, <1>2, <1>7, <2>3 DEF LoadWork, ReadyInv
<1>8. CASE CommitReadiness BY <1>1, <1>2, <1>8 DEF CommitReadiness, ReadyInv
<1>9. CASE MinutePasses BY <1>1, <1>2, <1>3, <1>9 DEF MinutePasses, ReadyInv
<1>10. CASE \E passed \in BOOLEAN : StoreObservations(passed)
  <2>1. PICK passed \in BOOLEAN : StoreObservations(passed) BY <1>10
  <2>2. [passed |-> passed, at |-> minute] \in [passed: BOOLEAN, at: Int] BY <1>1
  <2>3. fleet' \in FleetRows BY <1>1, <2>1, <2>2 DEF StoreObservations, FleetRows
  <2>4. report = NoReport BY <2>1 DEF StoreObservations, TablesFree
  <2> QED BY <1>1, <1>2, <2>1, <2>3, <2>4 DEF StoreObservations, ReadyInv
<1>11. ASSUME NEW e \in ReadyPoint, BeginProbe(e) PROVE ReadyInv'
  <2>1. probe' \in [on: SUBSET ReadyPoint, at: Int] BY <1>1, <1>11 DEF BeginProbe
  <2> QED BY <1>1, <1>3, <1>11, <2>1 DEF BeginProbe, ReadyInv
<1>12. ASSUME NEW e \in ReadyPoint, LandProbe(e) PROVE ReadyInv'
  <2>1. report = NoReport /\ UNCHANGED <<report, minute>> /\ probe' = NoProbe
    BY <1>12 DEF LandProbe, TablesFree
  <2>2. probe \in [on: SUBSET ReadyPoint, at: Int]
    <3>1. e \in probe.on BY <1>12 DEF LandProbe
    <3>2. probe # NoProbe BY <3>1 DEF NoProbe
    <3> QED BY <1>2, <3>2
  <2>3. PICK healthy \in BOOLEAN :
          \/ fleet' = fleet
          \/ fleet' = [fleet EXCEPT
               !.healthy[e] = healthy,
               !.probed[e] = IF healthy THEN probe.at ELSE @,
               !.proof[e] = IF fleet.proof[e] = fleet.target[e] THEN @ ELSE NoProof]
    BY <1>12 DEF LandProbe
  <2>4. NoProof \in Int BY DEF NoProof
  <2>5. fleet' \in FleetRows
    <3>1. PICK at \in Int : at = IF healthy THEN probe.at ELSE fleet.probed[e]
      BY <1>1, <2>2 DEF FleetRows
    <3>2. PICK proof \in Int :
            proof = IF fleet.proof[e] = fleet.target[e] THEN fleet.proof[e] ELSE NoProof
      BY <1>1, <2>4 DEF FleetRows
    <3>3. \/ fleet' = fleet
          \/ fleet' = [fleet EXCEPT !.healthy[e] = healthy, !.probed[e] = at, !.proof[e] = proof]
      BY <1>1, <2>3, <3>1, <3>2 DEF FleetRows
    <3>4. PICK h : h = [fleet.healthy EXCEPT ![e] = healthy] OBVIOUS
    <3>5. PICK b : b = [fleet.probed EXCEPT ![e] = at] OBVIOUS
    <3>6. PICK f : f = [fleet.proof EXCEPT ![e] = proof] OBVIOUS
    <3>7. /\ h \in [ReadyPoint -> BOOLEAN] /\ b \in [ReadyPoint -> Int]
          /\ f \in [ReadyPoint -> Int]
      BY <1>1, <3>4, <3>5, <3>6 DEF FleetRows
    <3>8. fleet' = fleet \/ fleet' = [fleet EXCEPT !.healthy = h, !.probed = b, !.proof = f]
      BY <1>1, <3>3, <3>4, <3>5, <3>6 DEF FleetRows
    <3> QED BY <1>1, <3>7, <3>8 DEF FleetRows
  <2> QED BY <1>1, <2>1, <2>5 DEF ReadyInv
<1>13. ASSUME NEW e \in ReadyPoint,
              \/ ConfirmExternal(e) \/ WorkEnds(e) \/ Reconfigure(e) \/ FillUp(e)
              \/ \E work \in {"control", "maintenance", "attack"} : WorkStarts(e, work)
       PROVE  ReadyInv'
  <2>1. report = NoReport /\ UNCHANGED <<report, minute, probe>>
    BY <1>13 DEF ConfirmExternal, WorkEnds, Reconfigure, FillUp, WorkStarts, TablesFree
  <2>2. CASE ConfirmExternal(e)
    <3>1. fleet' = [fleet EXCEPT !.proof[e] = fleet.target[e]]
      BY <2>2, <1>1 DEF ConfirmExternal, Change, FleetRows
    <3>2. fleet' \in FleetRows BY <1>1, <3>1 DEF FleetRows
    <3> QED BY <1>1, <1>2, <2>1, <3>2 DEF ReadyInv
  <2>3. CASE WorkEnds(e) \/ \E work \in {"control", "maintenance", "attack"} : WorkStarts(e, work)
    <3>1. PICK work \in {"none", "attack", "control", "maintenance"} :
            fleet' = [fleet EXCEPT !.work[e] = work]
      BY <2>3, <1>1 DEF WorkEnds, WorkStarts, Change, FleetRows
    <3>2. fleet' \in FleetRows BY <1>1, <3>1 DEF FleetRows
    <3> QED BY <1>1, <1>2, <2>1, <3>2 DEF ReadyInv
  <2>4. CASE Reconfigure(e)
    <3>1. PICK n : n = fleet.target[e] + 1 OBVIOUS
    <3>2. n \in Int BY <1>1, <3>1 DEF FleetRows
    <3>3. fleet' = [fleet EXCEPT !.target[e] = n]
      BY <2>4, <1>1, <3>1 DEF Reconfigure, Change, FleetRows
    <3>4. fleet' \in FleetRows BY <1>1, <3>2, <3>3 DEF FleetRows
    <3> QED BY <1>1, <1>2, <2>1, <3>4 DEF ReadyInv
  <2>5. CASE FillUp(e)
    <3>1. PICK b \in BOOLEAN : fleet' = [fleet EXCEPT !.filled[e] = b]
      BY <2>5, <1>1 DEF FillUp, Change, FleetRows
    <3>2. fleet' \in FleetRows BY <1>1, <3>1 DEF FleetRows
    <3> QED BY <1>1, <1>2, <2>1, <3>2 DEF ReadyInv
  <2> QED BY <1>13, <2>2, <2>3, <2>4, <2>5
<1>14. CASE UNCHANGED readyVars BY <1>1, <1>2, <1>3, <1>14 DEF readyVars, ReadyInv
<1> QED BY <1>5, <1>6, <1>7, <1>8, <1>9, <1>10, <1>11, <1>12, <1>13, <1>14 DEF ReadyNext

(* commit_vpn_release_readiness reads one table after the other, yet the      *)
(* service is opened only on rows that were true all at once, because it      *)
(* locked the tables first; for any endpoints, ages and changes.              *)
THEOREM ServiceOpensOnTruth == ReadySpec => OpenedOnTruth
<1>1. ReadyInit => ReadyInv
  <2> SUFFICES ASSUME ReadyInit PROVE ReadyInv OBVIOUS
  <2>1. NoProof \in Int BY DEF NoProof
  <2>2. fleet \in FleetRows BY <2>1 DEF ReadyInit, FleetRows
  <2> QED BY <2>2 DEF ReadyInit, ReadyInv
<1>2. ReadyInv /\ [ReadyNext]_readyVars => ReadyInv' BY NextReadyInv
<1>3. ReadyInv /\ [ReadyNext]_readyVars
      => (marker' /\ ~marker => Ready(fleet, report.now))
  <2> SUFFICES ASSUME ReadyInv, [ReadyNext]_readyVars, marker', ~marker
               PROVE  Ready(fleet, report.now)
    OBVIOUS
  <2>1. CommitReadiness
    BY DEF ReadyNext, readyVars, LockReadinessTables, LoadEndpoints, LoadWork, MinutePasses,
       StoreObservations, BeginProbe, LandProbe, ConfirmExternal, WorkEnds, Reconfigure, FillUp,
       WorkStarts
  <2>2. report # NoReport BY <2>1 DEF CommitReadiness, NoReport
  <2>3. report.seen = fleet BY <2>2 DEF ReadyInv
  <2> QED BY <2>1, <2>3 DEF CommitReadiness
<1> QED BY <1>1, <1>2, <1>3, PTL DEF ReadySpec, OpenedOnTruth
=============================================================================
