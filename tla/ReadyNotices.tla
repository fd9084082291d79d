----------------------------- MODULE ReadyNotices -----------------------------
(* Telling a customer that a profile is ready                                 *)
(* (services/vpn_ready_notifications.py, run by every control process, one at *)
(* a time): a key is claimed and committed, Telegram is asked, the outcome is *)
(* recorded if the claim is still the same. Telegram may deliver a message    *)
(* whose answer comes too late, and a process may end at any time, or stall   *)
(* and go on after another one has taken its claim over.                      *)
EXTENDS Integers, FiniteSets

CONSTANTS Notified, Teller, ClaimTime, SendTime, RecordTime, StaleClaim, Backoff,
          MaxMoments, MaxStalled

\* Nobody is overtaken without a stall: half a minute for Telegram, two for a claim.
ASSUME StaleClaimAssumption ==
  /\ {ClaimTime, SendTime, RecordTime, StaleClaim, Backoff} \subseteq Nat
  /\ ClaimTime + SendTime + RecordTime < StaleClaim

VARIABLES moment,  \* the clock
          notices, \* of a key: claimed_at, retry_at, notified, and whether it may be told
          tellers, \* what each process does
          stalled, \* senders whose time is not kept, and what they still may do
          sent,    \* messages the customer got
          unsure   \* of these, those whose sender ended, stalled or did not hear of it
noticeVars == <<moment, notices, tellers, stalled, sent, unsure>>

Unclaimed == -1
Resting == [step |-> "rest"]
Claimable(k, now) ==
  notices[k].claimed = Unclaimed \/ notices[k].claimed <= now - StaleClaim

\* deliver_next_ready_notice takes the time before it asks for a row.
WakeTeller(p) ==
  /\ tellers[p] = Resting /\ tellers' = [tellers EXCEPT ![p] = [step |-> "claim", now |-> moment]]
  /\ UNCHANGED <<moment, notices, stalled, sent, unsure>>
\* claim_ready_notice and its commit; rows that others hold are skipped.
ClaimNotice(p) ==
  LET now == tellers[p].now
      due == {k \in Notified : /\ notices[k].ready /\ ~notices[k].told /\ Claimable(k, now)
                               /\ notices[k].retry <= now}
  IN  /\ tellers[p].step = "claim"
      /\ \/ \E k \in due :
              /\ notices' = [notices EXCEPT ![k].claimed = now]
              /\ tellers' = [tellers EXCEPT ![p] = [step |-> "send", now |-> now, key |-> k,
                                                    since |-> moment, arrived |-> FALSE]]
         \/ due = {} /\ tellers' = [tellers EXCEPT ![p] = Resting] /\ UNCHANGED notices
      /\ UNCHANGED <<moment, stalled, sent, unsure>>
Arrives(p) ==
  /\ tellers[p].step = "send" /\ ~tellers[p].arrived
  /\ tellers' = [tellers EXCEPT ![p].arrived = TRUE]
  /\ sent' = [sent EXCEPT ![tellers[p].key] = @ + 1]
  /\ UNCHANGED <<moment, notices, stalled, unsure>>
Records(p, step) == [tellers EXCEPT ![p].step = step, ![p].since = moment]
Answered(p) ==
  /\ tellers[p].step = "send" /\ tellers[p].arrived /\ tellers' = Records(p, "success")
  /\ UNCHANGED <<moment, notices, stalled, sent, unsure>>
\* An error of Telegram, or half a minute without an answer.
Unanswered(p) ==
  /\ tellers[p].step = "send" /\ tellers' = Records(p, "failure")
  /\ unsure' = [unsure EXCEPT ![tellers[p].key] = IF tellers[p].arrived THEN @ + 1 ELSE @]
  /\ UNCHANGED <<moment, notices, stalled, sent>>

\* The outcome, where the claim is still the sender's own.
Own(k, now) == notices[k].claimed = now /\ ~notices[k].told
Succeeded(k, now) ==
  IF ~Own(k, now) THEN notices
  ELSE [notices EXCEPT ![k].claimed = Unclaimed, ![k].told = TRUE, ![k].retry = 0]
Put(k) == [notices EXCEPT ![k].claimed = Unclaimed, ![k].retry = moment + Backoff]
\* Mutant of Failed: a failure is recorded whoever has the claim by now.
FailedAnyway(k, now) == IF notices[k].told THEN notices ELSE Put(k)
Failed(k, now) == IF ~Own(k, now) THEN notices ELSE Put(k)
RecordNotice(p) ==
  LET k == tellers[p].key
      now == tellers[p].now
  IN  /\ \/ tellers[p].step = "success" /\ notices' = Succeeded(k, now)
         \/ tellers[p].step = "failure" /\ notices' = Failed(k, now)
      /\ tellers' = [tellers EXCEPT ![p] = Resting] /\ UNCHANGED <<moment, stalled, sent, unsure>>

\* A sender leaves the time it has; whether its message arrives is unsure from here.
Leaves(p) ==
  /\ tellers' = [tellers EXCEPT ![p] = Resting]
  /\ unsure' = IF tellers[p].step = "claim" THEN unsure
               ELSE [unsure EXCEPT ![tellers[p].key] =
                       IF tellers[p].step # "failure" /\ tellers[p].arrived THEN @ + 1 ELSE @]
\* shutdown cancels the task, or the process dies: the claim stays.
EndTeller(p) ==
  /\ tellers[p] # Resting /\ Leaves(p)
  /\ UNCHANGED <<moment, notices, stalled, sent>>
\* The process, its connection or its commit hangs for as long as it likes.
StallTeller(p) ==
  /\ tellers[p].step \in {"send", "success", "failure"} /\ Cardinality(stalled) < MaxStalled
  /\ stalled' = stalled \cup {[key |-> tellers[p].key, now |-> tellers[p].now,
                               step |-> tellers[p].step, arrived |-> tellers[p].arrived]}
  /\ Leaves(p)
  /\ UNCHANGED <<moment, notices, sent>>
StalledArrives(g) ==
  /\ g.step = "send" /\ ~g.arrived
  /\ stalled' = (stalled \ {g}) \cup {[g EXCEPT !.arrived = TRUE]}
  /\ sent' = [sent EXCEPT ![g.key] = @ + 1] /\ unsure' = [unsure EXCEPT ![g.key] = @ + 1]
  /\ UNCHANGED <<moment, notices, tellers>>
StalledEnds(g) ==
  /\ \/ g.step # "failure" /\ g.arrived /\ notices' = Succeeded(g.key, g.now)
     \/ g.step # "success" /\ notices' = Failed(g.key, g.now)
     \/ UNCHANGED notices
  /\ stalled' = stalled \ {g} /\ UNCHANGED <<moment, tellers, sent, unsure>>

\* The key is suspended, the subscription runs out, or either comes back.
ChangeNotice(k) ==
  /\ notices' = [notices EXCEPT ![k].ready = ~@]
  /\ UNCHANGED <<moment, tellers, stalled, sent, unsure>>
MomentPasses ==
  /\ moment < MaxMoments /\ moment' = moment + 1
  /\ \A p \in Teller :
       CASE tellers[p].step = "claim" -> moment < tellers[p].now + ClaimTime
         [] tellers[p].step = "send" -> moment < tellers[p].since + SendTime
         [] tellers[p].step \in {"success", "failure"} -> moment < tellers[p].since + RecordTime
         [] OTHER -> TRUE
  /\ UNCHANGED <<notices, tellers, stalled, sent, unsure>>

NoticeInit ==
  /\ moment = 0 /\ sent = [k \in Notified |-> 0] /\ unsure = [k \in Notified |-> 0]
  /\ notices = [k \in Notified |-> [ready |-> TRUE, claimed |-> Unclaimed, retry |-> 0,
                                    told |-> FALSE]]
  /\ tellers = [p \in Teller |-> Resting] /\ stalled = {}
NoticeNext ==
  \/ \E p \in Teller : \/ WakeTeller(p) \/ ClaimNotice(p) \/ Arrives(p) \/ Answered(p)
                       \/ Unanswered(p) \/ RecordNotice(p) \/ EndTeller(p) \/ StallTeller(p)
  \/ \E g \in stalled : StalledArrives(g) \/ StalledEnds(g)
  \/ \E k \in Notified : ChangeNotice(k)
  \/ MomentPasses
NoticeSpec == NoticeInit /\ [][NoticeNext]_noticeVars

(* A customer hears once: a second message about a profile is only sent when  *)
(* nobody heard in time that an earlier one arrived, whatever processes       *)
(* overlap, however claims go stale and whatever a sender that was overtaken  *)
(* still records (claim_ready_notice, deliver_next_ready_notice).             *)
NoticeOnce == \A k \in Notified : sent[k] <= 1 + unsure[k]
=============================================================================
