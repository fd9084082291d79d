---------------------------- MODULE PortalSessions ----------------------------
(* Sign-in to the customer portal (services/vpn_portal_auth.py and the routes *)
(* api/routes/vpn_portal.py) of one person: a signed Mini App launch is       *)
(* exchanged for a session, a browser login consumes its attempt and then     *)
(* asks Telegram. Requests run concurrently and keep the time they began at;  *)
(* launches can be replayed; expired rows are cleaned up; a disabled friend's *)
(* invitation revokes the sessions.                                           *)
EXTENDS Integers, FiniteSets

CONSTANTS Launch, Attempt, Visit, Session, NoVisit, LaunchDate, MaxClock,
          LaunchAge, LaunchSkew, ClaimLife, AttemptLife, SessionLife, Patience

\* Five minutes, half a minute, ten minutes; and no request outlives what is left of them.
ASSUME LifetimesAssumption ==
  /\ LaunchDate \in Int
  /\ {LaunchAge, LaunchSkew, ClaimLife, AttemptLife, SessionLife, Patience} \subseteq Nat
  /\ LaunchAge + LaunchSkew + Patience < ClaimLife
ASSUME SignInAssumption == NoVisit \notin Visit /\ Launch \cap Attempt = {}

VARIABLES clock, claims, attempts, sessions, visits, locker, admitted, era, issued
portalVars == <<clock, claims, attempts, sessions, visits, locker, admitted, era, issued>>

NoClaim == -1
NotOpened == [state |-> "new"]
NoSession == [state |-> "none"]
Away == [step |-> "away"]
Standing(s) == IF sessions[s].state = "valid" THEN sessions[s].until > clock ELSE FALSE
FreshLaunch(l) == clock - LaunchAge <= LaunchDate /\ LaunchDate <= clock + LaunchSkew
Goes(v, step) == visits' = [visits EXCEPT ![v].step = step]
Ends(v) == visits' = [visits EXCEPT ![v] = Away]
Frees(v) == locker' = IF locker = v THEN NoVisit ELSE locker

(********************************** requests **********************************)
CreateLoginAttempt(a) ==
  /\ attempts[a] = NotOpened
  /\ attempts' = [attempts EXCEPT ![a] = [state |-> "open", until |-> clock + AttemptLife]]
  /\ UNCHANGED <<clock, claims, sessions, visits, locker, admitted, era, issued>>

\* exchange_mini_app_session up to its first lock: a claimed launch opens no session.
PresentLaunch(v, l, known) ==
  /\ visits[v] = Away /\ FreshLaunch(l) /\ admitted /\ claims[l] = NoClaim
  /\ known => \E s \in Session : Standing(s)
  /\ visits' = [visits EXCEPT ![v] = [step |-> "lock", origin |-> l, now |-> clock,
                                      known |-> known, era |-> era]]
  /\ UNCHANGED <<clock, claims, attempts, sessions, locker, admitted, era, issued>>

\* telegram_callback: the attempt is consumed and committed before Telegram is asked.
ConsumeAttempt(v, a) ==
  /\ visits[v] = Away /\ attempts[a].state = "open" /\ attempts[a].until > clock
  /\ attempts' = [attempts EXCEPT ![a].state = "consumed"]
  /\ visits' = [visits EXCEPT ![v] = [step |-> "exchange", origin |-> a, now |-> clock,
                                      known |-> FALSE, era |-> era]]
  /\ UNCHANGED <<clock, claims, sessions, locker, admitted, era, issued>>
ExchangeCode(v) ==
  /\ visits[v].step = "exchange" /\ (Goes(v, "lock") \/ Ends(v))
  /\ UNCHANGED <<clock, claims, attempts, sessions, locker, admitted, era, issued>>

\* resolve_telegram_customer locks the person; admission is asked again under the lock,
\* and the claim's digest is unique.
CustomerFree == locker = NoVisit
LockVisitor(v) ==
  LET o == visits[v].origin
  IN  /\ visits[v].step = "lock" /\ CustomerFree
      /\ IF admitted /\ (o \in Launch => claims[o] = NoClaim)
         THEN /\ locker' = v
              /\ visits' = [visits EXCEPT ![v].step = "issue", ![v].era = era]
         ELSE Ends(v) /\ UNCHANGED locker
      /\ UNCHANGED <<clock, claims, attempts, sessions, admitted, era, issued>>

\* Mutant of ClaimUntil: the claim lives as long as a launch is fresh after it.
ClaimAsLaunch(now) == now + LaunchAge
ClaimUntil(now) == now + ClaimLife
IssueSession(v) ==
  LET visit == visits[v]
      o == visit.origin
  IN  /\ visits[v].step = "issue" /\ Ends(v) /\ Frees(v)
      /\ claims' = IF o \in Launch THEN [claims EXCEPT ![o] = ClaimUntil(visit.now)] ELSE claims
      /\ IF visit.known THEN UNCHANGED <<sessions, issued>>
         ELSE /\ issued' = [issued EXCEPT ![o] = @ + 1]
              /\ \E s \in Session :
                   /\ sessions[s] = NoSession
                   /\ sessions' = [sessions EXCEPT ![s] =
                        [state |-> "valid", until |-> visit.now + SessionLife, era |-> visit.era]]
      /\ UNCHANGED <<clock, attempts, admitted, era>>

\* An error, a refusal of Telegram, a dead process: what was not committed is undone.
CutVisit(v) ==
  /\ visits[v] # Away /\ Ends(v) /\ Frees(v)
  /\ UNCHANGED <<clock, claims, attempts, sessions, admitted, era, issued>>

Logout(s) ==
  /\ Standing(s) /\ sessions' = [sessions EXCEPT ![s].state = "revoked"]
  /\ UNCHANGED <<clock, claims, attempts, visits, locker, admitted, era, issued>>

(************************** others, cleanup and time **************************)
\* Mutant of InvitationFree: the invitation is disabled without the customer's lock.
InvitationAlways == TRUE
InvitationFree == CustomerFree
\* disable_friend_invitation stages a revocation under the customer's lock first.
DisableInvitation ==
  /\ admitted /\ InvitationFree /\ era = 0 /\ admitted' = FALSE /\ era' = era + 1
  /\ sessions' = [s \in Session |-> IF sessions[s].state = "valid"
                                    THEN [sessions[s] EXCEPT !.state = "revoked"] ELSE sessions[s]]
  /\ UNCHANGED <<clock, claims, attempts, visits, locker, issued>>
\* The allow list or a subscription lets the person in again.
AdmitAgain ==
  /\ ~admitted /\ admitted' = TRUE
  /\ UNCHANGED <<clock, claims, attempts, sessions, visits, locker, era, issued>>

CleanupPortal ==
  /\ claims' = [l \in Launch |-> IF claims[l] <= clock THEN NoClaim ELSE claims[l]]
  /\ attempts' = [a \in Attempt |->
       IF attempts[a] = NotOpened THEN NotOpened
       ELSE IF attempts[a].until <= clock THEN [attempts[a] EXCEPT !.state = "removed"]
       ELSE attempts[a]]
  /\ sessions' = [s \in Session |->
       IF sessions[s] = NoSession THEN NoSession
       ELSE IF sessions[s].until <= clock THEN NoSession ELSE sessions[s]]
  /\ UNCHANGED <<clock, visits, locker, admitted, era, issued>>
TickPortal ==
  /\ clock < MaxClock /\ clock' = clock + 1
  /\ \A v \in Visit : visits[v] # Away => clock < visits[v].now + Patience
  /\ UNCHANGED <<claims, attempts, sessions, visits, locker, admitted, era, issued>>

PortalInit ==
  /\ clock = 0 /\ claims = [l \in Launch |-> NoClaim] /\ attempts = [a \in Attempt |-> NotOpened]
  /\ sessions = [s \in Session |-> NoSession] /\ visits = [v \in Visit |-> Away]
  /\ locker = NoVisit /\ admitted = TRUE /\ era = 0 /\ issued = [o \in Launch \cup Attempt |-> 0]
PortalNext ==
  \/ \E a \in Attempt : CreateLoginAttempt(a)
  \/ \E v \in Visit : \/ \E l \in Launch, known \in BOOLEAN : PresentLaunch(v, l, known)
                      \/ \E a \in Attempt : ConsumeAttempt(v, a)
                      \/ ExchangeCode(v) \/ LockVisitor(v) \/ IssueSession(v) \/ CutVisit(v)
  \/ \E s \in Session : Logout(s)
  \/ DisableInvitation \/ AdmitAgain \/ CleanupPortal \/ TickPortal
PortalSpec == PortalInit /\ [][PortalNext]_portalVars

(* A sign-in is good once: however often a launch is presented or a callback  *)
(* opened, at the same time or after the rows that remember it were cleaned   *)
(* up, it opens one session at most (verify_mini_app, consume_login_attempt,  *)
(* exchange_mini_app_session, cleanup_expired_portal_auth).                   *)
SignInOnce == \A o \in Launch \cup Attempt : issued[o] <= 1

(* Who was put out stays out: once an invitation is disabled, no session that *)
(* was opened before stands, not even one that was being issued meanwhile     *)
(* (disable_friend_invitation, issue_session).                                *)
DisabledStaysOut ==
  \A s \in Session : sessions[s].state = "valid" => sessions[s].era = era
=============================================================================
