----------------------------- MODULE MCCustomers -----------------------------
(* What customers meet: getting access, signing in, being told that a key is  *)
(* ready, and the endpoints the control process opens to them. The part       *)
(* chosen at the start runs by itself, the others stay where they begin: the  *)
(* state spaces add up, and nothing is said of two parts together.            *)
EXTENDS TrialAccess, PortalSessions, ReadyNotices, ReleaseReadiness, TLC

CONSTANTS a1, a2, b1, b2, c1, c2

VARIABLE part \* the part that runs

Stays(name, vars) == IF part = name THEN TRUE ELSE UNCHANGED vars
Others ==
  /\ Stays("access", accessVars) /\ Stays("portal", portalVars)
  /\ Stays("notices", noticeVars) /\ Stays("readiness", readyVars) /\ UNCHANGED part

CustomersInit ==
  /\ part \in {"access", "portal", "notices", "readiness"}
  /\ AccessInit /\ PortalInit /\ NoticeInit /\ ReadyInit
CustomersNext ==
  /\ \/ part = "access" /\ AccessNext
     \/ part = "portal" /\ PortalNext
     \/ part = "notices" /\ NoticeNext
     \/ part = "readiness" /\ ReadyNext
  /\ Others

(* Only the part that runs tells two states apart. *)
CustomersView ==
  CASE part = "access" -> <<part, accessVars>>
    [] part = "portal" -> <<part, portalVars>>
    [] part = "notices" -> <<part, noticeVars>>
    [] part = "readiness" -> <<part, readyVars>>
Symmetry == Permutations({a1, a2}) \cup Permutations({b1, b2}) \cup Permutations({c1, c2})
=============================================================================
