---------------------------- MODULE NodeOnboarding ----------------------------
(* Onboarding of a VPN node: a job prepares the node, ensures one inbound and *)
(* stages its endpoint; an administrator takes a test profile and confirms    *)
(* it; the fleet probe looks at the endpoint meanwhile. Job, test profile and *)
(* confirmation hold the worker's row from their first step to their commit   *)
(* (`desk` is the holder); a rollback keeps what was done on the node.        *)
EXTENDS Naturals

CONSTANTS OnboardJob, PublicKey, NoPublicKey, MaxTurns, MaxKicks

VARIABLES site,    \* the node: inbound's key, its clients, whether it answers
          staged,  \* the endpoint's row
          runtime, \* the worker's vpn_runtime_status
          onboarding, kicks, failing,  \* job rows, background tasks, failures to write
          settled, \* app settings: test marker, evidence, release marker
          failedLast, \* the job's failure is newer than the endpoint's row
          desk,    \* the transaction that holds the worker's row
          turns    \* outages, rebuilt nodes and control restarts (a bound)
onboardVars == <<site, staged, runtime, onboarding, kicks, failing, settled, failedLast, desk, turns>>

NoEndpointRow == [status |-> "absent", key |-> NoPublicKey, error |-> FALSE]
FreeDesk == [step |-> "free"]
Idle == desk = FreeDesk
OnboardActive == \E j \in OnboardJob : onboarding[j] = "queued"
NodeKept == UNCHANGED <<site, turns>>
RowsKept == UNCHANGED <<staged, runtime, onboarding, settled, failedLast>>
TasksKept == UNCHANGED <<kicks, failing>>

OnboardView ==
  CASE OnboardActive -> "queued"
    [] ~OnboardActive /\ staged.status = "ready" -> "ready"
    [] ~OnboardActive /\ staged.status = "staged" ->
         IF failedLast \/ staged.error THEN "failed" ELSE "awaiting_test"
    [] OTHER -> IF failedLast THEN "failed" ELSE "ready_to_start"

(********************************** the job ***********************************)
StartOnboarding ==
  /\ Idle /\ UNCHANGED <<staged, runtime, settled, failedLast, failing, desk>> /\ NodeKept
  /\ \/ \E j \in OnboardJob :
          /\ onboarding[j] = "queued" /\ kicks[j] < MaxKicks
          /\ kicks' = [kicks EXCEPT ![j] = @ + 1] /\ UNCHANGED onboarding
     \/ /\ OnboardView \notin {"queued", "awaiting_test", "ready"}
        /\ \E j \in OnboardJob : /\ onboarding[j] = "none" /\ onboarding' = [onboarding EXCEPT ![j] = "queued"]
                                 /\ kicks' = [kicks EXCEPT ![j] = 1]

\* The background task: a failed job that still has a task is run once more.
TakeOnboarding(j) ==
  LET another == \E k \in OnboardJob \ {j} : onboarding[k] = "queued"
      served == staged.status = "ready" /\ ~staged.error
  IN  /\ Idle /\ kicks[j] > 0 /\ kicks' = [kicks EXCEPT ![j] = @ - 1]
      /\ NodeKept /\ UNCHANGED <<staged, runtime, settled, failedLast>>
      /\ \/ onboarding[j] = "succeeded" /\ UNCHANGED <<onboarding, failing, desk>>
         \/ /\ onboarding[j] # "succeeded" /\ served
            /\ onboarding' = [onboarding EXCEPT ![j] = "succeeded"] /\ UNCHANGED <<failing, desk>>
         \/ /\ onboarding[j] # "succeeded" /\ ~served /\ UNCHANGED onboarding
            /\ \/ another /\ failing' = failing \cup {j} /\ UNCHANGED desk
               \/ ~another /\ desk' = [step |-> "prepare", job |-> j] /\ UNCHANGED failing

\* A failed step rolls the job back; its failure is written by a transaction of its own.
OnboardFails ==
  desk' = FreeDesk /\ failing' = failing \cup {desk.job} /\ UNCHANGED kicks /\ RowsKept
OnboardGoes(step) ==
  desk' = [desk EXCEPT !.step = step] /\ TasksKept /\ RowsKept

\* Bootstrap, deployment of the node helper and of the endpoint helper.
PrepareNode ==
  /\ desk.step = "prepare" /\ NodeKept
  /\ OnboardGoes("ensure") \/ OnboardFails

\* execute_endpoint_action: whatever goes wrong leaves the caller uncertain.
EnsureInbound ==
  /\ desk.step = "ensure" /\ UNCHANGED turns
  /\ \/ /\ site.inbound = NoPublicKey
        /\ \E k \in PublicKey : site' = [site EXCEPT !.inbound = k]
        /\ OnboardGoes("stage") \/ OnboardGoes("inspect")
     \/ /\ site.inbound # NoPublicKey /\ site.clients = {} /\ OnboardGoes("stage") /\ UNCHANGED site
     \/ OnboardGoes("inspect") /\ UNCHANGED site
InspectInbound ==
  /\ desk.step = "inspect" /\ NodeKept
  /\ \/ site.inbound # NoPublicKey /\ site.clients = {} /\ OnboardGoes("stage")
     \/ OnboardFails

\* stage_protected_endpoint, the health check and the job's commit.
StageEndpoint ==
  LET known == staged.status # "absent"
      ready == staged.status = "ready"
  IN  /\ desk.step = "stage" /\ NodeKept
      /\ \/ /\ site.up /\ site.inbound # NoPublicKey /\ (known => staged.key = site.inbound)
            /\ staged' = [status |-> IF ready THEN "ready" ELSE "staged",
                          key |-> site.inbound, error |-> FALSE]
            /\ runtime' = IF ready THEN "ready" ELSE "awaiting_test"
            /\ onboarding' = [onboarding EXCEPT ![desk.job] = "succeeded"]
            /\ failedLast' = FALSE /\ desk' = FreeDesk /\ UNCHANGED settled /\ TasksKept
         \/ OnboardFails

PersistFailure(j) ==
  /\ Idle /\ j \in failing /\ failing' = failing \ {j}
  /\ NodeKept /\ UNCHANGED <<staged, kicks, settled, desk>>
  /\ \/ onboarding[j] = "succeeded" /\ UNCHANGED <<onboarding, runtime, failedLast>>
     \/ /\ onboarding[j] # "succeeded" /\ onboarding' = [onboarding EXCEPT ![j] = "failed"]
        /\ runtime' = "error" /\ failedLast' = TRUE

(************************ test profile and confirmation ***********************)
\* _lock_acceptance_context and the two checks that follow it.
AcceptanceOpen ==
  /\ Idle /\ ~OnboardActive /\ staged.status = "staged" /\ ~staged.error
  /\ runtime = "awaiting_test"

TestProfile ==
  /\ AcceptanceOpen /\ settled.marker \in {NoPublicKey, staged.key}
  /\ desk' = [step |-> "add"] /\ NodeKept /\ RowsKept /\ TasksKept
AddTestClient ==
  /\ desk.step = "add" /\ desk' = FreeDesk
  /\ TasksKept /\ UNCHANGED <<staged, runtime, onboarding, failedLast, turns>>
  /\ \/ /\ site.inbound = staged.key /\ site.clients \subseteq {"test"}
        /\ site' = [site EXCEPT !.clients = {"test"}]
        /\ settled' \in {settled, [settled EXCEPT !.marker = staged.key]}
     \/ UNCHANGED <<site, settled>>

ConfirmProfile ==
  /\ AcceptanceOpen /\ settled.marker = staged.key
  /\ desk' = [step |-> "remove"] /\ NodeKept /\ RowsKept /\ TasksKept
\* Mutant of RemoveTestClient: the client is left for a later cleanup.
RemoveNoClient ==
  /\ desk.step = "remove" /\ desk' = [step |-> "promote"]
  /\ UNCHANGED <<site, turns>> /\ RowsKept /\ TasksKept
RemoveTestClient ==
  /\ desk.step = "remove" /\ UNCHANGED turns /\ RowsKept /\ TasksKept
  /\ \/ /\ site.inbound = staged.key /\ site.clients \subseteq {"test"}
        /\ site' = [site EXCEPT !.clients = {}]
        /\ desk' \in {[step |-> "promote"], FreeDesk}
     \/ desk' = FreeDesk /\ UNCHANGED site
PromoteEndpoint ==
  /\ desk.step = "promote" /\ desk' = FreeDesk
  /\ NodeKept /\ TasksKept /\ UNCHANGED <<onboarding, failedLast>>
  /\ \/ /\ site.up /\ site.inbound = staged.key
        /\ staged' = [staged EXCEPT !.status = "ready", !.error = FALSE]
        /\ runtime' = "ready"
        /\ settled' = [settled EXCEPT !.evidence = staged.key, !.release = TRUE]
     \/ UNCHANGED <<staged, runtime, settled>>

(***************************** probe and surroundings *************************)
ProbeEndpoint ==
  /\ Idle /\ ~OnboardActive /\ staged.status # "absent"
  /\ UNCHANGED <<onboarding, settled, desk>> /\ NodeKept /\ TasksKept
  /\ failedLast' = FALSE
  /\ \/ /\ site.up /\ site.inbound = staged.key
        /\ staged' = [staged EXCEPT !.error = FALSE] /\ runtime' = "ready"
     \/ staged' = [staged EXCEPT !.error = TRUE] /\ runtime' = "error"

\* A customer's key on a ready endpoint; the queue's part is in VpnControlQueue.
CustomerJoins ==
  /\ staged.status = "ready" /\ site.inbound = staged.key
  /\ site' = [site EXCEPT !.clients = @ \cup {"customer"}]
  /\ UNCHANGED <<staged, runtime, onboarding, kicks, failing, settled, failedLast, desk, turns>>
NodeChanges ==
  /\ turns < MaxTurns /\ turns' = turns + 1
  /\ site' \in {[site EXCEPT !.up = ~@], [inbound |-> NoPublicKey, clients |-> {}, up |-> site.up]}
  /\ UNCHANGED <<staged, runtime, onboarding, kicks, failing, settled, failedLast, desk>>
ControlRestarts ==
  /\ turns < MaxTurns /\ turns' = turns + 1
  /\ kicks' = [j \in OnboardJob |-> 0] /\ failing' = {} /\ desk' = FreeDesk
  /\ UNCHANGED site /\ RowsKept

OnboardInit ==
  /\ site = [inbound |-> NoPublicKey, clients |-> {}, up |-> TRUE] /\ staged = NoEndpointRow
  /\ runtime = "unknown" /\ onboarding = [j \in OnboardJob |-> "none"]
  /\ kicks = [j \in OnboardJob |-> 0] /\ failing = {} /\ failedLast = FALSE
  /\ settled = [marker |-> NoPublicKey, evidence |-> NoPublicKey, release |-> FALSE]
  /\ desk = FreeDesk /\ turns = 0
OnboardNext ==
  \/ StartOnboarding \/ \E j \in OnboardJob : TakeOnboarding(j) \/ PersistFailure(j)
  \/ PrepareNode \/ EnsureInbound \/ InspectInbound \/ StageEndpoint
  \/ TestProfile \/ AddTestClient \/ ConfirmProfile \/ RemoveTestClient \/ PromoteEndpoint
  \/ ProbeEndpoint \/ CustomerJoins \/ NodeChanges \/ ControlRestarts
OnboardSpec == OnboardInit /\ [][OnboardNext]_onboardVars

(* An endpoint that serves customers was accepted: its test profile had been  *)
(* handed out, evidence and release marker were written with it, and the test *)
(* client is gone from the node (confirm_vpn_node_test_profile).              *)
ReadyIsProven ==
  staged.status = "ready" =>
    /\ settled.marker = staged.key /\ settled.evidence = staged.key /\ settled.release
    /\ "test" \notin site.clients

(* A worker shown as awaiting its test can be tested: test profile and        *)
(* confirmation are open, or the worker's row is only busy.                   *)
AwaitingIsOpen ==
  OnboardView = "awaiting_test" /\ Idle => AcceptanceOpen
===============================================================================
