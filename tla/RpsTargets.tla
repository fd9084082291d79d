------------------------------ MODULE RpsTargets ------------------------------
(* How the requests per second of the workers are shared out between the      *)
(* names under attack (services/attack_runtime.py): everybody's minimum, then *)
(* the rest by priority, in rounds of amounts rounded to hundredths, and each *)
(* name's amount over its tasks. Amounts are whole hundredths; how a tie is   *)
(* rounded depends on the binary fraction, so either way is possible.         *)
EXTENDS Integers, FiniteSets, Functions

CONSTANTS Named,     \* names with a run
          RpsWorker, \* workers that hold their tasks
          Priorities, MaxRps

\* A priority counts at least one, and without a name there is nothing to share.
ASSUME RpsAssumption ==
  /\ IsFiniteSet(Named) /\ Named # {} /\ IsFiniteSet(RpsWorker)
  /\ Priorities \subseteq Nat \ {0} /\ MaxRps \in Nat

VARIABLES given,   \* the inputs: carries, serves, weight, wish, floor
          fill,    \* the rounds: what may still be granted to each name, and the rest
          targets, \* domain_target_rps_by_id
          planned  \* planned_rps of each worker's task
rpsVars == <<given, fill, targets, planned>>

Least(a, b) == IF a < b THEN a ELSE b
Most(a, b) == IF a > b THEN a ELSE b
Zero == [n \in Named |-> 0]
TotalRps == SumFunction(given.carries)

\* plan_domain_rps_targets: what the phase of a name asks for, at least its guaranteed
\* minimum, at most what the matching workers carry; no more than that is guaranteed.
Budgets == [Named -> {b \in (0..MaxRps) \X (0..MaxRps) : b[2] <= b[1]}]
PlanTargets ==
  /\ fill.step = "plan" /\ fill' = [step |-> "allocate"]
  /\ \E carries \in [RpsWorker -> 0..MaxRps], serves \in [RpsWorker -> Named],
        weight \in [Named -> Priorities], budget \in Budgets :
       /\ \A n \in Named : budget[n][1] <= SumFunction(carries)
       /\ given' = [carries |-> carries, serves |-> serves, weight |-> weight,
                    wish |-> [n \in Named |-> budget[n][1]],
                    floor |-> [n \in Named |-> budget[n][2]]]
  /\ UNCHANGED <<targets, planned>>

\* allocate_domain_target_rps: with too little for the minimums these are filled alone.
AllocateTargets ==
  LET enough == SumFunction(given.floor) < TotalRps
  IN  /\ fill.step = "allocate"
      /\ targets' = IF enough THEN given.floor ELSE Zero
      /\ fill' = [step |-> "fill",
                  open |-> IF enough THEN [n \in Named |-> given.wish[n] - given.floor[n]]
                           ELSE given.floor,
                  rest |-> IF enough THEN TotalRps - SumFunction(given.floor) ELSE TotalRps]
      /\ UNCHANGED <<given, planned>>

Sharing == {n \in Named : fill.open[n] > 0}
Weights == SumFunctionOnSet(given.weight, Sharing)
Share(n, weights) == (2 * fill.rest * given.weight[n] + weights) \div (2 * weights)
Tied(weights) == {n \in Sharing : (2 * fill.rest * given.weight[n] + weights) % (2 * weights) = 0}
\* Mutant of Grant: what a name may still get does not bound what it is granted.
GrantUncapped(n, rounded, weights) == IF rounded = 0 THEN fill.rest ELSE rounded
\* min(capacity, share) rounded; a share that rounds to nothing becomes all that is left.
Grant(n, rounded, weights) ==
  IF fill.open[n] * weights <= fill.rest * given.weight[n] THEN fill.open[n]
  ELSE IF rounded = 0 THEN Least(fill.open[n], fill.rest) ELSE rounded
\* One round of _weighted_fill: every share is of what was left before the round.
FillRound ==
  LET weights == Weights
  IN  /\ fill.step = "fill" /\ fill.rest > 0 /\ Sharing # {}
      /\ \E down \in SUBSET Tied(weights) :
           LET granted == [n \in Named |->
                 IF n \notin Sharing THEN 0
                 ELSE Grant(n, Share(n, weights) - (IF n \in down THEN 1 ELSE 0), weights)]
           IN  /\ targets' = [n \in Named |-> targets[n] + granted[n]]
               /\ fill' = [fill EXCEPT !.rest = Most(0, fill.rest - SumFunction(granted)),
                                       !.open = [n \in Named |-> fill.open[n] - granted[n]]]
      /\ UNCHANGED <<given, planned>>
FillEnds ==
  /\ fill.step = "fill" /\ (fill.rest = 0 \/ Sharing = {}) /\ fill' = [step |-> "refresh"]
  /\ UNCHANGED <<given, targets, planned>>

\* allocate_worker_rps, worker by worker, until the target is reached.
CarriedBefore(w, order) ==
  SumFunctionOnSet(given.carries,
                   {v \in RpsWorker : given.serves[v] = given.serves[w] /\ order[v] < order[w]})
\* refresh_domain_task_targets: a task gets what is left of its name's target.
TaskRps(w, order) ==
  Most(0, Least(given.carries[w], targets[given.serves[w]] - CarriedBefore(w, order)))
\* refresh_active_task_targets, for every name with tasks, in the order they were read.
RefreshTasks ==
  /\ fill.step = "refresh" /\ fill' = [step |-> "done"]
  /\ \E order \in [RpsWorker -> 1..Cardinality(RpsWorker)] :
       /\ IsInjective(order)
       /\ planned' = [w \in RpsWorker |-> TaskRps(w, order)]
  /\ UNCHANGED <<given, targets>>

RpsInit ==
  /\ given = <<>> /\ fill = [step |-> "plan"] /\ targets = Zero
  /\ planned = [w \in RpsWorker |-> 0]
RpsNext == PlanTargets \/ AllocateTargets \/ FillRound \/ FillEnds \/ RefreshTasks
RpsSpec == RpsInit /\ [][RpsNext]_rpsVars

(* The shares fit: however the amounts are rounded, no name gets more than it *)
(* wants; everybody gets the minimum if the workers can carry all minimums;   *)
(* nothing is left while somebody wants more; what is given out beyond the    *)
(* workers' total is a matter of hundredths unless priorities differ widely;  *)
(* and no worker is asked for more than it carries (allocate_domain_target_rps,*)
(* _weighted_fill, refresh_domain_task_targets).                              *)
TargetsFit ==
  fill.step = "done" =>
    /\ \A n \in Named : targets[n] <= given.wish[n]
    /\ SumFunction(given.floor) <= TotalRps => \A n \in Named : given.floor[n] <= targets[n]
    /\ Least(TotalRps, SumFunction(given.wish)) <= SumFunction(targets)
    /\ \E n \in Named :
         2 * (SumFunction(targets) - TotalRps) * given.weight[n]
           <= (Cardinality(Named) - 1) * SumFunction(given.weight)
    /\ \A w \in RpsWorker : planned[w] <= given.carries[w]
    /\ \A n \in Named :
         SumFunctionOnSet(planned, {w \in RpsWorker : given.serves[w] = n}) <= targets[n]
=============================================================================
