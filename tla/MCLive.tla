-------------------------------- MODULE MCLive --------------------------------
(*****************************************************************************)
(* What must happen at the DNS gate and in a strategy run, under the         *)
(* fairness of their goroutines: a behaviour belongs to one of the two       *)
(* (scope), whose fairness alone it owes, and leaves the other where it      *)
(* starts.                                                                   *)
(*****************************************************************************)
EXTENDS Naturals

CONSTANTS
    Queries, Appliers, Addrs, Unrouted, Nobody, MaxApplies,
    Jobs, Kinds, Asked, MaxThreads, PlanLen, Callers, None, Faults, MaxFaults

VARIABLES
    scope,
    generation, applying, readers, err, writeEpoch, learned, learnToken, sleeping, snap, kernel, pc, addr, outer, gen, epoch,
    proc, active, activeBC, addWorker, pending, job, ctx, exec, pool, worker, adder, rules, broken, engines, saved, list,
    tainted, faults

gateVars == <<generation, applying, readers, err, writeEpoch, learned, learnToken, sleeping, snap, kernel, pc, addr, outer,
              gen, epoch>>
runVars == <<proc, active, activeBC, addWorker, pending, job, ctx, exec, pool, worker, adder, rules, broken, engines, saved,
             list, tainted, faults>>

Gate == INSTANCE DnsPolicyGate
Run == INSTANCE StrategyRun

Init == Gate!Init /\ Run!Init /\ scope \in {"gate", "run"} /\ (scope # "gate" => snap = 0)

Next ==
    \/ scope = "gate" /\ Gate!Next /\ UNCHANGED <<scope, runVars>>
    \/ scope = "run" /\ Run!Next /\ UNCHANGED <<scope, gateVars>>

\* The fairness each component states, owed in its own scope.
Fairness ==
    /\ \A q \in Queries : /\ WF_gateVars(scope = "gate" /\ Gate!QueryStep(q))
                          /\ SF_gateVars(scope = "gate" /\ Gate!LearnStart(q))
    /\ \A a \in Appliers : WF_gateVars(scope = "gate" /\ Gate!ApplierStep(a))
    /\ \A j \in Jobs : /\ WF_runVars(scope = "run" /\ Run!Executor(j))
                       /\ \A w \in Run!Slots : WF_runVars(scope = "run" /\ Run!WorkerStep(j, w))
    /\ \A c \in Run!Agents : WF_runVars(scope = "run" /\ Run!Adder(c))

Spec == Init /\ [][Next]_<<scope, gateVars, runVars>> /\ Fairness

\* A DNS query that waits behind an apply, and an apply that waits for the queries before it, both end.
GateEnds == Gate!QueryEnds /\ Gate!ApplyEnds

\* A run or block check ends, whatever its sandboxes and workers meet.
JobEnds == Run!JobEnds
=============================================================================
