---------------------------- MODULE StrategyRun ----------------------------
(***************************************************************************)
(* The strategy runs and the block checks of internal/app (run.go,         *)
(* blockcheck.go) on the sandboxes of the test engine (sandbox.go,         *)
(* cleanup.go): one job at a time, a pool of workers that may grow while   *)
(* the job runs, one sandbox (firewall chains and an nfqws2 child) per     *)
(* worker, cancellation, a firewall restarted from outside, a crash and    *)
(* an orderly shutdown of the process.                                     *)
(*                                                                         *)
(* A job is a strategy run ("plain", or "auto" when it measures a baseline *)
(* first) or a block check ("check").  Strategies and targets are numbers  *)
(* of the plan; what a probe measured is "good" or "bad".  The bound on    *)
(* the jobs stays below maxStoredRuns, so trimRunsLocked never fires.      *)
(***************************************************************************)
EXTENDS Naturals, FiniteSets, TLC

CONSTANTS
    Jobs,          \* the runs and block checks that may be started
    Kinds,         \* which of "plain", "auto", "check" they may be
    Asked,         \* the numbers of threads a request may ask for
    MaxThreads,    \* maxThreads
    PlanLen,       \* length of the plan of a job
    Callers,       \* concurrent callers of AddRunThreads
    None,          \* no job
    Faults,        \* which of "crash", "shutdown", "disturb" happen
    MaxFaults      \* and how often in all

ASSUME ConstantsOK ==
    /\ MaxThreads \in Nat \ {0} /\ PlanLen \in Nat \ {0} /\ MaxFaults \in Nat
    /\ Kinds \subseteq {"plain", "auto", "check"}
    /\ Asked \subseteq Nat \ {0}
    /\ None \notin Jobs
    /\ Faults \subseteq {"crash", "shutdown", "disturb"}

VARIABLES
    proc,       \* the process: "up", "stopping", "cleaned", "exited", "crashed"
    active,     \* App.active
    activeBC,   \* App.activeBC
    addWorker,  \* App.addWorker: the job whose closure is published
    pending,    \* App.pendingThreads
    job,        \* the Run or BlockCheck record of every job
    ctx,        \* the jobs whose context is cancelled
    exec,       \* where executeRun or executeBlockCheck of every job is
    pool,       \* the local variables of that function
    worker,     \* the worker goroutines of every job, one per sandbox
    adder,      \* the calls of the addWorker closure
    rules,      \* the job that installed the chains of each sandbox
    broken,     \* the sandboxes whose rules were lost to an outside restart
    engines,    \* the sandboxes whose nfqws2 child is alive
    saved,      \* the runs on disk: their status
    list,       \* SuccessfulStrategies of the list the runs belong to
    tainted,    \* tests during which isolation was lost (history only)
    faults      \* faults so far

control == <<proc, active, activeBC, addWorker, pending>>
kernel  == <<rules, broken, engines>>
disk    == <<saved, list>>
vars == <<control, job, ctx, exec, pool, worker, adder, kernel, disk, tainted, faults>>

Slots  == 0..MaxThreads          \* the last one only as the baseline sandbox
Plan   == 1..PlanLen
Agents == Callers \cup {"exec"}  \* executeRun itself calls addWorker once

-----------------------------------------------------------------------------
(* Data.                                                                   *)

IdleJob  == [kind |-> "plain", status |-> "none", threads |-> 0, total |-> PlanLen,
             done |-> 0, results |-> [i \in Plan |-> "none"]]
NewPool  == [asked |-> 0, tried |-> 0, started |-> 0, feeding |-> TRUE, next |-> 0,
             closed |-> FALSE, done |-> 0]
NoWorker == [pc |-> "off", idx |-> 0, good |-> FALSE, n |-> 0]
NoAdder  == [pc |-> "idle", job |-> None, target |-> 0, cur |-> 0]

Running == proc \notin {"exited", "crashed"}
IsCheck(j) == job[j].kind = "check"
Used(j)    == {w \in Slots : w < pool[j].started}
Tested(j)  == {i \in Plan : job[j].results[i] # "none"}
Least(m, n) == IF m < n THEN m ELSE n

At(j, pc) == Running /\ exec[j] = pc
Goto(j, pc) == exec' = [exec EXCEPT ![j] = pc]

(* CheckRules: every rule recorded by rulesUp is still in the firewall.    *)
Isolated(w) == rules[w] # None /\ w \notin broken

(* rulesUp flushes the chains of the slot and installs them for job j.     *)
RulesUp(j, w) ==
    /\ rules' = [rules EXCEPT ![w] = j]
    /\ broken' = broken \ {w}

(* RulesDown and, with the child, StopNfqws.                               *)
RulesDown(ws) ==
    /\ rules' = [w \in Slots |-> IF w \in ws THEN None ELSE rules[w]]
    /\ broken' = broken \ ws

-----------------------------------------------------------------------------
(* Starting and cancelling a job.                                          *)

Create(j, kind, t) ==
    /\ job[j].status = "none"
    /\ job' = [job EXCEPT ![j] = [@ EXCEPT !.kind = kind, !.status = "running",
                                           !.threads = Least(t, Least(MaxThreads, PlanLen))]]
    /\ pool' = [pool EXCEPT ![j].asked = Least(t, Least(MaxThreads, PlanLen))]

NoJobActive == active = None /\ activeBC = None

StartRun(j, kind, t) ==
    /\ Running /\ NoJobActive
    /\ kind # "check"
    /\ Create(j, kind, t)
    /\ active' = j
    /\ pending' = 0
    /\ Goto(j, IF kind = "auto" THEN "rules" ELSE "start")
    /\ UNCHANGED <<proc, activeBC, addWorker, ctx, worker, adder, kernel, disk, tainted, faults>>

StartBlockCheck(j, t) ==
    /\ Running /\ NoJobActive
    /\ Create(j, "check", t)
    /\ activeBC' = j
    /\ Goto(j, "slots")
    /\ UNCHANGED <<proc, active, addWorker, pending, ctx, worker, adder, kernel, disk, tainted, faults>>

(* CancelRun, CancelBlockCheck and the timeout of the automatic pick.      *)
CancelRun ==
    /\ Running
    /\ \E j \in {active, activeBC} \ {None} : j \notin ctx /\ ctx' = ctx \cup {j}
    /\ UNCHANGED <<control, job, exec, pool, worker, adder, kernel, disk, tainted, faults>>

-----------------------------------------------------------------------------
(* The baseline of an automatic run: one exclude-only sandbox, in the slot *)
(* after those of the requested workers.                                   *)

BaselineRules(j) ==
    /\ At(j, "rules")
    /\ \/ /\ RulesUp(j, pool[j].asked)
          /\ Goto(j, "baseline")
          /\ UNCHANGED job
       \/ /\ RulesDown({pool[j].asked})
          /\ job' = [job EXCEPT ![j].status = "error"]
          /\ Goto(j, "final")
    /\ UNCHANGED <<control, ctx, pool, worker, adder, engines, disk, tainted, faults>>

Baseline(j) ==
    /\ At(j, "baseline")
    /\ RulesDown({pool[j].asked})
    /\ IF Isolated(pool[j].asked)
       THEN Goto(j, "judge") /\ UNCHANGED job
       ELSE Goto(j, "final") /\ job' = [job EXCEPT ![j].status = "error"]
    /\ UNCHANGED <<control, ctx, pool, worker, adder, engines, disk, tainted, faults>>

(* Cancelled, a local socket error, nothing blocked, or targets to test.   *)
Judge(j) ==
    /\ At(j, "judge")
    /\ \/ /\ j \in ctx
          /\ Goto(j, "final") /\ UNCHANGED job
       \/ /\ j \notin ctx
          /\ \/ Goto(j, "final") /\ job' = [job EXCEPT ![j].status = "error"]
             \/ Goto(j, "final") /\ job' = [job EXCEPT ![j].total = 0]
             \/ Goto(j, "start") /\ UNCHANGED job
    /\ UNCHANGED <<control, ctx, pool, worker, adder, kernel, disk, tainted, faults>>

-----------------------------------------------------------------------------
(* The worker pool of a run.                                               *)

CanStart(j) == pool[j].feeding /\ pool[j].started < MaxThreads

(* startWorker, under smu: the rules first, and only a ready worker        *)
(* counts.  `more` is what the caller does to its own loop counter.        *)
Ready(j, p) ==
    /\ RulesUp(j, p.started)
    /\ pool' = [pool EXCEPT ![j] = [p EXCEPT !.started = @ + 1]]
    /\ worker' = [worker EXCEPT ![j][p.started].pc = "recv"]

NotReady_Counted(j, p) ==
    /\ RulesDown({p.started})
    /\ pool' = [pool EXCEPT ![j] = [p EXCEPT !.started = @ + 1]]
    /\ UNCHANGED worker

NotReady(j, p) ==
    /\ RulesDown({p.started})
    /\ pool' = [pool EXCEPT ![j] = p]
    /\ UNCHANGED worker

StartWorker(j) ==
    /\ At(j, "start") /\ pool[j].tried < pool[j].asked
    /\ LET p == [pool[j] EXCEPT !.tried = @ + 1]
       IN  \/ ~CanStart(j) /\ pool' = [pool EXCEPT ![j] = p]
                           /\ UNCHANGED <<rules, broken, worker>>
           \/ CanStart(j) /\ (Ready(j, p) \/ NotReady(j, p))
    /\ UNCHANGED <<control, job, ctx, exec, adder, engines, disk, tainted, faults>>

NoWorkers(j) ==
    /\ At(j, "start") /\ pool[j].tried = pool[j].asked
    /\ pool[j].started = 0
    /\ job' = [job EXCEPT ![j].status = "error"]
    /\ Goto(j, "clean")
    /\ UNCHANGED <<control, ctx, pool, worker, adder, kernel, disk, tainted, faults>>

(* Under a.mu: publish addWorker and take what was asked during the        *)
(* baseline.                                                               *)
Publish(j) ==
    /\ At(j, "start") /\ pool[j].tried = pool[j].asked
    /\ pool[j].started > 0
    /\ job' = [job EXCEPT ![j].threads = pool[j].started]
    /\ addWorker' = j
    /\ pending' = 0
    /\ IF pending > pool[j].started
       THEN /\ adder' = [adder EXCEPT !["exec"] = [pc |-> "loop", job |-> j, cur |-> 0,
                                                   target |-> Least(pending, MaxThreads)]]
            /\ Goto(j, "pend")
       ELSE Goto(j, "feed") /\ UNCHANGED adder
    /\ UNCHANGED <<proc, active, activeBC, ctx, pool, worker, kernel, disk, tainted, faults>>

PendApplied(j) ==
    /\ At(j, "pend") /\ adder["exec"].pc = "idle"
    /\ Goto(j, "feed")
    /\ UNCHANGED <<control, job, ctx, pool, worker, adder, kernel, disk, tainted, faults>>

(* AddRunThreads of caller c up to the call of the closure.                *)
AddRunThreads(c, t) ==
    /\ Running /\ adder[c].pc = "idle"
    /\ active # None
    /\ \/ /\ addWorker = None
          /\ pending # t
          /\ pending' = t
          /\ UNCHANGED adder
       \/ /\ addWorker # None
          /\ adder' = [adder EXCEPT ![c] = [pc |-> "loop", job |-> addWorker, cur |-> 0,
                                            target |-> Least(t, MaxThreads)]]
          /\ UNCHANGED pending
    /\ UNCHANGED <<proc, active, activeBC, addWorker, job, ctx, exec, pool, worker, kernel, disk, tainted, faults>>

AddStep(c, from, to) ==
    /\ Running /\ adder[c].pc = from
    /\ adder' = [adder EXCEPT ![c].pc = to]

(* The loop of the closure: read the count under smu ...                   *)
AddLoop(c) ==
    /\ adder[c].pc = "loop"
    /\ IF pool[adder[c].job].started >= adder[c].target
       THEN AddStep(c, "loop", "count")
       ELSE AddStep(c, "loop", "start")
    /\ UNCHANGED <<control, job, ctx, exec, pool, worker, kernel, disk, tainted, faults>>

(* ... release it, and call startWorker.                                   *)
AddStart(c) ==
    LET j == adder[c].job IN
    /\ adder[c].pc = "start"
    /\ \/ /\ CanStart(j) /\ AddStep(c, "start", "loop")
          /\ Ready(j, pool[j])
       \/ /\ CanStart(j) /\ AddStep(c, "start", "count")
          /\ NotReady(j, pool[j])
       \/ /\ ~CanStart(j) /\ AddStep(c, "start", "count")
          /\ UNCHANGED <<rules, broken, pool, worker>>
    /\ UNCHANGED <<control, job, ctx, exec, engines, disk, tainted, faults>>

(* Read the count under smu, then write Threads under a.mu.                *)
AddCount(c) ==
    /\ Running /\ adder[c].pc = "count"
    /\ adder' = [adder EXCEPT ![c].pc = "write", ![c].cur = pool[adder[c].job].started]
    /\ UNCHANGED <<control, job, ctx, exec, pool, worker, kernel, disk, tainted, faults>>

AddWrite(c) ==
    /\ Running /\ adder[c].pc = "write"
    /\ job' = [job EXCEPT ![adder[c].job].threads = adder[c].cur]
    /\ adder' = [adder EXCEPT ![c] = NoAdder]
    /\ UNCHANGED <<control, ctx, exec, pool, worker, kernel, disk, tainted, faults>>

-----------------------------------------------------------------------------
(* The sandboxes of a block check: all of them or none.                    *)

CheckSlot(j) ==
    /\ At(j, "slots") /\ pool[j].started < pool[j].asked
    /\ \/ /\ RulesUp(j, pool[j].started)
          /\ pool' = [pool EXCEPT ![j].started = @ + 1]
          /\ UNCHANGED <<job, exec>>
       \/ /\ RulesDown(0..pool[j].started)
          /\ job' = [job EXCEPT ![j].status = "error"]
          /\ Goto(j, "final")
          /\ UNCHANGED pool
    /\ UNCHANGED <<control, ctx, worker, adder, engines, disk, tainted, faults>>

CheckWorkers(j) ==
    /\ At(j, "slots") /\ pool[j].started = pool[j].asked
    /\ worker' = [worker EXCEPT ![j] = [w \in Slots |-> IF w < pool[j].started
                                          THEN [NoWorker EXCEPT !.pc = "recv"] ELSE NoWorker]]
    /\ Goto(j, "feed")
    /\ UNCHANGED <<control, job, ctx, pool, adder, kernel, disk, tainted, faults>>

-----------------------------------------------------------------------------
(* Feeding the jobs channel (unbuffered: a send is a receive), closing it. *)

Feed(j, w) ==
    /\ At(j, "feed") /\ pool[j].next < PlanLen
    /\ worker[j][w].pc = "recv"
    /\ pool' = [pool EXCEPT ![j].next = @ + 1]
    /\ worker' = [worker EXCEPT ![j][w] = [@ EXCEPT !.pc = "got", !.idx = pool[j].next + 1]]
    /\ UNCHANGED <<control, job, ctx, exec, adder, kernel, disk, tainted, faults>>

FeedEnds(j) ==
    /\ At(j, "feed")
    /\ j \in ctx \/ pool[j].next = PlanLen
    /\ pool' = [pool EXCEPT ![j].feeding = FALSE, ![j].closed = IsCheck(j)]
    /\ Goto(j, IF IsCheck(j) THEN "wait" ELSE "close")
    /\ UNCHANGED <<control, job, ctx, worker, adder, kernel, disk, tainted, faults>>

CloseJobs(j) ==
    /\ At(j, "close")
    /\ addWorker' = None
    /\ pool' = [pool EXCEPT ![j].closed = TRUE]
    /\ Goto(j, "wait")
    /\ UNCHANGED <<proc, active, activeBC, pending, job, ctx, worker, adder, kernel, disk, tainted, faults>>

-----------------------------------------------------------------------------
(* One worker: worker[j][w] on sandbox w.                                  *)

WorkerAt(j, w, pc) == Running /\ worker[j][w].pc = pc
Worker(j, w, r)    == worker' = [worker EXCEPT ![j][w] = r]

RecvClosed(j, w) ==
    /\ WorkerAt(j, w, "recv") /\ pool[j].closed
    /\ Worker(j, w, NoWorker)
    /\ UNCHANGED <<control, job, ctx, exec, pool, adder, kernel, disk, tainted, faults>>

(* The index that was received is dropped when the context is cancelled.   *)
Received(j, w) ==
    /\ WorkerAt(j, w, "got")
    /\ Worker(j, w, IF j \in ctx THEN NoWorker
                    ELSE [worker[j][w] EXCEPT !.pc = IF IsCheck(j) THEN "probe" ELSE "launch"])
    /\ UNCHANGED <<control, job, ctx, exec, pool, adder, kernel, disk, tainted, faults>>

(* StartNfqws: CheckRules, then the child until it has bound its queue.    *)
StartNfqws(j, w) ==
    /\ WorkerAt(j, w, "launch")
    /\ tainted' = tainted \ {<<j, w>>}
    /\ \/ /\ Isolated(w)
          /\ engines' = engines \cup {w}
          /\ Worker(j, w, [worker[j][w] EXCEPT !.pc = "probe"])
       \/ /\ engines' = engines \ {w}
          /\ Worker(j, w, [worker[j][w] EXCEPT !.pc = "count", !.good = FALSE])
    /\ UNCHANGED <<control, job, ctx, exec, pool, adder, rules, broken, disk, faults>>

(* Every target through probeQueuedTarget: a cancelled context leaves      *)
(* targets out, and a queue that cannot be read makes the answer a failure.*)
Probe(j, w) ==
    /\ WorkerAt(j, w, "probe")
    /\ \E good \in BOOLEAN :
          /\ good => j \notin ctx /\ (IsCheck(j) \/ w \in engines)
          /\ Worker(j, w, [worker[j][w] EXCEPT !.good = good,
                              !.pc = IF IsCheck(j) THEN "count" ELSE "verify"])
    /\ UNCHANGED <<control, job, ctx, exec, pool, adder, kernel, disk, tainted, faults>>

CheckRules_Before(j, w) ==
    /\ WorkerAt(j, w, "verify")
    /\ Worker(j, w, [worker[j][w] EXCEPT !.pc = "count"])
    /\ engines' = engines \ {w}
    /\ UNCHANGED <<control, job, ctx, exec, pool, adder, rules, broken, disk, tainted, faults>>

(* The end of testStrategy: CheckRules again, and the deferred StopNfqws.  *)
CheckRules(j, w) ==
    /\ WorkerAt(j, w, "verify")
    /\ Worker(j, w, [worker[j][w] EXCEPT !.pc = "count", !.good = @ /\ Isolated(w)])
    /\ engines' = engines \ {w}
    /\ UNCHANGED <<control, job, ctx, exec, pool, adder, rules, broken, disk, tainted, faults>>

(* n := atomic.AddInt32(&done, 1), outside a.mu ...                        *)
CountDone(j, w) ==
    /\ WorkerAt(j, w, "count")
    /\ pool' = [pool EXCEPT ![j].done = @ + 1]
    /\ Worker(j, w, [worker[j][w] EXCEPT !.pc = "append", !.n = pool[j].done + 1])
    /\ UNCHANGED <<control, job, ctx, exec, adder, kernel, disk, tainted, faults>>

(* ... and the result with that n, under a.mu.                             *)
Append(j, w) ==
    /\ WorkerAt(j, w, "append")
    /\ job' = [job EXCEPT ![j].results[worker[j][w].idx] =
                              IF worker[j][w].good THEN "good" ELSE "bad",
                          ![j].done = worker[j][w].n]
    /\ Worker(j, w, [NoWorker EXCEPT !.pc = "recv"])
    /\ tainted' = tainted \ {<<j, w>>}
    /\ UNCHANGED <<control, ctx, exec, pool, adder, kernel, disk, faults>>

-----------------------------------------------------------------------------
(* The end of a job.                                                       *)

WorkersGone(j) == \A w \in Slots : worker[j][w].pc = "off"

Finish_NeverCancelled(j) ==
    /\ At(j, "wait") /\ WorkersGone(j)
    /\ Goto(j, IF IsCheck(j) THEN "clean" ELSE "merge")
    /\ UNCHANGED <<control, job, ctx, pool, worker, adder, kernel, disk, tainted, faults>>

(* wg.Wait, then the status; a block check first verifies every sandbox.   *)
Finish(j) ==
    /\ At(j, "wait") /\ WorkersGone(j)
    /\ \/ /\ IsCheck(j) /\ \E w \in Used(j) : ~Isolated(w)
          /\ job' = [job EXCEPT ![j] = [@ EXCEPT !.status = "error", !.done = 0,
                                           !.results = IdleJob.results]]
       \/ /\ IsCheck(j) => \A w \in Used(j) : Isolated(w)
          /\ job' = IF j \in ctx THEN [job EXCEPT ![j].status = "cancelled"] ELSE job
    /\ Goto(j, IF IsCheck(j) THEN "clean" ELSE "merge")
    /\ UNCHANGED <<control, ctx, pool, worker, adder, kernel, disk, tainted, faults>>

(* mergeSuccessful into the list, when the run has one.                    *)
MergeSuccessful(j) ==
    /\ At(j, "merge")
    /\ list' \in {list, list \cup {i \in Plan : job[j].results[i] = "good"}}
    /\ Goto(j, "clean")
    /\ UNCHANGED <<control, job, ctx, pool, worker, adder, kernel, saved, tainted, faults>>

(* The deferred functions in the other order: free before it is clean.     *)
CleanUp_FreesFirst(j) ==
    /\ At(j, "clean")
    /\ IF j \in {active, activeBC}
       THEN /\ active' = IF active = j THEN None ELSE active
            /\ activeBC' = IF activeBC = j THEN None ELSE activeBC
            /\ UNCHANGED <<kernel, exec>>
       ELSE /\ RulesDown(Used(j)) /\ engines' = engines \ Used(j)
            /\ Goto(j, "final")
            /\ UNCHANGED <<active, activeBC>>
    /\ UNCHANGED <<proc, addWorker, pending, job, ctx, pool, worker, adder, disk, tainted, faults>>

(* The deferred StopNfqws and RulesDown of every sandbox of the pool.      *)
CleanUp(j) ==
    /\ At(j, "clean")
    /\ RulesDown(Used(j))
    /\ engines' = engines \ Used(j)
    /\ Goto(j, "final")
    /\ UNCHANGED <<control, job, ctx, pool, worker, adder, disk, tainted, faults>>

(* The outermost deferred function: no job is active any more; its context *)
(* and the locals of its pool end with it (a late closure still reads      *)
(* started and feeding).                                                   *)
Final(j) ==
    /\ At(j, "final")
    /\ job' = [job EXCEPT ![j].status = IF @ = "running" THEN "done" ELSE @]
    /\ IF IsCheck(j)
       THEN /\ activeBC' = None /\ UNCHANGED <<active, addWorker>>
            /\ Goto(j, "end")
       ELSE /\ active' = None /\ addWorker' = None /\ UNCHANGED activeBC
            /\ Goto(j, "save")
    /\ ctx' = ctx \ {j}
    /\ pool' = [pool EXCEPT ![j] = [NewPool EXCEPT !.started = pool[j].started, !.feeding = pool[j].feeding]]
    /\ UNCHANGED <<proc, pending, worker, adder, kernel, disk, tainted, faults>>

SaveRun(j) ==
    /\ At(j, "save")
    /\ saved' = [saved EXCEPT ![j] = job[j].status]
    /\ Goto(j, "end")
    /\ UNCHANGED <<control, job, ctx, pool, worker, adder, kernel, list, tainted, faults>>

-----------------------------------------------------------------------------
(* Faults: the main service or its firewall restarted from outside (its    *)
(* script may killall nfqws2), a crash, an orderly shutdown.               *)

Fault(kind) == kind \in Faults /\ faults < MaxFaults /\ faults' = faults + 1

Disturb ==
    /\ Fault("disturb") /\ Running
    /\ \E w \in Slots : rules[w] # None        \* otherwise there is nothing to disturb
    /\ broken' = broken \cup {w \in Slots : rules[w] # None}
    /\ engines' \in {engines, {}}
    /\ tainted' = tainted \cup {jw \in Jobs \X Slots :
                                  worker[jw[1]][jw[2]].pc \in {"probe", "verify"} /\ ~IsCheck(jw[1])}
    /\ UNCHANGED <<control, job, ctx, exec, pool, worker, adder, rules, disk>>

(* What dies with the process: its goroutines, its memory, and with it     *)
(* every job that is not on disk.                                          *)
ProcessGone ==
    /\ active' = None /\ activeBC' = None /\ addWorker' = None /\ pending' = 0
    /\ job' = [j \in Jobs |->
                  IF job[j].status # "none" /\ saved[j] = "none"
                  THEN [IdleJob EXCEPT !.status = "forgotten"] ELSE job[j]]
    /\ ctx' = {} /\ tainted' = {}
    /\ exec' = [j \in Jobs |-> IF exec[j] = "none" THEN "none" ELSE "end"]
    /\ pool' = [j \in Jobs |-> NewPool]
    /\ worker' = [j \in Jobs |-> [w \in Slots |-> NoWorker]]
    /\ adder' = [c \in Agents |-> NoAdder]

Crash ==
    /\ Fault("crash") /\ Running
    /\ proc' = "crashed"
    /\ ProcessGone
    /\ UNCHANGED <<kernel, disk>>

(* CleanupSandboxes(cfg, maxThreads): slots 0..maxThreads, orphans killed. *)
SandboxesCleaned == 0..MaxThreads

CleanupSandboxes ==
    /\ RulesDown(SandboxesCleaned)
    /\ engines' = {}

(* Shutdown cancels what is active ...                                     *)
Shutdown ==
    /\ Fault("shutdown") /\ proc = "up"
    /\ proc' = "stopping"
    /\ ctx' = ctx \cup ({active, activeBC} \ {None})
    /\ UNCHANGED <<active, activeBC, addWorker, pending, job, exec, pool, worker, adder,
                   kernel, disk, tainted>>

(* ... sleeps 300 ms and cleans up; the other services follow.             *)
ShutdownCleanup ==
    /\ proc = "stopping"
    /\ proc' = "cleaned"
    /\ CleanupSandboxes
    /\ UNCHANGED <<active, activeBC, addWorker, pending, job, ctx, exec, pool, worker, adder,
                   disk, tainted, faults>>

Exit ==
    /\ proc = "cleaned"
    /\ proc' = "exited"
    /\ ProcessGone
    /\ UNCHANGED <<kernel, disk, faults>>

(* A new process: loadRuns, then CleanupSandboxes before anything that     *)
(* can start a job.                                                        *)
Boot ==
    /\ proc \in {"exited", "crashed"}
    /\ proc' = "up"
    /\ job' = [j \in Jobs |->
                  IF saved[j] = "none" THEN job[j]
                  ELSE [job[j] EXCEPT !.status = IF saved[j] = "running" THEN "error" ELSE saved[j]]]
    /\ CleanupSandboxes
    /\ UNCHANGED <<active, activeBC, addWorker, pending, ctx, exec, pool, worker, adder, disk, tainted,
                   faults>>

-----------------------------------------------------------------------------
Init ==
    /\ proc = "up" /\ active = None /\ activeBC = None /\ addWorker = None /\ pending = 0
    /\ job = [j \in Jobs |-> IdleJob]
    /\ ctx = {} /\ tainted = {} /\ faults = 0
    /\ exec = [j \in Jobs |-> "none"]
    /\ pool = [j \in Jobs |-> NewPool]
    /\ worker = [j \in Jobs |-> [w \in Slots |-> NoWorker]]
    /\ adder = [c \in Agents |-> NoAdder]
    /\ rules = [w \in Slots |-> None] /\ broken = {} /\ engines = {}
    /\ saved = [j \in Jobs |-> "none"] /\ list = {}

Executor(j) ==
    \/ BaselineRules(j) \/ Baseline(j) \/ Judge(j)
    \/ StartWorker(j) \/ NoWorkers(j) \/ Publish(j) \/ PendApplied(j)
    \/ CheckSlot(j) \/ CheckWorkers(j)
    \/ FeedEnds(j) \/ CloseJobs(j) \/ (\E w \in Slots : Feed(j, w))
    \/ Finish(j) \/ MergeSuccessful(j) \/ CleanUp(j) \/ Final(j) \/ SaveRun(j)

WorkerStep(j, w) ==
    \/ RecvClosed(j, w) \/ Received(j, w) \/ StartNfqws(j, w) \/ Probe(j, w)
    \/ CheckRules(j, w) \/ CountDone(j, w) \/ Append(j, w)

Adder(c) == AddLoop(c) \/ AddStart(c) \/ AddCount(c) \/ AddWrite(c)

Environment == Disturb \/ Crash \/ Shutdown \/ ShutdownCleanup \/ Exit \/ Boot

(* Every job is over: nothing remains to be done.                          *)
Quiet ==
    /\ proc = "up" /\ NoJobActive
    /\ \A j \in Jobs : exec[j] = "end"
    /\ \A c \in Agents : adder[c].pc = "idle"
    /\ UNCHANGED vars

Next ==
    \/ \E j \in Jobs, t \in Asked :
          StartBlockCheck(j, t) /\ "check" \in Kinds
    \/ \E j \in Jobs, k \in Kinds, t \in Asked : StartRun(j, k, t)
    \/ CancelRun
    \/ \E j \in Jobs : Executor(j) \/ \E w \in Slots : WorkerStep(j, w)
    \/ \E c \in Callers, t \in Asked : AddRunThreads(c, t)
    \/ \E c \in Agents : Adder(c)
    \/ Environment
    \/ Quiet

Spec == Init /\ [][Next]_vars

(* Goroutines run; probes, iptables and a starting child have timeouts.    *)
(* Nothing obliges a user to cancel or an outside service to restart.      *)
Fairness ==
    /\ \A j \in Jobs : WF_vars(Executor(j)) /\ \A w \in Slots : WF_vars(WorkerStep(j, w))
    /\ \A c \in Agents : WF_vars(Adder(c))

FairSpec == Spec /\ Fairness
-----------------------------------------------------------------------------
(* Properties.                                                             *)

TypeOK ==
    /\ proc \in {"up", "stopping", "cleaned", "exited", "crashed"}
    /\ {active, activeBC, addWorker} \subseteq Jobs \cup {None}
    /\ pending \in Asked \cup {0}
    /\ job \in [Jobs -> [kind : {"plain", "auto", "check"}, threads : 0..MaxThreads,
                  status : {"none", "running", "done", "cancelled", "error", "forgotten"},
                  total : 0..PlanLen, done : 0..PlanLen,
                  results : [Plan -> {"none", "good", "bad"}]]]
    /\ ctx \subseteq Jobs /\ tainted \subseteq Jobs \X Slots /\ faults \in 0..MaxFaults
    /\ exec \in [Jobs -> {"none", "rules", "baseline", "judge", "start", "pend", "slots", "feed",
                          "close", "wait", "merge", "clean", "final", "save", "end"}]
    /\ pool \in [Jobs -> [asked : 0..MaxThreads, tried : 0..MaxThreads, started : 0..MaxThreads,
                          feeding : BOOLEAN, next : 0..PlanLen, closed : BOOLEAN,
                          done : 0..PlanLen]]
    /\ worker \in [Jobs -> [Slots -> [idx : 0..PlanLen, good : BOOLEAN, n : 0..PlanLen,
                     pc : {"off", "recv", "got", "launch", "probe", "verify", "count", "append"}]]]
    /\ adder \in [Agents -> [pc : {"idle", "loop", "start", "count", "write"},
                    job : Jobs \cup {None}, target : 0..MaxThreads, cur : 0..MaxThreads]]
    /\ rules \in [Slots -> Jobs \cup {None}] /\ broken \subseteq Slots /\ engines \subseteq Slots
    /\ saved \in [Jobs -> {"none", "running", "done", "cancelled", "error"}]
    /\ list \subseteq Plan

(* Whenever a job may be started, no sandbox chain and no test engine is   *)
(* left in the router: not by a job that ended on any of its error paths,  *)
(* not by a worker added late, not by a process that was killed (the       *)
(* deferred clean-up of executeRun runs before active is cleared, and      *)
(* CleanupSandboxes includes the baseline slot).                           *)
IdleIsClean ==
    proc = "up" /\ NoJobActive => engines = {} /\ \A w \in Slots : rules[w] = None

(* A live worker tests through its own sandbox: no other job has installed *)
(* or removed the chains of its slot (runs and block checks number their   *)
(* sandboxes alike, only active/activeBC keep them apart).                 *)
SandboxOwned ==
    proc = "up" => \A j \in Jobs, w \in Slots : worker[j][w].pc # "off" => rules[w] = j

(* A run recorded as "done" after its pool worked has a result for every   *)
(* strategy of the plan: an index that a worker dropped because of a       *)
(* cancellation always leads to "cancelled".                               *)
DoneIsComplete ==
    \A j \in Jobs :
        exec[j] \in {"save", "end"} /\ job[j].status = "done" /\ pool[j].started > 0
            => Tested(j) = Plan

(* Once wg.Wait has returned no worker of the job is alive and none can    *)
(* start, whatever an AddRunThreads call that still holds the closure does *)
(* (startWorker refuses when feeding is over).                             *)
WaitIsFinal ==
    \A j \in Jobs : exec[j] \in {"merge", "clean", "final", "save", "end"} => WorkersGone(j)

(* A result counts as a success only if the isolation of its sandbox held  *)
(* during the whole test (CheckRules before and after the probes).         *)
IsolatedSuccess ==
    \A j \in Jobs, w \in Slots :
        worker[j][w].pc \in {"count", "append"} /\ worker[j][w].good /\ ~IsCheck(j)
            => <<j, w>> \notin tainted

(* A raise of the thread count asked for while the pool was not up is      *)
(* taken over when it comes up, and none is left behind for a later time.  *)
RaiseNotLost == addWorker # None => pending = 0

(* Every job that was started ends, unless the process does: although      *)
(* setups may fail, workers may drop out after a cancellation, and the     *)
(* feeder waits for a receiver.                                            *)
JobEnds == \A j \in Jobs : exec[j] # "none" ~> (exec[j] = "end" \/ ~Running)

(* Sandboxes are owned by the job at work and gone after it.               *)
SandboxSafe == TypeOK /\ IdleIsClean /\ SandboxOwned

(* What a job records is what its workers did, and nobody works after it.  *)
JobRecord == DoneIsComplete /\ WaitIsFinal /\ RaiseNotLost

\* The jobs are alike until they start, and so are the callers.
Symmetry == Permutations(Jobs) \cup Permutations(Callers)
=============================================================================
