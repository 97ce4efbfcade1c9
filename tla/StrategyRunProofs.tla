------------------------- MODULE StrategyRunProofs -------------------------
(***************************************************************************)
(* Proofs about StrategyRun, for any number of jobs, threads, strategies,  *)
(* callers of AddRunThreads and faults.                                    *)
(***************************************************************************)
EXTENDS StrategyRun, FiniteSetTheorems, TLAPS

JobKinds   == {"plain", "auto", "check"}
Statuses   == {"none", "running", "done", "cancelled", "error", "forgotten"}
JobRecs    == [kind : JobKinds, threads : 0..MaxThreads, status : Statuses,
               total : 0..PlanLen, done : 0..PlanLen, results : [Plan -> {"none", "good", "bad"}]]
ExecPlaces == {"none", "rules", "baseline", "judge", "start", "pend", "slots", "feed",
               "close", "wait", "merge", "clean", "final", "save", "end"}
PoolRecs   == [asked : 0..MaxThreads, tried : 0..MaxThreads, started : 0..MaxThreads,
               feeding : BOOLEAN, next : 0..PlanLen, closed : BOOLEAN, done : 0..PlanLen]
WorkerPCs  == {"off", "recv", "got", "launch", "probe", "verify", "count", "append"}
WorkerRecs == [idx : 0..PlanLen, good : BOOLEAN, n : 0..PlanLen, pc : WorkerPCs]
Workers    == [Slots -> WorkerRecs]
AdderRecs  == [pc : {"idle", "loop", "start", "count", "write"}, job : Jobs \cup {None},
               target : 0..MaxThreads, cur : 0..MaxThreads]

\* Type correctness in parts, each with the records it speaks of.
JobsTyped == job \in [Jobs -> JobRecs]
ExecTyped == exec \in [Jobs -> ExecPlaces]
PoolTyped == pool \in [Jobs -> PoolRecs]
WorkTyped == worker \in [Jobs -> Workers]
AddTyped  == adder \in [Agents -> AdderRecs]
BaseTyped ==
    /\ proc \in {"up", "stopping", "cleaned", "exited", "crashed"}
    /\ {active, activeBC, addWorker} \subseteq Jobs \cup {None}
    /\ pending \in Asked \cup {0}
    /\ ctx \subseteq Jobs /\ tainted \subseteq Jobs \X Slots /\ faults \in 0..MaxFaults
    /\ rules \in [Slots -> Jobs \cup {None}] /\ broken \subseteq Slots /\ engines \subseteq Slots
    /\ saved \in [Jobs -> {"none", "running", "done", "cancelled", "error"}]
    /\ list \subseteq Plan
Typed == JobsTyped /\ ExecTyped /\ PoolTyped /\ WorkTyped /\ AddTyped /\ BaseTyped

-----------------------------------------------------------------------------
\* Where executeRun and executeBlockCheck are while the job is active.
Live    == ExecPlaces \ {"none", "save", "end"}
\* Where only a run, not a block check, can be.
RunOnly == {"rules", "baseline", "judge", "start", "pend", "close", "merge", "save"}
\* Where workers may be alive, and where sandboxes of the pool may be up.
AtWork  == {"start", "pend", "feed", "close", "wait"}
Testing == AtWork \cup {"merge", "clean"}
Pooled  == Testing \cup {"slots"}
\* Before wg.Wait has returned.
Before  == {"none", "rules", "baseline", "judge", "slots"} \cup AtWork
\* Once the closure for AddRunThreads was published.
Published == {"pend", "feed", "close", "wait", "merge", "clean", "final", "save", "end"}

\* A worker that has an index of the plan; one whose index is not yet counted.
Holding   == {"got", "launch", "probe", "verify", "count", "append"}
Uncounted == Holding \ {"append"}

-----------------------------------------------------------------------------
(* The part of the invariant that speaks of one job: place e, record b,    *)
(* locals p, workers k, and whether its context is cancelled, c.           *)

\* The record says where the job is.
Staged(e, b, p) ==
    /\ b.status = "none" => e = "none"
    /\ e \in Live => b.status \in {"running", "error", "cancelled"}
    /\ e = "save" => b.status \in {"done", "error", "cancelled"}
    /\ e \in RunOnly => b.kind # "check"
    /\ e = "slots" => b.kind = "check"
    /\ e = "none" => p = NewPool
    /\ e \in {"rules", "baseline", "judge"} => p.started = 0
    /\ e = "close" => ~p.feeding

\* A live worker has one of the sandboxes that were counted.
WorkersIn(e, p, k) ==
    \A w \in Slots : k[w].pc # "off" => e \in AtWork /\ w < p.started

\* What was fed is tested, held by a worker, or dropped by a cancellation.
Covered(e, b, p, k, c) ==
    e \in Before =>
        \A i \in 1..p.next : \/ c
                             \/ b.results[i] # "none"
                             \/ \E w \in Slots : k[w].pc \in Holding /\ k[w].idx = i

\* The whole plan was fed unless the job was cancelled; and the whole plan is
\* tested once it is over.
Complete(e, b, p, c) ==
    /\ e \in {"close", "wait"} => c \/ p.next = PlanLen
    /\ \/ e \in {"merge", "clean", "final"} /\ b.status = "running" /\ p.started > 0
       \/ e \in {"save", "end"} /\ b.status = "done" /\ p.started > 0
       => \A i \in Plan : b.results[i] # "none"

\* The counter of results stays behind the feeder.
BusyOf(k) == {w \in Slots : k[w].pc \in Uncounted}
CountOf(p, k) == p.done + Cardinality(BusyOf(k)) <= p.next

Sound(e, b, p, k, c) ==
    Staged(e, b, p) /\ WorkersIn(e, p, k) /\ Covered(e, b, p, k, c) /\ Complete(e, b, p, c)
      /\ CountOf(p, k)

AllSound == \A j \in Jobs : Sound(exec[j], job[j], pool[j], worker[j], j \in ctx)

(* The part that speaks of the whole.                                      *)

\* One job at a time, and active or activeBC names it.
OneJob ==
    /\ \A j \in Jobs : exec[j] \in Live =>
          IF IsCheck(j) THEN activeBC = j /\ active = None ELSE active = j /\ activeBC = None
    /\ active # None => exec[active] \in Live
    /\ activeBC # None => exec[activeBC] \in Live

\* A call of the closure belongs to a job that published it, which takes new
\* workers only while it feeds.
Feedable(j) == exec[j] \in Published /\ (pool[j].feeding => exec[j] \in {"pend", "feed"})
Adders ==
    /\ addWorker # None => Feedable(addWorker)
    /\ \A c \in Agents : adder[c].pc # "idle" => adder[c].job \in Jobs /\ Feedable(adder[c].job)

\* What is in the router belongs to the job at work.
Owns(j, w) ==
    \/ exec[j] = "baseline" /\ w = pool[j].asked
    \/ exec[j] \in Pooled /\ w < pool[j].started
Needs(j, w) == worker[j][w].pc # "off" \/ (exec[j] = "slots" /\ w < pool[j].started)
Router ==
    proc = "up" =>
        /\ \A w \in Slots : rules[w] # None => Owns(rules[w], w)
        /\ \A w \in engines : \E j \in Jobs : exec[j] \in Testing /\ w < pool[j].started
        /\ \A j \in Jobs, w \in Slots : Needs(j, w) => rules[w] = j

\* Nothing of a dead process runs.
GoneIsGone ==
    ~Running => \A j \in Jobs : exec[j] \in {"none", "end"} /\ pool[j].started = 0

\* The inductive invariant.
IInv == Typed /\ AllSound /\ OneJob /\ Adders /\ Router /\ GoneIsGone /\ RaiseNotLost

\* The invariant of the tests: one during which isolation was lost finds its
\* rules gone when it checks them, and one that counts was isolated.
Watched ==
    \A j \in Jobs, w \in Slots :
        ~IsCheck(j) /\ <<j, w>> \in tainted =>
            /\ worker[j][w].pc \in {"probe", "verify"} => ~Isolated(w)
            /\ worker[j][w].pc \in {"count", "append"} => ~worker[j][w].good

-----------------------------------------------------------------------------
(* Lemmas about the data.                                                  *)

USE ConstantsOK

\* Typed is TypeOK in parts.
LEMMA TypedIsTypeOK == Typed <=> TypeOK
BY DEF Typed, TypeOK, JobsTyped, ExecTyped, PoolTyped, WorkTyped, AddTyped, BaseTyped, JobRecs,
   JobKinds, Statuses, ExecPlaces, PoolRecs, Workers, WorkerRecs, WorkerPCs, AdderRecs

\* One entry of the records of the jobs changes.
LEMMA SetJob ==
    ASSUME JobsTyped, NEW j \in Jobs, NEW b \in JobRecs, job' = [job EXCEPT ![j] = b]
    PROVE  JobsTyped' /\ job'[j] = b /\ \A i \in Jobs \ {j} : job'[i] = job[i]
BY DEF JobsTyped

\* One entry of the locals of the jobs changes.
LEMMA SetPool ==
    ASSUME PoolTyped, NEW j \in Jobs, NEW p \in PoolRecs, pool' = [pool EXCEPT ![j] = p]
    PROVE  PoolTyped' /\ pool'[j] = p /\ \A i \in Jobs \ {j} : pool'[i] = pool[i]
BY DEF PoolTyped

\* One job moves to another place of its function.
LEMMA SetExec ==
    ASSUME ExecTyped, NEW j \in Jobs, NEW e \in ExecPlaces, Goto(j, e)
    PROVE  ExecTyped' /\ exec'[j] = e /\ \A i \in Jobs \ {j} : exec'[i] = exec[i]
BY DEF ExecTyped, Goto

\* One worker of one job changes.
LEMMA SetWorker ==
    ASSUME WorkTyped, NEW j \in Jobs, NEW w \in Slots, NEW r \in WorkerRecs, Worker(j, w, r)
    PROVE  /\ WorkTyped'
           /\ worker'[j] = [worker[j] EXCEPT ![w] = r]
           /\ \A i \in Jobs \ {j} : worker'[i] = worker[i]
BY DEF WorkTyped, Workers, Worker

\* One call of the closure changes.
LEMMA SetAdder ==
    ASSUME AddTyped, NEW c \in Agents, NEW r \in AdderRecs, adder' = [adder EXCEPT ![c] = r]
    PROVE  AddTyped' /\ adder'[c] = r /\ \A d \in Agents \ {c} : adder'[d] = adder[d]
BY DEF AddTyped

\* The records made by the steps have their types.
LEMMA JobStatus ==
    ASSUME NEW b \in JobRecs, NEW s \in Statuses
    PROVE  [b EXCEPT !.status = s] \in JobRecs
BY DEF JobRecs

\* The record of a job that was never started has its type.
LEMMA IdleJobOK == IdleJob \in JobRecs
BY DEF IdleJob, JobRecs, JobKinds, Statuses

\* The locals of a job that was never started have their types.
LEMMA NewPoolOK == NewPool \in PoolRecs
BY DEF NewPool, PoolRecs

\* So has the record of a worker that does not exist,
LEMMA NoWorkerOK == NoWorker \in WorkerRecs
BY DEF NoWorker, WorkerRecs, WorkerPCs

\* and that of one that waits for its first index.
LEMMA Receiving ==
    [NoWorker EXCEPT !.pc = "recv"] \in WorkerRecs /\ [NoWorker EXCEPT !.pc = "recv"].pc = "recv"
<1>1. ASSUME NEW r \in WorkerRecs, NEW l \in WorkerPCs
      PROVE  [r EXCEPT !.pc = l] \in WorkerRecs /\ [r EXCEPT !.pc = l].pc = l
  BY DEF WorkerRecs
<1>2. NoWorker \in WorkerRecs
  BY NoWorkerOK
<1> HIDE DEF NoWorker
<1> QED BY <1>1, <1>2 DEF WorkerPCs

\* And so has a caller of AddRunThreads that is outside the closure.
LEMMA NoAdderOK == NoAdder \in AdderRecs
BY DEF NoAdder, AdderRecs

\* Least(t, the bounds) is a number of threads.
LEMMA LeastOK ==
    ASSUME NEW m \in Nat, NEW n \in Nat
    PROVE  Least(m, n) \in Nat /\ Least(m, n) <= m /\ Least(m, n) <= n
BY DEF Least

\* One worker more or less that holds an uncounted index.
LEMMA BusyFinite == \A k : IsFiniteSet(BusyOf(k)) /\ Cardinality(BusyOf(k)) \in Nat
<1> SUFFICES ASSUME NEW k PROVE IsFiniteSet(BusyOf(k)) /\ Cardinality(BusyOf(k)) \in Nat
  OBVIOUS
<1>1. IsFiniteSet(0..MaxThreads)
  BY FS_Interval
<1>2. BusyOf(k) \subseteq 0..MaxThreads
  BY DEF BusyOf, Slots
<1> QED BY <1>1, <1>2, FS_Subset, FS_CardinalityType

\* A worker that no longer holds an uncounted index is one fewer of them.
LEMMA BusyLess ==
    ASSUME NEW k \in Workers, NEW w \in Slots, NEW r \in WorkerRecs,
           k[w].pc \in Uncounted, r.pc \notin Uncounted
    PROVE  Cardinality(BusyOf([k EXCEPT ![w] = r])) = Cardinality(BusyOf(k)) - 1
<1>1. BusyOf([k EXCEPT ![w] = r]) = BusyOf(k) \ {w} /\ w \in BusyOf(k)
  BY DEF BusyOf, Workers
<1> QED BY <1>1, BusyFinite, FS_RemoveElement, ZenonT(60)

\* A worker that now holds one is one more.
LEMMA BusyMore ==
    ASSUME NEW k \in Workers, NEW w \in Slots, NEW r \in WorkerRecs,
           k[w].pc \notin Uncounted, r.pc \in Uncounted
    PROVE  Cardinality(BusyOf([k EXCEPT ![w] = r])) = Cardinality(BusyOf(k)) + 1
<1>1. BusyOf([k EXCEPT ![w] = r]) = BusyOf(k) \cup {w} /\ w \notin BusyOf(k)
  BY DEF BusyOf, Workers
<1> QED BY <1>1, BusyFinite, FS_AddElement

\* A worker that held one and still does, or neither, changes nothing.
LEMMA BusySame ==
    ASSUME NEW k \in Workers, NEW w \in Slots, NEW r \in WorkerRecs,
           k[w].pc \in Uncounted <=> r.pc \in Uncounted
    PROVE  BusyOf([k EXCEPT ![w] = r]) = BusyOf(k)
BY DEF BusyOf, Workers

\* No worker is busy when all are off or waiting for an index.
LEMMA BusyNone ==
    ASSUME NEW k, \A w \in Slots : k[w].pc \notin Uncounted
    PROVE  Cardinality(BusyOf(k)) = 0
<1>1. BusyOf(k) = {}
  BY DEF BusyOf
<1> QED BY <1>1, FS_EmptySet

-----------------------------------------------------------------------------
(* Lemmas about the steps.                                                 *)

\* A step of job j: the others keep their state.
Others(j) ==
    \A i \in Jobs \ {j} :
        /\ exec'[i] = exec[i] /\ job'[i] = job[i] /\ pool'[i] = pool[i] /\ worker'[i] = worker[i]
        /\ i \in ctx' <=> i \in ctx

\* The sandboxes of its pool stay where they are.
KeepsPooled(j) ==
    \A w \in Slots : exec[j] \in Pooled /\ w < pool[j].started
                        => /\ exec'[j] \in Pooled /\ w < pool'[j].started
                           /\ exec[j] \in Testing => exec'[j] \in Testing

\* It needs no sandbox that it did not.
NoNewNeed(j) == \A w \in Slots : Needs(j, w)' => Needs(j, w)

\* There is one job at work.
LEMMA Unique ==
    ASSUME OneJob, NEW j \in Jobs, NEW i \in Jobs, exec[j] \in Live, exec[i] \in Live
    PROVE  i = j
BY DEF OneJob

\* A worker alive is one of the job at work.
LEMMA AliveIsLive ==
    ASSUME AllSound, NEW j \in Jobs, NEW w \in Slots, worker[j][w].pc # "off"
    PROVE  exec[j] \in AtWork /\ exec[j] \in Live /\ w < pool[j].started
BY DEF AllSound, Sound, WorkersIn, AtWork, Live, ExecPlaces

\* The invariant of the others and of j is the invariant of all.
LEMMA SoundOfAll ==
    ASSUME AllSound, NEW j \in Jobs, Others(j),
           Sound(exec'[j], job'[j], pool'[j], worker'[j], j \in ctx')
    PROVE  AllSound'
<1>1. ASSUME NEW i \in Jobs \ {j}
      PROVE  Sound(exec'[i], job'[i], pool'[i], worker'[i], i \in ctx')
  <2>1. Sound(exec[i], job[i], pool[i], worker[i], i \in ctx)
    BY DEF AllSound
  <2>2. i \in ctx' <=> i \in ctx
    BY DEF Others
  <2>3. Sound(exec[i], job[i], pool[i], worker[i], i \in ctx')
    BY <2>1, <2>2 DEF Sound, Covered, Complete
  <2> QED BY <2>3 DEF Others
<1> QED BY <1>1 DEF AllSound

\* A step that leaves the active jobs and the places alone.
LEMMA OneJobKept ==
    ASSUME OneJob, {active, activeBC} \subseteq Jobs \cup {None}, UNCHANGED <<active, activeBC>>,
           \A i \in Jobs : (exec'[i] \in Live <=> exec[i] \in Live) /\ job'[i].kind = job[i].kind
    PROVE  OneJob'
BY DEF OneJob, IsCheck

\* A step that leaves the closure and its calls alone.
LEMMA AddersKept ==
    ASSUME Adders, addWorker \in Jobs \cup {None}, UNCHANGED <<addWorker, adder>>,
           \A i \in Jobs : Feedable(i) => Feedable(i)'
    PROVE  Adders'
BY DEF Adders

\* The router when nothing is installed or removed,
LEMMA RouterKept ==
    ASSUME Router, BaseTyped, NEW j \in Jobs, Others(j), UNCHANGED <<proc, rules>>,
           \A w \in engines' : w \in engines \/ (exec[j] \in Testing /\ w < pool[j].started),
           engines' \subseteq Slots, KeepsPooled(j), NoNewNeed(j),
           exec[j] = "baseline" => exec'[j] = "baseline" /\ pool'[j].asked = pool[j].asked
    PROVE  Router'
<1> SUFFICES ASSUME proc = "up" PROVE Router'
  BY DEF Router
<1>1. \A i \in Jobs, w \in Slots : Owns(i, w) => Owns(i, w)'
  BY DEF Owns, Others, KeepsPooled
<1>2. \A w \in Slots : rules'[w] # None => Owns(rules[w], w)'
  BY <1>1 DEF Router, BaseTyped
<1>3. \A w \in engines' : \E i \in Jobs : exec'[i] \in Testing /\ w < pool'[i].started
  BY DEF Router, Others, KeepsPooled, BaseTyped, Pooled
<1>4. \A i \in Jobs, w \in Slots : Needs(i, w)' => rules'[w] = i
  BY DEF Router, Others, NoNewNeed, Needs
<1> QED BY <1>2, <1>3, <1>4 DEF Router

\* when j installs the rules of slot x, on which nobody works,
LEMMA RouterUp ==
    ASSUME Router, AllSound, AllSound', OneJob, OneJob', BaseTyped, NEW j \in Jobs, NEW x \in Slots,
           exec[j] \in Live, exec'[j] \in Live, Others(j), RulesUp(j, x), UNCHANGED <<proc, engines>>,
           KeepsPooled(j), Owns(j, x)', exec[j] # "baseline",
           \A w \in Slots \ {x} : Needs(j, w)' => Needs(j, w)
    PROVE  Router'
<1> SUFFICES ASSUME proc = "up" PROVE Router'
  BY DEF Router
<1>1. \A w \in Slots : rules'[w] = IF w = x THEN j ELSE rules[w]
  BY DEF RulesUp, BaseTyped
<1>2. \A i \in Jobs, w \in Slots : Owns(i, w) => Owns(i, w)'
  BY DEF Owns, Others, KeepsPooled
<1>3. \A w \in Slots : rules'[w] # None => Owns(rules[w], w)'
  BY <1>1, <1>2 DEF Router, BaseTyped
<1>4. \A w \in engines' : \E i \in Jobs : exec'[i] \in Testing /\ w < pool'[i].started
  BY DEF Router, Others, KeepsPooled, BaseTyped, Pooled
<1>5. ASSUME NEW i \in Jobs, NEW w \in Slots, Needs(i, w)' PROVE rules'[w] = i
  <2>1. exec'[i] \in Live
    BY <1>5 DEF AllSound, Sound, WorkersIn, AtWork, Live, ExecPlaces, Needs
  <2>2. i = j
    BY <2>1, Unique DEF OneJob
  <2> QED BY <1>1, <1>5, <2>2 DEF Router
<1> QED BY <1>3, <1>4, <1>5 DEF Router

\* and when j removes rules, on which no worker is left.
LEMMA RouterDown ==
    ASSUME Router, OneJob, AllSound, BaseTyped, NEW j \in Jobs, NEW ws, exec[j] \in Live,
           Others(j), RulesDown(ws), proc' = proc, engines' \subseteq engines, NoNewNeed(j),
           \A w \in ws : w \in Slots => ~Needs(j, w)',
           \A w \in Slots \ ws : Owns(j, w) => Owns(j, w)',
           \A w \in engines' : exec[j] \in Testing /\ w < pool[j].started
                                 => exec'[j] \in Testing /\ w < pool'[j].started
    PROVE  Router'
<1> SUFFICES ASSUME proc = "up" PROVE Router'
  BY DEF Router
<1>1. \A w \in Slots : rules'[w] = IF w \in ws THEN None ELSE rules[w]
  BY DEF RulesDown
<1>2. \A w \in Slots : rules'[w] # None => Owns(rules[w], w)'
  BY <1>1 DEF Router, BaseTyped, Owns, Others
<1>3. \A w \in engines' : \E i \in Jobs : exec'[i] \in Testing /\ w < pool'[i].started
  BY DEF Router, Others, BaseTyped
<1>4. ASSUME NEW i \in Jobs, NEW w \in Slots, Needs(i, w)' PROVE rules'[w] = i
  <2>1. Needs(i, w)
    BY <1>4 DEF Others, NoNewNeed, Needs
  <2>2. i = j
    BY <2>1, AliveIsLive, Unique DEF Needs, Live, ExecPlaces
  <2> QED BY <1>1, <1>4, <2>1, <2>2 DEF Router
<1> QED BY <1>2, <1>3, <1>4 DEF Router

\* A step of an active job that keeps who is active and who adds threads.
LEMMA StepOfJob ==
    ASSUME IInv, Typed', NEW j \in Jobs, Others(j), exec[j] \in Live, exec'[j] \in Live,
           job'[j].kind = job[j].kind, Sound(exec'[j], job'[j], pool'[j], worker'[j], j \in ctx'),
           Router', UNCHANGED <<proc, active, activeBC, addWorker, pending, adder>>,
           Feedable(j) => Feedable(j)'
    PROVE  IInv'
<1>1. AllSound'
  BY SoundOfAll DEF IInv
<1>2. OneJob'
  BY OneJobKept DEF IInv, Typed, BaseTyped, Others
<1>3. Adders'
  <2>1. \A i \in Jobs : Feedable(i) => Feedable(i)'
    BY DEF Feedable, Others
  <2> QED BY <2>1, AddersKept DEF IInv, Typed, BaseTyped
<1>4. GoneIsGone'
  BY DEF IInv, GoneIsGone, Running, Live
<1>5. RaiseNotLost'
  BY DEF IInv, RaiseNotLost
<1> QED BY <1>1, <1>2, <1>3, <1>4, <1>5 DEF IInv

\* A step of worker w that counts nothing and keeps the index it holds, unless
\* the job is cancelled.
LEMMA StepOfWorker ==
    ASSUME IInv, NEW j \in Jobs, NEW w \in Slots, NEW r \in WorkerRecs, Worker(j, w, r),
           worker[j][w].pc # "off",
           r.pc \in Uncounted => worker[j][w].pc \in Uncounted,
           worker[j][w].pc \in Holding => j \in ctx \/ (r.pc \in Holding /\ r.idx = worker[j][w].idx),
           engines' \subseteq engines \cup {w}, tainted' \subseteq tainted,
           UNCHANGED <<control, job, ctx, exec, pool, adder, rules, broken, disk, faults>>
    PROVE  IInv'
<1> USE DEF control, disk
<1>1. /\ WorkTyped'
      /\ worker'[j] = [worker[j] EXCEPT ![w] = r]
      /\ \A i \in Jobs \ {j} : worker'[i] = worker[i]
  BY SetWorker DEF IInv, Typed
<1>2. Typed'
  BY <1>1 DEF IInv, Typed, BaseTyped, JobsTyped, ExecTyped, PoolTyped, AddTyped
<1>3. Others(j)
  BY <1>1 DEF Others
<1>4. exec[j] \in AtWork /\ exec[j] \in Live /\ w < pool[j].started
  BY AliveIsLive DEF IInv
<1>5. worker[j] \in Workers /\ pool[j] \in PoolRecs
  BY DEF IInv, Typed, WorkTyped, PoolTyped
<1>6. \A v \in Slots : worker'[j][v] = IF v = w THEN r ELSE worker[j][v]
  BY <1>1, <1>5 DEF Workers
<1>7. Sound(exec'[j], job'[j], pool'[j], worker'[j], j \in ctx')
  <2>1. Sound(exec[j], job[j], pool[j], worker[j], j \in ctx)
    BY DEF IInv, AllSound
  <2>2. WorkersIn(exec'[j], pool'[j], worker'[j])
    BY <2>1, <1>4, <1>6 DEF Sound, WorkersIn
  <2>3. Covered(exec'[j], job'[j], pool'[j], worker'[j], j \in ctx')
    <3> SUFFICES ASSUME exec[j] \in Before, NEW i \in 1..pool[j].next, j \notin ctx,
                        job[j].results[i] = "none"
                 PROVE  \E v \in Slots : worker'[j][v].pc \in Holding /\ worker'[j][v].idx = i
      BY DEF Covered
    <3>1. PICK v \in Slots : worker[j][v].pc \in Holding /\ worker[j][v].idx = i
      BY <2>1 DEF Sound, Covered
    <3>2. worker'[j][v].pc \in Holding /\ worker'[j][v].idx = i
      BY <3>1, <1>6
    <3> QED BY <3>2
  <2>4. CountOf(pool'[j], worker'[j])
    <3>1. BusyOf(worker'[j]) \subseteq BusyOf(worker[j])
      BY <1>6 DEF BusyOf
    <3>2. Cardinality(BusyOf(worker'[j])) <= Cardinality(BusyOf(worker[j]))
      BY <3>1, BusyFinite, FS_Subset
    <3>3. pool[j].done \in Nat /\ pool[j].next \in Nat
      BY <1>5 DEF PoolRecs
    <3>4. Cardinality(BusyOf(worker'[j])) \in Nat /\ Cardinality(BusyOf(worker[j])) \in Nat
      BY BusyFinite
    <3>5. pool[j].done + Cardinality(BusyOf(worker[j])) <= pool[j].next
      BY <2>1 DEF Sound, CountOf
    <3> HIDE DEF BusyOf
    <3> QED BY <3>2, <3>3, <3>4, <3>5 DEF CountOf
  <2> QED BY <2>1, <2>2, <2>3, <2>4 DEF Sound
<1>8. Router'
  <2>1. KeepsPooled(j) /\ NoNewNeed(j)
    BY <1>6 DEF KeepsPooled, NoNewNeed, Needs
  <2>2. exec[j] \in Testing
    BY <1>4 DEF Testing
  <2> QED BY <1>2, <1>3, <1>4, <2>1, <2>2, RouterKept DEF IInv, Typed, BaseTyped
<1> QED BY <1>2, <1>3, <1>4, <1>7, <1>8, StepOfJob DEF Feedable

\* The steps of a worker.
LEMMA WorkerRecord ==
    ASSUME IInv, NEW j \in Jobs, NEW w \in Slots
    PROVE  /\ worker[j][w] \in WorkerRecs
           /\ \A l \in WorkerPCs : [worker[j][w] EXCEPT !.pc = l] \in WorkerRecs
           /\ \A l \in WorkerPCs, g \in BOOLEAN :
                 [worker[j][w] EXCEPT !.pc = l, !.good = g] \in WorkerRecs
<1>1. worker[j][w] \in WorkerRecs
  BY DEF IInv, Typed, WorkTyped, Workers
<1>2. ASSUME NEW r \in WorkerRecs, NEW l \in WorkerPCs, NEW g \in BOOLEAN
      PROVE  [r EXCEPT !.pc = l] \in WorkerRecs /\ [r EXCEPT !.pc = l, !.good = g] \in WorkerRecs
  BY DEF WorkerRecs
<1> QED BY <1>1, <1>2

\* The worker's range over the jobs channel ends: the channel is closed.
LEMMA RecvClosedStep == ASSUME IInv, NEW j \in Jobs, NEW w \in Slots, RecvClosed(j, w) PROVE IInv'
BY StepOfWorker, NoWorkerOK DEF RecvClosed, WorkerAt, NoWorker, Uncounted, Holding, kernel

\* The worker looks at its context after it has received an index.
LEMMA ReceivedStep == ASSUME IInv, NEW j \in Jobs, NEW w \in Slots, Received(j, w) PROVE IInv'
<1> DEFINE r == IF j \in ctx THEN NoWorker
                ELSE [worker[j][w] EXCEPT !.pc = IF IsCheck(j) THEN "probe" ELSE "launch"]
<1>1. r \in WorkerRecs
  BY WorkerRecord, NoWorkerOK DEF WorkerPCs
<1>2. /\ r.pc \in Uncounted => worker[j][w].pc \in Uncounted
      /\ j \in ctx \/ (r.pc \in Holding /\ r.idx = worker[j][w].idx)
  BY WorkerRecord, ZenonT(60) DEF Received, WorkerAt, NoWorker, Uncounted, Holding, WorkerRecs
<1>3. Worker(j, w, r) /\ worker[j][w].pc = "got"
  BY DEF Received, WorkerAt
<1>4. UNCHANGED <<control, job, ctx, exec, pool, adder, kernel, disk, tainted, faults>>
  BY DEF Received
<1> HIDE DEF r
<1> QED BY <1>1, <1>2, <1>3, <1>4, StepOfWorker DEF kernel

\* testStrategy checks the rules and starts the engine, or fails to.
LEMMA StartNfqwsStep == ASSUME IInv, NEW j \in Jobs, NEW w \in Slots, StartNfqws(j, w) PROVE IInv'
<1>1. /\ worker[j][w].pc = "launch" /\ tainted' \subseteq tainted
      /\ engines' \subseteq engines \cup {w}
      /\ \/ Worker(j, w, [worker[j][w] EXCEPT !.pc = "probe"])
         \/ Worker(j, w, [worker[j][w] EXCEPT !.pc = "count", !.good = FALSE])
      /\ UNCHANGED <<control, job, ctx, exec, pool, adder, rules, broken, disk, faults>>
  BY DEF StartNfqws, WorkerAt
<1>2. \A l \in {"probe", "count"} :
         [worker[j][w] EXCEPT !.pc = l].idx = worker[j][w].idx
         /\ [worker[j][w] EXCEPT !.pc = l].pc = l
         /\ [worker[j][w] EXCEPT !.pc = l, !.good = FALSE].idx = worker[j][w].idx
         /\ [worker[j][w] EXCEPT !.pc = l, !.good = FALSE].pc = l
  BY WorkerRecord DEF WorkerRecs
<1> QED BY <1>1, <1>2, WorkerRecord, StepOfWorker DEF Uncounted, Holding, WorkerPCs

\* The targets are probed.
LEMMA ProbeStep == ASSUME IInv, NEW j \in Jobs, NEW w \in Slots, Probe(j, w) PROVE IInv'
<1>1. PICK g \in BOOLEAN, l \in {"count", "verify"} :
         Worker(j, w, [worker[j][w] EXCEPT !.good = g, !.pc = l])
  BY DEF Probe
<1>2. [worker[j][w] EXCEPT !.good = g, !.pc = l] = [worker[j][w] EXCEPT !.pc = l, !.good = g]
  BY WorkerRecord DEF WorkerRecs
<1>3. /\ [worker[j][w] EXCEPT !.pc = l, !.good = g].idx = worker[j][w].idx
      /\ [worker[j][w] EXCEPT !.pc = l, !.good = g].pc = l
  BY WorkerRecord DEF WorkerRecs
<1>4. /\ worker[j][w].pc = "probe"
      /\ UNCHANGED <<control, job, ctx, exec, pool, adder, kernel, disk, tainted, faults>>
  BY DEF Probe, WorkerAt
<1> QED BY <1>1, <1>2, <1>3, <1>4, WorkerRecord, StepOfWorker, ZenonT(60)
        DEF Uncounted, Holding, WorkerPCs, kernel

\* testStrategy checks the rules again and stops the engine.
LEMMA CheckRulesStep == ASSUME IInv, NEW j \in Jobs, NEW w \in Slots, CheckRules(j, w) PROVE IInv'
<1> DEFINE g == worker[j][w].good /\ Isolated(w)
<1>1. g \in BOOLEAN
  BY WorkerRecord DEF WorkerRecs
<1>2. [worker[j][w] EXCEPT !.pc = "count", !.good = @ /\ Isolated(w)]
        = [worker[j][w] EXCEPT !.pc = "count", !.good = g]
  OBVIOUS
<1>3. /\ [worker[j][w] EXCEPT !.pc = "count", !.good = g].idx = worker[j][w].idx
      /\ [worker[j][w] EXCEPT !.pc = "count", !.good = g].pc = "count"
  BY WorkerRecord DEF WorkerRecs
<1>4. /\ worker[j][w].pc = "verify" /\ engines' \subseteq engines
      /\ Worker(j, w, [worker[j][w] EXCEPT !.pc = "count", !.good = g])
      /\ UNCHANGED <<control, job, ctx, exec, pool, adder, rules, broken, disk, tainted, faults>>
  BY <1>2 DEF CheckRules, WorkerAt
<1> HIDE DEF g
<1> QED BY <1>1, <1>3, <1>4, WorkerRecord, StepOfWorker DEF Uncounted, Holding, WorkerPCs

\* The types of one job, and what the invariant says of it.
LEMMA PartsOf ==
    ASSUME IInv, NEW j \in Jobs
    PROVE  /\ job[j] \in JobRecs /\ pool[j] \in PoolRecs /\ worker[j] \in Workers
           /\ exec[j] \in ExecPlaces
           /\ Sound(exec[j], job[j], pool[j], worker[j], j \in ctx)
BY DEF IInv, Typed, JobsTyped, PoolTyped, WorkTyped, ExecTyped, AllSound

\* A step that leaves the router, the places and all jobs but j alone.
LEMMA RouterQuiet ==
    ASSUME IInv, Typed', NEW j \in Jobs, Others(j), UNCHANGED <<proc, rules, engines>>,
           KeepsPooled(j), NoNewNeed(j), exec[j] # "baseline"
    PROVE  Router'
BY RouterKept DEF IInv, Typed, BaseTyped

\* The worker adds its result to the counter.
LEMMA CountDoneStep == ASSUME IInv, NEW j \in Jobs, NEW w \in Slots, CountDone(j, w) PROVE IInv'
<1> USE DEF control, disk, kernel
<1> DEFINE k == worker[j]
           p == [pool[j] EXCEPT !.done = @ + 1]
           r == [worker[j][w] EXCEPT !.pc = "append", !.n = pool[j].done + 1]
<1>1. Sound(exec[j], job[j], pool[j], k, j \in ctx) /\ pool[j] \in PoolRecs /\ k \in Workers
  BY PartsOf
<1>2. /\ k[w].pc = "count" /\ Worker(j, w, r) /\ pool' = [pool EXCEPT ![j] = p]
      /\ UNCHANGED <<control, job, ctx, exec, adder, kernel, disk, tainted, faults>>
  BY DEF CountDone, WorkerAt
<1>3. k[w] \in WorkerRecs /\ pool[j].done \in Nat /\ pool[j].next \in 0..PlanLen
  BY <1>1 DEF Workers, PoolRecs
<1>4. r.pc = "append" /\ r.idx = k[w].idx
  BY <1>3 DEF WorkerRecs
<1>5. pool[j].done + Cardinality(BusyOf(k)) <= pool[j].next
  BY <1>1 DEF Sound, CountOf
<1>6. pool[j].done + 1 \in 0..PlanLen /\ (r \in WorkerRecs => CountOf(p, [k EXCEPT ![w] = r]))
  <2>1. w \in BusyOf(k)
    BY <1>2 DEF BusyOf, Uncounted, Holding
  <2>2. Cardinality(BusyOf(k)) \in Nat /\ Cardinality(BusyOf(k)) # 0
    BY <2>1, BusyFinite, FS_EmptySet
  <2>3. r \in WorkerRecs => Cardinality(BusyOf([k EXCEPT ![w] = r])) = Cardinality(BusyOf(k)) - 1
    BY <1>1, <1>2, <1>4, BusyLess DEF Uncounted, Holding
  <2>4. p.done = pool[j].done + 1 /\ p.next = pool[j].next
    BY <1>1 DEF PoolRecs
  <2> HIDE DEF p, k, r
  <2>5. pool[j].done + 1 \in 0..PlanLen
    BY <1>3, <1>5, <2>2
  <2>6. r \in WorkerRecs => CountOf(p, [k EXCEPT ![w] = r])
    BY <1>3, <1>5, <2>2, <2>3, <2>4 DEF CountOf
  <2> QED BY <2>5, <2>6
<1>7. r \in WorkerRecs /\ p \in PoolRecs
  BY <1>1, <1>3, <1>6 DEF WorkerRecs, PoolRecs, WorkerPCs
<1>8. /\ p.next = pool[j].next /\ p.started = pool[j].started /\ p.feeding = pool[j].feeding
      /\ p.asked = pool[j].asked
  BY <1>1 DEF PoolRecs
<1> HIDE DEF p, r, k
<1>9. /\ PoolTyped' /\ pool'[j] = p /\ \A i \in Jobs \ {j} : pool'[i] = pool[i]
      /\ WorkTyped' /\ worker'[j] = [k EXCEPT ![w] = r] /\ \A i \in Jobs \ {j} : worker'[i] = worker[i]
  <2>1. PoolTyped' /\ pool'[j] = p /\ \A i \in Jobs \ {j} : pool'[i] = pool[i]
    BY <1>2, <1>7, SetPool DEF IInv, Typed
  <2>2. WorkTyped' /\ worker'[j] = [k EXCEPT ![w] = r] /\ \A i \in Jobs \ {j} : worker'[i] = worker[i]
    BY <1>2, <1>7, SetWorker DEF IInv, Typed, k
  <2> QED BY <2>1, <2>2
<1>10. Typed'
  BY <1>2, <1>9 DEF IInv, Typed, BaseTyped, JobsTyped, ExecTyped, AddTyped
<1>11. Others(j)
  BY <1>2, <1>9 DEF Others
<1>12. exec[j] \in AtWork /\ exec[j] \in Live /\ w < pool[j].started
  BY <1>2, AliveIsLive DEF IInv, k
<1>13. \A v \in Slots : worker'[j][v] = IF v = w THEN r ELSE k[v]
  BY <1>1, <1>9 DEF Workers
<1>14. Sound(exec'[j], job'[j], pool'[j], worker'[j], j \in ctx')
  <2> USE <1>1, <1>2, <1>8, <1>9 DEF Sound
  <2>1. WorkersIn(exec'[j], pool'[j], worker'[j])
    BY <1>12, <1>13 DEF WorkersIn
  <2>2. Covered(exec'[j], job'[j], pool'[j], worker'[j], j \in ctx')
    BY <1>4, <1>13 DEF Covered, Holding
  <2>3. CountOf(pool'[j], worker'[j])
    BY <1>6, <1>7
  <2>4. Staged(exec'[j], job'[j], pool'[j]) /\ Complete(exec'[j], job'[j], pool'[j], j \in ctx')
    BY <1>12 DEF Staged, Complete, AtWork
  <2> QED BY <2>1, <2>2, <2>3, <2>4
<1>15. Router'
  <2>1. KeepsPooled(j) /\ NoNewNeed(j) /\ exec[j] # "baseline"
    BY <1>2, <1>8, <1>9, <1>12, <1>13 DEF KeepsPooled, NoNewNeed, Needs, AtWork, k
  <2> QED BY <1>2, <1>10, <1>11, <2>1, RouterQuiet
<1>16. Feedable(j) => Feedable(j)'
  BY <1>2, <1>8, <1>9 DEF Feedable
<1> QED BY <1>2, <1>10, <1>11, <1>12, <1>14, <1>15, <1>16, StepOfJob

\* The worker writes its result into the record, with the count it has read.
LEMMA AppendStep == ASSUME IInv, NEW j \in Jobs, NEW w \in Slots, Append(j, w) PROVE IInv'
<1> USE DEF control, disk, kernel
<1> DEFINE k == worker[j]
           v == IF k[w].good THEN "good" ELSE "bad"
           b == [job[j] EXCEPT !.results = [@ EXCEPT ![k[w].idx] = v], !.done = k[w].n]
           r == [NoWorker EXCEPT !.pc = "recv"]
<1>1. /\ Sound(exec[j], job[j], pool[j], k, j \in ctx) /\ pool[j] \in PoolRecs /\ k \in Workers
      /\ job[j] \in JobRecs
  BY PartsOf
<1>2. /\ k[w].pc = "append" /\ Worker(j, w, r) /\ job' = [job EXCEPT ![j] = b]
      /\ tainted' \subseteq tainted
      /\ UNCHANGED <<control, ctx, exec, pool, adder, kernel, disk, faults>>
  BY DEF Append, WorkerAt
<1>3. k[w] \in WorkerRecs /\ k[w].idx \in 0..PlanLen /\ k[w].n \in 0..PlanLen
  BY <1>1 DEF Workers, WorkerRecs
<1>4. r \in WorkerRecs /\ r.pc = "recv"
  BY Receiving
<1>5. b \in JobRecs /\ b.kind = job[j].kind /\ b.status = job[j].status
      /\ \A i \in Plan : b.results[i] = IF i = k[w].idx THEN v ELSE job[j].results[i]
  <2> HIDE DEF k, v
  <2>1. v \in {"none", "good", "bad"}
    BY DEF v
  <2>2. [job[j].results EXCEPT ![k[w].idx] = v] \in [Plan -> {"none", "good", "bad"}]
    BY <1>1, <2>1 DEF JobRecs
  <2> QED BY <1>1, <1>3, <2>2 DEF JobRecs
<1>6. v # "none"
  OBVIOUS
<1> HIDE DEF b, r, k, v
<1>9. /\ JobsTyped' /\ job'[j] = b /\ \A i \in Jobs \ {j} : job'[i] = job[i]
      /\ WorkTyped' /\ worker'[j] = [k EXCEPT ![w] = r] /\ \A i \in Jobs \ {j} : worker'[i] = worker[i]
  <2>1. JobsTyped' /\ job'[j] = b /\ \A i \in Jobs \ {j} : job'[i] = job[i]
    BY <1>2, <1>5, SetJob DEF IInv, Typed
  <2>2. WorkTyped' /\ worker'[j] = [k EXCEPT ![w] = r] /\ \A i \in Jobs \ {j} : worker'[i] = worker[i]
    BY <1>2, <1>4, SetWorker DEF IInv, Typed, k
  <2> QED BY <2>1, <2>2
<1>10. Typed'
  BY <1>2, <1>9 DEF IInv, Typed, BaseTyped, PoolTyped, ExecTyped, AddTyped
<1>11. Others(j)
  BY <1>2, <1>9 DEF Others
<1>12. exec[j] \in AtWork /\ exec[j] \in Live /\ w < pool[j].started
  BY <1>2, AliveIsLive DEF IInv, k
<1>13. \A x \in Slots : worker'[j][x] = IF x = w THEN r ELSE k[x]
  BY <1>1, <1>9 DEF Workers
<1>14. Sound(exec'[j], job'[j], pool'[j], worker'[j], j \in ctx')
  <2> USE <1>1, <1>2, <1>5, <1>9 DEF Sound
  <2>1. WorkersIn(exec'[j], pool'[j], worker'[j])
    BY <1>12, <1>13 DEF WorkersIn
  <2>2. Covered(exec'[j], job'[j], pool'[j], worker'[j], j \in ctx')
    <3> SUFFICES ASSUME exec[j] \in Before, NEW i \in 1..pool[j].next, j \notin ctx,
                        b.results[i] = "none"
                 PROVE  \E x \in Slots : worker'[j][x].pc \in Holding /\ worker'[j][x].idx = i
      BY DEF Covered
    <3>0. i \in Plan
      BY DEF Plan, PoolRecs
    <3>1. i # k[w].idx /\ job[j].results[i] = "none"
      BY <3>0, <1>6
    <3>2. PICK x \in Slots : k[x].pc \in Holding /\ k[x].idx = i
      BY <3>1 DEF Covered
    <3> QED BY <3>1, <3>2, <1>13
  <2>3. CountOf(pool'[j], worker'[j])
    BY <1>3, <1>4, BusySame DEF Uncounted, Holding, CountOf
  <2>4. Staged(exec'[j], job'[j], pool'[j]) /\ Complete(exec'[j], job'[j], pool'[j], j \in ctx')
    BY <1>12 DEF Staged, Complete, AtWork
  <2> QED BY <2>1, <2>2, <2>3, <2>4
<1>15. Router'
  <2>1. KeepsPooled(j) /\ NoNewNeed(j) /\ exec[j] # "baseline"
    BY <1>2, <1>9, <1>12, <1>13 DEF KeepsPooled, NoNewNeed, Needs, AtWork, k
  <2> QED BY <1>2, <1>10, <1>11, <2>1, RouterQuiet
<1>16. Feedable(j) => Feedable(j)'
  BY <1>2, <1>9 DEF Feedable
<1> QED BY <1>2, <1>5, <1>9, <1>10, <1>11, <1>12, <1>14, <1>15, <1>16, StepOfJob

\* The feeder gives the next index to a worker that waits.
LEMMA FeedStep == ASSUME IInv, NEW j \in Jobs, NEW w \in Slots, Feed(j, w) PROVE IInv'
<1> USE DEF control, disk, kernel
<1> DEFINE k == worker[j]
           p == [pool[j] EXCEPT !.next = @ + 1]
           r == [k[w] EXCEPT !.pc = "got", !.idx = pool[j].next + 1]
<1>1. Sound(exec[j], job[j], pool[j], k, j \in ctx) /\ pool[j] \in PoolRecs /\ k \in Workers
  BY PartsOf
<1>2. /\ k[w].pc = "recv" /\ Worker(j, w, r) /\ pool' = [pool EXCEPT ![j] = p]
      /\ exec[j] = "feed" /\ pool[j].next < PlanLen
      /\ UNCHANGED <<control, job, ctx, exec, adder, kernel, disk, tainted, faults>>
  BY DEF Feed, Worker, At
<1>3. k[w] \in WorkerRecs /\ pool[j].done \in Nat /\ pool[j].next \in 0..PlanLen
  BY <1>1 DEF Workers, PoolRecs
<1>4. r.pc = "got" /\ r.idx = pool[j].next + 1
  BY <1>3 DEF WorkerRecs
<1>7. r \in WorkerRecs /\ p \in PoolRecs
  <2>1. pool[j].next + 1 \in 0..PlanLen
    BY <1>2, <1>3
  <2> HIDE DEF k
  <2>2. r \in WorkerRecs
    BY <2>1, <1>3 DEF WorkerRecs, WorkerPCs
  <2>3. p \in PoolRecs
    BY <2>1, <1>1 DEF PoolRecs
  <2> QED BY <2>2, <2>3
<1>8. /\ p.next = pool[j].next + 1 /\ p.started = pool[j].started /\ p.feeding = pool[j].feeding
      /\ p.asked = pool[j].asked /\ p.done = pool[j].done
  BY <1>1 DEF PoolRecs
<1> HIDE DEF p, r, k
<1>9. /\ PoolTyped' /\ pool'[j] = p /\ \A i \in Jobs \ {j} : pool'[i] = pool[i]
      /\ WorkTyped' /\ worker'[j] = [k EXCEPT ![w] = r] /\ \A i \in Jobs \ {j} : worker'[i] = worker[i]
  <2>1. PoolTyped' /\ pool'[j] = p /\ \A i \in Jobs \ {j} : pool'[i] = pool[i]
    BY <1>2, <1>7, SetPool DEF IInv, Typed
  <2>2. WorkTyped' /\ worker'[j] = [k EXCEPT ![w] = r] /\ \A i \in Jobs \ {j} : worker'[i] = worker[i]
    BY <1>2, <1>7, SetWorker DEF IInv, Typed, k
  <2> QED BY <2>1, <2>2
<1>10. Typed'
  BY <1>2, <1>9 DEF IInv, Typed, BaseTyped, JobsTyped, ExecTyped, AddTyped
<1>11. Others(j)
  BY <1>2, <1>9 DEF Others
<1>12. exec[j] \in AtWork /\ exec[j] \in Live /\ w < pool[j].started
  BY <1>2, AliveIsLive DEF IInv, k
<1>13. \A v \in Slots : worker'[j][v] = IF v = w THEN r ELSE k[v]
  BY <1>1, <1>9 DEF Workers
<1>14. Sound(exec'[j], job'[j], pool'[j], worker'[j], j \in ctx')
  <2> USE <1>1, <1>2, <1>8, <1>9 DEF Sound
  <2>1. WorkersIn(exec'[j], pool'[j], worker'[j])
    BY <1>12, <1>13 DEF WorkersIn
  <2>2. Covered(exec'[j], job'[j], pool'[j], worker'[j], j \in ctx')
    <3> SUFFICES ASSUME NEW i \in 1..(pool[j].next + 1), j \notin ctx, job[j].results[i] = "none"
                 PROVE  \E x \in Slots : worker'[j][x].pc \in Holding /\ worker'[j][x].idx = i
      BY DEF Covered
    <3>1. CASE i = pool[j].next + 1
      BY <3>1, <1>4, <1>13 DEF Holding
    <3>2. CASE i # pool[j].next + 1
      <4>1. i \in 1..pool[j].next
        BY <3>2, <1>3
      <4>2. PICK x \in Slots : k[x].pc \in Holding /\ k[x].idx = i
        BY <4>1 DEF Covered, Before, AtWork
      <4> QED BY <4>2, <1>13 DEF Holding
    <3> QED BY <3>1, <3>2
  <2>3. CountOf(pool'[j], worker'[j])
    <3>1. Cardinality(BusyOf([k EXCEPT ![w] = r])) = Cardinality(BusyOf(k)) + 1
      BY <1>3, <1>4, <1>7, BusyMore DEF Uncounted, Holding
    <3> QED BY <3>1, <1>3, BusyFinite DEF CountOf
  <2>4. Staged(exec'[j], job'[j], pool'[j]) /\ Complete(exec'[j], job'[j], pool'[j], j \in ctx')
    BY <1>12 DEF Staged, Complete, AtWork
  <2> QED BY <2>1, <2>2, <2>3, <2>4
<1>15. Router'
  <2>1. KeepsPooled(j) /\ NoNewNeed(j) /\ exec[j] # "baseline"
    BY <1>2, <1>8, <1>9, <1>12, <1>13 DEF KeepsPooled, NoNewNeed, Needs, AtWork, k
  <2> QED BY <1>2, <1>10, <1>11, <2>1, RouterQuiet
<1>16. Feedable(j) => Feedable(j)'
  BY <1>2, <1>8, <1>9 DEF Feedable
<1> QED BY <1>2, <1>10, <1>11, <1>12, <1>14, <1>15, <1>16, StepOfJob

-----------------------------------------------------------------------------
(* The steps of executeRun and executeBlockCheck that move the job on.     *)

\* The job goes to e with record b.
LEMMA PlaceMoves ==
    ASSUME IInv, BaseTyped', NEW j \in Jobs, NEW e \in ExecPlaces, Goto(j, e), NEW b \in JobRecs,
           job' = [job EXCEPT ![j] = b] \/ (job' = job /\ b = job[j]),
           UNCHANGED <<pool, worker, adder, ctx>>
    PROVE  Typed' /\ Others(j) /\ exec'[j] = e /\ job'[j] = b
<1>1. ExecTyped' /\ exec'[j] = e /\ \A i \in Jobs \ {j} : exec'[i] = exec[i]
  BY SetExec DEF IInv, Typed
<1>2. JobsTyped' /\ job'[j] = b /\ \A i \in Jobs \ {j} : job'[i] = job[i]
  <2>1. CASE job' = job /\ b = job[j]
    BY <2>1 DEF IInv, Typed, JobsTyped
  <2>2. CASE job' = [job EXCEPT ![j] = b]
    BY <2>2, SetJob DEF IInv, Typed
  <2> QED BY <2>1, <2>2
<1> QED BY <1>1, <1>2 DEF IInv, Typed, PoolTyped, WorkTyped, AddTyped, Others

\* It does so with its pool and its workers as they are.
LEMMA StepOfPlace ==
    ASSUME IInv, BaseTyped', NEW j \in Jobs, NEW e \in Live, Goto(j, e), NEW b \in JobRecs,
           job' = [job EXCEPT ![j] = b] \/ (job' = job /\ b = job[j]),
           UNCHANGED <<control, pool, worker, adder, ctx>>, exec[j] \in Live,
           b.kind = job[j].kind, Sound(e, b, pool[j], worker[j], j \in ctx),
           exec[j] \in Published => e \in Published /\ (pool[j].feeding => e \in {"pend", "feed"}),
           Others(j) /\ exec'[j] = e => Router'
    PROVE  IInv'
<1> USE DEF control
<1>1. Typed' /\ Others(j) /\ exec'[j] = e /\ job'[j] = b
  BY PlaceMoves DEF Live
<1>2. Feedable(j) => Feedable(j)'
  BY <1>1 DEF Feedable
<1> QED BY <1>1, <1>2, StepOfJob

\* The job moves on after it has fed its last index: the closure adds nobody.
LEMMA StepOfEnd ==
    ASSUME IInv, BaseTyped', NEW j \in Jobs, NEW e \in Live \cap Published, Goto(j, e),
           NEW b \in JobRecs, job' = [job EXCEPT ![j] = b] \/ (job' = job /\ b = job[j]),
           UNCHANGED <<control, pool, worker, adder, ctx>>, exec[j] \in {"wait", "merge", "clean"},
           b.kind = job[j].kind, Sound(e, b, pool[j], worker[j], j \in ctx),
           Others(j) /\ exec'[j] = e => Router'
    PROVE  IInv'
<1> USE DEF control
<1>1. Typed' /\ Others(j) /\ exec'[j] = e /\ job'[j] = b
  BY PlaceMoves DEF Live
<1>2. Feedable(j) => Feedable(j)'
  BY <1>1 DEF Feedable
<1>3. exec[j] \in Live
  BY DEF Live, ExecPlaces
<1> QED BY <1>1, <1>2, <1>3, StepOfJob

\* A new status of the record.
LEMMA StatusOf ==
    ASSUME NEW b \in JobRecs, NEW s \in Statuses
    PROVE  /\ [b EXCEPT !.status = s] \in JobRecs
           /\ [b EXCEPT !.status = s].status = s
           /\ [b EXCEPT !.status = s].kind = b.kind
           /\ [b EXCEPT !.status = s].results = b.results
BY DEF JobRecs

\* Outside AtWork the workers are off.
LEMMA NobodyWorks ==
    ASSUME IInv, NEW j \in Jobs, exec[j] \notin AtWork
    PROVE  \A w \in Slots : worker[j][w].pc = "off"
BY PartsOf DEF Sound, WorkersIn

\* The job fails before its pool works.
LEMMA StepOfFailure ==
    ASSUME IInv, BaseTyped', NEW j \in Jobs, NEW e \in {"clean", "final"}, Goto(j, e),
           job' = [job EXCEPT ![j] = [job[j] EXCEPT !.status = "error"]],
           UNCHANGED <<control, pool, worker, adder, ctx>>, exec[j] \in Live \ Published,
           \A w \in Slots : worker[j][w].pc = "off", Others(j) /\ exec'[j] = e => Router'
    PROVE  IInv'
<1>1. PICK b : b = [job[j] EXCEPT !.status = "error"]
  OBVIOUS
<1>2. job[j] \in JobRecs /\ Sound(exec[j], job[j], pool[j], worker[j], j \in ctx)
  BY PartsOf
<1>3. b \in JobRecs /\ b.kind = job[j].kind /\ b.status = "error"
  BY <1>1, <1>2, StatusOf DEF Statuses
<1>4. e \in Live /\ e \in Published
  BY DEF Live, ExecPlaces, Published
<1>5. Sound(e, b, pool[j], worker[j], j \in ctx)
  <2>1. Staged(e, b, pool[j])
    BY <1>3, <1>4 DEF Staged, RunOnly, Live
  <2>2. WorkersIn(e, pool[j], worker[j])
    BY DEF WorkersIn
  <2>3. Covered(e, b, pool[j], worker[j], j \in ctx) /\ Complete(e, b, pool[j], j \in ctx)
    BY <1>3 DEF Covered, Complete, Before, AtWork
  <2> QED BY <1>2, <2>1, <2>2, <2>3 DEF Sound
<1>6. job' = [job EXCEPT ![j] = b]
  BY <1>1
<1> QED BY <1>3, <1>4, <1>5, <1>6, StepOfPlace

\* The baseline's sandbox is set up, or the run fails.
LEMMA BaselineRulesStep == ASSUME IInv, NEW j \in Jobs, BaselineRules(j) PROVE IInv'
<1> USE DEF control, disk
<1> DEFINE s == pool[j].asked
<1>1. /\ Sound(exec[j], job[j], pool[j], worker[j], j \in ctx) /\ pool[j] \in PoolRecs
      /\ job[j] \in JobRecs
  BY PartsOf
<1>2. /\ exec[j] = "rules" /\ exec[j] \in Live /\ s \in Slots
      /\ UNCHANGED <<control, ctx, pool, worker, adder, engines, disk, tainted, faults>>
  BY <1>1 DEF BaselineRules, At, Live, ExecPlaces, PoolRecs, Slots
<1>3. \A w \in Slots : worker[j][w].pc = "off"
  BY <1>2, NobodyWorks DEF AtWork
<1>4. BaseTyped'
  BY <1>2 DEF BaselineRules, RulesUp, RulesDown, IInv, Typed, BaseTyped
<1>5. CASE RulesUp(j, s) /\ Goto(j, "baseline") /\ UNCHANGED job
  <2>1. Sound("baseline", job[j], pool[j], worker[j], j \in ctx)
    BY <1>1, <1>2, <1>3 DEF Sound, Staged, WorkersIn, Covered, Complete, Live, ExecPlaces, RunOnly,
       Before, AtWork
  <2>2. Typed' /\ Others(j) /\ exec'[j] = "baseline" /\ job'[j] = job[j]
    BY <1>1, <1>2, <1>4, <1>5, PlaceMoves DEF ExecPlaces
  <2>3. AllSound'
    BY <1>2, <2>1, <2>2, SoundOfAll DEF IInv
  <2>4. OneJob'
    BY <1>2, <2>2, OneJobKept DEF IInv, Typed, BaseTyped, Others, Live, ExecPlaces
  <2>5. Router'
    <3>1. KeepsPooled(j) /\ Owns(j, s)'
      BY <1>2, <2>2 DEF KeepsPooled, Owns, Pooled, Testing, AtWork
    <3>2. exec'[j] \in Live
      BY <2>2 DEF Live, ExecPlaces
    <3>3. \A w \in Slots : ~Needs(j, w)'
      BY <1>2, <1>3, <2>2 DEF Needs
    <3> QED BY <1>2, <1>5, <2>2, <2>3, <2>4, <3>1, <3>2, <3>3, RouterUp DEF IInv, Typed
  <2> QED BY <1>1, <1>2, <1>4, <1>5, <2>1, <2>5, StepOfPlace DEF Live, ExecPlaces, Published
<1>6. CASE /\ RulesDown({s}) /\ Goto(j, "final")
           /\ job' = [job EXCEPT ![j] = [job[j] EXCEPT !.status = "error"]]
  <2>3. ASSUME Others(j), exec'[j] = "final" PROVE Router'
    <3>1. \A w \in Slots : ~Owns(j, w)
      BY <1>2 DEF Owns, Pooled, Testing, AtWork
    <3>2. exec[j] \notin Testing
      BY <1>2 DEF Pooled, Testing, AtWork
    <3> QED BY <1>2, <1>3, <1>6, <2>3, <3>1, <3>2, RouterDown DEF IInv, Typed, NoNewNeed, Needs
  <2> QED BY <1>2, <1>3, <1>4, <1>6, <2>3, StepOfFailure DEF Published
<1> QED BY <1>5, <1>6 DEF BaselineRules

\* The baseline is measured and its sandbox removed.
LEMMA BaselineStep == ASSUME IInv, NEW j \in Jobs, Baseline(j) PROVE IInv'
<1> USE DEF control, disk
<1> DEFINE s == pool[j].asked
<1>1. /\ Sound(exec[j], job[j], pool[j], worker[j], j \in ctx) /\ job[j] \in JobRecs
      /\ pool[j] \in PoolRecs
  BY PartsOf
<1>2. /\ exec[j] = "baseline" /\ exec[j] \in Live /\ RulesDown({s})
      /\ UNCHANGED <<control, ctx, pool, worker, adder, engines, disk, tainted, faults>>
  BY DEF Baseline, At, Live, ExecPlaces
<1>3. \A w \in Slots : worker[j][w].pc = "off"
  BY <1>2, NobodyWorks DEF AtWork
<1>4. BaseTyped'
  BY <1>2 DEF RulesDown, IInv, Typed, BaseTyped
<1>5. ASSUME Others(j), exec'[j] \in {"judge", "final"} PROVE Router'
  <2>1. \A w \in Slots \ {s} : ~Owns(j, w)
    BY <1>2 DEF Owns, Pooled, Testing, AtWork
  <2>2. exec[j] \notin Testing
    BY <1>2 DEF Pooled, Testing, AtWork
  <2> QED BY <1>2, <1>3, <1>5, <2>1, <2>2, RouterDown DEF IInv, Typed, NoNewNeed, Needs
<1>6. CASE Goto(j, "judge") /\ UNCHANGED job
  <2>1. Sound("judge", job[j], pool[j], worker[j], j \in ctx)
    BY <1>1, <1>2, <1>3 DEF Sound, Staged, WorkersIn, Covered, Complete, Live, ExecPlaces, RunOnly,
       Before, AtWork
  <2> QED BY <1>1, <1>2, <1>4, <1>5, <1>6, <2>1, StepOfPlace DEF Live, ExecPlaces, Published
<1>7. CASE Goto(j, "final") /\ job' = [job EXCEPT ![j] = [job[j] EXCEPT !.status = "error"]]
  BY <1>2, <1>3, <1>4, <1>5, <1>7, StepOfFailure DEF Published
<1> QED BY <1>6, <1>7 DEF Baseline

\* The router is left alone, and so are the sandboxes of the pool.
LEMMA RouterPlace ==
    ASSUME IInv, BaseTyped', NEW j \in Jobs, NEW e, Others(j), exec'[j] = e,
           UNCHANGED <<proc, rules, engines, pool, worker>>, exec[j] # "baseline", e # "slots",
           exec[j] \in Testing => e \in Testing \/ pool[j].started = 0,
           exec[j] = "slots" => e \in Pooled
    PROVE  Router'
<1>1. pool[j].started = 0 => \A w \in Slots : ~(w < pool[j].started)
  BY DEF Slots
<1>2. KeepsPooled(j) /\ NoNewNeed(j)
  BY <1>1 DEF KeepsPooled, NoNewNeed, Needs, Pooled, Testing
<1> QED BY <1>2, RouterKept DEF IInv, Typed, BaseTyped

\* What the baseline showed: cancelled, failed, nothing to do, or targets.
LEMMA JudgeStep == ASSUME IInv, NEW j \in Jobs, Judge(j) PROVE IInv'
<1> USE DEF control, disk, kernel
<1>1. /\ Sound(exec[j], job[j], pool[j], worker[j], j \in ctx) /\ job[j] \in JobRecs
      /\ pool[j] \in PoolRecs
  BY PartsOf
<1>2. /\ exec[j] = "judge" /\ exec[j] \in Live
      /\ UNCHANGED <<control, ctx, pool, worker, adder, kernel, disk, tainted, faults>>
  BY DEF Judge, At, Live, ExecPlaces
<1>3. \A w \in Slots : worker[j][w].pc = "off"
  BY <1>2, NobodyWorks DEF AtWork
<1>4. BaseTyped'
  BY <1>2 DEF IInv, Typed, BaseTyped
<1>5. ASSUME NEW e \in {"final", "start"}, NEW b \in JobRecs, Goto(j, e),
             job' = [job EXCEPT ![j] = b] \/ (job' = job /\ b = job[j]),
             b.kind = job[j].kind, b.results = job[j].results, b.status \in {job[j].status, "error"}
      PROVE  IInv'
  <2>1. e \in Live /\ e \notin Published \ {"final"}
    BY DEF Live, ExecPlaces, Published
  <2>2. b.status \in {"running", "error", "cancelled"}
    BY <1>1, <1>2, <1>5 DEF Sound, Staged
  <2>3. pool[j].started = 0 /\ job[j].kind # "check"
    BY <1>1, <1>2 DEF Sound, Staged, RunOnly
  <2>4. Staged(e, b, pool[j])
    BY <1>5, <2>2, <2>3 DEF Staged, RunOnly
  <2>5. Covered(e, b, pool[j], worker[j], j \in ctx)
    BY <1>1, <1>2, <1>5 DEF Sound, Covered, Before
  <2>6. Sound(e, b, pool[j], worker[j], j \in ctx)
    BY <1>1, <1>3, <2>3, <2>4, <2>5 DEF Sound, WorkersIn, Complete
  <2>7. Others(j) /\ exec'[j] = e => Router'
    BY <1>2, <1>4, RouterPlace DEF Pooled, Testing, AtWork
  <2> QED BY <1>2, <1>4, <1>5, <2>1, <2>6, <2>7, StepOfPlace DEF Published
<1>6. [job[j] EXCEPT !.total = 0] \in JobRecs /\ [job[j] EXCEPT !.total = 0].kind = job[j].kind
      /\ [job[j] EXCEPT !.total = 0].status = job[j].status
      /\ [job[j] EXCEPT !.total = 0].results = job[j].results
  BY <1>1 DEF JobRecs
<1>7. [job[j] EXCEPT !.status = "error"] \in JobRecs
      /\ [job[j] EXCEPT !.status = "error"].kind = job[j].kind
      /\ [job[j] EXCEPT !.status = "error"].status = "error"
      /\ [job[j] EXCEPT !.status = "error"].results = job[j].results
  BY <1>1, StatusOf DEF Statuses
<1>8. \/ Goto(j, "final") /\ UNCHANGED job
      \/ Goto(j, "final") /\ job' = [job EXCEPT ![j] = [job[j] EXCEPT !.status = "error"]]
      \/ Goto(j, "final") /\ job' = [job EXCEPT ![j] = [job[j] EXCEPT !.total = 0]]
      \/ Goto(j, "start") /\ UNCHANGED job
  BY DEF Judge
<1> QED BY <1>1, <1>5, <1>6, <1>7, <1>8

\* No worker could be set up: the run fails.
LEMMA NoWorkersStep == ASSUME IInv, NEW j \in Jobs, NoWorkers(j) PROVE IInv'
<1> USE DEF control, disk, kernel
<1>1. /\ exec[j] = "start" /\ exec[j] \in Live \ Published /\ pool[j].started = 0
      /\ job' = [job EXCEPT ![j] = [job[j] EXCEPT !.status = "error"]] /\ Goto(j, "clean")
      /\ UNCHANGED <<control, ctx, pool, worker, adder, kernel, disk, tainted, faults>>
  BY DEF NoWorkers, At, Live, ExecPlaces, Published
<1>2. \A w \in Slots : worker[j][w].pc = "off"
  BY <1>1, AliveIsLive DEF IInv, Slots
<1>3. BaseTyped'
  BY <1>1 DEF IInv, Typed, BaseTyped
<1>4. Others(j) /\ exec'[j] = "clean" => Router'
  BY <1>1, <1>3, RouterPlace
<1> QED BY <1>1, <1>2, <1>3, <1>4, StepOfFailure

\* The threads asked for during the baseline were added.
LEMMA PendAppliedStep == ASSUME IInv, NEW j \in Jobs, PendApplied(j) PROVE IInv'
<1> USE DEF control, disk, kernel
<1>1. Sound(exec[j], job[j], pool[j], worker[j], j \in ctx) /\ job[j] \in JobRecs
  BY PartsOf
<1>2. /\ exec[j] = "pend" /\ exec[j] \in Live /\ Goto(j, "feed") /\ job' = job
      /\ UNCHANGED <<control, ctx, pool, worker, adder, kernel, disk, tainted, faults>>
  BY DEF PendApplied, At, Live, ExecPlaces
<1>3. BaseTyped'
  BY <1>2 DEF IInv, Typed, BaseTyped
<1>4. Others(j) /\ exec'[j] = "feed" => Router'
  BY <1>2, <1>3, RouterPlace DEF Pooled, Testing, AtWork
<1>5. Sound("feed", job[j], pool[j], worker[j], j \in ctx)
  BY <1>1, <1>2 DEF Sound, Staged, WorkersIn, Covered, Complete, Live, ExecPlaces, RunOnly,
     Before, AtWork
<1> QED BY <1>1, <1>2, <1>3, <1>4, <1>5, StepOfPlace DEF Live, ExecPlaces, Published

\* The end of wg.Wait: the status is decided from what was tested and whether
\* the job was cancelled.
LEMMA FinishStep == ASSUME IInv, NEW j \in Jobs, Finish(j) PROVE IInv'
<1> USE DEF control, disk, kernel
<1> DEFINE e == IF IsCheck(j) THEN "clean" ELSE "merge"
<1>1. /\ Sound(exec[j], job[j], pool[j], worker[j], j \in ctx) /\ job[j] \in JobRecs
      /\ pool[j] \in PoolRecs
  BY PartsOf
<1>2. /\ exec[j] = "wait" /\ exec[j] \in Live /\ Goto(j, e)
      /\ \A w \in Slots : worker[j][w].pc = "off"
      /\ UNCHANGED <<control, ctx, pool, worker, adder, kernel, disk, tainted, faults>>
  BY DEF Finish, At, WorkersGone, Live, ExecPlaces
<1>3. BaseTyped'
  BY <1>2 DEF IInv, Typed, BaseTyped
<1>4. /\ e \in Live /\ e \in Testing /\ e \in Published /\ e \notin Before /\ e \notin AtWork
      /\ e \in RunOnly => ~IsCheck(j)
      /\ e \in {"clean", "merge"}
  BY DEF Live, ExecPlaces, Pooled, Testing, Published, Before, AtWork, RunOnly
<1> HIDE DEF e
<1>5. Others(j) /\ exec'[j] = e => Router'
  BY <1>2, <1>3, <1>4, RouterPlace
<1>6. ASSUME NEW b \in JobRecs, job' = [job EXCEPT ![j] = b] \/ (job' = job /\ b = job[j]),
             b.kind = job[j].kind, b.status \in {"running", "error", "cancelled"},
             b.status = "running" => j \notin ctx /\ b.results = job[j].results
      PROVE  IInv'
  <2>1. Staged(e, b, pool[j])
    BY <1>4, <1>6 DEF Staged, IsCheck
  <2>2. WorkersIn(e, pool[j], worker[j]) /\ Covered(e, b, pool[j], worker[j], j \in ctx)
    BY <1>2, <1>4 DEF WorkersIn, Covered
  <2>3. Complete(e, b, pool[j], j \in ctx)
    <3> SUFFICES ASSUME b.status = "running", NEW i \in Plan PROVE b.results[i] # "none"
      BY <1>4 DEF Complete
    <3>1. j \notin ctx /\ pool[j].next = PlanLen
      BY <1>1, <1>2, <1>6 DEF Sound, Complete
    <3>2. i \in 1..pool[j].next
      BY <3>1 DEF Plan
    <3>3. job[j].results[i] # "none"
      BY <1>1, <1>2, <3>1, <3>2 DEF Sound, Covered, Before, AtWork, Holding
    <3> QED BY <1>6, <3>3
  <2>4. Sound(e, b, pool[j], worker[j], j \in ctx)
    BY <1>1, <2>1, <2>2, <2>3 DEF Sound
  <2>5. ~pool[j].feeding \/ exec[j] \in Published
    BY <1>2 DEF Published
  <2> QED BY <1>2, <1>3, <1>4, <1>5, <1>6, <2>4, StepOfEnd
<1>7. ASSUME job' = [job EXCEPT ![j] = [@ EXCEPT !.status = "error", !.done = 0,
                                           !.results = IdleJob.results]]
      PROVE  IInv'
  <2>1. PICK b : b = [job[j] EXCEPT !.status = "error", !.done = 0, !.results = IdleJob.results]
    OBVIOUS
  <2>2. b \in JobRecs /\ b.kind = job[j].kind /\ b.status = "error"
    <3>1. IdleJob.results \in [Plan -> {"none", "good", "bad"}]
      BY DEF IdleJob
    <3>2. ASSUME NEW f \in [Plan -> {"none", "good", "bad"}], NEW r \in JobRecs
          PROVE  /\ [r EXCEPT !.status = "error", !.done = 0, !.results = f] \in JobRecs
                 /\ [r EXCEPT !.status = "error", !.done = 0, !.results = f].kind = r.kind
                 /\ [r EXCEPT !.status = "error", !.done = 0, !.results = f].status = "error"
      <4>1. PICK r1 : r1 = [r EXCEPT !.status = "error"]
        OBVIOUS
      <4>2. r1 \in JobRecs /\ r1.kind = r.kind /\ r1.status = "error"
        BY <4>1, StatusOf DEF Statuses
      <4>3. PICK r2 : r2 = [r1 EXCEPT !.done = 0]
        OBVIOUS
      <4>4. r2 \in JobRecs /\ r2.kind = r.kind /\ r2.status = "error"
        BY <4>2, <4>3 DEF JobRecs
      <4>5. [r2 EXCEPT !.results = f] \in JobRecs /\ [r2 EXCEPT !.results = f].kind = r.kind
            /\ [r2 EXCEPT !.results = f].status = "error"
        BY <4>4 DEF JobRecs
      <4> QED BY <4>1, <4>3, <4>5
    <3> HIDE DEF IdleJob
    <3> QED BY <1>1, <2>1, <3>1, <3>2
  <2>3. job' = [job EXCEPT ![j] = b]
    BY <1>7, <2>1
  <2> QED BY <1>6, <2>2, <2>3
<1>8. ASSUME j \in ctx, job' = [job EXCEPT ![j].status = "cancelled"] PROVE IInv'
  <2>1. PICK b : b = [job[j] EXCEPT !.status = "cancelled"]
    OBVIOUS
  <2>2. b \in JobRecs /\ b.kind = job[j].kind /\ b.status = "cancelled"
    BY <1>1, <2>1, StatusOf DEF Statuses
  <2>3. job' = [job EXCEPT ![j] = b]
    BY <1>8, <2>1
  <2> QED BY <1>6, <2>2, <2>3
<1>9. ASSUME j \notin ctx, job' = job PROVE IInv'
  BY <1>1, <1>2, <1>6, <1>9 DEF Sound, Staged
<1> QED BY <1>7, <1>8, <1>9 DEF Finish

\* The successful strategies go into the list.
LEMMA MergeSuccessfulStep == ASSUME IInv, NEW j \in Jobs, MergeSuccessful(j) PROVE IInv'
<1> USE DEF control, disk, kernel
<1>1. Sound(exec[j], job[j], pool[j], worker[j], j \in ctx) /\ job[j] \in JobRecs
  BY PartsOf
<1>2. /\ exec[j] = "merge" /\ exec[j] \in Live /\ Goto(j, "clean") /\ job' = job
      /\ UNCHANGED <<control, ctx, pool, worker, adder, kernel, saved, tainted, faults>>
  BY DEF MergeSuccessful, At, Live, ExecPlaces
<1>3. BaseTyped'
  BY <1>2 DEF MergeSuccessful, IInv, Typed, BaseTyped
<1>4. Others(j) /\ exec'[j] = "clean" => Router'
  BY <1>2, <1>3, RouterPlace DEF Pooled, Testing
<1>5. Sound("clean", job[j], pool[j], worker[j], j \in ctx)
  BY <1>1, <1>2 DEF Sound, Staged, WorkersIn, Covered, Complete, Live, ExecPlaces, RunOnly,
     Before, AtWork
<1> QED BY <1>1, <1>2, <1>3, <1>4, <1>5, StepOfEnd DEF Live, ExecPlaces, Published

\* The deferred clean-up removes every sandbox of the pool.
LEMMA CleanUpStep == ASSUME IInv, NEW j \in Jobs, CleanUp(j) PROVE IInv'
<1> USE DEF control, disk
<1>1. Sound(exec[j], job[j], pool[j], worker[j], j \in ctx) /\ job[j] \in JobRecs
  BY PartsOf
<1>2. /\ exec[j] = "clean" /\ exec[j] \in Live /\ Goto(j, "final") /\ job' = job
      /\ RulesDown(Used(j)) /\ engines' = engines \ Used(j)
      /\ UNCHANGED <<control, ctx, pool, worker, adder, disk, tainted, faults>>
  BY DEF CleanUp, At, Live, ExecPlaces
<1>3. BaseTyped'
  BY <1>2 DEF RulesDown, IInv, Typed, BaseTyped
<1>4. ASSUME Others(j), exec'[j] = "final" PROVE Router'
  <2>1. \A w \in Slots \ Used(j) : ~Owns(j, w) /\ ~(w < pool[j].started)
    BY <1>2 DEF Owns, Used
  <2>2. \A w \in engines' : ~(w < pool[j].started)
    BY <1>2 DEF Used, IInv, Typed, BaseTyped
  <2>3. \A w \in Slots : worker[j][w].pc = "off"
    BY <1>2, NobodyWorks DEF AtWork
  <2> QED BY <1>2, <1>4, <2>1, <2>2, <2>3, RouterDown DEF IInv, Typed, NoNewNeed, Needs
<1>5. Sound("final", job[j], pool[j], worker[j], j \in ctx)
  BY <1>1, <1>2 DEF Sound, Staged, WorkersIn, Covered, Complete, Live, ExecPlaces, RunOnly,
     Before, AtWork
<1> QED BY <1>1, <1>2, <1>3, <1>4, <1>5, StepOfEnd DEF Live, ExecPlaces, Published

\* The feeder is through with the plan, or the job was cancelled.
LEMMA FeedEndsStep == ASSUME IInv, NEW j \in Jobs, FeedEnds(j) PROVE IInv'
<1> USE DEF control, disk, kernel
<1> DEFINE e == IF IsCheck(j) THEN "wait" ELSE "close"
<1>1. /\ Sound(exec[j], job[j], pool[j], worker[j], j \in ctx) /\ pool[j] \in PoolRecs
  BY PartsOf
<1>2. PICK p : p = [pool[j] EXCEPT !.feeding = FALSE, !.closed = IsCheck(j)]
  OBVIOUS
<1>3. /\ exec[j] = "feed" /\ exec[j] \in Live /\ Goto(j, e)
      /\ j \in ctx \/ pool[j].next = PlanLen
      /\ UNCHANGED <<control, job, ctx, worker, adder, kernel, disk, tainted, faults>>
  BY DEF FeedEnds, At, Live, ExecPlaces
<1>4. pool' = [pool EXCEPT ![j] = p]
  BY <1>2 DEF FeedEnds
<1>5. /\ p \in PoolRecs /\ p.feeding = FALSE /\ p.started = pool[j].started /\ p.next = pool[j].next
      /\ p.done = pool[j].done
  BY <1>1, <1>2 DEF PoolRecs, IsCheck
<1>6. /\ e \in Live /\ e \in AtWork /\ e \in Published /\ e \in Testing /\ e \in ExecPlaces
      /\ e \in RunOnly => job[j].kind # "check"
      /\ e \in {"wait", "close"}
  BY DEF Live, ExecPlaces, AtWork, Published, Pooled, Testing, RunOnly, IsCheck
<1> HIDE DEF e
<1>7. /\ PoolTyped' /\ pool'[j] = p /\ \A i \in Jobs \ {j} : pool'[i] = pool[i]
      /\ ExecTyped' /\ exec'[j] = e /\ \A i \in Jobs \ {j} : exec'[i] = exec[i]
  BY <1>3, <1>4, <1>5, <1>6, SetPool, SetExec DEF IInv, Typed
<1>8. Typed' /\ Others(j)
  BY <1>3, <1>7 DEF IInv, Typed, BaseTyped, JobsTyped, WorkTyped, AddTyped, Others
<1>9. Sound(exec'[j], job'[j], pool'[j], worker'[j], j \in ctx')
  BY <1>1, <1>3, <1>5, <1>6, <1>7
     DEF Sound, Staged, WorkersIn, Covered, Complete, CountOf, Live, Before, AtWork
<1>10. Router'
  <2>1. KeepsPooled(j) /\ NoNewNeed(j) /\ exec[j] # "baseline"
    BY <1>3, <1>5, <1>6, <1>7 DEF KeepsPooled, NoNewNeed, Needs, Pooled
  <2> QED BY <1>3, <1>8, <2>1, RouterQuiet
<1>11. Feedable(j) => Feedable(j)'
  BY <1>5, <1>6, <1>7 DEF Feedable
<1> QED BY <1>3, <1>6, <1>7, <1>8, <1>9, <1>10, <1>11, StepOfJob

\* The closure is withdrawn before the channel is closed.
LEMMA CloseJobsStep == ASSUME IInv, NEW j \in Jobs, CloseJobs(j) PROVE IInv'
<1> USE DEF disk, kernel
<1>1. /\ Sound(exec[j], job[j], pool[j], worker[j], j \in ctx) /\ pool[j] \in PoolRecs
  BY PartsOf
<1>2. PICK p : p = [pool[j] EXCEPT !.closed = TRUE]
  OBVIOUS
<1>3. /\ exec[j] = "close" /\ exec[j] \in Live /\ Goto(j, "wait") /\ addWorker' = None
      /\ pool' = [pool EXCEPT ![j] = p]
      /\ UNCHANGED <<proc, active, activeBC, pending, job, ctx, worker, adder, kernel, disk, tainted, faults>>
  BY <1>2 DEF CloseJobs, At, Live, ExecPlaces
<1>5. /\ p \in PoolRecs /\ p.feeding = pool[j].feeding /\ p.started = pool[j].started
      /\ p.next = pool[j].next /\ p.done = pool[j].done
  BY <1>1, <1>2 DEF PoolRecs
<1>7. /\ PoolTyped' /\ pool'[j] = p /\ \A i \in Jobs \ {j} : pool'[i] = pool[i]
      /\ ExecTyped' /\ exec'[j] = "wait" /\ \A i \in Jobs \ {j} : exec'[i] = exec[i]
  BY <1>3, <1>5, SetPool, SetExec DEF IInv, Typed, ExecPlaces
<1>8. Typed' /\ Others(j)
  BY <1>3, <1>7 DEF IInv, Typed, BaseTyped, JobsTyped, WorkTyped, AddTyped, Others
<1>9. Sound(exec'[j], job'[j], pool'[j], worker'[j], j \in ctx')
  BY <1>1, <1>3, <1>5, <1>7
     DEF Sound, Staged, WorkersIn, Covered, Complete, CountOf, Live, ExecPlaces, Before, AtWork, RunOnly
<1>10. Router'
  <2>1. KeepsPooled(j) /\ NoNewNeed(j) /\ exec[j] # "baseline"
    BY <1>3, <1>5, <1>7 DEF KeepsPooled, NoNewNeed, Needs, Pooled, Testing, AtWork
  <2> QED BY <1>3, <1>8, <2>1, RouterQuiet
<1>11. AllSound'
  BY <1>8, <1>9, SoundOfAll DEF IInv
<1>12. OneJob'
  BY <1>3, <1>7, OneJobKept DEF IInv, Typed, BaseTyped, Live, ExecPlaces
<1>13. Adders'
  <2>1. \A i \in Jobs : Feedable(i) => Feedable(i)'
    BY <1>3, <1>5, <1>7, <1>8 DEF Feedable, Others, Published
  <2> QED BY <1>3, <2>1 DEF IInv, Adders
<1>14. GoneIsGone' /\ RaiseNotLost'
  BY <1>3 DEF IInv, GoneIsGone, RaiseNotLost, Running
<1> QED BY <1>8, <1>10, <1>11, <1>12, <1>13, <1>14 DEF IInv

-----------------------------------------------------------------------------
(* A pool that grows.                                                      *)

\* Two views of the pool of j that differ in nothing the invariant looks at.
SamePool(p, q) ==
    p.started = q.started /\ p.next = q.next /\ p.done = q.done /\ p.feeding = q.feeding

\* Another worker is ready: its rules are up and it waits for an index.
LEMMA ReadyKeeps ==
    ASSUME IInv, NEW j \in Jobs, NEW p \in PoolRecs, SamePool(p, pool[j]), p.started < MaxThreads,
           exec[j] \in {"start", "pend", "feed"}, Ready(j, p),
           UNCHANGED <<proc, active, activeBC, exec, ctx, engines>>, job' = job
    PROVE  /\ PoolTyped' /\ WorkTyped' /\ Others(j) /\ AllSound' /\ OneJob'
           /\ pool'[j].feeding = pool[j].feeding
           /\ BaseTyped' => Router'
<1>1. /\ Sound(exec[j], job[j], pool[j], worker[j], j \in ctx) /\ worker[j] \in Workers
      /\ pool[j] \in PoolRecs
  BY PartsOf
<1>2. exec[j] \in Live /\ exec[j] \in AtWork /\ exec[j] \in Pooled
  BY DEF Live, ExecPlaces, AtWork, Pooled, Testing
<1>3. PICK s \in Slots : s = p.started
  BY DEF PoolRecs, Slots
<1>4. PICK q : q = [p EXCEPT !.started = @ + 1]
  OBVIOUS
<1>5. PICK r : r = [worker[j][s] EXCEPT !.pc = "recv"]
  OBVIOUS
<1>6. /\ q \in PoolRecs /\ q.started = s + 1 /\ q.next = pool[j].next /\ q.done = pool[j].done
      /\ q.feeding = pool[j].feeding /\ s = pool[j].started
  BY <1>3, <1>4 DEF PoolRecs, SamePool
<1>7. worker[j][s] \in WorkerRecs
  BY <1>1 DEF Workers
<1>8. r \in WorkerRecs /\ r.pc = "recv"
  BY <1>5, <1>7 DEF WorkerRecs, WorkerPCs
<1>9. pool' = [pool EXCEPT ![j] = q] /\ Worker(j, s, r) /\ RulesUp(j, s)
  BY <1>3, <1>4, <1>5 DEF Ready, Worker
<1>10. PoolTyped' /\ pool'[j] = q /\ \A i \in Jobs \ {j} : pool'[i] = pool[i]
  BY <1>6, <1>9, SetPool DEF IInv, Typed
<1>11. WorkTyped' /\ worker'[j] = [worker[j] EXCEPT ![s] = r]
       /\ \A i \in Jobs \ {j} : worker'[i] = worker[i]
  BY <1>8, <1>9, SetWorker DEF IInv, Typed
<1>12. Others(j)
  BY <1>10, <1>11 DEF Others
<1>13. \A w \in Slots : worker'[j][w] = IF w = s THEN r ELSE worker[j][w]
  BY <1>1, <1>11 DEF Workers
<1>14. worker[j][s].pc = "off"
  BY <1>1, <1>6 DEF Sound, WorkersIn, Slots
<1>15. Sound(exec'[j], job'[j], pool'[j], worker'[j], j \in ctx')
  <2> USE <1>1, <1>6, <1>10 DEF Sound
  <2>1. WorkersIn(exec'[j], pool'[j], worker'[j])
    BY <1>2, <1>13 DEF WorkersIn, Slots
  <2>2. Covered(exec'[j], job'[j], pool'[j], worker'[j], j \in ctx')
    BY <1>13, <1>14 DEF Covered, Holding
  <2>3. CountOf(pool'[j], worker'[j])
    BY <1>7, <1>8, <1>11, <1>14, BusySame DEF CountOf, Uncounted, Holding
  <2>4. Staged(exec'[j], job'[j], pool'[j]) /\ Complete(exec'[j], job'[j], pool'[j], j \in ctx')
    BY DEF Staged, Complete
  <2> QED BY <2>1, <2>2, <2>3, <2>4
<1>16. AllSound'
  BY <1>12, <1>15, SoundOfAll DEF IInv
<1>17. OneJob'
  BY OneJobKept DEF IInv, Typed, BaseTyped
<1>18. ASSUME BaseTyped' PROVE Router'
  <2>1. \A w \in Slots : w < s => w < s + 1
    BY DEF Slots
  <2>2. KeepsPooled(j)
    BY <1>2, <1>6, <1>10, <2>1 DEF KeepsPooled
  <2>3. Owns(j, s)'
    BY <1>2, <1>6, <1>10 DEF Owns, Slots
  <2>4. \A w \in Slots \ {s} : Needs(j, w)' => Needs(j, w)
    BY <1>13 DEF Needs
  <2> QED BY <1>2, <1>9, <1>12, <1>16, <1>17, <2>2, <2>3, <2>4, RouterUp DEF IInv, Typed
<1> QED BY <1>6, <1>10, <1>11, <1>12, <1>16, <1>17, <1>18

\* It could not be set up: what was installed of its rules is removed.
LEMMA NotReadyKeeps ==
    ASSUME IInv, NEW j \in Jobs, NEW p \in PoolRecs, SamePool(p, pool[j]),
           exec[j] \in {"start", "pend", "feed"},
           NotReady(j, p) \/ (pool' = [pool EXCEPT ![j] = p] /\ UNCHANGED <<rules, worker>>),
           UNCHANGED <<proc, active, activeBC, exec, ctx, engines>>, job' = job
    PROVE  /\ PoolTyped' /\ WorkTyped' /\ Others(j) /\ AllSound' /\ OneJob'
           /\ pool'[j].feeding = pool[j].feeding
           /\ BaseTyped' => Router'
<1>1. /\ Sound(exec[j], job[j], pool[j], worker[j], j \in ctx) /\ worker[j] \in Workers
      /\ pool[j] \in PoolRecs
  BY PartsOf
<1>2. exec[j] \in Live /\ exec[j] \in AtWork /\ exec[j] \in Pooled
  BY DEF Live, ExecPlaces, AtWork, Pooled, Testing
<1>9. pool' = [pool EXCEPT ![j] = p] /\ worker' = worker
  BY DEF NotReady
<1>10. PoolTyped' /\ pool'[j] = p /\ \A i \in Jobs \ {j} : pool'[i] = pool[i]
  BY <1>9, SetPool DEF IInv, Typed
<1>11. WorkTyped'
  BY <1>9 DEF IInv, Typed, WorkTyped
<1>12. Others(j)
  BY <1>9, <1>10 DEF Others
<1>15. Sound(exec'[j], job'[j], pool'[j], worker'[j], j \in ctx')
  BY <1>1, <1>9, <1>10
     DEF Sound, SamePool, WorkersIn, Covered, CountOf, Staged, Complete
<1>16. AllSound'
  BY <1>12, <1>15, SoundOfAll DEF IInv
<1>17. OneJob'
  BY OneJobKept DEF IInv, Typed, BaseTyped
<1>18. ASSUME BaseTyped' PROVE Router'
  <2>1. NoNewNeed(j) /\ KeepsPooled(j) /\ exec[j] # "baseline"
    BY <1>9, <1>10 DEF NoNewNeed, Needs, KeepsPooled, SamePool
  <2>2. CASE UNCHANGED rules
    BY <1>12, <1>18, <2>1, <2>2, RouterKept DEF IInv, Typed, BaseTyped
  <2>3. CASE NotReady(j, p)
    <3>1. RulesDown({p.started})
      BY <2>3 DEF NotReady
    <3>2. p.started \in Slots => ~Needs(j, p.started)'
      BY <1>1, <1>9 DEF Sound, WorkersIn, SamePool, Slots, Needs
    <3>3. \A w \in Slots : Owns(j, w) => Owns(j, w)'
      BY <1>10, <2>1 DEF Owns, SamePool
    <3>4. \A w \in engines' : w < pool[j].started => w < pool'[j].started
      BY <1>10 DEF SamePool
    <3> QED BY <1>2, <1>12, <2>1, <3>1, <3>2, <3>3, <3>4, RouterDown DEF IInv, Typed
  <2> QED BY <2>2, <2>3
<1> QED BY <1>10, <1>11, <1>12, <1>16, <1>17, <1>18 DEF SamePool

\* One more sandbox was tried: of the pool's counters only `tried' is touched.
LEMMA Tried ==
    ASSUME NEW p \in PoolRecs, p.tried < p.asked
    PROVE  [p EXCEPT !.tried = @ + 1] \in PoolRecs /\ SamePool([p EXCEPT !.tried = @ + 1], p)
<1>1. p.tried + 1 \in 0..MaxThreads
  BY DEF PoolRecs
<1> QED BY <1>1 DEF PoolRecs, SamePool

\* What remains of the invariant when the pool grew.
LEMMA AfterGrowth ==
    ASSUME IInv, Typed', NEW j \in Jobs, Others(j), AllSound', OneJob', Router',
           pool'[j].feeding = pool[j].feeding, UNCHANGED <<proc, exec, addWorker, pending>>,
           \A c \in Agents : adder'[c].pc # "idle" =>
                                adder[c].pc # "idle" /\ adder'[c].job = adder[c].job,
           exec[j] \in Live
    PROVE  IInv'
<1>1. \A i \in Jobs : Feedable(i) => Feedable(i)'
  BY DEF Others, Feedable
<1>2. Adders'
  BY <1>1 DEF Adders, IInv, Typed, BaseTyped
<1>3. GoneIsGone' /\ RaiseNotLost'
  BY DEF IInv, GoneIsGone, RaiseNotLost, Running, Live
<1> QED BY <1>2, <1>3 DEF IInv

\* One call of startWorker by the run itself.
LEMMA StartWorkerStep == ASSUME IInv, NEW j \in Jobs, StartWorker(j) PROVE IInv'
<1> USE DEF control, disk
<1>1. pool[j] \in PoolRecs
  BY PartsOf
<1>2. PICK p : p = [pool[j] EXCEPT !.tried = @ + 1]
  OBVIOUS
<1>3. /\ exec[j] = "start" /\ exec[j] \in Live /\ pool[j].tried < pool[j].asked
      /\ UNCHANGED <<control, job, ctx, exec, adder, engines, disk, tainted, faults>>
      /\ \/ ~CanStart(j) /\ pool' = [pool EXCEPT ![j] = p] /\ UNCHANGED <<rules, broken, worker>>
         \/ CanStart(j) /\ (Ready(j, p) \/ NotReady(j, p))
  BY <1>2 DEF StartWorker, At, Live, ExecPlaces
<1>4. p \in PoolRecs /\ SamePool(p, pool[j])
  BY <1>1, <1>2, <1>3, Tried
<1>5. BaseTyped'
  BY <1>3 DEF Ready, NotReady, RulesUp, RulesDown, IInv, Typed, BaseTyped
<1>6. /\ PoolTyped' /\ WorkTyped' /\ Others(j) /\ AllSound' /\ OneJob'
      /\ pool'[j].feeding = pool[j].feeding /\ Router'
  <2>1. CASE CanStart(j) /\ Ready(j, p)
    <3>1. p.started < MaxThreads
      BY <1>4, <2>1 DEF CanStart, SamePool
    <3> QED BY <1>3, <1>4, <1>5, <2>1, <3>1, ReadyKeeps
  <2>2. CASE NotReady(j, p) \/ (pool' = [pool EXCEPT ![j] = p] /\ UNCHANGED <<rules, worker>>)
    BY <1>3, <1>4, <1>5, <2>2, NotReadyKeeps
  <2> QED BY <1>3, <2>1, <2>2
<1>7. Typed'
  BY <1>3, <1>5, <1>6 DEF IInv, Typed, JobsTyped, ExecTyped, AddTyped
<1> QED BY <1>3, <1>6, <1>7, AfterGrowth

\* A step of the calls of the closure that leaves all else alone.
LEMMA OnlyAdders ==
    ASSUME IInv, Typed', UNCHANGED <<proc, active, activeBC, addWorker, job, ctx, exec, pool, worker,
                                     rules, engines>>,
           pending' = pending \/ addWorker = None,
           \A c \in Agents : adder'[c].pc # "idle" =>
                                adder'[c].job \in Jobs /\ Feedable(adder'[c].job)
    PROVE  IInv'
<1>1. AllSound' /\ OneJob' /\ GoneIsGone' /\ RaiseNotLost'
  BY DEF IInv, AllSound, OneJob, IsCheck, GoneIsGone, Running, RaiseNotLost
<1>2. Adders'
  BY DEF IInv, Adders, Feedable
<1>3. Router'
  BY DEF IInv, Router, Owns, Needs
<1> QED BY <1>1, <1>2, <1>3 DEF IInv

\* The closure of the job adds a worker, or fails to.
LEMMA AddStartStep == ASSUME IInv, NEW c \in Agents, AddStart(c) PROVE IInv'
<1> USE DEF control, disk
<1> DEFINE j == adder[c].job
<1>1. /\ adder[c].pc = "start" /\ Running
      /\ UNCHANGED <<control, job, ctx, exec, engines, disk, tainted, faults>>
      /\ \/ CanStart(j) /\ adder' = [adder EXCEPT ![c].pc = "loop"] /\ Ready(j, pool[j])
         \/ CanStart(j) /\ adder' = [adder EXCEPT ![c].pc = "count"] /\ NotReady(j, pool[j])
         \/ ~CanStart(j) /\ adder' = [adder EXCEPT ![c].pc = "count"]
              /\ UNCHANGED <<rules, broken, pool, worker>>
  BY DEF AddStart, AddStep
<1>2. j \in Jobs /\ Feedable(j)
  BY <1>1 DEF IInv, Adders
<1>3. adder[c] \in AdderRecs
  BY DEF IInv, Typed, AddTyped
<1>4. PICK l \in {"loop", "count"} : adder' = [adder EXCEPT ![c].pc = l]
  BY <1>1
<1>5. PICK a : a = [adder[c] EXCEPT !.pc = l]
  OBVIOUS
<1>6. a \in AdderRecs /\ a.job = j /\ a.pc = l
  BY <1>3, <1>5 DEF AdderRecs
<1>7. AddTyped' /\ adder'[c] = a /\ \A d \in Agents \ {c} : adder'[d] = adder[d]
  BY <1>4, <1>5, <1>6, SetAdder DEF IInv, Typed
<1>8. BaseTyped'
  BY <1>1, <1>2 DEF Ready, NotReady, RulesUp, RulesDown, IInv, Typed, BaseTyped
<1>9. CASE CanStart(j) /\ (Ready(j, pool[j]) \/ NotReady(j, pool[j]))
  <2>1. exec[j] \in {"pend", "feed"} /\ exec[j] \in Live
    BY <1>2, <1>9 DEF CanStart, Feedable, Live, ExecPlaces
  <2>2. pool[j] \in PoolRecs /\ SamePool(pool[j], pool[j])
    BY <1>2, PartsOf DEF SamePool
  <2>3. CASE Ready(j, pool[j])
    <3>1. pool[j].started < MaxThreads
      BY <1>9 DEF CanStart
    <3>2. /\ PoolTyped' /\ WorkTyped' /\ Others(j) /\ AllSound' /\ OneJob'
          /\ pool'[j].feeding = pool[j].feeding /\ Router'
      BY <1>1, <1>2, <1>8, <2>1, <2>2, <2>3, <3>1, ReadyKeeps
    <3>3. Typed'
      BY <1>1, <1>7, <1>8, <3>2 DEF IInv, Typed, JobsTyped, ExecTyped
    <3> QED BY <1>1, <1>2, <1>6, <1>7, <2>1, <3>2, <3>3, AfterGrowth
  <2>4. CASE NotReady(j, pool[j])
    <3>2. /\ PoolTyped' /\ WorkTyped' /\ Others(j) /\ AllSound' /\ OneJob'
          /\ pool'[j].feeding = pool[j].feeding /\ Router'
      BY <1>1, <1>2, <1>8, <2>1, <2>2, <2>4, NotReadyKeeps
    <3>3. Typed'
      BY <1>1, <1>7, <1>8, <3>2 DEF IInv, Typed, JobsTyped, ExecTyped
    <3> QED BY <1>1, <1>2, <1>6, <1>7, <2>1, <3>2, <3>3, AfterGrowth
  <2> QED BY <1>9, <2>3, <2>4
<1>10. CASE UNCHANGED <<rules, broken, pool, worker>>
  <2>1. Typed'
    BY <1>1, <1>7, <1>8, <1>10 DEF IInv, Typed, JobsTyped, ExecTyped, PoolTyped, WorkTyped
  <2>2. \A d \in Agents : adder'[d].pc # "idle" =>
                             adder'[d].job \in Jobs /\ Feedable(adder'[d].job)
    BY <1>2, <1>6, <1>7 DEF IInv, Adders
  <2> QED BY <1>1, <1>10, <2>1, <2>2, OnlyAdders
<1> QED BY <1>1, <1>9, <1>10

\* The sandboxes of a block check: no worker runs before all of them are up.
LEMMA CheckSlotStep == ASSUME IInv, NEW j \in Jobs, CheckSlot(j) PROVE IInv'
<1> USE DEF control, disk
<1>1. /\ Sound(exec[j], job[j], pool[j], worker[j], j \in ctx) /\ pool[j] \in PoolRecs
  BY PartsOf
<1>2. PICK s \in Slots : s = pool[j].started
  BY <1>1 DEF PoolRecs, Slots
<1>3. /\ exec[j] = "slots" /\ exec[j] \in Live /\ s < pool[j].asked
      /\ UNCHANGED <<control, ctx, worker, adder, engines, disk, tainted, faults>>
  BY <1>2 DEF CheckSlot, At, Live, ExecPlaces
<1>4. \A w \in Slots : worker[j][w].pc = "off"
  BY <1>3, NobodyWorks DEF AtWork
<1>5. BaseTyped'
  BY <1>3 DEF CheckSlot, RulesUp, RulesDown, IInv, Typed, BaseTyped
<1>6. CASE RulesUp(j, s) /\ pool' = [pool EXCEPT ![j].started = @ + 1] /\ UNCHANGED <<job, exec>>
  <2>1. PICK p : p = [pool[j] EXCEPT !.started = @ + 1]
    OBVIOUS
  <2>2. s + 1 \in 0..MaxThreads
    BY <1>1, <1>2, <1>3 DEF PoolRecs
  <2>3. p \in PoolRecs /\ p.started = s + 1 /\ p.feeding = pool[j].feeding /\ p.next = pool[j].next
        /\ p.done = pool[j].done
    BY <1>1, <1>2, <2>1, <2>2 DEF PoolRecs
  <2>4. PoolTyped' /\ pool'[j] = p /\ \A i \in Jobs \ {j} : pool'[i] = pool[i]
    BY <1>6, <2>1, <2>3, SetPool DEF IInv, Typed
  <2>5. Typed' /\ Others(j)
    BY <1>3, <1>5, <1>6, <2>4 DEF IInv, Typed, JobsTyped, ExecTyped, WorkTyped, AddTyped, Others
  <2>6. Sound(exec'[j], job'[j], pool'[j], worker'[j], j \in ctx')
    BY <1>1, <1>3, <1>4, <1>6, <2>3, <2>4
       DEF Sound, Staged, WorkersIn, Covered, Complete, CountOf, RunOnly
  <2>7. AllSound' /\ OneJob'
    BY <1>3, <1>6, <2>5, <2>6, SoundOfAll, OneJobKept DEF IInv, Typed, BaseTyped
  <2>8. Router'
    <3>1. \A w \in Slots : w < s => w < s + 1
      BY DEF Slots
    <3>2. KeepsPooled(j)
      BY <1>2, <1>6, <2>3, <2>4, <3>1 DEF KeepsPooled
    <3>3. Owns(j, s)' /\ exec[j] # "baseline"
      <4>1. exec'[j] \in Pooled
        BY <1>3, <1>6 DEF Pooled
      <4>2. s < pool'[j].started
        BY <2>3, <2>4 DEF Slots
      <4> QED BY <1>3, <4>1, <4>2 DEF Owns
    <3>4. \A w \in Slots \ {s} : Needs(j, w)' => Needs(j, w)
      <4> SUFFICES ASSUME NEW w \in Slots \ {s}, w < s + 1 PROVE w < s
        BY <1>2, <1>3, <1>6, <2>3, <2>4 DEF Needs
      <4> QED BY DEF Slots
    <3> QED BY <1>3, <1>6, <2>5, <2>7, <3>2, <3>3, <3>4, RouterUp DEF IInv, Typed
  <2> QED BY <1>3, <1>6, <2>3, <2>4, <2>5, <2>7, <2>8, AfterGrowth
<1>7. CASE /\ RulesDown(0..s) /\ Goto(j, "final") /\ UNCHANGED pool
           /\ job' = [job EXCEPT ![j] = [job[j] EXCEPT !.status = "error"]]
  <2>1. ASSUME Others(j), exec'[j] = "final" PROVE Router'
    <3>1. \A w \in Slots \ 0..s : ~Owns(j, w)
      BY <1>2, <1>3 DEF Owns, Slots
    <3>2. exec[j] \notin Testing
      BY <1>3 DEF Testing, AtWork
    <3> QED BY <1>3, <1>4, <1>7, <2>1, <3>1, <3>2, RouterDown DEF IInv, Typed, NoNewNeed, Needs
  <2> QED BY <1>3, <1>4, <1>5, <1>7, <2>1, StepOfFailure DEF Published
<1> QED BY <1>2, <1>6, <1>7 DEF CheckSlot

\* The goroutines of a block check start together.
LEMMA CheckWorkersStep == ASSUME IInv, NEW j \in Jobs, CheckWorkers(j) PROVE IInv'
<1> USE DEF control, disk, kernel
<1>1. /\ Sound(exec[j], job[j], pool[j], worker[j], j \in ctx) /\ pool[j] \in PoolRecs
      /\ job[j] \in JobRecs
  BY PartsOf
<1>2. PICK k : k = [w \in Slots |-> IF w < pool[j].started
                                      THEN [NoWorker EXCEPT !.pc = "recv"] ELSE NoWorker]
  OBVIOUS
<1>3. /\ exec[j] = "slots" /\ exec[j] \in Live /\ Goto(j, "feed")
      /\ worker' = [worker EXCEPT ![j] = k]
      /\ UNCHANGED <<control, job, ctx, pool, adder, kernel, disk, tainted, faults>>
  BY <1>2 DEF CheckWorkers, At, Live, ExecPlaces
<1>4. \A w \in Slots : /\ k[w].pc = IF w < pool[j].started THEN "recv" ELSE "off"
                       /\ k[w] \in WorkerRecs
  <2>1. NoWorker.pc = "off"
    BY DEF NoWorker
  <2> QED BY <1>2, <2>1, Receiving, NoWorkerOK
<1>5. k \in Workers
  BY <1>2, <1>4 DEF Workers
<1>6. WorkTyped' /\ worker'[j] = k /\ \A i \in Jobs \ {j} : worker'[i] = worker[i]
  BY <1>3, <1>5 DEF IInv, Typed, WorkTyped
<1>7. ExecTyped' /\ exec'[j] = "feed" /\ \A i \in Jobs \ {j} : exec'[i] = exec[i]
  BY <1>3, SetExec DEF IInv, Typed, ExecPlaces
<1>8. Typed' /\ Others(j)
  BY <1>3, <1>6, <1>7 DEF IInv, Typed, BaseTyped, JobsTyped, PoolTyped, AddTyped, Others
<1>9. Sound(exec'[j], job'[j], pool'[j], worker'[j], j \in ctx')
  <2> USE <1>1, <1>3, <1>4, <1>6, <1>7 DEF Sound
  <2>1. Staged(exec'[j], job'[j], pool'[j]) /\ Complete(exec'[j], job'[j], pool'[j], j \in ctx')
    BY DEF Staged, Complete, RunOnly, Live, ExecPlaces
  <2>2. WorkersIn(exec'[j], pool'[j], worker'[j])
    BY DEF WorkersIn, AtWork
  <2>3. \A w \in Slots : worker[j][w].pc = "off"
    BY NobodyWorks DEF AtWork
  <2>4. Covered(exec'[j], job'[j], pool'[j], worker'[j], j \in ctx')
    BY <2>3 DEF Covered, Before, Holding
  <2>5. CountOf(pool'[j], worker'[j])
    <3>1. Cardinality(BusyOf(k)) = 0 /\ Cardinality(BusyOf(worker[j])) = 0
      BY <2>3, BusyNone DEF Uncounted, Holding
    <3> QED BY <3>1 DEF CountOf
  <2> QED BY <2>1, <2>2, <2>4, <2>5
<1>10. AllSound'
  BY <1>8, <1>9, SoundOfAll DEF IInv
<1>11. Feedable(j) => Feedable(j)'
  BY <1>3 DEF Feedable, Published
<1>12. Router'
  <2> SUFFICES ASSUME proc = "up" PROVE Router'
    BY <1>3 DEF Router
  <2> USE <1>3, <1>6, <1>7, <1>8 DEF Others, IInv, Router
  <2>1. \A w \in Slots : rules'[w] # None => Owns(rules[w], w)'
    BY DEF Owns, Pooled, Testing, AtWork, Typed, BaseTyped
  <2>2. \A w \in engines' : \E i \in Jobs : exec'[i] \in Testing /\ w < pool'[i].started
    BY DEF Testing, AtWork
  <2>3. \A i \in Jobs, w \in Slots : Needs(i, w)' => Needs(i, w)
    BY <1>4 DEF Needs
  <2> QED BY <2>1, <2>2, <2>3
<1>13. job'[j].kind = job[j].kind /\ exec'[j] \in Live
  BY <1>3, <1>7 DEF Live, ExecPlaces
<1> QED BY <1>3, <1>8, <1>9, <1>11, <1>12, <1>13, StepOfJob

\* The closure is published, and with it the raise asked for in the meantime.
LEMMA PublishStep == ASSUME IInv, NEW j \in Jobs, Publish(j) PROVE IInv'
<1> USE DEF disk, kernel
<1> DEFINE e == IF pending > pool[j].started THEN "pend" ELSE "feed"
<1>1. /\ Sound(exec[j], job[j], pool[j], worker[j], j \in ctx) /\ pool[j] \in PoolRecs
      /\ job[j] \in JobRecs
  BY PartsOf
<1>2. PICK b : b = [job[j] EXCEPT !.threads = pool[j].started]
  OBVIOUS
<1>3. /\ exec[j] = "start" /\ exec[j] \in Live /\ Goto(j, e) /\ addWorker' = j /\ pending' = 0
      /\ job' = [job EXCEPT ![j] = b]
      /\ UNCHANGED <<proc, active, activeBC, ctx, pool, worker, kernel, disk, tainted, faults>>
  BY <1>2 DEF Publish, At, Live, ExecPlaces
<1>4. \/ UNCHANGED adder
      \/ adder' = [adder EXCEPT !["exec"] = [pc |-> "loop", job |-> j, cur |-> 0,
                                             target |-> Least(pending, MaxThreads)]]
  BY DEF Publish
<1>5. e \in {"pend", "feed"} /\ e \in Live /\ e \in ExecPlaces /\ e \in Published /\ e \in AtWork
      /\ e \in Testing /\ e \in Before
  BY DEF Live, ExecPlaces, Published, AtWork, Testing, Before
<1> HIDE DEF e
<1>6. b \in JobRecs /\ b.kind = job[j].kind /\ b.status = job[j].status /\ b.results = job[j].results
  BY <1>1, <1>2 DEF JobRecs, PoolRecs
<1>7. /\ JobsTyped' /\ job'[j] = b /\ \A i \in Jobs \ {j} : job'[i] = job[i]
      /\ ExecTyped' /\ exec'[j] = e /\ \A i \in Jobs \ {j} : exec'[i] = exec[i]
  BY <1>3, <1>5, <1>6, SetJob, SetExec DEF IInv, Typed
<1>8. AddTyped' /\ \A c \in Agents : adder'[c] = adder[c] \/ (adder'[c].job = j)
  <2>1. CASE UNCHANGED adder
    BY <2>1 DEF IInv, Typed, AddTyped
  <2>2. PICK a : a = [pc |-> "loop", job |-> j, cur |-> 0, target |-> Least(pending, MaxThreads)]
    OBVIOUS
  <2>3. CASE adder' = [adder EXCEPT !["exec"] = a]
    <3>1. pending \in Nat
      BY DEF IInv, Typed, BaseTyped
    <3>2. Least(pending, MaxThreads) \in 0..MaxThreads
      BY <3>1, LeastOK
    <3>3. a \in AdderRecs /\ a.job = j
      BY <2>2, <3>2 DEF AdderRecs
    <3>4. "exec" \in Agents
      BY DEF Agents
    <3> QED BY <2>3, <3>3, <3>4, SetAdder DEF IInv, Typed
  <2> QED BY <1>4, <2>1, <2>2, <2>3
<1>9. Typed' /\ Others(j)
  BY <1>3, <1>7, <1>8 DEF IInv, Typed, BaseTyped, PoolTyped, WorkTyped, Others
<1>10. Sound(exec'[j], job'[j], pool'[j], worker'[j], j \in ctx')
  BY <1>1, <1>3, <1>5, <1>6, <1>7
     DEF Sound, Staged, WorkersIn, Covered, Complete, Live, ExecPlaces, Before, AtWork, RunOnly
<1>11. AllSound'
  BY <1>9, <1>10, SoundOfAll DEF IInv
<1>12. OneJob'
  BY <1>3, <1>5, <1>6, <1>7, OneJobKept DEF IInv, Typed, BaseTyped
<1>13. Adders'
  <2>1. \A i \in Jobs : Feedable(i) => Feedable(i)'
    BY <1>3, <1>5, <1>7, <1>9 DEF Feedable, Others
  <2>2. Feedable(j)'
    BY <1>5, <1>7 DEF Feedable
  <2> QED BY <1>3, <1>8, <2>1, <2>2 DEF IInv, Adders
<1>14. Router'
  <2>1. KeepsPooled(j) /\ NoNewNeed(j) /\ exec[j] # "baseline"
    BY <1>3, <1>5, <1>7 DEF KeepsPooled, NoNewNeed, Needs, Pooled
  <2> QED BY <1>3, <1>9, <2>1, RouterQuiet
<1>15. GoneIsGone' /\ RaiseNotLost'
  BY <1>3 DEF IInv, GoneIsGone, RaiseNotLost, Running, Live
<1> QED BY <1>9, <1>11, <1>12, <1>13, <1>14, <1>15 DEF IInv

\* The job is over: active is cleared, and the next one may start.
LEMMA FinalStep == ASSUME IInv, NEW j \in Jobs, Final(j) PROVE IInv'
<1> USE DEF disk, kernel
<1> DEFINE e == IF IsCheck(j) THEN "end" ELSE "save"
           s == IF job[j].status = "running" THEN "done" ELSE job[j].status
<1>1. /\ Sound(exec[j], job[j], pool[j], worker[j], j \in ctx) /\ pool[j] \in PoolRecs
      /\ job[j] \in JobRecs
  BY PartsOf
<1>2. PICK b : b = [job[j] EXCEPT !.status = s]
  OBVIOUS
<1>0. PICK q : q = NewPool
  OBVIOUS
<1>3. PICK p : p = [q EXCEPT !.started = pool[j].started, !.feeding = pool[j].feeding]
  OBVIOUS
<1>4. /\ exec[j] = "final" /\ exec[j] \in Live /\ Goto(j, e)
      /\ job' = [job EXCEPT ![j] = b] /\ pool' = [pool EXCEPT ![j] = p] /\ ctx' = ctx \ {j}
      /\ UNCHANGED <<proc, pending, worker, adder, kernel, disk, tainted, faults>>
  BY <1>2, <1>0, <1>3 DEF Final, At, Live, ExecPlaces
<1>5. e \in {"end", "save"} /\ e \notin Live /\ e \in ExecPlaces /\ e \in Published /\ e \notin Before
      /\ (e = "save" => job[j].kind # "check")
  BY DEF Live, ExecPlaces, Published, Before, AtWork, IsCheck
<1> HIDE DEF e
<1>6. s \in {"done", "error", "cancelled"} /\ (s = "done" <=> job[j].status = "running")
  BY <1>1, <1>4 DEF Sound, Staged
<1> HIDE DEF s
<1>7. b \in JobRecs /\ b.kind = job[j].kind /\ b.status = s /\ b.results = job[j].results
  <2>1. s \in Statuses
    BY <1>6 DEF Statuses
  <2> QED BY <1>1, <1>2, <2>1 DEF JobRecs
<1>8. p \in PoolRecs /\ p.started = pool[j].started /\ p.feeding = pool[j].feeding /\ p.next = 0
      /\ p.done = 0
  <2>1. pool[j].started \in 0..MaxThreads /\ pool[j].feeding \in BOOLEAN
    BY <1>1 DEF PoolRecs
  <2>2. q \in PoolRecs /\ q.next = 0 /\ q.done = 0
    BY <1>0, NewPoolOK DEF NewPool
  <2> QED BY <1>3, <2>1, <2>2 DEF PoolRecs
<1>9. /\ JobsTyped' /\ job'[j] = b /\ \A i \in Jobs \ {j} : job'[i] = job[i]
      /\ PoolTyped' /\ pool'[j] = p /\ \A i \in Jobs \ {j} : pool'[i] = pool[i]
      /\ ExecTyped' /\ exec'[j] = e /\ \A i \in Jobs \ {j} : exec'[i] = exec[i]
  <2>1. JobsTyped' /\ job'[j] = b /\ \A i \in Jobs \ {j} : job'[i] = job[i]
    BY <1>4, <1>7, SetJob DEF IInv, Typed
  <2>2. PoolTyped' /\ pool'[j] = p /\ \A i \in Jobs \ {j} : pool'[i] = pool[i]
    BY <1>4, <1>8, SetPool DEF IInv, Typed
  <2>3. ExecTyped' /\ exec'[j] = e /\ \A i \in Jobs \ {j} : exec'[i] = exec[i]
    BY <1>4, <1>5, SetExec DEF IInv, Typed
  <2> QED BY <2>1, <2>2, <2>3
<1>10. active' = None /\ activeBC' = None /\ addWorker' \in {addWorker, None}
  BY <1>4 DEF Final, IInv, OneJob
<1>11. Typed' /\ Others(j)
  BY <1>4, <1>9, <1>10 DEF IInv, Typed, BaseTyped, WorkTyped, AddTyped, Others
<1>12. \A w \in Slots : worker[j][w].pc = "off"
  BY <1>4, NobodyWorks DEF AtWork
<1>13. Sound(exec'[j], job'[j], pool'[j], worker'[j], j \in ctx')
  <2> USE <1>1, <1>4, <1>5, <1>6, <1>7, <1>8, <1>9
  <2>1. Staged(exec'[j], job'[j], pool'[j])
    BY DEF Staged, RunOnly
  <2>2. WorkersIn(exec'[j], pool'[j], worker'[j])
    BY <1>12 DEF WorkersIn
  <2>3. Covered(exec'[j], job'[j], pool'[j], worker'[j], j \in ctx')
    BY DEF Covered
  <2>4. Complete(exec'[j], job'[j], pool'[j], j \in ctx')
    BY DEF Sound, Complete
  <2>5. CountOf(pool'[j], worker'[j])
    BY <1>12, BusyNone DEF CountOf, Uncounted, Holding
  <2> QED BY <2>1, <2>2, <2>3, <2>4, <2>5 DEF Sound
<1>14. AllSound'
  BY <1>11, <1>13, SoundOfAll DEF IInv
<1>15. OneJob'
  <2>1. \A i \in Jobs : exec'[i] \notin Live
    BY <1>4, <1>5, <1>9, Unique DEF IInv
  <2> QED BY <1>10, <2>1 DEF OneJob
<1>16. Adders'
  <2>1. \A i \in Jobs : Feedable(i) => Feedable(i)'
    BY <1>4, <1>5, <1>8, <1>9 DEF Feedable
  <2> QED BY <1>4, <1>10, <2>1 DEF IInv, Adders, Typed, BaseTyped
<1>17. Router'
  <2>1. KeepsPooled(j) /\ NoNewNeed(j) /\ exec[j] # "baseline"
    BY <1>4, <1>5, <1>9 DEF KeepsPooled, NoNewNeed, Needs, Pooled, Testing, AtWork
  <2> QED BY <1>4, <1>11, <2>1, RouterQuiet
<1>18. GoneIsGone' /\ RaiseNotLost'
  BY <1>4, <1>10 DEF IInv, GoneIsGone, RaiseNotLost, Running, Live
<1> QED BY <1>11, <1>14, <1>15, <1>16, <1>17, <1>18 DEF IInv

\* The finished run reaches the disk.
LEMMA SaveRunStep == ASSUME IInv, NEW j \in Jobs, SaveRun(j) PROVE IInv'
<1> USE DEF control, kernel
<1>1. Sound(exec[j], job[j], pool[j], worker[j], j \in ctx) /\ job[j] \in JobRecs
  BY PartsOf
<1>2. /\ exec[j] = "save" /\ Running /\ Goto(j, "end") /\ job' = job
      /\ saved' = [saved EXCEPT ![j] = job[j].status]
      /\ UNCHANGED <<control, ctx, pool, worker, adder, kernel, list, tainted, faults>>
  BY DEF SaveRun, At
<1>3. BaseTyped'
  BY <1>1, <1>2 DEF IInv, Typed, BaseTyped, Sound, Staged
<1>4. Typed' /\ Others(j) /\ exec'[j] = "end" /\ job'[j] = job[j]
  BY <1>1, <1>2, <1>3, PlaceMoves DEF ExecPlaces
<1>5. Sound(exec'[j], job'[j], pool'[j], worker'[j], j \in ctx')
  BY <1>1, <1>2, <1>4
     DEF Sound, Staged, WorkersIn, Covered, Complete, Live, ExecPlaces, RunOnly, Before, AtWork
<1>6. AllSound'
  BY <1>4, <1>5, SoundOfAll DEF IInv
<1>7. OneJob'
  BY <1>2, <1>4, OneJobKept DEF IInv, Typed, BaseTyped, Others, Live, ExecPlaces
<1>8. Adders'
  <2>1. \A i \in Jobs : Feedable(i) => Feedable(i)'
    BY <1>2, <1>4 DEF Feedable, Others, Published
  <2> QED BY <1>2, <2>1, AddersKept DEF IInv, Typed, BaseTyped
<1>9. Router'
  <2>1. KeepsPooled(j) /\ NoNewNeed(j) /\ exec[j] # "baseline"
    BY <1>2, <1>4 DEF KeepsPooled, NoNewNeed, Needs, Pooled, Testing, AtWork
  <2> QED BY <1>2, <1>4, <2>1, RouterQuiet
<1>10. GoneIsGone' /\ RaiseNotLost'
  BY <1>2, <1>4 DEF IInv, GoneIsGone, RaiseNotLost, Running, Others
<1> QED BY <1>4, <1>6, <1>7, <1>8, <1>9, <1>10 DEF IInv

-----------------------------------------------------------------------------
(* Jobs come and go.                                                       *)

\* A new job has nothing yet.
LEMMA Created ==
    ASSUME IInv, BaseTyped', NEW j \in Jobs, NEW kind \in JobKinds, NEW t \in Nat, Create(j, kind, t),
           NEW e \in {"rules", "start", "slots"}, Goto(j, e), e = "slots" <=> kind = "check",
           UNCHANGED <<ctx, worker, adder>>
    PROVE  /\ Typed' /\ Others(j) /\ exec[j] = "none" /\ exec'[j] = e /\ job'[j].kind = kind
           /\ pool'[j].started = 0 /\ \A w \in Slots : worker[j][w].pc = "off"
           /\ AllSound'
<1>1. /\ Sound(exec[j], job[j], pool[j], worker[j], j \in ctx) /\ job[j] \in JobRecs
      /\ pool[j] \in PoolRecs
  BY PartsOf
<1>2. PICK n : n = Least(t, Least(MaxThreads, PlanLen))
  OBVIOUS
<1>3. n \in 0..MaxThreads
  <2>1. Least(MaxThreads, PlanLen) \in Nat /\ Least(MaxThreads, PlanLen) <= MaxThreads
    BY LeastOK
  <2> HIDE DEF Least
  <2> QED BY <1>2, <2>1, LeastOK
<1>4. PICK b : b = [job[j] EXCEPT !.kind = kind, !.status = "running", !.threads = n]
  OBVIOUS
<1>5. PICK p : p = [pool[j] EXCEPT !.asked = n]
  OBVIOUS
<1>6. /\ job[j].status = "none" /\ job' = [job EXCEPT ![j] = b] /\ pool' = [pool EXCEPT ![j] = p]
  <2>1. job' = [job EXCEPT ![j] = b]
    BY <1>2, <1>4 DEF Create
  <2>2. pool' = [pool EXCEPT ![j] = p]
    BY <1>2, <1>5 DEF Create
  <2> QED BY <2>1, <2>2 DEF Create
<1>7. exec[j] = "none" /\ pool[j] = NewPool
  BY <1>1, <1>6 DEF Sound, Staged
<1>8. b \in JobRecs /\ b.kind = kind /\ b.status = "running"
  BY <1>1, <1>3, <1>4 DEF JobRecs, Statuses
<1>9. p \in PoolRecs /\ p.started = pool[j].started /\ p.next = pool[j].next /\ p.done = pool[j].done
  BY <1>1, <1>3, <1>5 DEF PoolRecs
<1>10. p.started = 0 /\ p.next = 0 /\ p.done = 0
  BY <1>7, <1>9 DEF NewPool
<1>11. JobsTyped' /\ job'[j] = b /\ \A i \in Jobs \ {j} : job'[i] = job[i]
  BY <1>6, <1>8, SetJob DEF IInv, Typed
<1>12. PoolTyped' /\ pool'[j] = p /\ \A i \in Jobs \ {j} : pool'[i] = pool[i]
  BY <1>6, <1>9, SetPool DEF IInv, Typed
<1>13. ExecTyped' /\ exec'[j] = e /\ \A i \in Jobs \ {j} : exec'[i] = exec[i]
  BY SetExec DEF IInv, Typed, ExecPlaces
<1>14. Typed' /\ Others(j)
  BY <1>11, <1>12, <1>13 DEF IInv, Typed, WorkTyped, AddTyped, Others
<1>15. \A w \in Slots : worker[j][w].pc = "off"
  BY <1>7, NobodyWorks DEF AtWork
<1>16. Sound(exec'[j], job'[j], pool'[j], worker'[j], j \in ctx')
  <2>1. Staged(e, b, p)
    BY <1>8, <1>10 DEF Staged, RunOnly
  <2>2. WorkersIn(e, p, worker[j])
    BY <1>15 DEF WorkersIn
  <2>3. Covered(e, b, p, worker[j], j \in ctx) /\ Complete(e, b, p, j \in ctx)
    BY <1>10 DEF Covered, Complete
  <2>4. CountOf(p, worker[j])
    BY <1>10, <1>15, BusyNone DEF CountOf, Uncounted, Holding
  <2> QED BY <1>11, <1>12, <1>13, <2>1, <2>2, <2>3, <2>4 DEF Sound
<1>17. AllSound'
  BY <1>14, <1>16, SoundOfAll DEF IInv
<1> QED BY <1>7, <1>8, <1>10, <1>11, <1>12, <1>13, <1>14, <1>15, <1>17

\* With it the invariant holds: no other job is active.
LEMMA StartStep ==
    ASSUME IInv, BaseTyped', NEW j \in Jobs, NEW kind \in JobKinds, NEW t \in Nat, Create(j, kind, t),
           NEW e \in {"rules", "start", "slots"}, Goto(j, e), e = "slots" <=> kind = "check",
           Running, NoJobActive,
           IF kind = "check" THEN active' = None /\ activeBC' = j ELSE active' = j /\ activeBC' = None,
           UNCHANGED <<proc, addWorker, ctx, worker, adder, rules, engines>>, pending' \in {pending, 0}
    PROVE  IInv'
<1>1. /\ Typed' /\ Others(j) /\ exec[j] = "none" /\ exec'[j] = e /\ job'[j].kind = kind
      /\ pool'[j].started = 0 /\ \A w \in Slots : worker[j][w].pc = "off"
      /\ AllSound'
  BY Created
<1>2. OneJob'
  <2>1. \A i \in Jobs : exec[i] \notin Live
    BY DEF IInv, OneJob, NoJobActive
  <2>2. exec'[j] \in Live
    BY <1>1 DEF Live, ExecPlaces
  <2> QED BY <1>1, <2>1, <2>2 DEF OneJob, Others, IsCheck
<1>3. Adders'
  <2>1. \A i \in Jobs : Feedable(i) => Feedable(i)'
    BY <1>1 DEF Feedable, Others, Published
  <2> QED BY <2>1, AddersKept DEF IInv, Typed, BaseTyped
<1>4. Router'
  <2>1. \A w \in Slots : ~(w < pool'[j].started)
    BY <1>1 DEF Slots
  <2>2. KeepsPooled(j) /\ NoNewNeed(j)
    BY <1>1, <2>1 DEF KeepsPooled, NoNewNeed, Needs, Pooled, Testing, AtWork
  <2> QED BY <1>1, <2>2, RouterQuiet
<1>5. GoneIsGone' /\ RaiseNotLost'
  BY DEF IInv, GoneIsGone, RaiseNotLost, Running
<1> QED BY <1>1, <1>2, <1>3, <1>4, <1>5 DEF IInv

\* A strategy run starts.
LEMMA StartRunStep ==
    ASSUME IInv, NEW j \in Jobs, NEW kind \in Kinds, NEW t \in Asked, StartRun(j, kind, t)
    PROVE  IInv'
<1> USE DEF disk, kernel
<1> DEFINE e == IF kind = "auto" THEN "rules" ELSE "start"
<1>1. BaseTyped'
  BY DEF StartRun, IInv, Typed, BaseTyped
<1>2. /\ Running /\ NoJobActive /\ kind # "check" /\ Create(j, kind, t) /\ active' = j /\ pending' = 0
      /\ Goto(j, e) /\ e \in {"rules", "start", "slots"} /\ e # "slots"
      /\ UNCHANGED <<proc, activeBC, addWorker, ctx, worker, adder, rules, engines>>
  BY DEF StartRun
<1>3. kind \in JobKinds /\ t \in Nat
  BY DEF JobKinds
<1> HIDE DEF e
<1> QED BY <1>1, <1>2, <1>3, StartStep DEF NoJobActive

\* A block check starts.
LEMMA StartBlockCheckStep ==
    ASSUME IInv, NEW j \in Jobs, NEW t \in Asked, StartBlockCheck(j, t)
    PROVE  IInv'
<1> USE DEF disk, kernel
<1>1. BaseTyped'
  BY DEF StartBlockCheck, IInv, Typed, BaseTyped
<1>2. /\ Running /\ NoJobActive /\ Create(j, "check", t) /\ activeBC' = j /\ Goto(j, "slots")
      /\ UNCHANGED <<proc, active, addWorker, pending, ctx, worker, adder, rules, engines>>
  BY DEF StartBlockCheck
<1>3. "check" \in JobKinds /\ t \in Nat
  BY DEF JobKinds
<1> QED BY <1>1, <1>2, <1>3, StartStep DEF NoJobActive

\* More contexts are cancelled: CancelRun, and the first step of a shutdown.
LEMMA ContextsGrow ==
    ASSUME IInv, BaseTyped', ctx \subseteq ctx',
           UNCHANGED <<active, activeBC, addWorker, pending, job, exec, pool, worker, adder, rules,
                       engines>>,
           proc' = proc \/ (Running /\ Running' /\ proc' # "up")
    PROVE  IInv'
<1>1. Typed'
  BY DEF IInv, Typed, JobsTyped, ExecTyped, PoolTyped, WorkTyped, AddTyped
<1>2. AllSound'
  BY DEF IInv, AllSound, Sound, Covered, Complete
<1>3. OneJob' /\ Adders' /\ RaiseNotLost'
  BY DEF IInv, OneJob, IsCheck, Adders, Feedable, RaiseNotLost
<1>4. Router'
  BY DEF IInv, Router, Owns, Needs
<1>5. GoneIsGone'
  BY DEF IInv, GoneIsGone, Running
<1> QED BY <1>1, <1>2, <1>3, <1>4, <1>5 DEF IInv

\* A user, or the timeout of the automatic pick, cancels what is active.
LEMMA CancelRunStep == ASSUME IInv, CancelRun PROVE IInv'
<1>1. BaseTyped'
  BY DEF CancelRun, IInv, Typed, BaseTyped, control, kernel, disk
<1> QED BY <1>1, ContextsGrow DEF CancelRun, control, kernel

\* The shutdown of the process cancels what is active.
LEMMA ShutdownStep == ASSUME IInv, Shutdown PROVE IInv'
<1>1. BaseTyped'
  <2>1. faults' \in 0..MaxFaults
    BY DEF Shutdown, Fault, IInv, Typed, BaseTyped
  <2> QED BY <2>1 DEF Shutdown, IInv, Typed, BaseTyped, kernel, disk
<1>2. proc = "up" /\ proc' = "stopping"
  BY DEF Shutdown
<1> QED BY <1>1, <1>2, ContextsGrow DEF Shutdown, Running, kernel

-----------------------------------------------------------------------------
(* The calls of AddRunThreads.                                             *)

\* The caller takes the closure as it is published, or leaves its wish behind.
LEMMA AddRunThreadsStep ==
    ASSUME IInv, NEW c \in Callers, NEW t \in Asked, AddRunThreads(c, t) PROVE IInv'
<1> USE DEF disk, kernel
<1>1. PICK a : a = [pc |-> "loop", job |-> addWorker, cur |-> 0, target |-> Least(t, MaxThreads)]
  OBVIOUS
<1>2. /\ UNCHANGED <<proc, active, activeBC, addWorker, job, ctx, exec, pool, worker, rules, broken,
                     engines, saved, list, tainted, faults>>
      /\ \/ addWorker = None /\ pending' = t /\ adder' = adder
         \/ addWorker # None /\ pending' = pending /\ adder' = [adder EXCEPT ![c] = a]
  BY <1>1 DEF AddRunThreads
<1>3. BaseTyped'
  BY <1>2 DEF IInv, Typed, BaseTyped
<1>4. CASE adder' = adder
  <2>1. Typed'
    BY <1>2, <1>3, <1>4 DEF IInv, Typed, JobsTyped, ExecTyped, PoolTyped, WorkTyped, AddTyped
  <2> QED BY <1>2, <1>4, <2>1, OnlyAdders DEF IInv, Adders
<1>5. CASE addWorker # None /\ adder' = [adder EXCEPT ![c] = a]
  <2>1. Least(t, MaxThreads) \in 0..MaxThreads
    BY LeastOK
  <2>2. a \in AdderRecs /\ a.job = addWorker /\ c \in Agents
    BY <1>1, <1>5, <2>1 DEF AdderRecs, Agents, IInv, Typed, BaseTyped
  <2>3. AddTyped' /\ adder'[c] = a /\ \A d \in Agents \ {c} : adder'[d] = adder[d]
    BY <1>5, <2>2, SetAdder DEF IInv, Typed
  <2>4. Typed'
    BY <1>2, <1>3, <2>3 DEF IInv, Typed, JobsTyped, ExecTyped, PoolTyped, WorkTyped
  <2>5. \A d \in Agents : adder'[d].pc # "idle" => adder'[d].job \in Jobs /\ Feedable(adder'[d].job)
    BY <1>5, <2>2, <2>3 DEF IInv, Adders, Typed, BaseTyped
  <2> QED BY <1>2, <1>5, <2>4, <2>5, OnlyAdders
<1> QED BY <1>2, <1>4, <1>5

\* A call of the closure goes from one of its steps to the next.
LEMMA AddMoves ==
    ASSUME IInv, NEW c \in Agents, NEW a \in AdderRecs, adder' = [adder EXCEPT ![c] = a],
           a.pc # "idle" => adder[c].pc # "idle" /\ a.job = adder[c].job,
           UNCHANGED <<control, ctx, exec, pool, worker, kernel, disk, tainted, faults>>
    PROVE  /\ AddTyped' /\ BaseTyped' /\ ExecTyped' /\ PoolTyped' /\ WorkTyped'
           /\ \A d \in Agents : adder'[d].pc # "idle" =>
                                   adder'[d].job \in Jobs /\ Feedable(adder'[d].job)
           /\ job' = job => IInv'
<1> USE DEF control, kernel, disk
<1>1. AddTyped' /\ adder'[c] = a /\ \A d \in Agents \ {c} : adder'[d] = adder[d]
  BY SetAdder DEF IInv, Typed
<1>2. BaseTyped' /\ ExecTyped' /\ PoolTyped' /\ WorkTyped'
  BY DEF IInv, Typed, BaseTyped, ExecTyped, PoolTyped, WorkTyped
<1>3. \A d \in Agents : adder'[d].pc # "idle" => adder'[d].job \in Jobs /\ Feedable(adder'[d].job)
  BY <1>1 DEF IInv, Adders
<1>4. ASSUME job' = job PROVE IInv'
  <2>1. Typed'
    BY <1>1, <1>2, <1>4 DEF IInv, Typed, JobsTyped
  <2> QED BY <1>3, <1>4, <2>1, OnlyAdders
<1> QED BY <1>1, <1>2, <1>3, <1>4

\* The steps of the record of one call.
LEMMA AdderRecord ==
    ASSUME IInv, NEW c \in Agents,
           NEW l \in {"loop", "start", "count", "write"}, NEW n \in 0..MaxThreads
    PROVE  /\ [adder[c] EXCEPT !.pc = l] \in AdderRecs
           /\ [adder[c] EXCEPT !.pc = l].job = adder[c].job
           /\ [adder[c] EXCEPT !.pc = l, !.cur = n] \in AdderRecs
           /\ [adder[c] EXCEPT !.pc = l, !.cur = n].job = adder[c].job
<1>1. adder[c] \in AdderRecs
  BY DEF IInv, Typed, AddTyped
<1> QED BY <1>1 DEF AdderRecs

\* The closure reads the number of workers and goes on or ends.
LEMMA AddLoopStep == ASSUME IInv, NEW c \in Agents, AddLoop(c) PROVE IInv'
<1>1. PICK l \in {"count", "start"} : adder' = [adder EXCEPT ![c] = [adder[c] EXCEPT !.pc = l]]
  BY DEF AddLoop, AddStep
<1>2. /\ adder[c].pc = "loop"
      /\ UNCHANGED <<control, job, ctx, exec, pool, worker, kernel, disk, tainted, faults>>
  BY DEF AddLoop
<1>3. PICK a : a = [adder[c] EXCEPT !.pc = l]
  OBVIOUS
<1>4. a \in AdderRecs /\ a.job = adder[c].job
  <2>1. adder[c] \in AdderRecs
    BY DEF IInv, Typed, AddTyped
  <2> QED BY <1>3, <2>1 DEF AdderRecs
<1> QED BY <1>1, <1>2, <1>3, <1>4, AddMoves

\* The closure reads the number of workers it is going to write.
LEMMA AddCountStep == ASSUME IInv, NEW c \in Agents, AddCount(c) PROVE IInv'
<1>1. PICK n : n = pool[adder[c].job].started
  OBVIOUS
<1>2. adder[c].pc = "count" /\ adder[c].job \in Jobs
  BY DEF AddCount, IInv, Adders
<1>3. n \in 0..MaxThreads
  BY <1>1, <1>2, PartsOf DEF PoolRecs
<1>4. PICK a : a = [adder[c] EXCEPT !.pc = "write", !.cur = n]
  OBVIOUS
<1>5. a \in AdderRecs /\ a.job = adder[c].job
  BY <1>3, <1>4, AdderRecord
<1>6. /\ adder' = [adder EXCEPT ![c] = a]
      /\ UNCHANGED <<control, job, ctx, exec, pool, worker, kernel, disk, tainted, faults>>
  BY <1>1, <1>4 DEF AddCount
<1> QED BY <1>2, <1>5, <1>6, AddMoves

\* The last step of a call writes the number of threads into the record.
LEMMA AddWriteStep == ASSUME IInv, NEW c \in Agents, AddWrite(c) PROVE IInv'
<1> DEFINE j == adder[c].job
<1>1. /\ adder[c].pc = "write" /\ adder' = [adder EXCEPT ![c] = NoAdder]
      /\ UNCHANGED <<control, ctx, exec, pool, worker, kernel, disk, tainted, faults>>
  BY DEF AddWrite
<1>2. j \in Jobs /\ adder[c].cur \in 0..MaxThreads
  BY <1>1 DEF IInv, Adders, Typed, AddTyped, AdderRecs
<1>3. PICK b : b = [job[j] EXCEPT !.threads = adder[c].cur]
  OBVIOUS
<1>4. job' = [job EXCEPT ![j] = b]
  BY <1>3 DEF AddWrite
<1>5. NoAdder.pc = "idle"
  BY DEF NoAdder
<1>6. /\ AddTyped' /\ BaseTyped' /\ ExecTyped' /\ PoolTyped' /\ WorkTyped'
      /\ \A d \in Agents : adder'[d].pc # "idle" =>
                              adder'[d].job \in Jobs /\ Feedable(adder'[d].job)
  <2> HIDE DEF NoAdder
  <2> QED BY <1>1, <1>5, NoAdderOK, AddMoves
<1>7. job[j] \in JobRecs
  BY <1>2, PartsOf
<1>8. b \in JobRecs /\ b.kind = job[j].kind /\ b.status = job[j].status /\ b.results = job[j].results
  BY <1>2, <1>3, <1>7 DEF JobRecs
<1> HIDE DEF j
<1>9. JobsTyped' /\ job'[j] = b /\ \A i \in Jobs \ {j} : job'[i] = job[i]
  BY <1>2, <1>4, <1>8, SetJob DEF IInv, Typed
<1>10. \A i \in Jobs : /\ job'[i].kind = job[i].kind /\ job'[i].status = job[i].status
                       /\ job'[i].results = job[i].results
  BY <1>8, <1>9
<1>11. UNCHANGED <<proc, active, activeBC, addWorker, pending, ctx, exec, pool, worker, rules, engines>>
  BY <1>1 DEF control, kernel
<1>12. AllSound'
  BY <1>10, <1>11 DEF IInv, AllSound, Sound, Staged, WorkersIn, Covered, Complete
<1>13. OneJob' /\ GoneIsGone' /\ RaiseNotLost' /\ Router'
  <2>1. OneJob'
    BY <1>10, <1>11, OneJobKept DEF IInv, Typed, BaseTyped
  <2>2. GoneIsGone' /\ RaiseNotLost'
    BY <1>11 DEF IInv, GoneIsGone, Running, RaiseNotLost
  <2>3. Router'
    BY <1>11 DEF IInv, Router, Owns, Needs
  <2> QED BY <2>1, <2>2, <2>3
<1>14. Adders'
  BY <1>6, <1>11 DEF IInv, Adders, Feedable
<1> QED BY <1>6, <1>9, <1>12, <1>13, <1>14 DEF IInv, Typed

-----------------------------------------------------------------------------
(* Faults, the end of the process and a new one.                           *)

\* The firewall or the engines are restarted from outside.
LEMMA DisturbStep == ASSUME IInv, Disturb PROVE IInv'
<1> USE DEF control, disk
<1>1. /\ UNCHANGED <<control, job, ctx, exec, pool, worker, adder, rules, disk>>
      /\ faults' \in 0..MaxFaults /\ broken' \subseteq Slots /\ engines' \subseteq engines
      /\ tainted' \subseteq Jobs \X Slots
  BY DEF Disturb, Fault, IInv, Typed, BaseTyped
<1>2. Typed'
  BY <1>1 DEF IInv, Typed, BaseTyped, JobsTyped, ExecTyped, PoolTyped, WorkTyped, AddTyped
<1>3. AllSound' /\ OneJob' /\ Adders' /\ GoneIsGone' /\ RaiseNotLost'
  BY <1>1 DEF IInv, AllSound, OneJob, IsCheck, Adders, Feedable, GoneIsGone, Running, RaiseNotLost
<1>4. Router'
  BY <1>1 DEF IInv, Router, Owns, Needs
<1> QED BY <1>2, <1>3, <1>4 DEF IInv

\* Nothing of the process is left.
LEMMA GoneStep ==
    ASSUME IInv, ProcessGone, proc' \in {"crashed", "exited"}, faults' \in 0..MaxFaults,
           UNCHANGED <<kernel, disk>>
    PROVE  IInv'
<1> USE DEF kernel, disk
<1>1. BaseTyped'
  BY DEF ProcessGone, IInv, Typed, BaseTyped
<1>2. \A j \in Jobs : /\ exec'[j] = (IF exec[j] = "none" THEN "none" ELSE "end")
                      /\ pool'[j] = NewPool /\ worker'[j] = [w \in Slots |-> NoWorker]
                      /\ job'[j] \in JobRecs
                      /\ job'[j].status = "none" => exec[j] = "none"
  <2> SUFFICES ASSUME NEW j \in Jobs
               PROVE  /\ exec'[j] = (IF exec[j] = "none" THEN "none" ELSE "end")
                      /\ pool'[j] = NewPool /\ worker'[j] = [w \in Slots |-> NoWorker]
                      /\ job'[j] \in JobRecs
                      /\ job'[j].status = "none" => exec[j] = "none"
    OBVIOUS
  <2>1. /\ exec'[j] = (IF exec[j] = "none" THEN "none" ELSE "end")
        /\ pool'[j] = NewPool /\ worker'[j] = [w \in Slots |-> NoWorker]
    BY DEF ProcessGone
  <2>2. job[j] \in JobRecs /\ (job[j].status = "none" => exec[j] = "none")
    BY PartsOf DEF Sound, Staged
  <2>3. PICK b : b = [IdleJob EXCEPT !.status = "forgotten"]
    OBVIOUS
  <2>4. b \in JobRecs /\ b.status = "forgotten"
    BY <2>3 DEF IdleJob, JobRecs, JobKinds, Statuses
  <2>5. job'[j] \in {b, job[j]}
    BY <2>3 DEF ProcessGone
  <2> QED BY <2>1, <2>2, <2>4, <2>5
<1>3. Typed'
  <2>1. JobsTyped'
    <3>1. job' = [j \in Jobs |-> job'[j]]
      BY DEF ProcessGone
    <3> QED BY <1>2, <3>1 DEF JobsTyped
  <2>2. ExecTyped'
    BY DEF ProcessGone, ExecTyped, ExecPlaces
  <2>3. PoolTyped' /\ WorkTyped' /\ AddTyped'
    <3> HIDE DEF NewPool, NoWorker, NoAdder
    <3> QED BY NewPoolOK, NoWorkerOK, NoAdderOK
            DEF ProcessGone, PoolTyped, WorkTyped, Workers, AddTyped
  <2> QED BY <1>1, <2>1, <2>2, <2>3 DEF Typed
<1>4. NewPool.started = 0 /\ NewPool.next = 0 /\ NewPool.done = 0 /\ NoWorker.pc = "off"
  BY DEF NewPool, NoWorker
<1>5. \A j \in Jobs : /\ exec'[j] \in {"none", "end"} /\ pool'[j].started = 0
                      /\ pool'[j].next = 0 /\ pool'[j].done = 0
                      /\ \A w \in Slots : worker'[j][w].pc = "off"
  BY <1>2, <1>4
<1>6. AllSound'
  <2> SUFFICES ASSUME NEW j \in Jobs
               PROVE  Sound(exec'[j], job'[j], pool'[j], worker'[j], j \in ctx')
    BY DEF AllSound
  <2>1. Staged(exec'[j], job'[j], pool'[j])
    BY <1>2, <1>5 DEF Staged, Live, RunOnly
  <2>2. WorkersIn(exec'[j], pool'[j], worker'[j])
    BY <1>5 DEF WorkersIn
  <2>3. Covered(exec'[j], job'[j], pool'[j], worker'[j], j \in ctx')
    BY <1>5 DEF Covered
  <2>4. Complete(exec'[j], job'[j], pool'[j], j \in ctx')
    BY <1>5 DEF Complete
  <2>5. CountOf(pool'[j], worker'[j])
    BY <1>5, BusyNone DEF CountOf, Uncounted, Holding
  <2> QED BY <2>1, <2>2, <2>3, <2>4, <2>5 DEF Sound
<1>7. OneJob' /\ Adders' /\ RaiseNotLost'
  <2>1. \A c \in Agents : adder'[c].pc = "idle"
    BY DEF ProcessGone, NoAdder
  <2> QED BY <1>5, <2>1 DEF ProcessGone, OneJob, Adders, RaiseNotLost, Live
<1>8. Router' /\ GoneIsGone'
  BY <1>5 DEF Router, GoneIsGone
<1> QED BY <1>3, <1>6, <1>7, <1>8 DEF IInv

\* The process is killed.
LEMMA CrashStep == ASSUME IInv, Crash PROVE IInv'
<1>1. faults' \in 0..MaxFaults
  BY DEF Crash, Fault, IInv, Typed, BaseTyped
<1> QED BY <1>1, GoneStep DEF Crash

\* The process ends after its clean-up.
LEMMA ExitStep == ASSUME IInv, Exit PROVE IInv'
<1>1. faults' \in 0..MaxFaults
  BY DEF Exit, IInv, Typed, BaseTyped
<1> QED BY <1>1, GoneStep DEF Exit

\* The clean-up of a shutdown: the jobs may still be at work, the router is no
\* longer theirs.
LEMMA ShutdownCleanupStep == ASSUME IInv, ShutdownCleanup PROVE IInv'
<1> USE DEF disk
<1>1. BaseTyped'
  BY DEF ShutdownCleanup, CleanupSandboxes, RulesDown, IInv, Typed, BaseTyped
<1>2. /\ UNCHANGED <<active, activeBC, addWorker, pending, job, ctx, exec, pool, worker, adder>>
      /\ proc' = "cleaned"
  BY DEF ShutdownCleanup
<1>3. Typed'
  BY <1>1, <1>2 DEF IInv, Typed, JobsTyped, ExecTyped, PoolTyped, WorkTyped, AddTyped
<1>4. AllSound' /\ OneJob' /\ Adders' /\ RaiseNotLost'
  BY <1>2 DEF IInv, AllSound, OneJob, IsCheck, Adders, Feedable, RaiseNotLost
<1>5. Router' /\ GoneIsGone'
  BY <1>2 DEF Router, GoneIsGone, Running
<1> QED BY <1>3, <1>4, <1>5 DEF IInv

\* A new process reads the runs and cleans up every slot, the baseline's too.
LEMMA BootStep == ASSUME IInv, Boot PROVE IInv'
<1> USE DEF disk
<1>1. BaseTyped'
  BY DEF Boot, CleanupSandboxes, RulesDown, IInv, Typed, BaseTyped
<1>2. /\ UNCHANGED <<active, activeBC, addWorker, pending, ctx, exec, pool, worker, adder>>
      /\ ~Running /\ Running' /\ engines' = {} /\ \A w \in Slots : rules'[w] = None
  BY DEF Boot, Running, CleanupSandboxes, RulesDown, SandboxesCleaned, Slots
<1>3. \A j \in Jobs : exec[j] \in {"none", "end"} /\ pool[j].started = 0
  BY <1>2 DEF IInv, GoneIsGone
<1>4. \A j \in Jobs : /\ job'[j] \in JobRecs /\ job'[j].kind = job[j].kind
                      /\ job'[j].status = "none" => job[j].status = "none"
  <2> SUFFICES ASSUME NEW j \in Jobs
               PROVE  /\ job'[j] \in JobRecs /\ job'[j].kind = job[j].kind
                      /\ job'[j].status = "none" => job[j].status = "none"
    OBVIOUS
  <2>1. PICK s : s = (IF saved[j] = "running" THEN "error" ELSE saved[j])
    OBVIOUS
  <2>2. s \in Statuses /\ (saved[j] # "none" => s # "none")
    BY <2>1 DEF Statuses, IInv, Typed, BaseTyped
  <2>3. PICK b : b = [job[j] EXCEPT !.status = s]
    OBVIOUS
  <2>4. job'[j] = job[j] \/ (saved[j] # "none" /\ job'[j] = b)
    BY <2>1, <2>3 DEF Boot
  <2>5. job[j] \in JobRecs
    BY PartsOf
  <2>6. b \in JobRecs /\ b.status = s /\ b.kind = job[j].kind
    BY <2>2, <2>3, <2>5 DEF JobRecs
  <2> QED BY <2>2, <2>4, <2>5, <2>6
<1>5. Typed'
  <2>1. job' = [j \in Jobs |-> job'[j]]
    BY DEF Boot
  <2>2. JobsTyped'
    BY <1>4, <2>1 DEF JobsTyped
  <2> QED BY <1>1, <1>2, <2>2 DEF IInv, Typed, ExecTyped, PoolTyped, WorkTyped, AddTyped
<1>6. AllSound'
  <2> SUFFICES ASSUME NEW j \in Jobs
               PROVE  Sound(exec'[j], job'[j], pool'[j], worker'[j], j \in ctx')
    BY DEF AllSound
  <2>1. Sound(exec[j], job[j], pool[j], worker[j], j \in ctx)
    BY PartsOf
  <2>2. \A w \in Slots : worker[j][w].pc = "off"
    BY <1>3, NobodyWorks DEF AtWork
  <2>3. Staged(exec[j], job'[j], pool[j])
    BY <1>3, <1>4, <2>1 DEF Sound, Staged, Live, RunOnly
  <2>4. Complete(exec[j], job'[j], pool[j], j \in ctx)
    BY <1>3 DEF Complete
  <2>5. Covered(exec[j], job'[j], pool[j], worker[j], j \in ctx)
    <3>1. CASE exec[j] = "end"
      BY <3>1 DEF Covered, Before, AtWork
    <3>2. CASE exec[j] = "none"
      <4>1. pool[j].next = 0
        BY <2>1, <3>2 DEF Sound, Staged, NewPool
      <4> QED BY <4>1 DEF Covered
    <3> QED BY <1>3, <3>1, <3>2
  <2> QED BY <1>2, <2>1, <2>3, <2>4, <2>5 DEF Sound
<1>7. OneJob' /\ Adders' /\ RaiseNotLost' /\ GoneIsGone'
  <2>1. OneJob'
    BY <1>2, <1>4, OneJobKept DEF IInv, Typed, BaseTyped
  <2> QED BY <1>2, <2>1 DEF IInv, Adders, Feedable, RaiseNotLost, GoneIsGone
<1>8. Router'
  <2>1. \A j \in Jobs, w \in Slots : ~Needs(j, w)'
    <3> SUFFICES ASSUME NEW j \in Jobs, NEW w \in Slots PROVE ~Needs(j, w)'
      OBVIOUS
    <3>1. worker[j][w].pc = "off"
      BY <1>3, NobodyWorks DEF AtWork
    <3> QED BY <1>2, <1>3, <3>1 DEF Needs
  <2> QED BY <1>2, <2>1 DEF Router
<1> QED BY <1>5, <1>6, <1>7, <1>8 DEF IInv

-----------------------------------------------------------------------------
(* The invariant of StrategyRun.                                           *)

\* A fresh installation satisfies it.
LEMMA InitIInv == Init => IInv
<1> SUFFICES ASSUME Init PROVE IInv
  OBVIOUS
<1>1. NewPool.started = 0 /\ NewPool.next = 0 /\ NewPool.done = 0 /\ NoWorker.pc = "off"
      /\ NoAdder.pc = "idle" /\ IdleJob.status = "none"
  BY DEF NewPool, NoWorker, NoAdder, IdleJob
<1>2. Typed
  <2>1. JobsTyped
    BY IdleJobOK DEF Init, JobsTyped
  <2>2. ExecTyped
    BY DEF Init, ExecTyped, ExecPlaces
  <2>3. PoolTyped
    BY NewPoolOK DEF Init, PoolTyped
  <2>4. WorkTyped
    BY NoWorkerOK DEF Init, WorkTyped, Workers
  <2>5. AddTyped
    BY NoAdderOK DEF Init, AddTyped
  <2>6. BaseTyped
    BY DEF Init, BaseTyped
  <2> QED BY <2>1, <2>2, <2>3, <2>4, <2>5, <2>6 DEF Typed
<1>3. \A j \in Jobs : /\ exec[j] = "none" /\ job[j] = IdleJob /\ pool[j] = NewPool
                      /\ \A w \in Slots : worker[j][w].pc = "off"
  BY <1>1 DEF Init
<1>4. AllSound
  <2> SUFFICES ASSUME NEW j \in Jobs
               PROVE  Sound(exec[j], job[j], pool[j], worker[j], j \in ctx)
    BY DEF AllSound
  <2>1. Staged(exec[j], job[j], pool[j])
    BY <1>1, <1>3 DEF Staged, Live, RunOnly
  <2>2. WorkersIn(exec[j], pool[j], worker[j])
    BY <1>3 DEF WorkersIn
  <2>3. Covered(exec[j], job[j], pool[j], worker[j], j \in ctx)
    BY <1>1, <1>3 DEF Covered
  <2>4. Complete(exec[j], job[j], pool[j], j \in ctx)
    BY <1>3 DEF Complete
  <2>5. CountOf(pool[j], worker[j])
    BY <1>1, <1>3, BusyNone DEF CountOf, Uncounted, Holding
  <2> QED BY <2>1, <2>2, <2>3, <2>4, <2>5 DEF Sound
<1>5. OneJob /\ RaiseNotLost /\ GoneIsGone
  BY <1>3 DEF Init, OneJob, Live, RaiseNotLost, GoneIsGone, Running
<1>6. Adders
  BY <1>1 DEF Init, Adders
<1>7. Router
  BY <1>3 DEF Init, Router, Needs
<1> QED BY <1>2, <1>4, <1>5, <1>6, <1>7 DEF IInv

\* A step that changes nothing.
LEMMA StutterStep == ASSUME IInv, UNCHANGED vars PROVE IInv'
<1> USE DEF vars, control, kernel, disk
<1>1. Typed'
  BY DEF IInv, Typed, JobsTyped, ExecTyped, PoolTyped, WorkTyped, AddTyped, BaseTyped
<1>2. AllSound' /\ OneJob' /\ Adders' /\ GoneIsGone' /\ RaiseNotLost'
  BY DEF IInv, AllSound, OneJob, IsCheck, Adders, Feedable, GoneIsGone, Running, RaiseNotLost
<1>3. Router'
  BY DEF IInv, Router, Owns, Needs
<1> QED BY <1>1, <1>2, <1>3 DEF IInv

\* Every step of the program keeps it.
LEMMA NextIInv == IInv /\ [Next]_vars => IInv'
<1> SUFFICES ASSUME IInv, [Next]_vars PROVE IInv'
  OBVIOUS
<1>1. ASSUME NEW j \in Jobs, NEW t \in Asked, StartBlockCheck(j, t) PROVE IInv'
  BY <1>1, StartBlockCheckStep
<1>2. ASSUME NEW j \in Jobs, NEW k \in Kinds, NEW t \in Asked, StartRun(j, k, t) PROVE IInv'
  BY <1>2, StartRunStep
<1>3. ASSUME CancelRun PROVE IInv'
  BY <1>3, CancelRunStep
<1>4. ASSUME NEW j \in Jobs, Executor(j) PROVE IInv'
  <2>1. CASE BaselineRules(j) \/ Baseline(j) \/ Judge(j)
    BY <2>1, BaselineRulesStep, BaselineStep, JudgeStep
  <2>2. CASE StartWorker(j) \/ NoWorkers(j) \/ Publish(j) \/ PendApplied(j)
    BY <2>2, StartWorkerStep, NoWorkersStep, PublishStep, PendAppliedStep
  <2>3. CASE CheckSlot(j) \/ CheckWorkers(j)
    BY <2>3, CheckSlotStep, CheckWorkersStep
  <2>4. CASE FeedEnds(j) \/ CloseJobs(j) \/ \E w \in Slots : Feed(j, w)
    BY <2>4, FeedEndsStep, CloseJobsStep, FeedStep
  <2>5. CASE Finish(j) \/ MergeSuccessful(j) \/ CleanUp(j) \/ Final(j) \/ SaveRun(j)
    BY <2>5, FinishStep, MergeSuccessfulStep, CleanUpStep, FinalStep, SaveRunStep
  <2> QED BY <1>4, <2>1, <2>2, <2>3, <2>4, <2>5 DEF Executor
<1>5. ASSUME NEW j \in Jobs, NEW w \in Slots, WorkerStep(j, w) PROVE IInv'
  BY <1>5, RecvClosedStep, ReceivedStep, StartNfqwsStep, ProbeStep, CheckRulesStep, CountDoneStep,
     AppendStep DEF WorkerStep
<1>6. ASSUME NEW c \in Callers, NEW t \in Asked, AddRunThreads(c, t) PROVE IInv'
  BY <1>6, AddRunThreadsStep
<1>7. ASSUME NEW c \in Agents, Adder(c) PROVE IInv'
  BY <1>7, AddLoopStep, AddStartStep, AddCountStep, AddWriteStep DEF Adder
<1>8. ASSUME Environment PROVE IInv'
  BY <1>8, DisturbStep, CrashStep, ShutdownStep, ShutdownCleanupStep, ExitStep, BootStep
     DEF Environment
<1>9. ASSUME Quiet \/ UNCHANGED vars PROVE IInv'
  BY <1>9, StutterStep DEF Quiet
<1> QED BY <1>1, <1>2, <1>3, <1>4, <1>5, <1>6, <1>7, <1>8, <1>9 DEF Next

\* The jobs, their pools and the router keep the invariant, whatever the
\* callers, the cancellations and the faults are.
THEOREM Invariance == Spec => []IInv
BY InitIInv, NextIInv, PTL DEF Spec

\* Every variable keeps its type: no counter of a run leaves its bounds.
THEOREM TypeCorrect == Spec => []TypeOK
<1>1. IInv => TypeOK
  BY TypedIsTypeOK DEF IInv
<1> QED BY <1>1, Invariance, PTL

\* Sandboxes belong to the job at work, and none is left in the router when a
\* new job may be started (executeRun, executeBlockCheck, CleanupSandboxes).
THEOREM SandboxesAreSafe == Spec => []SandboxSafe
<1>1. IInv => IdleIsClean
  <2> SUFFICES ASSUME IInv, proc = "up", NoJobActive
               PROVE  engines = {} /\ \A w \in Slots : rules[w] = None
    BY DEF IdleIsClean
  <2>1. \A j \in Jobs : exec[j] \notin Live
    BY DEF IInv, OneJob, NoJobActive
  <2>2. \A j \in Jobs : exec[j] # "baseline" /\ exec[j] \notin Pooled
    BY <2>1, PartsOf DEF Live, Pooled, Testing, AtWork, ExecPlaces
  <2>3. \A w \in engines : w \in Slots
    BY DEF IInv, Typed, BaseTyped
  <2>4. engines = {}
    BY <2>2 DEF IInv, Router, Pooled
  <2>5. \A w \in Slots : rules[w] = None
    BY <2>2 DEF IInv, Router, Owns, Typed, BaseTyped
  <2> QED BY <2>4, <2>5
<1>2. IInv => SandboxOwned
  BY DEF IInv, Router, Needs, SandboxOwned
<1>3. IInv => TypeOK
  BY TypedIsTypeOK DEF IInv
<1>4. IInv => SandboxSafe
  BY <1>1, <1>2, <1>3 DEF SandboxSafe
<1> QED BY <1>4, Invariance, PTL

\* A run called "done" has a result for every strategy of its plan, nobody
\* works for a job once wg.Wait has returned, and a raise of the thread count
\* is taken over when the pool comes up.
THEOREM RecordsAreComplete == Spec => []JobRecord
<1>1. IInv => DoneIsComplete
  <2> SUFFICES ASSUME IInv, NEW j \in Jobs, exec[j] \in {"save", "end"}, job[j].status = "done",
                      pool[j].started > 0
               PROVE  Tested(j) = Plan
    BY DEF DoneIsComplete
  <2> QED BY PartsOf DEF Sound, Complete, Tested
<1>2. IInv => WaitIsFinal
  <2> SUFFICES ASSUME IInv, NEW j \in Jobs, exec[j] \in {"merge", "clean", "final", "save", "end"}
               PROVE  WorkersGone(j)
    BY DEF WaitIsFinal
  <2> QED BY NobodyWorks DEF WorkersGone, AtWork
<1>3. IInv => JobRecord
  BY <1>1, <1>2 DEF IInv, JobRecord
<1> QED BY <1>3, Invariance, PTL

-----------------------------------------------------------------------------
(* A success was isolated: the invariant Watched.                          *)

\* A job keeps its kind when its record is written.
LEMMA KindKept ==
    ASSUME IInv, NEW j \in Jobs, NEW s, NEW t, NEW n, NEW f,
           \/ job' = job
           \/ job' = [job EXCEPT ![j].status = s]
           \/ job' = [job EXCEPT ![j].total = s]
           \/ job' = [job EXCEPT ![j].threads = s]
           \/ job' = [job EXCEPT ![j] = [@ EXCEPT !.status = s, !.done = n, !.results = f]]
           \/ job' = [job EXCEPT ![j].results[t] = s, ![j].done = n]
    PROVE  \A i \in Jobs : job'[i].kind = job[i].kind
<1>1. job \in [Jobs -> JobRecs]
  BY DEF IInv, Typed, JobsTyped
<1>2. CASE job' = [job EXCEPT ![j].results[t] = s, ![j].done = n]
  <2>1. job[j] \in JobRecs
    BY <1>1
  <2>2. job'[j].kind = job[j].kind /\ \A i \in Jobs \ {j} : job'[i] = job[i]
    BY <1>1, <1>2, <2>1 DEF JobRecs
  <2> QED BY <2>2
<1>3. job[j] \in JobRecs
  BY <1>1
<1>4. CASE job' = [job EXCEPT ![j].status = s]
  BY <1>1, <1>3, <1>4 DEF JobRecs
<1>5. CASE job' = [job EXCEPT ![j].total = s]
  BY <1>1, <1>3, <1>5 DEF JobRecs
<1>6. CASE job' = [job EXCEPT ![j].threads = s]
  BY <1>1, <1>3, <1>6 DEF JobRecs
<1>7. CASE job' = [job EXCEPT ![j] = [@ EXCEPT !.status = s, !.done = n, !.results = f]]
  BY <1>1, <1>3, <1>7 DEF JobRecs
<1> QED BY <1>2, <1>4, <1>5, <1>6, <1>7

\* The workers stay as they are, and no sandbox of one of them is repaired.
LEMMA WatchedKept ==
    ASSUME IInv, Watched, tainted' \subseteq tainted, worker' = worker,
           \A i \in Jobs, v \in Slots : worker[i][v].pc # "off" =>
              job'[i].kind = job[i].kind /\ (Isolated(v)' => Isolated(v))
    PROVE  Watched'
<1> SUFFICES ASSUME NEW i \in Jobs, NEW v \in Slots, ~IsCheck(i)', <<i, v>> \in tainted
             PROVE  /\ worker[i][v].pc \in {"probe", "verify"} => ~Isolated(v)'
                    /\ worker[i][v].pc \in {"count", "append"} => ~worker[i][v].good
  BY DEF Watched
<1>1. CASE worker[i][v].pc = "off"
  BY <1>1
<1>2. CASE worker[i][v].pc # "off"
  <2>1. ~IsCheck(i) /\ (Isolated(v)' => Isolated(v))
    BY <1>2 DEF IsCheck
  <2> QED BY <2>1 DEF Watched
<1> QED BY <1>1, <1>2

\* One worker goes on, to a record that satisfies Watched.
LEMMA WatchedWorker ==
    ASSUME IInv, Watched, NEW j \in Jobs, NEW w \in Slots, NEW r, Worker(j, w, r),
           tainted' \subseteq tainted, UNCHANGED <<rules, broken>>,
           \A i \in Jobs : job'[i].kind = job[i].kind,
           ~IsCheck(j) /\ <<j, w>> \in tainted' =>
              /\ r.pc \in {"probe", "verify"} => ~Isolated(w)
              /\ r.pc \in {"count", "append"} => ~r.good
    PROVE  Watched'
<1>1. \A i \in Jobs, v \in Slots :
         worker'[i][v] = IF i = j /\ v = w THEN r ELSE worker[i][v]
  BY DEF IInv, Typed, WorkTyped, Workers, Worker
<1> SUFFICES ASSUME NEW i \in Jobs, NEW v \in Slots, ~IsCheck(i)', <<i, v>> \in tainted'
             PROVE  /\ worker'[i][v].pc \in {"probe", "verify"} => ~Isolated(v)'
                    /\ worker'[i][v].pc \in {"count", "append"} => ~worker'[i][v].good
  BY DEF Watched
<1>2. ~IsCheck(i) /\ (Isolated(v)' <=> Isolated(v))
  BY DEF IsCheck, Isolated
<1>3. CASE i = j /\ v = w
  BY <1>1, <1>2, <1>3
<1>4. CASE ~(i = j /\ v = w)
  BY <1>1, <1>2, <1>4 DEF Watched
<1> QED BY <1>3, <1>4

\* Removing rules isolates nobody.
LEMMA DownIsolatesNobody ==
    ASSUME NEW ws, RulesDown(ws), NEW v \in Slots PROVE Isolated(v)' => Isolated(v)
BY DEF RulesDown, Isolated

\* Rules are only installed in a slot in which nobody works.
LEMMA UpIsolatesNobody ==
    ASSUME IInv, NEW j \in Jobs, NEW x \in Slots, exec[j] \in Live, RulesUp(j, x),
           exec[j] \in AtWork => x = pool[j].started,
           NEW i \in Jobs, NEW v \in Slots, worker[i][v].pc # "off"
    PROVE  Isolated(v)' => Isolated(v)
<1>1. exec[i] \in AtWork /\ exec[i] \in Live /\ v < pool[i].started
  BY AliveIsLive DEF IInv
<1>2. i = j
  BY <1>1, Unique DEF IInv
<1>3. pool[j].started \in Nat
  BY PartsOf DEF PoolRecs
<1>4. v # x
  BY <1>1, <1>2, <1>3 DEF Slots
<1> QED BY <1>4 DEF RulesUp, Isolated, IInv, Typed, BaseTyped

\* The growth of the pool by one worker, or the failure to set one up.
LEMMA WatchedGrowth ==
    ASSUME IInv, Watched, NEW j \in Jobs, NEW p, exec[j] \in AtWork, exec[j] \in Live,
           p.started = pool[j].started, p.started < MaxThreads,
           Ready(j, p) \/ NotReady(j, p), UNCHANGED <<job, tainted>>
    PROVE  Watched'
<1>1. p.started \in Slots
  BY PartsOf DEF PoolRecs, Slots
<1>2. CASE NotReady(j, p)
  <2>1. RulesDown({p.started}) /\ worker' = worker
    BY <1>2 DEF NotReady
  <2> QED BY <2>1, DownIsolatesNobody, WatchedKept
<1>3. CASE Ready(j, p)
  <2>1. RulesUp(j, p.started) /\ worker' = [worker EXCEPT ![j][p.started].pc = "recv"]
    BY <1>3 DEF Ready
  <2> SUFFICES ASSUME NEW i \in Jobs, NEW v \in Slots, ~IsCheck(i), <<i, v>> \in tainted
               PROVE  /\ worker'[i][v].pc \in {"probe", "verify"} => ~Isolated(v)'
                      /\ worker'[i][v].pc \in {"count", "append"} => ~worker'[i][v].good
    BY DEF Watched, IsCheck
  <2>2. CASE i = j /\ v = p.started
    <3>1. worker'[i][v].pc = "recv"
      BY <1>1, <2>1, <2>2 DEF IInv, Typed, WorkTyped, Workers, WorkerRecs
    <3> QED BY <3>1
  <2>3. CASE ~(i = j /\ v = p.started)
    <3>1. worker'[i][v] = worker[i][v]
      BY <1>1, <2>1, <2>3 DEF IInv, Typed, WorkTyped, Workers
    <3>2. CASE worker[i][v].pc # "off"
      <4>1. Isolated(v)' => Isolated(v)
        BY <1>1, <2>1, <3>2, UpIsolatesNobody
      <4> QED BY <3>1, <4>1 DEF Watched
    <3> QED BY <3>1, <3>2
  <2> QED BY <2>2, <2>3
<1> QED BY <1>2, <1>3

\* The steps of the workers.
LEMMA WorkerWatched ==
    ASSUME IInv, Watched, NEW j \in Jobs, NEW w \in Slots, WorkerStep(j, w) PROVE Watched'
<1> USE DEF kernel
<1>1. worker[j][w] \in WorkerRecs
  BY PartsOf DEF Workers
<1>2. CASE RecvClosed(j, w)
  BY <1>2, WatchedWorker DEF RecvClosed, NoWorker
<1>3. CASE Received(j, w)
  <2>1. PICK r : r = IF j \in ctx THEN NoWorker
                     ELSE [worker[j][w] EXCEPT !.pc = IF IsCheck(j) THEN "probe" ELSE "launch"]
    OBVIOUS
  <2>2. ~IsCheck(j) => r.pc \in {"off", "launch"}
    BY <1>1, <2>1 DEF NoWorker, WorkerRecs
  <2>3. Worker(j, w, r) /\ UNCHANGED <<job, rules, broken, tainted>>
    BY <1>3, <2>1 DEF Received
  <2> QED BY <2>2, <2>3, WatchedWorker
<1>4. CASE StartNfqws(j, w)
  <2>1. <<j, w>> \notin tainted' /\ tainted' \subseteq tainted /\ UNCHANGED <<job, rules, broken>>
    BY <1>4 DEF StartNfqws
  <2>2. PICK r : Worker(j, w, r)
    BY <1>4 DEF StartNfqws
  <2> QED BY <2>1, <2>2, WatchedWorker
<1>5. CASE Probe(j, w)
  <2>1. PICK g \in BOOLEAN :
           Worker(j, w, [worker[j][w] EXCEPT !.good = g, !.pc = IF IsCheck(j) THEN "count" ELSE "verify"])
    BY <1>5 DEF Probe
  <2>2. PICK r : r = [worker[j][w] EXCEPT !.good = g, !.pc = IF IsCheck(j) THEN "count" ELSE "verify"]
    OBVIOUS
  <2>3. ~IsCheck(j) => r.pc = "verify"
    BY <1>1, <2>2 DEF WorkerRecs
  <2>4. worker[j][w].pc = "probe" /\ UNCHANGED <<job, rules, broken, tainted>>
    BY <1>5 DEF Probe, WorkerAt
  <2>5. ~IsCheck(j) /\ <<j, w>> \in tainted => ~Isolated(w)
    BY <2>4 DEF Watched
  <2> QED BY <2>1, <2>2, <2>3, <2>4, <2>5, WatchedWorker
<1>6. CASE CheckRules(j, w)
  <2>1. PICK r : r = [worker[j][w] EXCEPT !.pc = "count", !.good = @ /\ Isolated(w)]
    OBVIOUS
  <2>2. r.pc = "count" /\ (~Isolated(w) => ~r.good)
    BY <1>1, <2>1 DEF WorkerRecs
  <2>3. worker[j][w].pc = "verify" /\ UNCHANGED <<job, rules, broken, tainted>> /\ Worker(j, w, r)
    BY <1>6, <2>1 DEF CheckRules, WorkerAt
  <2>4. ~IsCheck(j) /\ <<j, w>> \in tainted => ~Isolated(w)
    BY <2>3 DEF Watched
  <2> QED BY <2>2, <2>3, <2>4, WatchedWorker
<1>7. CASE CountDone(j, w)
  <2>1. PICK r : r = [worker[j][w] EXCEPT !.pc = "append", !.n = pool[j].done + 1]
    OBVIOUS
  <2>2. r.pc = "append" /\ r.good = worker[j][w].good
    BY <1>1, <2>1 DEF WorkerRecs
  <2>3. worker[j][w].pc = "count" /\ UNCHANGED <<job, rules, broken, tainted>> /\ Worker(j, w, r)
    BY <1>7, <2>1 DEF CountDone, WorkerAt
  <2>4. ~IsCheck(j) /\ <<j, w>> \in tainted => ~worker[j][w].good
    BY <2>3 DEF Watched
  <2> QED BY <2>2, <2>3, <2>4, WatchedWorker
<1>8. CASE Append(j, w)
  <2>1. /\ <<j, w>> \notin tainted' /\ tainted' \subseteq tainted /\ UNCHANGED <<rules, broken>>
        /\ Worker(j, w, [NoWorker EXCEPT !.pc = "recv"])
    BY <1>8 DEF Append
  <2>2. \A i \in Jobs : job'[i].kind = job[i].kind
    BY <1>8, KindKept DEF Append
  <2> QED BY <2>1, <2>2, WatchedWorker
<1> QED BY <1>2, <1>3, <1>4, <1>5, <1>6, <1>7, <1>8 DEF WorkerStep

\* The steps of executeRun and executeBlockCheck.
LEMMA ExecutorWatched ==
    ASSUME IInv, Watched, NEW j \in Jobs, Executor(j) PROVE Watched'
<1> USE DEF kernel
<1>1. CASE BaselineRules(j)
  <2>1. /\ exec[j] = "rules" /\ exec[j] \in Live /\ exec[j] \notin AtWork
        /\ UNCHANGED <<worker, tainted>>
    BY <1>1 DEF BaselineRules, At, Live, ExecPlaces, AtWork
  <2>2. pool[j].asked \in Slots
    BY PartsOf DEF PoolRecs, Slots
  <2>3. \A i \in Jobs : job'[i].kind = job[i].kind
    BY <1>1, KindKept DEF BaselineRules
  <2>4. RulesUp(j, pool[j].asked) \/ RulesDown({pool[j].asked})
    BY <1>1 DEF BaselineRules
  <2> QED BY <2>1, <2>2, <2>3, <2>4, UpIsolatesNobody, DownIsolatesNobody, WatchedKept
<1>2. CASE Baseline(j)
  <2>1. \A i \in Jobs : job'[i].kind = job[i].kind
    BY <1>2, KindKept DEF Baseline
  <2> QED BY <1>2, <2>1, DownIsolatesNobody, WatchedKept DEF Baseline
<1>3. CASE Judge(j)
  <2>1. \A i \in Jobs : job'[i].kind = job[i].kind
    BY <1>3, KindKept DEF Judge
  <2> QED BY <1>3, <2>1, WatchedKept DEF Judge, Isolated
<1>4. CASE StartWorker(j)
  <2>1. /\ exec[j] \in AtWork /\ exec[j] \in Live /\ UNCHANGED <<job, tainted>>
        /\ \/ UNCHANGED <<rules, broken, worker>>
           \/ /\ CanStart(j)
              /\ \/ Ready(j, [pool[j] EXCEPT !.tried = @ + 1])
                 \/ NotReady(j, [pool[j] EXCEPT !.tried = @ + 1])
    BY <1>4 DEF StartWorker, At, AtWork, Live, ExecPlaces
  <2>2. [pool[j] EXCEPT !.tried = @ + 1].started = pool[j].started
    BY PartsOf DEF PoolRecs
  <2>3. CASE UNCHANGED <<rules, broken, worker>>
    BY <2>1, <2>3, WatchedKept DEF Isolated
  <2> QED BY <2>1, <2>2, <2>3, WatchedGrowth DEF CanStart
<1>5. CASE NoWorkers(j) \/ Finish(j) \/ Final(j)
  <2>1. \A i \in Jobs : job'[i].kind = job[i].kind
    BY <1>5, KindKept DEF NoWorkers, Finish, Final
  <2>2. UNCHANGED <<worker, tainted, rules, broken>>
    BY <1>5 DEF NoWorkers, Finish, Final
  <2> QED BY <2>1, <2>2, WatchedKept DEF Isolated
<1>6. CASE Publish(j) \/ PendApplied(j) \/ FeedEnds(j) \/ CloseJobs(j) \/ MergeSuccessful(j)
             \/ SaveRun(j)
  <2>1. \A i \in Jobs : job'[i].kind = job[i].kind
    BY <1>6, KindKept DEF Publish, PendApplied, FeedEnds, CloseJobs, MergeSuccessful, SaveRun
  <2>2. UNCHANGED <<worker, tainted, rules, broken>>
    BY <1>6 DEF Publish, PendApplied, FeedEnds, CloseJobs, MergeSuccessful, SaveRun
  <2> QED BY <2>1, <2>2, WatchedKept DEF Isolated
<1>7. CASE CheckSlot(j)
  <2>1. /\ exec[j] = "slots" /\ exec[j] \in Live /\ exec[j] \notin AtWork
        /\ pool[j].started < pool[j].asked /\ UNCHANGED <<worker, tainted>>
    BY <1>7 DEF CheckSlot, At, Live, ExecPlaces, AtWork
  <2>2. pool[j].started \in Slots
    BY PartsOf DEF PoolRecs, Slots
  <2>3. \A i \in Jobs : job'[i].kind = job[i].kind
    BY <1>7, KindKept DEF CheckSlot
  <2>4. RulesUp(j, pool[j].started) \/ RulesDown(0..pool[j].started)
    BY <1>7 DEF CheckSlot
  <2> QED BY <2>1, <2>2, <2>3, <2>4, UpIsolatesNobody, DownIsolatesNobody, WatchedKept
<1>8. CASE CheckWorkers(j)
  <2>1. /\ UNCHANGED <<job, tainted, rules, broken>>
        /\ worker' = [worker EXCEPT ![j] = [w \in Slots |-> IF w < pool[j].started
                                              THEN [NoWorker EXCEPT !.pc = "recv"] ELSE NoWorker]]
    BY <1>8 DEF CheckWorkers
  <2>2. \A i \in Jobs, v \in Slots : \/ worker'[i][v] = worker[i][v]
                                     \/ worker'[i][v].pc \in {"recv", "off"}
    BY <2>1, Receiving DEF IInv, Typed, WorkTyped, NoWorker
  <2>3. \A i \in Jobs, v \in Slots : (IsCheck(i)' <=> IsCheck(i)) /\ (Isolated(v)' <=> Isolated(v))
    BY <2>1 DEF IsCheck, Isolated
  <2> QED BY <2>1, <2>2, <2>3 DEF Watched
<1>9. ASSUME NEW w \in Slots, Feed(j, w) PROVE Watched'
  <2>1. PICK r : r = [worker[j][w] EXCEPT !.pc = "got", !.idx = pool[j].next + 1]
    OBVIOUS
  <2>2. Worker(j, w, r) /\ UNCHANGED <<job, tainted, rules, broken>>
    BY <1>9, <2>1 DEF Feed, Worker
  <2>3. r.pc = "got"
    <3>1. worker[j][w] \in WorkerRecs
      BY PartsOf DEF Workers
    <3> QED BY <2>1, <3>1 DEF WorkerRecs
  <2> QED BY <2>2, <2>3, WatchedWorker
<1>10. CASE CleanUp(j)
  BY <1>10, DownIsolatesNobody, WatchedKept DEF CleanUp
<1> QED BY <1>1, <1>2, <1>3, <1>4, <1>5, <1>6, <1>7, <1>8, <1>9, <1>10 DEF Executor

\* Every step keeps Watched.
LEMMA NextWatched == IInv /\ Watched /\ [Next]_vars => Watched'
<1> SUFFICES ASSUME IInv, Watched, [Next]_vars PROVE Watched'
  OBVIOUS
<1> USE DEF kernel
<1>1. ASSUME NEW j \in Jobs, NEW kind, NEW t, NEW e, Create(j, kind, t),
             UNCHANGED <<worker, tainted, rules, broken>>
      PROVE  Watched'
  <2>1. \A i \in Jobs \ {j} : job'[i] = job[i]
    BY <1>1 DEF Create, IInv, Typed, JobsTyped
  <2>2. exec[j] = "none"
    BY <1>1, PartsOf DEF Create, Sound, Staged
  <2>3. \A w \in Slots : worker[j][w].pc = "off"
    BY <2>2, NobodyWorks DEF AtWork
  <2> QED BY <1>1, <2>1, <2>3, WatchedKept DEF Isolated
<1>2. ASSUME NEW j \in Jobs, NEW t \in Asked, StartBlockCheck(j, t) PROVE Watched'
  BY <1>1, <1>2 DEF StartBlockCheck
<1>3. ASSUME NEW j \in Jobs, NEW k \in Kinds, NEW t \in Asked, StartRun(j, k, t) PROVE Watched'
  BY <1>1, <1>3 DEF StartRun
<1>4. ASSUME CancelRun PROVE Watched'
  BY <1>4, WatchedKept DEF CancelRun, Isolated
<1>5. ASSUME NEW j \in Jobs, Executor(j) PROVE Watched'
  BY <1>5, ExecutorWatched
<1>6. ASSUME NEW j \in Jobs, NEW w \in Slots, WorkerStep(j, w) PROVE Watched'
  BY <1>6, WorkerWatched
<1>7. ASSUME NEW c \in Callers, NEW t \in Asked, AddRunThreads(c, t) PROVE Watched'
  BY <1>7, WatchedKept DEF AddRunThreads, Isolated
<1>8. ASSUME NEW c \in Agents, Adder(c) PROVE Watched'
  <2>1. CASE AddLoop(c) \/ AddCount(c)
    BY <2>1, WatchedKept DEF AddLoop, AddCount, Isolated
  <2>2. CASE AddStart(c)
    <3>1. adder[c].job \in Jobs /\ Feedable(adder[c].job)
      BY <2>2 DEF AddStart, IInv, Adders
    <3>2. CASE UNCHANGED <<rules, broken, worker>>
      BY <2>2, <3>2, WatchedKept DEF AddStart, Isolated
    <3>3. CASE /\ CanStart(adder[c].job)
               /\ \/ Ready(adder[c].job, pool[adder[c].job])
                  \/ NotReady(adder[c].job, pool[adder[c].job])
      <4>1. exec[adder[c].job] \in AtWork /\ exec[adder[c].job] \in Live
        BY <3>1, <3>3 DEF Feedable, CanStart, AtWork, Live, ExecPlaces
      <4> QED BY <2>2, <3>1, <3>3, <4>1, WatchedGrowth DEF CanStart, AddStart
    <3> QED BY <2>2, <3>2, <3>3 DEF AddStart
  <2>3. CASE AddWrite(c)
    <3>1. adder[c].job \in Jobs
      BY <2>3 DEF AddWrite, IInv, Adders
    <3>2. \A i \in Jobs : job'[i].kind = job[i].kind
      BY <2>3, <3>1, KindKept DEF AddWrite
    <3> QED BY <2>3, <3>2, WatchedKept DEF AddWrite, Isolated
  <2> QED BY <1>8, <2>1, <2>2, <2>3 DEF Adder
<1>9. ASSUME Environment PROVE Watched'
  <2>1. CASE Disturb
    <3>1. /\ UNCHANGED <<job, worker, rules>>
          /\ broken' = broken \cup {w \in Slots : rules[w] # None}
          /\ tainted' = tainted \cup {jw \in Jobs \X Slots :
                                        worker[jw[1]][jw[2]].pc \in {"probe", "verify"} /\ ~IsCheck(jw[1])}
      BY <2>1 DEF Disturb
    <3>2. \A w \in Slots : ~Isolated(w)'
      BY <3>1 DEF Isolated
    <3>3. \A i \in Jobs, w \in Slots :
             <<i, w>> \in tainted' /\ worker[i][w].pc \notin {"probe", "verify"} => <<i, w>> \in tainted
      BY <3>1
    <3> QED BY <3>1, <3>2, <3>3 DEF Watched, IsCheck
  <2>2. CASE Crash \/ Exit
    <3>1. tainted' = {}
      BY <2>2 DEF Crash, Exit, ProcessGone
    <3> QED BY <3>1 DEF Watched
  <2>3. CASE Shutdown
    BY <2>3, WatchedKept DEF Shutdown, Isolated
  <2>4. CASE ShutdownCleanup
    BY <2>4, DownIsolatesNobody, WatchedKept DEF ShutdownCleanup, CleanupSandboxes
  <2>5. CASE Boot
    <3>1. \A j \in Jobs : exec[j] \in {"none", "end"}
      BY <2>5 DEF Boot, IInv, GoneIsGone, Running
    <3>2. \A j \in Jobs, w \in Slots : worker[j][w].pc = "off"
      BY <3>1, NobodyWorks DEF AtWork
    <3>3. UNCHANGED <<worker, tainted>>
      BY <2>5 DEF Boot
    <3> QED BY <3>2, <3>3, WatchedKept
  <2> QED BY <1>9, <2>1, <2>2, <2>3, <2>4, <2>5 DEF Environment
<1>10. ASSUME Quiet \/ UNCHANGED vars PROVE Watched'
  BY <1>10, WatchedKept DEF Quiet, vars, Isolated
<1> QED BY <1>2, <1>3, <1>4, <1>5, <1>6, <1>7, <1>8, <1>9, <1>10 DEF Next

\* A strategy counts as a success only if the isolation of its sandbox held
\* during the whole test (testStrategy: CheckRules before and after the probes).
THEOREM SuccessIsIsolated == Spec => []IsolatedSuccess
<1>1. Init => Watched
  BY DEF Init, Watched
<1>2. IInv /\ Watched => IsolatedSuccess
  BY DEF Watched, IsolatedSuccess
<1> QED BY <1>1, <1>2, NextWatched, Invariance, PTL DEF Spec

=============================================================================
