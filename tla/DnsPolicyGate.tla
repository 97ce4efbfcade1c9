---------------------------- MODULE DnsPolicyGate ----------------------------
(***************************************************************************)
(* routingDNSGate (internal/services/awgroute/dns_policy_gate.go) with the *)
(* routing applies it protects and the DNS learners that pass through it   *)
(* (dns_learn_linux.go, routing_discovery_integration.go, dns_service.go). *)
(*                                                                         *)
(* An apply announces itself, waits for the learners inside, replaces the  *)
(* kernel sets and publishes a new learner snapshot.  A learner adds the   *)
(* answer's address to the kernel sets before the answer is delivered; a   *)
(* memo of confirmed adds saves it the work.  Every step is one critical   *)
(* section of the gate's mutex, or one shell command outside it.           *)
(***************************************************************************)
EXTENDS Integers, FiniteSets, TLC

CONSTANTS
  Queries,      \* DNS answers in flight
  Appliers,     \* routing lifecycle operations
  Addrs,        \* addresses the answers carry
  Unrouted,     \* an address no routing rule asks to install
  Nobody,       \* the learn token is free
  MaxApplies    \* bound: how many applies begin

ASSUME GateAssumption ==
  /\ IsFiniteSet(Queries)
  /\ Queries \cap Appliers = {}
  /\ Nobody \notin Queries
  /\ Unrouted \notin Addrs
  /\ MaxApplies \in Nat

VARIABLES
  generation, applying, readers, err, writeEpoch, learned, learnToken,
  sleeping,     \* goroutines blocked on the channel g.changed
  snap,         \* generation the installed DNS learner was built for
  kernel,       \* addresses in the kernel's ip sets
  pc,
  addr,         \* per query: its address
  outer,        \* per query: generation read by ObserveDNSAnswer
  gen,          \* per query: generation of the learner snapshot it uses
  epoch         \* per query: writeEpoch captured by confirmRoutingDNSLearning

gate == <<generation, applying, readers, err, writeEpoch, sleeping>>
local == <<addr, outer, gen, epoch>>
vars == <<gate, learned, learnToken, snap, kernel, pc, local>>

QueryPCs == {"idle", "gate", "peek", "acquire", "enter", "verify", "token",
             "write", "memo", "confirm", "observe", "deliver", "release",
             "check", "direct", "answered"}
ApplierPCs == {"idle", "begin", "drain", "body", "finish"}

\* Between acquire and release the query is counted in g.readers.
Reading(q) == pc[q] \in {"peek", "enter", "verify", "token", "write", "memo",
                         "confirm", "observe", "deliver", "release", "direct"}

\* dnsProxy is nil: no routing policy is installed.
NoLearner == -1

\* The panel just started, or policy number 0 is in force.
Init ==
  /\ generation = 0 /\ applying = FALSE /\ readers = 0 /\ err = FALSE
  /\ writeEpoch = 0 /\ learned = {} /\ learnToken = Nobody
  /\ sleeping = {}
  /\ snap \in {NoLearner, 0}
  /\ kernel = {}
  /\ pc = [p \in Queries \cup Appliers |-> "idle"]
  /\ addr = [q \in Queries |-> Unrouted]
  /\ outer = [q \in Queries |-> 0]
  /\ gen = [q \in Queries |-> 0]
  /\ epoch = [q \in Queries |-> 0]

Goto(p, l) == pc' = [pc EXCEPT ![p] = l]

\* signalLocked closes the channel: everyone asleep runs again.
SignalLocked == sleeping' = {}

\* Wait on g.changed, created under the mutex if need be.
Sleep(p) ==
  /\ sleeping' = sleeping \cup {p}
  /\ UNCHANGED <<generation, applying, readers, err, writeEpoch, learned,
                 learnToken, snap, kernel, pc, local>>

-----------------------------------------------------------------------------
(* Applies *)

StartApply(a) ==
  /\ pc[a] = "idle"
  /\ writeEpoch + Cardinality({b \in Appliers : pc[b] = "begin"}) < MaxApplies
  /\ Goto(a, "begin")
  /\ UNCHANGED <<gate, learned, learnToken, snap, kernel, local>>

Begin_NoEpoch(a, revise) ==
  /\ pc[a] = "begin" /\ a \notin sleeping
  /\ ~applying
  /\ applying' = TRUE
  /\ generation' = IF revise THEN generation + 1 ELSE generation
  /\ SignalLocked
  /\ Goto(a, "drain")
  /\ UNCHANGED <<readers, err, writeEpoch, learned, learnToken, snap, kernel,
                 local>>

Begin_Overlaps(a, revise) ==
  /\ pc[a] = "begin" /\ a \notin sleeping
  /\ applying' = TRUE
  /\ writeEpoch' = writeEpoch + 1
  /\ learned' = {}
  /\ generation' = IF revise THEN generation + 1 ELSE generation
  /\ SignalLocked
  /\ Goto(a, "drain")
  /\ UNCHANGED <<readers, err, learnToken, snap, kernel, local>>

\* begin(revise): announce the apply, invalidate the memo, wake the waiters.
Begin(a, revise) ==
  /\ pc[a] = "begin" /\ a \notin sleeping
  /\ ~applying
  /\ applying' = TRUE
  /\ writeEpoch' = writeEpoch + 1
  /\ learned' = {}
  /\ generation' = IF revise THEN generation + 1 ELSE generation
  /\ SignalLocked
  /\ Goto(a, "drain")
  /\ UNCHANGED <<readers, err, learnToken, snap, kernel, local>>

BeginWaits(a) ==
  /\ pc[a] = "begin" /\ a \notin sleeping
  /\ applying
  /\ Sleep(a)

Drained_NoWait(a) ==
  /\ pc[a] = "drain" /\ a \notin sleeping
  /\ Goto(a, "body")
  /\ UNCHANGED <<gate, learned, learnToken, snap, kernel, local>>

\* The second loop of begin: no learner is left inside.
Drained(a) ==
  /\ pc[a] = "drain" /\ a \notin sleeping
  /\ readers = 0
  /\ Goto(a, "body")
  /\ UNCHANGED <<gate, learned, learnToken, snap, kernel, local>>

DrainWaits(a) ==
  /\ pc[a] = "drain" /\ a \notin sleeping
  /\ readers > 0
  /\ Sleep(a)

\* The apply itself: sets are flushed, rebuilt or kept, and the DNS learner is
\* re-created for the current generation, dropped (a teardown) or, on a failure,
\* left as it was.
Replace(a) ==
  /\ pc[a] = "body"
  /\ kernel' \in SUBSET kernel
  /\ snap' \in {snap, generation, NoLearner}
  /\ Goto(a, "finish")
  /\ UNCHANGED <<gate, learned, learnToken, local>>

\* The function begin returns, called with the error of the apply.
Finish(a, failed) ==
  /\ pc[a] = "finish"
  /\ err' = failed
  /\ applying' = FALSE
  /\ SignalLocked
  /\ Goto(a, "idle")
  /\ UNCHANGED <<generation, readers, writeEpoch, learned, learnToken, snap,
                 kernel, local>>

-----------------------------------------------------------------------------
(* Learners *)

\* The verdict of verify: the policy the query started with is in force.
Verified(expected) == ~applying /\ expected = generation /\ ~err

StartQuery(q, a) ==
  /\ pc[q] = "idle"
  /\ addr' = [addr EXCEPT ![q] = a]
  /\ Goto(q, "gate")
  /\ UNCHANGED <<gate, learned, learnToken, snap, kernel, outer, gen, epoch>>

\* acquire: unversioned for ObserveDNSAnswer, versioned for the learner.
Acquire(q) ==
  /\ pc[q] \in {"gate", "acquire"} /\ q \notin sleeping
  /\ IF pc[q] = "acquire" /\ gen[q] # generation
       THEN Goto(q, "idle") /\ UNCHANGED readers
       ELSE /\ ~applying
            /\ IF err
                 THEN Goto(q, "idle") /\ UNCHANGED readers
                 ELSE /\ readers' = readers + 1
                      /\ Goto(q, IF pc[q] = "gate" THEN "peek" ELSE "enter")
  /\ UNCHANGED <<generation, applying, err, writeEpoch, sleeping, learned,
                 learnToken, snap, kernel, local>>

AcquireWaits(q) ==
  /\ pc[q] \in {"gate", "acquire"} /\ q \notin sleeping
  /\ pc[q] = "acquire" => gen[q] = generation
  /\ applying
  /\ Sleep(q)

\* The query's context ends while it waits for the gate.
AcquireCancelled(q) ==
  /\ pc[q] \in {"gate", "acquire"}
  /\ Goto(q, "idle")
  /\ sleeping' = sleeping \ {q}
  /\ UNCHANGED <<generation, applying, readers, err, writeEpoch, learned,
                 learnToken, snap, kernel, local>>

\* ObserveDNSAnswer under its own guard: find the learner, note the version,
\* release.
Peek(q) ==
  /\ pc[q] = "peek"
  /\ snap # NoLearner
  /\ outer' = [outer EXCEPT ![q] = generation]
  /\ gen' = [gen EXCEPT ![q] = snap]
  /\ readers' = readers - 1
  /\ SignalLocked
  /\ Goto(q, "acquire")
  /\ UNCHANGED <<generation, applying, err, writeEpoch, learned, learnToken,
                 snap, kernel, addr, epoch>>

\* Without a learner the answer is passed on as it is, after one verify under
\* the guard.
PeekDirect(q) ==
  /\ pc[q] = "peek"
  /\ snap = NoLearner
  /\ outer' = [outer EXCEPT ![q] = generation]
  /\ gen' = [gen EXCEPT ![q] = generation]
  /\ Goto(q, IF Verified(generation) THEN "direct" ELSE "release")
  /\ UNCHANGED <<gate, learned, learnToken, snap, kernel, addr, epoch>>

\* confirmRoutingDNSLearning captures the write epoch ...
CaptureEpoch(q) ==
  /\ pc[q] = "enter"
  /\ epoch' = [epoch EXCEPT ![q] = writeEpoch]
  /\ Goto(q, "verify")
  /\ UNCHANGED <<gate, learned, learnToken, snap, kernel, addr, outer, gen>>

\* ... and verifies generation and epoch three times: before the install,
\* after it, and after the discovery was recorded.
Confirmed(q) == Verified(gen[q]) /\ epoch[q] = writeEpoch

VerifyStep(q) ==
  /\ pc[q] \in {"verify", "confirm", "observe"}
  /\ Goto(q, IF ~Confirmed(q) THEN "release"
             ELSE CASE pc[q] = "verify" -> "token"
                    [] pc[q] = "confirm" -> "observe"
                    [] pc[q] = "observe" -> "deliver")
  /\ UNCHANGED <<gate, learned, learnToken, snap, kernel, local>>

\* The query's context is cancelled or its set name is refused: the deferred
\* release runs at once.
GiveUp(q) ==
  /\ pc[q] \in {"enter", "verify", "token", "confirm", "observe"}
  /\ Goto(q, "release")
  /\ UNCHANGED <<gate, learned, learnToken, snap, kernel, local>>

\* awgIPSetLearnWith up to the shell command: with the writer slot, the gate
\* is checked again and the memo consulted.
LearnStart(q) ==
  /\ pc[q] = "token"
  /\ addr[q] # Unrouted
  /\ learnToken = Nobody
  /\ IF applying \/ err
       THEN Goto(q, "release") /\ UNCHANGED learnToken
     ELSE IF addr[q] \in learned
       THEN Goto(q, "confirm") /\ UNCHANGED learnToken
     ELSE Goto(q, "write") /\ learnToken' = q
  /\ UNCHANGED <<gate, learned, snap, kernel, local>>

\* No set wants the address: the script is empty and nothing is run.
LearnNothing(q) ==
  /\ pc[q] = "token"
  /\ addr[q] = Unrouted
  /\ Goto(q, "confirm")
  /\ UNCHANGED <<gate, learned, learnToken, snap, kernel, local>>

\* ipset restore: a failed or timed-out command may have added the address.
LearnWrite(q, ok) ==
  /\ pc[q] = "write"
  /\ IF ok
       THEN /\ kernel' = kernel \cup {addr[q]}
            /\ Goto(q, "memo")
            /\ UNCHANGED learnToken
       ELSE /\ kernel' \in {kernel, kernel \cup {addr[q]}}
            /\ Goto(q, "release")
            /\ learnToken' = Nobody
  /\ UNCHANGED <<gate, learned, snap, local>>

Memoise_Unconditional(q) ==
  /\ pc[q] = "memo"
  /\ learned' = learned \cup {addr[q]}
  /\ learnToken' = Nobody
  /\ Goto(q, "confirm")
  /\ UNCHANGED <<gate, snap, kernel, local>>

\* The memo keeps the add only if no apply began meanwhile.  (The epoch local
\* to awgIPSetLearnWith was read after the caller's; applying covers both.)
Memoise(q) ==
  /\ pc[q] = "memo"
  /\ learned' = IF epoch[q] = writeEpoch /\ ~applying /\ ~err
                  THEN learned \cup {addr[q]} ELSE learned
  /\ learnToken' = Nobody
  /\ Goto(q, "confirm")
  /\ UNCHANGED <<gate, snap, kernel, local>>

\* memoTTL, and memoLimit emptying the map.
MemoExpires ==
  /\ learned # {}
  /\ \E a \in learned : learned' \in {learned \ {a}, {}}
  /\ UNCHANGED <<gate, learnToken, snap, kernel, pc, local>>

Release_NoSignal(q) ==
  /\ pc[q] \in {"deliver", "release", "direct"}
  /\ readers' = readers - 1
  /\ Goto(q, CASE pc[q] = "deliver" -> "check"
               [] pc[q] = "direct" -> "answered"
               [] pc[q] = "release" -> "idle")
  /\ UNCHANGED <<generation, applying, err, writeEpoch, sleeping, learned,
                 learnToken, snap, kernel, local>>

\* The deferred release.
Release(q) ==
  /\ pc[q] \in {"deliver", "release", "direct"}
  /\ readers' = readers - 1
  /\ SignalLocked
  /\ Goto(q, CASE pc[q] = "deliver" -> "check"
               [] pc[q] = "direct" -> "answered"
               [] pc[q] = "release" -> "idle")
  /\ UNCHANGED <<generation, applying, err, writeEpoch, learned, learnToken,
                 snap, kernel, local>>

Check_Unverified(q) ==
  /\ pc[q] = "check"
  /\ Goto(q, "answered")
  /\ UNCHANGED <<gate, learned, learnToken, snap, kernel, local>>

\* ObserveDNSAnswer's last verify: the answer goes to the client or is refused.
Check(q) ==
  /\ pc[q] = "check"
  /\ Goto(q, IF Verified(outer[q]) THEN "answered" ELSE "idle")
  /\ UNCHANGED <<gate, learned, learnToken, snap, kernel, local>>

Answered(q) ==
  /\ pc[q] = "answered"
  /\ Goto(q, "idle")
  /\ UNCHANGED <<gate, learned, learnToken, snap, kernel, local>>

-----------------------------------------------------------------------------
QueryStep(q) ==
  \/ Acquire(q) \/ AcquireWaits(q) \/ Peek(q) \/ PeekDirect(q)
  \/ CaptureEpoch(q)
  \/ VerifyStep(q) \/ LearnStart(q) \/ LearnNothing(q) \/ Memoise(q) \/ Release(q) \/ Check(q)
  \/ Answered(q)
  \/ \E ok \in BOOLEAN : LearnWrite(q, ok)

ApplierStep(a) ==
  \/ BeginWaits(a) \/ Drained(a) \/ DrainWaits(a)
  \/ Replace(a)
  \/ \E b \in BOOLEAN : Begin(a, b) \/ Finish(a, b)

Next ==
  \/ \E q \in Queries : \/ QueryStep(q) \/ AcquireCancelled(q) \/ GiveUp(q)
                        \/ \E a \in Addrs \cup {Unrouted} : StartQuery(q, a)
  \/ \E a \in Appliers : ApplierStep(a) \/ StartApply(a)
  \/ MemoExpires

Spec == Init /\ [][Next]_vars

\* Goroutines that can run do run; a learner that keeps asking for the one
\* writer slot gets it (channel senders queue in order).
Fairness ==
  /\ \A q \in Queries : WF_vars(QueryStep(q)) /\ SF_vars(LearnStart(q))
  /\ \A a \in Appliers : WF_vars(ApplierStep(a))

FairSpec == Spec /\ Fairness

\* Queries, applies and addresses are interchangeable.
Symmetry == Permutations(Queries) \cup Permutations(Appliers) \cup Permutations(Addrs)

-----------------------------------------------------------------------------
CountersOK ==
  /\ generation \in Nat /\ writeEpoch \in Nat /\ snap \in Nat \cup {NoLearner}
  /\ readers \in Nat
  /\ outer \in [Queries -> Nat]
  /\ gen \in [Queries -> Nat]
  /\ epoch \in [Queries -> Nat]

FlagsOK == applying \in BOOLEAN /\ err \in BOOLEAN

SetsOK ==
  /\ learned \subseteq Addrs /\ kernel \subseteq Addrs
  /\ learnToken \in Queries \cup {Nobody}
  /\ sleeping \subseteq Queries \cup Appliers
  /\ addr \in [Queries -> Addrs \cup {Unrouted}]

PCsOK ==
  /\ pc \in [Queries \cup Appliers -> QueryPCs \cup ApplierPCs]
  /\ \A q \in Queries : pc[q] \in QueryPCs
  /\ \A a \in Appliers : pc[a] \in ApplierPCs

\* Every variable has its type; in particular g.readers never becomes negative.
TypeOK == CountersOK /\ FlagsOK /\ SetsOK /\ PCsOK

Replacing(a) == pc[a] \in {"body", "finish"}

\* "An apply waits for in-flight learning before replacing sets and firewall
\* state": while some apply replaces the sets, no learner is between acquire
\* and release, and no second apply has begun.
Barrier ==
  \A a \in Appliers : Replacing(a) =>
    /\ \A q \in Queries : ~Reading(q)
    /\ \A b \in Appliers : pc[b] \in {"drain", "body", "finish"} => b = a

\* "The memo contains only confirmed kernel adds": an address in the memo is in
\* the kernel sets, whatever an apply flushed in between.
MemoSound == learned \subseteq kernel

\* "Explicit tunnel destinations must be installed before replying": an answer
\* is released to the client only with its address in the kernel sets.
InstalledBeforeReply ==
  \A q \in Queries :
    pc[q] \in {"confirm", "observe", "deliver"} /\ addr[q] # Unrouted
      => addr[q] \in kernel

\* "an obsolete snapshot returns a retryable DNS error instead of writing into a
\* reused set name": an address enters the sets only through a learner built for
\* the policy generation that was in force when it entered the gate, and never
\* while sets are being replaced.
NoObsoleteWrite ==
  [][\A q \in Queries :
       pc[q] = "write" /\ pc'[q] # "write"
         => /\ \A a \in Appliers : ~Replacing(a)
            /\ gen[q] = generation \/ applying]_vars

\* The learner that confirmed a delivered answer was built for the policy in
\* force at delivery: the snapshot ObserveDNSAnswer found, the version it noted
\* and the generation at its last verify are one.
AnswerUnderPolicy ==
  [][\A q \in Queries :
       pc[q] = "check" /\ pc'[q] = "answered"
         => gen[q] = generation /\ ~applying /\ ~err]_vars

\* Every apply that begins ends: the learners inside leave the gate, and their
\* leaving wakes it.
ApplyEnds == \A a \in Appliers : pc[a] # "idle" ~> pc[a] = "idle"

\* No query waits for ever at the gate or at the writer slot.
QueryEnds == \A q \in Queries : pc[q] # "idle" ~> pc[q] = "idle"

\* The gate implements the sharing of the sets: whatever its mutex, channel,
\* counters and memo do, an answer inside only adds one address, and an apply
\* replaces the sets with nobody inside and no other apply at work.
Sharing == INSTANCE SharedSets WITH
  Users <- Queries, Owners <- Appliers, Elements <- Addrs,
  inside <- {q \in Queries : Reading(q)},
  owner <- {a \in Appliers : Replacing(a)},
  elements <- kernel
SetsAreShared == Sharing!Spec
=============================================================================
