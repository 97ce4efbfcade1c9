------------------------------- MODULE AwgProofs -------------------------------
(***************************************************************************)
(* The routing of the AWG connections: the gate between DNS answers and    *)
(* policy applies (DnsPolicyGate), for any number of answers in flight, of *)
(* applies and of addresses; the engine of a tunnel (ClientEngine), and    *)
(* the routing of a client (RoutingLifecycle), for any number of requests, *)
(* failures, cancellations and crashes, each with the inductive invariant  *)
(* its safety rests on.                                                    *)
(***************************************************************************)
EXTENDS DnsPolicyGate, ClientEngine, RoutingLifecycle, FiniteSetTheorems, SequenceTheorems, TLAPS

(***************************************************************************)
(* DnsPolicyGate                                                           *)
(***************************************************************************)
ApplyPCs == {"drain", "body", "finish"}
LearningPCs == {"enter", "verify", "token", "write", "memo", "confirm",
                "observe", "deliver"}
ReadingPCs == LearningPCs \cup {"peek", "release", "direct"}
Readers == {q \in Queries : Reading(q)}

\* g.readers counts the queries between acquire and release.
ReadersCounted == readers = Cardinality(Readers)

\* g.applying belongs to exactly one apply, from begin to its finish.
OneApply ==
  /\ applying <=> \E a \in Appliers : pc[a] \in ApplyPCs
  /\ \A a, b \in Appliers : pc[a] \in ApplyPCs /\ pc[b] \in ApplyPCs => a = b

\* Nothing is memoised while an apply is under way.
MemoQuiet == applying => learned = {}

\* From the successful ipset command to the delivery the address stays in the
\* kernel sets.
Installed ==
  \A q \in Queries :
    /\ pc[q] \in {"write", "memo"} => addr[q] # Unrouted
    /\ pc[q] \in {"memo", "confirm", "observe", "deliver"}
         => addr[q] \in kernel \cup {Unrouted}

\* The learner a query uses is never newer than the version ObserveDNSAnswer
\* noted, and the versioned acquire makes them equal; an apply that revises the
\* version cannot end while such a query is inside.
Versions ==
  /\ snap <= generation
  /\ \A q \in Queries :
       /\ pc[q] = "acquire" => gen[q] <= outer[q] /\ outer[q] <= generation
       /\ pc[q] \in LearningPCs \cup {"check"} => gen[q] = outer[q]
       /\ pc[q] \in LearningPCs => gen[q] = generation \/ applying

\* The inductive invariant.
IInv ==
  /\ TypeOK
  /\ ReadersCounted
  /\ OneApply
  /\ Barrier
  /\ MemoQuiet
  /\ MemoSound
  /\ Installed
  /\ Versions

USE GateAssumption

-----------------------------------------------------------------------------
(* Counting the readers *)

\* The readers are the queries at the labels between acquire and release.
LEMMA ReadersByLabel == Readers = {q \in Queries : pc[q] \in ReadingPCs}
BY DEF Readers, Reading, ReadingPCs, LearningPCs

\* There are finitely many of them.
LEMMA ReadersFinite == IsFiniteSet(Readers) /\ Cardinality(Readers) \in Nat
BY FS_Subset, FS_CardinalityType DEF Readers

\* A query that stays inside the gate, or outside, leaves the count right.
LEMMA ReadersKept ==
  ASSUME TypeOK, ReadersCounted, NEW q \in Queries, NEW l \in QueryPCs, Goto(q, l),
         pc[q] \in ReadingPCs <=> l \in ReadingPCs, readers' = readers
  PROVE  ReadersCounted'
<1>1. Readers' = Readers
  BY ReadersByLabel DEF Goto, TypeOK, PCsOK, Readers, Reading, ReadingPCs, LearningPCs
<1> QED BY <1>1 DEF ReadersCounted

\* acquire counts the query that enters.
LEMMA ReadersEnter ==
  ASSUME TypeOK, ReadersCounted, NEW q \in Queries, NEW l \in QueryPCs, Goto(q, l),
         pc[q] \notin ReadingPCs, l \in ReadingPCs, readers' = readers + 1
  PROVE  ReadersCounted'
<1>1. Readers' = Readers \cup {q}
  BY ReadersByLabel DEF Goto, TypeOK, PCsOK, Readers, Reading, ReadingPCs, LearningPCs
<1>2. q \notin Readers
  BY ReadersByLabel
<1>3. Cardinality(Readers') = Cardinality(Readers) + 1
  BY <1>1, <1>2, ReadersFinite, FS_AddElement
<1> QED BY <1>3 DEF ReadersCounted

\* release discounts the query that leaves.
LEMMA ReadersLeave ==
  ASSUME TypeOK, ReadersCounted, NEW q \in Queries, NEW l \in QueryPCs, Goto(q, l),
         pc[q] \in ReadingPCs, l \notin ReadingPCs, readers' = readers - 1
  PROVE  ReadersCounted' /\ readers' \in Nat
<1>1. Readers' = Readers \ {q}
  BY ReadersByLabel DEF Goto, TypeOK, PCsOK, Readers, Reading, ReadingPCs, LearningPCs
<1>2. q \in Readers
  BY ReadersByLabel
<1>3. Cardinality(Readers') = Cardinality(Readers) - 1
  BY <1>1, <1>2, ReadersFinite, FS_RemoveElement
<1>4. IsFiniteSet(Readers') /\ Cardinality(Readers') \in Nat
  BY <1>1, ReadersFinite, FS_RemoveElement, FS_CardinalityType
<1> QED BY <1>3, <1>4 DEF ReadersCounted

\* An apply that moves on leaves the count alone.
LEMMA ReadersOfApply ==
  ASSUME TypeOK, ReadersCounted, NEW a \in Appliers, NEW l, Goto(a, l),
         readers' = readers
  PROVE  ReadersCounted'
<1>1. Readers' = Readers
  BY DEF Goto, TypeOK, PCsOK, Readers, Reading
<1> QED BY <1>1 DEF ReadersCounted

\* No reader is inside when the count is zero.
LEMMA NoReaders ==
  ASSUME ReadersCounted, readers = 0
  PROVE  \A q \in Queries : ~Reading(q)
<1>1. Readers = {}
  BY ReadersFinite, FS_EmptySet DEF ReadersCounted
<1> QED BY <1>1 DEF Readers

-----------------------------------------------------------------------------
(* What a query's step leaves to the applies *)

\* The moves of a query do not touch the ownership of g.applying, and keep the
\* barrier if the query enters the gate only while no apply is under way.
LEMMA QueryMove ==
  ASSUME TypeOK, OneApply, Barrier, NEW q \in Queries, NEW l \in QueryPCs,
         Goto(q, l), applying' = applying,
         l \in ReadingPCs => pc[q] \in ReadingPCs \/ ~applying
  PROVE  OneApply' /\ Barrier'
<1>1. \A a \in Appliers : pc'[a] = pc[a]
  BY DEF Goto, TypeOK, PCsOK
<1>2. OneApply'
  BY <1>1 DEF OneApply
<1>3. Barrier'
  <2> SUFFICES ASSUME NEW a \in Appliers, Replacing(a)'
               PROVE  /\ \A r \in Queries : ~Reading(r)'
                      /\ \A b \in Appliers :
                           (pc[b] \in {"drain", "body", "finish"})' => b = a
    BY DEF Barrier
  <2>1. Replacing(a) /\ applying
    BY <1>1 DEF Replacing, OneApply, ApplyPCs
  <2>2. \A r \in Queries : ~Reading(r)
    BY <2>1 DEF Barrier
  <2>3. l \notin ReadingPCs
    BY <2>1, <2>2 DEF Reading, ReadingPCs, LearningPCs
  <2> QED BY <1>1, <2>1, <2>2, <2>3 DEF Barrier, Goto, TypeOK, PCsOK, Reading,
             ReadingPCs, LearningPCs
<1> QED BY <1>2, <1>3

-----------------------------------------------------------------------------
(* The initial state *)

\* A gate just created satisfies the invariant.
LEMMA InitIInv == Init => IInv
<1> SUFFICES ASSUME Init PROVE IInv
  OBVIOUS
<1> USE DEF Init
<1>1. TypeOK
  <2>1. CountersOK /\ SetsOK
    BY DEF CountersOK, SetsOK, NoLearner
  <2>2. FlagsOK
    BY Zenon DEF FlagsOK
  <2>3. PCsOK
    BY DEF PCsOK, QueryPCs, ApplierPCs
  <2> QED BY <2>1, <2>2, <2>3 DEF TypeOK
<1>2. ReadersCounted
  <2>1. Readers = {}
    BY DEF Readers, Reading
  <2> QED BY <2>1, FS_EmptySet DEF ReadersCounted
<1>3. OneApply /\ Barrier /\ MemoQuiet /\ MemoSound
  BY DEF OneApply, ApplyPCs, Barrier, Replacing, MemoQuiet, MemoSound
<1>4. Installed /\ Versions
  BY DEF Installed, Versions, LearningPCs, NoLearner
<1> QED BY <1>1, <1>2, <1>3, <1>4 DEF IInv

-----------------------------------------------------------------------------
(* The steps of a query *)

\* A query that moves on to a label of its own keeps PCsOK.
LEMMA QueryGoto ==
  ASSUME PCsOK, NEW q \in Queries, NEW l \in QueryPCs, Goto(q, l)
  PROVE  PCsOK'
BY DEF PCsOK, Goto

\* The moves that change neither the policy nor the sets: it is enough that the
\* query has, at its new label, what the invariant asks for there.
LEMMA QuietMove ==
  ASSUME IInv, NEW q \in Queries, NEW l \in QueryPCs, Goto(q, l),
         UNCHANGED <<generation, applying, err, writeEpoch, learned, snap,
                     kernel, addr, outer, gen>>,
         CountersOK', SetsOK', ReadersCounted',
         l \in ReadingPCs => pc[q] \in ReadingPCs \/ ~applying,
         l \in {"write", "memo"} => addr[q] # Unrouted,
         l \in {"memo", "confirm", "observe", "deliver"}
           => addr[q] \in kernel \cup {Unrouted},
         l = "acquire" => gen[q] <= outer[q] /\ outer[q] <= generation,
         l \in LearningPCs \cup {"check"} => gen[q] = outer[q],
         l \in LearningPCs => gen[q] = generation \/ applying
  PROVE  IInv'
<1> USE DEF IInv
<1>1. TypeOK'
  <2>1. FlagsOK'
    BY Zenon DEF FlagsOK, TypeOK
  <2> QED BY <2>1, QueryGoto DEF TypeOK
<1>2. OneApply' /\ Barrier'
  BY QueryMove
<1>3. MemoQuiet' /\ MemoSound'
  BY DEF MemoQuiet, MemoSound
<1>4. Installed'
  BY DEF Installed, Goto, TypeOK, PCsOK
<1>5. Versions'
  BY DEF Versions, Goto, TypeOK, PCsOK
<1> QED BY <1>1, <1>2, <1>3, <1>4, <1>5

\* A goroutine falls asleep on g.changed.
LEMMA SleepStep ==
  ASSUME IInv, NEW p \in Queries \cup Appliers, Sleep(p)
  PROVE  IInv'
<1> USE DEF IInv, Sleep, local
<1>1. TypeOK'
  <2>1. FlagsOK'
    BY Zenon DEF FlagsOK, TypeOK
  <2> QED BY <2>1 DEF TypeOK, CountersOK, SetsOK, PCsOK
<1>2. ReadersCounted'
  BY DEF ReadersCounted, Readers, Reading
<1>3. OneApply' /\ Barrier' /\ MemoQuiet' /\ MemoSound'
  BY DEF OneApply, Barrier, Replacing, Reading, MemoQuiet, MemoSound
<1>4. Installed' /\ Versions'
  BY DEF Installed, Versions
<1> QED BY <1>1, <1>2, <1>3, <1>4

\* The steps between acquire and release that run no command.
LEMMA InsideStep ==
  ASSUME IInv, NEW q \in Queries,
         CaptureEpoch(q) \/ VerifyStep(q) \/ GiveUp(q) \/ LearnNothing(q)
           \/ LearnStart(q)
  PROVE  IInv'
<1> USE DEF IInv, gate, local
<1>1. pc[q] \in LearningPCs
  BY DEF CaptureEpoch, VerifyStep, GiveUp, LearnNothing, LearnStart, LearningPCs
<1>2. UNCHANGED <<generation, applying, readers, err, writeEpoch, learned, snap,
                  kernel, addr, outer, gen>>
  BY DEF CaptureEpoch, VerifyStep, GiveUp, LearnNothing, LearnStart
<1>3. CountersOK' /\ SetsOK'
  <2>1. epoch' \in [Queries -> Nat] /\ sleeping' = sleeping
    BY DEF CaptureEpoch, VerifyStep, GiveUp, LearnNothing, LearnStart, TypeOK,
       CountersOK
  <2>2. learnToken' \in Queries \cup {Nobody}
    BY DEF CaptureEpoch, VerifyStep, GiveUp, LearnNothing, LearnStart, TypeOK,
       SetsOK
  <2> QED BY <1>2, <2>1, <2>2 DEF TypeOK, CountersOK, SetsOK
<1>4. PICK l \in QueryPCs :
        /\ Goto(q, l)
        /\ l \in LearningPCs \cup {"release"}
        /\ l = "write" => addr[q] # Unrouted
        /\ l # "memo"
        /\ l \in {"confirm", "observe", "deliver"}
             => addr[q] \in kernel \cup {Unrouted}
  <2>1. CASE CaptureEpoch(q)
    BY <2>1 DEF CaptureEpoch, QueryPCs, LearningPCs
  <2>2. CASE VerifyStep(q)
    BY <2>2 DEF VerifyStep, QueryPCs, LearningPCs, Installed
  <2>3. CASE GiveUp(q)
    BY <2>3 DEF GiveUp, QueryPCs
  <2>4. CASE LearnNothing(q)
    BY <2>4 DEF LearnNothing, QueryPCs, LearningPCs
  <2>5. CASE LearnStart(q)
    BY <2>5 DEF LearnStart, QueryPCs, LearningPCs, MemoSound
  <2> QED BY <2>1, <2>2, <2>3, <2>4, <2>5
<1>5. ReadersCounted'
  BY <1>1, <1>2, <1>4, ReadersKept DEF ReadingPCs
<1> QED
  BY <1>1, <1>2, <1>3, <1>4, <1>5, QuietMove DEF ReadingPCs, LearningPCs,
     Versions

\* The steps outside the gate: giving up the wait, the last verify of
\* ObserveDNSAnswer, and the return.
LEMMA OutsideStep ==
  ASSUME IInv, NEW q \in Queries,
         AcquireCancelled(q) \/ Check(q) \/ Answered(q)
  PROVE  IInv'
<1> USE DEF IInv, gate, local
<1>1. PICK l \in {"idle", "answered"} : Goto(q, l)
  BY DEF AcquireCancelled, Check, Answered
<1>2. UNCHANGED <<generation, applying, readers, err, writeEpoch, learned, snap,
                  kernel, addr, outer, gen, epoch, learnToken>>
  BY DEF AcquireCancelled, Check, Answered
<1>3. sleeping' \subseteq sleeping
  BY DEF AcquireCancelled, Check, Answered
<1>4. CountersOK' /\ SetsOK'
  BY <1>2, <1>3 DEF TypeOK, CountersOK, SetsOK
<1>5. pc[q] \notin ReadingPCs /\ l \notin ReadingPCs
  BY <1>1 DEF AcquireCancelled, Check, Answered, ReadingPCs, LearningPCs
<1>6. l \in QueryPCs
  BY DEF QueryPCs
<1>7. ReadersCounted'
  BY <1>1, <1>2, <1>5, <1>6, ReadersKept
<1> QED BY <1>1, <1>2, <1>4, <1>5, <1>6, <1>7, QuietMove DEF LearningPCs

\* acquire: a query enters only while no apply is under way; the versioned one
\* only with the version of its learner in force.
LEMMA AcquireStep ==
  ASSUME IInv, NEW q \in Queries, Acquire(q)
  PROVE  IInv'
<1> USE DEF IInv, Acquire, local
<1>1. pc[q] \notin ReadingPCs
  BY DEF ReadingPCs, LearningPCs
<1>2. SetsOK'
  BY DEF TypeOK, SetsOK
<1>3. CASE Goto(q, "idle") /\ readers' = readers
  <2>1. ReadersCounted'
    BY <1>1, <1>3, ReadersKept DEF ReadingPCs, LearningPCs, QueryPCs
  <2>2. CountersOK'
    BY <1>3 DEF TypeOK, CountersOK
  <2> QED BY <1>2, <1>3, <2>1, <2>2, QuietMove DEF ReadingPCs, LearningPCs,
             QueryPCs
<1>4. CASE ~applying /\ readers' = readers + 1 /\ Goto(q, "peek")
  <2>1. ReadersCounted'
    BY <1>1, <1>4, ReadersEnter DEF ReadingPCs, QueryPCs
  <2>2. CountersOK'
    BY <1>4 DEF TypeOK, CountersOK
  <2> QED BY <1>2, <1>4, <2>1, <2>2, QuietMove DEF LearningPCs, QueryPCs
<1>5. CASE /\ ~applying /\ readers' = readers + 1 /\ Goto(q, "enter")
           /\ pc[q] = "acquire" /\ gen[q] = generation
  <2>1. ReadersCounted'
    BY <1>1, <1>5, ReadersEnter DEF ReadingPCs, LearningPCs, QueryPCs
  <2>2. CountersOK'
    BY <1>5 DEF TypeOK, CountersOK
  <2>3. gen[q] = outer[q]
    BY <1>5 DEF Versions, TypeOK, CountersOK
  <2> QED BY <1>2, <1>5, <2>1, <2>2, <2>3, QuietMove DEF QueryPCs
<1> QED BY <1>3, <1>4, <1>5

\* release: the query leaves the gate and wakes the waiters.
LEMMA ReleaseStep ==
  ASSUME IInv, NEW q \in Queries, Release(q)
  PROVE  IInv'
<1> USE DEF IInv, Release, local, SignalLocked
<1>1. PICK l \in {"check", "answered", "idle"} :
        Goto(q, l) /\ (l = "check" => pc[q] = "deliver")
  OBVIOUS
<1>2. pc[q] \in ReadingPCs /\ l \notin ReadingPCs /\ l \in QueryPCs
  BY DEF ReadingPCs, LearningPCs, QueryPCs
<1>3. ReadersCounted' /\ readers' \in Nat
  BY <1>1, <1>2, ReadersLeave
<1>4. CountersOK' /\ SetsOK'
  BY <1>3 DEF TypeOK, CountersOK, SetsOK
<1>5. l = "check" => gen[q] = outer[q]
  BY <1>1 DEF Versions, LearningPCs
<1> QED BY <1>1, <1>2, <1>3, <1>4, <1>5, QuietMove DEF LearningPCs

\* A new answer reaches ObserveDNSAnswer.
LEMMA StartQueryStep ==
  ASSUME IInv, NEW q \in Queries, NEW x \in Addrs \cup {Unrouted},
         StartQuery(q, x)
  PROVE  IInv'
<1> USE DEF IInv, StartQuery, gate
<1>1. TypeOK'
  <2>1. FlagsOK'
    BY Zenon DEF FlagsOK, TypeOK
  <2>2. PCsOK'
    BY QueryGoto DEF TypeOK, QueryPCs
  <2> QED BY <2>1, <2>2 DEF TypeOK, CountersOK, SetsOK
<1>2. ReadersCounted'
  BY ReadersKept DEF ReadingPCs, LearningPCs, QueryPCs
<1>3. OneApply' /\ Barrier'
  BY QueryMove DEF ReadingPCs, LearningPCs, QueryPCs
<1>4. MemoQuiet' /\ MemoSound'
  BY DEF MemoQuiet, MemoSound
<1>5. Installed'
  BY DEF Installed, Goto, TypeOK, PCsOK, SetsOK
<1>6. Versions'
  BY DEF Versions, LearningPCs, Goto, TypeOK, PCsOK
<1> QED BY <1>1, <1>2, <1>3, <1>4, <1>5, <1>6

\* ObserveDNSAnswer notes the version and the learner under its guard.
LEMMA PeekStep ==
  ASSUME IInv, NEW q \in Queries, Peek(q)
  PROVE  IInv'
<1> USE DEF IInv, Peek, SignalLocked
<1>1. ReadersCounted' /\ readers' \in Nat
  BY ReadersLeave DEF ReadingPCs, LearningPCs, QueryPCs
<1>2. TypeOK'
  <2>1. FlagsOK'
    BY Zenon DEF FlagsOK, TypeOK
  <2>2. PCsOK'
    BY QueryGoto DEF TypeOK, QueryPCs
  <2> QED BY <1>1, <2>1, <2>2 DEF TypeOK, CountersOK, SetsOK
<1>3. OneApply' /\ Barrier'
  BY QueryMove DEF ReadingPCs, LearningPCs, QueryPCs
<1>4. MemoQuiet' /\ MemoSound'
  BY DEF MemoQuiet, MemoSound
<1>5. Installed'
  BY DEF Installed, Goto, TypeOK, PCsOK
<1>6. Versions'
  BY DEF Versions, LearningPCs, Goto, TypeOK, PCsOK, CountersOK
<1> QED BY <1>1, <1>2, <1>3, <1>4, <1>5, <1>6

\* Without a learner the answer is passed on under the guard.
LEMMA PeekDirectStep ==
  ASSUME IInv, NEW q \in Queries, PeekDirect(q)
  PROVE  IInv'
<1> USE DEF IInv, PeekDirect, gate
<1>1. PICK l \in {"direct", "release"} : Goto(q, l)
  OBVIOUS
<1>2. pc[q] \in ReadingPCs /\ l \in ReadingPCs /\ l \in QueryPCs
  BY DEF ReadingPCs, QueryPCs
<1>3. ReadersCounted'
  BY <1>1, <1>2, ReadersKept
<1>4. TypeOK'
  <2>1. FlagsOK'
    BY Zenon DEF FlagsOK, TypeOK
  <2>2. PCsOK'
    BY <1>1, <1>2, QueryGoto DEF TypeOK
  <2> QED BY <2>1, <2>2 DEF TypeOK, CountersOK, SetsOK
<1>5. OneApply' /\ Barrier'
  BY <1>1, <1>2, QueryMove
<1>6. MemoQuiet' /\ MemoSound'
  BY DEF MemoQuiet, MemoSound
<1>7. Installed'
  BY <1>1 DEF Installed, Goto, TypeOK, PCsOK
<1>8. Versions'
  BY <1>1 DEF Versions, LearningPCs, Goto, TypeOK, PCsOK
<1> QED BY <1>3, <1>4, <1>5, <1>6, <1>7, <1>8

\* The ipset command adds the address, or fails having added it or not.
LEMMA LearnWriteStep ==
  ASSUME IInv, NEW q \in Queries, NEW ok \in BOOLEAN, LearnWrite(q, ok)
  PROVE  IInv'
<1> USE DEF IInv, LearnWrite, gate, local
<1>1. PICK l \in {"memo", "release"} :
        Goto(q, l) /\ (l = "memo" => addr[q] \in kernel')
  OBVIOUS
<1>2. pc[q] \in ReadingPCs /\ l \in ReadingPCs /\ l \in QueryPCs
  BY DEF ReadingPCs, LearningPCs, QueryPCs
<1>3. addr[q] \in Addrs
  BY DEF Installed, TypeOK, SetsOK
<1>4. kernel \subseteq kernel' /\ kernel' \subseteq Addrs
  BY <1>3 DEF TypeOK, SetsOK
<1>5. TypeOK'
  <2>1. FlagsOK'
    BY Zenon DEF FlagsOK, TypeOK
  <2>2. PCsOK'
    BY <1>1, <1>2, QueryGoto DEF TypeOK
  <2> QED BY <1>4, <2>1, <2>2 DEF TypeOK, CountersOK, SetsOK
<1>6. ReadersCounted'
  BY <1>1, <1>2, ReadersKept
<1>7. OneApply' /\ Barrier'
  BY <1>1, <1>2, QueryMove
<1>8. MemoQuiet' /\ MemoSound'
  BY <1>4 DEF MemoQuiet, MemoSound
<1>9. Installed'
  BY <1>1, <1>4 DEF Installed, Goto, TypeOK, PCsOK
<1>10. Versions'
  BY <1>1 DEF Versions, LearningPCs, Goto, TypeOK, PCsOK
<1> QED BY <1>5, <1>6, <1>7, <1>8, <1>9, <1>10

\* The memo takes an address that is in the kernel, and none under an apply.
LEMMA MemoiseStep ==
  ASSUME IInv, NEW q \in Queries, Memoise(q)
  PROVE  IInv'
<1> USE DEF IInv, Memoise, gate, local
<1>1. pc[q] \in ReadingPCs /\ "confirm" \in ReadingPCs /\ "confirm" \in QueryPCs
  BY DEF ReadingPCs, LearningPCs, QueryPCs
<1>2. addr[q] \in kernel
  BY DEF Installed
<1>3. learned' \subseteq kernel /\ (applying => learned' = learned)
  BY <1>2 DEF MemoSound
<1>4. TypeOK'
  <2>1. FlagsOK'
    BY Zenon DEF FlagsOK, TypeOK
  <2>2. PCsOK'
    BY <1>1, QueryGoto DEF TypeOK
  <2> QED BY <1>3, <2>1, <2>2 DEF TypeOK, CountersOK, SetsOK
<1>5. ReadersCounted'
  BY <1>1, ReadersKept
<1>6. OneApply' /\ Barrier'
  BY <1>1, QueryMove
<1>7. MemoQuiet' /\ MemoSound'
  BY <1>3 DEF MemoQuiet, MemoSound
<1>8. Installed'
  BY DEF Installed, Goto, TypeOK, PCsOK
<1>9. Versions'
  BY DEF Versions, LearningPCs, Goto, TypeOK, PCsOK
<1> QED BY <1>4, <1>5, <1>6, <1>7, <1>8, <1>9

\* Forgetting an address only costs a repeated command.
LEMMA MemoExpiresStep ==
  ASSUME IInv, MemoExpires
  PROVE  IInv'
<1> USE DEF IInv, MemoExpires, gate, local
<1>1. learned' \subseteq learned
  OBVIOUS
<1>2. TypeOK'
  <2>1. FlagsOK'
    BY Zenon DEF FlagsOK, TypeOK
  <2> QED BY <1>1, <2>1 DEF TypeOK, CountersOK, SetsOK, PCsOK
<1>3. ReadersCounted'
  BY DEF ReadersCounted, Readers, Reading
<1>4. OneApply' /\ Barrier'
  BY DEF OneApply, Barrier, Replacing, Reading
<1>5. MemoQuiet' /\ MemoSound'
  BY <1>1 DEF MemoQuiet, MemoSound
<1>6. Installed' /\ Versions'
  BY DEF Installed, Versions
<1> QED BY <1>2, <1>3, <1>4, <1>5, <1>6

-----------------------------------------------------------------------------
(* The steps of an apply *)

\* An apply that moves on to a label of its own keeps PCsOK.
LEMMA ApplierGoto ==
  ASSUME PCsOK, NEW a \in Appliers, NEW l \in ApplierPCs, Goto(a, l)
  PROVE  PCsOK'
BY DEF PCsOK, Goto

\* What the queries rely on is not at an apply's label.
LEMMA ApplierMove ==
  ASSUME TypeOK, NEW a \in Appliers, NEW l, Goto(a, l)
  PROVE  /\ \A q \in Queries : pc'[q] = pc[q]
         /\ \A b \in Appliers : pc'[b] = IF b = a THEN l ELSE pc[b]
BY DEF TypeOK, PCsOK, Goto

\* A lifecycle operation asks for the gate.
LEMMA StartApplyStep ==
  ASSUME IInv, NEW a \in Appliers, StartApply(a)
  PROVE  IInv'
<1> USE DEF IInv, StartApply, gate, local
<1>1. PICK l \in {"begin"} : Goto(a, l)
  OBVIOUS
<1>2. ReadersCounted'
  BY ReadersOfApply
<1>3. TypeOK'
  <2>1. FlagsOK'
    BY Zenon DEF FlagsOK, TypeOK
  <2>2. PCsOK'
    BY ApplierGoto DEF TypeOK, ApplierPCs
  <2> QED BY <2>1, <2>2 DEF TypeOK, CountersOK, SetsOK
<1>4. OneApply' /\ Barrier'
  BY <1>1, ApplierMove DEF OneApply, ApplyPCs, Barrier, Replacing, Reading
<1>5. MemoQuiet' /\ MemoSound'
  BY DEF MemoQuiet, MemoSound
<1>6. Installed' /\ Versions'
  BY <1>1, ApplierMove DEF Installed, Versions
<1> QED BY <1>2, <1>3, <1>4, <1>5, <1>6

\* begin announces the apply and empties the memo.
LEMMA BeginStep ==
  ASSUME IInv, NEW a \in Appliers, NEW revise \in BOOLEAN, Begin(a, revise)
  PROVE  IInv'
<1> USE DEF IInv, Begin, local, SignalLocked
<1>1. PICK l \in {"drain"} : Goto(a, l)
  OBVIOUS
<1>2. generation' \in Nat /\ generation <= generation' /\ applying'
  BY DEF TypeOK, CountersOK
<1>3. ReadersCounted'
  BY ReadersOfApply
<1>4. TypeOK'
  <2>1. FlagsOK'
    BY Zenon DEF FlagsOK, TypeOK
  <2>2. PCsOK'
    BY ApplierGoto DEF TypeOK, ApplierPCs
  <2> QED BY <1>2, <2>1, <2>2 DEF TypeOK, CountersOK, SetsOK
<1>5. OneApply' /\ Barrier'
  BY <1>1, ApplierMove DEF OneApply, ApplyPCs, Barrier, Replacing, Reading
<1>6. MemoQuiet' /\ MemoSound'
  BY DEF MemoQuiet, MemoSound
<1>7. Installed'
  BY <1>1, ApplierMove DEF Installed
<1>8. Versions'
  BY <1>1, <1>2, ApplierMove DEF Versions, TypeOK, CountersOK, NoLearner
<1> QED BY <1>3, <1>4, <1>5, <1>6, <1>7, <1>8

\* The apply goes on only when the last learner has left.
LEMMA DrainedStep ==
  ASSUME IInv, NEW a \in Appliers, Drained(a)
  PROVE  IInv'
<1> USE DEF IInv, Drained, gate, local
<1>1. PICK l \in {"body"} : Goto(a, l)
  OBVIOUS
<1>2. ReadersCounted'
  BY ReadersOfApply
<1>3. TypeOK'
  <2>1. FlagsOK'
    BY Zenon DEF FlagsOK, TypeOK
  <2>2. PCsOK'
    BY ApplierGoto DEF TypeOK, ApplierPCs
  <2> QED BY <2>1, <2>2 DEF TypeOK, CountersOK, SetsOK
<1>4. OneApply'
  BY <1>1, ApplierMove DEF OneApply, ApplyPCs
<1>5. Barrier'
  <2>1. \A q \in Queries : ~Reading(q)
    BY NoReaders
  <2> QED BY <1>1, <2>1, ApplierMove DEF OneApply, ApplyPCs, Barrier, Replacing,
             Reading
<1>6. MemoQuiet' /\ MemoSound'
  BY DEF MemoQuiet, MemoSound
<1>7. Installed' /\ Versions'
  BY <1>1, ApplierMove DEF Installed, Versions
<1> QED BY <1>2, <1>3, <1>4, <1>5, <1>6, <1>7

\* The sets are replaced with nobody inside and an empty memo.
LEMMA ReplaceStep ==
  ASSUME IInv, NEW a \in Appliers, Replace(a)
  PROVE  IInv'
<1> USE DEF IInv, Replace, gate, local
<1>1. PICK l \in {"finish"} : Goto(a, l)
  OBVIOUS
<1>2. Replacing(a) /\ applying
  BY DEF Replacing, OneApply, ApplyPCs
<1>3. \A q \in Queries : ~Reading(q)
  BY <1>2 DEF Barrier
<1>4. learned = {}
  BY <1>2 DEF MemoQuiet
<1>5. ReadersCounted'
  BY ReadersOfApply
<1>6. TypeOK'
  <2>1. FlagsOK'
    BY Zenon DEF FlagsOK, TypeOK
  <2>2. PCsOK'
    BY ApplierGoto DEF TypeOK, ApplierPCs
  <2>3. CountersOK'
    BY DEF TypeOK, CountersOK
  <2>4. SetsOK'
    BY DEF TypeOK, SetsOK
  <2> QED BY <2>1, <2>2, <2>3, <2>4 DEF TypeOK
<1>7. OneApply' /\ Barrier'
  BY <1>1, <1>2, ApplierMove DEF OneApply, ApplyPCs, Barrier, Replacing, Reading
<1>8. MemoQuiet' /\ MemoSound'
  BY <1>4 DEF MemoQuiet, MemoSound
<1>9. Installed'
  BY <1>1, <1>3, ApplierMove DEF Installed, Reading
<1>10. Versions'
  BY <1>1, ApplierMove DEF Versions, TypeOK, CountersOK, NoLearner
<1> QED BY <1>5, <1>6, <1>7, <1>8, <1>9, <1>10

\* The apply ends: no query of an older version is inside.
LEMMA FinishStep ==
  ASSUME IInv, NEW a \in Appliers, NEW failed \in BOOLEAN, Finish(a, failed)
  PROVE  IInv'
<1> USE DEF IInv, Finish, local, SignalLocked
<1>1. PICK l \in {"idle"} : Goto(a, l)
  OBVIOUS
<1>2. Replacing(a)
  BY DEF Replacing
<1>3. \A q \in Queries : ~Reading(q)
  BY <1>2 DEF Barrier
<1>4. ReadersCounted'
  BY ReadersOfApply
<1>5. TypeOK'
  <2>1. FlagsOK'
    BY Zenon DEF FlagsOK, TypeOK
  <2>2. PCsOK'
    BY ApplierGoto DEF TypeOK, ApplierPCs
  <2> QED BY <2>1, <2>2 DEF TypeOK, CountersOK, SetsOK
<1>6. \A b \in Appliers : b # a => pc[b] \notin ApplyPCs
  BY <1>2 DEF Barrier, ApplyPCs
<1>7. OneApply' /\ Barrier'
  BY <1>1, <1>6, ApplierMove DEF OneApply, ApplyPCs, Barrier, Replacing, Reading
<1>8. MemoQuiet' /\ MemoSound'
  BY DEF MemoQuiet, MemoSound
<1>9. Installed'
  BY <1>1, ApplierMove DEF Installed
<1>10. Versions'
  BY <1>1, <1>3, ApplierMove DEF Versions, LearningPCs, Reading
<1> QED BY <1>4, <1>5, <1>7, <1>8, <1>9, <1>10

-----------------------------------------------------------------------------
(* The invariant *)

\* Every step of the system keeps the invariant.
LEMMA IInvStep == IInv /\ [Next]_vars => IInv'
<1> SUFFICES ASSUME IInv, [Next]_vars PROVE IInv'
  OBVIOUS
<1>1. ASSUME NEW q \in Queries, QueryStep(q) PROVE IInv'
  BY <1>1, SleepStep, InsideStep, OutsideStep, AcquireStep, ReleaseStep,
     PeekStep, PeekDirectStep, LearnWriteStep, MemoiseStep
     DEF QueryStep, AcquireWaits
<1>2. ASSUME NEW a \in Appliers, ApplierStep(a) PROVE IInv'
  BY <1>2, SleepStep, BeginStep, DrainedStep, ReplaceStep, FinishStep
     DEF ApplierStep, BeginWaits, DrainWaits
<1>3. ASSUME UNCHANGED vars PROVE IInv'
  <2> USE <1>3 DEF vars, gate, local, IInv
  <2>1. TypeOK'
    <3>1. FlagsOK'
      BY Zenon DEF FlagsOK, TypeOK
    <3> QED BY <3>1 DEF TypeOK, CountersOK, SetsOK, PCsOK
  <2>2. ReadersCounted' /\ OneApply' /\ Barrier'
    BY DEF ReadersCounted, Readers, Reading, OneApply, Barrier, Replacing
  <2>3. MemoQuiet' /\ MemoSound' /\ Installed' /\ Versions'
    BY DEF MemoQuiet, MemoSound, Installed, Versions
  <2> QED BY <2>1, <2>2, <2>3
<1> QED
  BY <1>1, <1>2, <1>3, OutsideStep, InsideStep, StartQueryStep, StartApplyStep,
     MemoExpiresStep DEF Next

\* In every behaviour, with any number of answers and applies.
THEOREM Invariance == Spec => []IInv
  BY InitIInv, IInvStep, PTL DEF Spec

\* The types hold; no release ever makes g.readers negative.
THEOREM TypeCorrect == Spec => []TypeOK
  BY Invariance, PTL DEF IInv

\* An apply replaces the sets alone: begin's two loops and acquire's test are
\* enough, however many learners and applies contend.
THEOREM ApplyIsAlone == Spec => []Barrier
  BY Invariance, PTL DEF IInv

\* The memo of awgIPSetLearnWith never claims an address that an apply flushed.
THEOREM MemoIsConfirmed == Spec => []MemoSound
  BY Invariance, PTL DEF IInv

\* No answer leaves before its address is installed.
THEOREM RepliesInstalled == Spec => []InstalledBeforeReply
<1>1. Installed => InstalledBeforeReply
  BY DEF Installed, InstalledBeforeReply
<1> QED BY <1>1, Invariance, PTL DEF IInv

-----------------------------------------------------------------------------
(* The two action properties *)

\* A step that ends an ipset command finds no apply at the sets, and a learner
\* of the version in force unless an apply has been announced meanwhile.
LEMMA WriteInForce ==
  ASSUME IInv, NEW q \in Queries, pc[q] = "write"
  PROVE  (\A a \in Appliers : ~Replacing(a)) /\ (gen[q] = generation \/ applying)
<1>1. Reading(q)
  BY DEF Reading
<1> QED BY <1>1 DEF IInv, Barrier, Versions, LearningPCs

\* No learner of a replaced policy writes into the sets of the new one.
THEOREM ObsoleteNeverWrites == Spec => NoObsoleteWrite
<1>1. IInv /\ [Next]_vars =>
        [\A q \in Queries : pc[q] = "write" /\ pc'[q] # "write"
           => /\ \A a \in Appliers : ~Replacing(a)
              /\ gen[q] = generation \/ applying]_vars
  BY WriteInForce
<1> QED BY <1>1, Invariance, PTL DEF Spec, NoObsoleteWrite

\* Only the last verify of ObserveDNSAnswer moves a query from check to answered.
LEMMA AnsweredByCheck ==
  ASSUME IInv, [Next]_vars, NEW q \in Queries,
         pc[q] = "check", pc'[q] = "answered"
  PROVE  Verified(outer[q])
<1> USE DEF IInv, TypeOK, PCsOK, Goto
<1>1. ASSUME NEW r \in Queries, QueryStep(r) \/ AcquireCancelled(r) \/ GiveUp(r)
      PROVE  Verified(outer[q])
  <2>1. CASE r = q
    BY <1>1, <2>1 DEF QueryStep, AcquireCancelled, GiveUp, Acquire, AcquireWaits,
       Sleep, Peek, PeekDirect, CaptureEpoch, VerifyStep, LearnStart,
       LearnNothing, LearnWrite, Memoise, Release, Check, Answered
  <2>2. CASE r # q
    <3>1. pc'[q] = pc[q]
      BY <1>1, <2>2 DEF QueryStep, AcquireCancelled, GiveUp, Acquire,
         AcquireWaits, Sleep, Peek, PeekDirect, CaptureEpoch, VerifyStep,
         LearnStart, LearnNothing, LearnWrite, Memoise, Release, Check, Answered
    <3> QED BY <3>1
  <2> QED BY <2>1, <2>2
<1>2. ASSUME NEW a \in Appliers, ApplierStep(a) \/ StartApply(a)
      PROVE  pc'[q] = pc[q]
  BY <1>2 DEF ApplierStep, StartApply, BeginWaits, Sleep, Begin, Drained,
     DrainWaits, Replace, Finish
<1>3. ASSUME NEW r \in Queries, NEW x \in Addrs \cup {Unrouted}, StartQuery(r, x)
      PROVE  pc'[q] # "answered"
  BY <1>3 DEF StartQuery
<1>4. ASSUME MemoExpires \/ UNCHANGED vars PROVE pc'[q] = pc[q]
  BY <1>4 DEF MemoExpires, vars
<1> QED BY <1>1, <1>2, <1>3, <1>4 DEF Next

\* An answer is delivered under the policy its learner was built for, with no
\* apply under way and none failed.
THEOREM AnswersUnderPolicy == Spec => AnswerUnderPolicy
<1>1. IInv /\ [Next]_vars =>
        [\A q \in Queries : pc[q] = "check" /\ pc'[q] = "answered"
           => gen[q] = generation /\ ~applying /\ ~err]_vars
  BY AnsweredByCheck DEF IInv, Versions, Verified
<1> QED BY <1>1, Invariance, PTL DEF Spec, AnswerUnderPolicy

-----------------------------------------------------------------------------
(* The gate implements the sharing of the sets *)

Holders == {a \in Appliers : Replacing(a)}
SharingStep == Sharing!Next \/ UNCHANGED Sharing!sharedVars

\* The abstract state changes with the labels inside the gate only: a query
\* that stays inside or outside changes nothing.
LEMMA ShareQuiet ==
  ASSUME TypeOK, NEW q \in Queries, NEW l \in QueryPCs, Goto(q, l),
         pc[q] \in ReadingPCs <=> l \in ReadingPCs
  PROVE  Readers' = Readers /\ Holders' = Holders
BY ReadersByLabel DEF Goto, TypeOK, PCsOK, Readers, Holders, Replacing, Reading, ReadingPCs, LearningPCs

\* acquire lets a query in.
LEMMA ShareEnter ==
  ASSUME TypeOK, OneApply, NEW q \in Queries, NEW l \in QueryPCs, Goto(q, l),
         pc[q] \notin ReadingPCs, l \in ReadingPCs, ~applying, kernel' = kernel
  PROVE  Sharing!Enter(q)
<1>1. Readers' = Readers \cup {q} /\ q \notin Readers
  BY ReadersByLabel DEF Goto, TypeOK, PCsOK, Readers, Reading, ReadingPCs, LearningPCs
<1>2. Holders = {} /\ Holders' = {}
  BY DEF Holders, Replacing, OneApply, ApplyPCs, Goto, TypeOK, PCsOK
<1> QED BY <1>1, <1>2 DEF Sharing!Enter, Readers, Holders

\* release lets a query out.
LEMMA ShareLeave ==
  ASSUME TypeOK, NEW q \in Queries, NEW l \in QueryPCs, Goto(q, l),
         pc[q] \in ReadingPCs, l \notin ReadingPCs, kernel' = kernel
  PROVE  Sharing!Leave(q)
<1>1. Readers' = Readers \ {q} /\ q \in Readers
  BY ReadersByLabel DEF Goto, TypeOK, PCsOK, Readers, Reading, ReadingPCs, LearningPCs
<1>2. Holders' = Holders
  BY DEF Holders, Replacing, Goto, TypeOK, PCsOK
<1> QED BY <1>1, <1>2 DEF Sharing!Leave, Readers, Holders

\* Every step of a query is an entry, a departure, the add of one address, or
\* nothing the sets can tell.
LEMMA ShareQuery ==
  ASSUME IInv, IInv', NEW q \in Queries, QueryStep(q)
  PROVE  SharingStep
<1> USE DEF IInv, gate, local
<1>1. CASE Acquire(q) /\ readers' # readers
  <2>1. PICK l \in {"peek", "enter"} : Goto(q, l) /\ ~applying /\ kernel' = kernel
    BY <1>1 DEF Acquire
  <2> QED BY <2>1, <1>1, ShareEnter DEF Acquire, QueryPCs, ReadingPCs, LearningPCs, SharingStep, Sharing!Next
<1>2. CASE Peek(q) \/ Release(q)
  <2>1. PICK l \in {"acquire", "check", "answered", "idle"} : Goto(q, l) /\ kernel' = kernel
    BY <1>2 DEF Peek, Release
  <2>2. pc[q] \in ReadingPCs
    BY <1>2 DEF Peek, Release, ReadingPCs, LearningPCs
  <2> QED BY <2>1, <2>2, ShareLeave DEF QueryPCs, ReadingPCs, LearningPCs, SharingStep, Sharing!Next
<1>3. CASE \E ok \in BOOLEAN : LearnWrite(q, ok)
  <2>1. PICK l \in {"memo", "release"} : Goto(q, l)
    BY <1>3 DEF LearnWrite
  <2>2. pc[q] \in ReadingPCs /\ l \in ReadingPCs /\ l \in QueryPCs
    BY <1>3 DEF LearnWrite, ReadingPCs, LearningPCs, QueryPCs
  <2>3. Readers' = Readers /\ Holders' = Holders /\ q \in Readers
    BY <2>1, <2>2, ShareQuiet, ReadersByLabel
  <2>4. kernel' = kernel \/ (kernel' = kernel \cup {addr[q]} /\ addr[q] \in Addrs)
    BY <1>3 DEF LearnWrite, Installed, TypeOK, SetsOK
  <2>5. Sharing!Extend(q) \/ UNCHANGED Sharing!sharedVars
    BY <2>3, <2>4 DEF Sharing!Extend, Sharing!sharedVars, Readers, Holders
  <2> QED BY <2>5 DEF SharingStep, Sharing!Next
<1>4. CASE AcquireWaits(q)
  <2>1. pc' = pc /\ kernel' = kernel
    BY <1>4 DEF AcquireWaits, Sleep
  <2> QED BY <2>1 DEF SharingStep, Sharing!sharedVars, Reading, Replacing
<1>5. CASE \/ Acquire(q) /\ readers' = readers
           \/ PeekDirect(q) \/ CaptureEpoch(q) \/ VerifyStep(q) \/ LearnStart(q)
           \/ LearnNothing(q) \/ Memoise(q) \/ Check(q) \/ Answered(q)
  <2>1. PICK l \in QueryPCs : /\ Goto(q, l) /\ kernel' = kernel
                              /\ pc[q] \in ReadingPCs <=> l \in ReadingPCs
    <3>1. CASE Acquire(q) /\ readers' = readers
      <4>1. Goto(q, "idle") /\ kernel' = kernel /\ pc[q] \notin ReadingPCs
        BY <3>1 DEF Acquire, TypeOK, CountersOK, ReadingPCs, LearningPCs
      <4> QED BY <4>1 DEF QueryPCs, ReadingPCs, LearningPCs
    <3>2. CASE PeekDirect(q)
      BY <3>2 DEF PeekDirect, QueryPCs, ReadingPCs, LearningPCs
    <3>3. CASE CaptureEpoch(q)
      BY <3>3 DEF CaptureEpoch, QueryPCs, ReadingPCs, LearningPCs
    <3>4. CASE VerifyStep(q)
      BY <3>4 DEF VerifyStep, QueryPCs, ReadingPCs, LearningPCs
    <3>5. CASE LearnStart(q) \/ LearnNothing(q)
      BY <3>5 DEF LearnStart, LearnNothing, QueryPCs, ReadingPCs, LearningPCs
    <3>6. CASE Memoise(q)
      BY <3>6 DEF Memoise, QueryPCs, ReadingPCs, LearningPCs
    <3>7. CASE Check(q) \/ Answered(q)
      BY <3>7 DEF Check, Answered, QueryPCs, ReadingPCs, LearningPCs
    <3> QED BY <1>5, <3>1, <3>2, <3>3, <3>4, <3>5, <3>6, <3>7
  <2> QED BY <2>1, ShareQuiet DEF SharingStep, Sharing!sharedVars, Readers, Holders
<1> QED BY <1>1, <1>2, <1>3, <1>4, <1>5 DEF QueryStep

\* A query that starts, gives up or is cancelled stays where it was.
LEMMA ShareOther ==
  ASSUME IInv, NEW q \in Queries,
         AcquireCancelled(q) \/ GiveUp(q) \/ \E a \in Addrs \cup {Unrouted} : StartQuery(q, a)
  PROVE  SharingStep
<1> USE DEF IInv, gate, local
<1>1. PICK l \in QueryPCs : /\ Goto(q, l) /\ kernel' = kernel
                            /\ pc[q] \in ReadingPCs <=> l \in ReadingPCs
  <2>1. CASE AcquireCancelled(q)
    BY <2>1 DEF AcquireCancelled, QueryPCs, ReadingPCs, LearningPCs
  <2>2. CASE GiveUp(q)
    BY <2>2 DEF GiveUp, QueryPCs, ReadingPCs, LearningPCs
  <2>3. CASE \E a \in Addrs \cup {Unrouted} : StartQuery(q, a)
    BY <2>3 DEF StartQuery, QueryPCs, ReadingPCs, LearningPCs
  <2> QED BY <2>1, <2>2, <2>3
<1> QED BY <1>1, ShareQuiet DEF SharingStep, Sharing!sharedVars, Readers, Holders

\* An apply takes the sets when its drain is over, has them to itself while it
\* replaces them, and gives them back with finish.
LEMMA ShareApply ==
  ASSUME IInv, IInv', NEW a \in Appliers, ApplierStep(a) \/ StartApply(a)
  PROVE  SharingStep
<1> USE DEF IInv, gate, local
<1>1. CASE Drained(a)
  <2>1. Readers = {} /\ Readers' = {}
    BY <1>1, NoReaders, ApplierMove DEF Drained, Readers, Reading
  <2>2. Holders = {} /\ Holders' = {a}
    BY <1>1, ApplierMove DEF Drained, Holders, Replacing, OneApply, ApplyPCs
  <2>3. Sharing!Own(a)
    BY <1>1, <2>1, <2>2 DEF Drained, Sharing!Own, Readers, Holders
  <2> QED BY <2>3 DEF SharingStep, Sharing!Next
<1>2. CASE Replace(a)
  <2>1. Readers' = Readers
    BY <1>2, ApplierMove DEF Replace, Readers, Reading
  <2>2. Holders = {a} /\ Holders' = {a}
    BY <1>2, ApplierMove DEF Replace, Holders, Replacing, OneApply, ApplyPCs
  <2>3. Sharing!Shrink(a)
    BY <1>2, <2>1, <2>2 DEF Replace, Sharing!Shrink, Readers, Holders
  <2> QED BY <2>3 DEF SharingStep, Sharing!Next
<1>3. CASE \E failed \in BOOLEAN : Finish(a, failed)
  <2>1. Readers' = Readers
    BY <1>3, ApplierMove DEF Finish, Readers, Reading
  <2>2. Holders = {a} /\ Holders' = {}
    BY <1>3, ApplierMove DEF Finish, Holders, Replacing, OneApply, ApplyPCs
  <2>3. Sharing!Disown(a)
    BY <1>3, <2>1, <2>2 DEF Finish, Sharing!Disown, Readers, Holders
  <2> QED BY <2>3 DEF SharingStep, Sharing!Next
<1>4. CASE BeginWaits(a) \/ DrainWaits(a)
  <2>1. pc' = pc /\ kernel' = kernel
    BY <1>4 DEF BeginWaits, DrainWaits, Sleep
  <2> QED BY <2>1 DEF SharingStep, Sharing!sharedVars, Reading, Replacing
<1>5. CASE StartApply(a) \/ \E revise \in BOOLEAN : Begin(a, revise)
  <2>1. PICK l \in {"begin", "drain"} : Goto(a, l)
    BY <1>5 DEF StartApply, Begin
  <2>2. Readers' = Readers /\ Holders' = Holders /\ kernel' = kernel
    BY <1>5, <2>1, ApplierMove DEF StartApply, Begin, Readers, Reading, Holders, Replacing
  <2> QED BY <2>2 DEF SharingStep, Sharing!sharedVars, Readers, Holders
<1> QED BY <1>1, <1>2, <1>3, <1>4, <1>5 DEF ApplierStep

\* Every step of the gate is a step of the shared sets, or none.
LEMMA ShareStep == IInv /\ IInv' /\ [Next]_vars => SharingStep
<1> SUFFICES ASSUME IInv, IInv', [Next]_vars PROVE SharingStep
  OBVIOUS
<1>1. CASE MemoExpires \/ UNCHANGED vars
  <2>1. pc' = pc /\ kernel' = kernel
    BY <1>1 DEF MemoExpires, vars
  <2> QED BY <2>1 DEF SharingStep, Sharing!sharedVars, Reading, Replacing
<1> QED BY <1>1, ShareQuery, ShareOther, ShareApply DEF Next

\* routingDNSGate, with the learners and the applies that use it, implements
\* SharedSets: any number of answers extend the sets together, and an apply has
\* them to itself.
THEOREM GateIsSharing == Spec => SetsAreShared
<1>1. Init => Sharing!Init
  BY DEF Init, Sharing!Init, Reading, Replacing
<1>2. IInv /\ IInv' /\ [Next]_vars => [Sharing!Next]_(Sharing!sharedVars)
  BY ShareStep DEF SharingStep
<1> QED BY <1>1, <1>2, Invariance, PTL DEF Spec, SetsAreShared, Sharing!Spec

HIDE GateAssumption

(***************************************************************************)
(* ClientEngine                                                            *)
(***************************************************************************)
ceSpec == ceInit /\ [][ceNext]_ceVars

CeInstalls == {"archive", "sum", "verify", "extract", "rename"}
CeProbes == {"zero", "interval", "rezero"}
CeSteps == CeInstalls \cup CeProbes \cup
           {"idle", "reconnect", "down", "start", "set", "try", "wait", "exhausted", "final"}
CeTodos == [at : CeSteps, of : {"none", "first", "second", "up", "probe", "scan"}, left : Seq(1..4)]
CeProfiles == {{"H"}, {"S"}}
CeConfs == [fields : CeProfiles, ep : 0..4, keep : {0, 25}, warp : BOOLEAN, on : BOOLEAN]
CeDaemons == [ver : {0, 1, 2}, fields : {{}} \cup CeProfiles, ep : 0..4, keep : {0, 25}, want : {0, 25}, was : 0..4]
ceTyped ==
    /\ ceFile \in SoundReleases
    /\ ceConf \in CeConfs /\ ceD \in CeDaemons /\ ceTodo \in CeTodos
    /\ ceWhy \in {"none", "install", "up", "off", "test"} /\ ceLast \in 0..4
    /\ ceCancelled \in BOOLEAN /\ ceLost \in BOOLEAN /\ ceStuck \in BOOLEAN

\* Which steps belong to what, and to whom.
ceOrder ==
    /\ ceTodo.at \in {"try", "wait", "exhausted"} => ceTodo.of = "scan"
    /\ ceTodo.at \in {"reconnect", "down", "start", "set", "final"} => ceTodo.of = "up"
    /\ ceTodo.of = "scan" => ceTodo.at \in {"try", "wait", "exhausted"} \cup CeProbes
    /\ ceTodo.of = "scan" /\ ceTodo.at # "exhausted" => ceTodo.left # <<>>
    /\ ceTodo.at \in CeProbes => ceTodo.of \in {"up", "probe", "scan"}
    /\ ceTodo.at \in CeProbes /\ ceTodo.of # "probe" => ceConf.keep = 0
    /\ ceTodo.at = "rezero" => ceConf.keep = 0
    /\ ceTodo.at \in CeInstalls => ceWhy = "install"
    /\ ceBusy /\ ceTodo.at \notin CeInstalls => ceWhy \in {"up", "off", "test"}
    /\ ceBusy /\ ceWhy = "off" => ceTodo.at = "down"
    /\ ceWhy = "test" => ceTodo.at # "reconnect"
    /\ ceBusy /\ ceWhy = "up" /\ ceTodo.of # "probe" => ceConf.on

\* A tunnel without endpoint is not used, and an operation knows one.
ceKnown ==
    /\ ceConf.ep = 0 => ~ceConf.on /\ ceD.ep = 0 /\ ceTodo.at \in CeInstalls \cup {"idle"}
    /\ ceBusy /\ ceTodo.at \notin CeInstalls => ceLast # 0

\* What will be renamed is a whole engine.
ceStaged == ceTodo.at = "rename" => ceTmp \in SoundReleases

\* What is configured was fresh.
ceFresh == ceTodo.at = "set" \/ ceTodo.of = "scan" => ceD.fields \in {{}, ceConf.fields}

\* The requests of a probe under way.
ceProbing ==
    ceRunning /\ ~ceLost =>
       /\ ceTodo.at \notin {"interval", "rezero"} => ceD.keep = ceD.want
       /\ ceTodo.at \in {"interval", "rezero"} => ceD.want = ceConf.keep

\* What a scan has configured last.
ceScanned ==
    /\ ceRunning /\ ceTodo.of = "scan" => ceD.was = ceConf.ep
    /\ ceRunning /\ ~ceLost =>
          /\ ceD.ep \in {ceConf.ep, ceD.was} \/ (ceTodo.of = "scan" /\ ceD.ep = ceLast)
          /\ ceTodo.of = "scan" /\ ceTodo.at \notin {"try", "exhausted"} => ceD.ep = Head(ceTodo.left)

\* A daemon has somebody who wants it or who will end it.
ceOwned ==
    ~ceConf.on /\ ~ceStuck => ceD = NoDaemon \/ (ceBusy /\ ceWhy \in {"off", "test"})

ceIInv == ceTyped /\ ceOrder /\ ceKnown /\ ceStaged /\ ceFresh /\ ceProbing /\ ceScanned /\ ceOwned

-----------------------------------------------------------------------------
\* A step of an operation as a value.
LEMMA CeAts ==
    ASSUME NEW step \in CeSteps, NEW of \in {"none", "first", "second", "up", "probe", "scan"}
    PROVE  /\ ceAt(step, of) \in CeTodos /\ ceAt(step, of).at = step
           /\ ceAt(step, of).of = of /\ ceAt(step, of).left = <<>>
BY DEF ceAt, CeTodos

\* Nothing to do, and the clean-up of an operation.
LEMMA CeEnds ==
    /\ ceIdle \in CeTodos /\ ceIdle.at = "idle" /\ ceIdle.of = "none"
    /\ ceFinal = ceIdle \/ (ceWhy = "test" /\ ceFinal = ceAt("final", "up"))
    /\ ceIsUp = ceIdle \/ (ceWhy = "test" /\ ceIsUp = ceAt("zero", "probe"))
    /\ NoDaemon \in CeDaemons /\ NoDaemon.ep = 0 /\ NoDaemon.fields = {} 
BY CeAts DEF ceIdle, ceFinal, ceIsUp, CeSteps, NoDaemon, CeDaemons

\* The panel starts with the invariant.
LEMMA CeStarts == ceInit => ceIInv
<1> SUFFICES ASSUME ceInit PROVE ceIInv
  OBVIOUS
<1>1. ceD.ep = 0 /\ ceD = NoDaemon /\ ceTodo.at = "idle" /\ ceTodo.of = "none" /\ ceConf.ep = 0 /\ ceConf.on = FALSE
  BY CeEnds DEF ceInit
<1>2. FALSE \in BOOLEAN
  BY Zenon
<1>3. ceConf \in CeConfs
  BY <1>2 DEF ceInit, CeConfs, CeProfiles
<1>4. ceCancelled \in BOOLEAN /\ ceLost \in BOOLEAN /\ ceStuck \in BOOLEAN
  BY <1>2 DEF ceInit
<1>5. ceTyped
  BY <1>3, <1>4, CeEnds DEF ceInit, ceTyped, SoundReleases
<1>6. ceOrder /\ ceKnown /\ ceStaged /\ ceFresh /\ ceProbing /\ ceScanned /\ ceOwned
  BY <1>1 DEF ceInit, ceOrder, ceKnown, ceStaged, ceFresh, ceProbing, ceScanned, ceOwned, ceBusy, ceRunning,
              CeInstalls, CeProbes
<1> QED BY <1>5, <1>6 DEF ceIInv

-----------------------------------------------------------------------------
\* The steps of an installation.
LEMMA CeInstallStep ==
    ASSUME ceIInv, downloadAWGAsset("archive", 1) \/ downloadAWGAsset("sum", 2) \/ verifyArchive
                   \/ extractEngine \/ renameEngine
    PROVE  ceIInv'
<1> PICK next : next = ceNextStep
  OBVIOUS
<1>1. /\ ceTodo.at \in CeInstalls /\ ceWhy = "install"
      /\ UNCHANGED <<ceConf, ceD, ceWhy, ceLast, ceCancelled, ceLost, ceStuck>>
  BY DEF ceIInv, ceOrder, downloadAWGAsset, verifyArchive, extractEngine, renameEngine, ceTakes, ceGoOn, CeInstalls,
         ceOp, ceCount, ceDisk
<1>2. /\ ceTodo.at = "archive" => next = ceAt("sum", "first")
      /\ ceTodo.at = "sum" => next = ceAt("verify", "none")
      /\ ceTodo.at = "verify" => next = ceAt("extract", "none")
      /\ ceTodo.at = "extract" => next = ceAt("rename", "none")
      /\ ceTodo.at = "rename" => next = ceIdle
  BY DEF ceNextStep
<1>3. \/ ceTodo' = ceIdle
      \/ ceTodo.at # "rename" /\ ceTodo' = next
      \/ \E name \in {"archive", "sum"} : ceTodo' = ceAt(name, "second")
  BY <1>2 DEF downloadAWGAsset, verifyArchive, extractEngine, renameEngine, ceTakes, ceGoOn
<1>4. /\ ceTodo' \in CeTodos /\ ceTodo.at' \in CeInstalls \cup {"idle"} /\ ceTodo.of' \in {"none", "first", "second"}
      /\ ceTodo.at' = "rename" => ceTodo.at = "extract" /\ ceTodo' = next
  BY <1>1, <1>2, <1>3, CeAts, CeEnds DEF CeInstalls, CeSteps
<1>5. ceTodo.at' = "rename" => ceTmp' \in SoundReleases
  BY <1>4, CeEnds DEF downloadAWGAsset, verifyArchive, extractEngine, renameEngine, ceTakes, ceGoOn, validateEngineBinary
<1>6. ceFile' \in SoundReleases
  BY DEF ceIInv, ceTyped, ceStaged, downloadAWGAsset, verifyArchive, extractEngine, renameEngine, ceTakes, ceGoOn,
         ceDisk, ceCount
<1>7. ceTyped' /\ ceStaged'
  BY <1>1, <1>4, <1>5, <1>6 DEF ceIInv, ceTyped, ceStaged
<1>8. ceOrder' /\ ceKnown' /\ ceFresh' /\ ceProbing' /\ ceScanned' /\ ceOwned'
  BY <1>1, <1>4 DEF ceIInv, ceOrder, ceKnown, ceFresh, ceProbing, ceScanned, ceOwned, ceBusy, ceRunning,
                    CeInstalls, CeProbes
<1> QED BY <1>7, <1>8 DEF ceIInv

\* The operations that an administrator or the supervisor begins.
LEMMA CeBeginStep ==
    ASSUME ceIInv, AWG2InstallEngine \/ AWG2CreateWARP \/ ClientUp \/ ClientDown \/ EditProfile
                   \/ SuperviseClient \/ AWG2TestConnection
    PROVE  ceIInv'
<1>1. CASE AWG2InstallEngine
  <2>1. /\ ~ceBusy /\ ceTodo' = ceAt("archive", "first") /\ ceWhy' = "install" /\ ceLast' = 0 /\ ceCancelled' = FALSE
        /\ UNCHANGED <<ceFile, ceConf, ceD, ceLost, ceStuck>>
    BY <1>1 DEF AWG2InstallEngine, ceBegin, ceCount
  <2>2. ceTodo' \in CeTodos /\ ceTodo'.at = "archive" /\ ceTodo'.of = "first"
    BY <2>1, CeAts DEF CeSteps, CeInstalls
  <2>3. ceCancelled' \in BOOLEAN
    BY <2>1, Zenon
  <2>4. ceTyped'
    BY <2>1, <2>2, <2>3 DEF ceIInv, ceTyped
  <2> QED BY <2>1, <2>2, <2>4 DEF ceIInv, ceOrder, ceKnown, ceStaged, ceFresh, ceProbing, ceScanned, ceOwned, ceBusy,
                                  ceRunning, CeInstalls, CeProbes
<1>2. CASE AWG2CreateWARP
  <2> PICK ep \in {1, 3, 4}, keep \in {0, 25} : ceConf' = [ceConf EXCEPT !.warp = ep # 1, !.ep = ep, !.keep = keep]
    BY <1>2 DEF AWG2CreateWARP
  <2>1. /\ ceConf.ep = 0
        /\ UNCHANGED <<ceFile, ceTmp, ceD, ceTodo, ceWhy, ceLast, ceCancelled, ceLost, ceStuck>>
    BY <1>2 DEF AWG2CreateWARP, ceDisk, ceCount
  <2> PICK warp \in BOOLEAN : warp = (ep # 1)
    BY Zenon
  <2>2. ceConf' = [ceConf EXCEPT !.warp = warp, !.ep = ep, !.keep = keep]
    OBVIOUS
  <2>3. ceConf' \in CeConfs /\ ceConf'.on = ceConf.on /\ ceConf'.ep = ep /\ ceConf'.fields = ceConf.fields
    <3>1. ceConf \in CeConfs
      BY DEF ceIInv, ceTyped
    <3>2. /\ ceConf'.on = ceConf.on /\ ceConf'.ep = ep /\ ceConf'.fields = ceConf.fields
          /\ ceConf'.keep = keep /\ ceConf'.warp = warp
      BY <2>2, <3>1 DEF CeConfs
    <3>3. ceConf' = [fields |-> ceConf.fields, ep |-> ep, keep |-> keep, warp |-> warp, on |-> ceConf.on]
      BY <2>2, <3>1 DEF CeConfs
    <3>4. ep \in 0..4 /\ keep \in {0, 25} /\ ceConf.fields \in CeProfiles
      BY <3>1 DEF CeConfs
    <3>5. ceConf.on \in BOOLEAN
      BY <3>1, Zenon DEF CeConfs
    <3>6. ceConf' \in CeConfs
      BY <3>3, <3>4, <3>5, Zenon DEF CeConfs
    <3> QED BY <3>2, <3>6
  <2>4. ceTyped'
    BY <2>1, <2>3 DEF ceIInv, ceTyped
  <2> QED BY <2>1, <2>3, <2>4 DEF ceIInv, ceOrder, ceKnown, ceStaged, ceFresh, ceProbing, ceScanned, ceOwned, ceBusy,
                                  ceRunning, CeInstalls, CeProbes
<1>3. CASE ClientUp \/ ClientDown \/ EditProfile \/ SuperviseClient \/ AWG2TestConnection
  <2>1. /\ ~ceBusy /\ ceLast' = ceConf'.ep /\ ceCancelled' = FALSE /\ ceConf'.ep = ceConf.ep /\ ceConf.ep # 0
        /\ ceConf' \in CeConfs /\ ceConf'.fields \in CeProfiles
        /\ UNCHANGED <<ceFile, ceD, ceLost, ceStuck>>
    <3>1. ceConf \in CeConfs /\ (ceConf.on => ceConf.ep # 0) /\ TRUE \in BOOLEAN /\ FALSE \in BOOLEAN
      <4>1. TRUE \in BOOLEAN /\ FALSE \in BOOLEAN
        BY Zenon
      <4> QED BY <4>1 DEF ceIInv, ceTyped, ceKnown
    <3>2. CASE ClientUp
      BY <3>1, <3>2 DEF ClientUp, ceBegin, ceDisk, ceCount, CeConfs, CeProfiles
    <3>3. CASE ClientDown
      BY <3>1, <3>3 DEF ClientDown, ceBegin, ceDisk, ceCount, CeConfs, CeProfiles
    <3>4. CASE EditProfile
      BY <3>1, <3>4 DEF EditProfile, ceBegin, ceDisk, ceCount, CeConfs, CeProfiles
    <3>5. CASE SuperviseClient \/ AWG2TestConnection
      BY <3>1, <3>5 DEF SuperviseClient, AWG2TestConnection, ceBegin, ceDisk, ceCount, CeConfs, CeProfiles
    <3> QED BY <1>3, <3>2, <3>3, <3>4, <3>5
  <2>2. /\ ceTodo' \in {ceIdle, ceAt("down", "up"), ceAt("reconnect", "up"), ceAt("zero", "probe")}
        /\ ceWhy' \in {"up", "off", "test"} /\ (ceWhy' = "up" /\ ceTodo' # ceAt("zero", "probe") => ceConf'.on)
        /\ ceWhy' # "up" => ceTodo' = ceAt("down", "up")
        /\ ~ceConf'.on => ~ceConf.on \/ ceWhy' = "off"
    BY <1>3 DEF ClientUp, ClientDown, EditProfile, SuperviseClient, AWG2TestConnection, ceBegin, UpSteps, testSteps,
                ceIInv, ceTyped, CeConfs
  <2>3. ceTodo' \in CeTodos /\ ceTodo'.of \in {"none", "up", "probe"}
        /\ ceTodo'.at \in {"idle", "down", "reconnect", "zero"} /\ (ceTodo'.at = "zero" <=> ceTodo'.of = "probe")
        /\ (ceTodo'.of = "probe" <=> ceTodo' = ceAt("zero", "probe"))
        /\ (ceWhy' # "up" => ceTodo'.at = "down") /\ (ceTodo'.at \in {"down", "reconnect"} => ceTodo'.of = "up")
    BY <2>2, CeAts, CeEnds DEF CeSteps, CeInstalls, CeProbes
  <2>4. ceCancelled' \in BOOLEAN
    BY <2>1, Zenon
  <2>5. ceTyped'
    BY <2>1, <2>2, <2>3, <2>4 DEF ceIInv, ceTyped, CeConfs
  <2>6. ceOrder' /\ ceKnown' /\ ceStaged' /\ ceFresh' /\ ceProbing'
    BY <2>1, <2>2, <2>3 DEF ceIInv, ceOrder, ceKnown, ceStaged, ceFresh, ceProbing, ceBusy, ceRunning, CeInstalls, CeProbes
  <2>7. ceScanned'
    BY <2>1, <2>3 DEF ceIInv, ceScanned, ceBusy, ceRunning, ceOrder, CeProbes
  <2>8. ceOwned'
    BY <2>1, <2>2, <2>3 DEF ceIInv, ceOwned, ceBusy
  <2> QED BY <2>5, <2>6, <2>7, <2>8 DEF ceIInv
<1> QED BY <1>1, <1>2, <1>3

\* What comes from outside: a cancellation, a release, the death of the daemon or of the panel.
LEMMA CeOutsideStep ==
    ASSUME ceIInv, cancelClientOp \/ PublishRelease \/ DaemonDies \/ PanelDies
    PROVE  ceIInv'
<1>1. CASE cancelClientOp \/ PublishRelease
  <2>1. UNCHANGED <<ceFile, ceTmp, ceConf, ceD, ceTodo, ceWhy, ceLast, ceLost, ceStuck>>
    BY <1>1 DEF cancelClientOp, PublishRelease, ceDisk, ceOp, ceCount
  <2>2. ceCancelled' \in BOOLEAN
    <3>1. TRUE \in BOOLEAN
      BY Zenon
    <3> QED BY <1>1, <3>1 DEF cancelClientOp, PublishRelease, ceOp, ceIInv, ceTyped
  <2> QED BY <2>1, <2>2 DEF ceIInv, ceTyped, ceOrder, ceKnown, ceStaged, ceFresh, ceProbing, ceScanned, ceOwned, ceBusy,
                            ceRunning
<1>2. CASE DaemonDies
  <2>1. ceD' = NoDaemon /\ UNCHANGED <<ceFile, ceTmp, ceConf, ceTodo, ceWhy, ceLast, ceCancelled, ceLost, ceStuck>>
    BY <1>2 DEF DaemonDies, ceDisk, ceOp
  <2> QED BY <2>1, CeEnds DEF ceIInv, ceTyped, ceOrder, ceKnown, ceStaged, ceFresh, ceProbing, ceScanned, ceOwned, ceBusy,
                              ceRunning
<1>3. CASE PanelDies
  <2>1. /\ ceTodo' = ceIdle /\ ceLost' = TRUE /\ ceStuck' = TRUE
        /\ UNCHANGED <<ceFile, ceTmp, ceConf, ceD, ceWhy, ceLast, ceCancelled>>
    BY <1>3 DEF PanelDies, ceDisk, ceOp
  <2>2. ceLost' \in BOOLEAN /\ ceStuck' \in BOOLEAN
    BY <2>1, Zenon
  <2>3. ceTyped'
    BY <2>1, <2>2, CeEnds DEF ceIInv, ceTyped
  <2> QED BY <2>1, <2>3, CeEnds DEF ceIInv, ceOrder, ceKnown, ceStaged, ceFresh, ceProbing, ceScanned, ceOwned, ceBusy,
                                    ceRunning, CeInstalls, CeProbes
<1> QED BY <1>1, <1>2, <1>3

-----------------------------------------------------------------------------
\* What follows a configuration or a probe.
LEMMA CeProbedNext ==
    ASSUME ceIInv, ceTodo.at \in {"set", "try"} \cup CeProbes
    PROVE  /\ ceProbed \in CeTodos
           /\ \/ ceTodo.of = "scan" /\ ceProbed.at = "wait" /\ ceProbed.of = "scan" /\ ceProbed.left = ceTodo.left
              \/ ceTodo.of = "up" /\ ceWhy = "test" /\ ceProbed.at = "zero" /\ ceProbed.of = "probe"
              \/ ceTodo.of = "probe" /\ ceWhy = "test" /\ ceProbed.at = "final" /\ ceProbed.of = "up"
              \/ ceTodo.of # "scan" /\ ceWhy # "test" /\ ceProbed.at = "idle" /\ ceProbed.of = "none"
<1>1. ceTodo \in CeTodos /\ ceTodo.of \in {"up", "probe", "scan"}
  BY DEF ceIInv, ceTyped, ceOrder, CeProbes
<1>2. CASE ceTodo.of = "scan"
  <2>1. ceProbed = [ceTodo EXCEPT !.at = "wait"]
    BY <1>2 DEF ceProbed
  <2> QED BY <1>1, <1>2, <2>1 DEF CeTodos, CeSteps
<1>3. CASE ceTodo.of = "up"
  <2>1. ceProbed = ceIsUp
    BY <1>3 DEF ceProbed
  <2> QED BY <1>3, <2>1, CeAts, CeEnds DEF ceIsUp, CeSteps, CeProbes
<1>4. CASE ceTodo.of # "scan" /\ ceTodo.of # "up"
  <2>1. ceProbed = ceFinal /\ ceTodo.at # "final"
    BY <1>4 DEF ceProbed, CeProbes
  <2>2. ceTodo.of = "probe"
    BY <1>1, <1>4
  <2>3. CASE ceWhy = "test"
    <3>1. ceProbed = ceAt("final", "up")
      BY <2>1, <2>3 DEF ceFinal
    <3> QED BY <2>2, <2>3, <3>1, CeAts DEF CeSteps
  <2>4. CASE ceWhy # "test"
    <3>1. ceProbed = ceIdle
      BY <2>1, <2>4 DEF ceFinal
    <3> QED BY <2>2, <2>4, <3>1, CeEnds
  <2> QED BY <2>3, <2>4
<1> QED BY <1>2, <1>3, <1>4

\* Where a daemon without configuration goes on.
LEMMA CeConfigureNext ==
    /\ ceConfigure \in CeTodos
    /\ \/ ceConfigure.at = "try" /\ ceConfigure.of = "scan" /\ ceConfigure.left # <<>>
       \/ ceConfigure.at = "set" /\ ceConfigure.of = "up"
<1>1. CASE ceConf.warp
  <2> PICK list : list = prioritizeWARPEndpoints(ceConf.ep)
    OBVIOUS
  <2>1. list \in Seq(1..4) /\ list # <<>>
    <3>1. list = <<3, 1, 2>> \/ list = <<1, 2, 4>> \/ list = <<1, 2>>
      BY DEF prioritizeWARPEndpoints
    <3>2. <<3, 1, 2>> \in Seq(1..4) /\ <<3, 1, 2>> # <<>>
      OBVIOUS
    <3>3. <<1, 2, 4>> \in Seq(1..4) /\ <<1, 2, 4>> # <<>>
      OBVIOUS
    <3>4. <<1, 2>> \in Seq(1..4) /\ <<1, 2>> # <<>>
      OBVIOUS
    <3> QED BY <3>1, <3>2, <3>3, <3>4
  <2>2. ceConfigure = [at |-> "try", of |-> "scan", left |-> list]
    BY <1>1 DEF ceConfigure
  <2> QED BY <2>1, <2>2 DEF CeTodos, CeSteps
<1>2. CASE ~ceConf.warp
  BY <1>2, CeAts DEF ceConfigure, CeSteps
<1> QED BY <1>1, <1>2

\* Where an operation goes on after an error.
LEMMA CeErrorNext ==
    ASSUME ceIInv, ceTodo.at # "exhausted"
    PROVE  /\ ceAfterError \in CeTodos
           /\ \/ ceTodo.of # "scan" /\ (ceWhy # "test" \/ ceTodo.at = "final") /\ ceAfterError.at = "idle"
                 /\ ceAfterError.of = "none"
              \/ ceTodo.of # "scan" /\ ceWhy = "test" /\ ceAfterError.at = "final" /\ ceAfterError.of = "up"
              \/ ceTodo.of = "scan" /\ ceAfterError.at = "exhausted" /\ ceAfterError.of = "scan"
              \/ ceTodo.of = "scan" /\ ceAfterError.at = "try" /\ ceAfterError.of = "scan"
                 /\ ceAfterError.left # <<>>
<1>1. ceTodo \in CeTodos /\ (ceTodo.of = "scan" => ceTodo.left # <<>>)
  BY DEF ceIInv, ceTyped, ceOrder
<1>2. CASE ceTodo.of # "scan"
  BY <1>2, CeAts, CeEnds DEF ceAfterError, ceFinal, CeSteps
<1>3. CASE ceTodo.of = "scan" /\ (ceCancelled \/ Len(ceTodo.left) = 1)
  BY <1>3, CeAts DEF ceAfterError, CeSteps
<1>4. CASE ceTodo.of = "scan" /\ ~(ceCancelled \/ Len(ceTodo.left) = 1)
  <2> PICK list : list = ceTodo.left
    OBVIOUS
  <2>1. list \in Seq(1..4) /\ list # <<>> /\ Len(list) # 1
    BY <1>1, <1>4 DEF CeTodos
  <2>2. ceAfterError = [at |-> "try", of |-> "scan", left |-> Tail(list)]
    BY <1>4 DEF ceAfterError
  <2>3. Tail(list) \in Seq(1..4) /\ Tail(list) # <<>>
    <3>1. Tail(list) \in Seq(1..4) /\ Len(Tail(list)) = Len(list) - 1 /\ Len(list) # 0
      BY <2>1, HeadTailProperties, EmptySeq
    <3>2. Len(Tail(list)) # 0
      BY <2>1, <3>1
    <3> QED BY <3>1, <3>2, EmptySeq
  <2> QED BY <1>4, <2>2, <2>3 DEF CeTodos, CeSteps
<1> QED BY <1>2, <1>3, <1>4

\* Where an operation goes on once a step has done its work.
LEMMA CeNextSteps ==
    ASSUME ceIInv, ceTodo.at \in {"down", "final", "start", "set", "try"} \cup CeProbes
    PROVE  /\ ceNextStep \in CeTodos
           /\ ceTodo.at = "down" => ceNextStep = IF ceWhy = "off" THEN ceIdle ELSE ceAt("start", "up")
           /\ ceTodo.at = "final" => ceNextStep = ceIdle
           /\ ceTodo.at = "start" => ceNextStep = ceConfigure
           /\ ceTodo.at \in {"set", "try"} => 
                 IF ceConf.keep = 0 THEN /\ ceNextStep.at = "zero" /\ ceNextStep.of = ceTodo.of
                                         /\ ceNextStep.left = ceTodo.left
                 ELSE ceNextStep = ceProbed
           /\ ceTodo.at = "zero" => /\ ceNextStep.at = "interval" /\ ceNextStep.of = ceTodo.of
                                    /\ ceNextStep.left = ceTodo.left
           /\ ceTodo.at = "interval" =>
                 IF ceConf.keep = 0 THEN /\ ceNextStep.at = "rezero" /\ ceNextStep.of = ceTodo.of
                                         /\ ceNextStep.left = ceTodo.left
                 ELSE ceNextStep = ceProbed
           /\ ceTodo.at = "rezero" => ceNextStep = ceProbed
<1>1. ceTodo \in CeTodos
  BY DEF ceIInv, ceTyped
<1>2. CASE ceTodo.at \in {"down", "final"}
  <2>1. /\ ceTodo.at = "down" => ceNextStep = IF ceWhy = "off" THEN ceIdle ELSE ceAt("start", "up")
        /\ ceTodo.at = "final" => ceNextStep = ceIdle
    <3>1. CASE ceTodo.at = "down"
      BY <3>1 DEF ceNextStep
    <3>2. CASE ceTodo.at = "final"
      BY <3>2 DEF ceNextStep
    <3> QED BY <1>2, <3>1, <3>2
  <2>2. ceAt("start", "up") \in CeTodos /\ ceIdle \in CeTodos
    BY CeAts, CeEnds DEF CeSteps
  <2>3. ceNextStep \in CeTodos
    BY <1>2, <2>1, <2>2
  <2> QED BY <1>2, <2>1, <2>3
<1>3. CASE ceTodo.at = "start"
  <2>1. ceNextStep = ceConfigure
    BY <1>3 DEF ceNextStep
  <2> QED BY <1>3, <2>1, CeConfigureNext
<1>4. CASE ceTodo.at = "zero" \/ (ceTodo.at \in {"set", "try", "interval"} /\ ceConf.keep = 0)
  <2> PICK step \in {"zero", "interval", "rezero"} :
           step = IF ceTodo.at = "zero" THEN "interval" ELSE IF ceTodo.at = "interval" THEN "rezero" ELSE "zero"
    OBVIOUS
  <2>1. ceNextStep = [ceTodo EXCEPT !.at = step]
    BY <1>4 DEF ceNextStep
  <2>2. step \in CeSteps
    BY DEF CeSteps, CeProbes
  <2> QED BY <1>1, <1>4, <2>1, <2>2 DEF CeTodos
<1>5. CASE ceTodo.at = "rezero" \/ (ceTodo.at \in {"set", "try", "interval"} /\ ceConf.keep # 0)
  <2>1. ceNextStep = ceProbed
    BY <1>5 DEF ceNextStep
  <2> QED BY <1>5, <2>1, CeProbedNext DEF CeProbes
<1> QED BY <1>2, <1>3, <1>4, <1>5 DEF CeProbes

-----------------------------------------------------------------------------
\* A daemon that was fresh has the one profile once it is configured.
LEMMA CeConfiguredIs ==
    ASSUME ceIInv, NEW ep \in 0..4, ceTodo.at = "set" \/ ceTodo.of = "scan"
    PROVE  /\ ceConfigured(ep) \in CeDaemons /\ ceConfigured(ep).ep = ep /\ ceConfigured(ep).fields = ceConf.fields
           /\ ceConfigured(ep).keep = ceConf.keep /\ ceConfigured(ep).want = ceConf.keep
           /\ ceConfigured(ep).was = ceConf.ep
<1>1. ceD \in CeDaemons /\ ceConf \in CeConfs /\ ceD.fields \in {{}, ceConf.fields}
  BY DEF ceIInv, ceTyped, ceFresh
<1> PICK fields : fields = ceD.fields \cup ceConf.fields
  OBVIOUS
<1>2. fields = ceConf.fields /\ fields \in CeProfiles
  BY <1>1 DEF CeConfs
<1>3. ceConfigured(ep) = [ceD EXCEPT !.fields = fields, !.ep = ep, !.keep = ceConf.keep, !.want = ceConf.keep,
                                     !.was = ceConf.ep]
  BY <1>1 DEF ceConfigured, CeDaemons
<1> HIDE DEF ceConfigured
<1> QED BY <1>1, <1>2, <1>3 DEF CeDaemons, CeConfs

\* A daemon that was only started.
LEMMA CeStartedIs ==
    ASSUME ceIInv
    PROVE  /\ [NoDaemon EXCEPT !.ver = ceFile] \in CeDaemons /\ [NoDaemon EXCEPT !.ver = ceFile].ep = 0
           /\ [NoDaemon EXCEPT !.ver = ceFile].fields = {}
BY DEF ceIInv, ceTyped, SoundReleases, NoDaemon, CeDaemons

\* The daemon goes down or is started.
LEMMA CeDownStep ==
    ASSUME ceIInv, Reconnect \/ awgClientDownManagerOS \/ startDaemon
    PROVE  ceIInv'
<1>1. CASE Reconnect
  <2>1. /\ ceTodo.at = "reconnect" /\ ceTodo' = ceAt("down", "up") /\ ceLast' = ceConf.ep
        /\ UNCHANGED <<ceFile, ceTmp, ceConf, ceD, ceWhy, ceCancelled, ceLost, ceStuck>>
    BY <1>1 DEF Reconnect, ceTakes, UpSteps, ceDisk, ceCount
  <2>2. ceTodo' \in CeTodos /\ ceTodo'.at = "down" /\ ceTodo'.of = "up"
    BY <2>1, CeAts DEF CeSteps
  <2>3. /\ ceConf.ep \in 0..4 /\ ceConf.ep # 0 /\ (ceWhy = "up" => ceConf.on) /\ ceWhy \notin {"test", "off"}
        /\ ceTodo.of # "scan"
    BY <2>1 DEF ceIInv, ceTyped, ceKnown, ceOrder, ceBusy, CeConfs, CeInstalls, CeProbes
  <2>4. ceTyped'
    BY <2>1, <2>2, <2>3 DEF ceIInv, ceTyped
  <2> QED BY <2>1, <2>2, <2>3, <2>4 DEF ceIInv, ceOrder, ceKnown, ceStaged, ceFresh, ceProbing, ceScanned, ceOwned, ceBusy,
                                        ceRunning, CeInstalls, CeProbes
<1>2. CASE awgClientDownManagerOS
  <2>1. /\ ceTodo.at \in {"down", "final"} /\ ceTodo' = ceNextStep /\ ceD' = NoDaemon /\ ceStuck' = FALSE
        /\ UNCHANGED <<ceFile, ceTmp, ceConf, ceWhy, ceLast, ceCancelled, ceLost>>
    BY <1>2 DEF awgClientDownManagerOS, ceGoOn, ceTakes, ceDisk, ceOp
  <2>2. /\ ceTodo' \in CeTodos
        /\ \/ ceTodo'.at = "idle" /\ ceTodo'.of = "none"
           \/ ceTodo.at = "down" /\ ceWhy # "off" /\ ceTodo'.at = "start" /\ ceTodo'.of = "up"
    BY <2>1, CeNextSteps, CeAts, CeEnds DEF CeSteps
  <2>3. ceStuck' \in BOOLEAN
    BY <2>1, Zenon
  <2>4. ceTyped'
    BY <2>1, <2>2, <2>3, CeEnds DEF ceIInv, ceTyped
  <2>5. ceTodo.of = "up" /\ (ceWhy = "up" => ceConf.on) /\ ceWhy \in {"up", "off", "test"}
    BY <2>1 DEF ceIInv, ceOrder, ceBusy, CeInstalls
  <2> QED BY <2>1, <2>2, <2>4, <2>5, CeEnds
          DEF ceIInv, ceOrder, ceKnown, ceStaged, ceFresh, ceProbing, ceScanned, ceOwned, ceBusy, ceRunning,
              CeInstalls, CeProbes
<1>3. CASE startDaemon
  <2>1. /\ ceTodo.at = "start" /\ ceTodo' = ceConfigure /\ ceD' = [NoDaemon EXCEPT !.ver = ceFile]
        /\ UNCHANGED <<ceFile, ceTmp, ceConf, ceWhy, ceLast, ceCancelled, ceLost, ceStuck>>
    BY <1>3, CeNextSteps DEF startDaemon, ceGoOn, ceTakes, ceDisk, ceOp, ceCount
  <2>2. ceD' \in CeDaemons /\ ceD'.ep = 0 /\ ceD'.fields = {}
    BY <2>1, CeStartedIs
  <2>3. /\ ceTodo' \in CeTodos
        /\ \/ ceTodo'.at = "try" /\ ceTodo'.of = "scan" /\ ceTodo'.left # <<>>
           \/ ceTodo'.at = "set" /\ ceTodo'.of = "up"
    BY <2>1, CeConfigureNext
  <2>4. ceTyped'
    BY <2>1, <2>2, <2>3 DEF ceIInv, ceTyped
  <2>5. ceWhy \in {"up", "test"} /\ (ceWhy = "up" => ceConf.on)
    BY <2>1 DEF ceIInv, ceOrder, ceBusy, CeInstalls
  <2>6. ceOrder' /\ ceKnown' /\ ceStaged' /\ ceFresh' /\ ceProbing' /\ ceScanned'
    BY <2>1, <2>2, <2>3, <2>5 DEF ceIInv, ceOrder, ceKnown, ceStaged, ceFresh, ceProbing, ceScanned, ceBusy, ceRunning,
                                  CeInstalls, CeProbes
  <2>7. ceOwned'
    BY <2>1, <2>3, <2>5 DEF ceIInv, ceOwned, ceBusy
  <2> QED BY <2>4, <2>6, <2>7 DEF ceIInv
<1> QED BY <1>1, <1>2, <1>3

\* A profile is sent, or the first request for a candidate.
LEMMA CeConfigStep ==
    ASSUME ceIInv, uapiSet \/ awgTryWARPEndpoint
    PROVE  ceIInv'
<1>1. /\ ceTodo.at \in {"set", "try"} /\ ceTodo' = ceNextStep
      /\ UNCHANGED <<ceFile, ceTmp, ceConf, ceWhy, ceCancelled, ceLost, ceStuck>>
  BY DEF uapiSet, awgTryWARPEndpoint, ceGoOn, ceTakes, ceDisk, ceOp, ceCount
<1>2. /\ ceTodo \in CeTodos /\ ceConf.ep \in 0..4 /\ ceConf.ep # 0 /\ ceWhy \in {"up", "test"}
      /\ (ceWhy = "up" => ceConf.on) /\ ceLast \in 0..4 /\ ceLast # 0 /\ ceD # NoDaemon
      /\ (ceTodo.at = "set" => ceTodo.of = "up") /\ (ceTodo.at = "try" => ceTodo.of = "scan" /\ ceTodo.left # <<>>)
  BY <1>1 DEF ceIInv, ceTyped, ceOrder, ceKnown, ceBusy, CeInstalls, CeConfs, uapiSet, awgTryWARPEndpoint, ceGoOn,
              ceTakes, ceRequests
<1> PICK ep : ep = IF ceTodo.at = "set" THEN ceConf.ep ELSE Head(ceTodo.left)
  OBVIOUS
<1>3. ep \in 0..4 /\ ep # 0
  <2>1. ceTodo.at # "set" => ceTodo.left \in Seq(1..4) /\ ceTodo.left # <<>>
    BY <1>1, <1>2 DEF CeTodos
  <2>2. ceTodo.at # "set" => Head(ceTodo.left) \in 1..4
    BY <2>1, HeadTailProperties
  <2> QED BY <1>2, <2>2
<1>4. ceD' = ceConfigured(ep)
  BY <1>1 DEF uapiSet, awgTryWARPEndpoint, ceGoOn, ceTakes
<1>5. /\ ceD' \in CeDaemons /\ ceD'.ep = ep /\ ceD'.fields = ceConf.fields /\ ceD'.keep = ceConf.keep
      /\ ceD'.want = ceConf.keep /\ ceD'.was = ceConf.ep
  BY <1>1, <1>2, <1>3, <1>4, CeConfiguredIs
<1>6. /\ ceLast' = IF ceTodo.at = "try" /\ ep # ceConf.ep THEN ep ELSE ceLast
      /\ ceTodo.at = "try" => ep = Head(ceTodo.left)
  BY <1>1 DEF uapiSet, awgTryWARPEndpoint, ceGoOn, ceTakes, ceOp
<1>7. ceLast' \in 0..4 /\ ceLast' # 0 /\ (ep = ceConf.ep \/ ceLast' = ep)
  BY <1>1, <1>2, <1>3, <1>6
<1>8. /\ ceTodo' \in CeTodos
      /\ \/ ceConf.keep = 0 /\ ceTodo'.at = "zero" /\ ceTodo'.of = ceTodo.of /\ ceTodo'.left = ceTodo.left
         \/ ceTodo.of = "scan" /\ ceTodo'.at = "wait" /\ ceTodo'.of = "scan" /\ ceTodo'.left = ceTodo.left
         \/ ceTodo.of = "up" /\ ceWhy = "test" /\ ceTodo'.at = "zero" /\ ceTodo'.of = "probe"
         \/ ceTodo.of = "up" /\ ceWhy # "test" /\ ceTodo'.at = "idle" /\ ceTodo'.of = "none"
  BY <1>1, <1>2, CeNextSteps, CeProbedNext DEF CeProbes
<1>9. ceTyped'
  BY <1>1, <1>5, <1>7, <1>8 DEF ceIInv, ceTyped
<1>10. ceOrder' /\ ceKnown' /\ ceStaged' /\ ceFresh' /\ ceProbing'
  BY <1>1, <1>2, <1>5, <1>7, <1>8 DEF ceIInv, ceOrder, ceKnown, ceStaged, ceFresh, ceProbing, ceBusy, ceRunning,
                                      CeInstalls, CeProbes
<1>11. ceScanned'
  BY <1>1, <1>2, <1>5, <1>6, <1>7, <1>8 DEF ceScanned, ceRunning
<1>12. ceOwned'
  BY <1>1, <1>2, <1>8 DEF ceIInv, ceOwned, ceBusy
<1> QED BY <1>9, <1>10, <1>11, <1>12 DEF ceIInv

\* The requests of a probe.
LEMMA CeProbeStep ==
    ASSUME ceIInv, uapiKeepalive
    PROVE  ceIInv'
<1>1. /\ ceTodo.at \in CeProbes /\ ceTodo' = ceNextStep
      /\ UNCHANGED <<ceFile, ceTmp, ceConf, ceWhy, ceLast, ceCancelled, ceLost, ceStuck>>
  BY DEF uapiKeepalive, ceGoOn, ceTakes, ceDisk, ceOp, ceCount, CeProbes
<1>2. /\ ceTodo \in CeTodos /\ ceD \in CeDaemons /\ ceD # NoDaemon /\ ceConf.keep \in {0, 25} /\ ceConf.ep # 0
      /\ ceWhy \in {"up", "test"} /\ (ceWhy = "up" /\ ceTodo.of # "probe" => ceConf.on) /\ ceLast # 0
      /\ ceTodo.of \in {"up", "probe", "scan"} /\ (ceTodo.of = "scan" => ceTodo.left # <<>>)
      /\ (ceTodo.of # "probe" \/ ceTodo.at = "rezero" => ceConf.keep = 0)
  BY <1>1 DEF ceIInv, ceTyped, ceOrder, ceKnown, ceBusy, CeInstalls, CeProbes, CeConfs, uapiKeepalive, ceGoOn, ceTakes,
              ceRequests
<1>3. /\ ceD' \in CeDaemons /\ ceD'.ep = ceD.ep /\ ceD'.was = ceD.was /\ ceD'.fields = ceD.fields
      /\ ceTodo.at = "zero" => ceD'.keep = 0 /\ ceD'.want = ceConf.keep
      /\ ceTodo.at = "interval" => ceD'.keep = 25 /\ ceD'.want = ceD.want
      /\ ceTodo.at = "rezero" => ceD'.keep = 0 /\ ceD'.want = ceD.want
  BY <1>2 DEF uapiKeepalive, ceGoOn, ceTakes, CeDaemons
<1>4. /\ ceTodo' \in CeTodos
      /\ \/ ceTodo.at = "zero" /\ ceTodo'.at = "interval" /\ ceTodo'.of = ceTodo.of /\ ceTodo'.left = ceTodo.left
         \/ /\ ceTodo.at = "interval" /\ ceConf.keep = 0
            /\ ceTodo'.at = "rezero" /\ ceTodo'.of = ceTodo.of /\ ceTodo'.left = ceTodo.left
         \/ /\ ceTodo.at = "rezero" \/ (ceTodo.at = "interval" /\ ceConf.keep # 0)
            /\ ceTodo' = ceProbed
  BY <1>1, CeNextSteps DEF CeProbes
<1>5. ceTodo' = ceProbed =>
         \/ ceTodo.of = "scan" /\ ceTodo'.at = "wait" /\ ceTodo'.of = "scan" /\ ceTodo'.left = ceTodo.left
         \/ ceTodo.of = "up" /\ ceWhy = "test" /\ ceTodo'.at = "zero" /\ ceTodo'.of = "probe"
         \/ ceTodo.of = "probe" /\ ceWhy = "test" /\ ceTodo'.at = "final" /\ ceTodo'.of = "up"
         \/ ceTodo.of # "scan" /\ ceWhy # "test" /\ ceTodo'.at = "idle" /\ ceTodo'.of = "none"
  BY <1>1, CeProbedNext
<1>6. ceTyped'
  BY <1>1, <1>3, <1>4 DEF ceIInv, ceTyped
<1>7. ceOrder' /\ ceKnown' /\ ceStaged' /\ ceFresh'
  BY <1>1, <1>2, <1>3, <1>4, <1>5 DEF ceIInv, ceOrder, ceKnown, ceStaged, ceFresh, ceBusy, CeInstalls, CeProbes
<1>8. ceProbing'
  BY <1>1, <1>2, <1>3, <1>4, <1>5 DEF ceIInv, ceProbing, ceRunning, CeProbes
<1>9. ceScanned'
  BY <1>1, <1>2, <1>3, <1>4, <1>5 DEF ceIInv, ceScanned, ceRunning, CeProbes
<1>10. ceOwned'
  BY <1>1, <1>2, <1>4, <1>5 DEF ceIInv, ceOwned, ceBusy
<1> QED BY <1>6, <1>7, <1>8, <1>9, <1>10 DEF ceIInv

\* An endpoint answers or does not, and the end of a scan.
LEMMA CeScanStep ==
    ASSUME ceIInv, awgWaitEndpointHandshake \/ saveLastConfigured
    PROVE  ceIInv'
<1>1. /\ ceTodo.at \in {"wait", "exhausted"} /\ ceTodo.of = "scan"
      /\ UNCHANGED <<ceFile, ceTmp, ceD, ceWhy, ceLast, ceCancelled, ceLost, ceStuck>>
  BY DEF ceIInv, ceOrder, awgWaitEndpointHandshake, saveLastConfigured, ceTakes, ceDisk, ceOp, ceCount
<1>2. /\ ceTodo \in CeTodos /\ ceConf \in CeConfs /\ ceConf.ep # 0 /\ ceWhy \in {"up", "test"}
      /\ (ceWhy = "up" => ceConf.on) /\ ceLast \in 0..4 /\ ceLast # 0
      /\ (ceTodo.at = "wait" => ceTodo.left # <<>>)
  BY <1>1 DEF ceIInv, ceTyped, ceOrder, ceKnown, ceBusy, CeInstalls
<1>3. CASE ceTodo' = ceAfterError /\ UNCHANGED ceConf /\ ceTodo.at = "wait"
  <2>1. /\ ceTodo' \in CeTodos /\ ceTodo'.of = "scan"
        /\ ceTodo'.at = "exhausted" \/ (ceTodo'.at = "try" /\ ceTodo'.left # <<>>)
    BY <1>1, <1>3, CeErrorNext
  <2>2. ceTyped'
    BY <1>1, <1>3, <2>1 DEF ceIInv, ceTyped
  <2> QED BY <1>1, <1>2, <1>3, <2>1, <2>2
          DEF ceIInv, ceOrder, ceKnown, ceStaged, ceFresh, ceProbing, ceScanned, ceOwned, ceBusy, ceRunning,
              CeInstalls, CeProbes
<1>4. CASE ~(ceTodo' = ceAfterError /\ UNCHANGED ceConf /\ ceTodo.at = "wait")
  <2> PICK ep : ep = IF ceTodo.at = "wait" THEN Head(ceTodo.left) ELSE ceLast
    OBVIOUS
  <2>1. ceConf' = [ceConf EXCEPT !.ep = ep] /\ ceTodo' = IF ceTodo.at = "wait" THEN ceIsUp ELSE ceFinal
    BY <1>1, <1>4 DEF awgWaitEndpointHandshake, saveLastConfigured, ceTakes
  <2>2. ep \in 0..4 /\ ep # 0
    <3>1. ceTodo.at = "wait" => ceTodo.left \in Seq(1..4) /\ ceTodo.left # <<>>
      BY <1>2 DEF CeTodos
    <3>2. ceTodo.at = "wait" => Head(ceTodo.left) \in 1..4
      BY <3>1, HeadTailProperties
    <3> QED BY <1>2, <3>2
  <2>3. /\ ceConf' \in CeConfs /\ ceConf'.ep = ep /\ ceConf'.fields = ceConf.fields /\ ceConf'.keep = ceConf.keep
        /\ ceConf'.on = ceConf.on
    BY <1>2, <2>1, <2>2 DEF CeConfs
  <2>4. /\ ceTodo' \in CeTodos
        /\ \/ ceWhy = "test" /\ ceTodo'.at = "zero" /\ ceTodo'.of = "probe"
           \/ ceWhy = "test" /\ ceTodo'.at = "final" /\ ceTodo'.of = "up"
           \/ ceWhy = "up" /\ ceTodo'.at = "idle" /\ ceTodo'.of = "none"
    <3>1. ceTodo' = ceIdle \/ (ceWhy = "test" /\ ceTodo' \in {ceAt("final", "up"), ceAt("zero", "probe")})
      BY <2>1, CeEnds
    <3>2. ceWhy = "test" => ceTodo' # ceIdle
      BY <1>1, <2>1, CeEnds, CeAts DEF ceIsUp, ceFinal, CeSteps, CeProbes
    <3> QED BY <1>2, <3>1, <3>2, CeAts, CeEnds DEF CeSteps, CeProbes
  <2>5. ceTyped'
    BY <1>1, <2>3, <2>4 DEF ceIInv, ceTyped
  <2>6. ceOrder' /\ ceKnown' /\ ceStaged' /\ ceFresh' /\ ceProbing' /\ ceOwned'
    BY <1>1, <1>2, <2>2, <2>3, <2>4
       DEF ceIInv, ceOrder, ceKnown, ceStaged, ceFresh, ceProbing, ceOwned, ceBusy, ceRunning, CeInstalls, CeProbes
  <2>7. ceScanned'
    BY <1>1, <1>2, <2>1, <2>3, <2>4 DEF ceIInv, ceScanned, ceRunning
  <2> QED BY <2>5, <2>6, <2>7 DEF ceIInv
<1> QED BY <1>3, <1>4

\* A step finds its context done, or fails.
LEMMA CeErrorStep ==
    ASSUME ceIInv, StepCancelled \/ StepFails
    PROVE  ceIInv'
<1>1. /\ ceBusy /\ ceTodo' = ceAfterError /\ ceTmp' = 0 /\ ceTodo.at # "exhausted"
      /\ UNCHANGED <<ceFile, ceConf, ceWhy, ceLast, ceCancelled>>
  BY DEF StepCancelled, StepFails, ceDeferred, ceOp
<1>2. /\ ceTodo' \in CeTodos
      /\ \/ ceTodo.of # "scan" /\ (ceWhy # "test" \/ ceTodo.at = "final") /\ ceTodo'.at = "idle" /\ ceTodo'.of = "none"
         \/ ceTodo.of # "scan" /\ ceWhy = "test" /\ ceTodo'.at = "final" /\ ceTodo'.of = "up"
         \/ ceTodo.of = "scan" /\ ceTodo'.at = "exhausted" /\ ceTodo'.of = "scan"
         \/ ceTodo.of = "scan" /\ ceTodo'.at = "try" /\ ceTodo'.of = "scan" /\ ceTodo'.left # <<>>
  BY <1>1, CeErrorNext
<1>3. /\ ceTodo \in CeTodos /\ ceWhy \in {"none", "install", "up", "off", "test"} /\ (ceWhy = "off" => ceTodo.at = "down")
      /\ (ceTodo.of = "scan" => ceTodo.at \in {"try", "wait", "exhausted"} \cup CeProbes)
      /\ (ceTodo.of = "scan" => ceTodo.left # <<>> /\ ceTodo.left \in Seq(1..4))
      /\ (ceTodo.at \in {"try", "wait"} => ceTodo.of = "scan") /\ (ceTodo.at \in CeInstalls => ceWhy = "install")
      /\ (ceTodo.at = "start" => ceTodo.of = "up") /\ (ceTodo.at \notin CeInstalls => ceLast # 0 /\ ceConf.ep # 0)
      /\ (ceTodo.at \notin CeInstalls => ceWhy \in {"up", "off", "test"})
      /\ (ceWhy = "up" /\ ceTodo.of # "probe" => ceConf.on)
  BY <1>1 DEF ceIInv, ceTyped, ceOrder, ceKnown, ceBusy, CeTodos
<1>4. /\ ceLost' \in BOOLEAN /\ ceStuck' \in BOOLEAN
      /\ ceStuck => ceStuck'
      /\ ceLost => ceLost'
      /\ ceWhy = "off" \/ ceTodo.at = "final" => ceStuck'
  <2>1. (ceStuck \/ ceWhy = "off") \in BOOLEAN /\ (ceStuck \/ ceTodo.at \in {"down", "final"}) \in BOOLEAN
        /\ (ceLost \/ ceTodo.at \in {"zero", "interval", "rezero", "try"}) \in BOOLEAN
    BY Zenon
  <2>2. ceLost \in BOOLEAN
    BY DEF ceIInv, ceTyped
  <2>3. ceLost' \in BOOLEAN /\ ceStuck' \in BOOLEAN
    BY <2>1, <2>2, Zenon DEF StepCancelled, StepFails
  <2> QED BY <1>3, <2>3 DEF StepCancelled, StepFails, ceDeferred
<1>5. \/ UNCHANGED ceD
      \/ ceTodo.at = "start" /\ ceD' = [NoDaemon EXCEPT !.ver = ceFile]
      \/ ceLost' /\ ceD # NoDaemon /\ ceTodo.at = "zero" /\ ceD' = [ceD EXCEPT !.keep = 0]
      \/ ceLost' /\ ceD # NoDaemon /\ ceTodo.at = "try" /\ ceD' = ceConfigured(Head(ceTodo.left))
  BY DEF StepCancelled, StepFails
<1>6. /\ ceD' \in CeDaemons
      /\ \/ ceD' = ceD
         \/ ceTodo.at = "start" /\ ceD'.ep = 0 /\ ceD'.fields = {}
         \/ ceLost' /\ ceD # NoDaemon /\ ceTodo.at = "zero" /\ ceD'.ep = ceD.ep /\ ceD'.fields = ceD.fields
            /\ ceD'.was = ceD.was
         \/ ceLost' /\ ceD # NoDaemon /\ ceTodo.at = "try" /\ ceD'.ep # 0 /\ ceD'.fields = ceConf.fields
            /\ ceD'.was = ceConf.ep
  <2>1. CASE UNCHANGED ceD
    BY <2>1 DEF ceIInv, ceTyped
  <2>2. CASE ceTodo.at = "start" /\ ceD' = [NoDaemon EXCEPT !.ver = ceFile]
    BY <2>2, CeStartedIs
  <2>3. CASE ceLost' /\ ceD # NoDaemon /\ ceTodo.at = "zero" /\ ceD' = [ceD EXCEPT !.keep = 0]
    BY <2>3 DEF ceIInv, ceTyped, CeDaemons
  <2>4. CASE ceLost' /\ ceD # NoDaemon /\ ceTodo.at = "try" /\ ceD' = ceConfigured(Head(ceTodo.left))
    <3>1. ceTodo.of = "scan" /\ Head(ceTodo.left) \in 1..4
      BY <1>3, <2>4, HeadTailProperties
    <3> PICK ep : ep = Head(ceTodo.left)
      OBVIOUS
    <3>2. ep \in 0..4 /\ ep # 0 /\ ceD' = ceConfigured(ep)
      BY <2>4, <3>1
    <3> QED BY <2>4, <3>1, <3>2, CeConfiguredIs
  <2> QED BY <1>5, <2>1, <2>2, <2>3, <2>4
<1>7. ceTyped'
  BY <1>1, <1>2, <1>4, <1>6 DEF ceIInv, ceTyped
<1>8. ceOrder' /\ ceStaged'
  BY <1>1, <1>2, <1>3 DEF ceOrder, ceStaged, ceBusy, CeInstalls, CeProbes
<1>9. ceKnown'
  BY <1>1, <1>2, <1>3, <1>6 DEF ceIInv, ceKnown, ceBusy, CeInstalls, CeProbes
<1>10. ceFresh'
  BY <1>1, <1>2, <1>3, <1>6 DEF ceIInv, ceFresh
<1>11. ceProbing'
  <2>1. ceD' = ceD /\ ~ceLost' => ceTodo.at \notin {"interval", "rezero"}
    BY DEF StepCancelled, StepFails, ceDeferred
  <2> QED BY <1>1, <1>2, <1>4, <1>6, <2>1 DEF ceIInv, ceProbing, ceRunning
<1>12. ceScanned'
  BY <1>1, <1>2, <1>3, <1>4, <1>6 DEF ceIInv, ceScanned, ceRunning
<1>13. ceOwned'
  BY <1>1, <1>2, <1>3, <1>4, <1>6 DEF ceIInv, ceOwned, ceBusy, CeInstalls, CeProbes
<1> QED BY <1>7, <1>8, <1>9, <1>10, <1>11, <1>12, <1>13 DEF ceIInv

-----------------------------------------------------------------------------
\* Every step keeps the invariant.
LEMMA CeTurn == ceIInv /\ [ceNext]_ceVars => ceIInv'
<1>1. ASSUME ceIInv, UNCHANGED ceVars PROVE ceIInv'
  BY <1>1 DEF ceVars, ceIInv, ceTyped, ceOrder, ceKnown, ceStaged, ceFresh, ceProbing, ceScanned, ceOwned, ceBusy,
              ceRunning
<1> QED BY <1>1, CeInstallStep, CeBeginStep, CeOutsideStep, CeDownStep, CeConfigStep, CeProbeStep, CeScanStep, CeErrorStep
        DEF ceNext, ceStepNext

\* What the invariant says of the engine.
LEMMA CeShows == ceIInv => ClientSafe
<1> SUFFICES ASSUME ceIInv PROVE ClientSafe
  OBVIOUS
<1>1. EngineWhole /\ OneProfile
  BY DEF ceIInv, ceTyped, CeDaemons, CeProfiles, EngineWhole, OneProfile
<1>2. KeepaliveRestored
  BY DEF ceIInv, ceProbing, ceBusy, KeepaliveRestored
<1>3. EndpointSaved
  BY DEF ceIInv, ceScanned, ceOrder, ceBusy, CeProbes, EndpointSaved
<1>4. NoStrayDaemon
  BY DEF ceIInv, ceOwned, NoStrayDaemon
<1> QED BY <1>1, <1>2, <1>3, <1>4 DEF ClientSafe

\* Whatever download, request or command fails or is cancelled, wherever the panel or the daemon dies: the engine file is
\* one whole engine, the daemon runs one profile with the keepalive and the endpoint it should have, and none runs that
\* nobody wants.
THEOREM ClientIsSafe == ceSpec => []ClientSafe
<1>1. ceIInv /\ [ceNext]_ceVars => ceIInv'
  BY CeTurn
<1> QED BY <1>1, CeStarts, CeShows, PTL DEF ceSpec

(***************************************************************************)
(* RoutingLifecycle                                                        *)
(***************************************************************************)
routingSpec == rlInit /\ [][rlNext]_rlVars

\* The lists of steps an operation can have before it: what stops a loop is followed by the wait for
\* it and by what becomes of its rules, and what rewrites the list stands alone.
rlLone == UserOps \cup {"restore"}
rlFinalSteps == {"stopM", "waitM", "clearM", "stopL", "waitL", "clearL"}
rlPlan(s) ==
    /\ s \in Seq(OpSteps)
    /\ \A i \in 1..Len(s) :
         /\ s[i] \in rlLone => Len(s) = 1
         /\ s[i] = "applied" => i = Len(s)
         /\ s[i] = "waitL" /\ i > 1 => s[i - 1] = "stopL"
         /\ s[i] = "waitM" /\ i > 1 => s[i - 1] = "stopM"
         /\ s[i] = "stopL" => i + 2 <= Len(s) /\ s[i + 1] = "waitL" /\ s[i + 2] = "clearL"
         /\ s[i] = "waitL" => i + 1 <= Len(s) /\ s[i + 1] = "clearL"
         /\ s[i] = "stopM" => i + 2 <= Len(s) /\ s[i + 1] = "waitM" /\ s[i + 2] \in {"clearM", "startM"}
         /\ s[i] = "waitM" => i + 1 <= Len(s) /\ s[i + 1] \in {"clearM", "startM"}
         /\ s[i] = "reinstall" => i = 1 /\ Len(s) = 4 /\ s[2] = "stopM" /\ s[4] = "startM"
rlLeft(s, a) == \E i \in 1..Len(s) : s[i] = a

rlPlanned ==
    /\ rlPlan(rlTodo)
    /\ rlOwner \in {"none"} \cup RefreshLoops => rlTodo = <<>>
    /\ rlOwner = "final" => \A a \in OpSteps : rlLeft(rlTodo, a) => a \in rlFinalSteps
rlTicks == \A l \in RefreshLoops : rlLoop[l].st = "tick" <=> rlOwner = l
\* A legacy loop that was not told to stop has its runtime; one that was is waited for, and so is
\* what a removed runtime has left in the kernel.
rlLegacyKept ==
    /\ \A l \in LegacyLoops : rlLoop[l].st # "none" =>
         IF rlLoop[l].stop THEN rlLeft(rlTodo, "waitL") \/ rlLeft(rlTodo, "applied") ELSE rlActive
    /\ rlKernel["legacy"] = "full" /\ ~rlActive => rlLeft(rlTodo, "clearL")
    /\ rlAt("waitL") => \A l \in LegacyLoops : rlLoop[l].st = "none" \/ rlLoop[l].stop
rlMultiKept ==
    /\ rlLoop["M"].st # "none" /\ rlLoop["M"].stop => rlLeft(rlTodo, "waitM") /\ ~rlAt("reinstall")
    /\ rlKernel["multi"] = "full" /\ (rlLoop["M"].st = "none" \/ rlLoop["M"].stop)
         => rlLeft(rlTodo, "clearM") \/ rlLeft(rlTodo, "startM")
    /\ rlAt("waitM") => rlLoop["M"].st = "none" \/ rlLoop["M"].stop
\* The teardown of shutdown, and what is left after it.
rlFinal ==
    rlOwner = "final" =>
        /\ rlStopping /\ ~rlDown
        /\ rlLeft(rlTodo, "waitM") \/ rlLoop["M"].st = "none"
        /\ rlLeft(rlTodo, "clearM") \/ rlKernel["multi"] = "none"
        /\ rlLeft(rlTodo, "waitL") \/ \A l \in LegacyLoops : rlLoop[l].st = "none"
        /\ rlLeft(rlTodo, "clearL") \/ rlKernel["legacy"] = "none"
rlGone ==
    rlDown => /\ rlStopping /\ rlKernel["legacy"] = "none" /\ rlKernel["multi"] = "none"
              /\ \A l \in RefreshLoops : rlLoop[l].st = "none"
              /\ rlOwner # "none" => rlCancelled
              /\ ~rlLeft(rlTodo, "reinstall") /\ ~rlLeft(rlTodo, "startM")
rlTypes ==
    /\ rlMode \in RoutingModes
    /\ rlRules \in BOOLEAN /\ rlClient \in BOOLEAN /\ rlCommitted \in BOOLEAN /\ rlActive \in BOOLEAN
    /\ rlTimer \in BOOLEAN /\ rlFired \in BOOLEAN
    /\ rlCancelled \in BOOLEAN /\ rlStopping \in BOOLEAN /\ rlDown \in BOOLEAN
    /\ rlKernel \in [Families -> {"none", "partial", "full"}]
    /\ rlLoop \in [RefreshLoops -> [st : {"none", "idle", "tick"}, stop : BOOLEAN]]
    /\ rlUser \in UserOps \cup {"none"} /\ rlOwner \in OpsOwners
    /\ rlPhase \in {"none", "applied", "confirmed"}
rlIInv == rlTypes /\ rlPlanned /\ rlTicks /\ rlLegacyKept /\ rlMultiKept /\ rlFinal /\ rlGone

LEMMA rlImplies == rlIInv => RoutingSafe
<1> SUFFICES ASSUME rlIInv PROVE RoutingSafe
    OBVIOUS
<1> USE DEF rlIInv
<1>1. rlTypeOK BY DEF rlTypes, rlTypeOK
<1>2. rlOwner = "none" => rlTodo = <<>> BY DEF rlPlanned
<1>3. rlTodo = <<>> => \A a : ~rlLeft(rlTodo, a) BY DEF rlLeft
<1>4. LegacyOwned BY <1>2, <1>3 DEF rlLegacyKept, LegacyOwned
<1>5. MultiOwned BY <1>2, <1>3 DEF rlMultiKept, MultiOwned
<1>6. ShutdownIsFinal BY DEF rlGone, ShutdownIsFinal, Families
<1>7. OpsNeverStuck
    <2>1. \A l \in RefreshLoops : rlOwner = l => rlLoop[l].st = "tick" BY DEF rlTicks
    <2>2. rlTodo # <<>> => \A l \in RefreshLoops : rlLoop[l].st \in {"none", "idle"}
        BY DEF rlTicks, rlPlanned, rlTypes
    <2>3. rlAt("waitL") => \A l \in LegacyLoops : IsLeaving(l)
        BY <2>2 DEF rlLegacyKept, IsLeaving, rlAt, LegacyLoops, RefreshLoops
    <2>4. rlAt("waitM") => IsLeaving("M")
        BY <2>2 DEF rlMultiKept, IsLeaving, rlAt, RefreshLoops
    <2>5. rlTodo # <<>> => Head(rlTodo) \in OpSteps
        <3>1. rlTodo \in Seq(OpSteps) BY DEF rlPlanned, rlPlan
        <3> QED BY <3>1
    <2> QED BY <2>1, <2>3, <2>4, <2>5 DEF OpsNeverStuck
<1> QED BY <1>1, <1>4, <1>5, <1>6, <1>7 DEF RoutingSafe

LEMMA rlInitially == rlInit => rlIInv
<1> SUFFICES ASSUME rlInit PROVE rlIInv
    OBVIOUS
<1> USE DEF rlInit
<1>1. rlTypes BY DEF rlTypes, RoutingModes, OpsOwners, NoLoop
<1>2. rlPlanned
    <2>1. rlTodo \in Seq(OpSteps) /\ Len(rlTodo) = 0 OBVIOUS
    <2> QED BY <2>1 DEF rlPlanned, rlPlan
<1>3. rlTicks BY DEF rlTicks, NoLoop, RefreshLoops
<1>4. rlLegacyKept BY DEF rlLegacyKept, NoLoop, RefreshLoops, LegacyLoops, rlAt, Families
<1>5. rlMultiKept BY DEF rlMultiKept, NoLoop, RefreshLoops, rlAt, Families
<1>6. rlFinal /\ rlGone BY DEF rlFinal, rlGone
<1> QED BY <1>1, <1>2, <1>3, <1>4, <1>5, <1>6 DEF rlIInv

-----------------------------------------------------------------------------
\* What a list of steps tells of its tail.
LEMMA rlTails ==
    ASSUME NEW s, rlPlan(s), s # <<>>
    PROVE  /\ rlPlan(Tail(s)) /\ Head(s) = s[1] /\ Len(s) \in Nat \ {0}
           /\ \A b : rlLeft(Tail(s), b) => rlLeft(s, b)
           /\ \A b : b # Head(s) /\ rlLeft(s, b) => rlLeft(Tail(s), b)
           /\ \A b \in {"waitL", "waitM", "reinstall"} : Tail(s) # <<>> /\ Head(Tail(s)) = b =>
                  Head(s) = CASE b = "waitL" -> "stopL" [] b = "waitM" -> "stopM" [] OTHER -> "none"
           /\ Head(s) \in rlLone \cup {"applied"} => Tail(s) = <<>>
           /\ Head(s) = "stopL" => rlLeft(Tail(s), "waitL") /\ rlLeft(Tail(s), "clearL")
           /\ Head(s) = "waitL" => rlLeft(Tail(s), "clearL")
           /\ Head(s) \in {"stopM", "reinstall"} => rlLeft(Tail(s), "waitM") \/ Head(s) = "reinstall"
           /\ Head(s) \in {"stopM", "waitM", "reinstall"} =>
                  rlLeft(Tail(s), "clearM") \/ rlLeft(Tail(s), "startM")
<1> DEFINE t == Tail(s)
<1>1. s \in Seq(OpSteps) BY DEF rlPlan
<1>2. /\ Head(s) = s[1] /\ Len(s) \in Nat \ {0} /\ t \in Seq(OpSteps) /\ Len(t) = Len(s) - 1
      /\ \A i \in 1..Len(t) : t[i] = s[i + 1]
    BY <1>1, HeadTailProperties, EmptySeq
<1>3. t = <<>> <=> Len(s) = 1 BY <1>2, EmptySeq
<1>4. t # <<>> => Head(t) = s[2] BY <1>2, <1>3
<1> HIDE DEF t
<1>5. \A i \in 1..Len(t) : i \in 1..Len(s) /\ i + 1 \in 1..Len(s) BY <1>2
<1>6. rlPlan(t)
    <2> SUFFICES ASSUME NEW i \in 1..Len(t)
                 PROVE /\ t[i] \in rlLone => Len(t) = 1
                       /\ t[i] = "applied" => i = Len(t)
                       /\ t[i] = "waitL" /\ i > 1 => t[i - 1] = "stopL"
                       /\ t[i] = "waitM" /\ i > 1 => t[i - 1] = "stopM"
                       /\ t[i] = "stopL" => i + 2 <= Len(t) /\ t[i + 1] = "waitL" /\ t[i + 2] = "clearL"
                       /\ t[i] = "waitL" => i + 1 <= Len(t) /\ t[i + 1] = "clearL"
                       /\ t[i] = "stopM" => i + 2 <= Len(t) /\ t[i + 1] = "waitM" /\ t[i + 2] \in {"clearM", "startM"}
                       /\ t[i] = "waitM" => i + 1 <= Len(t) /\ t[i + 1] \in {"clearM", "startM"}
                       /\ t[i] = "reinstall" => i = 1 /\ Len(t) = 4 /\ t[2] = "stopM" /\ t[4] = "startM"
        BY <1>2 DEF rlPlan
    <2>1. /\ i \in Nat /\ i >= 1 /\ i <= Len(t) /\ t[i] = s[i + 1] /\ Len(t) = Len(s) - 1 /\ Len(s) \in Nat
          /\ i + 1 \in 1..Len(s)
        BY <1>2, <1>5
    <2>2. i > 1 => i - 1 \in 1..Len(t) /\ t[i - 1] = s[i] BY <1>2, <2>1
    <2>3. i + 1 <= Len(t) => t[i + 1] = s[i + 2] BY <1>2, <2>1
    <2>4. i + 2 <= Len(t) => t[i + 2] = s[i + 3] BY <1>2, <2>1
    <2>5. /\ s[i + 1] \in rlLone => Len(s) = 1
          /\ s[i + 1] = "applied" => i + 1 = Len(s)
          /\ s[i + 1] = "waitL" => s[i] = "stopL"
          /\ s[i + 1] = "waitM" => s[i] = "stopM"
          /\ s[i + 1] = "stopL" => i + 3 <= Len(s) /\ s[i + 2] = "waitL" /\ s[i + 3] = "clearL"
          /\ s[i + 1] = "waitL" => i + 2 <= Len(s) /\ s[i + 2] = "clearL"
          /\ s[i + 1] = "stopM" => i + 3 <= Len(s) /\ s[i + 2] = "waitM" /\ s[i + 3] \in {"clearM", "startM"}
          /\ s[i + 1] = "waitM" => i + 2 <= Len(s) /\ s[i + 2] \in {"clearM", "startM"}
          /\ s[i + 1] # "reinstall"
        <3>1. PICK j \in 1..Len(s) : j = i + 1 BY <2>1
        <3>2. j - 1 = i /\ j + 1 = i + 2 /\ j + 2 = i + 3 /\ j > 1 BY <2>1, <3>1
        <3> QED BY <3>1, <3>2 DEF rlPlan
    <2> QED BY <2>1, <2>2, <2>3, <2>4, <2>5
<1>7. \A b : rlLeft(t, b) => rlLeft(s, b) BY <1>2, <1>5 DEF rlLeft
<1>8. ASSUME NEW b, b # Head(s), rlLeft(s, b) PROVE rlLeft(t, b)
    <2>1. PICK i \in 1..Len(s) : s[i] = b BY <1>8 DEF rlLeft
    <2>2. i # 1 BY <1>2, <1>8, <2>1
    <2>3. i - 1 \in 1..Len(t) /\ (i - 1) + 1 = i BY <1>2, <2>2
    <2>4. t[i - 1] = b BY <1>2, <2>1, <2>3
    <2> QED BY <2>3, <2>4 DEF rlLeft
<1>9. 1 \in 1..Len(s) /\ (t # <<>> => 2 \in 1..Len(s)) BY <1>2, <1>3
<1>10. /\ s[1] \in rlLone => Len(s) = 1
       /\ s[1] = "applied" => Len(s) = 1
       /\ s[1] = "stopL" => 3 <= Len(s) /\ s[2] = "waitL" /\ s[3] = "clearL"
       /\ s[1] = "waitL" => 2 <= Len(s) /\ s[2] = "clearL"
       /\ s[1] = "stopM" => 3 <= Len(s) /\ s[2] = "waitM" /\ s[3] \in {"clearM", "startM"}
       /\ s[1] = "waitM" => 2 <= Len(s) /\ s[2] \in {"clearM", "startM"}
       /\ s[1] = "reinstall" => 4 <= Len(s) /\ s[4] = "startM"
    <2>1. PICK j \in 1..Len(s) : j = 1 BY <1>9
    <2>2. j + 1 = 2 /\ j + 2 = 3 BY <2>1
    <2>3. /\ s[j] \in rlLone => Len(s) = 1
          /\ s[j] = "applied" => j = Len(s)
          /\ s[j] = "stopL" => j + 2 <= Len(s) /\ s[j + 1] = "waitL" /\ s[j + 2] = "clearL"
          /\ s[j] = "waitL" => j + 1 <= Len(s) /\ s[j + 1] = "clearL"
          /\ s[j] = "stopM" => j + 2 <= Len(s) /\ s[j + 1] = "waitM" /\ s[j + 2] \in {"clearM", "startM"}
          /\ s[j] = "waitM" => j + 1 <= Len(s) /\ s[j + 1] \in {"clearM", "startM"}
          /\ s[j] = "reinstall" => Len(s) = 4 /\ s[4] = "startM"
        BY DEF rlPlan
    <2> QED BY <2>1, <2>2, <2>3
<1>11. t # <<>> => /\ s[2] = "waitL" => s[1] = "stopL"
                   /\ s[2] = "waitM" => s[1] = "stopM"
                   /\ s[2] # "reinstall"
    <2> SUFFICES ASSUME t # <<>> PROVE /\ s[2] = "waitL" => s[1] = "stopL"
                                       /\ s[2] = "waitM" => s[1] = "stopM"
                                       /\ s[2] # "reinstall"
        OBVIOUS
    <2>1. PICK j \in 1..Len(s) : j = 2 BY <1>9
    <2>2. j - 1 = 1 /\ j > 1 /\ j # 1 BY <2>1
    <2>3. /\ s[j] = "waitL" /\ j > 1 => s[j - 1] = "stopL"
          /\ s[j] = "waitM" /\ j > 1 => s[j - 1] = "stopM"
          /\ s[j] = "reinstall" => j = 1
        BY DEF rlPlan
    <2> QED BY <2>1, <2>2, <2>3
<1>12. \A i \in {2, 3, 4} : i <= Len(s) => rlLeft(t, s[i])
    <2> SUFFICES ASSUME NEW i \in {2, 3, 4}, i <= Len(s) PROVE rlLeft(t, s[i])
        OBVIOUS
    <2>1. i - 1 \in 1..Len(t) /\ (i - 1) + 1 = i BY <1>2
    <2>2. t[i - 1] = s[i] BY <1>2, <2>1
    <2> QED BY <2>1, <2>2 DEF rlLeft
<1>13. \A b \in {"waitL", "waitM", "reinstall"} : t # <<>> /\ Head(t) = b =>
           Head(s) = CASE b = "waitL" -> "stopL" [] b = "waitM" -> "stopM" [] OTHER -> "none"
    BY <1>2, <1>4, <1>11
<1>14. Head(s) \in rlLone \cup {"applied"} => t = <<>> BY <1>2, <1>3, <1>10
<1>15. /\ Head(s) = "stopL" => rlLeft(t, "waitL") /\ rlLeft(t, "clearL")
       /\ Head(s) = "waitL" => rlLeft(t, "clearL")
       /\ Head(s) \in {"stopM", "reinstall"} => rlLeft(t, "waitM") \/ Head(s) = "reinstall"
       /\ Head(s) \in {"stopM", "waitM", "reinstall"} => rlLeft(t, "clearM") \/ rlLeft(t, "startM")
    BY <1>2, <1>10, <1>12
<1>16. Head(s) = s[1] /\ Len(s) \in Nat \ {0} BY <1>2
<1> QED BY <1>6, <1>7, <1>8, <1>13, <1>14, <1>15, <1>16 DEF t

\* The lists that operations are given.
LEMMA rlNothing == rlPlan(<<>>) /\ \A a : ~rlLeft(<<>>, a)
<1>1. <<>> \in Seq(OpSteps) /\ Len(<<>>) = 0 OBVIOUS
<1> QED BY <1>1 DEF rlPlan, rlLeft
LEMMA rlOnes ==
    ASSUME NEW a \in rlLone \cup {"applied"}
    PROVE  rlPlan(<<a>>) /\ \A b : rlLeft(<<a>>, b) <=> b = a
<1>1. <<a>> \in Seq(OpSteps) /\ Len(<<a>>) = 1 /\ <<a>>[1] = a BY DEF OpSteps, rlLone
<1>2. a \notin {"waitL", "waitM", "stopL", "stopM", "reinstall"} BY DEF rlLone, UserOps
<1>3. PICK s : s = <<a>> OBVIOUS
<1>4. s \in Seq(OpSteps) /\ Len(s) = 1 /\ s[1] = a BY <1>1, <1>3
<1>5. rlPlan(s) BY <1>2, <1>4 DEF rlPlan
<1>6. \A b : rlLeft(s, b) <=> b = a BY <1>4 DEF rlLeft
<1> QED BY <1>3, <1>5, <1>6
LEMMA rlRestores ==
    /\ rlPlan(RestoreSteps)
    /\ \A b : rlLeft(RestoreSteps, b) <=> b \in {"reinstall", "stopM", "waitM", "startM"}
    /\ Head(RestoreSteps) = "reinstall" /\ RestoreSteps # <<>>
<1>1. PICK s : s = RestoreSteps OBVIOUS
<1>2. /\ s \in Seq(OpSteps) /\ Len(s) = 4
      /\ s[1] = "reinstall" /\ s[2] = "stopM" /\ s[3] = "waitM" /\ s[4] = "startM"
    BY <1>1 DEF RestoreSteps, OpSteps
<1>3. \A i \in 1..Len(s) : i = 1 \/ i = 2 \/ i = 3 \/ i = 4 BY <1>2
<1>4. rlPlan(s) BY <1>2, <1>3 DEF rlPlan, rlLone, UserOps
<1>5. \A b : rlLeft(s, b) <=> b \in {"reinstall", "stopM", "waitM", "startM"} BY <1>2, <1>3 DEF rlLeft
<1>6. Head(s) = "reinstall" /\ s # <<>> BY <1>2
<1> QED BY <1>1, <1>4, <1>5, <1>6
LEMMA rlTeardowns ==
    /\ rlPlan(TeardownSteps) /\ \A b : rlLeft(TeardownSteps, b) <=> b \in rlFinalSteps
    /\ Head(TeardownSteps) = "stopM" /\ TeardownSteps # <<>>
<1>1. PICK s : s = TeardownSteps OBVIOUS
<1>2. /\ s \in Seq(OpSteps) /\ Len(s) = 6
      /\ s[1] = "stopM" /\ s[2] = "waitM" /\ s[3] = "clearM" /\ s[4] = "stopL" /\ s[5] = "waitL" /\ s[6] = "clearL"
    BY <1>1 DEF TeardownSteps, OpSteps
<1>3. \A i \in 1..Len(s) : i = 1 \/ i = 2 \/ i = 3 \/ i = 4 \/ i = 5 \/ i = 6 BY <1>2
<1>4. rlPlan(s) BY <1>2, <1>3 DEF rlPlan, rlLone, UserOps
<1>5. \A b : rlLeft(s, b) <=> b \in rlFinalSteps BY <1>2, <1>3 DEF rlLeft, rlFinalSteps
<1>6. Head(s) = "stopM" /\ s # <<>> BY <1>2
<1> QED BY <1>1, <1>4, <1>5, <1>6
LEMMA rlRebuilds ==
    /\ rlPlan(RebuildSteps) /\ \A b : rlLeft(RebuildSteps, b) <=> b \in rlFinalSteps \cup {"install"}
    /\ Head(RebuildSteps) = "stopL" /\ RebuildSteps # <<>>
<1>1. PICK s : s = RebuildSteps OBVIOUS
<1>2. /\ s \in Seq(OpSteps) /\ Len(s) = 7
      /\ s[1] = "stopL" /\ s[2] = "waitL" /\ s[3] = "clearL" /\ s[4] = "stopM" /\ s[5] = "waitM" /\ s[6] = "clearM"
      /\ s[7] = "install"
    BY <1>1 DEF RebuildSteps, OpSteps
<1>3. \A i \in 1..Len(s) : i = 1 \/ i = 2 \/ i = 3 \/ i = 4 \/ i = 5 \/ i = 6 \/ i = 7 BY <1>2
<1>4. rlPlan(s) BY <1>2, <1>3 DEF rlPlan, rlLone, UserOps
<1>5. \A b : rlLeft(s, b) <=> b \in rlFinalSteps \cup {"install"} BY <1>2, <1>3 DEF rlLeft, rlFinalSteps
<1>6. Head(s) = "stopL" /\ s # <<>> BY <1>2
<1> QED BY <1>1, <1>4, <1>5, <1>6
\* The teardown with what follows it.
LEMMA rlJoins ==
    ASSUME NEW t \in {<<"applied">>, RebuildSteps}
    PROVE  /\ rlPlan(TeardownSteps \o t)
           /\ \A b : rlLeft(TeardownSteps \o t, b) => b \in rlFinalSteps \cup {"install", "applied"}
           /\ \A b \in rlFinalSteps : rlLeft(TeardownSteps \o t, b)
           /\ Head(TeardownSteps \o t) = "stopM" /\ TeardownSteps \o t # <<>>
<1>1. PICK s : s = TeardownSteps OBVIOUS
<1>2. /\ s \in Seq(OpSteps) /\ Len(s) = 6
      /\ s[1] = "stopM" /\ s[2] = "waitM" /\ s[3] = "clearM" /\ s[4] = "stopL" /\ s[5] = "waitL" /\ s[6] = "clearL"
    BY <1>1 DEF TeardownSteps, OpSteps
<1>3. rlPlan(t) /\ t # <<>> /\ Head(t) \in {"applied", "stopL"} /\ \A b : rlLeft(t, b) => b \in rlFinalSteps \cup {"install", "applied"}
    BY rlOnes, rlRebuilds
<1>4. t \in Seq(OpSteps) /\ Len(t) \in Nat \ {0} /\ Head(t) = t[1] BY <1>3, EmptySeq, HeadTailProperties DEF rlPlan
<1>5. PICK u : u = s \o t OBVIOUS
<1>6. /\ u \in Seq(OpSteps) /\ Len(u) = 6 + Len(t)
      /\ \A i \in 1..Len(u) : u[i] = IF i <= 6 THEN s[i] ELSE t[i - 6]
    <2>1. /\ s \o t \in Seq(OpSteps) /\ Len(s \o t) = Len(s) + Len(t)
          /\ \A i \in 1..Len(s) + Len(t) : (s \o t)[i] = IF i <= Len(s) THEN s[i] ELSE t[i - Len(s)]
        <3>1. s \in Seq(OpSteps) /\ t \in Seq(OpSteps) BY <1>2, <1>4
        <3> QED BY <3>1, ConcatProperties
    <2> QED BY <1>2, <1>4, <1>5, <2>1
<1>7. ASSUME NEW i \in 1..Len(u), i <= 6
      PROVE  i = 1 \/ i = 2 \/ i = 3 \/ i = 4 \/ i = 5 \/ i = 6
    BY <1>6, <1>7
<1>8. u[1] = "stopM" /\ u[2] = "waitM" /\ u[3] = "clearM" /\ u[4] = "stopL" /\ u[5] = "waitL" /\ u[6] = "clearL"
    BY <1>2, <1>4, <1>6
<1>9. ASSUME NEW i \in 1..Len(u), i > 6
      PROVE  i - 6 \in 1..Len(t) /\ u[i] = t[i - 6] /\ i \in Nat
    BY <1>4, <1>6, <1>9
<1>10. \A b : rlLeft(u, b) => b \in rlFinalSteps \cup {"install", "applied"}
    <2> SUFFICES ASSUME NEW i \in 1..Len(u) PROVE u[i] \in rlFinalSteps \cup {"install", "applied"}
        BY DEF rlLeft
    <2>1. CASE i <= 6 BY <2>1, <1>7, <1>8 DEF rlFinalSteps
    <2>2. CASE i > 6
        <3>1. rlLeft(t, t[i - 6]) BY <1>9, <2>2 DEF rlLeft
        <3> QED BY <1>3, <1>9, <2>2, <3>1
    <2>3. i \in Nat BY <1>6
    <2> QED BY <2>1, <2>2, <2>3
<1>11. \A i \in {1, 2, 3, 4, 5, 6} : i \in 1..Len(u) BY <1>4, <1>6
<1>12. \A b \in rlFinalSteps : rlLeft(u, b) BY <1>8, <1>11 DEF rlFinalSteps, rlLeft
<1>13. Head(u) = "stopM" /\ u # <<>> BY <1>4, <1>6, <1>8, EmptySeq, HeadTailProperties
<1>14. rlPlan(u)
    <2> SUFFICES ASSUME NEW i \in 1..Len(u)
                 PROVE /\ u[i] \in rlLone => Len(u) = 1
                       /\ u[i] = "applied" => i = Len(u)
                       /\ u[i] = "waitL" /\ i > 1 => u[i - 1] = "stopL"
                       /\ u[i] = "waitM" /\ i > 1 => u[i - 1] = "stopM"
                       /\ u[i] = "stopL" => i + 2 <= Len(u) /\ u[i + 1] = "waitL" /\ u[i + 2] = "clearL"
                       /\ u[i] = "waitL" => i + 1 <= Len(u) /\ u[i + 1] = "clearL"
                       /\ u[i] = "stopM" => i + 2 <= Len(u) /\ u[i + 1] = "waitM" /\ u[i + 2] \in {"clearM", "startM"}
                       /\ u[i] = "waitM" => i + 1 <= Len(u) /\ u[i + 1] \in {"clearM", "startM"}
                       /\ u[i] = "reinstall" => i = 1 /\ Len(u) = 4 /\ u[2] = "stopM" /\ u[4] = "startM"
        BY <1>6 DEF rlPlan
    <2>1. CASE i <= 6 BY <2>1, <1>4, <1>6, <1>7, <1>8, SMTT(30) DEF rlLone, UserOps
    <2>2. CASE i > 6
        <3>1. PICK j \in 1..Len(t) : j = i - 6 /\ u[i] = t[j] BY <1>9, <2>2
        <3>2. rlLeft(u, u[i]) BY DEF rlLeft
        <3>3. u[i] \notin rlLone /\ u[i] # "reinstall" BY <1>10, <3>2 DEF rlLone, UserOps, rlFinalSteps
        <3>4. /\ j > 1 => u[i - 1] = t[j - 1]
              /\ j = 1 => t[j] \in {"applied", "stopL"}
            <4>1. CASE j = 1 BY <1>3, <1>4, <4>1
            <4>2. CASE j > 1
                <5>1. i - 1 \in 1..Len(u) /\ i - 1 > 6 /\ (i - 1) - 6 = j - 1 BY <1>4, <1>6, <3>1, <4>2
                <5> QED BY <1>6, <4>2, <5>1
            <4> QED BY <1>4, <3>1, <4>1, <4>2
        <3>5. j + 1 <= Len(t) => u[i + 1] = t[j + 1]
            <4> SUFFICES ASSUME j + 1 <= Len(t) PROVE u[i + 1] = t[j + 1] OBVIOUS
            <4>1. i + 1 \in 1..Len(u) /\ i + 1 > 6 /\ (i + 1) - 6 = j + 1 BY <1>4, <1>6, <2>2, <3>1
            <4> QED BY <1>6, <4>1
        <3>6. j + 2 <= Len(t) => u[i + 2] = t[j + 2]
            <4> SUFFICES ASSUME j + 2 <= Len(t) PROVE u[i + 2] = t[j + 2] OBVIOUS
            <4>1. i + 2 \in 1..Len(u) /\ i + 2 > 6 /\ (i + 2) - 6 = j + 2 BY <1>4, <1>6, <2>2, <3>1
            <4> QED BY <1>6, <4>1
        <3>7. /\ t[j] = "applied" => j = Len(t)
              /\ t[j] = "waitL" /\ j > 1 => t[j - 1] = "stopL"
              /\ t[j] = "waitM" /\ j > 1 => t[j - 1] = "stopM"
              /\ t[j] = "stopL" => j + 2 <= Len(t) /\ t[j + 1] = "waitL" /\ t[j + 2] = "clearL"
              /\ t[j] = "waitL" => j + 1 <= Len(t) /\ t[j + 1] = "clearL"
              /\ t[j] = "stopM" => j + 2 <= Len(t) /\ t[j + 1] = "waitM" /\ t[j + 2] \in {"clearM", "startM"}
              /\ t[j] = "waitM" => j + 1 <= Len(t) /\ t[j + 1] \in {"clearM", "startM"}
            BY <1>3 DEF rlPlan
        <3>8. j \in Nat /\ j >= 1 /\ i = j + 6 /\ Len(u) = 6 + Len(t) /\ Len(t) \in Nat BY <1>4, <1>6, <2>2, <3>1
        <3>9. j + 2 <= Len(t) => j + 1 <= Len(t) BY <3>8
        <3>10. /\ u[i] = "waitL" => u[i - 1] = "stopL"
               /\ u[i] = "waitM" => u[i - 1] = "stopM"
            BY <3>1, <3>4, <3>7, <3>8
        <3>11. /\ u[i] = "applied" => i = Len(u)
               /\ u[i] = "stopL" => i + 2 <= Len(u) /\ u[i + 1] = "waitL" /\ u[i + 2] = "clearL"
               /\ u[i] = "waitL" => i + 1 <= Len(u) /\ u[i + 1] = "clearL"
               /\ u[i] = "stopM" => i + 2 <= Len(u) /\ u[i + 1] = "waitM" /\ u[i + 2] \in {"clearM", "startM"}
               /\ u[i] = "waitM" => i + 1 <= Len(u) /\ u[i + 1] \in {"clearM", "startM"}
            BY <3>1, <3>5, <3>6, <3>7, <3>8, <3>9
        <3> QED BY <3>3, <3>10, <3>11
    <2>3. i \in Nat BY <1>6
    <2> QED BY <2>1, <2>2, <2>3
<1> QED BY <1>1, <1>5, <1>10, <1>12, <1>13, <1>14

-----------------------------------------------------------------------------
\* What every step of an operation meets.
LEMMA rlMeets ==
    ASSUME rlIInv, rlTodo # <<>>
    PROVE  /\ rlOwner \notin {"none"} \cup RefreshLoops
           /\ \A l \in RefreshLoops : rlLoop[l].st \in {"none", "idle"}
           /\ rlPlan(rlTodo) /\ Head(rlTodo) \in OpSteps /\ rlLeft(rlTodo, Head(rlTodo))
           /\ rlOwner = "final" => Head(rlTodo) \in rlFinalSteps
<1>1. rlOwner \notin {"none"} \cup RefreshLoops BY DEF rlIInv, rlPlanned
<1>2. \A l \in RefreshLoops : rlLoop[l].st \in {"none", "idle"} BY <1>1 DEF rlIInv, rlTicks, rlTypes
<1>3. rlPlan(rlTodo) /\ rlTodo \in Seq(OpSteps) BY DEF rlIInv, rlPlanned, rlPlan
<1>4. Head(rlTodo) = rlTodo[1] /\ 1 \in 1..Len(rlTodo) BY <1>3, rlTails
<1>5. rlLeft(rlTodo, Head(rlTodo)) BY <1>4 DEF rlLeft
<1>6. Head(rlTodo) \in OpSteps BY <1>3
<1>7. rlOwner = "final" => Head(rlTodo) \in rlFinalSteps BY <1>5, <1>6 DEF rlIInv, rlPlanned
<1> QED BY <1>1, <1>2, <1>3, <1>5, <1>6, <1>7
\* A step that goes on with the next one.
LEMMA rlContinued ==
    ASSUME rlIInv, NEW a, rlAt(a), rlContinue
    PROVE  /\ rlPlanned' /\ rlTodo # <<>> /\ a \in OpSteps
           /\ UNCHANGED <<rlUser, rlOwner, rlCancelled, rlStopping, rlDown>>
           /\ rlAt("waitL")' => a = "stopL"
           /\ rlAt("waitM")' => a = "stopM"
           /\ ~rlAt("reinstall")'
           /\ \A b : rlLeft(rlTodo', b) => rlLeft(rlTodo, b)
           /\ \A b : b # a /\ rlLeft(rlTodo, b) => rlLeft(rlTodo', b)
           /\ rlOwner \notin {"none"} \cup RefreshLoops
           /\ \A l \in RefreshLoops : rlLoop[l].st \in {"none", "idle"}
           /\ rlLeft(rlTodo, a) /\ (rlOwner = "final" => a \in rlFinalSteps)
           /\ a \in rlLone \cup {"applied"} => rlTodo' = <<>>
           /\ a = "stopL" => rlLeft(rlTodo', "waitL") /\ rlLeft(rlTodo', "clearL")
           /\ a = "stopM" => rlLeft(rlTodo', "waitM")
           /\ a \in {"stopM", "waitM", "reinstall"} => rlLeft(rlTodo', "clearM") \/ rlLeft(rlTodo', "startM")
<1>1. rlTodo # <<>> /\ Head(rlTodo) = a /\ rlTodo' = Tail(rlTodo)
      /\ UNCHANGED <<rlUser, rlOwner, rlCancelled, rlStopping, rlDown>>
    BY DEF rlAt, rlContinue, rlThen
<1>2. /\ rlOwner \notin {"none"} \cup RefreshLoops
      /\ \A l \in RefreshLoops : rlLoop[l].st \in {"none", "idle"}
      /\ rlPlan(rlTodo) /\ a \in OpSteps /\ rlLeft(rlTodo, a)
      /\ rlOwner = "final" => a \in rlFinalSteps
    BY <1>1, rlMeets
<1>3. PICK t : t = rlTodo' OBVIOUS
<1>4. /\ rlPlan(t)
      /\ \A b : rlLeft(t, b) => rlLeft(rlTodo, b)
      /\ \A b : b # a /\ rlLeft(rlTodo, b) => rlLeft(t, b)
      /\ \A b \in {"waitL", "waitM", "reinstall"} : t # <<>> /\ Head(t) = b =>
             a = CASE b = "waitL" -> "stopL" [] b = "waitM" -> "stopM" [] OTHER -> "none"
      /\ a \in rlLone \cup {"applied"} => t = <<>>
      /\ a = "stopL" => rlLeft(t, "waitL") /\ rlLeft(t, "clearL")
      /\ a \in {"stopM", "reinstall"} => rlLeft(t, "waitM") \/ a = "reinstall"
      /\ a \in {"stopM", "waitM", "reinstall"} => rlLeft(t, "clearM") \/ rlLeft(t, "startM")
    BY <1>1, <1>2, <1>3, rlTails
<1>5. rlPlanned'
    <2>1. rlPlan(rlTodo') BY <1>3, <1>4
    <2>2. rlOwner' = "final" => \A b \in OpSteps : rlLeft(rlTodo', b) => b \in rlFinalSteps
        BY <1>1, <1>3, <1>4 DEF rlIInv, rlPlanned
    <2> QED BY <1>1, <1>2, <2>1, <2>2 DEF rlPlanned
<1>6. /\ t # <<>> /\ Head(t) = "waitL" => a = "stopL"
      /\ t # <<>> /\ Head(t) = "waitM" => a = "stopM"
      /\ ~(t # <<>> /\ Head(t) = "reinstall")
    <2>1. "none" \notin OpSteps BY DEF OpSteps, UserOps
    <2> QED BY <1>2, <1>4, <2>1
<1>7. (rlAt("waitL")' => a = "stopL") /\ (rlAt("waitM")' => a = "stopM") /\ ~rlAt("reinstall")'
    BY <1>3, <1>6 DEF rlAt
<1> QED BY <1>1, <1>2, <1>3, <1>4, <1>5, <1>7
\* A step that replaces the list.
LEMMA rlReplaced ==
    ASSUME rlIInv, NEW a, rlAt(a), a \notin rlFinalSteps, NEW t, rlThen(t), rlPlan(t)
    PROVE  /\ rlPlanned' /\ rlTodo # <<>> /\ a \in OpSteps /\ rlTodo' = t
           /\ UNCHANGED <<rlUser, rlOwner, rlCancelled, rlStopping, rlDown>>
           /\ rlOwner \notin {"none", "final"} \cup RefreshLoops
           /\ \A l \in RefreshLoops : rlLoop[l].st \in {"none", "idle"}
           /\ rlLeft(rlTodo, a)
           /\ a \in rlLone => \A b : rlLeft(rlTodo, b) => b = a
<1>1. rlTodo # <<>> /\ Head(rlTodo) = a /\ rlTodo' = t
      /\ UNCHANGED <<rlUser, rlOwner, rlCancelled, rlStopping, rlDown>>
    BY DEF rlAt, rlThen
<1>2. /\ rlOwner \notin {"none", "final"} \cup RefreshLoops
      /\ \A l \in RefreshLoops : rlLoop[l].st \in {"none", "idle"}
      /\ rlPlan(rlTodo) /\ a \in OpSteps /\ rlLeft(rlTodo, a)
    BY <1>1, rlMeets
<1>3. rlPlanned' BY <1>1, <1>2 DEF rlPlanned
<1>4. ASSUME a \in rlLone, NEW b, rlLeft(rlTodo, b) PROVE b = a
    <2>1. Tail(rlTodo) = <<>> BY <1>1, <1>2, <1>4, rlTails
    <2>2. b # a => rlLeft(Tail(rlTodo), b) BY <1>1, <1>2, <1>4, rlTails
    <2> QED BY <2>1, <2>2, rlNothing
<1> QED BY <1>1, <1>2, <1>3, <1>4
\* Who has no step before him waits for no loop and leaves nothing to be removed.
LEMMA rlAlone ==
    ASSUME rlIInv, \A b : rlLeft(rlTodo, b) => b \in rlLone
    PROVE  /\ \A l \in RefreshLoops : rlLoop[l].st = "none" \/ ~rlLoop[l].stop
           /\ rlKernel["legacy"] = "full" => rlActive
           /\ rlKernel["multi"] = "full" => rlLoop["M"].st # "none"
<1>1. /\ ~rlLeft(rlTodo, "waitL") /\ ~rlLeft(rlTodo, "applied") /\ ~rlLeft(rlTodo, "clearL")
      /\ ~rlLeft(rlTodo, "waitM") /\ ~rlLeft(rlTodo, "clearM") /\ ~rlLeft(rlTodo, "startM")
    BY DEF rlLone, UserOps
<1> QED BY <1>1 DEF rlIInv, rlLegacyKept, rlMultiKept, RefreshLoops, LegacyLoops

-----------------------------------------------------------------------------
\* Stop, join and removal.
LEMMA rlStopLStep == ASSUME rlIInv, awgStopLegacyRoutingRuntimeOS PROVE rlIInv'
<1>1. /\ rlTimer' = FALSE /\ rlActive' = FALSE /\ rlAt("stopL") /\ rlContinue
      /\ rlLoop' = [l \in RefreshLoops |-> IF l \in LegacyLoops /\ rlLoop[l].st # "none"
                                  THEN [rlLoop[l] EXCEPT !.stop = TRUE] ELSE rlLoop[l]]
      /\ UNCHANGED <<rlMode, rlRules, rlClient, rlCommitted, rlKernel, rlFired, rlPhase>>
    BY DEF awgStopLegacyRoutingRuntimeOS, rlConfig
<1>2. rlLoop \in [RefreshLoops -> [st : {"none", "idle", "tick"}, stop : BOOLEAN]] BY DEF rlIInv, rlTypes
<1>3. /\ rlLoop' \in [RefreshLoops -> [st : {"none", "idle", "tick"}, stop : BOOLEAN]]
      /\ \A l \in RefreshLoops : rlLoop'[l].st = rlLoop[l].st
      /\ \A l \in LegacyLoops : rlLoop[l].st # "none" => rlLoop'[l].stop
      /\ rlLoop'["M"] = rlLoop["M"]
    BY <1>1, <1>2 DEF LegacyLoops, RefreshLoops
<1>4. /\ rlPlanned' /\ UNCHANGED <<rlUser, rlOwner, rlCancelled, rlStopping, rlDown>>
      /\ ~rlAt("waitM")' /\ ~rlAt("reinstall")'
      /\ \A b : rlLeft(rlTodo', b) => rlLeft(rlTodo, b)
      /\ \A b : b # "stopL" /\ rlLeft(rlTodo, b) => rlLeft(rlTodo', b)
      /\ rlLeft(rlTodo', "waitL") /\ rlLeft(rlTodo', "clearL")
      /\ rlOwner # "none"
    BY <1>1, rlContinued
<1>5. rlTypes' BY <1>1, <1>3, <1>4 DEF rlIInv, rlTypes
<1>6. rlTicks' BY <1>3, <1>4 DEF rlIInv, rlTicks
<1>7. rlLegacyKept' BY <1>1, <1>3, <1>4 DEF rlIInv, rlLegacyKept, LegacyLoops, RefreshLoops
<1>8. rlMultiKept' BY <1>1, <1>3, <1>4 DEF rlIInv, rlMultiKept
<1>9. rlFinal' BY <1>1, <1>3, <1>4 DEF rlIInv, rlFinal, LegacyLoops, RefreshLoops
<1>10. rlGone' BY <1>1, <1>3, <1>4 DEF rlIInv, rlGone
<1> QED BY <1>4, <1>5, <1>6, <1>7, <1>8, <1>9, <1>10 DEF rlIInv
LEMMA rlStopMStep == ASSUME rlIInv, awgStopMultiPolicyRefresh PROVE rlIInv'
<1>1. /\ rlAt("stopM") /\ rlContinue
      /\ rlLoop' = IF rlLoop["M"].st = "none" THEN rlLoop ELSE [rlLoop EXCEPT !["M"].stop = TRUE]
      /\ UNCHANGED <<rlMode, rlRules, rlClient, rlCommitted, rlActive, rlKernel, rlTimer, rlFired, rlPhase>>
    BY DEF awgStopMultiPolicyRefresh, rlConfig
<1>2. rlLoop \in [RefreshLoops -> [st : {"none", "idle", "tick"}, stop : BOOLEAN]] BY DEF rlIInv, rlTypes
<1>3. /\ rlLoop' \in [RefreshLoops -> [st : {"none", "idle", "tick"}, stop : BOOLEAN]]
      /\ \A l \in RefreshLoops : rlLoop'[l].st = rlLoop[l].st
      /\ \A l \in LegacyLoops : rlLoop'[l] = rlLoop[l]
      /\ rlLoop'["M"].st = "none" \/ rlLoop'["M"].stop
    BY <1>1, <1>2 DEF LegacyLoops, RefreshLoops
<1>4. /\ rlPlanned' /\ UNCHANGED <<rlUser, rlOwner, rlCancelled, rlStopping, rlDown>>
      /\ ~rlAt("waitL")' /\ ~rlAt("reinstall")'
      /\ \A b : rlLeft(rlTodo', b) => rlLeft(rlTodo, b)
      /\ \A b : b # "stopM" /\ rlLeft(rlTodo, b) => rlLeft(rlTodo', b)
      /\ rlLeft(rlTodo', "waitM") /\ (rlLeft(rlTodo', "clearM") \/ rlLeft(rlTodo', "startM"))
    BY <1>1, rlContinued
<1>5. rlTypes' BY <1>1, <1>3, <1>4 DEF rlIInv, rlTypes
<1>6. rlTicks' BY <1>3, <1>4 DEF rlIInv, rlTicks
<1>7. rlLegacyKept' BY <1>1, <1>3, <1>4 DEF rlIInv, rlLegacyKept
<1>8. rlMultiKept' BY <1>1, <1>3, <1>4 DEF rlIInv, rlMultiKept
<1>9. rlFinal' BY <1>1, <1>3, <1>4 DEF rlIInv, rlFinal, LegacyLoops, RefreshLoops
<1>10. rlGone' BY <1>1, <1>3, <1>4 DEF rlIInv, rlGone
<1> QED BY <1>4, <1>5, <1>6, <1>7, <1>8, <1>9, <1>10 DEF rlIInv
LEMMA rlWaitStep == ASSUME rlIInv, WaitLegacyLoops \/ WaitMultiLoop PROVE rlIInv'
<1>1. PICK a \in {"waitL", "waitM"} :
        /\ rlAt(a) /\ rlContinue
        /\ a = "waitL" => \A l \in LegacyLoops : rlLoop[l].st = "none"
        /\ a = "waitM" => rlLoop["M"].st = "none"
    BY DEF WaitLegacyLoops, WaitMultiLoop
<1>2. UNCHANGED <<rlMode, rlRules, rlClient, rlCommitted, rlActive, rlKernel, rlTimer, rlFired, rlLoop, rlPhase>>
    BY DEF WaitLegacyLoops, WaitMultiLoop, rlConfig, rlRuntime
<1>3. /\ rlPlanned' /\ UNCHANGED <<rlUser, rlOwner, rlCancelled, rlStopping, rlDown>>
      /\ ~rlAt("waitL")' /\ ~rlAt("waitM")' /\ ~rlAt("reinstall")'
      /\ \A b : rlLeft(rlTodo', b) => rlLeft(rlTodo, b)
      /\ \A b : b # a /\ rlLeft(rlTodo, b) => rlLeft(rlTodo', b)
    BY <1>1, rlContinued
<1>4. rlTypes' BY <1>2, <1>3 DEF rlIInv, rlTypes
<1>5. rlTicks' BY <1>2, <1>3 DEF rlIInv, rlTicks
<1>6. rlLegacyKept' BY <1>1, <1>2, <1>3 DEF rlIInv, rlLegacyKept
<1>7. rlMultiKept' BY <1>1, <1>2, <1>3 DEF rlIInv, rlMultiKept
<1>8. rlFinal' BY <1>1, <1>2, <1>3 DEF rlIInv, rlFinal
<1>9. rlGone' BY <1>2, <1>3 DEF rlIInv, rlGone
<1> QED BY <1>3, <1>4, <1>5, <1>6, <1>7, <1>8, <1>9 DEF rlIInv
LEMMA rlClearStep == ASSUME rlIInv, awgClearLegacyPolicyOS \/ awgClearMultiPolicyOS PROVE rlIInv'
<1>1. PICK a \in {"clearL", "clearM"}, f \in Families :
        /\ rlAt(a) /\ rlContinue /\ rlKernel' = [rlKernel EXCEPT ![f] = "none"]
        /\ (a = "clearL" <=> f = "legacy") /\ (a = "clearM" <=> f = "multi")
    BY DEF awgClearLegacyPolicyOS, awgClearMultiPolicyOS, Families
<1>2. UNCHANGED <<rlMode, rlRules, rlClient, rlCommitted, rlActive, rlTimer, rlFired, rlLoop, rlPhase>>
    BY DEF awgClearLegacyPolicyOS, awgClearMultiPolicyOS, rlConfig
<1>3. /\ rlPlanned' /\ UNCHANGED <<rlUser, rlOwner, rlCancelled, rlStopping, rlDown>>
      /\ ~rlAt("waitL")' /\ ~rlAt("waitM")' /\ ~rlAt("reinstall")'
      /\ \A b : rlLeft(rlTodo', b) => rlLeft(rlTodo, b)
      /\ \A b : b # a /\ rlLeft(rlTodo, b) => rlLeft(rlTodo', b)
    BY <1>1, rlContinued
<1>4. /\ rlKernel' \in [Families -> {"none", "partial", "full"}]
      /\ rlKernel'[f] = "none" /\ \A g \in Families : g # f => rlKernel'[g] = rlKernel[g]
      /\ "legacy" \in Families /\ "multi" \in Families
    BY <1>1 DEF rlIInv, rlTypes, Families
<1>5. rlTypes' BY <1>2, <1>3, <1>4 DEF rlIInv, rlTypes
<1>6. rlTicks' BY <1>2, <1>3 DEF rlIInv, rlTicks
<1>7. rlLegacyKept' BY <1>1, <1>2, <1>3, <1>4 DEF rlIInv, rlLegacyKept
<1>8. rlMultiKept' BY <1>1, <1>2, <1>3, <1>4 DEF rlIInv, rlMultiKept
<1>9. rlFinal' BY <1>1, <1>2, <1>3, <1>4 DEF rlIInv, rlFinal
<1>10. rlGone' BY <1>1, <1>2, <1>3, <1>4 DEF rlIInv, rlGone
<1> QED BY <1>3, <1>5, <1>6, <1>7, <1>8, <1>9, <1>10 DEF rlIInv

-----------------------------------------------------------------------------
\* The multi policy comes back.
LEMMA rlInstallStep == ASSUME rlIInv, awgApplyMultiPolicyWithResolveOS PROVE rlIInv'
<1>1. /\ rlAt("install") /\ rlContinue
      /\ UNCHANGED <<rlMode, rlRules, rlClient, rlCommitted, rlActive, rlTimer, rlFired, rlPhase>>
      /\ \/ /\ ~rlCancelled /\ rlKernel' = [rlKernel EXCEPT !["multi"] = "full"]
            /\ rlLoop' = [rlLoop EXCEPT !["M"] = [st |-> "idle", stop |-> FALSE]]
         \/ ~rlCancelled /\ rlKernel' = [rlKernel EXCEPT !["multi"] = "partial"] /\ rlLoop' = rlLoop
         \/ rlKernel' = rlKernel /\ rlLoop' = rlLoop
    BY DEF awgApplyMultiPolicyWithResolveOS, rlConfig
<1>2. rlLoop \in [RefreshLoops -> [st : {"none", "idle", "tick"}, stop : BOOLEAN]] BY DEF rlIInv, rlTypes
<1>3. rlKernel \in [Families -> {"none", "partial", "full"}] BY DEF rlIInv, rlTypes
<1>4. /\ rlPlanned' /\ UNCHANGED <<rlUser, rlOwner, rlCancelled, rlStopping, rlDown>>
      /\ ~rlAt("waitL")' /\ ~rlAt("waitM")' /\ ~rlAt("reinstall")'
      /\ \A b : rlLeft(rlTodo', b) => rlLeft(rlTodo, b)
      /\ \A b : b # "install" /\ rlLeft(rlTodo, b) => rlLeft(rlTodo', b)
      /\ rlOwner \notin {"none", "final"} \cup RefreshLoops
    BY <1>1, rlContinued DEF rlFinalSteps
<1>5. /\ rlLoop' \in [RefreshLoops -> [st : {"none", "idle", "tick"}, stop : BOOLEAN]]
      /\ rlKernel' \in [Families -> {"none", "partial", "full"}]
      /\ rlKernel'["legacy"] = rlKernel["legacy"]
      /\ \A l \in LegacyLoops : rlLoop'[l] = rlLoop[l]
      /\ \/ rlLoop'["M"] = rlLoop["M"] /\ rlKernel'["multi"] \in {"partial", rlKernel["multi"]}
         \/ rlLoop'["M"].st = "idle" /\ ~rlLoop'["M"].stop
      /\ rlCancelled => rlKernel' = rlKernel /\ rlLoop' = rlLoop
    <2>1. PICK x : x = [st |-> "idle", stop |-> FALSE] OBVIOUS
    <2>2. x \in [st : {"none", "idle", "tick"}, stop : BOOLEAN] /\ x.st = "idle" /\ ~x.stop BY <2>1
    <2>3. /\ "M" \in RefreshLoops /\ "M" \notin LegacyLoops /\ LegacyLoops \subseteq RefreshLoops
          /\ "multi" \in Families /\ "legacy" \in Families
        BY DEF LegacyLoops, RefreshLoops, Families
    <2>4. CASE ~rlCancelled /\ rlKernel' = [rlKernel EXCEPT !["multi"] = "full"]
               /\ rlLoop' = [rlLoop EXCEPT !["M"] = x]
        BY <1>2, <1>3, <2>2, <2>3, <2>4
    <2>5. CASE ~rlCancelled /\ rlKernel' = [rlKernel EXCEPT !["multi"] = "partial"] /\ rlLoop' = rlLoop
        BY <1>2, <1>3, <2>3, <2>5
    <2>6. CASE rlKernel' = rlKernel /\ rlLoop' = rlLoop BY <1>2, <1>3, <2>3, <2>6
    <2> QED BY <1>1, <2>1, <2>4, <2>5, <2>6
<1>6. rlTypes' BY <1>1, <1>4, <1>5 DEF rlIInv, rlTypes
<1>7. rlTicks'
    <2>1. "M" \in RefreshLoops /\ \A l \in RefreshLoops : l # "M" => l \in LegacyLoops BY DEF RefreshLoops, LegacyLoops
    <2>2. rlLoop'["M"].st # "tick" BY <1>4, <1>5, <2>1 DEF rlIInv, rlTicks
    <2> QED BY <1>4, <1>5, <2>1, <2>2 DEF rlIInv, rlTicks
<1>8. rlLegacyKept' BY <1>1, <1>4, <1>5 DEF rlIInv, rlLegacyKept
<1>9. rlMultiKept' BY <1>1, <1>4, <1>5 DEF rlIInv, rlMultiKept
<1>10. rlFinal' BY <1>4 DEF rlFinal
<1>11. rlGone' BY <1>1, <1>4, <1>5 DEF rlIInv, rlGone
<1> QED BY <1>4, <1>6, <1>7, <1>8, <1>9, <1>10, <1>11 DEF rlIInv
LEMMA rlReinstallStep == ASSUME rlIInv, awgRestoreMultiPolicyOS PROVE rlIInv'
<1>1. /\ rlAt("reinstall")
      /\ UNCHANGED <<rlMode, rlRules, rlClient, rlCommitted, rlActive, rlTimer, rlFired, rlLoop, rlPhase>>
    BY DEF awgRestoreMultiPolicyOS, rlConfig
<1>2. PICK k \in {"partial", "full"} :
        /\ rlKernel' = [rlKernel EXCEPT !["multi"] = k]
        /\ IF k = "full" THEN rlContinue ELSE rlThen(<<>>)
    BY DEF awgRestoreMultiPolicyOS
<1>3. rlKernel \in [Families -> {"none", "partial", "full"}] BY DEF rlIInv, rlTypes
<1>4. /\ rlKernel' \in [Families -> {"none", "partial", "full"}]
      /\ rlKernel'["legacy"] = rlKernel["legacy"] /\ rlKernel'["multi"] = k
    BY <1>2, <1>3 DEF Families
<1>5. /\ rlTodo # <<>> /\ rlLeft(rlTodo, "reinstall") /\ rlOwner # "final" /\ Head(rlTodo) = "reinstall"
    <2>1. rlTodo # <<>> /\ Head(rlTodo) = "reinstall" BY <1>1 DEF rlAt
    <2> QED BY <2>1, rlMeets DEF rlFinalSteps
<1>6. rlLoop["M"].st = "none" \/ ~rlLoop["M"].stop BY <1>1 DEF rlIInv, rlMultiKept
<1>7. /\ rlPlanned' /\ UNCHANGED <<rlUser, rlOwner, rlCancelled, rlStopping, rlDown>>
      /\ ~rlAt("waitL")' /\ ~rlAt("waitM")' /\ ~rlAt("reinstall")'
      /\ k = "full" => rlLeft(rlTodo', "clearM") \/ rlLeft(rlTodo', "startM")
      /\ \A b : rlLeft(rlTodo', b) => rlLeft(rlTodo, b)
    <2>1. CASE k = "full" BY <1>1, <1>2, <2>1, rlContinued
    <2>2. CASE k # "full"
        <3>1. rlThen(<<>>) BY <1>2, <2>2
        <3>2. rlPlanned' /\ UNCHANGED <<rlUser, rlOwner, rlCancelled, rlStopping, rlDown>> /\ rlTodo' = <<>>
            BY <1>1, <3>1, rlReplaced, rlNothing DEF rlFinalSteps
        <3> QED BY <2>2, <3>2, rlNothing DEF rlAt
    <2> QED BY <2>1, <2>2
<1>8. \A b \in {"waitL", "applied", "clearL"} : rlLeft(rlTodo, b) => rlLeft(rlTodo', b) \/ k = "partial"
    <2>1. CASE k = "full" BY <1>1, <1>2, <2>1, rlContinued
    <2> QED BY <1>2, <2>1
<1>9. rlTypes' BY <1>1, <1>4, <1>7 DEF rlIInv, rlTypes
<1>10. rlTicks' BY <1>1, <1>7 DEF rlIInv, rlTicks
<1>11. ~rlLeft(rlTodo, "waitL") /\ ~rlLeft(rlTodo, "applied") /\ ~rlLeft(rlTodo, "clearL")
    <2>1. rlPlan(rlTodo) /\ 1 \in 1..Len(rlTodo) /\ rlTodo[1] = "reinstall"
        <3>1. rlPlan(rlTodo) BY DEF rlIInv, rlPlanned
        <3> QED BY <1>5, <3>1, rlTails
    <2>2. /\ Len(rlTodo) = 4 /\ rlTodo[2] = "stopM" /\ rlTodo[4] = "startM" BY <2>1 DEF rlPlan
    <2>3. rlTodo[3] = "waitM"
        <3>1. PICK j \in 1..Len(rlTodo) : j = 2 BY <2>2
        <3>2. rlTodo[j + 1] = "waitM" BY <2>1, <2>2, <3>1 DEF rlPlan
        <3> QED BY <3>1, <3>2
    <2>4. \A i \in 1..Len(rlTodo) : i = 1 \/ i = 2 \/ i = 3 \/ i = 4 BY <2>2
    <2> QED BY <2>1, <2>2, <2>3, <2>4 DEF rlLeft
<1>12. rlLegacyKept' BY <1>1, <1>4, <1>7, <1>11 DEF rlIInv, rlLegacyKept
<1>13. rlMultiKept' BY <1>1, <1>4, <1>6, <1>7 DEF rlIInv, rlMultiKept
<1>14. rlFinal' BY <1>5, <1>7 DEF rlFinal
<1>15. rlGone' BY <1>5, <1>7 DEF rlIInv, rlGone
<1> QED BY <1>7, <1>9, <1>10, <1>12, <1>13, <1>14, <1>15 DEF rlIInv
LEMMA rlStartMStep == ASSUME rlIInv, awgStartMultiPolicyRefresh PROVE rlIInv'
<1>1. /\ rlAt("startM") /\ rlContinue
      /\ rlLoop' = [rlLoop EXCEPT !["M"] = [st |-> "idle", stop |-> FALSE]]
      /\ UNCHANGED <<rlMode, rlRules, rlClient, rlCommitted, rlActive, rlKernel, rlTimer, rlFired, rlPhase>>
    BY DEF awgStartMultiPolicyRefresh, rlConfig
<1>2. rlLoop \in [RefreshLoops -> [st : {"none", "idle", "tick"}, stop : BOOLEAN]] BY DEF rlIInv, rlTypes
<1>3. /\ rlPlanned' /\ UNCHANGED <<rlUser, rlOwner, rlCancelled, rlStopping, rlDown>>
      /\ ~rlAt("waitL")' /\ ~rlAt("waitM")' /\ ~rlAt("reinstall")'
      /\ \A b : rlLeft(rlTodo', b) => rlLeft(rlTodo, b)
      /\ \A b : b # "startM" /\ rlLeft(rlTodo, b) => rlLeft(rlTodo', b)
      /\ rlOwner \notin {"none", "final"} \cup RefreshLoops /\ rlLeft(rlTodo, "startM")
    BY <1>1, rlContinued DEF rlFinalSteps
<1>4. /\ rlLoop' \in [RefreshLoops -> [st : {"none", "idle", "tick"}, stop : BOOLEAN]]
      /\ \A l \in LegacyLoops : rlLoop'[l] = rlLoop[l]
      /\ rlLoop'["M"].st = "idle" /\ ~rlLoop'["M"].stop
    <2>1. PICK x : x = [st |-> "idle", stop |-> FALSE] OBVIOUS
    <2>2. x \in [st : {"none", "idle", "tick"}, stop : BOOLEAN] /\ x.st = "idle" /\ ~x.stop BY <2>1
    <2> QED BY <1>1, <1>2, <2>1, <2>2 DEF LegacyLoops, RefreshLoops
<1>5. rlTypes' BY <1>1, <1>3, <1>4 DEF rlIInv, rlTypes
<1>6. rlTicks'
    <2>1. \A l \in RefreshLoops : l # "M" => l \in LegacyLoops BY DEF RefreshLoops, LegacyLoops
    <2> QED BY <1>3, <1>4, <2>1 DEF rlIInv, rlTicks
<1>7. rlLegacyKept' BY <1>1, <1>3, <1>4 DEF rlIInv, rlLegacyKept
<1>8. rlMultiKept' BY <1>3, <1>4 DEF rlMultiKept
<1>9. rlFinal' BY <1>3 DEF rlFinal
<1>10. rlGone' BY <1>3 DEF rlIInv, rlGone
<1> QED BY <1>3, <1>5, <1>6, <1>7, <1>8, <1>9, <1>10 DEF rlIInv

-----------------------------------------------------------------------------
\* The user operations.  The legacy loop that an apply or a restore starts.
LEMMA rlStarts ==
    ASSUME NEW loop \in [RefreshLoops -> [st : {"none", "idle", "tick"}, stop : BOOLEAN]],
           NEW g, g = StartLegacyLoop(loop)
    PROVE  /\ g \in [RefreshLoops -> [st : {"none", "idle", "tick"}, stop : BOOLEAN]]
           /\ \A l \in RefreshLoops : g[l].st = loop[l].st \/ (g[l].st = "idle" /\ ~g[l].stop)
           /\ \A l \in RefreshLoops : g[l].st # "none" /\ g[l].stop => loop[l].st # "none"
           /\ g["M"] = loop["M"] \/ (g["M"].st = "idle" /\ ~g["M"].stop)
<1>1. PICK free : free = CHOOSE l \in LegacyLoops : loop[l].st = "none" OBVIOUS
<1>2. g = [l \in RefreshLoops |-> IF l = free THEN [st |-> "idle", stop |-> FALSE]
                         ELSE IF l \in LegacyLoops /\ loop[l].st # "none"
                              THEN [loop[l] EXCEPT !.stop = TRUE] ELSE loop[l]]
    BY <1>1 DEF StartLegacyLoop
<1>3. ASSUME NEW l \in RefreshLoops
      PROVE  /\ g[l] \in [st : {"none", "idle", "tick"}, stop : BOOLEAN]
             /\ g[l].st = loop[l].st \/ (g[l].st = "idle" /\ ~g[l].stop)
             /\ g[l].st # "none" /\ g[l].stop => loop[l].st # "none" \/ g[l] = loop[l]
             /\ l \notin LegacyLoops => g[l] = loop[l] \/ (g[l].st = "idle" /\ ~g[l].stop)
    <2>1. CASE l = free BY <1>2, <2>1
    <2>2. CASE l # free /\ l \in LegacyLoops /\ loop[l].st # "none" BY <1>2, <2>2
    <2>3. CASE l # free /\ ~(l \in LegacyLoops /\ loop[l].st # "none") BY <1>2, <2>3
    <2> QED BY <2>1, <2>2, <2>3
<1>4. "M" \in RefreshLoops /\ "M" \notin LegacyLoops BY DEF RefreshLoops, LegacyLoops
<1>5. g \in [RefreshLoops -> [st : {"none", "idle", "tick"}, stop : BOOLEAN]] BY <1>2, <1>3
<1> QED BY <1>3, <1>4, <1>5
\* A step of the user that leaves the loops and the kernel alone, or gives up the legacy rules.
LEMMA rlUserStep ==
    ASSUME rlIInv, NEW a \in rlLone, rlAt(a), NEW t, rlThen(t), rlPlan(t), rlTypes', UNCHANGED rlLoop,
           t = <<>> \/ Head(t) \notin {"waitL", "waitM"},
           rlKernel' = rlKernel \/ (~rlCancelled /\ rlKernel' = [rlKernel EXCEPT !["legacy"] = "partial"])
                                \/ (~rlCancelled /\ rlActive' /\ rlKernel' = [rlKernel EXCEPT !["legacy"] = "full"]),
           rlActive' = rlActive \/ (~rlCancelled /\ rlActive' = TRUE),
           rlDown => ~rlLeft(t, "reinstall") /\ ~rlLeft(t, "startM")
    PROVE  rlIInv'
<1>1. /\ rlPlanned' /\ rlTodo # <<>> /\ rlTodo' = t
      /\ UNCHANGED <<rlUser, rlOwner, rlCancelled, rlStopping, rlDown>>
      /\ rlOwner \notin {"none", "final"} \cup RefreshLoops
      /\ \A b : rlLeft(rlTodo, b) => b = a
    <2>1. a \notin rlFinalSteps BY DEF rlLone, UserOps, rlFinalSteps
    <2> QED BY <2>1, rlReplaced
<1>2. /\ \A l \in RefreshLoops : rlLoop[l].st = "none" \/ ~rlLoop[l].stop
      /\ rlKernel["legacy"] = "full" => rlActive
      /\ rlKernel["multi"] = "full" => rlLoop["M"].st # "none"
    BY <1>1, rlAlone
<1>3. ~rlAt("waitL")' /\ ~rlAt("waitM")' BY <1>1 DEF rlAt
<1>4. rlKernel'["legacy"] = "full" => rlActive'
    <2>1. rlKernel \in [Families -> {"none", "partial", "full"}] BY DEF rlIInv, rlTypes
    <2>2. CASE rlKernel' = rlKernel BY <1>2, <2>2
    <2>3. CASE rlKernel' = [rlKernel EXCEPT !["legacy"] = "partial"] BY <2>1, <2>3 DEF Families
    <2> QED BY <2>2, <2>3
<1>5. rlKernel'["multi"] = rlKernel["multi"]
    <2>1. rlKernel \in [Families -> {"none", "partial", "full"}] BY DEF rlIInv, rlTypes
    <2> QED BY <2>1 DEF Families
<1>6. rlTicks' BY <1>1 DEF rlIInv, rlTicks
<1>7. rlLegacyKept'
    <2>1. \A l \in LegacyLoops : l \in RefreshLoops BY DEF LegacyLoops, RefreshLoops
    <2>2. \A l \in LegacyLoops : rlLoop[l].st # "none" => rlActive BY <1>2, <2>1 DEF rlIInv, rlLegacyKept
    <2> QED BY <1>2, <1>3, <1>4, <2>1, <2>2 DEF rlLegacyKept
<1>8. rlMultiKept'
    <2>1. "M" \in RefreshLoops BY DEF RefreshLoops
    <2> QED BY <1>2, <1>3, <1>5, <2>1 DEF rlMultiKept
<1>9. rlFinal' BY <1>1 DEF rlFinal
<1>10. rlGone'
    <2>1. rlDown => rlCancelled BY <1>1 DEF rlIInv, rlGone
    <2> QED BY <1>1, <2>1 DEF rlIInv, rlGone
<1> QED BY <1>1, <1>6, <1>7, <1>8, <1>9, <1>10 DEF rlIInv

LEMMA rlApplyStep == ASSUME rlIInv, AWG2ApplyRouting PROVE rlIInv'
<1> USE DEF rlConfig, rlRuntime
<1>0. rlAt("apply") /\ "apply" \in rlLone BY DEF AWG2ApplyRouting, rlLone, UserOps
<1>1. CASE /\ rlThen(TeardownSteps \o <<"applied">>)
           /\ UNCHANGED <<rlConfig, rlRuntime, rlPhase>>
    <2>1. /\ rlPlan(TeardownSteps \o <<"applied">>) /\ Head(TeardownSteps \o <<"applied">>) = "stopM"
          /\ ~rlLeft(TeardownSteps \o <<"applied">>, "reinstall") /\ ~rlLeft(TeardownSteps \o <<"applied">>, "startM")
        BY rlJoins DEF rlFinalSteps
    <2>2. rlTypes' BY <1>1 DEF rlIInv, rlTypes, rlThen
    <2>3. PICK t : t = TeardownSteps \o <<"applied">> OBVIOUS
    <2> QED BY <1>0, <1>1, <2>1, <2>2, <2>3, rlUserStep
<1>2. CASE /\ rlClient' = (rlClient \/ ~rlCancelled) /\ rlThen(<<>>)
           /\ \E left \in {"none", "partial"} :
                /\ rlCancelled => left = "none"
                /\ rlKernel' = IF left = "none" THEN rlKernel
                               ELSE [rlKernel EXCEPT !["legacy"] = "partial"]
           /\ UNCHANGED <<rlMode, rlRules, rlCommitted, rlActive, rlTimer,
                          rlFired, rlLoop, rlPhase>>
    <2>1. rlKernel' = rlKernel \/ (~rlCancelled /\ rlKernel' = [rlKernel EXCEPT !["legacy"] = "partial"]) BY <1>2
    <2>2. rlClient' \in BOOLEAN BY <1>2
    <2>3. rlKernel' \in [Families -> {"none", "partial", "full"}] BY <2>1 DEF rlIInv, rlTypes
    <2>4. rlTypes' BY <1>2, <2>2, <2>3 DEF rlIInv, rlTypes, rlThen
    <2>5. PICK t : t = <<>> OBVIOUS
    <2> QED BY <1>0, <1>2, <2>1, <2>4, <2>5, rlUserStep, rlNothing
<1>3. CASE /\ ~rlCancelled /\ rlClient' = TRUE
           /\ rlKernel' = [rlKernel EXCEPT !["legacy"] = "full"]
           /\ awgArmRollback /\ rlLoop' = StartLegacyLoop(rlLoop) /\ rlPhase' = "applied"
           /\ rlThen(<<"applied">>)
           /\ UNCHANGED <<rlMode, rlRules, rlCommitted, rlFired>>
    <2>1. /\ rlPlanned' /\ rlTodo # <<>> /\ rlTodo' = <<"applied">>
          /\ UNCHANGED <<rlUser, rlOwner, rlCancelled, rlStopping, rlDown>>
          /\ rlOwner \notin {"none", "final"} \cup RefreshLoops
          /\ \A l \in RefreshLoops : rlLoop[l].st \in {"none", "idle"}
          /\ \A b : rlLeft(rlTodo, b) => b \in rlLone
        <3>1. "apply" \notin rlFinalSteps BY DEF rlFinalSteps
        <3> QED BY <1>0, <1>3, <3>1, rlReplaced, rlOnes
    <2>2. /\ \A b : rlLeft(rlTodo', b) <=> b = "applied"
          /\ ~rlAt("waitL")' /\ ~rlAt("waitM")' /\ ~rlAt("reinstall")'
        BY <2>1, rlOnes DEF rlAt
    <2>3. /\ \A l \in RefreshLoops : rlLoop[l].st = "none" \/ ~rlLoop[l].stop
          /\ rlKernel["multi"] = "full" => rlLoop["M"].st # "none"
        BY <2>1, rlAlone
    <2>4. /\ rlKernel \in [Families -> {"none", "partial", "full"}]
          /\ rlLoop \in [RefreshLoops -> [st : {"none", "idle", "tick"}, stop : BOOLEAN]]
        BY DEF rlIInv, rlTypes
    <2>5. /\ rlKernel' \in [Families -> {"none", "partial", "full"}]
          /\ rlKernel'["legacy"] = "full" /\ rlKernel'["multi"] = rlKernel["multi"]
        BY <1>3, <2>4 DEF Families
    <2>6. PICK g : g = rlLoop' OBVIOUS
    <2>7. /\ g \in [RefreshLoops -> [st : {"none", "idle", "tick"}, stop : BOOLEAN]]
          /\ \A l \in RefreshLoops : g[l].st = rlLoop[l].st \/ (g[l].st = "idle" /\ ~g[l].stop)
          /\ g["M"] = rlLoop["M"] \/ (g["M"].st = "idle" /\ ~g["M"].stop)
        BY <1>3, <2>4, <2>6, rlStarts
    <2>8. rlActive' = TRUE /\ rlTimer' = TRUE BY <1>3 DEF awgArmRollback
    <2>9. rlTypes' BY <1>3, <2>1, <2>5, <2>6, <2>7, <2>8 DEF rlIInv, rlTypes
    <2>10. rlTicks' BY <2>1, <2>6, <2>7 DEF rlIInv, rlTicks
    <2>11. rlLegacyKept' BY <2>2, <2>8 DEF rlLegacyKept
    <2>12. rlMultiKept'
        <3>1. "M" \in RefreshLoops BY DEF RefreshLoops
        <3>2. g["M"].st = "none" \/ ~g["M"].stop BY <2>3, <2>7, <3>1
        <3>3. rlKernel["multi"] = "full" => g["M"].st # "none" BY <2>3, <2>7, <3>1
        <3> QED BY <2>2, <2>5, <2>6, <3>2, <3>3 DEF rlMultiKept
    <2>13. rlFinal' BY <2>1 DEF rlFinal
    <2>14. rlGone'
        <3>1. ~rlDown BY <1>3, <2>1 DEF rlIInv, rlGone
        <3> QED BY <2>1, <3>1 DEF rlGone
    <2> QED BY <2>1, <2>9, <2>10, <2>11, <2>12, <2>13, <2>14 DEF rlIInv
<1> QED BY <1>1, <1>2, <1>3 DEF AWG2ApplyRouting
LEMMA rlAppliedStep == ASSUME rlIInv, ApplyCommitted PROVE rlIInv'
<1>1. /\ rlAt("applied") /\ rlCommitted' = (rlMode # "off") /\ rlThen(RebuildSteps)
      /\ UNCHANGED <<rlMode, rlRules, rlClient, rlActive, rlKernel, rlTimer, rlFired, rlLoop, rlPhase>>
    BY DEF ApplyCommitted, rlRuntime
<1>2. /\ rlPlanned' /\ rlTodo # <<>> /\ rlTodo' = RebuildSteps
      /\ UNCHANGED <<rlUser, rlOwner, rlCancelled, rlStopping, rlDown>>
      /\ rlOwner \notin {"none", "final"} \cup RefreshLoops
    <2>1. "applied" \notin rlFinalSteps BY DEF rlFinalSteps
    <2> QED BY <1>1, <2>1, rlReplaced, rlRebuilds
<1>3. /\ \A b : rlLeft(rlTodo', b) <=> b \in rlFinalSteps \cup {"install"}
      /\ ~rlAt("waitL")' /\ ~rlAt("waitM")' /\ ~rlAt("reinstall")'
    BY <1>2, rlRebuilds DEF rlAt
<1>4. /\ rlLeft(rlTodo', "waitL") /\ rlLeft(rlTodo', "clearL") /\ rlLeft(rlTodo', "waitM") /\ rlLeft(rlTodo', "clearM")
      /\ ~rlLeft(rlTodo', "reinstall") /\ ~rlLeft(rlTodo', "startM")
    BY <1>3 DEF rlFinalSteps
<1>5. rlTypes'
    <2>1. rlCommitted' \in BOOLEAN BY <1>1
    <2> QED BY <1>1, <1>2, <2>1 DEF rlIInv, rlTypes
<1>6. rlTicks' BY <1>1, <1>2 DEF rlIInv, rlTicks
<1>7. rlLegacyKept' BY <1>1, <1>3, <1>4 DEF rlIInv, rlLegacyKept
<1>8. rlMultiKept' BY <1>1, <1>3, <1>4 DEF rlIInv, rlMultiKept
<1>9. rlFinal' BY <1>2 DEF rlFinal
<1>10. rlGone' BY <1>1, <1>2, <1>4 DEF rlIInv, rlGone
<1> QED BY <1>2, <1>5, <1>6, <1>7, <1>8, <1>9, <1>10 DEF rlIInv
\* Confirming, removing, taking the tunnel down or up, editing.
LEMMA rlEditStep ==
    ASSUME rlIInv, AWG2CommitRouting \/ AWG2TeardownRouting \/ AWG2ClientDown \/ AWG2ClientUp \/ AWG2SetRouting
    PROVE  rlIInv'
<1> USE DEF rlConfig, rlRuntime
<1>1. PICK a \in rlLone, t \in {<<>>, RebuildSteps, TeardownSteps \o RebuildSteps, <<"restore">>} :
        rlAt(a) /\ rlThen(t)
    <2> USE DEF rlLone, UserOps
    <2>1. CASE AWG2CommitRouting BY <2>1 DEF AWG2CommitRouting
    <2>2. CASE AWG2TeardownRouting BY <2>2 DEF AWG2TeardownRouting
    <2>3. CASE AWG2ClientDown BY <2>3 DEF AWG2ClientDown
    <2>4. CASE AWG2ClientUp BY <2>4 DEF AWG2ClientUp
    <2>5. CASE AWG2SetRouting
        <3>1. /\ rlAt("set")
              /\ rlThen(IF ~rlCommitted THEN <<>>
                    ELSE IF rlMode' = "off" THEN TeardownSteps \o RebuildSteps ELSE RebuildSteps)
            BY <2>5 DEF AWG2SetRouting
        <3> QED BY <3>1
    <2> QED BY <2>1, <2>2, <2>3, <2>4, <2>5
<1>2. UNCHANGED <<rlActive, rlKernel, rlFired, rlLoop>>
    BY DEF AWG2CommitRouting, AWG2TeardownRouting, AWG2ClientDown, AWG2ClientUp, AWG2SetRouting
<1>3. UNCHANGED <<rlUser, rlOwner, rlCancelled, rlStopping, rlDown>> BY <1>1 DEF rlThen
<1>4. rlTypes'
    <2>1. /\ rlMode' \in RoutingModes /\ rlRules' \in BOOLEAN /\ rlTimer' \in BOOLEAN
          /\ rlPhase' \in {"none", "applied", "confirmed"}
        BY DEF rlIInv, rlTypes, AWG2CommitRouting, AWG2TeardownRouting, AWG2ClientDown, AWG2ClientUp, AWG2SetRouting
    <2>2. rlClient' \in BOOLEAN
        <3>1. rlClient \in BOOLEAN BY DEF rlIInv, rlTypes
        <3>2. rlClient' = rlClient \/ rlClient' = FALSE \/ rlClient' = TRUE \/ rlClient' = (rlClient \/ ~rlCancelled)
            BY DEF AWG2CommitRouting, AWG2TeardownRouting, AWG2ClientDown, AWG2ClientUp, AWG2SetRouting
        <3>3. (rlClient \/ ~rlCancelled) \in BOOLEAN OBVIOUS
        <3> QED BY <3>1, <3>2, <3>3
    <2>3. rlCommitted' \in BOOLEAN
        <3>1. rlCommitted \in BOOLEAN BY DEF rlIInv, rlTypes
        <3>2. rlCommitted' = rlCommitted \/ rlCommitted' = FALSE \/ rlCommitted' = TRUE
              \/ rlCommitted' = (rlCommitted /\ rlMode' # "off")
            BY DEF AWG2CommitRouting, AWG2TeardownRouting, AWG2ClientDown, AWG2ClientUp, AWG2SetRouting
        <3>3. (rlCommitted /\ rlMode' # "off") \in BOOLEAN OBVIOUS
        <3> QED BY <3>1, <3>2, <3>3
    <2> QED BY <1>2, <1>3, <2>1, <2>2, <2>3 DEF rlIInv, rlTypes
<1>5. /\ rlPlan(t) /\ (t = <<>> \/ Head(t) \notin {"waitL", "waitM"})
      /\ ~rlLeft(t, "reinstall") /\ ~rlLeft(t, "startM")
    <2>1. CASE t = <<>> BY <2>1, rlNothing
    <2>2. CASE t = RebuildSteps BY <2>2, rlRebuilds DEF rlFinalSteps
    <2>3. CASE t = TeardownSteps \o RebuildSteps
        <3>1. /\ rlPlan(TeardownSteps \o RebuildSteps) /\ Head(TeardownSteps \o RebuildSteps) = "stopM"
              /\ ~rlLeft(TeardownSteps \o RebuildSteps, "reinstall")
              /\ ~rlLeft(TeardownSteps \o RebuildSteps, "startM")
            BY rlJoins DEF rlFinalSteps
        <3> QED BY <2>3, <3>1
    <2>4. CASE t = <<"restore">> BY <2>4, rlOnes DEF rlLone
    <2> QED BY <1>1, <2>1, <2>2, <2>3, <2>4
<1> QED BY <1>1, <1>2, <1>4, <1>5, rlUserStep
LEMMA rlRestoreStep == ASSUME rlIInv, awgRestoreClientRoutesOS PROVE rlIInv'
<1> USE DEF rlConfig, rlRuntime
<1>1. /\ rlAt("restore") /\ "restore" \in rlLone
      /\ UNCHANGED <<rlMode, rlRules, rlClient, rlCommitted, rlPhase>>
    BY DEF awgRestoreClientRoutesOS, rlLone
<1>2. Tail(rlTodo) = <<>> /\ rlPlan(<<>>) /\ \A b : ~rlLeft(<<>>, b)
    <2>1. rlTodo # <<>> /\ Head(rlTodo) = "restore" /\ rlPlan(rlTodo) BY <1>1 DEF rlAt, rlIInv, rlPlanned
    <2> QED BY <1>1, <2>1, rlTails, rlNothing
<1>3. CASE rlContinue /\ UNCHANGED rlRuntime
    <2>1. rlThen(<<>>) BY <1>2, <1>3 DEF rlContinue
    <2>2. rlTypes' BY <1>1, <1>3, <2>1 DEF rlIInv, rlTypes, rlThen
    <2>3. PICK t : t = <<>> OBVIOUS
    <2> QED BY <1>1, <1>2, <1>3, <2>1, <2>2, <2>3, rlUserStep
<1>4. CASE ~rlCancelled /\ rlThen(RestoreSteps) /\ UNCHANGED rlRuntime
    <2>1. rlPlan(RestoreSteps) /\ Head(RestoreSteps) \notin {"waitL", "waitM"} BY rlRestores
    <2>2. rlTypes' BY <1>1, <1>4 DEF rlIInv, rlTypes, rlThen
    <2>3. ~rlDown
        <3>1. rlOwner # "none" BY <1>1, rlMeets DEF rlAt
        <3> QED BY <1>4, <3>1 DEF rlIInv, rlGone
    <2>4. PICK t : t = RestoreSteps OBVIOUS
    <2> QED BY <1>1, <1>4, <2>1, <2>2, <2>3, <2>4, rlUserStep
<1>5. CASE /\ ~rlCancelled /\ rlContinue /\ rlKernel' = [rlKernel EXCEPT !["legacy"] = "partial"]
           /\ rlActive' \in {rlActive, TRUE} /\ UNCHANGED <<rlLoop, rlTimer, rlFired>>
    <2>1. rlThen(<<>>) BY <1>2, <1>5 DEF rlContinue
    <2>2. rlKernel' \in [Families -> {"none", "partial", "full"}] BY <1>5 DEF rlIInv, rlTypes
    <2>3. rlActive' = rlActive \/ rlActive' = TRUE BY <1>5
    <2>4. rlTypes' BY <1>1, <1>5, <2>1, <2>2, <2>3, ZenonT(60) DEF rlIInv, rlTypes, rlThen
    <2>5. PICK t : t = <<>> OBVIOUS
    <2> QED BY <1>1, <1>2, <1>5, <2>1, <2>3, <2>4, <2>5, rlUserStep
<1>6. CASE /\ ~rlCancelled /\ rlContinue /\ rlKernel' = [rlKernel EXCEPT !["legacy"] = "full"]
           /\ rlActive' = TRUE /\ rlLoop' = rlLoop /\ UNCHANGED <<rlTimer, rlFired>>
    <2>1. rlThen(<<>>) BY <1>2, <1>6 DEF rlContinue
    <2>2. rlKernel' \in [Families -> {"none", "partial", "full"}] BY <1>6 DEF rlIInv, rlTypes
    <2>4. rlTypes' BY <1>1, <1>6, <2>1, <2>2 DEF rlIInv, rlTypes, rlThen
    <2>5. PICK t : t = <<>> OBVIOUS
    <2> QED BY <1>1, <1>2, <1>6, <2>1, <2>4, <2>5, rlUserStep
<1>7. CASE /\ ~rlCancelled /\ rlContinue /\ rlKernel' = [rlKernel EXCEPT !["legacy"] = "full"]
           /\ rlActive' = TRUE /\ UNCHANGED <<rlTimer, rlFired>>
           /\ ~\E l \in LegacyLoops : rlLoop[l].st # "none" /\ ~rlLoop[l].stop
           /\ rlLoop' = StartLegacyLoop(rlLoop)
    <2>1. /\ rlPlanned' /\ rlTodo' = <<>>
          /\ UNCHANGED <<rlUser, rlOwner, rlCancelled, rlStopping, rlDown>>
          /\ rlOwner \notin {"none", "final"} \cup RefreshLoops
          /\ \A l \in RefreshLoops : rlLoop[l].st \in {"none", "idle"}
          /\ \A b : rlLeft(rlTodo, b) => b \in rlLone
        <3>1. "restore" \notin rlFinalSteps BY DEF rlFinalSteps
        <3>2. rlThen(<<>>) BY <1>2, <1>7 DEF rlContinue
        <3> QED BY <1>1, <1>2, <3>1, <3>2, rlReplaced
    <2>2. ~rlAt("waitL")' /\ ~rlAt("waitM")' /\ ~rlAt("reinstall")' BY <2>1 DEF rlAt
    <2>3. /\ \A l \in RefreshLoops : rlLoop[l].st = "none" \/ ~rlLoop[l].stop
          /\ rlKernel["multi"] = "full" => rlLoop["M"].st # "none"
        BY <2>1, rlAlone
    <2>4. /\ rlKernel \in [Families -> {"none", "partial", "full"}]
          /\ rlLoop \in [RefreshLoops -> [st : {"none", "idle", "tick"}, stop : BOOLEAN]]
        BY DEF rlIInv, rlTypes
    <2>5. /\ rlKernel' \in [Families -> {"none", "partial", "full"}]
          /\ rlKernel'["multi"] = rlKernel["multi"]
        BY <1>7, <2>4 DEF Families
    <2>6. PICK g : g = rlLoop' OBVIOUS
    <2>7. /\ g \in [RefreshLoops -> [st : {"none", "idle", "tick"}, stop : BOOLEAN]]
          /\ \A l \in RefreshLoops : g[l].st = rlLoop[l].st \/ (g[l].st = "idle" /\ ~g[l].stop)
          /\ \A l \in RefreshLoops : g[l].st # "none" /\ g[l].stop => rlLoop[l].st # "none"
          /\ g["M"] = rlLoop["M"] \/ (g["M"].st = "idle" /\ ~g["M"].stop)
        BY <1>7, <2>4, <2>6, rlStarts
    <2>8. \A l \in LegacyLoops : l \in RefreshLoops BY DEF LegacyLoops, RefreshLoops
    <2>9. rlTypes' BY <1>1, <1>7, <2>1, <2>5, <2>6, <2>7 DEF rlIInv, rlTypes
    <2>10. rlTicks' BY <2>1, <2>6, <2>7 DEF rlIInv, rlTicks
    <2>11. rlLegacyKept'
        <3>1. \A l \in LegacyLoops : rlLoop[l].st = "none" BY <1>7, <2>3, <2>8
        <3>2. \A l \in LegacyLoops : g[l].st # "none" => ~g[l].stop BY <2>7, <2>8, <3>1
        <3> QED BY <1>7, <2>2, <2>6, <3>2 DEF rlLegacyKept
    <2>12. rlMultiKept'
        <3>1. "M" \in RefreshLoops BY DEF RefreshLoops
        <3>2. g["M"].st = "none" \/ ~g["M"].stop BY <2>3, <2>7, <3>1
        <3>3. rlKernel["multi"] = "full" => g["M"].st # "none" BY <2>3, <2>7, <3>1
        <3> QED BY <2>2, <2>5, <2>6, <3>2, <3>3 DEF rlMultiKept
    <2>13. rlFinal' BY <2>1 DEF rlFinal
    <2>14. rlGone'
        <3>1. ~rlDown BY <1>7, <2>1 DEF rlIInv, rlGone
        <3> QED BY <2>1, <3>1 DEF rlGone
    <2> QED BY <2>1, <2>9, <2>10, <2>11, <2>12, <2>13, <2>14 DEF rlIInv
<1> QED BY <1>3, <1>4, <1>5, <1>6, <1>7 DEF awgRestoreClientRoutesOS

-----------------------------------------------------------------------------
\* Taking and leaving the lock.
\* Nobody owns ops: no loop waits to be joined, and no rule to be removed.
LEMMA rlQuiet ==
    ASSUME rlIInv, rlOwner \in {"none"} \cup RefreshLoops
    PROVE  /\ rlTodo = <<>> /\ \A b : ~rlLeft(rlTodo, b)
           /\ \A l \in RefreshLoops : rlLoop[l].st = "none" \/ ~rlLoop[l].stop
           /\ rlKernel["legacy"] = "full" => rlActive
           /\ rlKernel["multi"] = "full" => rlLoop["M"].st # "none"
           /\ \A l \in LegacyLoops : rlLoop[l].st # "none" => rlActive
<1>1. rlTodo = <<>> /\ \A b : ~rlLeft(rlTodo, b)
    <2>1. rlTodo = <<>> BY DEF rlIInv, rlPlanned
    <2> QED BY <2>1, rlNothing
<1>2. \A l \in RefreshLoops : rlLoop[l].st = "none" \/ ~rlLoop[l].stop
    BY <1>1, rlAlone
<1>3. (rlKernel["legacy"] = "full" => rlActive) /\ (rlKernel["multi"] = "full" => rlLoop["M"].st # "none")
    BY <1>1, rlAlone
<1>4. \A l \in LegacyLoops : l \in RefreshLoops BY DEF LegacyLoops, RefreshLoops
<1>5. \A l \in LegacyLoops : rlLoop[l].st # "none" => rlActive BY <1>2, <1>4 DEF rlIInv, rlLegacyKept
<1> QED BY <1>1, <1>2, <1>3, <1>5
\* An operation takes the free lock with its list.
LEMMA rlTakes ==
    ASSUME rlIInv, rlTypes', NEW who, NEW t, clientOpLocked(who, t), who \notin {"none"} \cup RefreshLoops,
           rlPlan(t), ~rlLeft(t, "reinstall"), ~rlLeft(t, "startM"),
           t = <<>> \/ Head(t) \notin {"waitL", "waitM", "reinstall"},
           UNCHANGED <<rlActive, rlKernel, rlLoop, rlStopping, rlDown>>,
           who = "final" => t = TeardownSteps /\ rlStopping /\ ~rlDown
    PROVE  rlIInv'
<1>1. rlOwner = "none" /\ rlOwner' = who /\ rlTodo' = t /\ rlCancelled' = rlStopping BY DEF clientOpLocked
<1>2. /\ \A l \in RefreshLoops : rlLoop[l].st = "none" \/ ~rlLoop[l].stop
      /\ rlKernel["legacy"] = "full" => rlActive
      /\ rlKernel["multi"] = "full" => rlLoop["M"].st # "none"
      /\ \A l \in LegacyLoops : rlLoop[l].st # "none" => rlActive
    BY <1>1, rlQuiet
<1>3. ~rlAt("waitL")' /\ ~rlAt("waitM")' /\ ~rlAt("reinstall")' BY <1>1 DEF rlAt
<1>4. \A l \in LegacyLoops : l \in RefreshLoops BY DEF LegacyLoops, RefreshLoops
<1>5. "M" \in RefreshLoops BY DEF RefreshLoops
<1>6. rlPlanned' BY <1>1, rlTeardowns DEF rlPlanned
<1>7. rlTicks' BY <1>1 DEF rlIInv, rlTicks, RefreshLoops
<1>8. rlLegacyKept' BY <1>2, <1>3, <1>4 DEF rlLegacyKept
<1>9. rlMultiKept' BY <1>2, <1>3, <1>5 DEF rlMultiKept
<1>10. rlFinal'
    <2>1. /\ rlLeft(TeardownSteps, "waitM") /\ rlLeft(TeardownSteps, "clearM")
          /\ rlLeft(TeardownSteps, "waitL") /\ rlLeft(TeardownSteps, "clearL")
        BY rlTeardowns DEF rlFinalSteps
    <2> QED BY <1>1, <2>1 DEF rlFinal
<1>11. rlGone' BY <1>1 DEF rlIInv, rlGone
<1> QED BY <1>6, <1>7, <1>8, <1>9, <1>10, <1>11 DEF rlIInv
\* The same state with another user waiting, another timer or a cancelled owner.
LEMMA rlWaits ==
    ASSUME rlIInv, rlTypes', UNCHANGED <<rlActive, rlKernel, rlLoop, rlOwner, rlTodo, rlDown>>,
           rlCancelled => rlCancelled' , rlStopping => rlStopping'
    PROVE  rlIInv'
<1>1. rlPlanned' BY DEF rlIInv, rlPlanned
<1>2. rlTicks' BY DEF rlIInv, rlTicks
<1>3. rlLegacyKept' BY DEF rlIInv, rlLegacyKept, rlAt
<1>4. rlMultiKept' BY DEF rlIInv, rlMultiKept, rlAt
<1>5. rlFinal' BY DEF rlIInv, rlFinal
<1>6. rlGone' BY DEF rlIInv, rlGone
<1> QED BY <1>1, <1>2, <1>3, <1>4, <1>5, <1>6 DEF rlIInv
LEMMA rlLockStep ==
    ASSUME rlIInv,
           (\E k \in UserOps : lockClientOps(k) \/ OpBegins(k)) \/ RollbackFires \/ Rollback
             \/ SupervisorRestore \/ StopAWG \/ TeardownRouting
    PROVE  rlIInv'
<1> USE DEF rlConfig, rlRuntime, rlLock
<1>1. ASSUME NEW k \in UserOps, lockClientOps(k) PROVE rlIInv'
    <2>1. rlCancelled' \in BOOLEAN /\ (rlCancelled => rlCancelled')
        <3>1. rlCancelled' = (rlCancelled \/ (k = "clientDown" /\ rlOwner # "none")) BY <1>1 DEF lockClientOps
        <3> QED BY <3>1
    <2>2. rlTypes' BY <1>1, <2>1 DEF rlIInv, rlTypes, lockClientOps
    <2> QED BY <1>1, <2>1, <2>2, rlWaits DEF lockClientOps
<1>2. ASSUME NEW k \in UserOps, OpBegins(k) PROVE rlIInv'
    <2>1. /\ clientOpLocked(k, <<k>>) /\ rlUser' = "none"
          /\ UNCHANGED <<rlMode, rlRules, rlClient, rlCommitted, rlActive, rlKernel, rlTimer, rlFired, rlLoop,
                         rlStopping, rlDown, rlPhase>>
        BY <1>2 DEF OpBegins
    <2>2. rlOwner' = k /\ rlCancelled' = rlStopping BY <2>1 DEF clientOpLocked
    <2>3. k \in OpsOwners /\ k \notin {"none", "final"} \cup RefreshLoops /\ k \in rlLone
        BY DEF UserOps, OpsOwners, RefreshLoops, rlLone
    <2>4. rlTypes' BY <2>1, <2>2, <2>3 DEF rlIInv, rlTypes
    <2>5. PICK t : t = <<k>> OBVIOUS
    <2>6. rlPlan(t) /\ ~rlLeft(t, "reinstall") /\ ~rlLeft(t, "startM") /\ Head(t) = k
        BY <2>3, <2>5, rlOnes DEF rlLone, UserOps
    <2>7. k \notin {"waitL", "waitM", "reinstall"} BY DEF UserOps
    <2> QED BY <2>1, <2>3, <2>4, <2>5, <2>6, <2>7, rlTakes
<1>3. CASE RollbackFires
    <2>1. rlTypes' BY <1>3 DEF rlIInv, rlTypes, RollbackFires
    <2> QED BY <1>3, <2>1, rlWaits DEF RollbackFires
<1>4. CASE Rollback
    <2>1. PICK t \in {<<>>, TeardownSteps} : clientOpLocked("rollback", t)
        BY <1>4 DEF Rollback
    <2>2. rlOwner' = "rollback" /\ rlCancelled' = rlStopping BY <2>1 DEF clientOpLocked
    <2>3. "rollback" \in OpsOwners /\ "rollback" \notin {"none"} \cup RefreshLoops BY DEF OpsOwners, RefreshLoops
    <2>4. rlTypes' BY <1>4, <2>2, <2>3 DEF rlIInv, rlTypes, Rollback
    <2>5. rlPlan(t) /\ ~rlLeft(t, "reinstall") /\ ~rlLeft(t, "startM") /\ (t = <<>> \/ Head(t) = "stopM")
        BY <2>1, rlNothing, rlTeardowns DEF rlFinalSteps
    <2>6. UNCHANGED <<rlActive, rlKernel, rlLoop, rlStopping, rlDown>> BY <1>4 DEF Rollback
    <2> QED BY <2>1, <2>3, <2>4, <2>5, <2>6, rlTakes
<1>5. CASE SupervisorRestore
    <2>1. /\ clientOpLocked("watch", <<"restore">>)
          /\ UNCHANGED <<rlMode, rlRules, rlClient, rlCommitted, rlActive, rlKernel, rlTimer, rlFired, rlLoop,
                         rlUser, rlStopping, rlDown, rlPhase>>
        BY <1>5 DEF SupervisorRestore
    <2>2. rlOwner' = "watch" /\ rlCancelled' = rlStopping BY <2>1 DEF clientOpLocked
    <2>3. "watch" \in OpsOwners /\ "watch" \notin {"none"} \cup RefreshLoops BY DEF OpsOwners, RefreshLoops
    <2>4. rlTypes' BY <2>1, <2>2, <2>3 DEF rlIInv, rlTypes
    <2>5. PICK t : t = <<"restore">> OBVIOUS
    <2>6. rlPlan(t) /\ ~rlLeft(t, "reinstall") /\ ~rlLeft(t, "startM") /\ Head(t) = "restore"
        BY <2>5, rlOnes DEF rlLone
    <2> QED BY <2>1, <2>3, <2>4, <2>5, <2>6, rlTakes
<1>6. CASE StopAWG
    <2>1. rlCancelled' \in BOOLEAN /\ (rlOwner # "none" => rlCancelled')
        <3>1. rlCancelled' = (rlOwner # "none") BY <1>6 DEF StopAWG
        <3> QED BY <3>1
    <2>2. /\ rlStopping' = TRUE /\ ~rlStopping
          /\ UNCHANGED <<rlMode, rlRules, rlClient, rlCommitted, rlActive, rlKernel, rlTimer, rlFired, rlLoop,
                         rlUser, rlOwner, rlTodo, rlDown, rlPhase>>
        BY <1>6 DEF StopAWG
    <2>3. rlTypes' BY <2>1, <2>2 DEF rlIInv, rlTypes
    <2>4. rlPlanned' BY <2>2 DEF rlIInv, rlPlanned
    <2>5. rlTicks' BY <2>2 DEF rlIInv, rlTicks
    <2>6. rlLegacyKept' BY <2>2 DEF rlIInv, rlLegacyKept, rlAt
    <2>7. rlMultiKept' BY <2>2 DEF rlIInv, rlMultiKept, rlAt
    <2>8. rlFinal' BY <2>2 DEF rlIInv, rlFinal
    <2>9. rlGone' BY <2>2 DEF rlIInv, rlGone
    <2> QED BY <2>3, <2>4, <2>5, <2>6, <2>7, <2>8, <2>9 DEF rlIInv
<1>7. CASE TeardownRouting
    <2>1. /\ rlStopping /\ ~rlDown /\ clientOpLocked("final", TeardownSteps)
          /\ UNCHANGED <<rlMode, rlRules, rlClient, rlCommitted, rlActive, rlKernel, rlTimer, rlFired, rlLoop,
                         rlUser, rlStopping, rlDown, rlPhase>>
        BY <1>7 DEF TeardownRouting
    <2>2. rlOwner' = "final" /\ rlCancelled' = rlStopping BY <2>1 DEF clientOpLocked
    <2>3. "final" \in OpsOwners /\ "final" \notin {"none"} \cup RefreshLoops BY DEF OpsOwners, RefreshLoops
    <2>4. rlTypes' BY <2>1, <2>2, <2>3 DEF rlIInv, rlTypes
    <2>5. PICK t : t = TeardownSteps OBVIOUS
    <2>6. rlPlan(t) /\ ~rlLeft(t, "reinstall") /\ ~rlLeft(t, "startM") /\ Head(t) = "stopM"
        BY <2>5, rlTeardowns DEF rlFinalSteps
    <2> QED BY <2>1, <2>3, <2>4, <2>5, <2>6, rlTakes
<1> QED BY <1>1, <1>2, <1>3, <1>4, <1>5, <1>6, <1>7
LEMMA rlEndStep == ASSUME rlIInv, OpEnds PROVE rlIInv'
<1>1. /\ rlOwner \notin {"none"} \cup RefreshLoops /\ rlTodo = <<>> /\ rlOwner' = "none" /\ rlCancelled' = FALSE
      /\ rlDown' = (rlDown \/ rlOwner = "final")
      /\ UNCHANGED <<rlMode, rlRules, rlClient, rlCommitted, rlActive, rlKernel, rlTimer, rlFired, rlLoop,
                     rlUser, rlTodo, rlStopping, rlPhase>>
    BY DEF OpEnds, rlConfig, rlRuntime
<1>2. \A b : ~rlLeft(rlTodo, b) BY <1>1, rlNothing
<1>3. rlDown' \in BOOLEAN BY <1>1
<1>4. rlTypes' BY <1>1, <1>3 DEF rlIInv, rlTypes, OpsOwners
<1>5. rlPlanned' BY <1>1, <1>2 DEF rlIInv, rlPlanned
<1>6. rlTicks' BY <1>1 DEF rlIInv, rlTicks, RefreshLoops
<1>7. rlLegacyKept' BY <1>1 DEF rlIInv, rlLegacyKept, rlAt
<1>8. rlMultiKept' BY <1>1 DEF rlIInv, rlMultiKept, rlAt
<1>9. rlFinal' BY <1>1 DEF rlFinal
<1>10. rlGone'
    <2>1. CASE rlDown BY <1>1, <1>2, <2>1 DEF rlIInv, rlGone
    <2>2. CASE rlOwner = "final"
        <3>1. /\ rlStopping /\ rlLoop["M"].st = "none" /\ rlKernel["multi"] = "none"
              /\ \A l \in LegacyLoops : rlLoop[l].st = "none"
              /\ rlKernel["legacy"] = "none"
            BY <1>2, <2>2 DEF rlIInv, rlFinal
        <3>2. \A l \in RefreshLoops : rlLoop[l].st = "none" BY <3>1 DEF RefreshLoops, LegacyLoops
        <3> QED BY <1>1, <1>2, <3>1, <3>2 DEF rlGone
    <2>3. CASE ~rlDown /\ rlOwner # "final" BY <1>1, <2>3 DEF rlGone
    <2> QED BY <2>1, <2>2, <2>3
<1> QED BY <1>4, <1>5, <1>6, <1>7, <1>8, <1>9, <1>10 DEF rlIInv

-----------------------------------------------------------------------------
\* The refresh loops.
LEMMA rlLoopSteps ==
    ASSUME rlIInv, NEW l \in RefreshLoops, LoopTick(l) \/ LoopReassert(l) \/ LoopExit(l)
    PROVE  rlIInv'
<1> USE DEF rlConfig, rlRuntime, rlLock
<1>0. rlLoop \in [RefreshLoops -> [st : {"none", "idle", "tick"}, stop : BOOLEAN]] BY DEF rlIInv, rlTypes
<1>1. CASE LoopTick(l)
    <2>1. /\ rlLoop[l].st = "idle" /\ rlOwner = "none" /\ ~rlStopping /\ rlLoop' = [rlLoop EXCEPT ![l].st = "tick"]
          /\ rlOwner' = l /\ rlTodo' = <<>> /\ rlCancelled' = rlStopping
          /\ UNCHANGED <<rlMode, rlRules, rlClient, rlCommitted, rlActive, rlKernel, rlTimer, rlFired, rlUser,
                         rlStopping, rlDown, rlPhase>>
        BY <1>1 DEF LoopTick, CanTry, clientOpLocked
    <2>2. /\ rlLoop' \in [RefreshLoops -> [st : {"none", "idle", "tick"}, stop : BOOLEAN]]
          /\ rlLoop'[l].st = "tick" /\ rlLoop'[l].stop = rlLoop[l].stop
          /\ \A m \in RefreshLoops : m # l => rlLoop'[m] = rlLoop[m]
        BY <1>0, <2>1
    <2>3. /\ rlTodo = <<>> /\ \A b : ~rlLeft(rlTodo, b)
          /\ \A m \in RefreshLoops : rlLoop[m].st = "none" \/ ~rlLoop[m].stop
          /\ rlKernel["legacy"] = "full" => rlActive
          /\ rlKernel["multi"] = "full" => rlLoop["M"].st # "none"
          /\ \A m \in LegacyLoops : rlLoop[m].st # "none" => rlActive
        BY <2>1, rlQuiet
    <2>4. rlTypes' BY <2>1, <2>2 DEF rlIInv, rlTypes, RefreshLoops, OpsOwners
    <2>5. rlPlanned'
        <3>1. l # "final" BY DEF RefreshLoops
        <3> QED BY <2>1, <3>1, rlNothing DEF rlPlanned
    <2>6. rlTicks'
        <3>1. "none" \notin RefreshLoops BY DEF RefreshLoops
        <3> QED BY <2>1, <2>2, <3>1 DEF rlIInv, rlTicks
    <2>7. rlLegacyKept'
        <3>1. \A m \in LegacyLoops : m \in RefreshLoops BY DEF LegacyLoops, RefreshLoops
        <3>2. \A m \in LegacyLoops : rlLoop'[m].st # "none" => ~rlLoop'[m].stop /\ rlActive BY <2>1, <2>2, <2>3, <3>1
        <3> QED BY <2>1, <2>3, <3>2 DEF rlLegacyKept, rlAt
    <2>8. rlMultiKept'
        <3>1. "M" \in RefreshLoops BY DEF RefreshLoops
        <3>2. rlLoop'["M"].st = "none" \/ ~rlLoop'["M"].stop BY <2>1, <2>2, <2>3, <3>1
        <3>3. rlLoop["M"].st # "none" => rlLoop'["M"].st # "none" BY <2>1, <2>2, <3>1
        <3> QED BY <2>1, <2>3, <3>2, <3>3 DEF rlMultiKept, rlAt
    <2>9. rlFinal'
        <3>1. l # "final" BY DEF RefreshLoops
        <3> QED BY <2>1, <3>1 DEF rlFinal
    <2>10. rlGone' BY <2>1 DEF rlIInv, rlGone
    <2> QED BY <2>4, <2>5, <2>6, <2>7, <2>8, <2>9, <2>10 DEF rlIInv
<1>2. CASE LoopReassert(l)
    <2>1. PICK f \in Families, k \in {"partial", "full"} :
            /\ f = "multi" <=> l = "M"
            /\ rlKernel' = rlKernel \/ rlKernel' = [rlKernel EXCEPT ![f] = k]
        BY <1>2 DEF LoopReassert, Families
    <2>2. /\ rlLoop[l].st = "tick" /\ rlLoop' = [rlLoop EXCEPT ![l].st = "idle"]
          /\ rlOwner' = "none" /\ rlCancelled' = FALSE
          /\ UNCHANGED <<rlMode, rlRules, rlClient, rlCommitted, rlActive, rlTimer, rlFired, rlUser, rlTodo,
                         rlStopping, rlDown, rlPhase>>
        BY <1>2 DEF LoopReassert
    <2>3. rlOwner = l BY <2>2 DEF rlIInv, rlTicks
    <2>4. /\ rlLoop' \in [RefreshLoops -> [st : {"none", "idle", "tick"}, stop : BOOLEAN]]
          /\ rlLoop'[l].st = "idle" /\ rlLoop'[l].stop = rlLoop[l].stop
          /\ \A m \in RefreshLoops : m # l => rlLoop'[m] = rlLoop[m]
        BY <1>0, <2>2
    <2>5. /\ rlTodo = <<>> /\ \A b : ~rlLeft(rlTodo, b)
          /\ \A m \in RefreshLoops : rlLoop[m].st = "none" \/ ~rlLoop[m].stop
          /\ rlKernel["legacy"] = "full" => rlActive
          /\ rlKernel["multi"] = "full" => rlLoop["M"].st # "none"
          /\ \A m \in LegacyLoops : rlLoop[m].st # "none" => rlActive
        BY <2>3, rlQuiet
    <2>6. /\ rlKernel' \in [Families -> {"none", "partial", "full"}]
          /\ l = "M" => rlKernel'["legacy"] = rlKernel["legacy"]
          /\ l # "M" => rlKernel'["multi"] = rlKernel["multi"]
        <3>1. rlKernel \in [Families -> {"none", "partial", "full"}] BY DEF rlIInv, rlTypes
        <3> QED BY <2>1, <3>1 DEF Families
    <2>7. rlTypes' BY <2>2, <2>4, <2>6 DEF rlIInv, rlTypes, OpsOwners
    <2>8. rlPlanned' BY <2>2, <2>5, rlNothing DEF rlPlanned
    <2>9. rlTicks'
        <3>1. "none" \notin RefreshLoops BY DEF RefreshLoops
        <3> QED BY <2>2, <2>3, <2>4, <3>1 DEF rlIInv, rlTicks
    <2>10. rlLegacyKept'
        <3>1. \A m \in LegacyLoops : m \in RefreshLoops BY DEF LegacyLoops, RefreshLoops
        <3>2. \A m \in LegacyLoops : rlLoop'[m].st # "none" => ~rlLoop'[m].stop /\ rlActive BY <2>2, <2>4, <2>5, <3>1
        <3>3. l # "M" => rlActive
            <4>1. l # "M" => l \in LegacyLoops BY DEF RefreshLoops, LegacyLoops
            <4> QED BY <2>2, <2>5, <4>1
        <3>4. rlKernel'["legacy"] = "full" => rlActive BY <2>5, <2>6, <3>3
        <3> QED BY <2>2, <2>5, <3>2, <3>4 DEF rlLegacyKept, rlAt
    <2>11. rlMultiKept'
        <3>1. "M" \in RefreshLoops BY DEF RefreshLoops
        <3>2. rlLoop'["M"].st = "none" \/ ~rlLoop'["M"].stop BY <2>2, <2>4, <2>5, <3>1
        <3>3. rlKernel'["multi"] = "full" => rlLoop'["M"].st # "none" BY <2>4, <2>5, <2>6, <3>1
        <3> QED BY <2>2, <2>5, <3>2, <3>3 DEF rlMultiKept, rlAt
    <2>12. rlFinal' BY <2>2 DEF rlFinal
    <2>13. rlGone'
        <3>1. ~rlDown BY <2>2 DEF rlIInv, rlGone
        <3> QED BY <2>2, <3>1 DEF rlGone
    <2> QED BY <2>7, <2>8, <2>9, <2>10, <2>11, <2>12, <2>13 DEF rlIInv
<1>3. CASE LoopExit(l)
    <2>1. /\ rlLoop[l].st = "idle" /\ rlLoop[l].stop /\ rlLoop' = [rlLoop EXCEPT ![l] = NoLoop]
          /\ UNCHANGED <<rlMode, rlRules, rlClient, rlCommitted, rlActive, rlKernel, rlTimer, rlFired, rlUser,
                         rlOwner, rlTodo, rlCancelled, rlStopping, rlDown, rlPhase>>
        BY <1>3 DEF LoopExit
    <2>2. /\ rlLoop' \in [RefreshLoops -> [st : {"none", "idle", "tick"}, stop : BOOLEAN]]
          /\ rlLoop'[l].st = "none"
          /\ \A m \in RefreshLoops : m # l => rlLoop'[m] = rlLoop[m]
        BY <1>0, <2>1 DEF NoLoop
    <2>3. \A m \in LegacyLoops : m \in RefreshLoops BY DEF LegacyLoops, RefreshLoops
    <2>4. "M" \in RefreshLoops BY DEF RefreshLoops
    <2>5. rlTypes' BY <2>1, <2>2 DEF rlIInv, rlTypes
    <2>6. rlPlanned' BY <2>1 DEF rlIInv, rlPlanned
    <2>7. rlTicks' BY <2>1, <2>2 DEF rlIInv, rlTicks
    <2>8. rlLegacyKept' BY <2>1, <2>2, <2>3 DEF rlIInv, rlLegacyKept, rlAt
    <2>9. rlMultiKept'
        <3>1. rlKernel["multi"] = "full" /\ (rlLoop["M"].st = "none" \/ rlLoop["M"].stop \/ l = "M") =>
                  rlLeft(rlTodo, "clearM") \/ rlLeft(rlTodo, "startM")
            BY <2>1 DEF rlIInv, rlMultiKept
        <3> QED BY <2>1, <2>2, <2>4, <3>1 DEF rlIInv, rlMultiKept, rlAt
    <2>10. rlFinal' BY <2>1, <2>2, <2>3, <2>4 DEF rlIInv, rlFinal
    <2>11. rlGone' BY <2>1, <2>2 DEF rlIInv, rlGone
    <2> QED BY <2>5, <2>6, <2>7, <2>8, <2>9, <2>10, <2>11 DEF rlIInv
<1> QED BY <1>1, <1>2, <1>3

LEMMA rlNextStep == rlIInv /\ [rlNext]_rlVars => rlIInv'
<1> SUFFICES ASSUME rlIInv, [rlNext]_rlVars PROVE rlIInv'
    OBVIOUS
<1>1. CASE UNCHANGED rlVars
    <2>1. rlTypes' BY <1>1 DEF rlIInv, rlTypes, rlVars
    <2> QED BY <1>1, <2>1, rlWaits DEF rlVars
<1>2. CASE rlStep
    BY <1>2, rlApplyStep, rlAppliedStep, rlEditStep, rlRestoreStep, rlStopLStep, rlStopMStep, rlWaitStep,
       rlClearStep, rlInstallStep, rlReinstallStep, rlStartMStep, rlEndStep DEF rlStep
<1>3. CASE LoopStep \/ \E l \in RefreshLoops : LoopTick(l) BY <1>3, rlLoopSteps DEF LoopStep
<1>4. CASE (\E k \in UserOps : lockClientOps(k) \/ OpBegins(k)) \/ RollbackFires \/ Rollback
             \/ SupervisorRestore \/ StopAWG \/ TeardownRouting
    BY <1>4, rlLockStep
<1> QED BY <1>1, <1>2, <1>3, <1>4 DEF rlNext

\* RoutingSafe: rules in the kernel always have an owner that keeps or removes them, shutdown is
\* final and no owner of the lock is ever stuck.
THEOREM RoutingIsSafe == routingSpec => []RoutingSafe
BY rlInitially, rlNextStep, rlImplies, PTL DEF routingSpec
=============================================================================
