------------------------------ MODULE DnsRace ------------------------------
(***************************************************************************)
(* One cache miss races pairs of provider and route: a dispatcher takes a  *)
(* shared slot for each pair in turn and starts a worker; the first answer *)
(* cancels the others.  The user may disable a pair meanwhile, a           *)
(* background probe measures one pair under a lease, and the scheduler     *)
(* keeps a bounded table of what was measured, which outlives a resolver.  *)
(***************************************************************************)
EXTENDS Naturals, Sequences, FiniteSets, SequencesExt

CONSTANTS
    DrPairs,    \* provider x route
    DrPool,     \* the pairs that the domain of the queries may use
    DrQueries,  \* cache misses
    DrSlots,    \* maxConcurrentRouteAttempts
    DrTable,    \* maxSchedulerPairs
    DrEdits,    \* bound on edits of the disabled methods
    DrProbes    \* bound on background probes

ASSUME DrAssumption ==
    /\ IsFiniteSet(DrPairs) /\ IsFiniteSet(DrQueries) /\ DrPool \subseteq DrPairs
    /\ DrSlots \in Nat /\ DrTable \in Nat \ {0, 1} /\ "none" \notin DrPairs

DrResolvers == {1, 2}
DrNone == "none"

VARIABLES
    drLife,     \* the resolver that runs; those before it are closed
    drUsed,     \* slots in use of each resolver
    drOff,      \* disabled methods
    drQuery,    \* each query: its resolver, how far it is, pairs to dispatch
    drHeld,     \* queries whose dispatcher holds a slot
    drWork,     \* the worker of each query and pair
    drCut,      \* workers whose method was disabled under them
    drTable,    \* pairs with an entry in the scheduler
    drLease,    \* s.probeKey and the token of its lease
    drProbe,    \* the background probe of each resolver
    drBlame,    \* why failures were recorded
    drMoved,    \* workers under which the switch of their method was moved
    drEdits

drVars == <<drLife, drUsed, drOff, drQuery, drHeld, drWork, drCut, drTable, drLease, drProbe,
            drBlame, drMoved, drEdits>>

drIdle == [at |-> "idle", of |-> 0, todo |-> <<>>]
drFresh == [at |-> "none", res |-> "none"]
drNoProbe == [at |-> "idle", pair |-> DrNone, token |-> 0, cut |-> FALSE]
drInit ==
    /\ drLife = 1 /\ drUsed = [r \in DrResolvers |-> 0] /\ drOff = {}
    /\ drQuery = [q \in DrQueries |-> drIdle] /\ drHeld = {}
    /\ drWork = [q \in DrQueries |-> [p \in DrPairs |-> drFresh]] /\ drCut = {}
    /\ drTable = {} /\ drLease = [key |-> DrNone, token |-> 0]
    /\ drProbe = [r \in DrResolvers |-> drNoProbe] /\ drBlame = {} /\ drMoved = {} /\ drEdits = 0

drDead(r) == r < drLife
\* The context of a query ends with its answer, its timeout or its resolver.
drDone(q) == drQuery[q].at # "race" \/ drDead(drQuery[q].of)

-----------------------------------------------------------------------------

\* entryLocked: a full table loses an entry, but not the one being probed.
Evictable == drTable \ {drLease.key}
touched(p, t) ==
    IF p \in drTable \/ Cardinality(drTable) < DrTable THEN t = drTable \cup {p}
    ELSE \/ \E old \in Evictable : t = (drTable \ {old}) \cup {p}
         \/ Evictable = {} /\ t = drTable \cup {p}
drTouch(p) == \E t \in SUBSET DrPairs : touched(p, t) /\ drTable' = t

\* resolveConfigured: the enabled pairs in the order of their scores.
resolveConfigured(q, todo) ==
    /\ drQuery[q].at = "idle"
    /\ drQuery' = [drQuery EXCEPT ![q] = [at |-> "race", of |-> drLife, todo |-> todo]]
    /\ drWork' = [drWork EXCEPT ![q] = [p \in DrPairs |->
                     [at |-> IF p \in Range(todo) THEN "queued" ELSE "none", res |-> "none"]]]
    /\ UNCHANGED <<drLife, drUsed, drOff, drHeld, drCut, drTable, drLease, drProbe, drBlame, drMoved, drEdits>>

drTakeSlot(r) == drUsed[r] < DrSlots /\ drUsed' = [drUsed EXCEPT ![r] = @ + 1]
drGiveSlot(r) == drUsed' = [drUsed EXCEPT ![r] = @ - 1]
\* The dispatcher takes a slot before the next pair.
dispatchSlot(q) ==
    /\ drQuery[q].todo # <<>> /\ q \notin drHeld /\ ~drDone(q) /\ drTakeSlot(drQuery[q].of)
    /\ drHeld' = drHeld \cup {q}
    /\ UNCHANGED <<drLife, drOff, drQuery, drWork, drCut, drTable, drLease, drProbe, drBlame, drMoved, drEdits>>
\* It gives up with the query, or begins the method and starts a worker.
dispatchStops(q) ==
    /\ drQuery[q].todo # <<>> /\ drDone(q)
    /\ drQuery' = [drQuery EXCEPT ![q].todo = <<>>] /\ drHeld' = drHeld \ {q}
    /\ IF q \in drHeld THEN drGiveSlot(drQuery[q].of) ELSE UNCHANGED drUsed
    /\ UNCHANGED <<drLife, drOff, drWork, drCut, drTable, drLease, drProbe, drBlame, drMoved, drEdits>>

refusedSlot(q) == drGiveSlot(drQuery[q].of)
dispatchStart(q) ==
    LET p == Head(drQuery[q].todo) IN
    /\ q \in drHeld /\ ~drDone(q)
    /\ drQuery' = [drQuery EXCEPT ![q].todo = Tail(@)] /\ drHeld' = drHeld \ {q}
    /\ IF p \in drOff
       THEN /\ drWork' = [drWork EXCEPT ![q][p] = [at |-> "told", res |-> "err"]]
            /\ refusedSlot(q) /\ UNCHANGED drTable
       ELSE drWork' = [drWork EXCEPT ![q][p].at = "begun"] /\ drTouch(p) /\ UNCHANGED drUsed
    /\ UNCHANGED <<drLife, drOff, drCut, drLease, drProbe, drBlame, drMoved, drEdits>>

\* exchangeEndpoint registers the method once more, then asks the provider
\* over HTTPS; a method disabled meanwhile turns any answer into an error.
exchangeBegin(q, p) ==
    /\ drWork[q][p].at = "begun"
    /\ drWork' = [drWork EXCEPT ![q][p] =
           IF p \in drOff THEN [at |-> "ended", res |-> "off"] ELSE [at |-> "exchange", res |-> "none"]]
    /\ UNCHANGED <<drLife, drUsed, drOff, drQuery, drHeld, drCut, drTable, drLease, drProbe, drBlame, drMoved, drEdits>>
\* The answers doH and validateResponse accept, their failures, and the end
\* of the context.
Outcomes(q, p) == IF <<q, p>> \in drCut THEN {"off"}
                  ELSE {"ok", "err"} \cup (IF drDone(q) THEN {"cut"} ELSE {})
exchangeEndpoint(q, p) ==
    /\ drWork[q][p].at = "exchange"
    /\ \E res \in Outcomes(q, p) : drWork' = [drWork EXCEPT ![q][p] = [at |-> "ended", res |-> res]]
    /\ UNCHANGED <<drLife, drUsed, drOff, drQuery, drHeld, drCut, drTable, drLease, drProbe, drBlame, drMoved, drEdits>>

\* The worker gives its slot back, records the attempt and hands in its
\* result.  What was cancelled is neutral.
canceledAttempt(q, p) == drDone(q) \/ <<q, p>> \in drCut \/ drWork[q][p].res = "off"
workerReports(q, p) ==
    LET res == drWork[q][p].res IN
    /\ drWork[q][p].at = "ended" /\ drGiveSlot(drQuery[q].of)
    /\ drWork' = [drWork EXCEPT ![q][p] = [at |-> "told", res |-> IF res = "ok" THEN "ok" ELSE "err"]]
    /\ IF res # "ok" /\ canceledAttempt(q, p) THEN UNCHANGED <<drTable, drBlame>>
       ELSE drTouch(p) /\ drBlame' = drBlame \cup ({res} \ {"ok"})
    /\ drCut' = drCut \ {<<q, p>>} /\ drMoved' = drMoved \ {<<q, p>>}
    /\ UNCHANGED <<drLife, drOff, drQuery, drHeld, drLease, drProbe, drEdits>>

\* collect: the first answer wins and cancels the rest; the query fails when
\* every pair has failed, or with its own timeout.
collectWins(q) ==
    /\ ~drDone(q) /\ \E p \in DrPairs : drWork[q][p] = [at |-> "told", res |-> "ok"]
    /\ drQuery' = [drQuery EXCEPT ![q].at = "won"]
    /\ UNCHANGED <<drLife, drUsed, drOff, drHeld, drWork, drCut, drTable, drLease, drProbe, drBlame, drMoved, drEdits>>

allFailed(q) == \A p \in DrPairs : drWork[q][p].at = "none" \/ drWork[q][p] = [at |-> "told", res |-> "err"]
collectFails(q) ==
    /\ drQuery[q].at = "race" /\ (allFailed(q) \/ drDead(drQuery[q].of))
    /\ drQuery' = [drQuery EXCEPT ![q].at = IF drDead(drQuery[q].of) THEN "timeout" ELSE "lost"]
    /\ UNCHANGED <<drLife, drUsed, drOff, drHeld, drWork, drCut, drTable, drLease, drProbe, drBlame, drMoved, drEdits>>
queryTimeout(q) ==
    /\ drQuery[q].at = "race" /\ drQuery' = [drQuery EXCEPT ![q].at = "timeout"]
    /\ UNCHANGED <<drLife, drUsed, drOff, drHeld, drWork, drCut, drTable, drLease, drProbe, drBlame, drMoved, drEdits>>

-----------------------------------------------------------------------------
\* SetMethodEnabled: apply cancels what is registered under the method.
drRunning(q, p) == drWork[q][p].at \in {"begun", "exchange", "ended"}
drWorkersOf(p) == {<<q, p>> : q \in {x \in DrQueries : drRunning(x, p)}}
appliesToAsked(p) == {w \in drWorkersOf(p) : drWork[w[1]][p].at = "exchange"}

appliesTo(p) == drWorkersOf(p)
SetMethodEnabled(p, on) ==
    /\ drEdits < DrEdits /\ drEdits' = drEdits + 1 /\ on = (p \in drOff)
    /\ drOff' = IF on THEN drOff \ {p} ELSE drOff \cup {p}
    /\ drCut' = IF on THEN drCut ELSE drCut \cup appliesTo(p)
    /\ drMoved' = drMoved \cup drWorkersOf(p)
    /\ drProbe' = [r \in DrResolvers |->
           IF ~on /\ drProbe[r].at = "exchange" /\ drProbe[r].pair = p
           THEN [drProbe[r] EXCEPT !.cut = TRUE] ELSE drProbe[r]]
    /\ UNCHANGED <<drLife, drUsed, drQuery, drHeld, drWork, drTable, drLease, drBlame>>
\* A change of the configuration replaces the resolver; the scheduler stays.
replaceResolver ==
    /\ drLife = 1 /\ drLife' = 2
    /\ UNCHANGED <<drUsed, drOff, drQuery, drHeld, drWork, drCut, drTable, drLease, drProbe, drBlame, drMoved, drEdits>>

\* runSchedulerProbe: an ordinary slot that it never waits for, then a lease.
probeSlot(r) ==
    /\ r = drLife /\ drProbe[r].at = "idle" /\ drTakeSlot(r)
    /\ drProbe' = [drProbe EXCEPT ![r].at = "slot"]
    /\ UNCHANGED <<drLife, drOff, drQuery, drHeld, drWork, drCut, drTable, drLease, drBlame, drMoved, drEdits>>
probeBack(r) == drGiveSlot(r) /\ drProbe' = [drProbe EXCEPT ![r] = drNoProbe]
noProbe(r) ==
    /\ drProbe[r].at = "slot" /\ probeBack(r)
    /\ UNCHANGED <<drLife, drOff, drQuery, drHeld, drWork, drCut, drTable, drLease, drBlame, drMoved, drEdits>>
leaseFree == drLease.key = DrNone
nextProbe(r, p) ==
    /\ drProbe[r].at = "slot" /\ leaseFree /\ p \notin drOff /\ ~drDead(r)
    /\ drTouch(p) /\ drLease' = [key |-> p, token |-> drLease.token + 1]
    /\ drProbe' = [drProbe EXCEPT ![r] = [at |-> "exchange", pair |-> p, token |-> drLease'.token, cut |-> FALSE]]
    /\ drLease.token < DrProbes
    /\ UNCHANGED <<drLife, drUsed, drOff, drQuery, drHeld, drWork, drCut, drBlame, drMoved, drEdits>>
probeOutcomes(r) == IF drProbe[r].cut THEN {"off"}
                    ELSE {"ok", "err"} \cup (IF drDead(r) THEN {"cut"} ELSE {})
probeCanceled(r, res) == res # "ok" /\ (drDead(r) \/ res = "off")

\* finishProbe: every end of a probe returns the lease.
finishes(r, res) == drProbe[r].token = drLease.token /\ drProbe[r].pair = drLease.key
finishProbe(r) ==
    /\ drProbe[r].at = "exchange"
    /\ \E res \in probeOutcomes(r) :
         /\ drLease' = IF finishes(r, res) THEN [drLease EXCEPT !.key = DrNone] ELSE drLease
         /\ IF probeCanceled(r, res) THEN UNCHANGED <<drTable, drBlame>>
            ELSE drTouch(drProbe[r].pair) /\ drBlame' = drBlame \cup ({res} \ {"ok"})
    /\ probeBack(r)
    /\ UNCHANGED <<drLife, drOff, drQuery, drHeld, drWork, drCut, drMoved, drEdits>>

drNext ==
    \/ \E q \in DrQueries :
         \/ \E todo \in SetToSeqs(DrPool \ drOff) : resolveConfigured(q, todo)
         \/ dispatchSlot(q) \/ dispatchStops(q) \/ dispatchStart(q)
         \/ collectWins(q) \/ collectFails(q) \/ queryTimeout(q)
         \/ \E p \in DrPairs : exchangeBegin(q, p) \/ exchangeEndpoint(q, p) \/ workerReports(q, p)
    \/ \E p \in DrPairs, on \in BOOLEAN : SetMethodEnabled(p, on)
    \/ replaceResolver
    \/ \E r \in DrResolvers : \/ probeSlot(r) \/ noProbe(r) \/ finishProbe(r)
                              \/ \E p \in DrPairs : nextProbe(r, p)

-----------------------------------------------------------------------------
drUses(r) == Cardinality({q \in drHeld : drQuery[q].of = r})
             + Cardinality({w \in DrQueries \X DrPairs :
                               drRunning(w[1], w[2]) /\ drQuery[w[1]].of = r})
             + IF drProbe[r].at = "idle" THEN 0 ELSE 1

\* Every path gives its slot back: the slots in use are those that a
\* dispatcher, a worker or a probe holds, so that refusals, cancellations and
\* restarts cannot use the limit up.
AttemptSlotsBalanced == \A r \in DrResolvers : drUsed[r] = drUses(r) /\ drUsed[r] <= DrSlots

\* A pair that the user disabled while it was being asked never supplies the
\* answer, also when it was enabled again before the answer came; only one that
\* was complete when the switch was moved counts.
DisabledNeverAnswers ==
    [][\A q \in DrQueries, p \in DrPairs :
          drWork[q][p].at = "exchange" /\ drWork'[q][p].res = "ok" => <<q, p>> \notin drMoved]_drVars

\* A failure is held against a pair only when the provider failed: neither a
\* competitor's answer, nor the end of the resolver, nor the user's switch.
CanceledIsNeutral == drBlame \subseteq {"err"}

\* The pair that is being probed keeps its entry, which finishProbe
\* dereferences, however many other pairs are measured meanwhile, and the table
\* stays within its limit.
ProbedIsTracked ==
    /\ drLease.key # DrNone => drLease.key \in drTable
    /\ Cardinality(drTable) <= DrTable

\* The only lease is always held by a probe that will return it: otherwise no
\* pair would be measured again.
LeaseIsHeld ==
    drLease.key # DrNone =>
        \E r \in DrResolvers : drProbe[r].at = "exchange" /\ drProbe[r].token = drLease.token

\* A query fails only when every enabled pair has failed: a failure never
\* hides an answer that is still to come.
FailsOnlyWhenAllFailed ==
    \A q \in DrQueries : drQuery[q].at = "lost" =>
        \A p \in DrPairs : drWork[q][p].at # "none" => drWork[q][p] = [at |-> "told", res |-> "err"]

\* A race gives its slots and its lease back, blames nobody without cause and answers with enabled pairs only.
RaceSafe ==
    /\ [](AttemptSlotsBalanced /\ CanceledIsNeutral /\ ProbedIsTracked /\ LeaseIsHeld /\ FailsOnlyWhenAllFailed)
    /\ DisabledNeverAnswers
=============================================================================
