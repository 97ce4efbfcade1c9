------------------------------ MODULE FastDns ------------------------------
(***************************************************************************)
(* The addresses of DNS providers: a bounded cache whose misses share one  *)
(* lookup (a flight), done by two workers.  Requests wait for the channel  *)
(* of their flight, which exactly one party must close: the worker, the    *)
(* eviction of a queued warm-up, or the user who disables the provider.    *)
(***************************************************************************)
EXTENDS Naturals, FiniteSets

CONSTANTS
    FdKeys,     \* route | host
    FdCap,      \* fastDNSCapacity
    FdFlights,  \* bound on flights: 1..FdFlights
    FdCallers,  \* requests that look an address up
    FdWorkers,  \* fastDNSWorkers
    FdEdits     \* bound on the user's switches

ASSUME FdAssumption == FdFlights \in Nat /\ IsFiniteSet(FdWorkers) /\ FdWorkers # {}

VARIABLES
    fdEntry,    \* each entry: its identity (0 = none), flight, addresses, retry time ahead
    fdFlight,   \* each flight: state, foreground, times its channel was closed
    fdWake,     \* tokens in c.wake
    fdWorker,   \* each worker, the key, entry and flight it works on
    fdWait,     \* flight each request waits for, 0 = none
    fdAllowed,  \* hosts that an enabled method uses
    fdPrune,    \* the switch has moved and pruneDisallowed is still to come
    fdLife,     \* the resolver is open
    fdIds, fdUsed, fdEdits

fdVars == <<fdEntry, fdFlight, fdWake, fdWorker, fdWait, fdAllowed, fdPrune, fdLife, fdIds, fdUsed, fdEdits>>

fdNoEntry == [id |-> 0, flight |-> 0, ips |-> "none", later |-> FALSE]
fdLook == [at |-> "look", key |-> "none", id |-> 0, flight |-> 0]
fdInit ==
    /\ fdEntry = [k \in FdKeys |-> fdNoEntry]
    /\ fdFlight = [f \in 1..FdFlights |-> [at |-> "free", fg |-> FALSE, closed |-> 0]]
    /\ fdWake = 0 /\ fdWorker = [w \in FdWorkers |-> fdLook] /\ fdWait = [c \in FdCallers |-> 0]
    /\ fdAllowed = FdKeys /\ fdPrune = FALSE /\ fdLife = TRUE /\ fdIds = 0 /\ fdUsed = 0 /\ fdEdits = 0

fdHas(k) == fdEntry[k].id # 0
closedFlight(fl, f) == [fl EXCEPT ![f].closed = @ + 1, ![f].at = "closed"]

-----------------------------------------------------------------------------
\* entryLocked: a request may take the place of another entry, unless that is
\* being looked up or awaited; a warm-up takes only a free place.
fdBusy(k) == fdEntry[k].flight # 0 /\ (fdFlight[fdEntry[k].flight].at = "running"
                                       \/ fdFlight[fdEntry[k].flight].fg)
fdVictims == {k \in FdKeys : fdHas(k) /\ ~fdBusy(k)}
fdFull == Cardinality({k \in FdKeys : fdHas(k)}) >= FdCap
\* The entries and flights after entryLocked(k).
Made(k, fg) ==
    LET fresh == [fdNoEntry EXCEPT !.id = fdIds + 1] IN
    IF fdHas(k) THEN {<<fdEntry, fdFlight>>}
    ELSE IF ~fdFull THEN {<<[fdEntry EXCEPT ![k] = fresh], fdFlight>>}
    ELSE IF ~fg THEN {}
    ELSE {<<[fdEntry EXCEPT ![v] = fdNoEntry, ![k] = fresh],
            IF fdEntry[v].flight = 0 THEN fdFlight ELSE closedFlight(fdFlight, fdEntry[v].flight)>> :
          v \in fdVictims}
fdId(k) == fdIds' = IF fdHas(k) THEN fdIds ELSE fdIds + 1

\* scheduleLocked: a new flight and, if there is room, a token for a worker.
fdWakes == fdWake' = IF fdWake < Cardinality(FdWorkers) THEN fdWake + 1 ELSE fdWake
scheduled(e, fl, k, fg) ==
    /\ fdUsed < FdFlights /\ fdUsed' = fdUsed + 1
    /\ fdEntry' = [e EXCEPT ![k].flight = fdUsed']
    /\ fdFlight' = [fl EXCEPT ![fdUsed'] = [at |-> "queued", fg |-> fg, closed |-> 0]]
    /\ fdWakes

\* Lookup: fresh addresses at once, stale ones with a refresh behind them,
\* otherwise the request waits for the flight.
Lookup(c, k) ==
    /\ fdLife /\ k \in fdAllowed /\ fdWait[c] = 0
    /\ \E m \in Made(k, TRUE) :
         LET e == m[1]
             usable == e[k].ips # "none"
         IN \/ /\ e[k].ips = "fresh"
               /\ fdEntry' = e /\ fdFlight' = m[2] /\ UNCHANGED <<fdWake, fdUsed, fdWait>>
            \/ /\ e[k].ips # "fresh" /\ e[k].flight = 0 /\ ~e[k].later
               /\ scheduled(e, m[2], k, ~usable)
               /\ fdWait' = [fdWait EXCEPT ![c] = IF usable THEN 0 ELSE fdUsed']
            \/ /\ e[k].ips # "fresh" /\ e[k].flight # 0
               /\ fdEntry' = e
               /\ fdFlight' = IF usable THEN m[2] ELSE [m[2] EXCEPT ![e[k].flight].fg = TRUE]
               /\ fdWait' = [fdWait EXCEPT ![c] = IF usable THEN 0 ELSE e[k].flight]
               /\ UNCHANGED <<fdWake, fdUsed>>
            \/ /\ e[k].ips # "fresh" /\ e[k].flight = 0 /\ e[k].later
               /\ fdEntry' = e /\ fdFlight' = m[2] /\ UNCHANGED <<fdWake, fdUsed, fdWait>>
    /\ fdId(k) /\ UNCHANGED <<fdWorker, fdAllowed, fdPrune, fdLife, fdEdits>>
\* The wait ends with the flight, the request or the resolver.
lookupEnds(c) ==
    /\ fdWait[c] # 0 /\ fdWait' = [fdWait EXCEPT ![c] = 0]
    /\ UNCHANGED <<fdEntry, fdFlight, fdWake, fdWorker, fdAllowed, fdPrune, fdLife, fdIds, fdUsed, fdEdits>>
\* maintain and RefreshSoon schedule in the background.
maintain(k) ==
    /\ fdLife /\ k \in fdAllowed
    /\ \E m \in Made(k, FALSE) :
         /\ m[1][k].flight = 0 /\ ~m[1][k].later /\ scheduled(m[1], m[2], k, FALSE)
    /\ fdId(k) /\ UNCHANGED <<fdWorker, fdWait, fdAllowed, fdPrune, fdLife, fdEdits>>

-----------------------------------------------------------------------------
\* worker: a queued flight, requests before warm-ups, or sleep until a token.
fdQueued == {k \in FdKeys : fdEntry[k].flight # 0 /\ fdFlight[fdEntry[k].flight].at = "queued"}
fdFirst(k) == \A j \in fdQueued : fdFlight[fdEntry[j].flight].fg => fdFlight[fdEntry[k].flight].fg
workerTakes(w, k) ==
    /\ fdLife /\ fdWorker[w].at = "look" /\ k \in fdQueued /\ fdFirst(k)
    /\ fdFlight' = [fdFlight EXCEPT ![fdEntry[k].flight].at = "running"]
    /\ fdWorker' = [fdWorker EXCEPT ![w] = [at |-> "run", key |-> k, id |-> fdEntry[k].id,
                                            flight |-> fdEntry[k].flight]]
    /\ UNCHANGED <<fdEntry, fdWake, fdWait, fdAllowed, fdPrune, fdLife, fdIds, fdUsed, fdEdits>>
workerSleeps(w) ==
    /\ fdWorker[w].at = "look" /\ fdQueued = {} /\ fdWorker' = [fdWorker EXCEPT ![w].at = "sleep"]
    /\ UNCHANGED <<fdEntry, fdFlight, fdWake, fdWait, fdAllowed, fdPrune, fdLife, fdIds, fdUsed, fdEdits>>
workerWakes(w) ==
    /\ fdWorker[w].at = "sleep" /\ fdWake > 0 /\ fdWake' = fdWake - 1
    /\ fdWorker' = [fdWorker EXCEPT ![w] = fdLook]
    /\ UNCHANGED <<fdEntry, fdFlight, fdWait, fdAllowed, fdPrune, fdLife, fdIds, fdUsed, fdEdits>>
\* The lookup is over.  An entry that was removed, or replaced by another of
\* the same name, and a closed resolver get no addresses.
sameEntry(w) == fdEntry[fdWorker[w].key].id = fdWorker[w].id
workerEnds(w, ok) ==
    /\ fdWorker[w].at = "run"
    /\ fdFlight' = closedFlight(fdFlight, fdWorker[w].flight)
    /\ fdEntry' = IF sameEntry(w) /\ fdLife
                  THEN LET k == fdWorker[w].key IN
                       [fdEntry EXCEPT ![k].flight = 0, ![k].later = TRUE, ![k].ips = IF ok THEN "fresh" ELSE @]
                  ELSE fdEntry
    /\ fdWorker' = [fdWorker EXCEPT ![w] = IF fdLife \/ ~sameEntry(w) THEN fdLook ELSE [fdLook EXCEPT !.at = "gone"]]
    /\ UNCHANGED <<fdWake, fdWait, fdAllowed, fdPrune, fdLife, fdIds, fdUsed, fdEdits>>

\* Addresses age, the retry time passes.
fdAges(k) ==
    /\ fdHas(k) /\ fdEntry[k].ips # "none"
    /\ fdEntry' = [fdEntry EXCEPT ![k].ips = IF @ = "fresh" THEN "stale" ELSE "none", ![k].later = FALSE]
    /\ UNCHANGED <<fdFlight, fdWake, fdWorker, fdWait, fdAllowed, fdPrune, fdLife, fdIds, fdUsed, fdEdits>>
fdRetry(k) ==
    /\ fdEntry[k].later /\ fdEntry' = [fdEntry EXCEPT ![k].later = FALSE]
    /\ UNCHANGED <<fdFlight, fdWake, fdWorker, fdWait, fdAllowed, fdPrune, fdLife, fdIds, fdUsed, fdEdits>>
\* setDisabledMethods: the switch, then pruneDisallowed.
fdSwitch(k) ==
    /\ fdEdits < FdEdits /\ fdEdits' = fdEdits + 1 /\ ~fdPrune
    /\ fdAllowed' = IF k \in fdAllowed THEN fdAllowed \ {k} ELSE fdAllowed \cup {k}
    /\ fdPrune' = TRUE
    /\ UNCHANGED <<fdEntry, fdFlight, fdWake, fdWorker, fdWait, fdLife, fdIds, fdUsed>>
pruneClosesAll(f) == TRUE

pruneCloses(f) == fdFlight[f].at = "queued"
pruneDisallowed ==
    LET gone == {k \in FdKeys : fdHas(k) /\ k \notin fdAllowed} IN
    /\ fdPrune /\ fdPrune' = FALSE
    /\ fdEntry' = [k \in FdKeys |-> IF k \in gone THEN fdNoEntry ELSE fdEntry[k]]
    /\ fdFlight' = [f \in 1..FdFlights |->
           IF (\E k \in gone : fdEntry[k].flight = f) /\ pruneCloses(f)
           THEN [fdFlight[f] EXCEPT !.at = "closed", !.closed = @ + 1] ELSE fdFlight[f]]
    /\ UNCHANGED <<fdWake, fdWorker, fdWait, fdAllowed, fdLife, fdIds, fdUsed, fdEdits>>
fdClose ==
    /\ fdLife /\ fdLife' = FALSE
    /\ UNCHANGED <<fdEntry, fdFlight, fdWake, fdWorker, fdWait, fdAllowed, fdPrune, fdIds, fdUsed, fdEdits>>

fdNext ==
    \/ \E c \in FdCallers : lookupEnds(c) \/ \E k \in FdKeys : Lookup(c, k)
    \/ \E k \in FdKeys : maintain(k) \/ fdAges(k) \/ fdRetry(k) \/ fdSwitch(k)
    \/ \E w \in FdWorkers : \/ workerSleeps(w) \/ workerWakes(w)
                            \/ \E k \in FdKeys : workerTakes(w, k)
                            \/ \E ok \in BOOLEAN : workerEnds(w, ok)
    \/ pruneDisallowed \/ fdClose

-----------------------------------------------------------------------------
\* The channel of a flight is closed once at most: a second close would end
\* the process.
ClosedOnce == \A f \in 1..FdFlights : fdFlight[f].closed <= 1

\* A request never waits for a flight that nobody will finish: it is still
\* queued in an entry, a worker runs it, or it is over.
WaitHasWorker ==
    \A c \in FdCallers : fdWait[c] # 0 =>
        \/ fdFlight[fdWait[c]].at = "closed"
        \/ \E k \in fdQueued : fdEntry[k].flight = fdWait[c]
        \/ \E w \in FdWorkers : fdWorker[w].at = "run" /\ fdWorker[w].flight = fdWait[c]

\* No wake-up is lost: with work in the queue a worker is awake or about to be.
QueueIsWorked ==
    fdLife /\ fdQueued # {} => fdWake > 0 \/ \E w \in FdWorkers : fdWorker[w].at \in {"look", "run"}

\* No request waits for work that nobody does, and no flight is ended twice.
FastSafe == ClosedOnce /\ WaitHasWorker /\ QueueIsWorked
=============================================================================
