--------------------------- MODULE ResolverFlights ---------------------------
(***************************************************************************)
(* The answer cache and the shared upstream operations ("flights") of the  *)
(* DNS server's resolver (dnsserver/resolver.go, resolver_inflight.go).    *)
(*                                                                         *)
(* Callers are concurrent Resolve calls.  Callers that ask the same        *)
(* question in the same cache generation wait for one flight; a flight  *)
(* belongs to its waiters and is cancelled when the last one leaves.       *)
(* ClearCache starts a new generation.  Every step is one critical section *)
(* of r.mu, or work outside it.  Time is abstract: an entry goes stale at  *)
(* any moment, and which entry expires first is left open.                 *)
(***************************************************************************)
EXTENDS Naturals, FiniteSets

CONSTANTS
  Callers,      \* concurrent Resolve calls
  Questions,         \* packed questions
  Flights,      \* identities of resolverFlight objects
  NoFlight,
  NoKey,
  MaxFlights,   \* maxResolverFlights
  MaxWaiters,   \* maxResolverFlightWaiters
  CacheSize,    \* cfg.CacheSize
  MaxClears     \* bound: how often the cache is cleared

ASSUME FlightsAssumption ==
  /\ IsFiniteSet(Callers) /\ IsFiniteSet(Questions)
  /\ NoFlight \notin Flights /\ NoKey \notin Questions
  /\ MaxFlights \in Nat /\ CacheSize \in Nat /\ MaxClears \in Nat
  /\ MaxWaiters \in Nat \ {0}

Generations == 0..MaxClears

VARIABLES
  closed,           \* r.closed, r.lifetime ended
  cacheGeneration,
  cache,            \* r.cache: per key, what is stored
  inflight,         \* r.inflight, by question and generation
  flight,           \* the resolverFlight objects
  at,
  question,              \* per caller: its question
  started,       \* per caller: the cache generation it started in
  waitsFor,         \* per caller: the flight it holds
  got               \* per caller: generation in which its answer was resolved

rfVars == <<closed, cacheGeneration, cache, inflight, flight, at, question,
          started, waitsFor, got>>
caller == <<question, started>>

-----------------------------------------------------------------------------
\* A cache entry, with the generation in which its upstream operation began.
Entry == [state : {"none", "live", "stale"}, origin : Generations]

\* A resolverFlight with its map key: running (resolveUncached), put (about to
\* cache the answer), publish (about to finish).  The origin is the generation in
\* which the upstream operation began.
FlightStates == {"free", "running", "put", "publish", "finished"}
Flight == [state : FlightStates, query : Questions \cup {NoKey},
           generation : Generations, waiters : Nat, cancelled : BOOLEAN,
           ok : BOOLEAN, origin : Generations]

CallerPCs == {"idle", "open", "lookup", "shared", "wait", "release", "direct",
              "put", "done"}

NoEntry == [state |-> "none", origin |-> 0]
FreeFlight == [state |-> "free", query |-> NoKey, generation |-> 0,
               waiters |-> 0, cancelled |-> FALSE, ok |-> FALSE, origin |-> 0]

rfInit ==
  /\ closed = FALSE
  /\ cacheGeneration = 0
  /\ cache = [k \in Questions |-> NoEntry]
  /\ inflight = [i \in Questions \X Generations |-> NoFlight]
  /\ flight = [f \in Flights |-> FreeFlight]
  /\ at = [c \in Callers |-> "idle"]
  /\ question = [c \in Callers |-> NoKey]
  /\ started = [c \in Callers |-> 0]
  /\ waitsFor = [c \in Callers |-> NoFlight]
  /\ got = [c \in Callers |-> 0]

rfGoto(c, l) == at' = [at EXCEPT ![c] = l]

\* The answer of an upstream operation that began in generation g reaches c.  A
\* call that fails keeps the generation it started in.
Take(c, g) == got' = [got EXCEPT ![c] = g]

-----------------------------------------------------------------------------
(* The cache *)

Stored == {k \in Questions : cache[k].state # "none"}
Live == {k \in Questions : cache[k].state = "live"}

CachePut_AfterClose(k, g, o) ==
  IF g # cacheGeneration \/ CacheSize = 0
    THEN UNCHANGED cache
    ELSE \E victim \in IF Cardinality(Live \cup {k}) > CacheSize
                         THEN Live \ {k} ELSE {k} :
           cache' = [x \in Questions |->
                       IF x = k THEN [state |-> "live", origin |-> o]
                       ELSE IF x \in Live \ {victim} THEN cache[x]
                       ELSE NoEntry]

\* cachePutAt: a put of an older generation, or after rfClose, is dropped.  Stale
\* entries are pruned; a new key may evict another, an existing one never does.
CachePut(k, g, o) ==
  IF g # cacheGeneration \/ closed \/ CacheSize = 0
    THEN UNCHANGED cache
    ELSE \E victim \in IF Cardinality(Live \cup {k}) > CacheSize
                         THEN Live \ {k} ELSE {k} :
           cache' = [x \in Questions |->
                       IF x = k THEN [state |-> "live", origin |-> o]
                       ELSE IF x \in Live \ {victim} THEN cache[x]
                       ELSE NoEntry]

\* An entry's lifetime ends.
Expire(k) ==
  /\ cache[k].state = "live"
  /\ cache' = [cache EXCEPT ![k].state = "stale"]
  /\ UNCHANGED <<closed, cacheGeneration, inflight, flight, at, caller,
                 waitsFor, got>>

\* CacheStatus prunes what has expired.
CacheStatus ==
  /\ Stored # Live
  /\ cache' = [k \in Questions |-> IF k \in Live THEN cache[k] ELSE NoEntry]
  /\ UNCHANGED <<closed, cacheGeneration, inflight, flight, at, caller,
                 waitsFor, got>>

ClearCache ==
  /\ cacheGeneration < MaxClears
  /\ cache' = [k \in Questions |-> NoEntry]
  /\ cacheGeneration' = cacheGeneration + 1
  /\ UNCHANGED <<closed, inflight, flight, at, caller, waitsFor, got>>

\* rfClose ends the lifetime all operations' contexts derive from.
rfClose ==
  /\ ~closed
  /\ closed' = TRUE
  /\ flight' = [f \in Flights |->
       IF flight[f].state = "free" THEN flight[f]
       ELSE [flight[f] EXCEPT !.cancelled = TRUE]]
  /\ UNCHANGED <<cacheGeneration, cache, inflight, at, caller, waitsFor, got>>

-----------------------------------------------------------------------------
(* Resolve and resolveShared *)

\* Resolve reads the generation before anything else.
rfBegin(c, k) ==
  /\ at[c] = "idle"
  /\ question' = [question EXCEPT ![c] = k]
  /\ started' = [started EXCEPT ![c] = cacheGeneration]
  /\ rfGoto(c, "open")
  /\ Take(c, cacheGeneration)
  /\ UNCHANGED <<closed, cacheGeneration, cache, inflight, flight, waitsFor>>

\* The checks of the lifetime and of the block lists.
CheckOpen(c) ==
  /\ at[c] = "open"
  /\ \E l \in IF closed THEN {"done"} ELSE {"done", "lookup"} : rfGoto(c, l)
  /\ UNCHANGED <<closed, cacheGeneration, cache, inflight, flight, caller,
                 waitsFor, got>>

\* cacheGet: an entry of any generation will do, a stale one is deleted.
CacheGet(c) ==
  LET k == question[c] IN
  /\ at[c] = "lookup"
  /\ IF k \in Live
       THEN /\ Take(c, cache[k].origin)
            /\ rfGoto(c, "done")
            /\ UNCHANGED cache
       ELSE /\ cache' = [cache EXCEPT ![k] = NoEntry]
            /\ rfGoto(c, "shared")
            /\ UNCHANGED got
  /\ UNCHANGED <<closed, cacheGeneration, inflight, flight, caller, waitsFor>>

\* The 25 s timeout or the client's own context ends: resolveShared returns, a
\* waiter releases its flight first.
CallerCancelled(c) ==
  /\ at[c] \in {"shared", "wait", "direct"}
  /\ rfGoto(c, IF at[c] = "wait" THEN "release" ELSE "done")
  /\ UNCHANGED <<closed, cacheGeneration, cache, inflight, flight, caller,
                 waitsFor, got>>

\* The second look at the cache, under the mutex that creates flights.
Hit(c) == question[c] \in Live /\ started[c] = cacheGeneration

\* resolveShared after rfClose, or with an answer cached meanwhile.
SharedReturns(c) ==
  /\ at[c] = "shared"
  /\ closed \/ Hit(c)
  /\ IF closed THEN UNCHANGED got ELSE Take(c, cache[question[c]].origin)
  /\ rfGoto(c, "done")
  /\ UNCHANGED <<closed, cacheGeneration, cache, inflight, flight, caller,
                 waitsFor>>

FlightKey(c) == <<question[c], started[c]>>

InflightLen == Cardinality({i \in Questions \X Generations : inflight[i] # NoFlight})

\* The bounds never reject a query: the excess resolves by itself.
Overflow(c) ==
  LET f == inflight[FlightKey(c)]
  IN IF f = NoFlight THEN InflightLen >= MaxFlights
                     ELSE flight[f].waiters >= MaxWaiters

ResolveDirect(c) ==
  /\ at[c] = "shared"
  /\ ~closed /\ ~Hit(c)
  /\ Overflow(c)
  /\ rfGoto(c, "direct")
  /\ Take(c, cacheGeneration)
  /\ UNCHANGED <<closed, cacheGeneration, cache, inflight, flight, caller,
                 waitsFor>>

JoinFlight(c) ==
  LET f == inflight[FlightKey(c)] IN
  /\ at[c] = "shared"
  /\ ~closed /\ ~Hit(c)
  /\ ~Overflow(c)
  /\ f # NoFlight
  /\ flight' = [flight EXCEPT ![f].waiters = @ + 1]
  /\ waitsFor' = [waitsFor EXCEPT ![c] = f]
  /\ rfGoto(c, "wait")
  /\ UNCHANGED <<closed, cacheGeneration, cache, inflight, caller, got>>

\* A new flight is registered and its goroutine started.
StartFlight(c, f) ==
  /\ at[c] = "shared"
  /\ ~closed /\ ~Hit(c)
  /\ ~Overflow(c)
  /\ inflight[FlightKey(c)] = NoFlight
  /\ flight[f].state = "free"
  /\ inflight' = [inflight EXCEPT ![FlightKey(c)] = f]
  /\ flight' = [flight EXCEPT ![f] =
       [state |-> "running", query |-> question[c], generation |-> started[c],
        waiters |-> 1, cancelled |-> FALSE, ok |-> FALSE,
        origin |-> cacheGeneration]]
  /\ waitsFor' = [waitsFor EXCEPT ![c] = f]
  /\ rfGoto(c, "wait")
  /\ UNCHANGED <<closed, cacheGeneration, cache, caller, got>>

\* The select of a waiter: the resolver closes or the flight is done.
WaitEnds(c) ==
  LET f == flight[waitsFor[c]] IN
  /\ at[c] = "wait"
  /\ \/ closed /\ UNCHANGED got
     \/ /\ f.state = "finished"
        /\ IF f.ok THEN Take(c, f.origin) ELSE UNCHANGED got
  /\ rfGoto(c, "release")
  /\ UNCHANGED <<closed, cacheGeneration, cache, inflight, flight, caller,
                 waitsFor>>

\* A finished flight nobody refers to any more is garbage.
Collected(fl) ==
  IF fl.state = "finished" /\ fl.waiters = 0 THEN FreeFlight ELSE fl

\* releaseResolverFlight: the last waiter of an unfinished flight takes it out of
\* the map, if it is still there, and cancels it.
ReleaseFlight(c) ==
  LET f == waitsFor[c]
      i == <<flight[f].query, flight[f].generation>>
      left == [flight[f] EXCEPT !.waiters = @ - 1]
      last == left.waiters = 0 /\ left.state # "finished"
  IN /\ at[c] = "release"
     /\ flight' = [flight EXCEPT ![f] =
          IF last THEN [left EXCEPT !.cancelled = TRUE] ELSE Collected(left)]
     /\ inflight' = IF last /\ inflight[i] = f
                      THEN [inflight EXCEPT ![i] = NoFlight] ELSE inflight
     /\ waitsFor' = [waitsFor EXCEPT ![c] = NoFlight]
     /\ rfGoto(c, "done")
     /\ UNCHANGED <<closed, cacheGeneration, cache, caller, got>>

\* A caller's own upstream operation ends; an answer that may be cached is.
DirectResolved(c, cacheable) ==
  /\ at[c] = "direct"
  /\ rfGoto(c, IF cacheable THEN "put" ELSE "done")
  /\ UNCHANGED <<closed, cacheGeneration, cache, inflight, flight, caller,
                 waitsFor, got>>

DirectPut(c) ==
  /\ at[c] = "put"
  /\ CachePut(question[c], started[c], got[c])
  /\ rfGoto(c, "done")
  /\ UNCHANGED <<closed, cacheGeneration, inflight, flight, caller, waitsFor,
                 got>>

\* Resolve returns; its locals go with it.
rfReturn(c) ==
  /\ at[c] = "done"
  /\ at' = [at EXCEPT ![c] = "idle"]
  /\ question' = [question EXCEPT ![c] = NoKey]
  /\ started' = [started EXCEPT ![c] = 0]
  /\ got' = [got EXCEPT ![c] = 0]
  /\ UNCHANGED <<closed, cacheGeneration, cache, inflight, flight, waitsFor>>

-----------------------------------------------------------------------------
(* runResolverFlight *)

\* resolveUncached returns.  A good answer is cached unless the context has
\* ended, the block lists filter it, or its lifetime is zero.
FlightResolved(f, ok, cacheable) ==
  /\ flight[f].state = "running"
  /\ cacheable => ok /\ ~flight[f].cancelled
  /\ flight' = [flight EXCEPT ![f].state = IF cacheable THEN "put" ELSE "publish",
                              ![f].ok = ok]
  /\ UNCHANGED <<closed, cacheGeneration, cache, inflight, at, caller, waitsFor,
                 got>>

FlightPut(f) ==
  /\ flight[f].state = "put"
  /\ CachePut(flight[f].query, flight[f].generation, flight[f].origin)
  /\ flight' = [flight EXCEPT ![f].state = "publish"]
  /\ UNCHANGED <<closed, cacheGeneration, inflight, at, caller, waitsFor, got>>

\* The flight finishes: it leaves the map, if the map still holds it, and its
\* waiters wake.
FlightPublish(f) ==
  LET i == <<flight[f].query, flight[f].generation>> IN
  /\ flight[f].state = "publish"
  /\ flight' = [flight EXCEPT ![f] = Collected([@ EXCEPT !.state = "finished"])]
  /\ inflight' = IF inflight[i] = f
                   THEN [inflight EXCEPT ![i] = NoFlight] ELSE inflight
  /\ UNCHANGED <<closed, cacheGeneration, cache, at, caller, waitsFor, got>>

-----------------------------------------------------------------------------
CallerStep(c) ==
  \/ CheckOpen(c) \/ CacheGet(c) \/ SharedReturns(c) \/ ResolveDirect(c)
  \/ JoinFlight(c) \/ WaitEnds(c) \/ ReleaseFlight(c) \/ DirectPut(c)
  \/ rfReturn(c)
  \/ \E f \in Flights : StartFlight(c, f)
  \/ \E cacheable \in BOOLEAN : DirectResolved(c, cacheable)

FlightStep(f) ==
  \/ FlightPut(f) \/ FlightPublish(f)
  \/ \E ok, cacheable \in BOOLEAN : FlightResolved(f, ok, cacheable)

rfNext ==
  \/ \E c \in Callers : \/ CallerStep(c) \/ CallerCancelled(c)
                        \/ \E k \in Questions : rfBegin(c, k)
  \/ \E f \in Flights : FlightStep(f)
  \/ \E k \in Questions : Expire(k)
  \/ CacheStatus
  \/ ClearCache
  \/ rfClose

-----------------------------------------------------------------------------
\* Types.
rfTypeOK ==
  /\ closed \in BOOLEAN
  /\ cacheGeneration \in Generations
  /\ cache \in [Questions -> Entry]
  /\ inflight \in [Questions \X Generations -> Flights \cup {NoFlight}]
  /\ flight \in [Flights -> Flight]
  /\ at \in [Callers -> CallerPCs]
  /\ question \in [Callers -> Questions \cup {NoKey}]
  /\ started \in [Callers -> Generations]
  /\ waitsFor \in [Callers -> Flights \cup {NoFlight}]
  /\ got \in [Callers -> Generations]

Waiters(f) == {c \in Callers : waitsFor[c] = f}
Unfinished(f) == flight[f].state \in {"running", "put", "publish"}

\* flight.waiters counts the callers that hold the flight, through joins,
\* cancellations and releases in any order.
WaitersCounted == \A f \in Flights : flight[f].waiters = Cardinality(Waiters(f))

\* "One shared operation belongs to its active callers, not to the first caller's
\* context.  It ends when the last waiter leaves or the resolver closes": an
\* unfinished flight is cancelled exactly when nobody waits for it any more or
\* the resolver is closed; no caller's departure cancels another's query.
OwnedByWaiters ==
  \A f \in Flights :
    Unfinished(f) => (flight[f].cancelled <=> (Waiters(f) = {} \/ closed))

\* Every flight that still runs for somebody is the one the map holds for its
\* question and generation, so the same question is never resolved twice at
\* once; and the map holds no other.
Deduplicated ==
  /\ \A f \in Flights :
       Unfinished(f) /\ Waiters(f) # {}
         => inflight[<<flight[f].query, flight[f].generation>>] = f
  /\ \A i \in Questions \X Generations :
       inflight[i] # NoFlight
         => /\ Unfinished(inflight[i]) /\ Waiters(inflight[i]) # {}
            /\ i = <<flight[inflight[i]].query, flight[inflight[i]].generation>>

\* "Clearing answers invalidates writes from requests that already started":
\* what the cache holds was resolved by an operation begun after the last clear.
CacheIsFresh == \A k \in Stored : cache[k].origin = cacheGeneration

\* A caller that started after a clear never gets an answer resolved before it,
\* neither from the cache nor from a flight it joined.
AnswerIsFresh ==
  \A c \in Callers : at[c] = "done" => got[c] >= started[c]

\* The cache and the flight table keep within their limits.
Bounded ==
  /\ Cardinality(Stored) <= CacheSize
  /\ InflightLen <= MaxFlights
  /\ \A f \in Flights : flight[f].waiters <= MaxWaiters

\* Nothing enters the cache of a closed resolver.
ClosedIsFrozen ==
  [][closed => \A k \in Questions : cache'[k] # cache[k] => cache'[k].state # "live"]_rfVars

\* Nobody waits for nothing: the flight of a waiting caller still runs, or has woken it.
FlightGoesOn ==
  \A c \in Callers :
    at[c] = "wait" => /\ waitsFor[c] \in Flights
                      /\ closed \/ Unfinished(waitsFor[c]) \/ flight[waitsFor[c]].state = "finished"

\* Shared flights belong to their callers, are not doubled, and answer no one with what a clear has made obsolete.
FlightsSafe ==
  /\ [](rfTypeOK /\ WaitersCounted /\ OwnedByWaiters /\ Deduplicated /\ CacheIsFresh /\ AnswerIsFresh /\ Bounded /\ FlightGoesOn)
  /\ ClosedIsFrozen
=============================================================================
