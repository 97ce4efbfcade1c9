------------------------------- MODULE WsPool -------------------------------
(***************************************************************************)
(* The pool of warm WebSockets of the Telegram proxy, one bucket of it:    *)
(* clients take sockets and never dial, a refill runs in the background,   *)
(* one maintenance goroutine probes idle sockets outside the mutex, and    *)
(* the stop of the proxy cancels and resets the pool while they all run.   *)
(***************************************************************************)
EXTENDS Naturals, Sequences, FiniteSets, SequencesExt

CONSTANTS
    WpTarget,   \* warm sockets wanted
    WpSocks     \* sockets that may ever be dialled

ASSUME wpAssumption == WpTarget \in Nat /\ WpSocks \subseteq Nat \ {0}

VARIABLES
    wpIdle,      \* the bucket
    wpCheck,     \* the socket with a done channel in p.checking, or 0
    wpReset,     \* the pool was reset: p.generation has moved on
    wpRefilling, \* p.refilling has the bucket
    wpRefill,    \* the refill goroutine
    wpCooling,   \* refillAfter is in the future
    wpRotate,    \* the maintenance goroutine
    wpWaiting,   \* a client waits on the done channel of a probe
    wpLent, wpOpen, \* sockets of clients; sockets not closed
    wpSick,      \* sockets that are too old or closed by the peer
    wpUsed,      \* sockets dialled so far
    wpKnown,     \* the bucket was asked for
    wpDone       \* the context of the proxy is cancelled

wpVars == <<wpIdle, wpCheck, wpReset, wpRefilling, wpRefill, wpCooling, wpRotate, wpWaiting,
            wpLent, wpOpen, wpSick, wpUsed, wpKnown, wpDone>>

NoRefill == [at |-> "none", todo |-> 0, got |-> 0, ready |-> {}]
Asleep == [at |-> "idle", rest |-> <<>>, ws |-> 0]

wpInit ==
    /\ wpIdle = <<>> /\ wpCheck = 0 /\ wpReset = FALSE /\ wpRefilling = FALSE
    /\ wpRefill = NoRefill
    /\ wpCooling = FALSE /\ wpRotate = Asleep /\ wpWaiting = FALSE
    /\ wpLent = {} /\ wpOpen = {} /\ wpSick = {} /\ wpUsed = {}
    /\ wpKnown = FALSE /\ wpDone = FALSE

-----------------------------------------------------------------------------
scheduleRefill ==
    IF wpDone THEN UNCHANGED <<wpKnown, wpRefilling, wpRefill>>
    ELSE /\ wpKnown' = TRUE
         /\ IF wpRefilling \/ wpCooling THEN UNCHANGED <<wpRefilling, wpRefill>>
            ELSE /\ wpRefilling' = TRUE
                 /\ wpRefill' = [NoRefill EXCEPT !.at = "start"]

\* warmup when the proxy starts.
wpWarmup ==
    /\ ~wpKnown /\ scheduleRefill
    /\ UNCHANGED <<wpIdle, wpCheck, wpReset, wpCooling, wpRotate, wpWaiting, wpLent, wpOpen, wpSick, wpUsed, wpDone>>

\* acquire: probed sockets are passed over, stale ones closed.
Usable(s) == s # wpCheck /\ s \notin wpSick
Stale(k) == {wpIdle[i] : i \in 1..k} \cap (wpSick \ {wpCheck})

\* Of the first k the one under probe stays in the bucket.
Kept(k) == IF wpCheck \in {wpIdle[i] : i \in 1..k} THEN <<wpCheck>> ELSE <<>>

wpAcquire ==
    /\ ~wpDone /\ wpKnown /\ ~wpWaiting
    /\ \E k \in 1..Len(wpIdle) :
          /\ Usable(wpIdle[k]) /\ \A i \in 1..(k - 1) : ~Usable(wpIdle[i])
          /\ wpIdle' = Kept(k - 1) \o SubSeq(wpIdle, k + 1, Len(wpIdle))
          /\ wpLent' = wpLent \cup {wpIdle[k]}
          /\ wpOpen' = wpOpen \ Stale(k)
    /\ scheduleRefill
    /\ UNCHANGED <<wpCheck, wpReset, wpCooling, wpRotate, wpWaiting, wpSick, wpUsed, wpDone>>

\* Nothing usable: wait for the probe, or go on without a warm socket.
wpMiss ==
    /\ ~wpDone /\ wpKnown /\ ~wpWaiting /\ \A i \in 1..Len(wpIdle) : ~Usable(wpIdle[i])
    /\ wpIdle' = Kept(Len(wpIdle))
    /\ wpOpen' = wpOpen \ Stale(Len(wpIdle))
    /\ wpWaiting' = (wpIdle' # <<>>)
    /\ IF wpWaiting' THEN UNCHANGED <<wpKnown, wpRefilling, wpRefill>> ELSE scheduleRefill
    /\ UNCHANGED <<wpCheck, wpReset, wpCooling, wpRotate, wpLent, wpSick, wpUsed, wpDone>>

\* The context ends while the client waits for a probe.
wpGiveUp ==
    /\ wpDone /\ wpWaiting /\ wpWaiting' = FALSE
    /\ UNCHANGED <<wpIdle, wpCheck, wpReset, wpRefilling, wpRefill, wpCooling, wpRotate, wpLent,
                   wpOpen, wpSick, wpUsed, wpKnown, wpDone>>

\* The bridge of the client ends and closes its socket.
wpRelease(s) ==
    /\ s \in wpLent
    /\ wpLent' = wpLent \ {s} /\ wpOpen' = wpOpen \ {s}
    /\ UNCHANGED <<wpIdle, wpCheck, wpReset, wpRefilling, wpRefill, wpCooling, wpRotate, wpWaiting,
                   wpSick, wpUsed, wpKnown, wpDone>>

-----------------------------------------------------------------------------

\* refill: how many are missing is counted when it starts.
current == ~wpDone /\ ~wpReset

needed == WpTarget - Len(wpIdle)
refill ==
    /\ wpRefill.at = "start"
    /\ wpRefill' = [wpRefill EXCEPT !.at =
                        IF current /\ Len(wpIdle) < WpTarget THEN "dial" ELSE "exit",
                                      !.todo = IF current /\ Len(wpIdle) < WpTarget
                                                  THEN needed ELSE 0]
    /\ UNCHANGED <<wpIdle, wpCheck, wpReset, wpRefilling, wpCooling, wpRotate, wpWaiting, wpLent,
                   wpOpen, wpSick, wpUsed, wpKnown, wpDone>>

\* connectOneResult: a socket, a failure, or no slot of the handshake limiter.
\* A dial may succeed after the context was cancelled.
connectOneResult ==
    /\ wpRefill.at = "dial" /\ wpRefill.todo > 0
    /\ \/ \E s \in WpSocks \ wpUsed :
             /\ \A t \in WpSocks \ wpUsed : s <= t
             /\ wpUsed' = wpUsed \cup {s} /\ wpOpen' = wpOpen \cup {s}
             /\ wpRefill' = [wpRefill EXCEPT !.todo = @ - 1, !.ready = @ \cup {s}]
       \/ /\ wpRefill' = [wpRefill EXCEPT !.todo = @ - 1]
          /\ UNCHANGED <<wpUsed, wpOpen>>
    /\ UNCHANGED <<wpIdle, wpCheck, wpReset, wpRefilling, wpCooling, wpRotate, wpWaiting, wpLent,
                   wpSick, wpKnown, wpDone>>

\* A late socket is dropped.
dropResult(s) ==
    IF current THEN wpIdle' = Append(wpIdle, s) /\ UNCHANGED wpOpen
    ELSE UNCHANGED <<wpIdle, wpOpen>>

\* Each result is put into the bucket, or closed when the pool has moved on.
keepResult(s) ==
    IF current
    THEN wpIdle' = Append(wpIdle, s) /\ UNCHANGED wpOpen
    ELSE wpOpen' = wpOpen \ {s} /\ UNCHANGED wpIdle

takeResult(s) ==
    /\ s \in wpRefill.ready
    /\ keepResult(s)
    /\ wpRefill' = [wpRefill EXCEPT !.ready = @ \ {s},
                                      !.got = IF current THEN @ + 1 ELSE @]
    /\ UNCHANGED <<wpCheck, wpReset, wpRefilling, wpCooling, wpRotate, wpWaiting, wpLent,
                   wpSick, wpUsed, wpKnown, wpDone>>

\* All results taken: no socket at all starts a back-off.
refillBackoff ==
    /\ wpRefill.at = "dial" /\ wpRefill.todo = 0 /\ wpRefill.ready = {}
    /\ wpRefill' = [wpRefill EXCEPT !.at = "exit"]
    /\ wpCooling' = IF current THEN wpRefill.got = 0 ELSE wpCooling
    /\ UNCHANGED <<wpIdle, wpCheck, wpReset, wpRefilling, wpRotate, wpWaiting, wpLent, wpOpen, wpSick, wpUsed, wpKnown, wpDone>>

\* The deferred end of refill.
refillExit ==
    /\ wpRefill.at = "exit"
    /\ wpRefill' = NoRefill
    /\ wpRefilling' = FALSE
    /\ UNCHANGED <<wpIdle, wpCheck, wpReset, wpCooling, wpRotate, wpWaiting, wpLent, wpOpen, wpSick, wpUsed, wpKnown, wpDone>>

CoolingEnds ==
    /\ wpCooling /\ wpCooling' = FALSE
    /\ UNCHANGED <<wpIdle, wpCheck, wpReset, wpRefilling, wpRefill, wpRotate, wpWaiting, wpLent,
                   wpOpen, wpSick, wpUsed, wpKnown, wpDone>>

-----------------------------------------------------------------------------
\* stop: the context is cancelled, then everything idle is closed and waiting
\* clients go on; maintain resets the pool again when it sees the end.
cancelPool ==
    /\ ~wpDone /\ wpDone' = TRUE
    /\ UNCHANGED <<wpIdle, wpCheck, wpReset, wpRefilling, wpRefill, wpCooling, wpRotate, wpWaiting,
                   wpLent, wpOpen, wpSick, wpUsed, wpKnown>>

wakeWaiters == FALSE
resetPool ==
    /\ wpIdle' = <<>> /\ wpCheck' = 0 /\ wpRefilling' = FALSE
    /\ wpOpen' = wpOpen \ ToSet(wpIdle)
    /\ wpWaiting' = wakeWaiters
    /\ wpReset' = TRUE /\ wpCooling' = FALSE /\ wpKnown' = FALSE
    /\ UNCHANGED <<wpRefill, wpLent, wpSick, wpUsed, wpDone>>
stopResets == wpDone /\ ~wpReset /\ resetPool /\ UNCHANGED wpRotate
maintainStops ==
    /\ wpDone /\ wpRotate.at = "idle" /\ resetPool
    /\ wpRotate' = [Asleep EXCEPT !.at = "stopped"]

\* rotate: the sockets of the bucket are probed one at a time.
rotate ==
    /\ wpRotate.at = "idle" /\ wpKnown
    /\ wpRotate' = [at |-> "next", rest |-> wpIdle, ws |-> 0]
    /\ UNCHANGED <<wpIdle, wpCheck, wpReset, wpRefilling, wpRefill, wpCooling, wpWaiting, wpLent,
                   wpOpen, wpSick, wpUsed, wpKnown, wpDone>>

\* The socket must still be in the bucket.
StillIdle(s) == s \in ToSet(wpIdle)
Without(s) ==
    LET k == CHOOSE i \in 1..Len(wpIdle) : wpIdle[i] = s
    IN  SubSeq(wpIdle, 1, k - 1) \o SubSeq(wpIdle, k + 1, Len(wpIdle))
rotateNext ==
    /\ wpRotate.at = "next" /\ wpRotate.rest # <<>>
    /\ LET s == Head(wpRotate.rest)
       IN  IF ~current THEN wpRotate' = Asleep /\ UNCHANGED wpCheck
           ELSE IF ~StillIdle(s)
           THEN wpRotate' = [wpRotate EXCEPT !.rest = Tail(@)] /\ UNCHANGED wpCheck
           ELSE /\ wpRotate' = [wpRotate EXCEPT !.at = "probe", !.rest = Tail(@), !.ws = s]
                /\ wpCheck' = s
    /\ UNCHANGED <<wpIdle, wpReset, wpRefilling, wpRefill, wpCooling, wpWaiting, wpLent,
                   wpOpen, wpSick, wpUsed, wpKnown, wpDone>>

rotateProbed ==
    /\ wpRotate.at = "probe"
    /\ LET s == wpRotate.ws
           healthy == s \notin wpSick /\ s \in wpOpen
       IN  /\ IF wpCheck = s
              THEN /\ wpCheck' = 0 /\ wpWaiting' = FALSE
                   /\ wpIdle' = IF healthy \/ ~StillIdle(s) THEN wpIdle ELSE Without(s)
              ELSE UNCHANGED <<wpCheck, wpWaiting, wpIdle>>
           /\ wpOpen' = IF healthy THEN wpOpen ELSE wpOpen \ {s}
    /\ wpRotate' = [wpRotate EXCEPT !.at = "next", !.ws = 0]
    /\ UNCHANGED <<wpReset, wpRefilling, wpRefill, wpCooling, wpLent, wpSick, wpUsed,
                   wpKnown, wpDone>>

shortOfSockets == wpKnown /\ Len(wpIdle) < WpTarget
rotateEnd ==
    /\ wpRotate.at = "next" /\ wpRotate.rest = <<>>
    /\ wpRotate' = Asleep
    /\ IF shortOfSockets THEN scheduleRefill
       ELSE UNCHANGED <<wpKnown, wpRefilling, wpRefill>>
    /\ UNCHANGED <<wpIdle, wpCheck, wpReset, wpCooling, wpWaiting, wpLent, wpOpen,
                   wpSick, wpUsed, wpDone>>

\* The peer closes an idle socket, or it reaches poolMaxAge.
SocketAges(s) ==
    /\ s \in ToSet(wpIdle) \ wpSick /\ wpSick' = wpSick \cup {s}
    /\ UNCHANGED <<wpIdle, wpCheck, wpReset, wpRefilling, wpRefill, wpCooling, wpRotate, wpWaiting,
                   wpLent, wpOpen, wpUsed, wpKnown, wpDone>>

wpNext ==
    \/ wpWarmup \/ wpAcquire \/ wpMiss \/ wpGiveUp \/ CoolingEnds \/ cancelPool \/ stopResets
    \/ maintainStops \/ rotate \/ rotateNext \/ rotateProbed \/ rotateEnd
    \/ \E s \in WpSocks : wpRelease(s) \/ SocketAges(s) \/ takeResult(s)
    \/ refill \/ connectOneResult \/ refillBackoff \/ refillExit

-----------------------------------------------------------------------------
\* The bucket never holds more sockets than wanted, although clients take
\* sockets and the probe drops some while a refill is dialling.
PoolBounded == Len(wpIdle) <= WpTarget

\* A socket of a client is out of the pool: nobody probes it, hands it to
\* another client or closes it.
LentIsExclusive ==
    \A s \in wpLent : /\ s \in wpOpen /\ s \notin ToSet(wpIdle)
                      /\ s # wpCheck
                      /\ wpRotate.at = "probe" => wpRotate.ws # s

\* Every open socket belongs to somebody who will use or close it.
NoSocketLeak ==
    wpOpen \subseteq ToSet(wpIdle) \cup wpLent \cup wpRefill.ready

\* A client that waits for a probe waits for one that will still report.
WaitIsAnswered == wpWaiting => wpCheck # 0 /\ wpRotate.at = "probe"

\* After the reset of a stop nothing becomes idle again.
StoppedStaysEmpty == wpReset => wpIdle = <<>>

\* Warm sockets are bounded, exclusive and owned, and nobody waits for nothing.
PoolSafe == PoolBounded /\ LentIsExclusive /\ NoSocketLeak /\ WaitIsAnswered /\ StoppedStaysEmpty
=============================================================================
