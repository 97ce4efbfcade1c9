--------------------------- MODULE SocksLifecycle ---------------------------
(***************************************************************************)
(* The SOCKS5 front of the Telegram proxy.  Its manager has one mutex for  *)
(* its fields and none for an operation as a whole: two requests of the    *)
(* panel interleave between the steps of Stop and Start.  Each start has a *)
(* listener, an accept loop and a set of connections of its own; a client  *)
(* is greeted, then tunnelled to Telegram or relayed directly.             *)
(***************************************************************************)
EXTENDS Naturals, Sequences, FiniteSets

CONSTANTS
    SkCallers,  \* concurrent requests to the panel
    SkClients,  \* clients of the proxy
    SkStarts    \* bound on starts: 1..SkStarts

ASSUME skAssumption == SkStarts \in Nat

VARIABLES
    skOp,       \* what is left of the operation of a caller, and the start it stops
    skEnabled,  \* Enabled of m.cfg
    skRun,      \* m.running
    skNow,      \* the start that m.ln, m.cancel and m.conns belong to, or 0
    skOpenLn,   \* starts whose listener is open
    skLoops,    \* starts whose accept loop runs: the count of m.wg
    skDone,     \* starts whose context is cancelled
    skShut,     \* starts whose set of connections is closed
    skSess,     \* where each client is, and of which start
    skOpen, skUp, \* clients with an open connection, with an open upstream
    skMade      \* starts so far

skVars == <<skOp, skEnabled, skRun, skNow, skOpenLn, skLoops, skDone, skShut, skSess, skOpen,
            skUp, skMade>>
skManager == <<skEnabled, skRun, skNow, skDone, skShut, skMade, skOp>>

skOut == [at |-> "out", of |-> 0]
skInit ==
    /\ skOp = [c \in SkCallers |-> [todo |-> <<>>, of |-> 0]]
    /\ skEnabled = FALSE /\ skRun = FALSE /\ skNow = 0 /\ skOpenLn = {} /\ skLoops = {}
    /\ skDone = {} /\ skShut = {} /\ skMade = 0
    /\ skSess = [c \in SkClients |-> skOut] /\ skOpen = {} /\ skUp = {}

skStep(c, a) == skOp[c].todo # <<>> /\ Head(skOp[c].todo) = a
skDrop(c) == skOp' = [skOp EXCEPT ![c].todo = Tail(@)]

-----------------------------------------------------------------------------
SkStop == <<"mark", "cancel", "close", "drop", "wait">>
SkRestart == <<"mark", "cancel", "close", "drop", "wait", "start">>
skPlan(stop, start) ==
    IF stop THEN (IF start THEN SkRestart ELSE SkStop) ELSE (IF start THEN <<"start">> ELSE <<>>)

\* SetConfig reads running and replaces the configuration in one section.
SetConfig(c, enabled) ==
    /\ skOp[c].todo = <<>> /\ skMade < SkStarts
    /\ skEnabled' = enabled
    /\ skOp' = [skOp EXCEPT ![c].todo = skPlan(skRun, enabled)]
    /\ UNCHANGED <<skRun, skNow, skOpenLn, skLoops, skDone, skShut, skSess, skOpen, skUp, skMade>>
SocksStop(c) ==
    /\ skOp[c].todo = <<>> /\ skRun /\ skOp' = [skOp EXCEPT ![c].todo = SkStop]
    /\ UNCHANGED <<skEnabled, skRun, skNow, skOpenLn, skLoops, skDone, skShut, skSess, skOpen, skUp, skMade>>
SocksRestart(c) ==
    /\ skOp[c].todo = <<>> /\ skMade < SkStarts
    /\ skOp' = [skOp EXCEPT ![c].todo = SkRestart]
    /\ UNCHANGED <<skEnabled, skRun, skNow, skOpenLn, skLoops, skDone, skShut, skSess, skOpen, skUp, skMade>>

\* Start, under the mutex; the port may still be taken.
SocksStart(c) ==
    /\ skStep(c, "start") /\ skDrop(c)
    /\ IF skRun \/ skOpenLn # {} \/ skMade = SkStarts
       THEN UNCHANGED <<skRun, skNow, skOpenLn, skLoops, skMade>>
       ELSE /\ skMade' = skMade + 1 /\ skRun' = TRUE /\ skNow' = skMade'
            /\ skOpenLn' = {skMade'} /\ skLoops' = skLoops \cup {skMade'}
    /\ UNCHANGED <<skEnabled, skDone, skShut, skSess, skOpen, skUp>>

takenConnsLate(c) == skNow

\* Stop takes listener, context and connections under the mutex and ends them
\* after it.
taken(c) == skOp[c].of
takenConns(c) == skOp[c].of
\* What is left for a caller whose stop finds nothing running.
skStarting(todo) == IF todo[Len(todo)] = "start" THEN <<"start">> ELSE <<>>
SocksMark(c) ==
    /\ skStep(c, "mark")
    /\ IF skRun
       THEN /\ skRun' = FALSE /\ skNow' = 0
            /\ skOp' = [skOp EXCEPT ![c] = [todo |-> Tail(@.todo), of |-> skNow]]
       ELSE /\ skOp' = [skOp EXCEPT ![c].todo = skStarting(@)]
            /\ UNCHANGED <<skRun, skNow>>
    /\ UNCHANGED <<skEnabled, skOpenLn, skLoops, skDone, skShut, skSess, skOpen, skUp, skMade>>
SocksCancel(c) ==
    /\ skStep(c, "cancel") /\ skDrop(c) /\ skDone' = skDone \cup {taken(c)}
    /\ UNCHANGED <<skEnabled, skRun, skNow, skOpenLn, skLoops, skShut, skSess, skOpen, skUp, skMade>>
SocksClose(c) ==
    /\ skStep(c, "close") /\ skDrop(c) /\ skOpenLn' = skOpenLn \ {taken(c)}
    /\ UNCHANGED <<skEnabled, skRun, skNow, skLoops, skDone, skShut, skSess, skOpen, skUp, skMade>>
SocksDrop(c) ==
    /\ skStep(c, "drop") /\ skDrop(c) /\ skShut' = skShut \cup {takenConns(c)}
    /\ skOpen' = {d \in skOpen : skSess[d].of # takenConns(c)}
    /\ UNCHANGED <<skEnabled, skRun, skNow, skOpenLn, skLoops, skDone, skSess, skUp, skMade>>

\* wg.Wait: the group counts the loops of every start.
SocksWait(c) ==
    /\ skStep(c, "wait") /\ skLoops = {} /\ skDrop(c)
    /\ UNCHANGED <<skEnabled, skRun, skNow, skOpenLn, skLoops, skDone, skShut, skSess, skOpen, skUp, skMade>>

-----------------------------------------------------------------------------
\* acceptLoop: the connection it has accepted is tracked in a second step.
Holding(n) == \E c \in SkClients : skSess[c] = [at |-> "accepted", of |-> n]
socksAccept(c, n) ==
    /\ n \in skLoops \cap skOpenLn /\ skSess[c] = skOut /\ ~Holding(n)
    /\ skSess' = [skSess EXCEPT ![c] = [at |-> "accepted", of |-> n]]
    /\ UNCHANGED <<skManager, skOpenLn, skLoops, skOpen, skUp>>

\* connSet.add: a closed set closes the connection.
tracks(n) == n \notin skShut
connSetAdd(c) ==
    /\ skSess[c].at = "accepted"
    /\ IF tracks(skSess[c].of)
       THEN skSess' = [skSess EXCEPT ![c].at = "greet"] /\ skOpen' = skOpen \cup {c}
       ELSE skSess' = [skSess EXCEPT ![c] = skOut] /\ UNCHANGED skOpen
    /\ UNCHANGED <<skManager, skOpenLn, skLoops, skUp>>
\* It ends with the first error of its listener.
socksAcceptEnds(n) ==
    /\ n \in skLoops \ skOpenLn /\ ~Holding(n) /\ skLoops' = skLoops \ {n}
    /\ UNCHANGED <<skManager, skOpenLn, skSess, skOpen, skUp>>

skMove(c, at) == skSess' = [skSess EXCEPT ![c].at = at]
\* greet and auth, then readConnect; a refused or silent client is dropped.
greet(c) ==
    /\ skSess[c].at = "greet" /\ \E at \in {"connect", "end"} : skMove(c, at)
    /\ UNCHANGED <<skManager, skOpenLn, skLoops, skOpen, skUp>>
readConnect(c) ==
    /\ skSess[c].at = "connect" /\ \E at \in {"tunnel", "relay", "end"} : skMove(c, at)
    /\ UNCHANGED <<skManager, skOpenLn, skLoops, skOpen, skUp>>

\* tunnelWS and directRelay dial under the context of their start.  A first
\* frame that cannot be sent closes the socket again.
tunnelWS(c) ==
    /\ skSess[c].at = "tunnel"
    /\ \/ skSess[c].of \notin skDone /\ skMove(c, "pipe") /\ skUp' = skUp \cup {c}
       \/ skMove(c, "end") /\ UNCHANGED skUp
    /\ UNCHANGED <<skManager, skOpenLn, skLoops, skOpen>>
directRelay(c) ==
    /\ skSess[c].at = "relay"
    /\ \/ skSess[c].of \notin skDone /\ skMove(c, "pipe") /\ skUp' = skUp \cup {c}
       \/ skMove(c, "end") /\ UNCHANGED skUp
    /\ UNCHANGED <<skManager, skOpenLn, skLoops, skOpen>>
\* The first pump to end closes both sides, the other one follows.
pumpEnds(c) == skUp' = skUp \ {c} /\ skOpen' = skOpen \ {c}
bridgeTransparent(c) ==
    /\ skSess[c].at = "pipe" /\ skMove(c, "end") /\ pumpEnds(c)
    /\ UNCHANGED <<skManager, skOpenLn, skLoops>>
socksHandled(c) ==
    /\ skSess[c].at = "end" /\ skSess' = [skSess EXCEPT ![c] = skOut] /\ skOpen' = skOpen \ {c}
    /\ UNCHANGED <<skManager, skOpenLn, skLoops, skUp>>

skNext ==
    \/ \E c \in SkCallers :
         \/ \E enabled \in BOOLEAN : SetConfig(c, enabled)
         \/ SocksStop(c) \/ SocksRestart(c) \/ SocksStart(c) \/ SocksMark(c) \/ SocksCancel(c)
         \/ SocksClose(c) \/ SocksDrop(c) \/ SocksWait(c)
    \/ \E n \in 1..SkStarts : socksAcceptEnds(n) \/ \E c \in SkClients : socksAccept(c, n)
    \/ \E c \in SkClients : \/ connSetAdd(c) \/ greet(c) \/ readConnect(c) \/ tunnelWS(c) \/ directRelay(c)
                            \/ bridgeTransparent(c) \/ socksHandled(c)

-----------------------------------------------------------------------------
\* A stop ends the start it took and never the one that another request has
\* begun meanwhile: what runs has its listener, its accept loop, a live context
\* and an open set of connections.
RunningIsServed ==
    skRun => /\ skNow \in skOpenLn \cap skLoops
             /\ skNow \notin skDone \cup skShut

\* Nothing is left over by interleaved requests: a listener, an accept loop or
\* a live context belongs to the running start or to a stop under way.
NothingLeftOver ==
    \A n \in 1..skMade :
        \/ n = skNow
        \/ n \in skDone /\ n \in skShut /\ n \notin skOpenLn
        \/ \E c \in SkCallers : skOp[c].of = n /\ skOp[c].todo # <<>>

\* After a stop has dropped the connections of a start no client of that start
\* has an open one, and an upstream socket is open only while it is pumped.
SocksClientsDropped ==
    /\ \A c \in skOpen : skSess[c].of \notin skShut
    /\ \A c \in skUp : skSess[c].at = "pipe"

\* Interleaved starts and stops end what they took and nothing else.
SocksSafe == RunningIsServed /\ NothingLeftOver /\ SocksClientsDropped
=============================================================================
