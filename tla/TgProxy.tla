------------------------------ MODULE TgProxy ------------------------------
(***************************************************************************)
(* The Telegram proxy: its manager starts, stops and restarts it, the      *)
(* accept loop reopens a listener that failed, every client walks through  *)
(* the routes (CF worker, CF proxy, plain TCP) and is bridged by two       *)
(* goroutines.  A stop runs while all of them run and waits for them.      *)
(***************************************************************************)
EXTENDS Naturals, Sequences, FiniteSets

CONSTANTS
    TpClients,    \* clients that may connect
    TpListeners,  \* bound on listeners opened: 1..TpListeners
    TpOps         \* bound on operations of the manager

ASSUME tpAssumption == TpListeners \in Nat /\ TpOps \in Nat

VARIABLES
    tpOp,        \* what is left of the operation that holds opMu
    tpRunning,   \* m.running
    tpDone,      \* the context is cancelled
    tpLn,        \* m.ln, or 0
    tpStopLn,    \* the listener a stop took from m.ln
    tpOpenLn,    \* listeners that are open
    tpAcc,       \* the accept loop and the listener it uses
    tpConns,     \* connSet: the clients it tracks, and whether it is closed
    tpSess,      \* where each client is
    tpOpen,      \* clients whose connection is open
    tpUp,        \* clients with an open upstream connection
    tpWorker,    \* the pool of warm worker sockets
    tpTcp,       \* the back-off of the TCP fallback
    tpLns, tpOps \* listeners opened and operations so far

tpVars == <<tpOp, tpRunning, tpDone, tpLn, tpStopLn, tpOpenLn, tpAcc, tpConns, tpSess, tpOpen,
            tpUp, tpWorker, tpTcp, tpLns, tpOps>>
tpManager == <<tpOp, tpRunning, tpDone, tpLn, tpStopLn, tpOps>>
tpClient == <<tpConns, tpSess, tpOpen, tpUp, tpTcp>>

NoAccept == [at |-> "gone", ln |-> 0]
tpInit ==
    /\ tpOp = <<>> /\ tpRunning = FALSE /\ tpDone = TRUE /\ tpLn = 0 /\ tpStopLn = 0
    /\ tpOpenLn = {} /\ tpAcc = NoAccept
    /\ tpConns = [set |-> {}, closed |-> TRUE]
    /\ tpSess = [c \in TpClients |-> "out"] /\ tpOpen = {} /\ tpUp = {}
    /\ tpWorker = [idle |-> FALSE, refill |-> "none", closed |-> TRUE]
    /\ tpTcp = [connecting |-> FALSE, cooling |-> FALSE]
    /\ tpLns = 0 /\ tpOps = 0

-----------------------------------------------------------------------------
StopSteps == <<"mark", "cancel", "closeListener", "dropConns", "closeWorkers", "waitWorkers",
               "wait">>
RestartSteps == <<"mark", "cancel", "closeListener", "dropConns", "closeWorkers", "waitWorkers",
                  "wait", "start">>
tpStep(a) == tpOp # <<>> /\ Head(tpOp) = a /\ tpOp' = Tail(tpOp)

\* Start, Stop, Restart and SetConfig of a running proxy.
tpBegin(op) ==
    /\ tpOp = <<>> /\ tpOps < TpOps /\ tpOps' = tpOps + 1 /\ tpOp' = op
    /\ UNCHANGED <<tpRunning, tpDone, tpLn, tpStopLn, tpOpenLn, tpAcc, tpClient, tpWorker, tpLns>>
Operate == \E op \in {<<"start">>, StopSteps, RestartSteps} : tpBegin(op)

\* start: the pools, the listener, the accept loop, the warm-up.
start ==
    /\ tpStep("start")
    /\ IF tpRunning
       THEN UNCHANGED <<tpRunning, tpDone, tpLn, tpOpenLn, tpAcc, tpConns, tpTcp, tpWorker, tpLns>>
       ELSE \/ /\ tpOpenLn = {} /\ tpLns < TpListeners
               /\ LET n == tpLns + 1
                  IN  /\ tpLns' = n /\ tpLn' = n /\ tpOpenLn' = {n}
                      /\ tpAcc' = [at |-> "accept", ln |-> n]
               /\ tpRunning' = TRUE /\ tpDone' = FALSE
               /\ tpConns' = [set |-> {}, closed |-> FALSE]
               /\ tpTcp' = [connecting |-> FALSE, cooling |-> FALSE]
               /\ tpWorker' = [idle |-> FALSE, refill |-> "dial", closed |-> FALSE]
            \/ UNCHANGED <<tpRunning, tpDone, tpLn, tpOpenLn, tpAcc, tpConns, tpTcp, tpWorker, tpLns>>
    /\ UNCHANGED <<tpStopLn, tpSess, tpOpen, tpUp, tpOps>>

\* stop, one critical section or call after the other; the reset of the pool of
\* native sockets is in module WsPool.
tpStarting == IF tpOp[Len(tpOp)] = "start" THEN <<"start">> ELSE <<>>
stopMark ==
    /\ tpOp # <<>> /\ Head(tpOp) = "mark"
    /\ IF tpRunning
       THEN /\ tpOp' = Tail(tpOp) /\ tpRunning' = FALSE /\ tpStopLn' = tpLn /\ tpLn' = 0
       ELSE /\ tpOp' = tpStarting
            /\ UNCHANGED <<tpRunning, tpStopLn, tpLn>>
    /\ UNCHANGED <<tpDone, tpOpenLn, tpAcc, tpClient, tpWorker, tpLns, tpOps>>
stopCancel ==
    /\ tpStep("cancel") /\ tpDone' = TRUE
    /\ UNCHANGED <<tpRunning, tpLn, tpStopLn, tpOpenLn, tpAcc, tpClient, tpWorker, tpLns, tpOps>>
stopCloseListener ==
    /\ tpStep("closeListener") /\ tpOpenLn' = tpOpenLn \ {tpStopLn}
    /\ UNCHANGED <<tpRunning, tpDone, tpLn, tpStopLn, tpAcc, tpClient, tpWorker, tpLns, tpOps>>
closeAll ==
    /\ tpStep("dropConns")
    /\ tpOpen' = tpOpen \ tpConns.set /\ tpConns' = [set |-> {}, closed |-> TRUE]
    /\ UNCHANGED <<tpRunning, tpDone, tpLn, tpStopLn, tpOpenLn, tpAcc, tpSess, tpUp, tpTcp,
                   tpWorker, tpLns, tpOps>>
closeWorkers ==
    /\ tpStep("closeWorkers")
    /\ tpWorker' = [tpWorker EXCEPT !.closed = TRUE, !.idle = FALSE]
    /\ UNCHANGED <<tpRunning, tpDone, tpLn, tpStopLn, tpOpenLn, tpAcc, tpClient, tpLns, tpOps>>

NotWaited == TRUE

\* close waits until even a late dial has been closed.
WorkersGone == tpWorker.refill = "none"
waitWorkers ==
    /\ tpStep("waitWorkers") /\ WorkersGone
    /\ UNCHANGED <<tpRunning, tpDone, tpLn, tpStopLn, tpOpenLn, tpAcc, tpClient, tpWorker, tpLns, tpOps>>
stopWait ==
    /\ tpStep("wait") /\ tpAcc.at = "gone" /\ \A c \in TpClients : tpSess[c] = "out"
    /\ UNCHANGED <<tpRunning, tpDone, tpLn, tpStopLn, tpOpenLn, tpAcc, tpClient, tpWorker, tpLns, tpOps>>

-----------------------------------------------------------------------------
\* acceptLoop: a failed listener is reopened until the context ends.
ListenerFails ==
    /\ tpAcc.at = "accept" /\ tpAcc.ln \in tpOpenLn
    /\ tpOpenLn' = tpOpenLn \ {tpAcc.ln}
    /\ tpAcc' = IF tpDone THEN NoAccept ELSE [tpAcc EXCEPT !.at = "reopen"]
    /\ UNCHANGED <<tpManager, tpClient, tpWorker, tpLns>>
acceptFails ==
    /\ tpAcc.at = "accept" /\ tpAcc.ln \notin tpOpenLn
    /\ tpAcc' = IF tpDone THEN NoAccept ELSE [tpAcc EXCEPT !.at = "reopen"]
    /\ UNCHANGED <<tpManager, tpOpenLn, tpClient, tpWorker, tpLns>>
reopen ==
    /\ tpAcc.at = "reopen"
    /\ \/ tpDone /\ tpAcc' = NoAccept /\ UNCHANGED <<tpOpenLn, tpLns>>
       \/ /\ tpLns < TpListeners /\ tpLns' = tpLns + 1
          /\ tpOpenLn' = tpOpenLn \cup {tpLns'} /\ tpAcc' = [at |-> "reopened", ln |-> tpLns']
    /\ UNCHANGED <<tpManager, tpClient, tpWorker>>
publishListener ==
    /\ tpAcc.at = "reopened"
    /\ IF tpDone
       THEN tpOpenLn' = tpOpenLn \ {tpAcc.ln} /\ tpAcc' = NoAccept /\ UNCHANGED tpLn
       ELSE tpLn' = tpAcc.ln /\ tpAcc' = [tpAcc EXCEPT !.at = "accept"] /\ UNCHANGED tpOpenLn
    /\ UNCHANGED <<tpOp, tpRunning, tpDone, tpStopLn, tpOps, tpClient, tpWorker, tpLns>>

\* connSet.add: a closed set takes nobody in.
admits == ~tpConns.closed
accept(c) ==
    /\ tpAcc.at = "accept" /\ tpAcc.ln \in tpOpenLn /\ tpSess[c] = "out"
    /\ IF admits
       THEN /\ tpConns' = [tpConns EXCEPT !.set = @ \cup {c}]
            /\ tpSess' = [tpSess EXCEPT ![c] = "hello"] /\ tpOpen' = tpOpen \cup {c}
       ELSE UNCHANGED <<tpConns, tpSess, tpOpen>>
    /\ UNCHANGED <<tpManager, tpOpenLn, tpAcc, tpUp, tpTcp, tpWorker, tpLns>>

-----------------------------------------------------------------------------
tpMove(c, at) == tpSess' = [tpSess EXCEPT ![c] = at]

\* handle reads the handshake, through Fake-TLS or plainly; a client that is
\* not ours is drained, redirected or relayed to the masking domain until its
\* connection ends.
readInit(c) ==
    /\ tpSess[c] = "hello" /\ \E at \in {"auth", "end"} : tpMove(c, at)
    /\ UNCHANGED <<tpManager, tpOpenLn, tpAcc, tpConns, tpOpen, tpUp, tpTcp, tpWorker, tpLns>>

\* serveAuthenticated: a warm native socket, never a dial; otherwise the
\* fallbacks in their order: CF worker, media over HTTP/2, CF WebSocket, TCP.
serveAuthenticated(c) ==
    /\ tpSess[c] = "auth"
    /\ \/ ~tpDone /\ tpMove(c, "bridge") /\ tpUp' = tpUp \cup {c}
       \/ \E route \in {"worker", "h2", "cf", "tcp"} : tpMove(c, route) /\ UNCHANGED tpUp
    /\ UNCHANGED <<tpManager, tpOpenLn, tpAcc, tpConns, tpOpen, tpTcp, tpWorker, tpLns>>

\* attemptFallback, media: a channel that comes after the end of the proxy is
\* closed and no other route is tried.
cfMedia(c) ==
    /\ tpSess[c] = "h2"
    /\ \/ ~tpDone /\ tpMove(c, "bridge") /\ tpUp' = tpUp \cup {c}
       \/ tpMove(c, IF tpDone THEN "end" ELSE "cf") /\ UNCHANGED tpUp
    /\ UNCHANGED <<tpManager, tpOpenLn, tpAcc, tpConns, tpOpen, tpTcp, tpWorker, tpLns>>

takesWarm ==
    /\ tpWorker.idle /\ ~tpWorker.closed /\ ~tpDone
    /\ tpWorker' = [tpWorker EXCEPT !.idle = FALSE, !.refill = IF @ = "none" THEN "dial" ELSE @]

\* cfWorker: a warm socket, or one dialled for this client.
cfWorker(c) ==
    /\ tpSess[c] = "worker"
    /\ \/ /\ takesWarm
          /\ tpMove(c, "bridge") /\ tpUp' = tpUp \cup {c}
       \/ ~tpDone /\ tpMove(c, "bridge") /\ tpUp' = tpUp \cup {c} /\ UNCHANGED tpWorker
       \/ \E route \in {"h2", "cf", "tcp"} : tpMove(c, route) /\ UNCHANGED <<tpUp, tpWorker>>
    /\ UNCHANGED <<tpManager, tpOpenLn, tpAcc, tpConns, tpOpen, tpTcp, tpLns>>
cfProxy(c) ==
    /\ tpSess[c] = "cf"
    /\ \/ ~tpDone /\ tpMove(c, "bridge") /\ tpUp' = tpUp \cup {c}
       \/ tpMove(c, "tcp") /\ UNCHANGED tpUp
    /\ UNCHANGED <<tpManager, tpOpenLn, tpAcc, tpConns, tpOpen, tpTcp, tpWorker, tpLns>>

\* prepareTCPFallback: one attempt at a time and none while cooling down.
tcpBegin(c) ==
    /\ tpSess[c] = "tcp"
    /\ IF tpDone \/ tpTcp.connecting \/ tpTcp.cooling
       THEN tpMove(c, "end") /\ UNCHANGED tpTcp
       ELSE tpMove(c, "dial") /\ tpTcp' = [tpTcp EXCEPT !.connecting = TRUE]
    /\ UNCHANGED <<tpManager, tpOpenLn, tpAcc, tpConns, tpOpen, tpUp, tpWorker, tpLns>>

\* finish: a cancelled attempt is no failure of the endpoint.
finish(ok) ==
    IF tpDone THEN [tpTcp EXCEPT !.connecting = FALSE]
    ELSE IF ok THEN [connecting |-> FALSE, cooling |-> FALSE]
    ELSE [connecting |-> FALSE, cooling |-> TRUE]
tcpDialled(c) ==
    /\ tpSess[c] = "dial"
    /\ \E ok \in BOOLEAN :
          /\ ok => ~tpDone
          /\ tpTcp' = finish(ok)
          /\ tpMove(c, IF ok THEN "bridge" ELSE "end")
          /\ tpUp' = IF ok THEN tpUp \cup {c} ELSE tpUp
    /\ UNCHANGED <<tpManager, tpOpenLn, tpAcc, tpConns, tpOpen, tpWorker, tpLns>>
tcpCooled ==
    /\ tpTcp.cooling /\ tpTcp' = [tpTcp EXCEPT !.cooling = FALSE]
    /\ UNCHANGED <<tpManager, tpOpenLn, tpAcc, tpConns, tpSess, tpOpen, tpUp, tpWorker, tpLns>>

\* bridgeWS, bridgeTCP: the first of the two goroutines to end closes both
\* ends, then the other one ends too.
bridgeStops(c) == tpUp' = tpUp \ {c} /\ tpOpen' = tpOpen \ {c}
bridge(c) ==
    /\ tpSess[c] = "bridge" /\ tpMove(c, "half") /\ bridgeStops(c)
    /\ UNCHANGED <<tpManager, tpOpenLn, tpAcc, tpConns, tpTcp, tpWorker, tpLns>>
bridgeEnds(c) ==
    /\ tpSess[c] = "half" /\ c \notin tpOpen /\ tpMove(c, "end")
    /\ UNCHANGED <<tpManager, tpOpenLn, tpAcc, tpConns, tpOpen, tpUp, tpTcp, tpWorker, tpLns>>

\* The deferred end of handle and of its goroutine.
handlerEnds(c) ==
    /\ tpSess[c] = "end"
    /\ tpMove(c, "out") /\ tpOpen' = tpOpen \ {c}
    /\ tpConns' = [tpConns EXCEPT !.set = @ \ {c}]
    /\ UNCHANGED <<tpManager, tpOpenLn, tpAcc, tpUp, tpTcp, tpWorker, tpLns>>

\* refillContext of the worker pool.
workerDialled ==
    /\ tpWorker.refill = "dial"
    /\ \E ok \in BOOLEAN : tpWorker' = [tpWorker EXCEPT !.refill = IF ok THEN "late" ELSE "none"]
    /\ UNCHANGED <<tpManager, tpOpenLn, tpAcc, tpClient, tpLns>>
workerKept == ~tpWorker.closed /\ ~tpDone
workerRefilled ==
    /\ tpWorker.refill = "late"
    /\ tpWorker' = [tpWorker EXCEPT !.refill = "none", !.idle = @ \/ workerKept]
    /\ UNCHANGED <<tpManager, tpOpenLn, tpAcc, tpClient, tpLns>>

tpNext ==
    \/ Operate \/ start \/ stopMark \/ stopCancel \/ stopCloseListener \/ closeAll
    \/ closeWorkers \/ waitWorkers \/ stopWait
    \/ ListenerFails \/ acceptFails \/ reopen \/ publishListener
    \/ tcpCooled \/ workerDialled \/ workerRefilled
    \/ \E c \in TpClients : \/ accept(c) \/ readInit(c) \/ serveAuthenticated(c) \/ cfWorker(c)
                            \/ cfMedia(c) \/ cfProxy(c) \/ tcpBegin(c) \/ tcpDialled(c)
                            \/ bridge(c) \/ bridgeEnds(c) \/ handlerEnds(c)

-----------------------------------------------------------------------------
\* When a stop has returned nothing of the proxy is left: no listener, no
\* accept loop, no client, no upstream connection, no warm or late socket.
ProxyStopped ==
    tpOp = <<>> /\ ~tpRunning =>
        /\ tpOpenLn = {} /\ tpAcc = NoAccept
        /\ tpOpen = {} /\ tpUp = {} /\ tpConns.set = {}
        /\ ~tpWorker.idle /\ tpWorker.refill = "none"

\* Once a stop has dropped the clients no connection is open, although the
\* accept loop may still take new ones.
ClientsDropped == tpConns.closed => tpOpen = {}

\* The TCP fallback is marked as connecting only while a client dials it.
ConnectingOwned == tpTcp.connecting = (\E c \in TpClients : tpSess[c] = "dial")

\* "Stop shuts the listener": when a stop waits for the goroutines, the accept
\* loop has no open listener to wait on.
StopShutsListener ==
    tpOp # <<>> /\ Head(tpOp) = "wait" => ~(tpAcc.at = "accept" /\ tpAcc.ln \in tpOpenLn)

\* A stop of the proxy leaves nothing behind, whatever was being accepted or dialled.
ProxySafe == ProxyStopped /\ ClientsDropped /\ ConnectingOwned
=============================================================================
