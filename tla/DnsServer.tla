----------------------------- MODULE DnsServer -----------------------------
(***************************************************************************)
(* The life of the DNS server: its configuration in memory and on disk,    *)
(* the run that serves it (listeners, resolver, firewall), the supervisor  *)
(* that restarts a failed run, and the binding that makes dnsmasq forward  *)
(* to its port and outlives the process.  Every operation holds opMu; the  *)
(* failures of listeners, the requests and a crash come in between.        *)
(* The second part is one run's listeners from the inside: a UDP reader    *)
(* that starts a goroutine per query, a TCP accept loop with tracked       *)
(* connections, three channels of slots that bound them, and Close, which  *)
(* must leave neither a connection nor a goroutine behind.                 *)
(***************************************************************************)
EXTENDS Integers, Sequences, FiniteSets

CONSTANTS
    DsPorts,     \* ports of the listener
    DsRuns,      \* bound on runs and on generations of the supervisor
    DsRequests,  \* requests in flight
    DsFaults,    \* bound on failures of listeners, firewall, disk and dnsmasq
    DsCrashes    \* bound on crashes

ASSUME DsAssumption == DsPorts \subseteq Nat \ {0} /\ DsPorts # {} /\ DsRuns \in Nat

VARIABLES
    dsFile, dsCfg, \* configuration on disk and s.cfg: [on, port]
    dsEdited,    \* the file was edited while the process was down, and the binding not compared with it since
    dsBound,     \* port the binding of dnsmasq points at, 0 = none
    dsErr,       \* s.lastError is set
    dsCtl,       \* generation of s.controlCancel, 0 = nil
    dsSup,       \* the supervisor of each generation
    dsActive,    \* s.active, 0 = nil
    dsLst,       \* listeners of each run
    dsTold,      \* runs with an error in their failure channel
    dsFw,        \* run the backend is prepared for, 0 = none
    dsOp,        \* the holder of opMu, what is left of its operation
    dsReq,       \* run that each request was given, negative for a test of the panel
    dsStat,      \* runs whose requests s.stats counts
    dsMade, dsGens, dsFault, dsCrash

dsVars == <<dsFile, dsCfg, dsEdited, dsBound, dsErr, dsCtl, dsSup, dsActive, dsLst, dsTold,
            dsFw, dsOp, dsReq, dsStat, dsMade, dsGens, dsFault, dsCrash>>
dsWorld == <<dsFile, dsCfg, dsEdited, dsBound, dsErr, dsCtl, dsActive, dsFw, dsStat, dsMade,
             dsGens, dsCrash>>

DsConfigs == [on : BOOLEAN, port : DsPorts]
dsFree == [by |-> "none", todo |-> <<>>, cfg |-> dsCfg, run |-> 0]
dsGone == [at |-> "gone", of |-> 0, cause |-> FALSE]

dsInit ==
    /\ dsFile = [on |-> FALSE, port |-> CHOOSE p \in DsPorts : TRUE]
    /\ dsCfg = dsFile /\ dsEdited = FALSE /\ dsBound = 0 /\ dsErr = FALSE
    /\ dsCtl = 0 /\ dsSup = [g \in 1..DsRuns |-> dsGone]
    /\ dsActive = 0 /\ dsLst = [r \in 1..DsRuns |-> "none"] /\ dsTold = {} /\ dsFw = 0
    /\ dsOp = dsFree /\ dsReq = [q \in DsRequests |-> 0] /\ dsStat = {}
    /\ dsMade = 0 /\ dsGens = 0 /\ dsFault = 0 /\ dsCrash = 0

dsIdle == dsOp.by = "none"
dsStep(a) == dsOp.todo # <<>> /\ Head(dsOp.todo) = a
dsTake(by, todo, cfg) == dsOp' = [by |-> by, todo |-> todo, cfg |-> cfg, run |-> 0]
dsAfter == [dsOp EXCEPT !.todo = Tail(@)]
dsFaulty == dsFault < DsFaults /\ dsFault' = dsFault + 1
dsSpared == UNCHANGED dsFault
\* An operation that ends with an error gives the lock back.
dsAbort == dsOp' = dsFree
dsEnd == dsOp.by # "none" /\ dsOp.todo = <<>> /\ dsOp' = dsFree
         /\ UNCHANGED <<dsWorld, dsSup, dsLst, dsTold, dsReq, dsFault>>

-----------------------------------------------------------------------------
\* setConfigLocked, SetEnabled and StartEnabled as sequences of steps.
StartSteps == <<"reconcileRun", "listen", "prepare", "publish">>
RetrySteps == <<"stopRun", "drain", "reconcileRun", "listen", "prepare", "publish">>
ControlSteps == <<"control", "reconcileRun", "listen", "prepare", "publish", "spawn">>
SetConfigSteps(cfg) ==
    IF cfg.on THEN <<"reconcile", "save", "halt", "drain", "adopt",
                     "control", "reconcileRun", "listen", "prepare", "publish", "spawn">>
    ELSE <<"reconcile", "save", "halt", "drain", "adopt">>

\* An identical save leaves a healthy run alone.
unchangedConfig(cfg) ==
    cfg.on /\ ~dsErr /\ dsCtl # 0 /\ cfg = dsCfg /\ dsActive # 0 /\ dsLst[dsActive] = "open"
dsSetConfig(cfg) ==
    /\ dsIdle /\ dsMade < DsRuns /\ dsGens < DsRuns
    /\ ~unchangedConfig(cfg)
    /\ dsTake("api", SetConfigSteps(cfg), cfg)
    /\ UNCHANGED <<dsWorld, dsSup, dsLst, dsTold, dsReq, dsFault>>
StartEnabled ==
    /\ dsStep("boot")
    /\ dsOp' = [dsOp EXCEPT !.todo = IF ~dsCfg.on THEN <<"reconcileBoot">>
                                     ELSE IF dsCtl = 0 THEN ControlSteps ELSE <<>>]
    /\ UNCHANGED <<dsWorld, dsSup, dsLst, dsTold, dsReq, dsFault>>
dsClose ==
    /\ dsIdle /\ dsCtl # 0 /\ dsTake("api", <<"halt", "drain">>, dsCfg)
    /\ UNCHANGED <<dsWorld, dsSup, dsLst, dsTold, dsReq, dsFault>>

\* reconcileOpenWrtDNSLocked: the binding may stay only if it points at the
\* port that this configuration serves.
Served(cfg) == dsBound = 0 \/ (cfg.on /\ dsBound = cfg.port)
Reconcile(cfg) ==
    /\ dsSpared /\ dsOp' = dsAfter /\ dsEdited' = (dsEdited /\ cfg # dsFile) /\ UNCHANGED dsErr
    /\ dsBound' = IF Served(cfg) THEN dsBound ELSE 0
ReconcileFails == dsFaulty /\ UNCHANGED <<dsBound, dsEdited>>
reconcileOpenWrtDNSLocked ==
    /\ dsStep("reconcile")
    /\ \/ Reconcile(dsOp.cfg)
       \/ ReconcileFails /\ dsAbort /\ UNCHANGED dsErr
    /\ UNCHANGED <<dsFile, dsCfg, dsCtl, dsSup, dsActive, dsLst, dsTold, dsFw, dsReq, dsStat,
                   dsMade, dsGens, dsCrash>>
reconcileAtBoot ==
    /\ dsStep("reconcileBoot")
    /\ \/ Reconcile(dsCfg)
       \/ ReconcileFails /\ dsAbort /\ dsErr' = TRUE
    /\ UNCHANGED <<dsFile, dsCfg, dsCtl, dsSup, dsActive, dsLst, dsTold, dsFw, dsReq, dsStat,
                   dsMade, dsGens, dsCrash>>
ConfigurePersist ==
    /\ dsStep("save")
    /\ \/ dsSpared /\ dsFile' = dsOp.cfg /\ dsEdited' = FALSE /\ dsOp' = dsAfter
       \/ dsFaulty /\ UNCHANGED <<dsFile, dsEdited>> /\ dsAbort
    /\ UNCHANGED <<dsCfg, dsBound, dsErr, dsCtl, dsSup, dsActive, dsLst, dsTold, dsFw,
                   dsReq, dsStat, dsMade, dsGens, dsCrash>>

\* stopLocked: the generation is cancelled, the run withdrawn and its
\* listeners closed; then its requests are awaited and the firewall closed.
closedOf(r) == [dsLst EXCEPT ![r] = "closed"]
stopLocked ==
    /\ dsStep("halt") /\ dsCtl' = 0 /\ dsActive' = 0
    /\ dsOp' = [dsAfter EXCEPT !.run = dsActive]
    /\ dsLst' = IF dsActive = 0 THEN dsLst ELSE closedOf(dsActive)
    /\ UNCHANGED <<dsFile, dsCfg, dsEdited, dsBound, dsErr, dsSup, dsTold, dsFw, dsReq, dsStat,
                   dsMade, dsGens, dsFault, dsCrash>>
stopRunLocked ==
    /\ dsStep("stopRun") /\ dsActive' = 0 /\ dsErr' = TRUE
    /\ dsOp' = [dsAfter EXCEPT !.run = dsActive]
    /\ dsLst' = IF dsActive = 0 THEN dsLst ELSE closedOf(dsActive)
    /\ UNCHANGED <<dsFile, dsCfg, dsEdited, dsBound, dsCtl, dsSup, dsTold, dsFw, dsReq, dsStat,
                   dsMade, dsGens, dsFault, dsCrash>>
Drained(r) == r = 0 \/ \A q \in DsRequests : dsReq[q] # r
drainRun ==
    /\ dsStep("drain") /\ Drained(dsOp.run) /\ dsFw' = 0 /\ dsOp' = dsAfter
    /\ UNCHANGED <<dsFile, dsCfg, dsEdited, dsBound, dsErr, dsCtl, dsSup, dsActive, dsLst, dsTold,
                   dsReq, dsStat, dsMade, dsGens, dsFault, dsCrash>>
adoptConfig ==
    /\ dsStep("adopt") /\ dsCfg' = dsOp.cfg /\ dsErr' = FALSE /\ dsOp' = dsAfter
    /\ UNCHANGED <<dsFile, dsEdited, dsBound, dsCtl, dsSup, dsActive, dsLst, dsTold, dsFw, dsReq,
                   dsStat, dsMade, dsGens, dsFault, dsCrash>>

-----------------------------------------------------------------------------
\* startControlLocked and startRunLocked.  A start that fails sets the error
\* and leaves the retry to the supervisor.
startControlLocked ==
    /\ dsStep("control") /\ dsGens < DsRuns /\ dsGens' = dsGens + 1 /\ dsCtl' = dsGens' /\ dsOp' = dsAfter
    /\ UNCHANGED <<dsFile, dsCfg, dsEdited, dsBound, dsErr, dsSup, dsActive, dsLst, dsTold, dsFw,
                   dsReq, dsStat, dsMade, dsFault, dsCrash>>
spawnSupervisor ==
    /\ dsStep("spawn") /\ dsSup' = [dsSup EXCEPT ![dsCtl].at = "read"] /\ dsOp' = dsAfter
    /\ UNCHANGED <<dsWorld, dsLst, dsTold, dsReq, dsFault>>
dsWill(a) == \E i \in 1..Len(dsOp.todo) : dsOp.todo[i] = a
startFailed ==
    dsErr' = TRUE /\ dsOp' = [dsOp EXCEPT !.todo = IF dsWill("spawn") THEN <<"spawn">> ELSE <<>>]
reconcileRun ==
    /\ dsStep("reconcileRun")
    /\ \/ Reconcile(dsCfg)
       \/ ReconcileFails /\ startFailed
    /\ UNCHANGED <<dsFile, dsCfg, dsCtl, dsSup, dsActive, dsLst, dsTold, dsFw, dsReq, dsStat,
                   dsMade, dsGens, dsCrash>>
\* A port that is taken leaves neither of the two sockets.
listenRun ==
    /\ dsStep("listen") /\ dsMade < DsRuns
    /\ \/ /\ dsSpared /\ dsMade' = dsMade + 1 /\ dsLst' = [dsLst EXCEPT ![dsMade'] = "open"]
          /\ dsOp' = [dsAfter EXCEPT !.run = dsMade'] /\ UNCHANGED <<dsErr, dsFw>>
       \/ dsFaulty /\ startFailed /\ dsFw' = 0 /\ UNCHANGED <<dsMade, dsLst>>
    /\ UNCHANGED <<dsFile, dsCfg, dsEdited, dsBound, dsCtl, dsSup, dsActive, dsTold, dsReq, dsStat,
                   dsGens, dsCrash>>

\* A failed Prepare closes the listeners and waits for the requests they took.
prepareFailed == Drained(dsOp.run) /\ dsLst' = closedOf(dsOp.run)
prepareRun ==
    /\ dsStep("prepare")
    /\ \/ dsSpared /\ dsFw' = dsOp.run /\ dsOp' = dsAfter /\ UNCHANGED <<dsErr, dsLst>>
       \/ dsFaulty /\ startFailed /\ dsFw' = 0 /\ prepareFailed
    /\ UNCHANGED <<dsFile, dsCfg, dsEdited, dsBound, dsCtl, dsSup, dsActive, dsTold, dsReq, dsStat,
                   dsMade, dsGens, dsCrash>>
publishRun ==
    /\ dsStep("publish") /\ dsActive' = dsOp.run /\ dsErr' = FALSE /\ dsStat' = {} /\ dsOp' = dsAfter
    /\ UNCHANGED <<dsFile, dsCfg, dsEdited, dsBound, dsCtl, dsSup, dsLst, dsTold, dsFw, dsReq,
                   dsMade, dsGens, dsFault, dsCrash>>

-----------------------------------------------------------------------------
\* supervise: it reads the active run once it has given the lock back, waits for the
\* failure of that run, the ticker or the end of its generation, and takes the lock.
supSet(g, at, of, cause) == dsSup' = [dsSup EXCEPT ![g] = [at |-> at, of |-> of, cause |-> cause]]
superviseRead(g) ==
    /\ dsSup[g].at = "read" /\ (dsOp.by = "supervisor" => g # dsCtl)
    /\ supSet(g, "wait", dsActive, FALSE)
    /\ UNCHANGED <<dsWorld, dsLst, dsTold, dsOp, dsReq, dsFault>>
superviseWake(g) ==
    /\ dsSup[g].at = "wait"
    /\ \/ g # dsCtl /\ dsSup' = [dsSup EXCEPT ![g] = dsGone] /\ UNCHANGED dsTold
       \/ /\ dsSup[g].of \in dsTold /\ dsTold' = dsTold \ {dsSup[g].of}
          /\ supSet(g, "lock", dsSup[g].of, TRUE)
       \/ dsActive = 0 /\ supSet(g, "lock", 0, FALSE) /\ UNCHANGED dsTold
    /\ UNCHANGED <<dsWorld, dsLst, dsOp, dsReq, dsFault>>
supAlways(g) == TRUE

\* A cancelled supervisor does nothing with the lock.
supLive(g) == g = dsCtl
superviseLock(g) ==
    /\ dsSup[g].at = "lock" /\ dsIdle
    /\ IF supLive(g)
       THEN /\ dsTake("supervisor", IF dsSup[g].cause THEN RetrySteps
                                    ELSE IF dsActive = 0 THEN StartSteps ELSE <<>>, dsCfg)
            /\ supSet(g, "read", 0, FALSE)
       ELSE dsSup' = [dsSup EXCEPT ![g] = dsGone] /\ UNCHANGED dsOp
    /\ UNCHANGED <<dsWorld, dsLst, dsTold, dsReq, dsFault>>

\* An accept or a read fails: the listeners close themselves and report it to
\* the run, unless that was cancelled.
listenerFailed(r) ==
    /\ dsLst[r] = "open" /\ dsFaulty /\ dsLst' = [dsLst EXCEPT ![r] = "failing"]
    /\ UNCHANGED <<dsWorld, dsSup, dsTold, dsOp, dsReq>>
OnError(r) ==
    /\ dsLst[r] = "failing" /\ dsLst' = [dsLst EXCEPT ![r] = "failed"] /\ dsTold' = dsTold \cup {r}
    /\ UNCHANGED <<dsWorld, dsSup, dsOp, dsReq, dsFault>>

\* A request belongs to the run whose listener took it, which waits for it.
takeRequest(q, r) ==
    /\ dsReq[q] = 0 /\ dsLst[r] = "open" /\ dsReq' = [dsReq EXCEPT ![q] = r]
    /\ UNCHANGED <<dsWorld, dsSup, dsLst, dsTold, dsOp, dsFault>>
\* A test from the panel belongs to the active run, and nothing waits for it.
Test(q) ==
    /\ dsReq[q] = 0 /\ dsActive # 0 /\ dsReq' = [dsReq EXCEPT ![q] = -dsActive]
    /\ UNCHANGED <<dsWorld, dsSup, dsLst, dsTold, dsOp, dsFault>>

\* It is counted only if its run is still the active one.
counts(r) == dsActive = r
exchange(q) ==
    /\ dsReq[q] # 0 /\ dsReq' = [dsReq EXCEPT ![q] = 0]
    /\ LET r == IF dsReq[q] < 0 THEN -dsReq[q] ELSE dsReq[q]
       IN dsStat' = IF counts(r) THEN dsStat \cup {r} ELSE dsStat
    /\ UNCHANGED <<dsFile, dsCfg, dsEdited, dsBound, dsErr, dsCtl, dsSup, dsActive, dsLst, dsTold,
                   dsFw, dsOp, dsMade, dsGens, dsFault, dsCrash>>

-----------------------------------------------------------------------------
\* ApplyOpenWrtDNS asks the listener first; a failed Apply rolls itself back.
listenerAnswers == dsActive # 0 /\ dsLst[dsActive] = "open"
ApplyOpenWrtDNS ==
    /\ dsIdle /\ listenerAnswers /\ dsBound' = dsCfg.port
    /\ UNCHANGED <<dsFile, dsCfg, dsEdited, dsErr, dsCtl, dsSup, dsActive, dsLst, dsTold, dsFw, dsOp,
                   dsReq, dsStat, dsMade, dsGens, dsFault, dsCrash>>
RestoreOpenWrtDNS ==
    /\ dsIdle /\ dsBound # 0 /\ dsBound' = 0
    /\ UNCHANGED <<dsFile, dsCfg, dsEdited, dsErr, dsCtl, dsSup, dsActive, dsLst, dsTold, dsFw, dsOp,
                   dsReq, dsStat, dsMade, dsGens, dsFault, dsCrash>>

\* The process dies; the file may be replaced before it starts again, the
\* binding of dnsmasq stays.
dsRestart(cfg) ==
    /\ dsCrash < DsCrashes /\ dsCrash' = dsCrash + 1
    /\ dsFile' = cfg /\ dsCfg' = cfg /\ dsEdited' = (dsEdited \/ cfg # dsFile)
    /\ dsErr' = FALSE /\ dsCtl' = 0 /\ dsSup' = [g \in 1..DsRuns |-> dsGone] /\ dsActive' = 0
    /\ dsLst' = [r \in 1..DsRuns |-> IF dsLst[r] = "none" THEN "none" ELSE "closed"]
    /\ dsTold' = {} /\ dsFw' = 0 /\ dsReq' = [q \in DsRequests |-> 0] /\ dsStat' = {}
    /\ dsOp' = [by |-> "api", todo |-> <<"boot">>, cfg |-> cfg, run |-> 0]
    /\ UNCHANGED <<dsBound, dsMade, dsGens, dsFault>>

dsOperation ==
    \/ StartEnabled \/ reconcileOpenWrtDNSLocked \/ reconcileAtBoot \/ ConfigurePersist \/ stopLocked
    \/ stopRunLocked \/ drainRun \/ adoptConfig \/ startControlLocked \/ spawnSupervisor
    \/ reconcileRun \/ listenRun \/ prepareRun \/ publishRun \/ dsEnd
dsNext ==
    \/ dsOperation
    \/ \E cfg \in DsConfigs : dsSetConfig(cfg) \/ dsRestart(cfg)
    \/ dsClose \/ ApplyOpenWrtDNS \/ RestoreOpenWrtDNS
    \/ \E g \in 1..DsRuns : superviseRead(g) \/ superviseWake(g) \/ superviseLock(g)
    \/ \E r \in 1..DsRuns : listenerFailed(r) \/ OnError(r)
    \/ \E q \in DsRequests : exchange(q) \/ Test(q) \/ \E r \in 1..DsRuns : takeRequest(q, r)

-----------------------------------------------------------------------------
\* dnsmasq is never left forwarding to a port that the saved configuration
\* does not serve: the binding is restored before a change is written, so that
\* a crash at any step or a failed write leaves it right; only a file edited
\* while the process was down can disagree, and then the error says so.
BindingServed ==
    dsBound # 0 =>
        \/ dsFile.on /\ dsFile.port = dsBound
        \/ dsEdited /\ (dsIdle => dsErr)

\* A supervisor only takes down a run whose listener failed, never the run
\* that a later change of the configuration has started.
NoForeignStop ==
    [][dsOp.by = "supervisor" /\ dsActive # 0 /\ dsActive' = 0 /\ dsCrash' = dsCrash =>
           dsLst[dsActive] \in {"failing", "failed"}]_dsVars

\* The counters shown for a run hold no request of an earlier one, though
\* requests outlive the run that took them.
StatsOfCurrent == dsActive # 0 => dsStat \subseteq {dsActive}

\* Between operations a run is whole or gone: the firewall is open exactly for
\* the active run, no other run has a listener, and what runs is enabled.
RunIsWhole ==
    dsIdle => /\ dsFw = dsActive
              /\ \A r \in 1..DsRuns : dsLst[r] \in {"open", "failing", "failed"} => r = dsActive
              /\ dsActive # 0 => dsCfg.on /\ dsCtl # 0 /\ dsCfg = dsFile

\* A change, a failure or a crash leaves the server whole or gone, and dnsmasq with a port that is served.
ServerSafe == [](BindingServed /\ StatsOfCurrent /\ RunIsWhole) /\ NoForeignStop

-----------------------------------------------------------------------------
\* The listeners of one run.
CONSTANTS
    DlConns,      \* TCP clients
    DlDatagrams,  \* UDP queries
    DlConnCap, DlReqCap, DlQueryCap \* capacities of the slot channels

ASSUME DlAssumption == IsFiniteSet(DlConns) /\ IsFiniteSet(DlDatagrams)

VARIABLES
    dlConn,     \* where the goroutine of each TCP connection is
    dlOpen,     \* connections whose socket is open
    dlMap,      \* s.connections
    dlUdp,      \* where the goroutine of each datagram is
    dlConnSlots, dlReqSlots, dlQuerySlots, \* slots in use
    dlCtx,      \* s.ctx is live
    dlSock,     \* the two listening sockets are open
    dlLoops,    \* which of the two loops run
    dlClosing   \* progress of Close

dlVars == <<dlConn, dlOpen, dlMap, dlUdp, dlConnSlots, dlReqSlots, dlQuerySlots, dlCtx, dlSock,
            dlLoops, dlClosing>>
dlRun == <<dlCtx, dlSock, dlLoops, dlClosing>>

dlInit ==
    /\ dlConn = [c \in DlConns |-> "out"] /\ dlOpen = {} /\ dlMap = {}
    /\ dlUdp = [d \in DlDatagrams |-> "out"]
    /\ dlConnSlots = 0 /\ dlReqSlots = 0 /\ dlQuerySlots = 0
    /\ dlCtx = TRUE /\ dlSock = {"tcp", "udp"} /\ dlLoops = {"tcp", "udp"} /\ dlClosing = "no"

-----------------------------------------------------------------------------
\* dnsLimitedListener.Accept: a slot first, then the map under the mutex,
\* where a cancelled context gives both back.
acceptSlot(c) ==
    /\ "tcp" \in dlSock \cap dlLoops /\ dlConn[c] = "out" /\ \A d \in DlConns : dlConn[d] # "accepted"
    /\ dlConnSlots < DlConnCap /\ dlConnSlots' = dlConnSlots + 1
    /\ dlConn' = [dlConn EXCEPT ![c] = "accepted"] /\ dlOpen' = dlOpen \cup {c}
    /\ UNCHANGED <<dlRun, dlMap, dlUdp, dlReqSlots, dlQuerySlots>>

accepts == dlCtx
acceptTracks(c) ==
    /\ dlConn[c] = "accepted"
    /\ IF accepts
       THEN /\ dlMap' = dlMap \cup {c} /\ dlConn' = [dlConn EXCEPT ![c] = "read"]
            /\ UNCHANGED <<dlOpen, dlConnSlots, dlLoops>>
       ELSE /\ dlConnSlots' = dlConnSlots - 1 /\ dlOpen' = dlOpen \ {c}
            /\ dlConn' = [dlConn EXCEPT ![c] = "out"] /\ dlLoops' = dlLoops \ {"tcp"}
            /\ UNCHANGED dlMap
    /\ UNCHANGED <<dlUdp, dlReqSlots, dlQuerySlots, dlCtx, dlSock, dlClosing>>

\* exchange: no query waits for a slot, a busy server answers at once.
takeQuery == dlQuerySlots < DlQueryCap /\ dlQuerySlots' = dlQuerySlots + 1
busyQuery == dlQuerySlots = DlQueryCap /\ UNCHANGED dlQuerySlots
serveTCP(c) ==
    /\ dlConn[c] = "read" /\ c \in dlOpen
    /\ \/ takeQuery /\ dlConn' = [dlConn EXCEPT ![c] = "exchange"]
       \/ busyQuery /\ UNCHANGED dlConn
    /\ UNCHANGED <<dlRun, dlOpen, dlMap, dlUdp, dlConnSlots, dlReqSlots>>
answersTCP(c) ==
    /\ dlConn[c] = "exchange" /\ dlQuerySlots' = dlQuerySlots - 1
    /\ dlConn' = [dlConn EXCEPT ![c] = "read"]
    /\ UNCHANGED <<dlRun, dlOpen, dlMap, dlUdp, dlConnSlots, dlReqSlots>>
\* The client leaves, sends no valid query or stays silent for 60 seconds.
peerLeaves(c) ==
    /\ c \in dlOpen /\ dlConn[c] # "accepted" /\ dlOpen' = dlOpen \ {c}
    /\ UNCHANGED <<dlRun, dlConn, dlMap, dlUdp, dlConnSlots, dlReqSlots, dlQuerySlots>>

\* dnsTrackedConn.Close ends the goroutine of a closed connection.
releaseConn == dlConnSlots' = dlConnSlots - 1
trackedClose(c) ==
    /\ dlConn[c] = "read" /\ c \notin dlOpen
    /\ dlConn' = [dlConn EXCEPT ![c] = "out"] /\ dlMap' = dlMap \ {c} /\ releaseConn
    /\ UNCHANGED <<dlRun, dlOpen, dlUdp, dlReqSlots, dlQuerySlots>>

\* serveUDP: without a free slot the datagram is dropped.
serveUDP(d) ==
    /\ "udp" \in dlSock \cap dlLoops /\ dlUdp[d] = "out"
    /\ dlReqSlots < DlReqCap /\ dlReqSlots' = dlReqSlots + 1
    /\ dlUdp' = [dlUdp EXCEPT ![d] = "start"]
    /\ UNCHANGED <<dlRun, dlConn, dlOpen, dlMap, dlConnSlots, dlQuerySlots>>
queryUDP(d) ==
    /\ dlUdp[d] = "start"
    /\ \/ takeQuery /\ dlUdp' = [dlUdp EXCEPT ![d] = "exchange"]
       \/ busyQuery /\ dlUdp' = [dlUdp EXCEPT ![d] = "reply"]
    /\ UNCHANGED <<dlRun, dlConn, dlOpen, dlMap, dlConnSlots, dlReqSlots>>
answersUDP(d) ==
    /\ dlUdp[d] = "exchange" /\ dlQuerySlots' = dlQuerySlots - 1
    /\ dlUdp' = [dlUdp EXCEPT ![d] = "reply"]
    /\ UNCHANGED <<dlRun, dlConn, dlOpen, dlMap, dlConnSlots, dlReqSlots>>
repliesUDP(d) ==
    /\ dlUdp[d] = "reply" /\ dlReqSlots' = dlReqSlots - 1 /\ dlUdp' = [dlUdp EXCEPT ![d] = "out"]
    /\ UNCHANGED <<dlRun, dlConn, dlOpen, dlMap, dlConnSlots, dlQuerySlots>>

\* A loop ends with its socket, or with an error that cancels the run.
loopEnds(l) ==
    /\ l \in dlLoops /\ (l = "tcp" => \A c \in DlConns : dlConn[c] # "accepted")
    /\ l \in dlSock => dlCtx
    /\ dlLoops' = dlLoops \ {l} /\ dlCtx' = (dlCtx /\ l \notin dlSock)
    /\ UNCHANGED <<dlConn, dlOpen, dlMap, dlUdp, dlConnSlots, dlReqSlots, dlQuerySlots, dlSock,
                   dlClosing>>

\* Close, called by the service or by the goroutine that watches the context.
closeCancel ==
    /\ dlClosing = "no" /\ dlClosing' = "sockets" /\ dlCtx' = FALSE
    /\ UNCHANGED <<dlConn, dlOpen, dlMap, dlUdp, dlConnSlots, dlReqSlots, dlQuerySlots, dlSock, dlLoops>>
closeSockets ==
    /\ dlClosing = "sockets" /\ dlClosing' = "sweep" /\ dlSock' = {}
    /\ UNCHANGED <<dlConn, dlOpen, dlMap, dlUdp, dlConnSlots, dlReqSlots, dlQuerySlots, dlCtx, dlLoops>>
closeSweep ==
    /\ dlClosing = "sweep" /\ dlClosing' = "wait" /\ dlOpen' = dlOpen \ dlMap
    /\ UNCHANGED <<dlConn, dlMap, dlUdp, dlConnSlots, dlReqSlots, dlQuerySlots, dlCtx, dlSock, dlLoops>>

waitGroup ==
    /\ dlLoops = {} /\ \A c \in DlConns : dlConn[c] \in {"out", "accepted"}
    /\ \A d \in DlDatagrams : dlUdp[d] = "out"
listenersWait ==
    /\ dlClosing = "wait" /\ waitGroup /\ dlClosing' = "done"
    /\ UNCHANGED <<dlConn, dlOpen, dlMap, dlUdp, dlConnSlots, dlReqSlots, dlQuerySlots, dlCtx, dlSock, dlLoops>>

dlNext ==
    \/ \E c \in DlConns : \/ acceptSlot(c) \/ acceptTracks(c) \/ serveTCP(c) \/ answersTCP(c)
                          \/ peerLeaves(c) \/ trackedClose(c)
    \/ \E d \in DlDatagrams : serveUDP(d) \/ queryUDP(d) \/ answersUDP(d) \/ repliesUDP(d)
    \/ \E l \in {"tcp", "udp"} : loopEnds(l)
    \/ closeCancel \/ closeSockets \/ closeSweep \/ listenersWait

-----------------------------------------------------------------------------
inState(f, s) == Cardinality({x \in DOMAIN f : f[x] \in s})

\* No path, not even a connection accepted while the run is being closed,
\* loses a slot: each channel holds exactly what is in flight, so that a long
\* life of the server cannot use its capacity up.
DnsSlotsBalanced ==
    /\ dlConnSlots = inState(dlConn, {"accepted", "read", "exchange"})
    /\ dlReqSlots = inState(dlUdp, {"start", "exchange", "reply"})
    /\ dlQuerySlots = inState(dlConn, {"exchange"}) + inState(dlUdp, {"exchange"})

\* Once Close has swept the connections none is open that nobody will close:
\* a late one is not registered any more.
SweptIsClosed == dlClosing \in {"wait", "done"} => \A c \in dlOpen : dlConn[c] = "accepted"

\* When Close returns nothing of the run is at work.
ClosedIsQuiet ==
    dlClosing = "done" => /\ dlMap = {} /\ dlQuerySlots = 0 /\ dlReqSlots = 0
                          /\ \A c \in DlConns : dlConn[c] = "out"

\* Slots and connections of the listeners balance, also across a close.
ListenersSafe == DnsSlotsBalanced /\ SweptIsClosed /\ ClosedIsQuiet

\* The server and its listeners start, change and end as a whole, with every slot given back.
DnsServiceSafe == ServerSafe /\ []ListenersSafe
=============================================================================
