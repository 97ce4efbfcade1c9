--------------------------- MODULE ClientFailover ---------------------------
(***************************************************************************)
(* The supervisor of the AWG2 client tunnels: every pass observes each     *)
(* tunnel that should run, probes or recreates the ones without            *)
(* authenticated progress, wakes cold reserves of primaries that fail and  *)
(* puts them back to sleep, and rewrites the routing policy when the       *)
(* tunnel chosen for a rule changes.  Users switch tunnels on and off,     *)
(* change the reserves and the retry schedule; the panel may be restarted, *)
(* which forgets everything but the configuration and the interfaces.      *)
(*                                                                         *)
(* Time is counted in units that pass between two passes.  The deadlines   *)
(* of the code are kept as the ages they are computed from, so that a      *)
(* change of the schedule moves them as updateSettings does.  Received     *)
(* bytes count as a handshake.                                             *)
(***************************************************************************)
EXTENDS Naturals, Sequences

CONSTANTS
    CfServers,   \* the configured connections
    CfPrimary,   \* the connection one routing rule is bound to
    CfMaxEdits   \* bound on user operations and restarts

\* clientStaleAfter and the retry schedule, in units.
StaleAfter == 2
FastFor == 1
SlowAfter == 2
Timeouts == {1, 2}
NoTime == 9    \* no such time (Go's zero time)
AgeCap == 4  \* ages beyond it are not told apart

VARIABLES
    cfEnabled,    \* Enabled, Client.Enabled and a startable configuration
    cfStandby,    \* Client.Standby: started on demand only
    cfBackups,    \* Client.FallbackTunnelIDs
    cfTimeout,    \* HandshakeTimeoutSeconds
    cfUp,         \* the interface runs
    cfHs,         \* age of its last handshake
    cfRemote,     \* the peer is reachable
    cfRec,        \* clients.states
    cfWanted,     \* clients.standbyActive
    cfInstalled,  \* the tunnel the installed policy uses for the rule
    cfSig,        \* clients.fallbackSignature; NoTime before the first look
    cfPhase,      \* where the pass is
    cfEdits

cfVars == <<cfEnabled, cfStandby, cfBackups, cfTimeout, cfUp, cfHs, cfRemote,
            cfRec, cfWanted, cfInstalled, cfSig, cfPhase, cfEdits>>
Wishes == <<cfEnabled, cfStandby, cfBackups, cfTimeout>>

\* clientRecovery: what is remembered of one tunnel.
NoRecord == [seen |-> FALSE, healthy |-> NoTime, probe |-> NoTime, att |-> NoTime,
             verifying |-> FALSE, fail |-> NoTime, out |-> 0, attempts |-> 0,
             pending |-> FALSE]
Recovering(r) == r.probe # NoTime \/ r.attempts > 0

\* connectionFallbackTunnelIDs: the reserves of a connection, nested ones in
\* place, each once; the visited set also ends a damaged graph.
RECURSIVE Expand(_, _, _)
Expand(backups, todo, out) ==
    IF todo = <<>> THEN out
    ELSE LET id == Head(todo)
         IN  IF \E i \in DOMAIN out : out[i] = id
             THEN Expand(backups, Tail(todo), out)
             ELSE Expand(backups, backups[id] \o Tail(todo), Append(out, id))
Candidates(s) == Expand(cfBackups, <<s>>, <<>>)
Reserves(s) == Tail(Candidates(s))

\* The first element of seq that is in the set, or none.
FirstIn(seq, set) ==
    LET hits == {i \in DOMAIN seq : seq[i] \in set}
    IN  IF hits = {} THEN "none" ELSE seq[CHOOSE i \in hits : \A j \in hits : i <= j]

clientAuthenticated(s) == cfUp[s] /\ cfHs[s] < StaleAfter
clientShouldRun(s) == cfEnabled[s] /\ (cfStandby[s] => s \in cfWanted)
Connected == {s \in CfServers : clientShouldRun(s) /\ clientAuthenticated(s)}

\* selectFallbackTunnelID over the tunnels as they are: the first usable one
\* that is connected, otherwise the first usable one.
selectFallbackTunnelID ==
    LET usable == {s \in CfServers : cfEnabled[s]}
        best == FirstIn(Candidates(CfPrimary), Connected)
    IN  IF best # "none" THEN best ELSE FirstIn(Candidates(CfPrimary), usable)

cfInit ==
    /\ cfEnabled = [s \in CfServers |-> TRUE]
    /\ cfStandby = [s \in CfServers |-> s # CfPrimary]
    /\ cfBackups = [s \in CfServers |->
                      IF s = CfPrimary THEN <<CHOOSE r \in CfServers : r # s>> ELSE <<>>]
    /\ cfTimeout = 1
    /\ cfUp = [s \in CfServers |-> FALSE] /\ cfHs = [s \in CfServers |-> StaleAfter]
    /\ cfRemote = [s \in CfServers |-> TRUE]
    /\ cfRec = [s \in CfServers |-> NoRecord]
    /\ cfWanted = {} /\ cfInstalled = "none" /\ cfSig = <<>>
    /\ cfPhase = <<"sleep">> /\ cfEdits = 0

-----------------------------------------------------------------------------
\* retryDelay over the length of the outage at the moment it is asked for.
retryDelay(outage) == IF outage < FastFor THEN 0 ELSE IF outage < SlowAfter THEN 1 ELSE 2

\* How long after the last attempt the next one may start: the handshake
\* window of a started interface and the pause of the schedule.
HandshakeWindow(r) == IF r.verifying THEN cfTimeout ELSE 0
RetryIn(r) == HandshakeWindow(r) + retryDelay(r.out + HandshakeWindow(r))

beginFailure(r) == IF r.fail = NoTime THEN [r EXCEPT !.fail = 0] ELSE r

\* The same with a freshly created interface taken for a recovery.
observeCreated(r, up, hs) ==
    IF up /\ r.attempts > 0
    THEN <<[NoRecord EXCEPT !.seen = TRUE, !.pending = r.pending, !.healthy = hs], "wait">>
    ELSE IF up THEN <<[r EXCEPT !.seen = TRUE], "wait">>
    ELSE <<beginFailure([r EXCEPT !.seen = TRUE]), "reconnect">>

\* observeWithSettings: the new record and what to do about the tunnel.
observe(r, up, hs) ==
    LET s == [r EXCEPT !.seen = TRUE]
        f == beginFailure(s)
    IN  IF up /\ hs < StaleAfter
        THEN <<[NoRecord EXCEPT !.seen = TRUE, !.pending = r.pending, !.healthy = hs], "wait">>
        ELSE IF r.att # NoTime /\ r.att < RetryIn(r) THEN <<s, "wait">>
        ELSE IF ~up THEN <<f, "reconnect">>
        ELSE IF r.verifying /\ r.att < cfTimeout THEN <<s, "wait">>
        ELSE IF r.healthy < StaleAfter THEN <<s, "wait">>
        ELSE IF r.attempts > 0 THEN <<f, "reconnect">>
        ELSE IF r.probe = NoTime THEN <<[f EXCEPT !.probe = 0], "probe">>
        ELSE IF r.probe < cfTimeout THEN <<s, "wait">>
        ELSE <<s, "reconnect">>

\* attemptedWithSettings.
attempted(r, ok) ==
    LET f == beginFailure(r)
    IN  [f EXCEPT !.att = 0, !.attempts = IF r.attempts < 2 THEN r.attempts + 1 ELSE 2,
                  !.pending = TRUE, !.verifying = ok, !.out = f.fail]

clientNeedsFallback(r) ==
    /\ Recovering(r)
    /\ \/ r.attempts > 1
       \/ r.attempts > 0 /\ r.verifying /\ r.att >= cfTimeout
       \/ r.probe # NoTime /\ r.probe >= cfTimeout

-----------------------------------------------------------------------------

\* reconcileStandbyClients: the reserves every failing primary asks for.  A
\* primary that is only being verified keeps the first reserve that is already
\* authenticated and wakes none; one that needs a reserve takes them in order
\* up to one that is connected or not known to fail.
Demand(p, standby) ==
    LET list == SelectSeq(Reserves(p), LAMBDA s : cfEnabled[s])
        good == {s \in CfServers : clientAuthenticated(s) \/ ~clientNeedsFallback(cfRec[s])}
        stop == FirstIn(list, good)
        idle == standby[p] \/ ~cfEnabled[p] \/ clientAuthenticated(p)
    IN  IF idle THEN {}
        ELSE IF ~clientNeedsFallback(cfRec[p])
        THEN {FirstIn(list, {s \in CfServers : clientAuthenticated(s)})} \cap CfServers
        ELSE {list[i] : i \in {i \in DOMAIN list : \A j \in DOMAIN list :
                                   list[j] = stop => i <= j}}

Reconcile(standby) ==
    LET wanted == UNION {Demand(p, standby) : p \in CfServers}
        asleep == {s \in CfServers : standby[s] /\ s \notin wanted}
    IN  /\ cfWanted' = wanted
        /\ cfUp' = [s \in CfServers |-> cfUp[s] /\ s \notin asleep]
        /\ cfHs' = [s \in CfServers |-> IF s \in asleep THEN StaleAfter ELSE cfHs[s]]
        /\ cfRec' = [s \in CfServers |-> IF s \in asleep THEN NoRecord ELSE cfRec[s]]

cfAt(phase) == cfPhase # <<>> /\ Head(cfPhase) = phase

reconcileStandbyClients ==
    /\ cfAt("reconcile")
    /\ Reconcile(cfStandby)
    /\ cfPhase' = Tail(cfPhase)
    /\ UNCHANGED <<Wishes, cfRemote, cfInstalled, cfSig, cfEdits>>

\* checkClient: a tunnel that should not run is forgotten; the others are
\* observed, and pending routes, a probe or a reconnection follow.  A
\* reconnection drops the interface first and may fail before or after the
\* new one exists; its routes are then restored from the policy as it is.
checkClient(s) ==
    /\ cfAt(s)
    /\ cfPhase' = Tail(cfPhase)
    /\ UNCHANGED <<Wishes, cfRemote, cfWanted, cfSig, cfEdits>>
    /\ IF ~clientShouldRun(s)
       THEN /\ cfRec' = [cfRec EXCEPT ![s] = NoRecord]
            /\ UNCHANGED <<cfUp, cfHs, cfInstalled>>
       ELSE LET old == [cfRec[s] EXCEPT !.pending = @ \/ ~cfRec[s].seen]
                seen == observe(old, cfUp[s], cfHs[s])
                r == seen[1]
            IN  IF seen[2] # "reconnect"
                THEN /\ UNCHANGED <<cfUp, cfHs>>
                     /\ \/ /\ cfUp[s] /\ r.pending
                           /\ cfRec' = [cfRec EXCEPT ![s] = [r EXCEPT !.pending = FALSE]]
                           /\ cfInstalled' = selectFallbackTunnelID
                        \/ /\ cfRec' = [cfRec EXCEPT ![s] = r]
                           /\ UNCHANGED cfInstalled
                ELSE \E up \in BOOLEAN, ok \in BOOLEAN :
                     /\ ok => up
                     /\ cfUp' = [cfUp EXCEPT ![s] = up]
                     /\ cfHs' = [cfHs EXCEPT ![s] = StaleAfter]
                     /\ cfRec' = [cfRec EXCEPT ![s] = attempted(r, ok)]
                     /\ cfInstalled' = IF ok THEN selectFallbackTunnelID' ELSE cfInstalled

\* fallbackRoutingSignature and refreshFallbackRouting: the first look only
\* remembers; a change is consumed when the policy has been rewritten.
fallbackRoutingSignature ==
    <<selectFallbackTunnelID,
      FirstIn(Candidates(CfPrimary), Connected)>>

refreshFallbackRouting ==
    /\ cfAt("fallback")
    /\ cfPhase' = Tail(cfPhase)
    /\ \/ /\ cfBackups[CfPrimary] = <<>>
          /\ cfSig' = <<>> /\ UNCHANGED cfInstalled
       \/ /\ cfBackups[CfPrimary] # <<>> /\ cfSig = <<>>
          /\ cfSig' = fallbackRoutingSignature /\ UNCHANGED cfInstalled
       \/ /\ cfBackups[CfPrimary] # <<>> /\ cfSig # <<>> /\ cfSig # fallbackRoutingSignature
          /\ cfSig' = fallbackRoutingSignature
          /\ cfInstalled' = selectFallbackTunnelID
       \/ /\ cfBackups[CfPrimary] # <<>> /\ cfSig = fallbackRoutingSignature
          /\ UNCHANGED <<cfSig, cfInstalled>>
    /\ UNCHANGED <<Wishes, cfUp, cfHs, cfRemote, cfRec, cfWanted, cfEdits>>

\* One pass over the tunnels: checkClients.
PassOf(order) == <<"reconcile">> \o order \o <<"reconcile">>
                 \o SelectSeq(order, LAMBDA s : cfStandby[s]) \o <<"fallback", "sleep">>

Older(age, cap) == IF age = NoTime \/ age >= cap THEN age ELSE age + 1

\* The supervisor sleeps, time passes, and a new pass begins.
PassBegins ==
    /\ cfAt("sleep")
    /\ cfHs' = [s \in CfServers |-> IF cfHs[s] < StaleAfter THEN cfHs[s] + 1 ELSE StaleAfter]
    /\ cfRec' = [s \in CfServers |->
                   [cfRec[s] EXCEPT !.healthy = Older(@, StaleAfter), !.probe = Older(@, 2),
                                    !.att = IF Recovering(cfRec[s]) THEN Older(@, AgeCap) ELSE @, !.fail = Older(@, SlowAfter)]]
    /\ LET order == CHOOSE q \in [1..2 -> CfServers] : q[1] = CfPrimary /\ q[2] # CfPrimary
       IN  cfPhase' = PassOf(order)
    /\ UNCHANGED <<Wishes, cfUp, cfRemote, cfWanted, cfInstalled, cfSig, cfEdits>>

\* The world: peers come and go, a daemon dies, a handshake completes.
PeerFlips(s) ==
    /\ cfAt("sleep") /\ cfEdits < CfMaxEdits /\ cfEdits' = cfEdits + 1
    /\ cfRemote' = [cfRemote EXCEPT ![s] = ~@]
    /\ UNCHANGED <<Wishes, cfUp, cfHs, cfRec, cfWanted, cfInstalled, cfSig, cfPhase>>
IfaceLost(s) ==
    /\ cfAt("sleep") /\ cfUp[s] /\ cfEdits < CfMaxEdits /\ cfEdits' = cfEdits + 1
    /\ cfUp' = [cfUp EXCEPT ![s] = FALSE] /\ cfHs' = [cfHs EXCEPT ![s] = StaleAfter]
    /\ UNCHANGED <<Wishes, cfRemote, cfRec, cfWanted, cfInstalled, cfSig, cfPhase>>
Handshake(s) ==
    /\ cfAt("sleep") /\ cfUp[s] /\ cfRemote[s] /\ cfHs[s] # 0
    /\ cfHs' = [cfHs EXCEPT ![s] = 0]
    /\ UNCHANGED <<Wishes, cfUp, cfRemote, cfRec, cfWanted, cfInstalled, cfSig, cfPhase, cfEdits>>

\* A user operation takes ops, so that the pass in progress gives up.
UserEdit == /\ cfAt("sleep") /\ cfEdits < CfMaxEdits /\ cfEdits' = cfEdits + 1
        /\ cfPhase' = <<"sleep">>

\* AWG2ClientDown and AWG2SetServerEnabled: the tunnel is forgotten, dropped
\* and the policy rebuilt without it; switched on again it is started.
AWG2SetServerEnabled(s) ==
    /\ UserEdit
    /\ cfEnabled' = [cfEnabled EXCEPT ![s] = ~@]
    /\ IF cfEnabled[s]
       THEN /\ cfUp' = [cfUp EXCEPT ![s] = FALSE] /\ cfHs' = [cfHs EXCEPT ![s] = StaleAfter]
            /\ cfRec' = [cfRec EXCEPT ![s] = NoRecord]
       ELSE \E up \in BOOLEAN :
            /\ cfUp' = [cfUp EXCEPT ![s] = up /\ ~cfStandby[s]]
            /\ cfHs' = [cfHs EXCEPT ![s] = StaleAfter]
            /\ cfRec' = [cfRec EXCEPT ![s] = IF cfStandby[s] THEN NoRecord ELSE attempted(@, up)]
    /\ UNCHANGED <<cfStandby, cfBackups, cfTimeout, cfRemote, cfWanted, cfSig>>
    /\ cfInstalled' = selectFallbackTunnelID'

\* AWG2SetFailover: a list that would close a cycle is refused; the reserves
\* and the standby wish are saved, the demand is recomputed and the policy
\* rebuilt.
Cyclic(graph) ==
    \E x \in CfServers : \E i \in DOMAIN Expand(graph, graph[x], <<>>) :
        Expand(graph, graph[x], <<>>)[i] = x

AWG2SetFailover(s, standby, list) ==
    /\ UserEdit
    /\ ~Cyclic([cfBackups EXCEPT ![s] = list])
    /\ cfStandby' = [cfStandby EXCEPT ![s] = standby]
    /\ cfBackups' = [cfBackups EXCEPT ![s] = list]
    /\ Reconcile(cfStandby')
    /\ UNCHANGED <<cfEnabled, cfTimeout, cfRemote, cfSig>>
    /\ cfInstalled' = selectFallbackTunnelID'

\* AWG2SetRecoverySettings: the deadlines move with the schedule.
AWG2SetRecoverySettings ==
    /\ UserEdit
    /\ cfTimeout' \in Timeouts \ {cfTimeout}
    /\ UNCHANGED <<cfEnabled, cfStandby, cfBackups, cfUp, cfHs, cfRemote, cfRec,
                   cfWanted, cfInstalled, cfSig>>

\* The panel is restarted: records, demand and signature are gone, the
\* tunnels stay.
PanelRestarts ==
    /\ UserEdit
    /\ cfRec' = [s \in CfServers |-> NoRecord] /\ cfWanted' = {} /\ cfSig' = <<>>
    /\ cfInstalled' = "none"
    /\ UNCHANGED <<Wishes, cfUp, cfHs, cfRemote>>

cfPass == reconcileStandbyClients \/ (\E s \in CfServers : checkClient(s))
        \/ refreshFallbackRouting \/ PassBegins

cfNext ==
    \/ cfPass
    \/ \E s \in CfServers :
          \/ PeerFlips(s) \/ IfaceLost(s) \/ Handshake(s) \/ AWG2SetServerEnabled(s)
          \/ \E b \in BOOLEAN, list \in {<<>>} \cup {<<r>> : r \in CfServers \ {s}} :
                AWG2SetFailover(s, b, list)
    \/ AWG2SetRecoverySettings \/ PanelRestarts

-----------------------------------------------------------------------------
cfTypeOK ==
    /\ {cfEnabled, cfStandby, cfUp, cfRemote} \subseteq [CfServers -> BOOLEAN]
    /\ cfHs \in [CfServers -> 0..StaleAfter] /\ cfTimeout \in Timeouts
    /\ cfWanted \subseteq CfServers /\ cfEdits \in 0..CfMaxEdits
    /\ cfInstalled \in CfServers \cup {"none"}
    /\ \A s \in CfServers : cfRec[s].attempts \in 0..2 /\ cfRec[s].out \in 0..SlowAfter

\* The length of an outage is not forgiven by creating an interface, by a
\* change of the schedule or by a retry: it only grows until the peer has
\* authenticated, the tunnel is switched off or put to sleep, or the panel
\* restarts.
OutageKept ==
    [][\A s \in CfServers :
          /\ cfRec[s].fail # NoTime
          /\ cfRec'[s].fail = NoTime \/ cfRec'[s].fail < cfRec[s].fail
          => \/ clientAuthenticated(s) \/ ~cfEnabled'[s]
             \/ cfStandby'[s] /\ s \notin cfWanted'
             \/ \A x \in CfServers : cfRec'[x] = NoRecord]_cfVars

\* A reserve that carries the traffic of a primary is not dropped by the
\* supervisor while that primary is down, in particular not in the first pass
\* after a restart of the panel, when no failure is on record.
ReserveKept ==
    [][\A s, p \in CfServers :
          /\ cfEdits' = cfEdits /\ clientAuthenticated(s) /\ cfAt("reconcile") /\ ~cfUp'[s]
          /\ cfEnabled[p] /\ ~cfStandby[p] /\ ~clientAuthenticated(p)
          /\ \E i \in DOMAIN Reserves(p) : Reserves(p)[i] = s
          => \E i \in DOMAIN Reserves(p) : Reserves(p)[i] \in cfWanted']_cfVars

\* The supervisor forgets neither an outage nor the reserve that stands in.
FailoverKept == []cfTypeOK /\ OutageKept /\ ReserveKept
=============================================================================
