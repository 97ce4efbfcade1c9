----------------------------- MODULE DnsAdapter -----------------------------
(***************************************************************************)
(* The private routes of the DNS server: a firewall hook, one policy rule  *)
(* and routing table per route, the connections opened through them and a  *)
(* goroutine that repairs the firewall.  Prepare and Close hold opMu; the  *)
(* mutex mu is free while connections are dialled and while Close joins    *)
(* the goroutine.  A cleanup goes on after a command that failed; some of  *)
(* the failures it does not even report.  One route stands for all: they   *)
(* share no state.                                                         *)
(***************************************************************************)
EXTENDS Naturals, FiniteSets

CONSTANTS
    DaConns,   \* dials
    DaRuns,    \* bound on preparations
    DaFaults   \* bound on failing commands and on crashes

ASSUME DaAssumption == DaRuns \in Nat

VARIABLES
    daOp,      \* holder of opMu
    daAt,      \* where Prepare or Close is
    daStarted, daRun, \* a.started and the identity of a.runCtx
    daCut,     \* cancelled runs
    daReady,   \* a.hookReady
    daHook,    \* the hook file is ours and exists
    daFw,      \* run whose firewall rules are installed, 0 = none
    daRule,    \* our policy rule exists
    daTable,   \* what its routing table holds
    daSig,     \* the route is remembered as installed
    daConn,    \* each dial and the run it belongs to
    daMaint,   \* goroutine maintain of each run
    daDirty,   \* a crash left remnants that nobody has cleaned yet
    daClean,   \* step of cleanupLocked, "none" outside it
    daErr,     \* it will return an error
    daSkipped, \* what a command of a cleanup may have left that failed without being reported
    daTorn,    \* a cleanup deleted the rule and did not come to empty its table
    daFault

daVars == <<daOp, daAt, daStarted, daRun, daCut, daReady, daHook, daFw, daRule, daTable, daSig,
            daConn, daMaint, daDirty, daClean, daErr, daSkipped, daTorn, daFault>>
daCleanup == <<daClean, daErr, daSkipped>>
daOs == <<daHook, daFw, daRule, daTable, daDirty, daTorn, daCleanup>>
daLife == <<daStarted, daRun, daCut>>

daInit ==
    /\ daOp = "none" /\ daAt = "idle" /\ daStarted = FALSE /\ daRun = 0 /\ daCut = {}
    /\ daReady = FALSE /\ daHook = FALSE /\ daFw = 0 /\ daRule = FALSE /\ daTable = "empty" /\ daSig = FALSE
    /\ daConn = [c \in DaConns |-> [at |-> "idle", run |-> 0]]
    /\ daMaint = [r \in 1..DaRuns |-> "off"] /\ daDirty = FALSE /\ daTorn = FALSE /\ daFault = 0
    /\ daClean = "none" /\ daErr = FALSE /\ daSkipped = {}

daFaulty == daFault < DaFaults /\ daFault' = daFault + 1
daLockFree == daAt \in {"idle", "conns", "join"}  \* Prepare holds mu throughout

-----------------------------------------------------------------------------

\* cleanupLocked: the firewall, then the rule and, after it, its table.  What fails is passed over.
cleanupBegins == daClean' = "firewall" /\ daErr' = FALSE /\ UNCHANGED daSkipped
reported == daErr' = TRUE /\ UNCHANGED daSkipped
unnoticed(what) == daSkipped' = daSkipped \cup {what} /\ UNCHANGED daErr
works(what) == daSkipped' = daSkipped \ {what} /\ UNCHANGED <<daErr, daFault>>
\* The script ends as a success whatever iptables answers; an error is one that it was killed.
cleanupFirewall ==
    /\ daClean = "firewall" /\ daClean' = "rule"
    /\ \/ daFw' = 0 /\ works("firewall")
       \/ daFaulty /\ daFw' \in {0, daFw} /\ (reported \/ unnoticed("firewall"))
    /\ UNCHANGED <<daOp, daAt, daLife, daReady, daHook, daRule, daTable, daDirty, daTorn, daSig, daConn, daMaint>>
\* A table without our rule is not ours.  The rules of IPv6 may be unreadable without an error.
cleanupRule ==
    /\ daClean = "rule"
    /\ \/ ~daRule /\ daClean' = "done" /\ works("rule") /\ UNCHANGED <<daRule, daTorn>>
       \/ daRule /\ daClean' = "flush" /\ daRule' = FALSE /\ works("rule") /\ UNCHANGED daTorn
       \/ /\ daRule /\ daClean' = "done" /\ daFaulty
          /\ \/ (reported \/ unnoticed("rule")) /\ UNCHANGED <<daRule, daTorn>>
             \/ reported /\ daRule' = FALSE /\ daTorn' = (daTorn \/ daTable # "empty")
    /\ UNCHANGED <<daOp, daAt, daLife, daReady, daHook, daFw, daTable, daDirty, daSig, daConn, daMaint>>
cleanupFlush ==
    /\ daClean = "flush" /\ daClean' = "done"
    /\ \/ daTable' = "empty" /\ UNCHANGED <<daErr, daSkipped, daFault>> /\ UNCHANGED daTorn
       \/ daFaulty /\ reported /\ daTorn' = (daTorn \/ daTable # "empty") /\ UNCHANGED daTable
    /\ UNCHANGED <<daOp, daAt, daLife, daReady, daHook, daFw, daRule, daDirty, daSig, daConn, daMaint>>
cleanupEnds ==
    /\ daClean = "done" /\ daClean' = "none" /\ daErr' = FALSE /\ UNCHANGED <<daSkipped, daTorn, daFault>>
    /\ daDirty' = (daDirty /\ daErr) /\ UNCHANGED <<daFw, daRule, daTable>>

\* Prepare: remnants of an unclean end first, then the hook, then its rules.
Prepare ==
    /\ daOp = "none" /\ ~daStarted /\ daRun < DaRuns
    /\ daOp' = "prepare" /\ daAt' = "remnants" /\ cleanupBegins
    /\ UNCHANGED <<daLife, daReady, daHook, daFw, daRule, daTable, daDirty, daTorn, daSig, daConn, daMaint, daFault>>
prepareRemnants ==
    /\ daAt = "remnants" /\ cleanupEnds
    /\ IF daErr THEN daAt' = "idle" /\ daOp' = "none" ELSE daAt' = "hook" /\ UNCHANGED daOp
    /\ UNCHANGED <<daLife, daReady, daHook, daSig, daConn, daMaint>>
prepareHook ==
    /\ daAt = "hook"
    /\ \/ daHook' = TRUE /\ daAt' = "script" /\ UNCHANGED <<daOp, daFault>>
       \/ daFaulty /\ UNCHANGED daHook /\ daAt' = "idle" /\ daOp' = "none"
    /\ UNCHANGED <<daLife, daReady, daFw, daRule, daTable, daDirty, daTorn, daCleanup, daSig, daConn, daMaint>>
prepareScript ==
    /\ daAt = "script"
    /\ \/ /\ daFw' = daRun + 1 /\ daRun' = daRun + 1 /\ daStarted' = TRUE /\ daReady' = TRUE
          /\ daSig' = FALSE /\ daMaint' = [daMaint EXCEPT ![daRun'] = "wait"]
          /\ daAt' = "idle" /\ daOp' = "none" /\ UNCHANGED <<daHook, daCleanup, daFault>>
       \/ /\ daFaulty /\ daFw' \in {0, daRun + 1} /\ daHook' = FALSE /\ daAt' = "undo" /\ cleanupBegins
          /\ UNCHANGED <<daOp, daRun, daStarted, daReady, daSig, daMaint>>
    /\ UNCHANGED <<daCut, daRule, daTable, daDirty, daTorn, daConn>>

\* An incomplete cleanup stays pending for a later Close.
pending(failed) == failed
prepareUndo ==
    /\ daAt = "undo" /\ cleanupEnds /\ daAt' = "idle" /\ daOp' = "none" /\ daReady' = pending(daErr)
    /\ UNCHANGED <<daLife, daHook, daSig, daConn, daMaint>>

-----------------------------------------------------------------------------
\* dialOS: under mu the route is made whole; the socket is opened without it.
routeIsWhole == daRule /\ daTable = "full"
trustedOnce == daSig

trusted == daSig /\ daTable = "full"
\* The table is claimed by the rule before it is filled; a command may fail
\* after any of them, and a table that others use is left alone.
claims == daRule \/ daTable = "empty"
ensureRouteLocked ==
    IF trusted THEN UNCHANGED <<daRule, daTable, daSig, daFault, daAt>>
    ELSE /\ claims
         /\ daRule' = TRUE /\ daTable' = "full" /\ daSig' = TRUE /\ UNCHANGED <<daFault, daAt>>
ensureFails ==
    /\ daStarted /\ daLockFree /\ ~trusted /\ claims /\ daFaulty /\ daRule' = TRUE
    /\ daTable' \in {daTable, "blackhole"}
    /\ UNCHANGED <<daOp, daAt, daLife, daReady, daHook, daFw, daSig, daConn, daMaint, daDirty, daTorn, daCleanup>>
daDial(c) ==
    /\ daConn[c].at = "idle" /\ daStarted /\ daLockFree
    /\ ensureRouteLocked
    /\ daFw' \in {daFw, daRun}  \* the hook is run again when its rules are missing
    /\ daConn' = [daConn EXCEPT ![c] = [at |-> "dial", run |-> daRun]]
    /\ UNCHANGED <<daOp, daLife, daReady, daHook, daMaint, daDirty, daTorn, daCleanup>>
\* The dial fails; unless it was cancelled the route is checked anew.
dialFails(c) ==
    /\ daConn[c].at = "dial" /\ daConn' = [daConn EXCEPT ![c].at = "idle"]
    /\ \/ UNCHANGED daSig
       \/ daLockFree /\ daSig' = FALSE
    /\ UNCHANGED <<daOp, daAt, daLife, daReady, daOs, daMaint, daFault>>
dialConnects(c) ==
    /\ daConn[c].at = "dial" /\ daConn' = [daConn EXCEPT ![c].at = "socket"]
    /\ UNCHANGED <<daOp, daAt, daLife, daReady, daOs, daSig, daMaint, daFault>>

\* A connection of a run that was stopped meanwhile is closed, not tracked.
sameRun(c) == daStarted /\ daRun = daConn[c].run
dialTracks(c) ==
    /\ daConn[c].at = "socket" /\ daLockFree
    /\ daConn' = [daConn EXCEPT ![c].at = IF sameRun(c) THEN "tracked" ELSE "idle"]
    /\ UNCHANGED <<daOp, daAt, daLife, daReady, daOs, daSig, daMaint, daFault>>
routedClose(c) ==
    /\ daConn[c].at = "tracked" /\ daLockFree /\ daConn' = [daConn EXCEPT ![c].at = "idle"]
    /\ UNCHANGED <<daOp, daAt, daLife, daReady, daOs, daSig, daMaint, daFault>>

\* The router drops our rules, or a tunnel and with it the route of its table.
daFirewallReset ==
    /\ daFw # 0 /\ daFw' = 0
    /\ UNCHANGED <<daOp, daAt, daLife, daReady, daHook, daRule, daTable, daDirty, daTorn, daCleanup, daSig, daConn, daMaint, daFault>>
daLinkGone ==
    /\ daTable = "full" /\ daTable' = "blackhole"
    /\ UNCHANGED <<daOp, daAt, daLife, daReady, daHook, daFw, daRule, daDirty, daTorn, daCleanup, daSig, daConn, daMaint, daFault>>

-----------------------------------------------------------------------------
\* maintain: inspection without a lock; a repair only tries to take opMu,
\* because Close holds it while it waits for this goroutine.
daGo(r, at) == daMaint' = [daMaint EXCEPT ![r] = at]
ownRun(r) == daStarted /\ daRun = r /\ r \notin daCut
maintainTick(r) ==
    /\ daMaint[r] = "wait" /\ daLockFree /\ ownRun(r) /\ daGo(r, "inspect")
    /\ UNCHANGED <<daOp, daAt, daLife, daReady, daOs, daSig, daConn, daFault>>
maintainInspect(r) ==
    /\ daMaint[r] = "inspect" /\ daGo(r, IF r \in daCut \/ daFw = r THEN "wait" ELSE "lock")
    /\ UNCHANGED <<daOp, daAt, daLife, daReady, daOs, daSig, daConn, daFault>>

tryLock(r) == daMaint[r] = "lock"  \* answered at once, whoever holds opMu
maintainLock(r) ==
    /\ tryLock(r)
    /\ IF daOp = "none" THEN daOp' = "maintain" /\ daGo(r, "repair")
       ELSE UNCHANGED daOp /\ daGo(r, "wait")
    /\ UNCHANGED <<daAt, daLife, daReady, daOs, daSig, daConn, daFault>>
maintainOnce(r) ==
    /\ daMaint[r] = "repair" /\ daLockFree /\ daOp' = "none" /\ daGo(r, "wait")
    /\ IF ownRun(r)
       THEN \/ daFw' = r /\ daReady' = TRUE /\ UNCHANGED daFault
            \/ daFaulty /\ daFw' \in {daFw, r} /\ daReady' = FALSE
       ELSE UNCHANGED <<daFw, daReady, daFault>>
    /\ UNCHANGED <<daAt, daLife, daHook, daRule, daTable, daDirty, daTorn, daCleanup, daSig, daConn>>
maintainEnds(r) ==
    /\ daMaint[r] = "wait" /\ r \in daCut /\ daGo(r, "off")
    /\ UNCHANGED <<daOp, daAt, daLife, daReady, daOs, daSig, daConn, daFault>>

-----------------------------------------------------------------------------
\* Close: cancelled and marked, connections closed, goroutine joined, and then
\* the hook removed and everything cleaned.
closeMark ==
    /\ daOp = "none" /\ daOp' = "close" /\ daAt' = "conns"
    /\ daStarted' = FALSE /\ daCut' = daCut \cup ({daRun} \ {0})
    /\ UNCHANGED <<daRun, daReady, daOs, daSig, daConn, daMaint, daFault>>
closeConns ==
    /\ daAt = "conns" /\ daAt' = "join"
    /\ daConn' = [c \in DaConns |-> IF daConn[c].at = "tracked" THEN [daConn[c] EXCEPT !.at = "idle"] ELSE daConn[c]]
    /\ UNCHANGED <<daOp, daLife, daReady, daOs, daSig, daMaint, daFault>>
closeJoin ==
    /\ daAt = "join" /\ (\A r \in 1..DaRuns : r = daRun => daMaint[r] = "off")
    /\ IF ~daHook /\ ~daReady
       THEN daAt' = "idle" /\ daOp' = "none" /\ UNCHANGED <<daHook, daFault, daCleanup>>
       ELSE \/ daHook' = FALSE /\ daAt' = "clean" /\ cleanupBegins /\ UNCHANGED <<daOp, daFault>>
            \/ daHook /\ daFaulty /\ UNCHANGED <<daHook, daCleanup>> /\ daAt' = "idle" /\ daOp' = "none"
    /\ UNCHANGED <<daLife, daReady, daFw, daRule, daTable, daDirty, daTorn, daSig, daConn, daMaint>>
closeCleanup ==
    /\ daAt = "clean" /\ cleanupEnds /\ daAt' = "idle" /\ daOp' = "none" /\ daReady' = pending(daErr)
    /\ UNCHANGED <<daLife, daHook, daSig, daConn, daMaint>>

\* The process dies: what it installed stays, also a table whose rule is gone.
daCrash ==
    /\ daFaulty /\ daOp' = "none" /\ daAt' = "idle" /\ daStarted' = FALSE /\ daReady' = FALSE
    /\ daCut' = 1..daRun /\ daSig' = FALSE /\ daDirty' = TRUE
    /\ daClean' = "none" /\ daErr' = FALSE /\ daTorn' = (daTorn \/ (daClean = "flush" /\ daTable # "empty"))
    /\ daConn' = [c \in DaConns |-> [at |-> "idle", run |-> 0]] /\ daMaint' = [r \in 1..DaRuns |-> "off"]
    /\ UNCHANGED <<daRun, daHook, daFw, daRule, daTable, daSkipped>>

daNext ==
    \/ Prepare \/ prepareRemnants \/ prepareHook \/ prepareScript \/ prepareUndo
    \/ cleanupFirewall \/ cleanupRule \/ cleanupFlush
    \/ closeMark \/ closeConns \/ closeJoin \/ closeCleanup
    \/ ensureFails \/ daFirewallReset \/ daLinkGone \/ daCrash
    \/ \E c \in DaConns : daDial(c) \/ dialFails(c) \/ dialConnects(c) \/ dialTracks(c) \/ routedClose(c)
    \/ \E r \in 1..DaRuns : \/ maintainTick(r) \/ maintainInspect(r) \/ maintainLock(r)
                            \/ maintainOnce(r) \/ maintainEnds(r)

-----------------------------------------------------------------------------
\* Nothing of a stopped server stays in the system without a sign that a later
\* Close or Prepare follows: the hook, the pending mark, or a crash; except
\* what a command left that failed in a cleanup and was not reported, until one works.
StoppedIsCleaned ==
    daOp # "prepare" /\ daOp # "close" /\ ~daStarted /\ ~daHook /\ ~daReady /\ ~daDirty =>
        /\ daFw = 0 \/ "firewall" \in daSkipped
        /\ ~daRule \/ "rule" \in daSkipped

\* A connection outlives neither the run that opened it nor, when it was still
\* being dialled, the restart of the server in between.
ConnsOfRun ==
    \A c \in DaConns : daConn[c].at = "tracked" => daConn[c].run = daRun /\ (daStarted \/ daAt = "conns")

\* Close never waits for a goroutine that waits for Close: the one it joins belongs to a cancelled
\* run, repairs nothing, and goes on without opMu when it finds it taken.
JoinCanEnd ==
    daAt = "join" /\ daRun # 0 =>
        /\ daRun \in daCut /\ daMaint[daRun] # "repair"
        /\ daMaint[daRun] = "lock" => tryLock(daRun)

\* A socket is opened only through a whole route: its packets never fall
\* through to another policy because the tunnel was recreated meanwhile.
SocketHasRoute ==
    [][\A c \in DaConns : daConn[c].at = "idle" /\ daConn'[c].at = "dial" => routeIsWhole']_daVars

\* A table with our routes has the rule by which it is found again and cleaned, through the commands that fail
\* and the crashes of a dial, of a preparation and of a cleanup.  The one window is that of a cleanup between the
\* deletion of the rule and the flush of its table: cut off or failing there it leaves a table nobody cleans.
TableIsClaimed == daTable # "empty" /\ ~daTorn /\ daClean # "flush" => daRule

\* The DNS route of a run is whole while it is used, and gone or remembered after it.
AdapterSafe == [](StoppedIsCleaned /\ ConnsOfRun /\ JoinCanEnd /\ TableIsClaimed) /\ SocketHasRoute
=============================================================================
