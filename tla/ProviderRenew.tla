---------------------------- MODULE ProviderRenew ----------------------------
(***************************************************************************)
(* The user's request to renew the DHCP lease of the WAN, once.  The       *)
(* request waits for a discovery pass, for the locks of the adapter and    *)
(* for the firmware, while the DNS server is stopped and started, the WAN  *)
(* changes under the reader and the user asks again.  A command that       *)
(* failed may have reached the firmware all the same.                      *)
(***************************************************************************)
EXTENDS Naturals, FiniteSets

CONSTANTS
    PnReqs,     \* requests
    PnTime,     \* bound on the clock
    PnCooldown, \* five minutes
    PnEvents    \* bound on stops, starts and changes of the WAN

ASSUME PnAssumption == PnTime \in Nat /\ PnCooldown \in Nat /\ PnEvents \in Nat /\ 0 \notin PnReqs

VARIABLES
    pnNow,
    pnRun,    \* the run of the adapter, 0 = stopped
    pnRuns,   \* runs so far
    pnWan,    \* WAN that has the default route
    pnReader, \* identity of the passive reader and its WAN
    pnReaders,\* readers so far
    pnOp,     \* holder of opMu
    pnDisc,   \* holder of discoveryMu
    pnActive, pnNextAt, \* the renewal guard
    pnReq,    \* where each request is and what it captured
    pnCtl,    \* where Prepare or Close is
    pnSent,   \* the commands and what was so when they were given
    pnSeen,   \* WANs that had the default route since a request holds both locks
    pnEvent

pnVars == <<pnNow, pnRun, pnRuns, pnWan, pnReader, pnReaders, pnOp, pnDisc, pnActive, pnNextAt, pnReq, pnCtl,
            pnSent, pnSeen, pnEvent>>

PnControl == 99  \* Prepare and Close as holders of opMu
pnNoReader == [id |-> 0, wan |-> 0]
pnDone == [at |-> "idle", run |-> 0, reader |-> pnNoReader]

pnInit ==
    /\ pnNow = 0 /\ pnRun = 1 /\ pnRuns = 1 /\ pnWan = 1 /\ pnReader = pnNoReader /\ pnReaders = 0
    /\ pnOp = 0 /\ pnDisc = 0 /\ pnActive = FALSE /\ pnNextAt = 0
    /\ pnReq = [r \in PnReqs |-> pnDone] /\ pnCtl = "idle" /\ pnSent = {} /\ pnSeen = {} /\ pnEvent = 0

pnHappens == pnEvent < PnEvents /\ pnEvent' = pnEvent + 1
pnTick ==
    /\ pnNow < PnTime /\ pnNow' = pnNow + 1
    /\ UNCHANGED <<pnRun, pnRuns, pnWan, pnReader, pnReaders, pnOp, pnDisc, pnActive, pnNextAt, pnReq, pnCtl, pnSent,
                   pnSeen, pnEvent>>

-----------------------------------------------------------------------------
\* A discovery pass starts the reader on the WAN of the default route, or replaces the one of another WAN.
pnDiscover ==
    /\ pnDisc = 0 /\ pnRun # 0 /\ pnReader.wan # pnWan
    /\ pnReader' = [id |-> pnReaders + 1, wan |-> pnWan] /\ pnReaders' = pnReaders + 1
    /\ UNCHANGED <<pnNow, pnRun, pnRuns, pnWan, pnOp, pnDisc, pnActive, pnNextAt, pnReq, pnCtl, pnSent, pnSeen, pnEvent>>
pnWanChanges ==
    /\ pnHappens /\ pnWan' = 3 - pnWan /\ pnSeen' = IF pnDisc = 0 THEN {} ELSE pnSeen \cup {pnWan'}
    /\ UNCHANGED <<pnNow, pnRun, pnRuns, pnReader, pnReaders, pnOp, pnDisc, pnActive, pnNextAt, pnReq, pnCtl, pnSent>>

\* Close: opMu, the end of the run, then discoveryMu for the end of the reader.
pnCloses ==
    /\ pnCtl = "idle" /\ pnOp = 0 /\ pnRun # 0 /\ pnHappens /\ pnOp' = PnControl /\ pnRun' = 0 /\ pnCtl' = "reader"
    /\ UNCHANGED <<pnNow, pnRuns, pnWan, pnReader, pnReaders, pnDisc, pnActive, pnNextAt, pnReq, pnSent, pnSeen>>
pnClosed ==
    /\ pnCtl = "reader" /\ pnDisc = 0 /\ pnReader' = pnNoReader /\ pnOp' = 0 /\ pnCtl' = "idle"
    /\ UNCHANGED <<pnNow, pnRun, pnRuns, pnWan, pnReaders, pnDisc, pnActive, pnNextAt, pnReq, pnSent, pnSeen, pnEvent>>
pnPrepare ==
    /\ pnCtl = "idle" /\ pnOp = 0 /\ pnRun = 0 /\ pnRun' = pnRuns + 1 /\ pnRuns' = pnRuns + 1
    /\ UNCHANGED <<pnNow, pnWan, pnReader, pnReaders, pnOp, pnDisc, pnActive, pnNextAt, pnReq, pnCtl, pnSent, pnSeen, pnEvent>>

-----------------------------------------------------------------------------
pnMove(r, at) == pnReq' = [pnReq EXCEPT ![r].at = at]
pnWorld == <<pnNow, pnRun, pnRuns, pnWan, pnReader, pnReaders, pnCtl, pnEvent>>
\* The request ends, with an answer or an error.
pnFinish(r) == pnReq' = [pnReq EXCEPT ![r] = pnDone] /\ pnActive' = FALSE

\* RenewShadowDNS: one at a time, and not before the cooldown is over.
renewBegin(r) ==
    /\ pnReq[r].at = "idle" /\ ~pnActive /\ pnNow >= pnNextAt /\ pnActive' = TRUE /\ pnMove(r, "run")
    /\ UNCHANGED <<pnOp, pnDisc, pnNextAt, pnSent, pnSeen>> /\ UNCHANGED pnWorld
renewRun(r) ==
    /\ pnReq[r].at = "run"
    /\ \/ pnRun # 0 /\ pnReq' = [pnReq EXCEPT ![r] = [@ EXCEPT !.at = "refresh", !.run = pnRun]] /\ UNCHANGED pnActive
       \/ pnRun = 0 /\ pnFinish(r)
    /\ UNCHANGED <<pnOp, pnDisc, pnNextAt, pnSent, pnSeen>> /\ UNCHANGED pnWorld

\* The request's context ends with its run.
pnCut(r) == pnReq[r].run # pnRun

\* A pass may find the servers already.  Otherwise the reader of the WAN is the target.
shadowRenewTarget(r) ==
    /\ pnReq[r].at = "refresh" /\ pnDisc = 0
    /\ \/ ~pnCut(r) /\ pnReader # pnNoReader
          /\ pnReq' = [pnReq EXCEPT ![r] = [@ EXCEPT !.at = "op", !.reader = pnReader]] /\ UNCHANGED pnActive
       \/ pnFinish(r)
    /\ UNCHANGED <<pnOp, pnDisc, pnNextAt, pnSent, pnSeen>> /\ UNCHANGED pnWorld

\* lockShadowContext: polls for the lock until the context ends.
lockOp(r) ==
    /\ pnReq[r].at = "op"
    /\ \/ pnOp = 0 /\ pnOp' = r /\ pnMove(r, "disc") /\ UNCHANGED pnActive
       \/ pnCut(r) /\ pnFinish(r) /\ UNCHANGED pnOp
    /\ UNCHANGED <<pnDisc, pnNextAt, pnSent, pnSeen>> /\ UNCHANGED pnWorld
lockDisc(r) ==
    /\ pnReq[r].at = "disc"
    /\ \/ pnDisc = 0 /\ pnDisc' = r /\ pnSeen' = {pnWan} /\ pnMove(r, "check") /\ UNCHANGED <<pnActive, pnOp>>
       \/ pnCut(r) /\ pnFinish(r) /\ pnOp' = 0 /\ UNCHANGED <<pnDisc, pnSeen>>
    /\ UNCHANGED <<pnNextAt, pnSent>> /\ UNCHANGED pnWorld

\* With both locks: the run and then the live route are those the request began with.  Commands of the firmware
\* follow that take seconds, and nothing keeps the route as it was read.
pnLeave(r) == pnFinish(r) /\ pnOp' = 0 /\ pnDisc' = 0 /\ pnSeen' = {} /\ UNCHANGED <<pnNextAt, pnSent>>
verifyShadowRenewTarget(r) == ~pnCut(r) /\ pnWan = pnReq[r].reader.wan
renewCheck(r) ==
    /\ pnReq[r].at = "check"
    /\ \/ verifyShadowRenewTarget(r) /\ pnMove(r, "checked") /\ UNCHANGED <<pnOp, pnDisc, pnActive, pnNextAt, pnSent, pnSeen>>
       \/ pnLeave(r)  \* also when a command of the check fails or the time is up
    /\ UNCHANGED pnWorld
\* The reader is still the one that was the target; the guard is set before the command, whatever becomes of it.
sameReader(r) == pnReader = pnReq[r].reader
sent(ok) == pnNextAt' = pnNow + PnCooldown
renewCommand(r) ==
    /\ pnReq[r].at = "checked"
    /\ \/ ~pnCut(r) /\ sameReader(r) /\ \E ok \in BOOLEAN :
            /\ sent(ok) /\ pnMove(r, IF ok THEN "sent" ELSE "failed")
            /\ pnSent' = pnSent \cup {[at |-> pnNow, run |-> pnReq[r].run, live |-> pnRun, wan |-> pnReq[r].reader.wan,
                                       seen |-> pnSeen, reader |-> pnReq[r].reader.id, current |-> pnReader.id]}
            /\ UNCHANGED <<pnOp, pnDisc, pnActive, pnSeen>>
       \/ pnLeave(r)  \* the reader closed or was replaced, or the user is gone
    /\ UNCHANGED pnWorld
renewUnlock(r) ==
    /\ pnReq[r].at \in {"sent", "failed"} /\ pnOp' = 0 /\ pnDisc' = 0 /\ pnSeen' = {}
    /\ IF pnReq[r].at = "sent" THEN pnMove(r, "wait") /\ UNCHANGED pnActive ELSE pnFinish(r)
    /\ UNCHANGED <<pnNextAt, pnSent>> /\ UNCHANGED pnWorld
\* waitShadowRenewal: a reply, the closed reader, the time or the end of the context.
waitShadowRenewal(r) ==
    /\ pnReq[r].at = "wait" /\ pnFinish(r)
    /\ UNCHANGED <<pnOp, pnDisc, pnNextAt, pnSent, pnSeen>> /\ UNCHANGED pnWorld

pnNext ==
    \/ pnTick \/ pnDiscover \/ pnWanChanges \/ pnCloses \/ pnClosed \/ pnPrepare
    \/ \E r \in PnReqs : renewBegin(r) \/ renewRun(r) \/ shadowRenewTarget(r) \/ lockOp(r) \/ lockDisc(r)
                         \/ renewCheck(r) \/ renewCommand(r)
                         \/ renewUnlock(r) \/ waitShadowRenewal(r)

-----------------------------------------------------------------------------
\* The firmware is told to renew at most once in five minutes, by whichever request and however the command ended.
RenewedOnce ==
    [][pnSent' # pnSent => \A c \in pnSent : pnNow >= c.at + PnCooldown]_pnVars

\* It is told so only by a request of the run that is live, with the reader of that run watching, as a reader of an
\* earlier run would wait for replies nobody reports; and for a WAN that had the route when both locks were held, not
\* just before a wait for them.  The route may move on between its reading and the command.
RenewedInItsRun == \A c \in pnSent : c.run = c.live /\ c.reader = c.current /\ c.wan \in c.seen

\* The firmware is told to renew rarely, and only by the run that is live.
RenewSafe == []RenewedInItsRun /\ RenewedOnce
=============================================================================
