--------------------------- MODULE ProviderInform ---------------------------
(***************************************************************************)
(* Asking the provider's DHCP server for its DNS with DHCPINFORM.  The     *)
(* server is known from an ACK in the log or found by a broadcast on the   *)
(* active WAN; its answer is cached for a time of its own, renewed before  *)
(* that ends, and attempts are kept apart.  A pass holds discoveryMu, asks *)
(* at most once, and takes time: the WAN may change under it.              *)
(***************************************************************************)
EXTENDS Naturals, FiniteSets

CONSTANTS
    PiTime,   \* bound on the clock
    PiTTL,    \* ttl of an answer
    PiEarly,  \* it is renewed this long before
    PiRetry,  \* retry
    PiAcks,   \* bound on the ACKs logged
    PiEvents  \* bound on changes of the WAN and cancelled passes

ASSUME PiAssumption == PiTTL \in Nat /\ PiEarly \in Nat /\ PiRetry \in Nat /\ PiTime \in Nat /\ PiAcks \in Nat /\ PiEvents \in Nat

VARIABLES
    piNow,
    piWan,    \* the WAN, 0 = no default route through it
    piAck,    \* the last ACK in the log: stamp, server, WAN
    piTarget, \* state.targets
    piAns,    \* state.answers
    piRetryAt,\* state.retryAfter
    piCast,   \* broadcastKey, broadcastRetry
    piPass,   \* the pass under way
    piGot,    \* what the last pass returned, and what it knew of its end
    piLast,   \* the last exchange that was completed with the present server, since the WAN is the one it is: WAN, end
    piEvent

piVars == <<piNow, piWan, piAck, piTarget, piAns, piRetryAt, piCast, piPass, piGot, piLast, piEvent>>
piKnown == <<piTarget, piAns, piRetryAt, piCast>>

PiServers == {1, 2}
piNoTarget == [server |-> 0]
piNoAns == [server |-> 0, until |-> 0, refresh |-> FALSE]
piNoLast == [wan |-> 0, ended |-> 0]
piIdle == [at |-> "idle"]

piInit ==
    /\ piNow = PiTTL /\ piWan = 1 /\ piAck = [stamp |-> 0] /\ piTarget = piNoTarget /\ piAns = piNoAns /\ piRetryAt = 0
    /\ piCast = [wan |-> 0, until |-> 0] /\ piPass = piIdle /\ piGot = piNoAns
    /\ piLast = piNoLast /\ piEvent = 0

piHappens == piEvent < PiEvents /\ piEvent' = piEvent + 1

-----------------------------------------------------------------------------
piTick == piNow < PiTime /\ piNow' = piNow + 1 /\ UNCHANGED <<piWan, piAck, piPass, piGot, piLast, piEvent>> /\ UNCHANGED piKnown
piWanChanges ==
    /\ piHappens /\ piWan' \in 0..2 \ {piWan}
    /\ UNCHANGED <<piNow, piAck, piPass, piGot, piLast>> /\ UNCHANGED piKnown
piLogged ==
    /\ piAck.stamp < PiAcks /\ piWan # 0
    /\ \E s \in PiServers : piAck' = [stamp |-> piAck.stamp + 1, server |-> s, wan |-> piWan]
    /\ UNCHANGED <<piNow, piWan, piPass, piGot, piLast, piEvent>> /\ UNCHANGED piKnown

-----------------------------------------------------------------------------
targetValid(key) == piTarget # piNoTarget /\ key # 0 /\ piTarget.wan = key
answerCurrent(key) == ~piAns.refresh /\ piNow + PiEarly < piAns.until

\* The log repeats an ACK that is known: a peer found since then stays.
repeated(key) == piTarget # piNoTarget /\ piTarget.wan = key /\ piTarget.stamp = piAck.stamp

\* Targets of another WAN are dropped; the ACK of the log becomes the target, unless it is older or repeated.  The
\* same server keeps its answer, to be renewed; another one starts anew.
remember(key) ==
    LET gone == key # 0 /\ piTarget # piNoTarget /\ ~targetValid(key)
        target == IF gone THEN piNoTarget ELSE piTarget
        ans == IF gone THEN piNoAns ELSE piAns
        retry == IF gone THEN 0 ELSE piRetryAt
        new == [wan |-> key, server |-> piAck.server, stamp |-> piAck.stamp, cast |-> FALSE]
    IN IF piAck.stamp = 0 \/ key = 0 THEN <<target, ans, retry>>
       ELSE IF piAck.wan # key THEN <<target, ans, retry>>
       ELSE IF target = piNoTarget THEN <<new, ans, retry>>
       ELSE IF piAck.stamp < target.stamp \/ repeated(key) THEN <<target, ans, retry>>
       ELSE IF target.server = piAck.server
            THEN <<[new EXCEPT !.cast = target.cast], IF ans = piNoAns THEN ans ELSE [ans EXCEPT !.refresh = TRUE], retry>>
            ELSE <<new, piNoAns, 0>>

\* The pass begins: it reads the route and the log.
piBegin ==
    /\ piPass = piIdle
    /\ LET r == remember(piWan) IN
        /\ piTarget' = r[1] /\ piAns' = r[2] /\ piRetryAt' = r[3]
        /\ piLast' = IF r[1].server = piTarget.server /\ piWan \in {0, piLast.wan} THEN piLast ELSE piNoLast
    /\ piPass' = [at |-> "inform", key |-> piWan, sent |-> 0, found |-> piNoAns]
    /\ UNCHANGED <<piNow, piWan, piAck, piCast, piGot, piEvent>>

piFound == IF piNow < piAns.until THEN piAns ELSE piNoAns
piTo(at, found) == piPass' = [piPass EXCEPT !.at = at, !.found = found]

\* discoverShadowInform up to its probe: a current answer is returned; in the cooldown, and when the server is to be
\* asked by broadcast, the one that has not expired.
informCached ==
    /\ piPass.at = "inform"
    /\ \/ ~targetValid(piPass.key) /\ piTo("cast", piNoAns)
       \/ targetValid(piPass.key) /\ answerCurrent(piPass.key) /\ piTo("cast", piAns)
       \/ /\ targetValid(piPass.key) /\ ~answerCurrent(piPass.key) /\ (piNow < piRetryAt \/ piTarget.cast)
          /\ piTo("cast", piFound)
    /\ UNCHANGED <<piNow, piWan, piAck, piGot, piLast, piEvent>> /\ UNCHANGED piKnown
informProbe ==
    /\ piPass.at = "inform" /\ targetValid(piPass.key) /\ ~answerCurrent(piPass.key) /\ piNow >= piRetryAt /\ ~piTarget.cast
    /\ piPass' = [piPass EXCEPT !.at = "unicast", !.sent = @ + 1]
    /\ UNCHANGED <<piNow, piWan, piAck, piGot, piLast, piEvent>> /\ UNCHANGED piKnown

cooldown == piNow + PiRetry
piEnded == piLast' = [wan |-> piPass.key, ended |-> piNow]

\* It answers, with DNS or without, or is silent: then the next attempt is a broadcast.
informAnswer ==
    /\ piPass.at = "unicast"
    /\ piRetryAt' = cooldown /\ piEnded
    /\ \/ /\ piAns' = [server |-> piTarget.server, until |-> piNow + PiTTL, refresh |-> FALSE]
          /\ piTo("cast", piAns') /\ UNCHANGED piTarget
       \/ piTo("cast", piFound) /\ UNCHANGED <<piTarget, piAns>>
       \/ piTarget' = [piTarget EXCEPT !.cast = TRUE] /\ piTo("cast", piFound) /\ UNCHANGED piAns
    /\ UNCHANGED <<piNow, piWan, piAck, piCast, piGot, piEvent>>

\* The pass is cancelled while it asks: nothing is remembered of the attempt.
piCancel ==
    /\ piPass.at \in {"unicast", "broadcast"} /\ piHappens /\ piPass' = piIdle
    /\ UNCHANGED <<piNow, piWan, piAck, piGot, piLast>> /\ UNCHANGED piKnown

-----------------------------------------------------------------------------
due == targetValid(piPass.key) /\ ~answerCurrent(piPass.key) /\ piTarget.cast /\ piNow >= piRetryAt
\* A broadcast is due for a silent server, or when no server is known; never after a question to one in this pass.
casts == piPass.sent = 0 /\ piPass.key # 0 /\ (due \/ (piPass.found = piNoAns /\ ~targetValid(piPass.key)))

piNoCast ==
    /\ piPass.at = "cast" /\ ~casts /\ piPass' = piIdle /\ piGot' = [piPass.found EXCEPT !.refresh = FALSE]
    /\ UNCHANGED <<piNow, piWan, piAck, piLast, piEvent>> /\ UNCHANGED piKnown
\* Reading the interfaces takes time; the WAN may be gone, or its last broadcast too recent.
piCastBegin ==
    /\ piPass.at = "cast" /\ casts
    /\ \/ /\ piWan = piPass.key /\ ~(piCast.wan = piPass.key /\ piNow < piCast.until)
          /\ piPass' = [piPass EXCEPT !.at = "broadcast", !.sent = @ + 1]
       \/ piTo("recheck", piPass.found)
    /\ UNCHANGED <<piNow, piWan, piAck, piGot, piLast, piEvent>> /\ UNCHANGED piKnown

\* discoverShadowBroadcast: whoever answers becomes the target, with the stamp of the one it replaces.
piCastAnswer ==
    /\ piPass.at = "broadcast"
    /\ piCast' = [wan |-> piPass.key, until |-> piNow + PiRetry]
    /\ \/ \E s \in PiServers :
             LET same == targetValid(piPass.key) IN
             /\ piTarget' = [wan |-> piPass.key, server |-> s, stamp |-> IF same THEN piTarget.stamp ELSE 0,
                             cast |-> same /\ piTarget.cast]
             /\ piAns' = [server |-> s, until |-> piNow + PiTTL, refresh |-> FALSE]
             /\ piRetryAt' = cooldown /\ piEnded /\ piGot' = piAns' /\ piPass' = piIdle
       \/ /\ piRetryAt' = IF targetValid(piPass.key) THEN cooldown ELSE piRetryAt
          /\ piEnded
          /\ piTo("recheck", piPass.found) /\ UNCHANGED <<piTarget, piAns, piGot>>
    /\ UNCHANGED <<piNow, piWan, piAck, piEvent>>

\* shadowUnexpiredCandidates: what was found before the broadcast must still be valid after it.
unexpired == IF piNow < piAns.until /\ targetValid(piPass.key) /\ piPass.found # piNoAns THEN piAns ELSE piNoAns
piRecheck ==
    /\ piPass.at = "recheck" /\ piPass' = piIdle /\ piGot' = [unexpired EXCEPT !.refresh = FALSE]
    /\ UNCHANGED <<piNow, piWan, piAck, piLast, piEvent>> /\ UNCHANGED piKnown

piNext ==
    \/ piTick \/ piWanChanges \/ piLogged \/ piBegin \/ informCached \/ informProbe \/ informAnswer \/ piCancel
    \/ piNoCast \/ piCastBegin \/ piCastAnswer \/ piRecheck

-----------------------------------------------------------------------------
\* A pass that read the interfaces once more, or asked by broadcast in vain, returns nothing that expired meanwhile.
AnswerIsLive ==
    [][piPass.at = "recheck" /\ piPass'.at = "idle" /\ piGot'.server # 0 => piNow < piGot'.until]_piVars

\* One exchange per pass: the known server or the broadcast.
OneExchange == piPass # piIdle => piPass.sent <= 1

\* Attempts on one WAN are kept apart, whatever way they take, until the log gives another server or a pass meets
\* another WAN (which drops what was known of this one, its cooldown too).
AttemptsApart ==
    [][piPass.at \in {"inform", "cast"} /\ piPass'.at \in {"unicast", "broadcast"}
           /\ piLast.wan = piPass.key /\ piLast.ended > 0
           => piNow >= piLast.ended + PiRetry]_piVars

\* A server that a broadcast found is not displaced by the old ACK that still stands in the log.
PeerNotReplayed ==
    [][piTarget # piNoTarget /\ piTarget' # piNoTarget /\ piTarget.wan = piTarget'.wan /\ piTarget.stamp = piTarget'.stamp
           /\ piPass = piIdle => piTarget.server = piTarget'.server]_piVars

\* A pass asks once, keeps its distance and returns nothing that is expired or displaced.
InformSafe == []OneExchange /\ AnswerIsLive /\ AttemptsApart /\ PeerNotReplayed
=============================================================================
