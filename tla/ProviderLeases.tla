--------------------------- MODULE ProviderLeases ---------------------------
(***************************************************************************)
(* How the shadow resolver learns the provider's DNS servers on a Keenetic *)
(* router: from the firmware itself, from the last DHCP ACK of the ring    *)
(* log, and from the replies that a passive reader sees on the WAN.  What  *)
(* it learns is kept until the lease ends, in memory, in a file that a     *)
(* restart reads back, and in a short cache of the last pass.  A pass runs *)
(* under discoveryMu, while the provider, the clocks and the WAN move on.  *)
(*                                                                         *)
(* The log names the WAN by an alias of its own, so that one WAN may have  *)
(* a lease under two names.                                                *)
(***************************************************************************)
EXTENDS Integers, Sequences, FiniteSets

CONSTANTS
    PlTime,    \* bound on the clock
    PlLease,   \* length of a lease
    PlTTL,     \* how long a pass is cached
    PlReplies, \* bound on the replies of the provider
    PlEvents   \* bound on clock steps, WAN changes, restarts and failures

ASSUME PlAssumption == PlTime \in Nat /\ PlLease \in Nat /\ PlTTL \in Nat /\ PlReplies \in Nat /\ PlEvents \in Nat

VARIABLES
    plNow,     \* real time, the monotonic clock
    plSkew,    \* the wall clock is ahead of it by this much
    plBack,    \* how often the wall clock was set back
    plBoot,    \* when the router booted, also the boot id
    plWan,     \* address of the WAN
    plRouted,  \* the default route leads through it
    plAuth,    \* the firmware itself uses the provider's DNS
    plReply,   \* replies of the provider, in the order they were given
    plLog,     \* last ACK in the ring log, 0 = none
    plStarted, \* the adapter runs
    plClosing, \* Close waits for discoveryMu
    plReader,  \* the passive reader
    plLeases,  \* a.shadow.leases
    plLoaded, plDigest, \* leasesLoaded, and what is known to be on disk
    plFile,    \* the lease file
    plPass,    \* the pass that holds discoveryMu
    plCache,   \* a.shadow.servers and discoveryUntil
    plEvent

plVars == <<plNow, plSkew, plBack, plBoot, plWan, plRouted, plAuth, plReply, plLog, plStarted, plClosing,
            plReader, plLeases, plLoaded, plDigest, plFile, plPass, plCache, plEvent>>
plWorld == <<plNow, plSkew, plBack, plBoot, plWan, plRouted, plAuth, plReply, plLog>>
plStore == <<plLoaded, plDigest, plFile>>

PlNames == {"log", "native"}
PlNone == [v |-> 0]
plNoReader == [on |-> FALSE, wan |-> 0, seen |-> 0, last |-> 0, applied |-> 0, inspected |-> 0]
plNoPass == [at |-> "idle", key |-> 0, rev |-> 0, cand |-> {}, reader |-> FALSE, timed |-> FALSE]
plNoCache == [v |-> {}, until |-> 0, timed |-> FALSE, key |-> 0, lost |-> FALSE]

plWall == plNow + plSkew
plKey == IF plRouted THEN plWan ELSE 0
plUntil(v) == plReply[v].at + PlLease

plInit ==
    /\ plNow = 0 /\ plSkew = 1 /\ plBack = 0 /\ plBoot = 0 /\ plWan = 1 /\ plRouted = TRUE /\ plAuth = FALSE
    /\ plReply = <<>> /\ plLog = 0 /\ plStarted = TRUE /\ plClosing = FALSE /\ plReader = plNoReader
    /\ plLeases = [i \in PlNames |-> PlNone] /\ plLoaded = FALSE /\ plDigest = {}
    /\ plFile = [ok |-> FALSE] /\ plPass = plNoPass /\ plCache = plNoCache /\ plEvent = 0

plHappens == plEvent < PlEvents /\ plEvent' = plEvent + 1

-----------------------------------------------------------------------------
(* The world. *)

plTick ==
    /\ plNow < PlTime /\ plNow' = plNow + 1
    /\ UNCHANGED <<plSkew, plBack, plBoot, plWan, plRouted, plAuth, plReply, plLog, plStarted, plClosing,
                   plReader, plLeases, plLoaded, plDigest, plFile, plPass, plCache, plEvent>>

\* The wall clock is set, the monotonic one is not.
plClockStep ==
    /\ plHappens /\ plSkew' \in {0, 1} \ {plSkew}
    /\ plBack' = IF plSkew' < plSkew THEN plBack + 1 ELSE plBack
    /\ UNCHANGED <<plNow, plBoot, plWan, plRouted, plAuth, plReply, plLog, plStarted, plClosing,
                   plReader, plLeases, plLoaded, plDigest, plFile, plPass, plCache>>

\* The provider answers the firmware's client.  An ACK is logged, sooner or later, with its DNS servers or, as
\* renewals are, without; the reader of that WAN sees it, and a NAK too.
plAnswer ==
    /\ Len(plReply) < PlReplies /\ \A v \in 1..Len(plReply) : plReply[v].at < plNow
    /\ \E kind \in {"ack", "nodns", "nak"}, full \in BOOLEAN :
        /\ full => kind = "ack"
        /\ plReply' = Append(plReply, [at |-> plNow, kind |-> kind, full |-> full, wan |-> plWan, wall |-> plWall,
                                       back |-> plBack])
        /\ plLog' \in IF kind = "nak" THEN {plLog} ELSE IF full THEN {Len(plReply) + 1} ELSE {plLog, Len(plReply) + 1}
        /\ plReader' = IF plReader.on /\ plReader.wan = plWan
                       THEN [plReader EXCEPT !.seen = @ + 1, !.last = Len(plReply) + 1] ELSE plReader
    /\ UNCHANGED <<plNow, plSkew, plBack, plBoot, plWan, plRouted, plAuth, plStarted, plClosing, plLeases,
                   plLoaded, plDigest, plFile, plPass, plCache, plEvent>>

plWanChanges ==
    /\ plHappens
    /\ \/ plWan' = 3 - plWan /\ UNCHANGED <<plRouted, plAuth, plLog>>
       \/ plRouted' = ~plRouted /\ UNCHANGED <<plWan, plAuth, plLog>>
       \/ plAuth' = ~plAuth /\ UNCHANGED <<plWan, plRouted, plLog>>
       \/ plLog # 0 /\ plLog' = 0 /\ UNCHANGED <<plWan, plRouted, plAuth>>  \* the ring wraps
    /\ UNCHANGED <<plNow, plSkew, plBack, plBoot, plReply, plStarted, plClosing, plReader, plLeases,
                   plLoaded, plDigest, plFile, plPass, plCache>>

\* The process dies; with the router, its log and boot id go too.
plRestart ==
    /\ plHappens
    /\ \/ UNCHANGED <<plBoot, plLog>>
       \/ plBoot' = plNow /\ plNow > plBoot /\ plLog' = 0
    /\ plReader' = plNoReader /\ plLeases' = [i \in PlNames |-> PlNone] /\ plLoaded' = FALSE /\ plDigest' = {}
    /\ plPass' = plNoPass /\ plCache' = plNoCache /\ plStarted' = TRUE /\ plClosing' = FALSE
    /\ UNCHANGED <<plNow, plSkew, plBack, plWan, plRouted, plAuth, plReply, plFile>>

-----------------------------------------------------------------------------
(* The file. *)

plUptime == plNow - plBoot

\* shadowLeaseRecords: what is written of a lease, and so what the digest covers.
plRecords == {<<i, plLeases[i].v, plLeases[i].wan, plLeases[i].wall, plLeases[i].nat>> :
              i \in {n \in PlNames : plLeases[n] # PlNone}}

\* encodeShadowState: the remaining life by the wall clock, also on the scale of the uptime.
plEncoded ==
    [ok |-> TRUE, boot |-> plBoot, wall |-> plWall, up |-> plUptime,
     leases |-> [i \in PlNames |-> IF plLeases[i] = PlNone THEN PlNone ELSE
         [v |-> plLeases[i].v, wan |-> plLeases[i].wan, wall |-> plLeases[i].wall, nat |-> plLeases[i].nat,
          up |-> plUptime + (plLeases[i].wall - plWall),
          torn |-> plLeases[i].torn \/ plLeases[i].back # plBack]]]

\* decodeShadowState: another boot and a clock set back make the document invalid, as do lifetimes past the lease.
decodable ==
    /\ plFile.ok /\ plFile.boot = plBoot /\ plWall >= plFile.wall /\ plUptime >= plFile.up
    /\ \A i \in PlNames : plFile.leases[i] # PlNone =>
        LET item == plFile.leases[i] IN
        /\ item.wall - plFile.wall \in 1..PlLease /\ item.up - plFile.up \in 1..PlLease
        /\ item.nat => plReply[item.v].wall <= plFile.wall /\ item.wall <= plReply[item.v].wall + PlLease

\* The shorter of what the wall clock and the uptime leave.
remains(item) ==
    LET wall == item.wall - plWall
        up == item.up - plUptime
    IN IF up < wall THEN up ELSE wall

loaded ==
    [i \in PlNames |-> IF ~decodable THEN PlNone
        ELSE IF plFile.leases[i] = PlNone THEN PlNone
        ELSE IF remains(plFile.leases[i]) <= 0 THEN PlNone
        ELSE LET item == plFile.leases[i] IN
             [v |-> item.v, wan |-> item.wan, nat |-> item.nat, torn |-> item.torn, back |-> plBack,
              exp |-> plNow + remains(item), wall |-> plWall + remains(item)]]

-----------------------------------------------------------------------------
(* A pass: the log, the reader, the result. *)

plChanged == plReader.on /\ plReader.seen # plReader.applied

\* shadowLeaseObservedAt: a stamp of the future is taken for one of last year.
observedAt(v) == IF plReply[v].wall > plWall THEN -PlTime ELSE plReply[v].wall
leaseObserved(lease) == IF lease.nat THEN plReply[lease.v].wall ELSE observedAt(lease.v)
leaseValid(lease, key) == lease # PlNone /\ key # 0 /\ lease.wan = key /\ lease.wan = plWan /\ plNow < lease.exp

\* Expired leases, and those of another WAN, are dropped before the log is read.
prune(leases, key) ==
    [i \in PlNames |-> IF leases[i] = PlNone \/ plNow >= leases[i].exp \/ (key # 0 /\ ~leaseValid(leases[i], key))
                       THEN PlNone ELSE leases[i]]

\* The ACK of the log is older than what a packet showed: its stamp has whole seconds, so the same reply counts as
\* older.
stale(leases, key, v) ==
    \E i \in PlNames :
        LET lease == leases[i] IN
        lease # PlNone /\ lease.nat /\ lease.wan = key /\ lease.wan = plReply[v].wan
            /\ observedAt(v) <= plReply[lease.v].wall

remainingByLog(v) == IF plReply[v].wall > plWall THEN 0 ELSE plReply[v].wall + PlLease - plWall

logUsable(leases, key) ==
    /\ plLog # 0 /\ ~stale(leases, key, plLog)
    /\ LET own == leases["log"] IN own # PlNone => observedAt(plLog) >= leaseObserved(own)
    /\ plReply[plLog].wan = plWan /\ plReply[plLog].full /\ remainingByLog(plLog) > 0

\* The lease of the log is remembered; read again, it keeps the expiry it had.
learnLog(leases, key) ==
    IF ~logUsable(leases, key) \/ key = 0 THEN leases
    ELSE LET own == leases["log"]
             next == [v |-> plLog, wan |-> key, nat |-> FALSE, torn |-> plReply[plLog].back # plBack, back |-> plBack,
                      exp |-> plNow + remainingByLog(plLog), wall |-> plWall + remainingByLog(plLog)]
         IN [leases EXCEPT !["log"] = IF own # PlNone /\ own.v = plLog /\ own.wan = key /\ ~own.nat THEN own ELSE next]

\* shadowServersOS and the first half of the discovery.  Servers the firmware uses supersede every lease and end the
\* reader.
plBegin ==
    /\ plPass.at = "idle"
    /\ plNow >= plCache.until \/ plChanged
    /\ plLoaded' = TRUE
    /\ LET before == IF plLoaded THEN plLeases ELSE loaded
           kept == prune(before, plKey)
       IN /\ plDigest' = IF plLoaded THEN plDigest
                         ELSE {<<i, before[i].v, before[i].wan, before[i].wall, before[i].nat>> :
                               i \in {n \in PlNames : before[n] # PlNone}}
          /\ IF plAuth
             THEN /\ plLeases' = [i \in PlNames |-> PlNone] /\ plReader' = plNoReader
                  /\ plPass' = [plNoPass EXCEPT !.at = "end", !.cand = {0}]
             ELSE /\ plLeases' = learnLog(kept, plKey) /\ UNCHANGED plReader
                  /\ plPass' = [plNoPass EXCEPT !.at = "observe", !.key = plKey,
                                !.rev = plReader.seen, !.reader = plReader.on,
                                !.cand = IF logUsable(kept, plKey) THEN {plLog} ELSE {}]
    /\ UNCHANGED <<plStarted, plClosing, plFile, plCache, plEvent>> /\ UNCHANGED plWorld

\* Packet evidence replaces the leases of its WAN, by whatever name, unless the log told of something newer.
supersede(key, v) ==
    LET own(l) == l # PlNone /\ l.wan = key
        kept == [i \in PlNames |-> IF own(plLeases[i]) THEN PlNone ELSE plLeases[i]]
    IN IF plReply[v].kind = "ack" /\ plNow < plUntil(v)
       THEN [kept EXCEPT !["native"] = [v |-> v, wan |-> key, nat |-> TRUE, torn |-> FALSE, back |-> plReply[v].back,
                                        exp |-> plUntil(v), wall |-> plReply[v].wall + PlLease]]
       ELSE kept

runs == plStarted

\* A reader that is ended takes with it the replies no pass has applied.
readerEnds == plCache' = [plCache EXCEPT !.lost = @ \/ plChanged]

\* observeShadowNative.
plObserve ==
    /\ plPass.at = "observe"
    /\ IF ~runs \/ plPass.key = 0 \/ plWan # plPass.key
       THEN /\ plReader' = plNoReader /\ plPass' = [plPass EXCEPT !.at = "end", !.reader = FALSE]
            /\ readerEnds /\ UNCHANGED plLeases
       ELSE LET same == plReader.on /\ plReader.wan = plPass.key
                reader == IF same THEN plReader ELSE [plNoReader EXCEPT !.on = TRUE, !.wan = plPass.key]
                pass == [plPass EXCEPT !.at = "end", !.reader = @ /\ same]
                v == reader.last
                newer == \E i \in PlNames : plLeases[i] # PlNone /\ plLeases[i].wan = plPass.key
                             /\ leaseObserved(plLeases[i]) > plReply[v].wall
            IN /\ plReader' = [reader EXCEPT !.inspected = reader.seen]
               /\ IF same THEN UNCHANGED plCache ELSE readerEnds
               /\ IF v = 0 \/ newer
                  THEN plPass' = pass /\ UNCHANGED plLeases
                  ELSE plLeases' = supersede(plPass.key, v) /\ plPass' = [pass EXCEPT !.cand = {}]
    /\ UNCHANGED <<plStarted, plClosing, plEvent>> /\ UNCHANGED plStore /\ UNCHANGED plWorld

\* The two seconds of a pass are over before it observes: it keeps what the log gave it.
plTimeout ==
    /\ plPass.at = "observe" /\ plHappens
    /\ plPass' = [plPass EXCEPT !.at = "end", !.timed = TRUE]
    /\ UNCHANGED <<plStarted, plClosing, plReader, plLeases, plCache>> /\ UNCHANGED plStore /\ UNCHANGED plWorld

\* The caller is gone: nothing is cached, and no reply counts as applied.
plCancel ==
    /\ plPass.at # "idle" /\ plHappens /\ plPass' = plNoPass
    /\ UNCHANGED <<plStarted, plClosing, plReader, plLeases, plCache>> /\ UNCHANGED plStore /\ UNCHANGED plWorld

\* Replies this pass has inspected, and those it began with.
applied(reader) ==
    LET start == IF plPass.reader THEN plPass.rev ELSE 0
        most == IF reader.inspected > reader.applied THEN reader.inspected ELSE reader.applied
    IN IF start > most THEN start ELSE most

\* A pass is cached for a minute, never past a lease.
cachedUntil(v) ==
    LET ends == {plLeases[i].exp : i \in {n \in PlNames : plLeases[n] # PlNone}} \cup {plNow + PlTTL}
    IN CHOOSE t \in ends : \A u \in ends : t <= u

\* The file is rewritten when what it should hold has changed; an expired lease or a failing disk leaves it as it is.
saveShadowLeases ==
    IF plRecords = plDigest THEN UNCHANGED <<plDigest, plFile, plEvent>>
    ELSE \/ /\ \A i \in PlNames : plLeases[i] # PlNone => plLeases[i].wall > plWall
            /\ plDigest' = plRecords /\ plFile' = plEncoded /\ UNCHANGED plEvent
         \/ /\ \E i \in PlNames : plLeases[i] # PlNone /\ plLeases[i].wall <= plWall
            /\ UNCHANGED <<plDigest, plFile, plEvent>>
         \/ plHappens /\ UNCHANGED <<plDigest, plFile>>

plEnd ==
    /\ plPass.at = "end"
    /\ LET held == {plLeases[i].v : i \in {n \in PlNames : leaseValid(plLeases[n], plPass.key)}}
           found == IF plPass.cand # {} \/ plPass.timed THEN plPass.cand ELSE held
       IN plCache' = [v |-> found, until |-> IF found = {} THEN plNow + 1 ELSE cachedUntil(found),
                      timed |-> plPass.timed, key |-> plPass.key, lost |-> FALSE]
    /\ plReader' = IF plReader.on THEN [plReader EXCEPT !.applied = applied(plReader)] ELSE plReader
    /\ saveShadowLeases /\ plPass' = plNoPass
    /\ UNCHANGED <<plStarted, plClosing, plLeases, plLoaded>> /\ UNCHANGED plWorld

-----------------------------------------------------------------------------
(* Close ends the run, then waits for the pass and ends the reader; questions still under way may begin a pass     *)
(* later.                                                                                                          *)

plClose ==
    /\ plHappens /\ plStarted /\ plStarted' = FALSE /\ plClosing' = TRUE
    /\ UNCHANGED <<plReader, plLeases, plPass, plCache>> /\ UNCHANGED plStore /\ UNCHANGED plWorld

closeShadowNative ==
    /\ plClosing /\ plPass.at = "idle" /\ plClosing' = FALSE /\ plReader' = plNoReader
    /\ UNCHANGED <<plStarted, plLeases, plPass, plCache, plEvent>> /\ UNCHANGED plStore /\ UNCHANGED plWorld

plNext ==
    \/ plTick \/ plClockStep \/ plAnswer \/ plWanChanges \/ plRestart
    \/ plBegin \/ plObserve \/ plTimeout \/ plCancel \/ plEnd
    \/ plClose \/ closeShadowNative

-----------------------------------------------------------------------------
plHeld == {plLeases[i] : i \in {n \in PlNames : plLeases[n] # PlNone}}

\* Types, and the limits of the state: leases are of replies that gave servers, the newest of them in the file.
plTypeOK ==
    /\ plNow \in 0..PlTime /\ plSkew \in {0, 1} /\ plWan \in 1..2 /\ plLog \in 0..Len(plReply)
    /\ plReader.applied <= plReader.seen /\ plReader.last <= Len(plReply)
    /\ \A l \in plHeld : l.v \in 1..Len(plReply) /\ plReply[l.v].kind = "ack" /\ l.wan = plReply[l.v].wan
    /\ plPass.at \in {"idle", "observe", "end"}

\* A provider's server is never kept past the lease it came with, not through the file and a restart either, even
\* when the wall clock was set back after the file was written.  (A clock set back between the ACK and its reading
\* or writing is beyond what the code can tell, and marked torn.)
WithinGrant == \A l \in plHeld : ~l.torn => l.exp <= plUntil(l.v)

\* A pass is never cached past the lease its servers came with (found while the WAN had its route, and the wall
\* clock was not set back).
CacheWithinLease == plCache.key # 0 /\ plBack = 0 => \A v \in plCache.v : plCache.until <= plUntil(v)

\* A reply seen on the WAN is not hidden by the cache: once it is counted as applied, what is served is of that reply
\* or of a later one.
ReplyNotMasked ==
    plReader.on /\ ~plChanged /\ plPass.at = "idle" /\ ~plCache.timed /\ plReader.last # 0 /\ plBack = 0
        => \A v \in plCache.v \ {0} : plReply[v].wan = plReader.wan => v >= plReader.last

\* What is served never goes back to a reply older than packet evidence that is held for the same WAN, under whatever
\* name the log knows it (while the WAN has its route).  Excepted (lost) is evidence that only cancelled passes have
\* worked with, the last of which ended the reader: nothing tells then that the cache is behind.
NewestWins ==
    plPass.at = "idle" /\ plStarted /\ plNow < plCache.until /\ ~plChanged /\ ~plCache.lost /\ plBack = 0
    /\ plCache.key # 0
        => \A v \in plCache.v, l \in plHeld : l.nat /\ l.wan = plReply[v].wan => v >= l.v

\* Nothing reads the WAN once Close has returned.
ReaderOwned == ~plStarted /\ ~plClosing => ~plReader.on

\* What is served or remembered of the provider is current and within its lease.
LeasesSafe == plTypeOK /\ WithinGrant /\ CacheWithinLease /\ ReplyNotMasked /\ NewestWins /\ ReaderOwned
=============================================================================
