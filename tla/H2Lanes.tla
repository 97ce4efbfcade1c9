------------------------------ MODULE H2Lanes ------------------------------
(***************************************************************************)
(* The HTTP/2 lanes of the Telegram proxy, for one host: clients share the *)
(* lane and the preflight that opens it, a refreshed list of domains       *)
(* retires lanes nobody uses, and the close of the pool ends all of them.  *)
(***************************************************************************)
EXTENDS Naturals, FiniteSets

CONSTANTS
    HlClients,  \* clients that open a media channel
    HlLanes     \* bound on lanes made: 1..HlLanes

ASSUME hlAssumption == IsFiniteSet(HlClients) /\ 0 \notin HlClients /\ HlLanes \in Nat

VARIABLES
    hlAt,       \* where each client is in open
    hlMine,     \* the lane a client has made or found
    hlLane,     \* the lanes: their state and the clients with a channel
    hlMap,      \* p.lanes[host], or 0
    hlOpening,  \* the client whose preflight the others wait for, or 0
    hlFailed,   \* failedUntil of the host is in the future
    hlRetry,    \* setupRetry of the data centre is in the future
    hlWG,       \* openingWG
    hlListed,   \* the domain of the host is in the current list
    hlActive,   \* the domain is the active one of the balancer
    hlClose,    \* the close of the pool
    hlTaken,    \* the lane the close took
    hlMade      \* lanes made so far

hlVars == <<hlAt, hlMine, hlLane, hlMap, hlOpening, hlFailed, hlRetry, hlWG, hlListed, hlActive,
            hlClose, hlTaken, hlMade>>

hlInit ==
    /\ hlAt = [c \in HlClients |-> "out"] /\ hlMine = [c \in HlClients |-> 0]
    /\ hlLane = [l \in 1..HlLanes |-> [st |-> "none", chans |-> {}]]
    /\ hlMap = 0 /\ hlOpening = 0 /\ hlFailed = FALSE /\ hlRetry = FALSE /\ hlWG = 0
    /\ hlListed = TRUE /\ hlActive = FALSE /\ hlClose = "none" /\ hlTaken = 0 /\ hlMade = 0

hlGo(c, at) == hlAt' = [hlAt EXCEPT ![c] = at]
hlShut == hlClose # "none"

-----------------------------------------------------------------------------

\* prune, at the start of open: the lanes of hosts that left the list go when
\* no channel uses them.
Unused(l) == hlLane[l].chans = {}
Retires == hlMap # 0 /\ ~hlListed /\ Unused(hlMap)
hlOpen(c) ==
    /\ hlAt[c] = "out" /\ ~hlShut /\ ~hlRetry
    /\ IF Retires
       THEN /\ hlLane' = [hlLane EXCEPT ![hlMap] = [st |-> "closed", chans |-> {}]] /\ hlMap' = 0
       ELSE UNCHANGED <<hlLane, hlMap>>
    /\ hlGo(c, IF hlListed THEN "get" ELSE "out")
    /\ UNCHANGED <<hlMine, hlOpening, hlFailed, hlRetry, hlWG, hlListed, hlActive, hlClose, hlTaken, hlMade>>

newLane(l) == [hlLane EXCEPT ![l] = [st |-> "open", chans |-> {}]]

\* getLane
getLane(c) ==
    /\ hlAt[c] = "get"
    /\ \/ /\ hlShut \/ hlFailed
          /\ hlGo(c, "out") /\ UNCHANGED <<hlMine, hlLane, hlOpening, hlWG, hlMade>>
       \/ /\ ~hlShut /\ ~hlFailed /\ hlMap # 0
          \* a lane whose channel failed lately is passed over
          /\ hlGo(c, "out") /\ UNCHANGED <<hlMine, hlLane, hlOpening, hlWG, hlMade>>
       \/ /\ ~hlShut /\ ~hlFailed /\ hlMap # 0
          /\ hlMine' = [hlMine EXCEPT ![c] = hlMap] /\ hlGo(c, "have")
          /\ UNCHANGED <<hlLane, hlOpening, hlWG, hlMade>>
       \/ /\ ~hlShut /\ ~hlFailed /\ hlMap = 0 /\ hlOpening # 0
          /\ hlGo(c, "wait") /\ UNCHANGED <<hlMine, hlLane, hlOpening, hlWG, hlMade>>
       \/ /\ ~hlShut /\ ~hlFailed /\ hlMap = 0 /\ hlOpening = 0 /\ hlMade < HlLanes
          /\ hlMade' = hlMade + 1 /\ hlOpening' = c /\ hlWG' = hlWG + 1
          /\ hlLane' = newLane(hlMade')
          /\ hlMine' = [hlMine EXCEPT ![c] = hlMade'] /\ hlGo(c, "preflight")
    /\ UNCHANGED <<hlMap, hlFailed, hlRetry, hlListed, hlActive, hlClose, hlTaken>>

\* The setup of a waiting client may end before the preflight it waits for.
setupTimeout(c) ==
    /\ hlAt[c] = "wait" /\ hlGo(c, "out") /\ hlRetry' = (hlRetry \/ ~hlShut)
    /\ UNCHANGED <<hlMine, hlLane, hlMap, hlOpening, hlFailed, hlWG, hlListed, hlActive, hlClose,
                   hlTaken, hlMade>>

publishesAny(ok) == ok

\* The result of a preflight is published only to a pool that is not closed.
publishes(ok) == ok /\ ~hlShut

ready(at) == IF at = "wait" THEN "get" ELSE at
preflight(c, ok, cooldown) ==
    /\ hlAt[c] = "preflight"
    /\ hlOpening' = 0
    /\ hlMap' = IF publishes(ok) THEN hlMine[c] ELSE hlMap
    /\ hlFailed' = (hlFailed \/ (~publishes(ok) /\ cooldown))
    /\ hlAt' = [d \in HlClients |->
                  IF d = c THEN (IF publishes(ok) THEN "opened" ELSE "drop")
                  ELSE ready(hlAt[d])]
    /\ UNCHANGED <<hlMine, hlLane, hlRetry, hlWG, hlListed, hlActive, hlClose, hlTaken, hlMade>>

\* A failed lane is closed before the close of the pool may go on.
dropLane(c) ==
    /\ hlAt[c] = "drop"
    /\ hlLane' = [hlLane EXCEPT ![hlMine[c]].st = "closed"]
    /\ hlWG' = hlWG - 1 /\ hlGo(c, "out")
    /\ UNCHANGED <<hlMine, hlMap, hlOpening, hlFailed, hlRetry, hlListed, hlActive, hlClose, hlTaken, hlMade>>
openedLane(c) ==
    /\ hlAt[c] = "opened" /\ hlWG' = hlWG - 1 /\ hlGo(c, "have")
    /\ UNCHANGED <<hlMine, hlLane, hlMap, hlOpening, hlFailed, hlRetry, hlListed, hlActive, hlClose, hlTaken, hlMade>>

\* lane.open, and promoteCurrentDomain: only a domain of the current list.
laneOpens(l) == hlLane[l].st = "open" /\ ~hlShut
laneOpen(c) ==
    /\ hlAt[c] = "have"
    /\ IF laneOpens(hlMine[c])
       THEN /\ hlLane' = [hlLane EXCEPT ![hlMine[c]].chans = @ \cup {c}] /\ hlGo(c, "promote")
       ELSE hlGo(c, "out") /\ UNCHANGED hlLane
    /\ UNCHANGED <<hlMine, hlMap, hlOpening, hlFailed, hlRetry, hlWG, hlListed, hlActive, hlClose, hlTaken, hlMade>>

promotes == hlListed
promoteCurrentDomain(c) ==
    /\ hlAt[c] = "promote" /\ hlActive' = (hlActive \/ promotes) /\ hlGo(c, "channel")
    /\ UNCHANGED <<hlMine, hlLane, hlMap, hlOpening, hlFailed, hlRetry, hlWG, hlListed, hlClose, hlTaken, hlMade>>
channelEnds(c) ==
    /\ hlAt[c] = "channel" /\ hlGo(c, "out")
    /\ hlLane' = [hlLane EXCEPT ![hlMine[c]].chans = @ \ {c}]
    /\ UNCHANGED <<hlMine, hlMap, hlOpening, hlFailed, hlRetry, hlWG, hlListed, hlActive, hlClose, hlTaken, hlMade>>

Cools ==
    /\ (hlFailed \/ hlRetry) /\ hlFailed' = FALSE /\ hlRetry' = FALSE
    /\ UNCHANGED <<hlAt, hlMine, hlLane, hlMap, hlOpening, hlWG, hlListed, hlActive, hlClose, hlTaken, hlMade>>

\* updatePool of the balancer with a refreshed list: a changed list starts with
\* one of its own domains as the active one.
updatePool == hlListed' = ~hlListed /\ hlActive' \in IF hlListed' THEN BOOLEAN ELSE {FALSE}
refreshCFDomains ==
    /\ updatePool
    /\ UNCHANGED <<hlAt, hlMine, hlLane, hlMap, hlOpening, hlFailed, hlRetry, hlWG, hlClose, hlTaken, hlMade>>

\* close: the lanes are taken, closed, and the preflights waited for.
closeMark ==
    /\ hlClose = "none" /\ hlClose' = "lanes" /\ hlTaken' = hlMap /\ hlMap' = 0
    /\ UNCHANGED <<hlAt, hlMine, hlLane, hlOpening, hlFailed, hlRetry, hlWG, hlListed, hlActive, hlMade>>
closeLanes ==
    /\ hlClose = "lanes" /\ hlClose' = "channels"
    /\ hlLane' = IF hlTaken = 0 THEN hlLane ELSE [hlLane EXCEPT ![hlTaken].st = "closed"]
    /\ UNCHANGED <<hlAt, hlMine, hlMap, hlOpening, hlFailed, hlRetry, hlWG, hlListed, hlActive, hlTaken, hlMade>>
closeChannels ==
    /\ hlClose = "channels" /\ hlClose' = "wait"
    /\ hlLane' = IF hlTaken = 0 THEN hlLane ELSE [hlLane EXCEPT ![hlTaken].chans = {}]
    /\ UNCHANGED <<hlAt, hlMine, hlMap, hlOpening, hlFailed, hlRetry, hlWG, hlListed, hlActive, hlTaken, hlMade>>
closeWait ==
    /\ hlClose = "wait" /\ hlWG = 0 /\ hlClose' = "done"
    /\ UNCHANGED <<hlAt, hlMine, hlLane, hlMap, hlOpening, hlFailed, hlRetry, hlWG, hlListed, hlActive, hlTaken, hlMade>>

hlNext ==
    \/ Cools \/ refreshCFDomains \/ closeMark \/ closeLanes \/ closeChannels \/ closeWait
    \/ \E c \in HlClients :
         \/ hlOpen(c) \/ getLane(c) \/ setupTimeout(c) \/ dropLane(c) \/ openedLane(c)
         \/ laneOpen(c) \/ promoteCurrentDomain(c) \/ channelEnds(c)
         \/ \E ok, cooldown \in BOOLEAN : preflight(c, ok, cooldown)

-----------------------------------------------------------------------------
\* When the close of the pool has returned no lane is left open and no channel
\* runs, whatever preflights were under way.
LanesClosed ==
    hlClose = "done" =>
        \A l \in 1..HlLanes : hlLane[l].st # "open" /\ hlLane[l].chans = {}

\* A lane in the map is open, no other lane of the host has channels unless it
\* is being closed, and a channel never runs on a retired lane.
ChannelsOnLiveLane ==
    /\ hlMap # 0 => hlLane[hlMap].st = "open"
    /\ \A c \in HlClients : hlAt[c] \in {"promote", "channel"} =>
          hlLane[hlMine[c]].st = "open" \/ hlShut

\* One preflight at a time, and its waiters are never left behind.
WaitersServed ==
    /\ \A c \in HlClients : hlAt[c] = "preflight" <=> hlOpening = c
    /\ (\E c \in HlClients : hlAt[c] = "wait") => hlOpening # 0

\* The active domain is one of the current list, although a channel may be
\* promoted after the list has changed.
ActiveIsListed == hlActive => hlListed

\* Channels run on live lanes, waiters are served and a close leaves nothing open.
LanesSafe == LanesClosed /\ ChannelsOnLiveLane /\ WaitersServed /\ ActiveIsListed
=============================================================================
