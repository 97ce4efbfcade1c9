---------------------------- MODULE ServicesProofs ----------------------------
(***************************************************************************)
(* The services that carry the traffic of a client: the HTTP/2 lanes       *)
(* (H2Lanes), the SOCKS front (SocksLifecycle), the Telegram proxy         *)
(* (TgProxy) and its pool of warm sockets (WsPool), and the discovery of   *)
(* the provider's DNS servers (ProviderRenew, DhcpTracker, ProviderInform, *)
(* ProviderLeases), each with the inductive invariant its safety rests on, *)
(* for any number of clients, callers, lanes, sockets, requests, replies   *)
(* and faults; then the specification the run checks, where they stand     *)
(* side by side.                                                           *)
(***************************************************************************)
EXTENDS MCServices, FiniteSetTheorems, SequenceTheorems, TLAPS

(***************************************************************************)
(* H2Lanes                                                                 *)
(***************************************************************************)
hlSpec == hlInit /\ [][hlNext]_hlVars

HlPlaces == {"out", "get", "wait", "preflight", "drop", "opened", "have", "promote", "channel"}
HlLaneRecs == [st : {"none", "open", "closed"}, chans : SUBSET HlClients]
hlClientsOK == hlAt \in [HlClients -> HlPlaces] /\ hlMine \in [HlClients -> 0..HlLanes]
hlLanesOK ==
    /\ hlLane \in [1..HlLanes -> HlLaneRecs]
    /\ hlMade \in 0..HlLanes /\ hlMap \in 0..hlMade /\ hlTaken \in 0..hlMade
hlRestOK ==
    /\ hlOpening \in HlClients \cup {0} /\ hlWG \in Nat
    /\ hlFailed \in BOOLEAN /\ hlRetry \in BOOLEAN /\ hlListed \in BOOLEAN /\ hlActive \in BOOLEAN
    /\ hlClose \in {"none", "lanes", "channels", "wait", "done"}
hlTyped == hlClientsOK /\ hlLanesOK /\ hlRestOK

\* The places of a client that counts in openingWG, of one whose lane nobody
\* else can have, and of one that has a lane.
Counted == {"preflight", "drop", "opened"}
Alone   == {"preflight", "drop"}
Having  == Counted \cup {"have", "promote", "channel"}

\* Clients have lanes that were made, and a lane under preflight is one client's.
hlMineOK ==
    /\ \A c \in HlClients : hlAt[c] \in Having => hlMine[c] \in 1..hlMade
    /\ \A d \in HlClients : hlAt[d] \in Alone =>
          /\ hlMine[d] # hlMap /\ hlMine[d] # hlTaken
          /\ \A c \in HlClients \ {d} : hlAt[c] \in Having => hlMine[c] # hlMine[d]

\* An open lane is the one of the map, one under preflight, or one that the
\* close has taken; channels run on the one of the map, or on the one taken.
hlOwned ==
    \A l \in 1..HlLanes :
        /\ hlLane[l].st = "open" =>
              \/ l = hlMap
              \/ \E c \in HlClients : hlAt[c] \in Alone /\ hlMine[c] = l
              \/ hlClose = "lanes" /\ l = hlTaken
        /\ hlLane[l].chans # {} => l = hlMap \/ (hlClose \in {"lanes", "channels"} /\ l = hlTaken)

\* Only one preflight, and only when the map has no lane.
hlOneLane ==
    /\ hlOpening # 0 \/ hlShut => hlMap = 0
    /\ hlMap # 0 => hlLane[hlMap].st = "open"

\* A channel that runs is in its lane, which is open, as is a lane under preflight.
hlRuns ==
    \A c \in HlClients :
        /\ hlAt[c] \in {"promote", "channel"} /\ ~hlShut =>
              c \in hlLane[hlMine[c]].chans /\ hlLane[hlMine[c]].st = "open"
        /\ hlAt[c] = "preflight" => hlLane[hlMine[c]].st = "open"

\* openingWG counts the clients between the start and the end of an opening.
Openers == {c \in HlClients : hlAt[c] \in Counted}
hlCounts == hlWG = Cardinality(Openers) /\ (hlClose = "done" => Openers = {})

\* The inductive invariant.
hlIInv ==
    /\ hlTyped /\ hlMineOK /\ hlOwned /\ hlOneLane /\ hlRuns /\ hlCounts
    /\ WaitersServed /\ ActiveIsListed

\* The pool starts with no lane.
LEMMA hlInitIInv == hlInit => hlIInv
<1> SUFFICES ASSUME hlInit PROVE hlIInv
  OBVIOUS
<1> USE hlAssumption
<1>1. hlTyped
  <2>1. hlClientsOK
    BY DEF hlInit, hlClientsOK, HlPlaces
  <2>2. hlLanesOK
    <3>1. [st |-> "none", chans |-> {}] \in HlLaneRecs
      BY DEF HlLaneRecs
    <3> QED BY <3>1 DEF hlInit, hlLanesOK
  <2>3. hlRestOK
    BY DEF hlInit, hlRestOK
  <2> QED BY <2>1, <2>2, <2>3 DEF hlTyped
<1>2. Openers = {}
  BY DEF hlInit, Openers, Counted
<1>3. hlCounts
  BY <1>2, FS_EmptySet DEF hlCounts, hlInit
<1>4. hlMineOK /\ hlOwned /\ hlOneLane /\ hlRuns /\ WaitersServed /\ ActiveIsListed
  BY DEF hlInit, hlMineOK, hlOwned, hlOneLane, hlRuns, WaitersServed, ActiveIsListed, Having, Alone,
         Counted, hlShut
<1> QED BY <1>1, <1>3, <1>4 DEF hlIInv

\* Only clients open lanes, so they can be counted.
LEMMA OpenersFinite == IsFiniteSet(Openers)
  BY hlAssumption, FS_Subset DEF Openers

\* A step after which the same clients open leaves the counter right.
LEMMA OpenersSame ==
    ASSUME hlTyped, hlCounts, hlWG' = hlWG, hlClose' = "done" => hlClose = "done",
           \A c \in HlClients : hlAt'[c] \in Counted <=> hlAt[c] \in Counted
    PROVE  hlCounts'
<1>1. Openers' = Openers
  BY DEF Openers
<1> QED BY <1>1 DEF hlCounts

\* A client that enters an opening is counted, while the pool has not finished its close.
LEMMA OpenersMore ==
    ASSUME hlTyped, hlCounts, hlWG' = hlWG + 1, hlClose # "done", hlClose' = hlClose,
           NEW c \in HlClients, hlAt[c] \notin Counted, hlAt'[c] \in Counted,
           \A d \in HlClients \ {c} : hlAt'[d] = hlAt[d]
    PROVE  hlCounts'
<1>1. Openers' = Openers \cup {c} /\ c \notin Openers
  BY DEF Openers
<1>2. Cardinality(Openers \cup {c}) = Cardinality(Openers) + 1
  BY <1>1, OpenersFinite, FS_AddElement
<1> QED BY <1>1, <1>2 DEF hlCounts

\* A client that leaves an opening is no longer counted, and the counter stays above zero.
LEMMA OpenersLess ==
    ASSUME hlTyped, hlCounts, hlWG' = hlWG - 1, hlClose' = hlClose,
           NEW c \in HlClients, hlAt[c] \in Counted, hlAt'[c] \notin Counted,
           \A d \in HlClients \ {c} : hlAt'[d] = hlAt[d]
    PROVE  hlCounts' /\ hlWG' \in Nat
<1>1. Openers' = Openers \ {c} /\ c \in Openers
  BY DEF Openers
<1>2. Cardinality(Openers \ {c}) = Cardinality(Openers) - 1
  BY <1>1, OpenersFinite, FS_RemoveElement
<1>3. Cardinality(Openers \ {c}) \in Nat
  BY OpenersFinite, FS_RemoveElement, FS_CardinalityType
<1> QED BY <1>1, <1>2, <1>3 DEF hlCounts

\* A client asks for a channel, and the lane of a domain that left the list is retired.
LEMMA hlOpenStep ==
    ASSUME hlIInv, NEW c \in HlClients, hlOpen(c)
    PROVE  hlIInv'
<1> USE hlAssumption DEF hlOpen, hlGo, hlShut
<1>0. hlMap # 0 => hlMap \in 1..HlLanes /\ hlLane[hlMap] \in HlLaneRecs
  BY DEF hlIInv, hlTyped, hlClientsOK, hlLanesOK, hlRestOK
<1>l. /\ hlLane' \in [1..HlLanes -> HlLaneRecs]
     /\ \A l \in 1..HlLanes : /\ hlLane'[l].st = IF Retires /\ l = hlMap THEN "closed" ELSE hlLane[l].st
                              /\ hlLane'[l].chans = IF Retires /\ l = hlMap THEN {} ELSE hlLane[l].chans
  <2>1. CASE Retires
    <3>1. hlLane' = [hlLane EXCEPT ![hlMap] = [st |-> "closed", chans |-> {}]]
      BY <2>1
    <3>2. [st |-> "closed", chans |-> {}] \in HlLaneRecs
      BY DEF HlLaneRecs
    <3> HIDE DEF hlOpen
    <3> QED BY <1>0, <2>1, <3>1, <3>2 DEF hlIInv, hlTyped, hlClientsOK, hlLanesOK, hlRestOK, Retires
  <2>2. CASE ~Retires
    BY <2>2 DEF hlIInv, hlTyped, hlClientsOK, hlLanesOK, hlRestOK
  <2> QED BY <2>1, <2>2
<1>1. hlTyped'
  BY <1>0, <1>l DEF Retires, Unused, hlIInv, hlTyped, hlClientsOK, hlLanesOK, hlRestOK, HlPlaces, HlLaneRecs
<1>2. hlMineOK'
  BY <1>0, <1>l DEF Retires, Unused, hlIInv, hlTyped, hlClientsOK, hlLanesOK, hlRestOK, hlMineOK, Having, Alone, Counted
<1>3. hlOwned'
  BY <1>0, <1>l DEF Retires, Unused, hlIInv, hlTyped, hlClientsOK, hlLanesOK, hlRestOK, hlMineOK, hlOwned, hlOneLane, Alone
<1>4. hlOneLane'
  BY <1>0, <1>l DEF Retires, Unused, hlIInv, hlTyped, hlClientsOK, hlLanesOK, hlRestOK, hlMineOK, hlOneLane, Alone
<1>5. hlRuns'
  <2> SUFFICES ASSUME NEW d \in HlClients
               PROVE  /\ hlAt'[d] \in {"promote", "channel"} =>
                            d \in hlLane'[hlMine[d]].chans /\ hlLane'[hlMine[d]].st = "open"
                      /\ hlAt'[d] = "preflight" => hlLane'[hlMine[d]].st = "open"
    BY DEF hlRuns
  <2>1. hlAt'[d] \in Having => hlAt[d] = hlAt'[d] /\ hlMine[d] \in 1..HlLanes
    BY DEF hlIInv, hlTyped, hlClientsOK, hlLanesOK, hlRestOK, hlMineOK, Having, Counted
  <2>2. hlAt[d] \in {"promote", "channel"} => ~(Retires /\ hlMine[d] = hlMap)
    BY DEF Retires, Unused, hlIInv, hlRuns
  <2>3. hlAt[d] = "preflight" => hlMine[d] # hlMap
    BY DEF hlIInv, hlMineOK, Alone
  <2>4. ~hlShut
    BY DEF hlOpen
  <2> HIDE DEF hlOpen
  <2> QED BY <1>l, <2>1, <2>2, <2>3, <2>4 DEF hlIInv, hlRuns, Having, Counted, hlShut
<1>6. hlCounts'
  BY OpenersSame DEF Retires, Unused, hlIInv, hlTyped, hlClientsOK, Counted
<1>7. WaitersServed' /\ ActiveIsListed'
  BY <1>0, <1>l DEF Retires, Unused, hlIInv, hlTyped, hlClientsOK, hlLanesOK, hlRestOK, WaitersServed, ActiveIsListed
<1> QED BY <1>1, <1>2, <1>3, <1>4, <1>5, <1>6, <1>7 DEF hlIInv

\* A stream is opened on the lane the client was given, if it is still the one in use.
LEMMA laneOpenStep ==
    ASSUME hlIInv, NEW c \in HlClients, laneOpen(c)
    PROVE  hlIInv'
<1> USE hlAssumption DEF laneOpen, hlGo, hlShut
<1>0. hlLane[hlMine[c]] \in HlLaneRecs /\ hlMine[c] \in 1..HlLanes
  BY DEF hlIInv, hlTyped, hlClientsOK, hlLanesOK, hlRestOK, hlMineOK, Having, Counted
<1>l. /\ hlLane' \in [1..HlLanes -> HlLaneRecs]
     /\ \A l \in 1..HlLanes : /\ hlLane'[l].st = IF laneOpens(hlMine[c]) /\ l = hlMine[c] THEN hlLane[l].st ELSE hlLane[l].st
                              /\ hlLane'[l].chans = IF laneOpens(hlMine[c]) /\ l = hlMine[c] THEN hlLane[l].chans \cup {c} ELSE hlLane[l].chans
  <2>1. CASE laneOpens(hlMine[c])
    <3>1. hlLane' = [hlLane EXCEPT ![hlMine[c]].chans = @ \cup {c}]
      BY <2>1
    <3> QED BY <1>0, <2>1, <3>1 DEF hlIInv, hlTyped, hlClientsOK, hlLanesOK, hlRestOK, HlLaneRecs
  <2>2. CASE ~laneOpens(hlMine[c])
    BY <2>2 DEF hlIInv, hlTyped, hlClientsOK, hlLanesOK, hlRestOK
  <2> QED BY <2>1, <2>2
<1>m. laneOpens(hlMine[c]) => hlMine[c] = hlMap
  BY <1>0 DEF laneOpens, hlIInv, hlTyped, hlClientsOK, hlLanesOK, hlRestOK, hlOwned, hlMineOK, Having, Alone
<1>1. hlTyped'
  BY <1>0, <1>l, <1>m DEF laneOpens, hlIInv, hlTyped, hlClientsOK, hlLanesOK, hlRestOK, HlPlaces, HlLaneRecs
<1>2. hlMineOK'
  BY <1>0, <1>l, <1>m DEF laneOpens, hlIInv, hlTyped, hlClientsOK, hlLanesOK, hlRestOK, hlMineOK, Having, Alone, Counted
<1>3. hlOwned'
  BY <1>0, <1>l, <1>m DEF laneOpens, hlIInv, hlTyped, hlClientsOK, hlLanesOK, hlRestOK, hlMineOK, hlOwned, hlOneLane, Alone
<1>4. hlOneLane'
  BY <1>0, <1>l, <1>m DEF laneOpens, hlIInv, hlTyped, hlClientsOK, hlLanesOK, hlRestOK, hlMineOK, hlOneLane, Alone
<1>5. hlRuns'
  <2> SUFFICES ASSUME NEW d \in HlClients
               PROVE  /\ hlAt'[d] \in {"promote", "channel"} /\ ~hlShut =>
                            d \in hlLane'[hlMine[d]].chans /\ hlLane'[hlMine[d]].st = "open"
                      /\ hlAt'[d] = "preflight" => hlLane'[hlMine[d]].st = "open"
    BY DEF hlRuns
  <2>1. hlAt'[d] \in Having => hlMine[d] \in 1..HlLanes /\ (d # c => hlAt[d] = hlAt'[d])
    BY DEF hlIInv, hlTyped, hlClientsOK, hlLanesOK, hlRestOK, hlMineOK, Having, Counted
  <2>2. hlAt'[c] = IF laneOpens(hlMine[c]) THEN "promote" ELSE "out"
    BY DEF hlIInv, hlTyped, hlClientsOK, hlLanesOK, hlRestOK
  <2> HIDE DEF laneOpen
  <2> QED BY <1>0, <1>l, <2>1, <2>2 DEF hlIInv, hlRuns, Having, Counted, laneOpens
<1>6. hlCounts'
  BY OpenersSame DEF laneOpens, hlIInv, hlTyped, hlClientsOK, Counted
<1>7. WaitersServed' /\ ActiveIsListed'
  BY <1>0, <1>l, <1>m DEF laneOpens, hlIInv, hlTyped, hlClientsOK, hlLanesOK, hlRestOK, WaitersServed, ActiveIsListed
<1> QED BY <1>1, <1>2, <1>3, <1>4, <1>5, <1>6, <1>7 DEF hlIInv

\* A client stops waiting for the opening of another.
LEMMA setupTimeoutStep ==
    ASSUME hlIInv, NEW c \in HlClients, setupTimeout(c)
    PROVE  hlIInv'
<1> USE hlAssumption DEF setupTimeout, hlGo, hlShut
<1>1. hlTyped'
  BY DEF hlIInv, hlTyped, hlClientsOK, hlLanesOK, hlRestOK, HlPlaces, HlLaneRecs
<1>2. hlMineOK'
  BY DEF hlIInv, hlTyped, hlClientsOK, hlLanesOK, hlRestOK, hlMineOK, Having, Alone, Counted
<1>3. hlOwned'
  BY DEF hlIInv, hlTyped, hlClientsOK, hlLanesOK, hlRestOK, hlMineOK, hlOwned, hlOneLane, Alone
<1>4. hlOneLane'
  BY DEF hlIInv, hlTyped, hlClientsOK, hlLanesOK, hlRestOK, hlMineOK, hlOneLane, Alone
<1>5. hlRuns'
  BY DEF hlIInv, hlTyped, hlClientsOK, hlLanesOK, hlRestOK, hlMineOK, hlOwned, hlOneLane, hlRuns, Having, Counted
<1>6. hlCounts'
  BY OpenersSame DEF hlIInv, hlTyped, hlClientsOK, Counted
<1>7. WaitersServed' /\ ActiveIsListed'
  BY DEF hlIInv, hlTyped, hlClientsOK, hlLanesOK, hlRestOK, WaitersServed, ActiveIsListed
<1> QED BY <1>1, <1>2, <1>3, <1>4, <1>5, <1>6, <1>7 DEF hlIInv

\* The domain of the lane becomes the active one only while it is still listed.
LEMMA promoteCurrentDomainStep ==
    ASSUME hlIInv, NEW c \in HlClients, promoteCurrentDomain(c)
    PROVE  hlIInv'
<1> USE hlAssumption DEF promoteCurrentDomain, promotes, hlGo, hlShut
<1>1. hlTyped'
  BY DEF hlIInv, hlTyped, hlClientsOK, hlLanesOK, hlRestOK, HlPlaces, HlLaneRecs
<1>2. hlMineOK'
  BY DEF hlIInv, hlTyped, hlClientsOK, hlLanesOK, hlRestOK, hlMineOK, Having, Alone, Counted
<1>3. hlOwned'
  BY DEF hlIInv, hlTyped, hlClientsOK, hlLanesOK, hlRestOK, hlMineOK, hlOwned, hlOneLane, Alone
<1>4. hlOneLane'
  BY DEF hlIInv, hlTyped, hlClientsOK, hlLanesOK, hlRestOK, hlMineOK, hlOneLane, Alone
<1>5. hlRuns'
  BY DEF hlIInv, hlTyped, hlClientsOK, hlLanesOK, hlRestOK, hlMineOK, hlOwned, hlOneLane, hlRuns, Having, Counted
<1>6. hlCounts'
  BY OpenersSame DEF hlIInv, hlTyped, hlClientsOK, Counted
<1>7. WaitersServed' /\ ActiveIsListed'
  BY DEF hlIInv, hlTyped, hlClientsOK, hlLanesOK, hlRestOK, WaitersServed, ActiveIsListed
<1> QED BY <1>1, <1>2, <1>3, <1>4, <1>5, <1>6, <1>7 DEF hlIInv

\* The bridge of a channel ends.
LEMMA channelEndsStep ==
    ASSUME hlIInv, NEW c \in HlClients, channelEnds(c)
    PROVE  hlIInv'
<1> USE hlAssumption DEF channelEnds, hlGo, hlShut
<1>0. hlLane[hlMine[c]] \in HlLaneRecs /\ hlMine[c] \in 1..HlLanes
  BY DEF hlIInv, hlTyped, hlClientsOK, hlLanesOK, hlRestOK, hlMineOK, Having, Counted
<1>l. /\ hlLane' \in [1..HlLanes -> HlLaneRecs]
     /\ \A l \in 1..HlLanes : /\ hlLane'[l].st = IF l = hlMine[c] THEN hlLane[l].st ELSE hlLane[l].st
                              /\ hlLane'[l].chans = IF l = hlMine[c] THEN hlLane[l].chans \ {c} ELSE hlLane[l].chans
  BY <1>0 DEF hlIInv, hlTyped, hlClientsOK, hlLanesOK, hlRestOK, HlLaneRecs
<1>1. hlTyped'
  BY <1>0, <1>l DEF hlIInv, hlTyped, hlClientsOK, hlLanesOK, hlRestOK, HlPlaces, HlLaneRecs
<1>2. hlMineOK'
  BY <1>0, <1>l DEF hlIInv, hlTyped, hlClientsOK, hlLanesOK, hlRestOK, hlMineOK, Having, Alone, Counted
<1>3. hlOwned'
  BY <1>0, <1>l, SMTT(30) DEF hlIInv, hlTyped, hlClientsOK, hlLanesOK, hlRestOK, hlMineOK, hlOwned, hlOneLane, Alone
<1>4. hlOneLane'
  BY <1>0, <1>l DEF hlIInv, hlTyped, hlClientsOK, hlLanesOK, hlRestOK, hlMineOK, hlOneLane, Alone
<1>5. hlRuns'
  BY <1>0, <1>l DEF hlIInv, hlTyped, hlClientsOK, hlLanesOK, hlRestOK, hlMineOK, hlOwned, hlOneLane, hlRuns, Having, Counted
<1>6. hlCounts'
  BY OpenersSame DEF hlIInv, hlTyped, hlClientsOK, Counted
<1>7. WaitersServed' /\ ActiveIsListed'
  BY <1>0, <1>l DEF hlIInv, hlTyped, hlClientsOK, hlLanesOK, hlRestOK, WaitersServed, ActiveIsListed
<1> QED BY <1>1, <1>2, <1>3, <1>4, <1>5, <1>6, <1>7 DEF hlIInv

\* The client whose preflight failed closes its lane before it is no longer counted.
LEMMA dropLaneStep ==
    ASSUME hlIInv, NEW c \in HlClients, dropLane(c)
    PROVE  hlIInv'
<1> USE hlAssumption DEF dropLane, hlGo, hlShut
<1>0. hlLane[hlMine[c]] \in HlLaneRecs /\ hlMine[c] \in 1..HlLanes
  BY DEF hlIInv, hlTyped, hlClientsOK, hlLanesOK, hlRestOK, hlMineOK, Having, Counted
<1>l. /\ hlLane' \in [1..HlLanes -> HlLaneRecs]
     /\ \A l \in 1..HlLanes : /\ hlLane'[l].st = IF l = hlMine[c] THEN "closed" ELSE hlLane[l].st
                              /\ hlLane'[l].chans = hlLane[l].chans
  BY <1>0 DEF hlIInv, hlTyped, hlClientsOK, hlLanesOK, hlRestOK, HlLaneRecs
<1>1. hlTyped'
  BY OpenersLess DEF Counted, hlIInv, hlTyped, hlClientsOK, hlLanesOK, hlRestOK, HlPlaces, HlLaneRecs
<1>2. hlMineOK'
  BY DEF hlIInv, hlTyped, hlClientsOK, hlLanesOK, hlRestOK, hlMineOK, Having, Alone, Counted
<1>3. hlOwned'
  BY DEF hlIInv, hlTyped, hlClientsOK, hlLanesOK, hlRestOK, hlMineOK, hlOwned, hlOneLane, Alone
<1>4. hlOneLane'
  BY DEF hlIInv, hlTyped, hlClientsOK, hlLanesOK, hlRestOK, hlMineOK, hlOneLane, Alone
<1>5. hlRuns'
  BY <1>0, <1>l DEF Alone, hlIInv, hlTyped, hlClientsOK, hlLanesOK, hlRestOK, hlMineOK, hlOwned, hlOneLane, hlRuns, Having, Counted
<1>6. hlCounts'
  BY OpenersLess DEF hlIInv, hlTyped, hlClientsOK, Counted
<1>7. WaitersServed' /\ ActiveIsListed'
  BY DEF hlIInv, hlTyped, hlClientsOK, hlLanesOK, hlRestOK, WaitersServed, ActiveIsListed
<1> QED BY <1>1, <1>2, <1>3, <1>4, <1>5, <1>6, <1>7 DEF hlIInv

\* The client whose lane was published has it, and is no longer counted.
LEMMA openedLaneStep ==
    ASSUME hlIInv, NEW c \in HlClients, openedLane(c)
    PROVE  hlIInv'
<1> USE hlAssumption DEF openedLane, hlGo, hlShut
<1>1. hlTyped'
  BY OpenersLess DEF Counted, hlIInv, hlTyped, hlClientsOK, hlLanesOK, hlRestOK, HlPlaces, HlLaneRecs
<1>2. hlMineOK'
  BY DEF hlIInv, hlTyped, hlClientsOK, hlLanesOK, hlRestOK, hlMineOK, Having, Alone, Counted
<1>3. hlOwned'
  BY DEF hlIInv, hlTyped, hlClientsOK, hlLanesOK, hlRestOK, hlMineOK, hlOwned, hlOneLane, Alone
<1>4. hlOneLane'
  BY DEF hlIInv, hlTyped, hlClientsOK, hlLanesOK, hlRestOK, hlMineOK, hlOneLane, Alone
<1>5. hlRuns'
  BY DEF hlIInv, hlTyped, hlClientsOK, hlLanesOK, hlRestOK, hlMineOK, hlOwned, hlOneLane, hlRuns, Having, Counted
<1>6. hlCounts'
  BY OpenersLess DEF hlIInv, hlTyped, hlClientsOK, Counted
<1>7. WaitersServed' /\ ActiveIsListed'
  BY DEF hlIInv, hlTyped, hlClientsOK, hlLanesOK, hlRestOK, WaitersServed, ActiveIsListed
<1> QED BY <1>1, <1>2, <1>3, <1>4, <1>5, <1>6, <1>7 DEF hlIInv

\* A preflight ends: its lane is published only to a pool that is not closed, and the waiters go on.
LEMMA preflightStep ==
    ASSUME hlIInv, NEW c \in HlClients, NEW ok \in BOOLEAN, NEW cool \in BOOLEAN, preflight(c, ok, cool)
    PROVE  hlIInv'
<1> USE hlAssumption DEF preflight, publishes, ready, hlGo, hlShut
<1>1. hlTyped'
  BY DEF hlMineOK, Having, Counted, hlIInv, hlTyped, hlClientsOK, hlLanesOK, hlRestOK, HlPlaces, HlLaneRecs
<1>2. hlMineOK'
  BY DEF hlIInv, hlTyped, hlClientsOK, hlLanesOK, hlRestOK, hlMineOK, Having, Alone, Counted
<1>3. hlOwned'
  BY DEF hlRuns, WaitersServed, hlIInv, hlTyped, hlClientsOK, hlLanesOK, hlRestOK, hlMineOK, hlOwned, hlOneLane, Alone
<1>4. hlOneLane'
  BY DEF hlRuns, WaitersServed, hlIInv, hlTyped, hlClientsOK, hlLanesOK, hlRestOK, hlMineOK, hlOneLane, Alone
<1>5. hlRuns'
  BY DEF hlIInv, hlTyped, hlClientsOK, hlLanesOK, hlRestOK, hlMineOK, hlOwned, hlOneLane, hlRuns, Having, Counted
<1>6. hlCounts'
  BY OpenersSame DEF hlIInv, hlTyped, hlClientsOK, Counted
<1>7. WaitersServed' /\ ActiveIsListed'
  BY DEF hlIInv, hlTyped, hlClientsOK, hlLanesOK, hlRestOK, WaitersServed, ActiveIsListed
<1> QED BY <1>1, <1>2, <1>3, <1>4, <1>5, <1>6, <1>7 DEF hlIInv

\* The cooldown of the domains ends.
LEMMA CoolsStep ==
    ASSUME hlIInv, Cools
    PROVE  hlIInv'
<1> USE hlAssumption DEF Cools, hlGo, hlShut
<1>1. hlTyped'
  BY DEF hlIInv, hlTyped, hlClientsOK, hlLanesOK, hlRestOK, HlPlaces, HlLaneRecs
<1>2. hlMineOK'
  BY DEF hlIInv, hlTyped, hlClientsOK, hlLanesOK, hlRestOK, hlMineOK, Having, Alone, Counted
<1>3. hlOwned'
  BY DEF hlIInv, hlTyped, hlClientsOK, hlLanesOK, hlRestOK, hlMineOK, hlOwned, hlOneLane, Alone
<1>4. hlOneLane'
  BY DEF hlIInv, hlTyped, hlClientsOK, hlLanesOK, hlRestOK, hlMineOK, hlOneLane, Alone
<1>5. hlRuns'
  BY DEF hlIInv, hlTyped, hlClientsOK, hlLanesOK, hlRestOK, hlMineOK, hlOwned, hlOneLane, hlRuns, Having, Counted
<1>6. hlCounts'
  BY OpenersSame DEF hlIInv, hlTyped, hlClientsOK, Counted
<1>7. WaitersServed' /\ ActiveIsListed'
  BY DEF hlIInv, hlTyped, hlClientsOK, hlLanesOK, hlRestOK, WaitersServed, ActiveIsListed
<1> QED BY <1>1, <1>2, <1>3, <1>4, <1>5, <1>6, <1>7 DEF hlIInv

\* The list of domains is refreshed, with an active domain among them or with none.
LEMMA refreshCFDomainsStep ==
    ASSUME hlIInv, refreshCFDomains
    PROVE  hlIInv'
<1> USE hlAssumption DEF refreshCFDomains, updatePool, hlGo, hlShut
<1>1. hlTyped'
  BY DEF hlIInv, hlTyped, hlClientsOK, hlLanesOK, hlRestOK, HlPlaces, HlLaneRecs
<1>2. hlMineOK'
  BY DEF hlIInv, hlTyped, hlClientsOK, hlLanesOK, hlRestOK, hlMineOK, Having, Alone, Counted
<1>3. hlOwned'
  BY DEF hlIInv, hlTyped, hlClientsOK, hlLanesOK, hlRestOK, hlMineOK, hlOwned, hlOneLane, Alone
<1>4. hlOneLane'
  BY DEF hlIInv, hlTyped, hlClientsOK, hlLanesOK, hlRestOK, hlMineOK, hlOneLane, Alone
<1>5. hlRuns'
  BY DEF hlIInv, hlTyped, hlClientsOK, hlLanesOK, hlRestOK, hlMineOK, hlOwned, hlOneLane, hlRuns, Having, Counted
<1>6. hlCounts'
  BY OpenersSame DEF hlIInv, hlTyped, hlClientsOK, Counted
<1>7. WaitersServed' /\ ActiveIsListed'
  BY DEF hlIInv, hlTyped, hlClientsOK, hlLanesOK, hlRestOK, WaitersServed, ActiveIsListed
<1> QED BY <1>1, <1>2, <1>3, <1>4, <1>5, <1>6, <1>7 DEF hlIInv

\* close marks the pool closed: no opening starts any more.
LEMMA closeMarkStep ==
    ASSUME hlIInv, closeMark
    PROVE  hlIInv'
<1> USE hlAssumption DEF closeMark, hlGo, hlShut
<1>1. hlTyped'
  BY DEF hlIInv, hlTyped, hlClientsOK, hlLanesOK, hlRestOK, HlPlaces, HlLaneRecs
<1>2. hlMineOK'
  BY DEF hlIInv, hlTyped, hlClientsOK, hlLanesOK, hlRestOK, hlMineOK, Having, Alone, Counted
<1>3. hlOwned'
  BY DEF hlIInv, hlTyped, hlClientsOK, hlLanesOK, hlRestOK, hlMineOK, hlOwned, hlOneLane, Alone
<1>4. hlOneLane'
  BY DEF hlIInv, hlTyped, hlClientsOK, hlLanesOK, hlRestOK, hlMineOK, hlOneLane, Alone
<1>5. hlRuns'
  BY DEF hlIInv, hlTyped, hlClientsOK, hlLanesOK, hlRestOK, hlMineOK, hlOwned, hlOneLane, hlRuns, Having, Counted
<1>6. hlCounts'
  BY OpenersSame DEF hlIInv, hlTyped, hlClientsOK, Counted
<1>7. WaitersServed' /\ ActiveIsListed'
  BY DEF hlIInv, hlTyped, hlClientsOK, hlLanesOK, hlRestOK, WaitersServed, ActiveIsListed
<1> QED BY <1>1, <1>2, <1>3, <1>4, <1>5, <1>6, <1>7 DEF hlIInv

\* close closes the lane it took out of the pool.
LEMMA closeLanesStep ==
    ASSUME hlIInv, closeLanes
    PROVE  hlIInv'
<1> USE hlAssumption DEF closeLanes, hlGo, hlShut
<1>1. hlTyped'
  BY DEF hlIInv, hlTyped, hlClientsOK, hlLanesOK, hlRestOK, HlPlaces, HlLaneRecs
<1>2. hlMineOK'
  BY DEF hlIInv, hlTyped, hlClientsOK, hlLanesOK, hlRestOK, hlMineOK, Having, Alone, Counted
<1>3. hlOwned'
  BY DEF hlIInv, hlTyped, hlClientsOK, hlLanesOK, hlRestOK, hlMineOK, hlOwned, hlOneLane, Alone
<1>4. hlOneLane'
  BY DEF hlIInv, hlTyped, hlClientsOK, hlLanesOK, hlRestOK, hlMineOK, hlOneLane, Alone
<1>5. hlRuns'
  <2> SUFFICES ASSUME NEW d \in HlClients, hlAt[d] = "preflight"
               PROVE  hlLane'[hlMine[d]].st = "open"
    BY DEF hlRuns
  <2>1. hlMine[d] \in 1..HlLanes /\ hlMine[d] # hlTaken
    BY DEF hlIInv, hlTyped, hlClientsOK, hlLanesOK, hlRestOK, hlMineOK, Having, Counted, Alone
  <2>2. hlLane'[hlMine[d]] = hlLane[hlMine[d]]
    BY <2>1 DEF hlIInv, hlTyped, hlClientsOK, hlLanesOK, hlRestOK
  <2> QED BY <2>2 DEF hlIInv, hlRuns
<1>6. hlCounts'
  BY OpenersSame DEF hlIInv, hlTyped, hlClientsOK, Counted
<1>7. WaitersServed' /\ ActiveIsListed'
  BY DEF hlIInv, hlTyped, hlClientsOK, hlLanesOK, hlRestOK, WaitersServed, ActiveIsListed
<1> QED BY <1>1, <1>2, <1>3, <1>4, <1>5, <1>6, <1>7 DEF hlIInv

\* close closes the channels of that lane.
LEMMA closeChannelsStep ==
    ASSUME hlIInv, closeChannels
    PROVE  hlIInv'
<1> USE hlAssumption DEF closeChannels, hlGo, hlShut
<1>1. hlTyped'
  BY DEF hlIInv, hlTyped, hlClientsOK, hlLanesOK, hlRestOK, HlPlaces, HlLaneRecs
<1>2. hlMineOK'
  BY DEF hlIInv, hlTyped, hlClientsOK, hlLanesOK, hlRestOK, hlMineOK, Having, Alone, Counted
<1>3. hlOwned'
  BY DEF hlIInv, hlTyped, hlClientsOK, hlLanesOK, hlRestOK, hlMineOK, hlOwned, hlOneLane, Alone
<1>4. hlOneLane'
  BY DEF hlIInv, hlTyped, hlClientsOK, hlLanesOK, hlRestOK, hlMineOK, hlOneLane, Alone
<1>5. hlRuns'
  BY DEF hlIInv, hlTyped, hlClientsOK, hlLanesOK, hlRestOK, hlMineOK, hlOwned, hlOneLane, hlRuns, Having, Counted
<1>6. hlCounts'
  BY OpenersSame DEF hlIInv, hlTyped, hlClientsOK, Counted
<1>7. WaitersServed' /\ ActiveIsListed'
  BY DEF hlIInv, hlTyped, hlClientsOK, hlLanesOK, hlRestOK, WaitersServed, ActiveIsListed
<1> QED BY <1>1, <1>2, <1>3, <1>4, <1>5, <1>6, <1>7 DEF hlIInv

\* close returns when no opening is counted: then every lane is closed.
LEMMA closeWaitStep ==
    ASSUME hlIInv, closeWait
    PROVE  hlIInv'
<1> USE hlAssumption DEF closeWait, hlGo, hlShut
<1>1. hlTyped'
  BY DEF hlIInv, hlTyped, hlClientsOK, hlLanesOK, hlRestOK, HlPlaces, HlLaneRecs
<1>2. hlMineOK'
  BY DEF hlIInv, hlTyped, hlClientsOK, hlLanesOK, hlRestOK, hlMineOK, Having, Alone, Counted
<1>3. hlOwned'
  BY DEF hlIInv, hlTyped, hlClientsOK, hlLanesOK, hlRestOK, hlMineOK, hlOwned, hlOneLane, Alone
<1>4. hlOneLane'
  BY DEF hlIInv, hlTyped, hlClientsOK, hlLanesOK, hlRestOK, hlMineOK, hlOneLane, Alone
<1>5. hlRuns'
  BY DEF hlIInv, hlTyped, hlClientsOK, hlLanesOK, hlRestOK, hlMineOK, hlOwned, hlOneLane, hlRuns, Having, Counted
<1>6. hlCounts'
  <2>1. Openers = {}
    BY OpenersFinite, FS_EmptySet DEF hlIInv, hlCounts
  <2> QED BY <2>1 DEF hlIInv, hlCounts, Openers
<1>7. WaitersServed' /\ ActiveIsListed'
  BY DEF hlIInv, hlTyped, hlClientsOK, hlLanesOK, hlRestOK, WaitersServed, ActiveIsListed
<1> QED BY <1>1, <1>2, <1>3, <1>4, <1>5, <1>6, <1>7 DEF hlIInv

\* getLane has four ends: refused, the active lane, a wait for an opening, an opening of its own.
LEMMA getLaneStep ==
    ASSUME hlIInv, NEW c \in HlClients, getLane(c)
    PROVE  hlIInv'
<1> USE hlAssumption DEF hlGo, hlShut
<1>1. CASE UNCHANGED <<hlMine, hlLane, hlOpening, hlWG, hlMade>> /\ hlGo(c, "out")
  <2>1. hlTyped'
    BY <1>1 DEF getLane, hlIInv, hlTyped, hlClientsOK, hlLanesOK, hlRestOK, HlPlaces, HlLaneRecs
  <2>2. hlMineOK' /\ hlOwned' /\ hlOneLane' /\ hlRuns'
    BY <1>1 DEF getLane, hlIInv, hlTyped, hlClientsOK, hlMineOK, hlOwned, hlOneLane, hlRuns, Having, Alone, Counted
  <2>3. hlCounts'
    BY <1>1, OpenersSame DEF getLane, hlIInv, hlTyped, hlClientsOK, Counted
  <2>4. WaitersServed' /\ ActiveIsListed'
    BY <1>1 DEF getLane, hlIInv, hlTyped, hlClientsOK, WaitersServed, ActiveIsListed
  <2> QED BY <2>1, <2>2, <2>3, <2>4 DEF hlIInv
<1>2. CASE /\ hlMap # 0 /\ hlMine' = [hlMine EXCEPT ![c] = hlMap] /\ hlGo(c, "have")
           /\ UNCHANGED <<hlLane, hlOpening, hlWG, hlMade>>
  <2>1. hlTyped'
    BY <1>2 DEF getLane, hlIInv, hlTyped, hlClientsOK, hlLanesOK, hlRestOK, HlPlaces, HlLaneRecs
  <2>2. hlMineOK'
    BY <1>2 DEF getLane, hlIInv, hlTyped, hlClientsOK, hlLanesOK, hlMineOK, Having, Alone, Counted
  <2>3. hlOwned' /\ hlOneLane' /\ hlRuns'
    BY <1>2 DEF getLane, hlIInv, hlTyped, hlClientsOK, hlOwned, hlOneLane, hlRuns, Alone
  <2>4. hlCounts'
    BY <1>2, OpenersSame DEF getLane, hlIInv, hlTyped, hlClientsOK, Counted
  <2>5. WaitersServed' /\ ActiveIsListed'
    BY <1>2 DEF getLane, hlIInv, hlTyped, hlClientsOK, WaitersServed, ActiveIsListed
  <2> QED BY <2>1, <2>2, <2>3, <2>4, <2>5 DEF hlIInv
<1>3. CASE hlOpening # 0 /\ hlGo(c, "wait") /\ UNCHANGED <<hlMine, hlLane, hlOpening, hlWG, hlMade>>
  <2>1. hlTyped'
    BY <1>3 DEF getLane, hlIInv, hlTyped, hlClientsOK, hlLanesOK, hlRestOK, HlPlaces, HlLaneRecs
  <2>2. hlMineOK' /\ hlOwned' /\ hlOneLane' /\ hlRuns'
    BY <1>3 DEF getLane, hlIInv, hlTyped, hlClientsOK, hlMineOK, hlOwned, hlOneLane, hlRuns, Having, Alone, Counted
  <2>3. hlCounts'
    BY <1>3, OpenersSame DEF getLane, hlIInv, hlTyped, hlClientsOK, Counted
  <2>4. WaitersServed' /\ ActiveIsListed'
    BY <1>3 DEF getLane, hlIInv, hlTyped, hlClientsOK, WaitersServed, ActiveIsListed
  <2> QED BY <2>1, <2>2, <2>3, <2>4 DEF hlIInv
<1>4. CASE /\ ~hlShut /\ hlMap = 0 /\ hlOpening = 0 /\ hlMade < HlLanes
           /\ hlMade' = hlMade + 1 /\ hlOpening' = c /\ hlWG' = hlWG + 1
           /\ hlLane' = newLane(hlMade')
           /\ hlMine' = [hlMine EXCEPT ![c] = hlMade'] /\ hlGo(c, "preflight")
  <2>0. hlMade' \in 1..HlLanes /\ [st |-> "open", chans |-> {}] \in HlLaneRecs
    BY <1>4 DEF hlIInv, hlTyped, hlLanesOK, HlLaneRecs
  <2>l. /\ hlLane' \in [1..HlLanes -> HlLaneRecs]
        /\ hlLane'[hlMade'] = [st |-> "open", chans |-> {}]
        /\ \A l \in 1..HlLanes \ {hlMade'} : hlLane'[l] = hlLane[l]
    BY <1>4, <2>0 DEF newLane, hlIInv, hlTyped, hlLanesOK
  <2>1. hlTyped'
    BY <1>4, <2>0, <2>l DEF getLane, hlIInv, hlTyped, hlClientsOK, hlLanesOK, hlRestOK, HlPlaces
  <2>2. hlMineOK'
    BY <1>4, <2>0 DEF getLane, hlIInv, hlTyped, hlClientsOK, hlLanesOK, hlMineOK, Having, Alone, Counted
  <2>3. hlOwned'
    <3>1. hlAt'[c] = "preflight" /\ hlMine'[c] = hlMade' /\ hlAt[c] = "get"
      BY <1>4 DEF getLane, hlIInv, hlTyped, hlClientsOK
    <3>2. \A d \in HlClients \ {c} : hlAt'[d] = hlAt[d] /\ hlMine'[d] = hlMine[d]
      BY <1>4 DEF hlIInv, hlTyped, hlClientsOK
    <3>3. hlMap' = hlMap /\ hlTaken' = hlTaken /\ hlClose' = hlClose
      BY DEF getLane
    <3> QED BY <2>l, <3>1, <3>2, <3>3 DEF hlIInv, hlOwned, Alone
  <2>4. hlOneLane'
    BY <1>4, <2>0, <2>l DEF getLane, hlIInv, hlTyped, hlClientsOK, hlLanesOK, hlOneLane
  <2>5. hlRuns'
    BY <1>4, <2>0, <2>l DEF getLane, hlIInv, hlTyped, hlClientsOK, hlLanesOK, hlMineOK, hlRuns, Having, Counted
  <2>6. hlCounts'
    BY <1>4, OpenersMore DEF getLane, hlIInv, hlTyped, hlClientsOK, Counted
  <2>7. WaitersServed' /\ ActiveIsListed'
    BY <1>4 DEF getLane, hlIInv, hlTyped, hlClientsOK, WaitersServed, ActiveIsListed
  <2> QED BY <2>1, <2>2, <2>3, <2>4, <2>5, <2>6, <2>7 DEF hlIInv
<1> QED BY <1>1, <1>2, <1>3, <1>4 DEF getLane

\* The inductive invariant holds in every state of the lanes.
THEOREM LanesInvariance == hlSpec => []hlIInv
<1>1. hlIInv /\ [hlNext]_hlVars => hlIInv'
  <2> SUFFICES ASSUME hlIInv, [hlNext]_hlVars PROVE hlIInv'
    OBVIOUS
  <2>1. CASE UNCHANGED hlVars
    BY <2>1 DEF hlVars, hlIInv, hlTyped, hlClientsOK, hlLanesOK, hlRestOK, hlMineOK, hlOwned, hlOneLane,
                hlRuns, hlCounts, Openers, WaitersServed, ActiveIsListed, hlShut
  <2>2. CASE Cools \/ refreshCFDomains \/ closeMark \/ closeLanes \/ closeChannels \/ closeWait
    BY <2>2, CoolsStep, refreshCFDomainsStep, closeMarkStep, closeLanesStep, closeChannelsStep, closeWaitStep
  <2>3. ASSUME NEW c \in HlClients,
               \/ hlOpen(c) \/ getLane(c) \/ setupTimeout(c) \/ dropLane(c) \/ openedLane(c)
               \/ laneOpen(c) \/ promoteCurrentDomain(c) \/ channelEnds(c)
        PROVE  hlIInv'
    BY <2>3, hlOpenStep, getLaneStep, setupTimeoutStep, dropLaneStep, openedLaneStep, laneOpenStep,
       promoteCurrentDomainStep, channelEndsStep
  <2>4. ASSUME NEW c \in HlClients, NEW ok \in BOOLEAN, NEW cool \in BOOLEAN, preflight(c, ok, cool)
        PROVE  hlIInv'
    BY <2>4, preflightStep
  <2> QED BY <2>1, <2>2, <2>3, <2>4 DEF hlNext
<1> QED BY <1>1, hlInitIInv, PTL DEF hlSpec

\* When the close of the pool has returned no lane is open and no channel runs; before that
\* channels run on live lanes, waiters have a preflight and the active domain is listed.
THEOREM LanesAreSafe == hlSpec => []LanesSafe
<1>1. hlIInv => LanesSafe
  <2> SUFFICES ASSUME hlIInv PROVE LanesSafe
    OBVIOUS
  <2>1. LanesClosed
    BY DEF hlIInv, hlTyped, hlClientsOK, hlLanesOK, hlRestOK, hlOwned, hlOneLane, hlCounts, Openers,
           Counted, Alone, hlShut, LanesClosed
  <2>2. ChannelsOnLiveLane
    BY DEF hlIInv, hlRuns, hlOneLane, ChannelsOnLiveLane
  <2> QED BY <2>1, <2>2 DEF LanesSafe, hlIInv
<1> QED BY <1>1, LanesInvariance, PTL


(***************************************************************************)
(* SocksLifecycle                                                          *)
(***************************************************************************)
skSpec == skInit /\ [][skNext]_skVars

\* What may be left of an operation.
SkTodos == {<<>>, <<"start">>,
            SkStop, <<"cancel", "close", "drop", "wait">>, <<"close", "drop", "wait">>,
            <<"drop", "wait">>, <<"wait">>,
            SkRestart, <<"cancel", "close", "drop", "wait", "start">>, <<"close", "drop", "wait", "start">>,
            <<"drop", "wait", "start">>, <<"wait", "start">>}
SkPlaces == {"out", "accepted", "greet", "connect", "tunnel", "relay", "pipe", "end"}
skOpOK == skOp \in [SkCallers -> [todo : SkTodos, of : 0..skMade]]
skManagerOK ==
    /\ skEnabled \in BOOLEAN /\ skRun \in BOOLEAN /\ skMade \in 0..SkStarts /\ skNow \in 0..skMade
    /\ skOpenLn \subseteq 1..skMade /\ skLoops \subseteq 1..skMade
    /\ skDone \subseteq 1..skMade /\ skShut \subseteq 1..skMade
skSessOK ==
    /\ skSess \in [SkClients -> [at : SkPlaces, of : 0..skMade]]
    /\ skOpen \subseteq SkClients /\ skUp \subseteq SkClients
skTyped == skOpOK /\ skManagerOK /\ skSessOK

\* The step of the stop that a caller is about to take.
AtStep(c, steps) == skOp[c].todo # <<>> /\ Head(skOp[c].todo) \in steps

\* What runs is served; what does not run has no start of its own.
skServed == RunningIsServed /\ (skRun <=> skNow # 0)

\* A stop has taken a start that does not run any more, and has ended as much
\* of it as its steps so far do.
skStops ==
    \A c \in SkCallers :
        /\ AtStep(c, {"cancel", "close", "drop", "wait"}) => skOp[c].of # 0 /\ skOp[c].of # skNow
        /\ AtStep(c, {"close", "drop", "wait"}) => skOp[c].of \in skDone
        /\ AtStep(c, {"drop", "wait"}) => skOp[c].of \notin skOpenLn

\* Every start runs, has ended, or is being ended.
Ended(n) == n \in skDone /\ n \in skShut /\ n \notin skOpenLn
skEnds ==
    \A n \in 1..skMade :
        \/ n = skNow
        \/ Ended(n)
        \/ \E c \in SkCallers : skOp[c].of = n /\ AtStep(c, {"cancel", "close", "drop"})

\* A client is in the set of its start only after it was added.
skTracked == \A c \in SkClients : skSess[c].at \in {"out", "accepted"} => c \notin skOpen

\* The inductive invariant.
skIInv == skTyped /\ skServed /\ skStops /\ skEnds /\ skTracked /\ SocksClientsDropped


\* What follows each step of an operation.
LEMMA SkTodoSteps ==
    \A t \in SkTodos : t # <<>> =>
        /\ Tail(t) \in SkTodos
        /\ Head(t) = "mark"   => Tail(t) # <<>> /\ Head(Tail(t)) = "cancel"
        /\ Head(t) = "cancel" => Tail(t) # <<>> /\ Head(Tail(t)) = "close"
        /\ Head(t) = "close"  => Tail(t) # <<>> /\ Head(Tail(t)) = "drop"
        /\ Head(t) = "drop"   => Tail(t) # <<>> /\ Head(Tail(t)) = "wait"
        /\ Head(t) = "wait"   => Tail(t) \in {<<>>, <<"start">>}
        /\ Head(t) = "start"  => Tail(t) = <<>>
<1> SUFFICES ASSUME NEW t \in SkTodos, t # <<>>
             PROVE  /\ Tail(t) \in SkTodos
                    /\ Head(t) = "mark"   => Tail(t) # <<>> /\ Head(Tail(t)) = "cancel"
                    /\ Head(t) = "cancel" => Tail(t) # <<>> /\ Head(Tail(t)) = "close"
                    /\ Head(t) = "close"  => Tail(t) # <<>> /\ Head(Tail(t)) = "drop"
                    /\ Head(t) = "drop"   => Tail(t) # <<>> /\ Head(Tail(t)) = "wait"
                    /\ Head(t) = "wait"   => Tail(t) \in {<<>>, <<"start">>}
                    /\ Head(t) = "start"  => Tail(t) = <<>>
  OBVIOUS
<1>1. CASE t = SkStop
  BY <1>1 DEF SkStop, SkRestart, SkTodos
<1>2. CASE t = <<"cancel", "close", "drop", "wait">>
  BY <1>2 DEF SkStop, SkRestart, SkTodos
<1>3. CASE t = <<"close", "drop", "wait">>
  BY <1>3 DEF SkStop, SkRestart, SkTodos
<1>4. CASE t = <<"drop", "wait">>
  BY <1>4 DEF SkStop, SkRestart, SkTodos
<1>5. CASE t = <<"wait">>
  BY <1>5 DEF SkStop, SkRestart, SkTodos
<1>6. CASE t = SkRestart
  BY <1>6 DEF SkStop, SkRestart, SkTodos
<1>7. CASE t = <<"cancel", "close", "drop", "wait", "start">>
  BY <1>7 DEF SkStop, SkRestart, SkTodos
<1>8. CASE t = <<"close", "drop", "wait", "start">>
  BY <1>8 DEF SkStop, SkRestart, SkTodos
<1>9. CASE t = <<"drop", "wait", "start">>
  BY <1>9 DEF SkStop, SkRestart, SkTodos
<1>10. CASE t = <<"wait", "start">>
  BY <1>10 DEF SkStop, SkRestart, SkTodos
<1>11. CASE t = <<"start">>
  BY <1>11 DEF SkStop, SkRestart, SkTodos
<1> QED BY <1>1, <1>2, <1>3, <1>4, <1>5, <1>6, <1>7, <1>8, <1>9, <1>10, <1>11 DEF SkTodos


\* What a caller that stops nothing has left is nothing, or the start it wants.
LEMMA SkStarting == \A t \in SkTodos : t # <<>> /\ Head(t) = "mark" => skStarting(t) \in {<<>>, <<"start">>}
  BY DEF skStarting

\* A step of an operation leaves the start it has taken, and the other operations.
LEMMA SkDropped ==
    ASSUME skTyped, NEW c \in SkCallers, skDrop(c), skOp[c].todo # <<>>
    PROVE  /\ skOp' \in [SkCallers -> [todo : SkTodos, of : 0..skMade]]
           /\ skOp'[c].todo = Tail(skOp[c].todo) /\ skOp'[c].of = skOp[c].of
           /\ \A d \in SkCallers \ {c} : skOp'[d] = skOp[d]
  BY SkTodoSteps DEF skDrop, skTyped, skOpOK

\* The front starts with no session and no listener.
LEMMA skInitIInv == skInit => skIInv
<1> SUFFICES ASSUME skInit PROVE skIInv
  OBVIOUS
<1>1. skOpOK
  <2>1. [todo |-> <<>>, of |-> 0] \in [todo : SkTodos, of : 0..skMade]
    BY DEF SkTodos, skInit
  <2> QED BY <2>1 DEF skInit, skOpOK
<1>2. skManagerOK
  <2>1. skMade = 0 /\ 0 \in 0..SkStarts
    BY skAssumption DEF skInit
  <2>2. skEnabled \in BOOLEAN /\ skRun \in BOOLEAN
    BY DEF skInit
  <2>5. skNow \in 0..skMade
    BY DEF skInit
  <2>3. skOpenLn \subseteq 1..skMade /\ skLoops \subseteq 1..skMade
    BY DEF skInit
  <2>4. skDone \subseteq 1..skMade /\ skShut \subseteq 1..skMade
    BY DEF skInit
  <2> QED BY <2>1, <2>2, <2>3, <2>4, <2>5 DEF skManagerOK
<1>3. skSessOK
  <2>1. skOut \in [at : SkPlaces, of : 0..skMade]
    BY DEF skOut, SkPlaces, skInit
  <2> QED BY <2>1 DEF skInit, skSessOK
<1>4. skServed /\ skStops /\ skEnds /\ skTracked /\ SocksClientsDropped
  BY DEF skInit, skServed, RunningIsServed, skStops, AtStep, skEnds, skTracked, SocksClientsDropped
<1> QED BY <1>1, <1>2, <1>3, <1>4 DEF skIInv, skTyped

\* A stop cancels the context: the listener and the sessions end on their own.
LEMMA SocksCancelStep ==
    ASSUME skIInv, NEW c \in SkCallers, SocksCancel(c)
    PROVE  skIInv'
<1>1. /\ skOp' \in [SkCallers -> [todo : SkTodos, of : 0..skMade]]
      /\ skOp'[c].todo = Tail(skOp[c].todo) /\ skOp'[c].of = skOp[c].of
      /\ \A d \in SkCallers \ {c} : skOp'[d] = skOp[d]
  BY SkDropped DEF SocksCancel, skStep, skIInv
<1>2. skOp[c].todo \in SkTodos /\ skOp[c].todo # <<>> /\ Head(skOp[c].todo) = "cancel" /\ skOp[c].of \in 1..skMade
  BY DEF skStops, AtStep, SocksCancel, skStep, skIInv, skTyped, skOpOK
<1>4. skOp'[c].todo # <<>> /\ Head(skOp'[c].todo) = "close"
  BY <1>1, <1>2, SkTodoSteps
<1>5. skTyped'
  BY <1>1, <1>2 DEF SocksCancel, skStops, AtStep, taken, takenConns, skIInv, skTyped, skOpOK, skManagerOK, skSessOK, skTyped
<1>6. skServed'
  BY <1>2 DEF SocksCancel, skIInv, skServed, skStops, AtStep, RunningIsServed, taken, takenConns
<1>7. skStops'
  BY <1>1, <1>2, <1>4 DEF SocksCancel, skIInv, skStops, AtStep, taken, takenConns
<1>8. skEnds'
  <2> SUFFICES ASSUME NEW n \in 1..skMade, n # skNow, ~Ended(n)'
               PROVE  \E d \in SkCallers : skOp'[d].of = n /\ AtStep(d, {"cancel", "close", "drop"})'
    BY DEF SocksCancel, skEnds
  <2>1. ~Ended(n)
    BY DEF Ended, SocksCancel
  <2>2. PICK d \in SkCallers : skOp[d].of = n /\ AtStep(d, {"cancel", "close", "drop"})
    BY <2>1 DEF skIInv, skEnds
  <2>3. CASE d # c
    BY <1>1, <2>2, <2>3 DEF AtStep
  <2>4. CASE d = c
    BY <1>1, <1>2, <1>4, <2>2, <2>4 DEF SocksCancel, skIInv, skStops, Ended, AtStep, taken, takenConns
  <2> QED BY <2>3, <2>4
<1>9. skTracked' /\ SocksClientsDropped'
  BY DEF SocksCancel, skIInv, skTracked, SocksClientsDropped, takenConns, skTyped, skSessOK
<1> QED BY <1>5, <1>6, <1>7, <1>8, <1>9 DEF skIInv

\* A stop closes the listener.
LEMMA SocksCloseStep ==
    ASSUME skIInv, NEW c \in SkCallers, SocksClose(c)
    PROVE  skIInv'
<1>1. /\ skOp' \in [SkCallers -> [todo : SkTodos, of : 0..skMade]]
      /\ skOp'[c].todo = Tail(skOp[c].todo) /\ skOp'[c].of = skOp[c].of
      /\ \A d \in SkCallers \ {c} : skOp'[d] = skOp[d]
  BY SkDropped DEF SocksClose, skStep, skIInv
<1>2. skOp[c].todo \in SkTodos /\ skOp[c].todo # <<>> /\ Head(skOp[c].todo) = "close" /\ skOp[c].of \in 1..skMade
  BY DEF skStops, AtStep, SocksClose, skStep, skIInv, skTyped, skOpOK
<1>4. skOp'[c].todo # <<>> /\ Head(skOp'[c].todo) = "drop"
  BY <1>1, <1>2, SkTodoSteps
<1>5. skTyped'
  BY <1>1, <1>2 DEF SocksClose, skStops, AtStep, taken, takenConns, skIInv, skTyped, skOpOK, skManagerOK, skSessOK, skTyped
<1>6. skServed'
  BY <1>2 DEF SocksClose, skIInv, skServed, skStops, AtStep, RunningIsServed, taken, takenConns
<1>7. skStops'
  BY <1>1, <1>2, <1>4 DEF SocksClose, skIInv, skStops, AtStep, taken, takenConns
<1>8. skEnds'
  <2> SUFFICES ASSUME NEW n \in 1..skMade, n # skNow, ~Ended(n)'
               PROVE  \E d \in SkCallers : skOp'[d].of = n /\ AtStep(d, {"cancel", "close", "drop"})'
    BY DEF SocksClose, skEnds
  <2>1. ~Ended(n)
    BY DEF Ended, SocksClose
  <2>2. PICK d \in SkCallers : skOp[d].of = n /\ AtStep(d, {"cancel", "close", "drop"})
    BY <2>1 DEF skIInv, skEnds
  <2>3. CASE d # c
    BY <1>1, <2>2, <2>3 DEF AtStep
  <2>4. CASE d = c
    BY <1>1, <1>2, <1>4, <2>2, <2>4 DEF SocksClose, skIInv, skStops, Ended, AtStep, taken, takenConns
  <2> QED BY <2>3, <2>4
<1>9. skTracked' /\ SocksClientsDropped'
  BY DEF SocksClose, skIInv, skTracked, SocksClientsDropped, takenConns, skTyped, skSessOK
<1> QED BY <1>5, <1>6, <1>7, <1>8, <1>9 DEF skIInv

\* A stop closes the connections that are tracked.
LEMMA SocksDropStep ==
    ASSUME skIInv, NEW c \in SkCallers, SocksDrop(c)
    PROVE  skIInv'
<1>1. /\ skOp' \in [SkCallers -> [todo : SkTodos, of : 0..skMade]]
      /\ skOp'[c].todo = Tail(skOp[c].todo) /\ skOp'[c].of = skOp[c].of
      /\ \A d \in SkCallers \ {c} : skOp'[d] = skOp[d]
  BY SkDropped DEF SocksDrop, skStep, skIInv
<1>2. skOp[c].todo \in SkTodos /\ skOp[c].todo # <<>> /\ Head(skOp[c].todo) = "drop" /\ skOp[c].of \in 1..skMade
  BY DEF skStops, AtStep, SocksDrop, skStep, skIInv, skTyped, skOpOK
<1>4. skOp'[c].todo # <<>> /\ Head(skOp'[c].todo) = "wait"
  BY <1>1, <1>2, SkTodoSteps
<1>5. skTyped'
  BY <1>1, <1>2 DEF SocksDrop, skStops, AtStep, taken, takenConns, skIInv, skTyped, skOpOK, skManagerOK, skSessOK, skTyped
<1>6. skServed'
  BY <1>2 DEF SocksDrop, skIInv, skServed, skStops, AtStep, RunningIsServed, taken, takenConns
<1>7. skStops'
  BY <1>1, <1>2, <1>4 DEF SocksDrop, skIInv, skStops, AtStep, taken, takenConns
<1>8. skEnds'
  <2> SUFFICES ASSUME NEW n \in 1..skMade, n # skNow, ~Ended(n)'
               PROVE  \E d \in SkCallers : skOp'[d].of = n /\ AtStep(d, {"cancel", "close", "drop"})'
    BY DEF SocksDrop, skEnds
  <2>1. ~Ended(n)
    BY DEF Ended, SocksDrop
  <2>2. PICK d \in SkCallers : skOp[d].of = n /\ AtStep(d, {"cancel", "close", "drop"})
    BY <2>1 DEF skIInv, skEnds
  <2>3. CASE d # c
    BY <1>1, <2>2, <2>3 DEF AtStep
  <2>4. CASE d = c
    BY <1>1, <1>2, <1>4, <2>2, <2>4 DEF SocksDrop, skIInv, skStops, Ended, AtStep, taken, takenConns
  <2> QED BY <2>3, <2>4
<1>9. skTracked' /\ SocksClientsDropped'
  BY DEF SocksDrop, skIInv, skTracked, SocksClientsDropped, takenConns, skTyped, skSessOK
<1> QED BY <1>5, <1>6, <1>7, <1>8, <1>9 DEF skIInv

\* A stop waits for the accept loop and the sessions.
LEMMA SocksWaitStep ==
    ASSUME skIInv, NEW c \in SkCallers, SocksWait(c)
    PROVE  skIInv'
<1>1. /\ skOp' \in [SkCallers -> [todo : SkTodos, of : 0..skMade]]
      /\ skOp'[c].todo = Tail(skOp[c].todo) /\ skOp'[c].of = skOp[c].of
      /\ \A d \in SkCallers \ {c} : skOp'[d] = skOp[d]
  BY SkDropped DEF SocksWait, skStep, skIInv
<1>2. skOp[c].todo \in SkTodos /\ skOp[c].todo # <<>> /\ Head(skOp[c].todo) = "wait" /\ skOp[c].of \in 1..skMade
  BY DEF skStops, AtStep, SocksWait, skStep, skIInv, skTyped, skOpOK
<1>4. skOp'[c].todo = <<>> \/ (skOp'[c].todo # <<>> /\ Head(skOp'[c].todo) = "start")
  <2>1. Head(<<"start">>) = "start"
    OBVIOUS
  <2> QED BY <1>1, <1>2, <2>1, SkTodoSteps
<1>5. skTyped'
  BY <1>1, <1>2 DEF SocksWait, skStops, AtStep, taken, takenConns, skIInv, skTyped, skOpOK, skManagerOK, skSessOK, skTyped
<1>6. skServed'
  BY <1>2 DEF SocksWait, skIInv, skServed, skStops, AtStep, RunningIsServed, taken, takenConns
<1>7. skStops'
  BY <1>1, <1>2, <1>4 DEF SocksWait, skIInv, skStops, AtStep, taken, takenConns
<1>8. skEnds'
  <2> SUFFICES ASSUME NEW n \in 1..skMade, n # skNow, ~Ended(n)'
               PROVE  \E d \in SkCallers : skOp'[d].of = n /\ AtStep(d, {"cancel", "close", "drop"})'
    BY DEF SocksWait, skEnds
  <2>1. ~Ended(n)
    BY DEF Ended, SocksWait
  <2>2. PICK d \in SkCallers : skOp[d].of = n /\ AtStep(d, {"cancel", "close", "drop"})
    BY <2>1 DEF skIInv, skEnds
  <2>3. CASE d # c
    BY <1>1, <2>2, <2>3 DEF AtStep
  <2>4. CASE d = c
    BY <1>1, <1>2, <1>4, <2>2, <2>4 DEF SocksWait, skIInv, skStops, Ended, AtStep, taken, takenConns
  <2> QED BY <2>3, <2>4
<1>9. skTracked' /\ SocksClientsDropped'
  BY DEF SocksWait, skIInv, skTracked, SocksClientsDropped, takenConns, skTyped, skSessOK
<1> QED BY <1>5, <1>6, <1>7, <1>8, <1>9 DEF skIInv


\* A step that only plans an operation, or finds that there is nothing to do.
LEMMA SkPlans ==
    ASSUME skIInv, NEW c \in SkCallers, NEW t \in SkTodos, t = <<>> \/ Head(t) \in {"mark", "start"},
           skOp[c].todo = <<>> \/ Head(skOp[c].todo) \in {"mark", "start"},
           skOp' = [skOp EXCEPT ![c].todo = t], skEnabled' \in BOOLEAN,
           UNCHANGED <<skRun, skNow, skOpenLn, skLoops, skDone, skShut, skSess, skOpen, skUp, skMade>>
    PROVE  skIInv'
<1>1. /\ skOp' \in [SkCallers -> [todo : SkTodos, of : 0..skMade]]
      /\ skOp'[c].todo = t /\ skOp'[c].of = skOp[c].of
      /\ \A d \in SkCallers \ {c} : skOp'[d] = skOp[d]
  BY DEF skIInv, skTyped, skOpOK
<1>2. skTyped'
  BY <1>1 DEF skIInv, skTyped, skOpOK, skManagerOK, skSessOK
<1>3. skServed'
  BY DEF skIInv, skServed, RunningIsServed
<1>4. skStops'
  BY <1>1 DEF skIInv, skStops, AtStep
<1>5. skEnds'
  <2> SUFFICES ASSUME NEW n \in 1..skMade, n # skNow, ~Ended(n)
               PROVE  \E d \in SkCallers : skOp'[d].of = n /\ AtStep(d, {"cancel", "close", "drop"})'
    BY DEF skEnds, Ended
  <2>1. PICK d \in SkCallers : skOp[d].of = n /\ AtStep(d, {"cancel", "close", "drop"})
    BY DEF skIInv, skEnds
  <2>2. d # c
    BY <2>1 DEF AtStep
  <2> QED BY <1>1, <2>1, <2>2 DEF AtStep
<1>6. skTracked' /\ SocksClientsDropped'
  BY DEF skIInv, skTracked, SocksClientsDropped
<1> QED BY <1>2, <1>3, <1>4, <1>5, <1>6 DEF skIInv

\* A request that has done its last operation starts another one.
LEMMA SkRequestsStep ==
    ASSUME skIInv, NEW c \in SkCallers,
           (\E enabled \in BOOLEAN : SetConfig(c, enabled)) \/ SocksStop(c) \/ SocksRestart(c)
    PROVE  skIInv'
<1>1. CASE SocksStop(c)
  <2>1. SkStop \in SkTodos /\ Head(SkStop) = "mark"
    BY DEF SkStop, SkRestart, SkTodos
  <2> QED BY <1>1, <2>1, SkPlans DEF SocksStop, skIInv, skTyped, skManagerOK
<1>2. CASE SocksRestart(c)
  <2>1. SkRestart \in SkTodos /\ Head(SkRestart) = "mark"
    BY DEF SkRestart, SkTodos
  <2> QED BY <1>2, <2>1, SkPlans DEF SocksRestart, skIInv, skTyped, skManagerOK
<1>3. ASSUME NEW enabled \in BOOLEAN, SetConfig(c, enabled)
      PROVE  skIInv'
  <2>1. /\ SkStop \in SkTodos /\ Head(SkStop) = "mark"
        /\ SkRestart \in SkTodos /\ Head(SkRestart) = "mark"
    BY DEF SkStop, SkRestart, SkTodos
  <2>2. <<"start">> \in SkTodos /\ Head(<<"start">>) = "start" /\ <<>> \in SkTodos
    BY DEF SkTodos
  <2>3. /\ skPlan(skRun, enabled) \in SkTodos
        /\ skPlan(skRun, enabled) = <<>> \/ Head(skPlan(skRun, enabled)) \in {"mark", "start"}
    BY <2>1, <2>2 DEF skPlan
  <2> QED BY <1>3, <2>3, SkPlans DEF SetConfig
<1> QED BY <1>1, <1>2, <1>3

\* A start under the mutex gets a number of its own.
LEMMA SocksStartStep ==
    ASSUME skIInv, NEW c \in SkCallers, SocksStart(c)
    PROVE  skIInv'
<1>1. /\ skOp' \in [SkCallers -> [todo : SkTodos, of : 0..skMade]]
      /\ skOp'[c].todo = Tail(skOp[c].todo) /\ skOp'[c].of = skOp[c].of
      /\ \A d \in SkCallers \ {c} : skOp'[d] = skOp[d]
  BY SkDropped DEF SocksStart, skStep, skIInv
<1>2. /\ skOp[c].todo \in SkTodos /\ skOp[c].todo # <<>> /\ Head(skOp[c].todo) = "start"
      /\ Tail(skOp[c].todo) = <<>>
  BY SkTodoSteps DEF SocksStart, skStep, skIInv, skTyped, skOpOK
<1>3. CASE skRun \/ skOpenLn # {} \/ skMade = SkStarts
  <2>1. <<>> \in SkTodos /\ skOp' = [skOp EXCEPT ![c].todo = <<>>]
    BY <1>2 DEF SocksStart, skDrop, SkTodos
  <2> QED BY <1>2, <1>3, <2>1, SkPlans DEF SocksStart, skIInv, skTyped, skManagerOK
<1>4. CASE ~(skRun \/ skOpenLn # {} \/ skMade = SkStarts)
  <2>1. /\ skMade' = skMade + 1 /\ skRun' = TRUE /\ skNow' = skMade'
        /\ skOpenLn' = {skMade'} /\ skLoops' = skLoops \cup {skMade'}
        /\ UNCHANGED <<skEnabled, skDone, skShut, skSess, skOpen, skUp>>
    BY <1>4 DEF SocksStart
  <2>2. skMade \in 0..SkStarts /\ skMade' \in 1..SkStarts /\ 0..skMade \subseteq 0..skMade'
    BY <1>4, <2>1, skAssumption DEF skIInv, skTyped, skOpOK, skManagerOK, skSessOK
  <2>3. skTyped'
    <3>1. skOpOK'
      BY <1>1, <2>1, <2>2 DEF skOpOK
    <3>2. skManagerOK'
      BY <2>1, <2>2 DEF skIInv, skTyped, skManagerOK
    <3>3. skSessOK'
      BY <2>1, <2>2 DEF skIInv, skTyped, skSessOK
    <3> QED BY <3>1, <3>2, <3>3 DEF skTyped
  <2>4. skServed'
    BY <2>1, <2>2 DEF skIInv, skTyped, skOpOK, skManagerOK, skSessOK, skServed, RunningIsServed
  <2>5. skStops'
    <3>1. \A d \in SkCallers : skOp[d].of # skMade'
      BY <2>1, <2>2 DEF skIInv, skTyped, skOpOK
    <3>2. ~AtStep(c, {"cancel", "close", "drop", "wait"})'
      BY <1>1, <1>2 DEF AtStep
    <3> QED BY <1>1, <2>1, <3>1, <3>2 DEF skIInv, skStops, AtStep
  <2>6. skEnds'
    <3> SUFFICES ASSUME NEW n \in 1..skMade, ~Ended(n)'
                 PROVE  \E d \in SkCallers : skOp'[d].of = n /\ AtStep(d, {"cancel", "close", "drop"})'
      BY <2>1, <2>2 DEF skEnds
    <3>1. n # skNow /\ ~Ended(n)
      BY <1>4, <2>1, <2>2 DEF skIInv, skServed, Ended
    <3>2. PICK d \in SkCallers : skOp[d].of = n /\ AtStep(d, {"cancel", "close", "drop"})
      BY <3>1 DEF skIInv, skEnds
    <3>3. d # c
      BY <1>2, <3>2 DEF AtStep
    <3> QED BY <1>1, <3>2, <3>3 DEF AtStep
  <2>7. skTracked' /\ SocksClientsDropped'
    BY <2>1 DEF skIInv, skTracked, SocksClientsDropped
  <2> QED BY <2>3, <2>4, <2>5, <2>6, <2>7 DEF skIInv
<1> QED BY <1>3, <1>4

\* The start that a stop takes under the mutex runs no more, and is its to end.
LEMMA SocksMarkStep ==
    ASSUME skIInv, NEW c \in SkCallers, SocksMark(c)
    PROVE  skIInv'
<1>1. skOp[c].todo \in SkTodos /\ skOp[c].todo # <<>> /\ Head(skOp[c].todo) = "mark"
  BY DEF SocksMark, skStep, skIInv, skTyped, skOpOK
<1>2. CASE ~skRun
  <2>1. skStarting(skOp[c].todo) \in {<<>>, <<"start">>}
    BY <1>1, SkStarting
  <2>2. skStarting(skOp[c].todo) \in SkTodos
    BY <2>1 DEF SkTodos
  <2>3. Head(<<"start">>) = "start"
    OBVIOUS
  <2>4. skOp' = [skOp EXCEPT ![c].todo = skStarting(skOp[c].todo)]
    BY <1>2 DEF SocksMark
  <2> QED BY <1>1, <1>2, <2>1, <2>2, <2>3, <2>4, SkPlans DEF SocksMark, skIInv, skTyped, skManagerOK
<1>3. CASE skRun
  <2>1. /\ skRun' = FALSE /\ skNow' = 0
        /\ skOp' = [skOp EXCEPT ![c] = [todo |-> Tail(skOp[c].todo), of |-> skNow]]
        /\ UNCHANGED <<skEnabled, skOpenLn, skLoops, skDone, skShut, skSess, skOpen, skUp, skMade>>
    BY <1>3 DEF SocksMark
  <2>2. /\ Tail(skOp[c].todo) \in SkTodos /\ Tail(skOp[c].todo) # <<>>
        /\ Head(Tail(skOp[c].todo)) = "cancel"
    BY <1>1, SkTodoSteps
  <2>3. skNow \in 1..skMade
    BY <1>3 DEF skIInv, skTyped, skManagerOK, skServed
  <2>4. /\ skOp' \in [SkCallers -> [todo : SkTodos, of : 0..skMade]]
        /\ skOp'[c].todo = Tail(skOp[c].todo) /\ skOp'[c].of = skNow
        /\ \A d \in SkCallers \ {c} : skOp'[d] = skOp[d]
    BY <2>1, <2>2, <2>3 DEF skIInv, skTyped, skOpOK
  <2>5. skTyped'
    <3>1. skOpOK' /\ skSessOK'
      BY <2>1, <2>4 DEF skIInv, skTyped, skOpOK, skSessOK
    <3>2. skNow' \in 0..skMade'
      BY <2>1, <2>3 DEF skIInv, skTyped, skManagerOK
    <3>3. skRun' \in BOOLEAN
      BY <2>1
    <3>4. skManagerOK'
      BY <2>1, <3>2, <3>3 DEF skIInv, skTyped, skManagerOK
    <3> QED BY <3>1, <3>4 DEF skTyped
  <2>6. skServed'
    BY <2>1 DEF skServed, RunningIsServed
  <2>7. skStops'
    BY <2>1, <2>2, <2>3, <2>4 DEF skIInv, skTyped, skOpOK, skManagerOK, skSessOK, skStops, AtStep
  <2>8. skEnds'
    <3> SUFFICES ASSUME NEW n \in 1..skMade, ~Ended(n)
                 PROVE  \E d \in SkCallers : skOp'[d].of = n /\ AtStep(d, {"cancel", "close", "drop"})'
      BY <2>1 DEF skEnds, Ended
    <3>1. CASE n = skNow
      BY <2>2, <2>4, <3>1 DEF AtStep
    <3>2. CASE n # skNow
      <4>1. PICK d \in SkCallers : skOp[d].of = n /\ AtStep(d, {"cancel", "close", "drop"})
        BY <3>2 DEF skIInv, skEnds
      <4>2. d # c
        BY <1>1, <4>1 DEF AtStep
      <4> QED BY <2>4, <4>1, <4>2 DEF AtStep
    <3> QED BY <3>1, <3>2
  <2>9. skTracked' /\ SocksClientsDropped'
    BY <2>1 DEF skIInv, skTracked, SocksClientsDropped
  <2> QED BY <2>5, <2>6, <2>7, <2>8, <2>9 DEF skIInv
<1> QED BY <1>2, <1>3 DEF SocksMark, skIInv, skTyped, skManagerOK


\* A step of the clients or of an accept loop, that leaves the manager alone.
LEMMA SkManagerStays ==
    ASSUME skIInv, UNCHANGED skManager, skOpenLn' = skOpenLn, skLoops' \subseteq skLoops,
           skNow \in skLoops => skNow \in skLoops'
    PROVE  skOpOK' /\ skManagerOK' /\ skServed' /\ skStops' /\ skEnds'
<1>1. UNCHANGED <<skEnabled, skRun, skNow, skDone, skShut, skMade, skOp>>
  BY DEF skManager
<1>2. skOpOK' /\ skManagerOK'
  BY <1>1 DEF skIInv, skTyped, skOpOK, skManagerOK
<1>3. skServed'
  BY <1>1 DEF skIInv, skServed, RunningIsServed
<1>4. skStops' /\ skEnds'
  BY <1>1 DEF skIInv, skStops, skEnds, Ended, AtStep
<1> QED BY <1>2, <1>3, <1>4

\* An accept loop ends with its listener, and a start that runs has its own.
LEMMA SocksAcceptEndsStep ==
    ASSUME skIInv, NEW n \in 1..SkStarts, socksAcceptEnds(n)
    PROVE  skIInv'
<1>1. UNCHANGED <<skManager, skOpenLn, skSess, skOpen, skUp>> /\ skLoops' = skLoops \ {n} /\ n \notin skOpenLn
  BY DEF socksAcceptEnds
<1>2. skOpOK' /\ skManagerOK' /\ skServed' /\ skStops' /\ skEnds'
  <2>1. skNow \in skLoops => skNow \in skLoops' \/ ~skRun
    BY <1>1 DEF skIInv, skServed, RunningIsServed
  <2>2. UNCHANGED <<skEnabled, skRun, skNow, skDone, skShut, skMade, skOp>>
    BY <1>1 DEF skManager
  <2>3. skServed'
    BY <1>1, <2>2 DEF skIInv, skServed, RunningIsServed
  <2>4. skOpOK' /\ skManagerOK'
    BY <1>1, <2>2 DEF skIInv, skTyped, skOpOK, skManagerOK
  <2>5. skStops' /\ skEnds'
    BY <1>1, <2>2 DEF skIInv, skStops, skEnds, Ended, AtStep
  <2> QED BY <2>3, <2>4, <2>5
<1>3. skSessOK' /\ skTracked' /\ SocksClientsDropped'
  BY <1>1 DEF skManager, skIInv, skTyped, skSessOK, skTracked, SocksClientsDropped
<1> QED BY <1>2, <1>3 DEF skIInv, skTyped

\* A step of a client: where it goes, and what it opens or closes.
LEMMA SkClientMoves ==
    ASSUME skIInv, UNCHANGED <<skManager, skOpenLn, skLoops>>, NEW c \in SkClients,
           NEW r \in [at : SkPlaces, of : 0..skMade], skSess' = [skSess EXCEPT ![c] = r],
           skOpen' \subseteq skOpen \cup {c}, skUp' \subseteq skUp \cup {c},
           r.at \in {"out", "accepted"} => c \notin skOpen',
           c \in skOpen' => r.of \notin skShut,
           c \in skUp' => r.at = "pipe"
    PROVE  skIInv'
<1>1. skOpOK' /\ skManagerOK' /\ skServed' /\ skStops' /\ skEnds'
  BY SkManagerStays
<1>2. skMade' = skMade /\ skShut' = skShut
  BY DEF skManager
<1>3. skSessOK'
  BY <1>2 DEF skIInv, skTyped, skSessOK
<1>4. skSess'[c] = r /\ \A d \in SkClients \ {c} : skSess'[d] = skSess[d]
  BY DEF skIInv, skTyped, skSessOK
<1>5. skTracked'
  BY <1>4 DEF skIInv, skTracked
<1>6. SocksClientsDropped'
  BY <1>2, <1>3, <1>4 DEF skIInv, skTyped, skSessOK, SocksClientsDropped
<1> QED BY <1>1, <1>3, <1>5, <1>6 DEF skIInv, skTyped

\* A client moves within its session.
LEMMA SkSessionMoves ==
    ASSUME skIInv, UNCHANGED <<skManager, skOpenLn, skLoops>>, NEW c \in SkClients,
           NEW at \in SkPlaces \ {"out", "accepted"}, skMove(c, at),
           skOpen' \subseteq skOpen \cup {c}, skUp' \subseteq skUp \cup {c},
           c \in skOpen' => skSess[c].of \notin skShut,
           c \in skUp' => at = "pipe"
    PROVE  skIInv'
<1>1. PICK r : r = [skSess[c] EXCEPT !.at = at]
  OBVIOUS
<1>2. r \in [at : SkPlaces, of : 0..skMade] /\ r.at = at /\ r.of = skSess[c].of
  BY <1>1 DEF skIInv, skTyped, skSessOK
<1>3. skSess' = [skSess EXCEPT ![c] = r]
  BY <1>1 DEF skMove
<1> QED BY <1>2, <1>3, SkClientMoves

\* A connection that the accept loop holds is of a start that was made.
LEMMA socksAcceptStep ==
    ASSUME skIInv, NEW n \in 1..SkStarts, NEW c \in SkClients, socksAccept(c, n)
    PROVE  skIInv'
<1>1. PICK r : r = [at |-> "accepted", of |-> n]
  OBVIOUS
<1>2. r \in [at : SkPlaces, of : 0..skMade] /\ r.at = "accepted"
  BY <1>1 DEF socksAccept, skIInv, skTyped, skManagerOK, SkPlaces
<1>3. c \notin skOpen /\ c \notin skUp
  BY DEF socksAccept, skOut, skIInv, skTracked, SocksClientsDropped
<1> QED BY <1>1, <1>2, <1>3, SkClientMoves DEF socksAccept

\* A connection joins the set of its start unless the set is closed.
LEMMA connSetAddStep ==
    ASSUME skIInv, NEW c \in SkClients, connSetAdd(c)
    PROVE  skIInv'
<1>0. c \notin skOpen /\ c \notin skUp /\ skSess[c] \in [at : SkPlaces, of : 0..skMade]
  BY DEF connSetAdd, skIInv, skTyped, skSessOK, skTracked, SocksClientsDropped
<1>1. CASE tracks(skSess[c].of)
  BY <1>0, <1>1, SkSessionMoves DEF connSetAdd, tracks, skMove, SkPlaces
<1>2. CASE ~tracks(skSess[c].of)
  <2>1. skOut \in [at : SkPlaces, of : 0..skMade] /\ skOut.at = "out"
    BY DEF skOut, SkPlaces, skIInv, skTyped, skManagerOK
  <2> QED BY <1>0, <1>2, <2>1, SkClientMoves DEF connSetAdd
<1> QED BY <1>1, <1>2

\* A client that is served moves on, opens an upstream, and closes both sides.
LEMMA SkServingStep ==
    ASSUME skIInv, NEW c \in SkClients,
           greet(c) \/ readConnect(c) \/ tunnelWS(c) \/ directRelay(c) \/ bridgeTransparent(c)
    PROVE  skIInv'
<1>1. c \in skOpen => skSess[c].of \notin skShut
  BY DEF skIInv, SocksClientsDropped
<1>2. c \in skUp => skSess[c].at = "pipe"
  BY DEF skIInv, SocksClientsDropped
<1>3. CASE greet(c)
  BY <1>1, <1>2, <1>3, SkSessionMoves DEF greet, SkPlaces
<1>4. CASE readConnect(c)
  BY <1>1, <1>2, <1>4, SkSessionMoves DEF readConnect, SkPlaces
<1>5. CASE tunnelWS(c)
  BY <1>1, <1>2, <1>5, SkSessionMoves DEF tunnelWS, SkPlaces
<1>6. CASE directRelay(c)
  BY <1>1, <1>2, <1>6, SkSessionMoves DEF directRelay, SkPlaces
<1>7. CASE bridgeTransparent(c)
  BY <1>1, <1>7, SkSessionMoves DEF bridgeTransparent, pumpEnds, SkPlaces
<1> QED BY <1>3, <1>4, <1>5, <1>6, <1>7

\* The handler of a client closes its connection as it returns.
LEMMA socksHandledStep ==
    ASSUME skIInv, NEW c \in SkClients, socksHandled(c)
    PROVE  skIInv'
<1>1. skOut \in [at : SkPlaces, of : 0..skMade] /\ skOut.at = "out"
  BY DEF skOut, SkPlaces, skIInv, skTyped, skManagerOK
<1>2. c \notin skUp
  BY DEF socksHandled, skIInv, SocksClientsDropped
<1> QED BY <1>1, <1>2, SkClientMoves DEF socksHandled

\* The inductive invariant holds in every state of the SOCKS front.
THEOREM SocksInvariance == skSpec => []skIInv
<1>1. skIInv /\ [skNext]_skVars => skIInv'
  <2> SUFFICES ASSUME skIInv, [skNext]_skVars PROVE skIInv'
    OBVIOUS
  <2>1. CASE UNCHANGED skVars
    <3>1. UNCHANGED <<skManager, skOpenLn, skLoops, skSess, skOpen, skUp>>
      BY <2>1 DEF skVars, skManager
    <3>2. skOpOK' /\ skManagerOK' /\ skServed' /\ skStops' /\ skEnds'
      BY <3>1, SkManagerStays
    <3>3. skSessOK' /\ skTracked' /\ SocksClientsDropped'
      BY <2>1 DEF skVars, skIInv, skTyped, skSessOK, skTracked, SocksClientsDropped
    <3> QED BY <3>2, <3>3 DEF skIInv, skTyped
  <2>2. ASSUME NEW c \in SkCallers,
               \/ \E enabled \in BOOLEAN : SetConfig(c, enabled)
               \/ SocksStop(c) \/ SocksRestart(c) \/ SocksStart(c) \/ SocksMark(c) \/ SocksCancel(c)
               \/ SocksClose(c) \/ SocksDrop(c) \/ SocksWait(c)
        PROVE  skIInv'
    BY <2>2, SkRequestsStep, SocksStartStep, SocksMarkStep, SocksCancelStep, SocksCloseStep,
       SocksDropStep, SocksWaitStep
  <2>3. ASSUME NEW n \in 1..SkStarts, socksAcceptEnds(n) \/ \E c \in SkClients : socksAccept(c, n)
        PROVE  skIInv'
    BY <2>3, SocksAcceptEndsStep, socksAcceptStep
  <2>4. ASSUME NEW c \in SkClients,
               \/ connSetAdd(c) \/ greet(c) \/ readConnect(c) \/ tunnelWS(c) \/ directRelay(c)
               \/ bridgeTransparent(c) \/ socksHandled(c)
        PROVE  skIInv'
    BY <2>4, connSetAddStep, SkServingStep, socksHandledStep
  <2> QED BY <2>1, <2>2, <2>3, <2>4 DEF skNext
<1> QED BY <1>1, skInitIInv, PTL DEF skSpec

\* However the requests of the panel interleave, a stop ends the start it took and no other,
\* nothing is left over, and the clients of an ended start have no connection.
THEOREM SocksIsSafe == skSpec => []SocksSafe
<1>1. skIInv => SocksSafe
  BY DEF skIInv, skServed, skEnds, Ended, AtStep, NothingLeftOver, SocksSafe
<1> QED BY <1>1, SocksInvariance, PTL


(***************************************************************************)
(* TgProxy                                                                 *)
(***************************************************************************)
tpSpec == tpInit /\ [][tpNext]_tpVars

\* What may be left of an operation of the manager.
TpTodos == {<<>>, <<"start">>, StopSteps, RestartSteps,
            <<"cancel", "closeListener", "dropConns", "closeWorkers", "waitWorkers", "wait">>, <<"cancel", "closeListener", "dropConns", "closeWorkers", "waitWorkers", "wait", "start">>,
            <<"closeListener", "dropConns", "closeWorkers", "waitWorkers", "wait">>, <<"closeListener", "dropConns", "closeWorkers", "waitWorkers", "wait", "start">>,
            <<"dropConns", "closeWorkers", "waitWorkers", "wait">>, <<"dropConns", "closeWorkers", "waitWorkers", "wait", "start">>,
            <<"closeWorkers", "waitWorkers", "wait">>, <<"closeWorkers", "waitWorkers", "wait", "start">>,
            <<"waitWorkers", "wait">>, <<"waitWorkers", "wait", "start">>,
            <<"wait">>, <<"wait", "start">>}
TpPlaces == {"out", "hello", "auth", "worker", "h2", "cf", "tcp", "dial", "bridge", "half", "end"}
tpManagerOK ==
    /\ tpOp \in TpTodos /\ tpRunning \in BOOLEAN /\ tpDone \in BOOLEAN
    /\ tpLns \in 0..TpListeners /\ tpOps \in 0..TpOps
    /\ tpLn \in 0..tpLns /\ tpStopLn \in 0..tpLns
    /\ tpAcc \in [at : {"gone", "accept", "reopen", "reopened"}, ln : 0..tpLns]
tpClientOK ==
    /\ tpConns \in [set : SUBSET TpClients, closed : BOOLEAN]
    /\ tpSess \in [TpClients -> TpPlaces]
    /\ tpTcp \in [connecting : BOOLEAN, cooling : BOOLEAN]
tpWorkerOK == tpWorker \in [idle : BOOLEAN, refill : {"none", "dial", "late"}, closed : BOOLEAN]
tpTyped == tpManagerOK /\ tpClientOK /\ tpWorkerOK

\* Only the listener of the accept loop is open, and none between two of them.
tpListens ==
    /\ tpOpenLn \subseteq {tpAcc.ln}
    /\ tpAcc.at \in {"gone", "reopen"} => tpOpenLn = {}
    /\ tpAcc.at = "gone" => tpAcc = NoAccept

\* An open connection is in the set, one of the set is served, a closed set is
\* empty, and an upstream connection has a bridge.
tpTracked ==
    /\ tpOpen \subseteq tpConns.set
    /\ \A c \in tpConns.set : tpSess[c] # "out"
    /\ tpConns.closed => tpConns.set = {}
    /\ tpUp \subseteq {c \in TpClients : tpSess[c] = "bridge"}

\* One client at a time dials the TCP fallback.
tpDials == ConnectingOwned /\ \A c, d \in TpClients : tpSess[c] = "dial" /\ tpSess[d] = "dial" => c = d

\* Nothing of the proxy is left.
Quiet ==
    /\ tpDone /\ tpAcc = NoAccept /\ tpConns.closed /\ tpWorker.closed /\ tpWorker.refill = "none"
    /\ \A c \in TpClients : tpSess[c] = "out"

\* What the operation under way has ended before each of its steps.
Before(steps) == tpOp # <<>> /\ Head(tpOp) \in steps
tpPhases ==
    /\ ~tpRunning /\ (tpOp = <<>> \/ Before({"start", "mark"})) => Quiet
    /\ Before({"cancel", "closeListener", "dropConns", "closeWorkers", "waitWorkers", "wait"}) => ~tpRunning
    /\ Before({"closeListener", "dropConns", "closeWorkers", "waitWorkers", "wait"}) => tpDone
    /\ Before({"closeWorkers", "waitWorkers", "wait"}) => tpConns.closed
    /\ Before({"waitWorkers", "wait"}) => tpWorker.closed
    /\ Before({"wait"}) => tpWorker.refill = "none"
    /\ tpWorker.closed => ~tpWorker.idle

\* The inductive invariant.
tpIInv == tpTyped /\ tpListens /\ tpTracked /\ tpDials /\ tpPhases

\* What follows each step of an operation of the manager.
TpFollows(t) ==
    /\ Tail(t) \in TpTodos
    /\ Head(t) = "mark" => Tail(t) # <<>> /\ Head(Tail(t)) = "cancel"
    /\ Head(t) = "cancel" => Tail(t) # <<>> /\ Head(Tail(t)) = "closeListener"
    /\ Head(t) = "closeListener" => Tail(t) # <<>> /\ Head(Tail(t)) = "dropConns"
    /\ Head(t) = "dropConns" => Tail(t) # <<>> /\ Head(Tail(t)) = "closeWorkers"
    /\ Head(t) = "closeWorkers" => Tail(t) # <<>> /\ Head(Tail(t)) = "waitWorkers"
    /\ Head(t) = "waitWorkers" => Tail(t) # <<>> /\ Head(Tail(t)) = "wait"
    /\ Head(t) = "wait" => Tail(t) \in {<<>>, <<"start">>}
    /\ Head(t) = "start" => Tail(t) = <<>>

\* Every plan of a manager that has a step left goes on to a plan of the same kind.
LEMMA TpTodoSteps == \A t \in TpTodos : t # <<>> => TpFollows(t)
<1> SUFFICES ASSUME NEW t \in TpTodos, t # <<>> PROVE TpFollows(t)
  OBVIOUS
<1>1. CASE t = <<"start">>
  BY <1>1 DEF TpFollows, StopSteps, RestartSteps, TpTodos
<1>2. CASE t = StopSteps
  BY <1>2 DEF TpFollows, StopSteps, RestartSteps, TpTodos
<1>3. CASE t = RestartSteps
  BY <1>3 DEF TpFollows, StopSteps, RestartSteps, TpTodos
<1>4. CASE t = <<"cancel", "closeListener", "dropConns", "closeWorkers", "waitWorkers", "wait">>
  BY <1>4 DEF TpFollows, StopSteps, RestartSteps, TpTodos
<1>5. CASE t = <<"cancel", "closeListener", "dropConns", "closeWorkers", "waitWorkers", "wait", "start">>
  BY <1>5 DEF TpFollows, StopSteps, RestartSteps, TpTodos
<1>6. CASE t = <<"closeListener", "dropConns", "closeWorkers", "waitWorkers", "wait">>
  BY <1>6 DEF TpFollows, StopSteps, RestartSteps, TpTodos
<1>7. CASE t = <<"closeListener", "dropConns", "closeWorkers", "waitWorkers", "wait", "start">>
  BY <1>7 DEF TpFollows, StopSteps, RestartSteps, TpTodos
<1>8. CASE t = <<"dropConns", "closeWorkers", "waitWorkers", "wait">>
  BY <1>8 DEF TpFollows, StopSteps, RestartSteps, TpTodos
<1>9. CASE t = <<"dropConns", "closeWorkers", "waitWorkers", "wait", "start">>
  BY <1>9 DEF TpFollows, StopSteps, RestartSteps, TpTodos
<1>10. CASE t = <<"closeWorkers", "waitWorkers", "wait">>
  BY <1>10 DEF TpFollows, StopSteps, RestartSteps, TpTodos
<1>11. CASE t = <<"closeWorkers", "waitWorkers", "wait", "start">>
  BY <1>11 DEF TpFollows, StopSteps, RestartSteps, TpTodos
<1>12. CASE t = <<"waitWorkers", "wait">>
  BY <1>12 DEF TpFollows, StopSteps, RestartSteps, TpTodos
<1>13. CASE t = <<"waitWorkers", "wait", "start">>
  BY <1>13 DEF TpFollows, StopSteps, RestartSteps, TpTodos
<1>14. CASE t = <<"wait">>
  BY <1>14 DEF TpFollows, StopSteps, RestartSteps, TpTodos
<1>15. CASE t = <<"wait", "start">>
  BY <1>15 DEF TpFollows, StopSteps, RestartSteps, TpTodos
<1> QED BY <1>1, <1>2, <1>3, <1>4, <1>5, <1>6, <1>7, <1>8, <1>9, <1>10, <1>11, <1>12, <1>13, <1>14, <1>15 DEF TpTodos

\* The proxy starts with no listener, no client and no upstream.
LEMMA tpInitIInv == tpInit => tpIInv
<1> SUFFICES ASSUME tpInit PROVE tpIInv
  OBVIOUS
<1>1. tpManagerOK
  <2>1. tpLns \in 0..TpListeners /\ tpOps \in 0..TpOps
    BY tpAssumption DEF tpInit
  <2>2. tpLn \in 0..tpLns /\ tpStopLn \in 0..tpLns
    BY DEF tpInit
  <2>3. tpAcc \in [at : {"gone", "accept", "reopen", "reopened"}, ln : 0..tpLns]
    BY DEF tpInit, NoAccept
  <2>4. tpOp \in TpTodos /\ tpRunning \in BOOLEAN /\ tpDone \in BOOLEAN
    BY DEF tpInit, TpTodos
  <2> QED BY <2>1, <2>2, <2>3, <2>4 DEF tpManagerOK
<1>2. tpClientOK
  <2>1. tpConns \in [set : SUBSET TpClients, closed : BOOLEAN]
    BY DEF tpInit
  <2>2. tpTcp \in [connecting : BOOLEAN, cooling : BOOLEAN]
    BY DEF tpInit
  <2> QED BY <2>1, <2>2 DEF tpInit, tpClientOK, TpPlaces
<1>3. tpWorkerOK
  BY DEF tpInit, tpWorkerOK
<1>4. tpListens /\ tpTracked
  BY DEF tpInit, tpListens, tpTracked, NoAccept
<1>5. tpDials
  BY DEF tpInit, tpDials, ConnectingOwned
<1>6. tpPhases
  BY DEF tpInit, tpPhases, Before, Quiet
<1> QED BY <1>1, <1>2, <1>3, <1>4, <1>5, <1>6 DEF tpIInv, tpTyped

\* What a step of the accept loop, of a client or of the worker pool leaves alone.
LEMMA TpPhasesStay ==
    ASSUME tpIInv, UNCHANGED <<tpOp, tpRunning, tpDone>>, tpConns'.closed = tpConns.closed,
           tpWorker'.closed = tpWorker.closed, tpWorker.closed => ~tpWorker'.idle,
           tpWorker.refill = "none" /\ tpWorker.closed => tpWorker'.refill = "none",
           Quiet => Quiet'
    PROVE  tpPhases'
  BY DEF tpIInv, tpPhases, Before

\* A step of the accept loop that leaves the manager and the workers alone.
LEMMA TpAccepts ==
    ASSUME tpIInv, UNCHANGED <<tpOp, tpRunning, tpDone, tpStopLn, tpOps, tpClient, tpWorker>>,
           tpAcc.at # "gone", tpAcc' \in [at : {"gone", "accept", "reopen", "reopened"}, ln : 0..tpLns'],
           tpLns' \in tpLns..TpListeners, tpLn' \in 0..tpLns', tpListens'
    PROVE  tpIInv'
<1>1. tpManagerOK'
  <2>1. tpLns \in 0..TpListeners
    BY DEF tpIInv, tpTyped, tpManagerOK
  <2>2. 0..tpLns \subseteq 0..tpLns' /\ tpLns' \in 0..TpListeners
    BY <2>1, tpAssumption
  <2>3. tpStopLn' \in 0..tpLns'
    BY <2>2 DEF tpIInv, tpTyped, tpManagerOK
  <2> QED BY <2>2, <2>3 DEF tpIInv, tpTyped, tpManagerOK
<1>2. tpClientOK' /\ tpWorkerOK' /\ tpTracked' /\ tpDials'
  BY DEF tpClient, tpIInv, tpTyped, tpClientOK, tpWorkerOK, tpTracked, tpDials, ConnectingOwned
<1>3. ~Quiet
  BY DEF Quiet, NoAccept
<1>4. tpPhases'
  BY <1>3, TpPhasesStay DEF tpClient, tpIInv, tpPhases
<1> QED BY <1>1, <1>2, <1>4 DEF tpIInv, tpTyped

\* A step of one client leaves the others, the listener and the manager alone.
LEMMA TpClientMoves ==
    ASSUME tpIInv, UNCHANGED <<tpManager, tpOpenLn, tpAcc, tpLns>>,
           NEW c \in TpClients, NEW at \in TpPlaces, tpMove(c, at), tpSess[c] # "out",
           tpConns' \in [set : SUBSET tpConns.set, closed : {tpConns.closed}],
           at = "out" => c \notin tpConns'.set,
           tpOpen' \subseteq tpConns'.set, tpUp' \subseteq tpUp \cup {c}, c \in tpUp' => at = "bridge",
           tpWorkerOK', tpWorker.closed => tpWorker' = tpWorker, tpWorker'.closed = tpWorker.closed,
           tpTcp' \in [connecting : BOOLEAN, cooling : BOOLEAN],
           tpTcp'.connecting = (at = "dial" \/ (tpTcp.connecting /\ tpSess[c] # "dial")),
           at = "dial" => ~tpTcp.connecting
    PROVE  tpIInv'
<1>1. UNCHANGED <<tpOp, tpRunning, tpDone, tpLn, tpStopLn, tpOps>>
  BY DEF tpManager
<1>2. tpManagerOK' /\ tpListens'
  BY <1>1 DEF tpIInv, tpTyped, tpManagerOK, tpListens
<1>3. /\ tpSess'[c] = at /\ \A d \in TpClients \ {c} : tpSess'[d] = tpSess[d]
      /\ tpSess' \in [TpClients -> TpPlaces]
  BY DEF tpMove, tpIInv, tpTyped, tpClientOK
<1>4. tpClientOK'
  BY <1>3 DEF tpIInv, tpTyped, tpClientOK
<1>5. tpTracked'
  BY <1>3 DEF tpIInv, tpTyped, tpClientOK, tpTracked
<1>6. tpDials'
  BY <1>3, ZenonT(60) DEF tpIInv, tpTyped, tpClientOK, tpDials, ConnectingOwned
<1>7. ~Quiet
  BY DEF Quiet
<1>8. tpPhases'
  BY <1>1, <1>7, TpPhasesStay DEF tpIInv, tpPhases
<1> QED BY <1>2, <1>4, <1>5, <1>6, <1>8 DEF tpIInv, tpTyped


\* A step of the accept loop: a listener fails, is reopened, and is published unless the proxy ended.
LEMMA TpAcceptLoopStep ==
    ASSUME tpIInv, ListenerFails \/ acceptFails \/ reopen \/ publishListener
    PROVE  tpIInv'
<1>0. /\ tpLns \in 0..TpListeners /\ tpLn \in 0..tpLns /\ tpAcc.ln \in 0..tpLns
      /\ tpAcc \in [at : {"gone", "accept", "reopen", "reopened"}, ln : 0..tpLns]
      /\ NoAccept \in [at : {"gone", "accept", "reopen", "reopened"}, ln : 0..tpLns]
  BY tpAssumption DEF tpIInv, tpTyped, tpManagerOK, NoAccept
<1>1. CASE ListenerFails \/ acceptFails
  <2>1. /\ tpAcc.at = "accept" /\ tpLns' = tpLns /\ tpLn' = tpLn
        /\ UNCHANGED <<tpOp, tpRunning, tpDone, tpStopLn, tpOps, tpClient, tpWorker>>
    BY <1>1 DEF ListenerFails, acceptFails, tpManager
  <2>2. tpAcc' = NoAccept \/ tpAcc' = [tpAcc EXCEPT !.at = "reopen"]
    BY <1>1 DEF ListenerFails, acceptFails
  <2>3. tpAcc' \in [at : {"gone", "accept", "reopen", "reopened"}, ln : 0..tpLns]
    BY <1>0, <2>2
  <2>4. tpOpenLn' = {}
    BY <1>1 DEF ListenerFails, acceptFails, tpIInv, tpListens
  <2>5. tpListens'
    BY <1>0, <2>2, <2>4 DEF tpListens, NoAccept
  <2> QED BY <1>0, <2>1, <2>3, <2>5, TpAccepts
<1>2. CASE reopen
  <2>1. /\ tpAcc.at = "reopen" /\ tpLn' = tpLn
        /\ UNCHANGED <<tpOp, tpRunning, tpDone, tpStopLn, tpOps, tpClient, tpWorker>>
    BY <1>2 DEF reopen, tpManager
  <2>2. CASE tpAcc' = NoAccept /\ UNCHANGED <<tpOpenLn, tpLns>>
    <3>1. tpListens'
      BY <2>1, <2>2 DEF tpIInv, tpListens, NoAccept
    <3> QED BY <1>0, <2>1, <2>2, <3>1, TpAccepts
  <2>3. CASE /\ tpLns < TpListeners /\ tpLns' = tpLns + 1
             /\ tpOpenLn' = tpOpenLn \cup {tpLns'} /\ tpAcc' = [at |-> "reopened", ln |-> tpLns']
    <3>1. tpListens'
      BY <2>1, <2>3 DEF tpIInv, tpListens
    <3>2. tpLns' \in tpLns..TpListeners /\ tpLn' \in 0..tpLns' /\ tpLns' \in 0..tpLns'
      BY <1>0, <2>1, <2>3, tpAssumption
    <3>3. tpAcc' \in [at : {"gone", "accept", "reopen", "reopened"}, ln : 0..tpLns']
      BY <2>3, <3>2
    <3> QED BY <2>1, <3>1, <3>2, <3>3, TpAccepts
  <2> QED BY <1>2, <2>2, <2>3 DEF reopen
<1>3. CASE publishListener
  <2>1. /\ tpAcc.at = "reopened" /\ tpLns' = tpLns
        /\ UNCHANGED <<tpOp, tpRunning, tpDone, tpStopLn, tpOps, tpClient, tpWorker>>
    BY <1>3 DEF publishListener
  <2>2. CASE tpDone
    <3>1. tpAcc' = NoAccept /\ tpOpenLn' = {} /\ tpLn' = tpLn
      BY <1>3, <2>2 DEF publishListener, tpIInv, tpListens
    <3>2. tpListens'
      BY <3>1 DEF tpListens
    <3> QED BY <1>0, <2>1, <3>1, <3>2, TpAccepts
  <2>3. CASE ~tpDone
    <3>1. tpAcc' = [tpAcc EXCEPT !.at = "accept"] /\ tpOpenLn' = tpOpenLn /\ tpLn' = tpAcc.ln
      BY <1>3, <2>3 DEF publishListener
    <3>2. tpAcc' \in [at : {"gone", "accept", "reopen", "reopened"}, ln : 0..tpLns]
      BY <1>0, <3>1
    <3>3. tpListens'
      BY <1>0, <3>1 DEF tpIInv, tpListens
    <3> QED BY <1>0, <2>1, <3>1, <3>2, <3>3, TpAccepts
  <2> QED BY <2>2, <2>3
<1> QED BY <1>1, <1>2, <1>3

\* A client that the accept loop hands over is in the set, which is not closed.
LEMMA TpAcceptStep ==
    ASSUME tpIInv, NEW c \in TpClients, accept(c)
    PROVE  tpIInv'
<1>1. UNCHANGED <<tpOp, tpRunning, tpDone, tpLn, tpStopLn, tpOps, tpOpenLn, tpAcc, tpUp, tpTcp, tpWorker, tpLns>>
  BY DEF accept, tpManager
<1>2. ~Quiet
  BY DEF accept, Quiet, NoAccept
<1>3. tpManagerOK' /\ tpListens' /\ tpWorkerOK'
  BY <1>1 DEF tpIInv, tpTyped, tpManagerOK, tpListens, tpWorkerOK
<1>4. CASE ~admits
  <2>1. UNCHANGED <<tpConns, tpSess, tpOpen>>
    BY <1>4 DEF accept
  <2>2. tpClientOK' /\ tpTracked' /\ tpDials'
    BY <1>1, <2>1 DEF tpIInv, tpTyped, tpClientOK, tpTracked, tpDials, ConnectingOwned
  <2>3. tpPhases'
    BY <1>1, <1>2, <2>1, TpPhasesStay DEF tpIInv, tpPhases
  <2> QED BY <1>3, <2>2, <2>3 DEF tpIInv, tpTyped
<1>5. CASE admits
  <2>1. /\ tpConns' = [tpConns EXCEPT !.set = @ \cup {c}] /\ tpSess[c] = "out"
        /\ tpSess' = [tpSess EXCEPT ![c] = "hello"] /\ tpOpen' = tpOpen \cup {c}
    BY <1>5 DEF accept
  <2>2. /\ tpConns' \in [set : SUBSET TpClients, closed : BOOLEAN]
        /\ tpConns'.set = tpConns.set \cup {c} /\ tpConns'.closed = tpConns.closed /\ ~tpConns.closed
    BY <1>5, <2>1 DEF admits, tpIInv, tpTyped, tpClientOK
  <2>3. /\ tpSess'[c] = "hello" /\ \A d \in TpClients \ {c} : tpSess'[d] = tpSess[d]
        /\ tpSess' \in [TpClients -> TpPlaces]
    BY <2>1 DEF tpIInv, tpTyped, tpClientOK, TpPlaces
  <2>4. tpClientOK'
    BY <1>1, <2>2, <2>3 DEF tpIInv, tpTyped, tpClientOK
  <2>5. tpTracked'
    BY <1>1, <2>1, <2>2, <2>3 DEF tpIInv, tpTyped, tpClientOK, tpTracked
  <2>6. tpDials'
    BY <1>1, <2>1, <2>3 DEF tpIInv, tpTyped, tpClientOK, tpDials, ConnectingOwned
  <2>7. tpPhases'
    BY <1>1, <1>2, <2>2, TpPhasesStay DEF tpIInv, tpPhases
  <2> QED BY <1>3, <2>4, <2>5, <2>6, <2>7 DEF tpIInv, tpTyped
<1> QED BY <1>4, <1>5

\* What a client leaves as it is, in the form that TpClientMoves asks for.
LEMMA TpSame ==
    ASSUME tpIInv
    PROVE  /\ tpConns \in [set : SUBSET tpConns.set, closed : {tpConns.closed}]
           /\ tpTcp \in [connecting : BOOLEAN, cooling : BOOLEAN]
           /\ tpOpen \subseteq tpConns.set /\ tpWorkerOK
           /\ \A c \in TpClients : c \in tpUp => tpSess[c] = "bridge"
  BY DEF tpIInv, tpTyped, tpClientOK, tpTracked

\* A client goes from route to route, and has an upstream connection when one answers.
LEMMA TpRoutesStep ==
    ASSUME tpIInv, NEW c \in TpClients, NEW at \in TpPlaces \ {"dial", "out"}, tpMove(c, at),
           tpSess[c] \notin {"out", "dial"}, UNCHANGED <<tpManager, tpOpenLn, tpAcc, tpConns, tpTcp, tpLns>>,
           tpOpen' \subseteq tpOpen, tpUp' \subseteq tpUp \cup {c}, c \in tpUp' => at = "bridge",
           tpWorkerOK', tpWorker.closed => tpWorker' = tpWorker, tpWorker'.closed = tpWorker.closed
    PROVE  tpIInv'
<1>1. tpTcp'.connecting = (at = "dial" \/ (tpTcp.connecting /\ tpSess[c] # "dial"))
  BY TpSame
<1> QED BY <1>1, TpSame, TpClientMoves

\* The steps of a client between its handshake and its bridge.
LEMMA TpServingStep ==
    ASSUME tpIInv, NEW c \in TpClients,
           readInit(c) \/ serveAuthenticated(c) \/ cfMedia(c) \/ cfProxy(c) \/ bridge(c) \/ bridgeEnds(c)
    PROVE  tpIInv'
<1>0. tpWorkerOK /\ (c \in tpUp => tpSess[c] = "bridge")
  BY TpSame
<1> USE DEF TpPlaces
<1>1. CASE readInit(c)
  BY <1>0, <1>1, TpRoutesStep DEF readInit, tpWorkerOK
<1>2. CASE serveAuthenticated(c)
  BY <1>0, <1>2, TpRoutesStep DEF serveAuthenticated, tpWorkerOK
<1>3. CASE cfMedia(c)
  BY <1>0, <1>3, TpRoutesStep DEF cfMedia, tpWorkerOK
<1>4. CASE cfProxy(c)
  BY <1>0, <1>4, TpRoutesStep DEF cfProxy, tpWorkerOK
<1>5. CASE bridge(c)
  BY <1>0, <1>5, TpRoutesStep DEF bridge, bridgeStops, tpWorkerOK
<1>6. CASE bridgeEnds(c)
  BY <1>0, <1>6, TpRoutesStep DEF bridgeEnds, tpWorkerOK
<1> QED BY <1>1, <1>2, <1>3, <1>4, <1>5, <1>6

\* A warm worker socket is taken from a pool that is not closed.
LEMMA cfWorkerStep ==
    ASSUME tpIInv, NEW c \in TpClients, cfWorker(c)
    PROVE  tpIInv'
<1>0. tpWorkerOK /\ (c \in tpUp => tpSess[c] = "bridge")
  BY TpSame
<1>1. tpWorker' = tpWorker \/ (takesWarm /\ tpMove(c, "bridge"))
  BY DEF cfWorker
<1>2. tpWorkerOK' /\ (tpWorker.closed => tpWorker' = tpWorker) /\ tpWorker'.closed = tpWorker.closed
  <2>1. CASE tpWorker' = tpWorker
    BY <1>0, <2>1 DEF tpWorkerOK
  <2>2. CASE takesWarm
    BY <1>0, <2>2 DEF takesWarm, tpWorkerOK
  <2> QED BY <1>1, <2>1, <2>2
<1>3. PICK at \in {"bridge", "h2", "cf", "tcp"} : tpMove(c, at) /\ tpUp' \subseteq tpUp \cup {c} /\ (tpUp' = tpUp \/ at = "bridge")
  BY DEF cfWorker
<1> QED BY <1>0, <1>2, <1>3, TpRoutesStep DEF cfWorker, TpPlaces

\* The TCP fallback is dialled by one client at a time, and let go when it is done.
LEMMA TpDialStep ==
    ASSUME tpIInv, NEW c \in TpClients, tcpBegin(c) \/ tcpDialled(c)
    PROVE  tpIInv'
<1>0. tpWorkerOK /\ (c \in tpUp => tpSess[c] = "bridge") /\ tpTcp \in [connecting : BOOLEAN, cooling : BOOLEAN]
  BY TpSame
<1>1. CASE tcpBegin(c) /\ (tpDone \/ tpTcp.connecting \/ tpTcp.cooling)
  BY <1>0, <1>1, TpRoutesStep DEF tcpBegin, tpWorkerOK, TpPlaces
<1>2. CASE tcpBegin(c) /\ ~(tpDone \/ tpTcp.connecting \/ tpTcp.cooling)
  <2>1. tpTcp' \in [connecting : BOOLEAN, cooling : BOOLEAN] /\ tpTcp'.connecting = TRUE /\ tpMove(c, "dial")
    BY <1>0, <1>2 DEF tcpBegin
  <2> QED BY <1>0, <1>2, <2>1, TpSame, TpClientMoves DEF tcpBegin, tpWorkerOK, TpPlaces
<1>3. ASSUME NEW ok \in BOOLEAN, tcpDialled(c), tpTcp' = finish(ok),
             tpMove(c, IF ok THEN "bridge" ELSE "end"), tpUp' = IF ok THEN tpUp \cup {c} ELSE tpUp
      PROVE  tpIInv'
  <2>1. tpTcp' \in [connecting : BOOLEAN, cooling : BOOLEAN] /\ tpTcp'.connecting = FALSE
    BY <1>0, <1>3 DEF finish
  <2> DEFINE at == IF ok THEN "bridge" ELSE "end"
  <2>2. at \in TpPlaces /\ at # "dial" /\ at # "out" /\ (at = "bridge" <=> ok) /\ tpMove(c, at)
    BY <1>3 DEF TpPlaces
  <2>3. tpUp' \subseteq tpUp \cup {c} /\ (c \in tpUp' => at = "bridge")
    BY <1>0, <1>3 DEF tcpDialled
  <2>4. tpSess[c] = "dial" /\ UNCHANGED <<tpManager, tpOpenLn, tpAcc, tpConns, tpOpen, tpWorker, tpLns>>
    BY <1>3 DEF tcpDialled
  <2> HIDE DEF at
  <2> QED BY <1>0, <2>1, <2>2, <2>3, <2>4, TpSame, TpClientMoves DEF tpWorkerOK
<1> QED BY <1>1, <1>2, <1>3 DEF tcpDialled

\* A handler that ends takes its client out of the set.
LEMMA handlerEndsStep ==
    ASSUME tpIInv, NEW c \in TpClients, handlerEnds(c)
    PROVE  tpIInv'
<1>1. /\ tpConns' \in [set : SUBSET tpConns.set, closed : {tpConns.closed}]
      /\ tpConns'.set = tpConns.set \ {c}
  BY DEF handlerEnds, tpIInv, tpTyped, tpClientOK
<1>2. tpTcp'.connecting = ("out" = "dial" \/ (tpTcp.connecting /\ tpSess[c] # "dial"))
  BY TpSame DEF handlerEnds
<1> QED BY <1>1, <1>2, TpSame, TpClientMoves DEF handlerEnds, tpWorkerOK, TpPlaces

\* The back-off of the direct connection ends.
LEMMA tcpCooledStep ==
    ASSUME tpIInv, tcpCooled
    PROVE  tpIInv'
<1>1. UNCHANGED <<tpOp, tpRunning, tpDone, tpLn, tpStopLn, tpOps, tpOpenLn, tpAcc, tpConns, tpSess, tpOpen, tpUp, tpWorker, tpLns>>
  BY DEF tcpCooled, tpManager
<1>2. tpTcp' \in [connecting : BOOLEAN, cooling : BOOLEAN] /\ tpTcp'.connecting = tpTcp.connecting
  BY DEF tcpCooled, tpIInv, tpTyped, tpClientOK
<1>3. tpTyped' /\ tpListens' /\ tpTracked' /\ tpDials'
  BY <1>1, <1>2 DEF tpIInv, tpTyped, tpManagerOK, tpClientOK, tpWorkerOK, tpListens, tpTracked, tpDials, ConnectingOwned
<1>4. tpPhases'
  BY <1>1, TpPhasesStay DEF tpIInv, tpPhases, Quiet
<1> QED BY <1>3, <1>4 DEF tpIInv

\* A late worker socket is kept only by a pool that is not closed.
LEMMA TpWorkersStep ==
    ASSUME tpIInv, workerDialled \/ workerRefilled
    PROVE  tpIInv'
<1>1. UNCHANGED <<tpOp, tpRunning, tpDone, tpLn, tpStopLn, tpOps, tpOpenLn, tpAcc, tpConns, tpSess, tpOpen, tpUp, tpTcp, tpLns>>
  BY DEF workerDialled, workerRefilled, tpManager, tpClient
<1>2. /\ tpWorkerOK' /\ tpWorker'.closed = tpWorker.closed /\ (tpWorker'.idle => tpWorker.idle \/ ~tpWorker.closed)
      /\ tpWorker.refill # "none"
  BY DEF workerDialled, workerRefilled, workerKept, tpIInv, tpTyped, tpWorkerOK
<1>3. tpTyped' /\ tpListens' /\ tpTracked' /\ tpDials'
  BY <1>1, <1>2 DEF tpIInv, tpTyped, tpManagerOK, tpClientOK, tpListens, tpTracked, tpDials, ConnectingOwned
<1>4. tpPhases'
  BY <1>1, <1>2, TpPhasesStay DEF tpIInv, tpPhases, Quiet
<1> QED BY <1>3, <1>4 DEF tpIInv


\* The context ends before the listener is closed.
LEMMA stopCancelStep ==
    ASSUME tpIInv, stopCancel
    PROVE  tpIInv'
<1>1. tpOp \in TpTodos /\ tpOp # <<>> /\ Head(tpOp) = "cancel" /\ tpOp' = Tail(tpOp) /\ TpFollows(tpOp)
  BY TpTodoSteps DEF stopCancel, tpStep, tpIInv, tpTyped, tpManagerOK
<1>2. tpOp' # <<>> /\ Head(tpOp') = "closeListener"
  BY <1>1 DEF TpFollows, Before
<1>3. tpTyped'
  BY <1>1 DEF stopCancel, TpFollows, tpClient, tpIInv, tpTyped, tpManagerOK, tpClientOK, tpWorkerOK
<1>4. tpListens' /\ tpTracked'
  BY DEF stopCancel, tpClient, tpIInv, tpTyped, tpClientOK, tpListens, tpTracked, NoAccept
<1>5. tpDials'
  BY DEF stopCancel, tpClient, tpIInv, tpDials, ConnectingOwned
<1>6. tpPhases'
  BY <1>1, <1>2 DEF stopCancel, tpClient, tpIInv, tpTyped, tpClientOK, tpWorkerOK, tpPhases, Before, Quiet
<1> QED BY <1>3, <1>4, <1>5, <1>6 DEF tpIInv


\* The listener that the stop took is closed.
LEMMA stopCloseListenerStep ==
    ASSUME tpIInv, stopCloseListener
    PROVE  tpIInv'
<1>1. tpOp \in TpTodos /\ tpOp # <<>> /\ Head(tpOp) = "closeListener" /\ tpOp' = Tail(tpOp) /\ TpFollows(tpOp)
  BY TpTodoSteps DEF stopCloseListener, tpStep, tpIInv, tpTyped, tpManagerOK
<1>2. tpOp' # <<>> /\ Head(tpOp') = "dropConns"
  BY <1>1 DEF TpFollows, Before
<1>3. tpTyped'
  BY <1>1 DEF stopCloseListener, TpFollows, tpClient, tpIInv, tpTyped, tpManagerOK, tpClientOK, tpWorkerOK
<1>4. tpListens' /\ tpTracked'
  BY DEF stopCloseListener, tpClient, tpIInv, tpTyped, tpClientOK, tpListens, tpTracked, NoAccept
<1>5. tpDials'
  BY DEF stopCloseListener, tpClient, tpIInv, tpDials, ConnectingOwned
<1>6. tpPhases'
  BY <1>1, <1>2 DEF stopCloseListener, tpClient, tpIInv, tpTyped, tpClientOK, tpWorkerOK, tpPhases, Before, Quiet
<1> QED BY <1>3, <1>4, <1>5, <1>6 DEF tpIInv


\* The set of connections is closed, and those in it.
LEMMA closeAllStep ==
    ASSUME tpIInv, closeAll
    PROVE  tpIInv'
<1>1. tpOp \in TpTodos /\ tpOp # <<>> /\ Head(tpOp) = "dropConns" /\ tpOp' = Tail(tpOp) /\ TpFollows(tpOp)
  BY TpTodoSteps DEF closeAll, tpStep, tpIInv, tpTyped, tpManagerOK
<1>2. tpOp' # <<>> /\ Head(tpOp') = "closeWorkers"
  BY <1>1 DEF TpFollows, Before
<1>3. tpTyped'
  BY <1>1 DEF closeAll, TpFollows, tpClient, tpIInv, tpTyped, tpManagerOK, tpClientOK, tpWorkerOK
<1>4. tpListens' /\ tpTracked'
  BY DEF closeAll, tpClient, tpIInv, tpTyped, tpClientOK, tpListens, tpTracked, NoAccept
<1>5. tpDials'
  BY DEF closeAll, tpClient, tpIInv, tpDials, ConnectingOwned
<1>6. tpPhases'
  BY <1>1, <1>2 DEF closeAll, tpClient, tpIInv, tpTyped, tpClientOK, tpWorkerOK, tpPhases, Before, Quiet
<1> QED BY <1>3, <1>4, <1>5, <1>6 DEF tpIInv


\* The pool of workers is closed, and what is idle in it.
LEMMA closeWorkersStep ==
    ASSUME tpIInv, closeWorkers
    PROVE  tpIInv'
<1>1. tpOp \in TpTodos /\ tpOp # <<>> /\ Head(tpOp) = "closeWorkers" /\ tpOp' = Tail(tpOp) /\ TpFollows(tpOp)
  BY TpTodoSteps DEF closeWorkers, tpStep, tpIInv, tpTyped, tpManagerOK
<1>2. tpOp' # <<>> /\ Head(tpOp') = "waitWorkers"
  BY <1>1 DEF TpFollows, Before
<1>3. tpTyped'
  BY <1>1 DEF closeWorkers, TpFollows, tpClient, tpIInv, tpTyped, tpManagerOK, tpClientOK, tpWorkerOK
<1>4. tpListens' /\ tpTracked'
  BY DEF closeWorkers, tpClient, tpIInv, tpTyped, tpClientOK, tpListens, tpTracked, NoAccept
<1>5. tpDials'
  BY DEF closeWorkers, tpClient, tpIInv, tpDials, ConnectingOwned
<1>6. tpPhases'
  BY <1>1, <1>2 DEF closeWorkers, tpClient, tpIInv, tpTyped, tpClientOK, tpWorkerOK, tpPhases, Before, Quiet
<1> QED BY <1>3, <1>4, <1>5, <1>6 DEF tpIInv


\* The late dials of the pool are waited for.
LEMMA waitWorkersStep ==
    ASSUME tpIInv, waitWorkers
    PROVE  tpIInv'
<1>1. tpOp \in TpTodos /\ tpOp # <<>> /\ Head(tpOp) = "waitWorkers" /\ tpOp' = Tail(tpOp) /\ TpFollows(tpOp)
  BY TpTodoSteps DEF waitWorkers, tpStep, tpIInv, tpTyped, tpManagerOK
<1>2. tpOp' # <<>> /\ Head(tpOp') = "wait"
  BY <1>1 DEF TpFollows, Before
<1>3. tpTyped'
  BY <1>1 DEF waitWorkers, TpFollows, tpClient, tpIInv, tpTyped, tpManagerOK, tpClientOK, tpWorkerOK
<1>4. tpListens' /\ tpTracked'
  BY DEF waitWorkers, tpClient, tpIInv, tpTyped, tpClientOK, tpListens, tpTracked, NoAccept
<1>5. tpDials'
  BY DEF waitWorkers, tpClient, tpIInv, tpDials, ConnectingOwned
<1>6. tpPhases'
  BY <1>1, <1>2 DEF waitWorkers, tpClient, tpIInv, tpTyped, tpClientOK, tpWorkerOK, tpPhases, Before, Quiet, WorkersGone
<1> QED BY <1>3, <1>4, <1>5, <1>6 DEF tpIInv


\* The accept loop and the clients are waited for.
LEMMA stopWaitStep ==
    ASSUME tpIInv, stopWait
    PROVE  tpIInv'
<1>1. tpOp \in TpTodos /\ tpOp # <<>> /\ Head(tpOp) = "wait" /\ tpOp' = Tail(tpOp) /\ TpFollows(tpOp)
  BY TpTodoSteps DEF stopWait, tpStep, tpIInv, tpTyped, tpManagerOK
<1>2. tpOp' = <<>> \/ (tpOp' # <<>> /\ Head(tpOp') = "start")
  <2>1. Head(<<"start">>) = "start"
    OBVIOUS
  <2> QED BY <1>1, <2>1 DEF TpFollows
<1>3. tpTyped'
  BY <1>1 DEF stopWait, TpFollows, tpClient, tpIInv, tpTyped, tpManagerOK, tpClientOK, tpWorkerOK
<1>4. tpListens' /\ tpTracked'
  BY DEF stopWait, tpClient, tpIInv, tpTyped, tpClientOK, tpListens, tpTracked, NoAccept
<1>5. tpDials'
  BY DEF stopWait, tpClient, tpIInv, tpDials, ConnectingOwned
<1>6. tpPhases'
  BY <1>1, <1>2 DEF stopWait, tpClient, tpIInv, tpTyped, tpClientOK, tpWorkerOK, tpPhases, Before, Quiet, NoAccept, tpListens
<1> QED BY <1>3, <1>4, <1>5, <1>6 DEF tpIInv


\* A step that only plans an operation, or finds that there is nothing to do.
LEMMA TpPlans ==
    ASSUME tpIInv, tpOp' \in TpTodos, tpOp' = <<>> \/ Head(tpOp') \in {"start", "mark"},
           tpOp = <<>> \/ Head(tpOp) \in {"start", "mark"}, tpOps' \in 0..TpOps,
           UNCHANGED <<tpRunning, tpDone, tpLn, tpStopLn, tpOpenLn, tpAcc, tpClient, tpWorker, tpLns>>
    PROVE  tpIInv'
<1>1. tpTyped'
  BY DEF tpClient, tpIInv, tpTyped, tpManagerOK, tpClientOK, tpWorkerOK
<1>2. tpListens' /\ tpTracked' /\ tpDials'
  BY DEF tpClient, tpIInv, tpListens, tpTracked, tpDials, ConnectingOwned
<1>3. tpPhases'
  BY DEF tpClient, tpIInv, tpPhases, Before, Quiet
<1> QED BY <1>1, <1>2, <1>3 DEF tpIInv

\* A request of the panel plans the steps of a stop, a start or both.
LEMMA OperateStep ==
    ASSUME tpIInv, Operate
    PROVE  tpIInv'
<1>1. tpOp = <<>> /\ tpOps' \in 0..TpOps
  BY tpAssumption DEF Operate, tpBegin, tpIInv, tpTyped, tpManagerOK
<1>2. /\ StopSteps \in TpTodos /\ Head(StopSteps) = "mark"
      /\ RestartSteps \in TpTodos /\ Head(RestartSteps) = "mark"
  BY DEF StopSteps, RestartSteps, TpTodos
<1>3. <<"start">> \in TpTodos /\ Head(<<"start">>) = "start"
  BY DEF TpTodos
<1>4. tpOp' \in {<<"start">>, StopSteps, RestartSteps}
  BY DEF Operate, tpBegin
<1> QED BY <1>1, <1>2, <1>3, <1>4, TpPlans DEF Operate, tpBegin

\* A stop of what runs takes its listener; one of what does not run has nothing to end.
LEMMA stopMarkStep ==
    ASSUME tpIInv, stopMark
    PROVE  tpIInv'
<1>1. tpOp \in TpTodos /\ tpOp # <<>> /\ Head(tpOp) = "mark" /\ TpFollows(tpOp)
  BY TpTodoSteps DEF stopMark, tpIInv, tpTyped, tpManagerOK
<1>2. CASE ~tpRunning
  <2>1. tpOp' = tpStarting /\ tpStarting \in {<<>>, <<"start">>}
    BY <1>2 DEF stopMark, tpStarting
  <2>2. <<>> \in TpTodos /\ <<"start">> \in TpTodos /\ Head(<<"start">>) = "start"
    BY DEF TpTodos
  <2>3. UNCHANGED <<tpRunning, tpDone, tpLn, tpStopLn, tpOpenLn, tpAcc, tpClient, tpWorker, tpLns, tpOps>>
    BY <1>2 DEF stopMark
  <2>4. tpOps' \in 0..TpOps
    BY <2>3 DEF tpIInv, tpTyped, tpManagerOK
  <2> QED BY <1>1, <2>1, <2>2, <2>3, <2>4, TpPlans
<1>3. CASE tpRunning
  <2>1. /\ tpOp' = Tail(tpOp) /\ tpRunning' = FALSE /\ tpStopLn' = tpLn /\ tpLn' = 0
        /\ UNCHANGED <<tpDone, tpOpenLn, tpAcc, tpClient, tpWorker, tpLns, tpOps>>
    BY <1>3 DEF stopMark
  <2>2. tpOp' \in TpTodos /\ tpOp' # <<>> /\ Head(tpOp') = "cancel"
    BY <1>1, <2>1 DEF TpFollows
  <2>3. tpRunning' \in BOOLEAN
    BY <2>1
  <2>4. tpLn' \in 0..tpLns
    BY <2>1 DEF tpIInv, tpTyped, tpManagerOK
  <2>5. tpTyped'
    BY <2>1, <2>2, <2>3, <2>4 DEF tpClient, tpIInv, tpTyped, tpManagerOK, tpClientOK, tpWorkerOK
  <2>6. tpListens' /\ tpTracked' /\ tpDials'
    BY <2>1 DEF tpClient, tpIInv, tpListens, tpTracked, tpDials, ConnectingOwned
  <2>7. tpPhases'
    BY <2>1, <2>2 DEF tpIInv, tpPhases, Before
  <2> QED BY <2>5, <2>6, <2>7 DEF tpIInv
<1> QED BY <1>2, <1>3 DEF tpIInv, tpTyped, tpManagerOK

\* A start begins where nothing of an earlier one is left.
LEMMA startStep ==
    ASSUME tpIInv, start
    PROVE  tpIInv'
<1>1. /\ tpOp \in TpTodos /\ tpOp # <<>> /\ Head(tpOp) = "start" /\ tpOp' = Tail(tpOp) /\ tpOp' = <<>>
      /\ <<>> \in TpTodos /\ UNCHANGED <<tpStopLn, tpSess, tpOpen, tpUp, tpOps>>
  BY TpTodoSteps DEF start, tpStep, TpFollows, tpIInv, tpTyped, tpManagerOK, TpTodos
<1>2. CASE UNCHANGED <<tpRunning, tpDone, tpLn, tpOpenLn, tpAcc, tpConns, tpTcp, tpWorker, tpLns>>
  BY <1>1, <1>2, TpPlans DEF tpClient, tpIInv, tpTyped, tpManagerOK
<1>3. CASE /\ ~tpRunning /\ tpLns < TpListeners
           /\ tpLns' = tpLns + 1 /\ tpLn' = tpLns' /\ tpOpenLn' = {tpLns'}
           /\ tpAcc' = [at |-> "accept", ln |-> tpLns'] /\ tpRunning' = TRUE /\ tpDone' = FALSE
           /\ tpConns' = [set |-> {}, closed |-> FALSE]
           /\ tpTcp' = [connecting |-> FALSE, cooling |-> FALSE]
           /\ tpWorker' = [idle |-> FALSE, refill |-> "dial", closed |-> FALSE]
  <2>1. Quiet
    BY <1>1, <1>3 DEF tpIInv, tpPhases, Before
  <2>2. tpOpen = {} /\ tpUp = {}
    BY <2>1 DEF tpIInv, tpTracked, Quiet
  <2>3. tpLns \in 0..TpListeners /\ tpLns' \in 0..TpListeners /\ 0..tpLns \subseteq 0..tpLns' /\ tpLns' \in 0..tpLns'
    BY <1>3, tpAssumption DEF tpIInv, tpTyped, tpManagerOK
  <2>4. tpManagerOK'
    <3>1. tpAcc' \in [at : {"gone", "accept", "reopen", "reopened"}, ln : 0..tpLns']
      BY <1>3, <2>3
    <3>2. tpRunning' \in BOOLEAN /\ tpDone' \in BOOLEAN
      BY <1>3
    <3>3. tpLn' \in 0..tpLns' /\ tpStopLn' \in 0..tpLns'
      BY <1>1, <1>3, <2>3 DEF tpIInv, tpTyped, tpManagerOK
    <3> QED BY <1>1, <2>3, <3>1, <3>2, <3>3 DEF tpIInv, tpTyped, tpManagerOK
  <2>5. tpClientOK'
    <3>1. tpConns' \in [set : SUBSET TpClients, closed : BOOLEAN]
      BY <1>3
    <3>2. tpTcp' \in [connecting : BOOLEAN, cooling : BOOLEAN]
      BY <1>3
    <3> QED BY <1>1, <3>1, <3>2 DEF tpIInv, tpTyped, tpClientOK
  <2>6. tpWorkerOK' /\ ~tpWorker'.closed
    BY <1>3 DEF tpWorkerOK
  <2>7. tpListens'
    BY <1>3 DEF tpListens
  <2>8. tpTracked'
    BY <1>1, <1>3, <2>2 DEF tpTracked
  <2>9. tpDials'
    BY <1>1, <1>3, <2>1 DEF tpDials, ConnectingOwned, Quiet
  <2>10. tpPhases'
    BY <1>1, <1>3, <2>6 DEF tpPhases, Before
  <2> QED BY <2>4, <2>5, <2>6, <2>7, <2>8, <2>9, <2>10 DEF tpIInv, tpTyped
<1> QED BY <1>2, <1>3 DEF start

\* The inductive invariant holds in every state of the proxy.
THEOREM ProxyInvariance == tpSpec => []tpIInv
<1>1. tpIInv /\ [tpNext]_tpVars => tpIInv'
  <2> SUFFICES ASSUME tpIInv, [tpNext]_tpVars PROVE tpIInv'
    OBVIOUS
  <2>1. CASE UNCHANGED tpVars
    <3>1. tpTyped' /\ tpListens' /\ tpTracked'
      BY <2>1 DEF tpVars, tpIInv, tpTyped, tpManagerOK, tpClientOK, tpWorkerOK, tpListens, tpTracked
    <3>2. tpDials' /\ tpPhases'
      BY <2>1 DEF tpVars, tpIInv, tpDials, ConnectingOwned, tpPhases, Before, Quiet
    <3> QED BY <3>1, <3>2 DEF tpIInv
  <2>2. CASE \/ Operate \/ start \/ stopMark \/ stopCancel \/ stopCloseListener \/ closeAll
             \/ closeWorkers \/ waitWorkers \/ stopWait
    BY <2>2, OperateStep, startStep, stopMarkStep, stopCancelStep, stopCloseListenerStep, closeAllStep,
       closeWorkersStep, waitWorkersStep, stopWaitStep
  <2>3. CASE \/ ListenerFails \/ acceptFails \/ reopen \/ publishListener
             \/ tcpCooled \/ workerDialled \/ workerRefilled
    BY <2>3, TpAcceptLoopStep, tcpCooledStep, TpWorkersStep
  <2>4. ASSUME NEW c \in TpClients,
               \/ accept(c) \/ readInit(c) \/ serveAuthenticated(c) \/ cfWorker(c)
               \/ cfMedia(c) \/ cfProxy(c) \/ tcpBegin(c) \/ tcpDialled(c)
               \/ bridge(c) \/ bridgeEnds(c) \/ handlerEnds(c)
        PROVE  tpIInv'
    BY <2>4, TpAcceptStep, TpServingStep, cfWorkerStep, TpDialStep, handlerEndsStep
  <2> QED BY <2>1, <2>2, <2>3, <2>4 DEF tpNext
<1> QED BY <1>1, tpInitIInv, PTL DEF tpSpec

\* A stop that has returned leaves no listener, client, upstream, warm or late socket behind,
\* whatever was being accepted, dialled or reopened meanwhile.
THEOREM ProxyIsSafe == tpSpec => []ProxySafe
<1>1. tpIInv => ProxySafe
  <2> SUFFICES ASSUME tpIInv PROVE ProxySafe
    OBVIOUS
  <2>1. ProxyStopped
    BY DEF tpIInv, tpListens, tpTracked, tpPhases, Quiet, ProxyStopped, NoAccept
  <2>2. ClientsDropped
    BY DEF tpIInv, tpTracked, ClientsDropped
  <2> QED BY <2>1, <2>2 DEF tpIInv, tpDials, ProxySafe
<1> QED BY <1>1, ProxyInvariance, PTL


(***************************************************************************)
(* WsPool                                                                  *)
(***************************************************************************)
wpSpec == wpInit /\ [][wpNext]_wpVars

WpRefills == [at : {"none", "start", "dial", "exit"}, todo : Nat, got : Nat, ready : SUBSET WpSocks]
WpRotates == [at : {"idle", "next", "probe", "stopped"}, rest : Seq(WpSocks), ws : WpSocks \cup {0}]
wpRefillOK == wpRefill \in WpRefills /\ IsFiniteSet(wpRefill.ready)
wpTyped ==
    /\ wpIdle \in Seq(WpSocks) /\ wpCheck \in WpSocks \cup {0} /\ wpRefillOK /\ wpRotate \in WpRotates
    /\ wpReset \in BOOLEAN /\ wpRefilling \in BOOLEAN /\ wpWaiting \in BOOLEAN /\ wpDone \in BOOLEAN
    /\ wpLent \subseteq WpSocks /\ wpOpen \subseteq WpSocks /\ wpUsed \subseteq WpSocks

Once(s) == \A i, j \in 1..Len(s) : s[i] = s[j] => i = j

\* A socket is in the bucket, with a client or with the refill, and once.
wpApart ==
    /\ Once(wpIdle)
    /\ ToSet(wpIdle) \cap wpLent = {} /\ ToSet(wpIdle) \cap wpRefill.ready = {}
    /\ wpLent \cap wpRefill.ready = {}
    /\ wpOpen = ToSet(wpIdle) \cup wpLent \cup wpRefill.ready
    /\ wpOpen \subseteq wpUsed

\* The socket under probe is in the bucket until the pool is reset.
wpProbes ==
    /\ wpCheck # 0 => wpRotate.at = "probe" /\ wpRotate.ws = wpCheck /\ wpCheck \in ToSet(wpIdle)
    /\ wpRotate.at = "probe" => /\ wpRotate.ws \in wpUsed \ (wpLent \cup wpRefill.ready)
                                /\ wpCheck = wpRotate.ws \/ wpReset
    /\ wpWaiting => wpCheck # 0

\* A refill dials no more than is missing, and a pool that was reset has ended.
wpFits ==
    /\ Len(wpIdle) + wpRefill.todo + Cardinality(wpRefill.ready) <= WpTarget
    /\ wpRefill.at # "dial" => wpRefill.todo = 0 /\ wpRefill.ready = {}
    /\ wpRefill.at \in {"start", "dial"} /\ ~wpReset => wpRefilling
    /\ wpReset => wpDone /\ wpIdle = <<>>

\* The inductive invariant.
wpIInv == wpTyped /\ wpApart /\ wpProbes /\ wpFits

\* What the sequences of sockets hold.
LEMMA InBucket ==
    ASSUME NEW s \in Seq(WpSocks)
    PROVE  ToSet(s) = {s[i] : i \in 1..Len(s)} /\ ToSet(s) \subseteq WpSocks /\ Len(s) \in Nat
  BY DEF ToSet

\* The positions of a sequence put together from two.
LEMMA Joined ==
    ASSUME NEW a \in Seq(WpSocks), NEW b \in Seq(WpSocks), NEW t, t = a \o b
    PROVE  /\ t \in Seq(WpSocks) /\ Len(t) = Len(a) + Len(b)
           /\ \A i \in 1..Len(a) : t[i] = a[i]
           /\ \A i \in 1..Len(b) : t[Len(a) + i] = b[i]
           /\ ToSet(t) = ToSet(a) \cup ToSet(b)
<1>0. Len(a) \in Nat /\ Len(b) \in Nat
  OBVIOUS
<1>1. /\ t \in Seq(WpSocks) /\ Len(t) = Len(a) + Len(b)
      /\ \A i \in 1..(Len(a) + Len(b)) : t[i] = IF i <= Len(a) THEN a[i] ELSE b[i - Len(a)]
  BY ConcatProperties
<1>2. \A i \in 1..Len(a) : i \in 1..Len(t) /\ t[i] = a[i]
  BY <1>0, <1>1
<1>3. ASSUME NEW i \in 1..Len(b) PROVE Len(a) + i \in 1..Len(t) /\ t[Len(a) + i] = b[i]
  <2>1. Len(a) + i \in 1..(Len(a) + Len(b)) /\ ~(Len(a) + i <= Len(a)) /\ (Len(a) + i) - Len(a) = i
    BY <1>0
  <2> QED BY <1>1, <2>1
<1>4. \A i \in 1..Len(t) : t[i] \in ToSet(a) \cup ToSet(b)
  <2>1. ASSUME NEW i \in 1..Len(t) PROVE t[i] \in ToSet(a) \cup ToSet(b)
    <3>1. CASE i <= Len(a)
      BY <1>0, <1>1, <3>1, InBucket
    <3>2. CASE ~(i <= Len(a))
      <4>1. i - Len(a) \in 1..Len(b) /\ t[i] = b[i - Len(a)]
        BY <1>0, <1>1, <3>2
      <4> QED BY <4>1, InBucket
    <3> QED BY <3>1, <3>2
  <2> QED BY <2>1
<1>s. /\ ToSet(a) = {a[i] : i \in 1..Len(a)} /\ ToSet(b) = {b[i] : i \in 1..Len(b)}
      /\ ToSet(t) = {t[i] : i \in 1..Len(t)}
  BY <1>1, InBucket
<1>5. ToSet(a) \subseteq ToSet(t)
  BY <1>2, <1>s
<1>6. ToSet(b) \subseteq ToSet(t)
  BY <1>3, <1>s
<1>7. ToSet(t) \subseteq ToSet(a) \cup ToSet(b)
  BY <1>4, <1>s
<1> QED BY <1>1, <1>2, <1>3, <1>5, <1>6, <1>7

\* Two buckets with no socket in common hold theirs once, put together.
LEMMA JoinedOnce ==
    ASSUME NEW a \in Seq(WpSocks), NEW b \in Seq(WpSocks), NEW t, t = a \o b, Once(a), Once(b),
           ToSet(a) \cap ToSet(b) = {}
    PROVE  Once(t)
<1>0. Len(a) \in Nat /\ Len(b) \in Nat
  OBVIOUS
<1>1. /\ Len(t) = Len(a) + Len(b) /\ \A i \in 1..Len(a) : t[i] = a[i]
      /\ \A i \in 1..Len(b) : t[Len(a) + i] = b[i]
  BY Joined
<1>2. \A i \in 1..Len(t) :
         \/ i \in 1..Len(a) /\ t[i] = a[i] /\ t[i] \in ToSet(a)
         \/ i - Len(a) \in 1..Len(b) /\ t[i] = b[i - Len(a)] /\ t[i] \in ToSet(b)
  <2>1. ASSUME NEW i \in 1..Len(t), ~(i <= Len(a)) PROVE i - Len(a) \in 1..Len(b) /\ Len(a) + (i - Len(a)) = i
    BY <1>0, <1>1, <2>1
  <2>2. \A i \in 1..Len(t) : i <= Len(a) => i \in 1..Len(a)
    BY <1>0, <1>1
  <2> QED BY <1>1, <2>1, <2>2, InBucket
<1>3. ASSUME NEW i \in 1..Len(t), NEW j \in 1..Len(t), t[i] = t[j] PROVE i = j
  <2>1. CASE i \in 1..Len(a) /\ j \in 1..Len(a)
    BY <1>1, <1>3, <2>1 DEF Once
  <2>2. CASE i - Len(a) \in 1..Len(b) /\ j - Len(a) \in 1..Len(b)
    <3>1. t[i] = b[i - Len(a)] /\ t[j] = b[j - Len(a)]
      <4>1. Len(a) + (i - Len(a)) = i /\ Len(a) + (j - Len(a)) = j
        BY <1>0, <1>1
      <4> QED BY <1>1, <2>2, <4>1
    <3>2. i - Len(a) = j - Len(a)
      BY <1>3, <2>2, <3>1 DEF Once
    <3> QED BY <1>0, <1>1, <3>2
  <2> QED BY <1>2, <1>3, <2>1, <2>2
<1> QED BY <1>3 DEF Once

\* What a stretch of a bucket holds.
LEMMA Part ==
    ASSUME NEW s \in Seq(WpSocks), Once(s), NEW m \in 1..(Len(s) + 1), NEW n \in 0..Len(s), m <= n + 1,
           NEW b, b = SubSeq(s, m, n)
    PROVE  b \in Seq(WpSocks) /\ Len(b) = n - m + 1 /\ Once(b) /\ ToSet(b) = {s[i] : i \in m..n}
<1>0. Len(s) \in Nat /\ \A i \in 1..Len(s) : s[i] \in WpSocks
  OBVIOUS
<1>1. \A i \in m..n : s[i] \in WpSocks
  BY <1>0
<1>2. /\ b \in Seq(WpSocks) /\ Len(b) = IF m <= n THEN n - m + 1 ELSE 0
      /\ \A i \in 1..(n - m + 1) : b[i] = s[m + i - 1]
  BY <1>0, <1>1, SubSeqProperties
<1>3. Len(b) = n - m + 1
  BY <1>0, <1>2
<1>4. \A i \in 1..Len(b) : m + i - 1 \in m..n /\ m + i - 1 \in 1..Len(s) /\ b[i] = s[m + i - 1]
  BY <1>0, <1>2, <1>3
<1>5. ASSUME NEW i \in 1..Len(b), NEW j \in 1..Len(b), b[i] = b[j] PROVE i = j
  <2>1. s[m + i - 1] = s[m + j - 1] /\ m + i - 1 \in 1..Len(s) /\ m + j - 1 \in 1..Len(s)
    BY <1>4, <1>5
  <2>2. m + i - 1 = m + j - 1
    BY <2>1 DEF Once
  <2> QED BY <1>0, <2>2
<1>6. \A i \in m..n : i - m + 1 \in 1..Len(b) /\ b[i - m + 1] = s[i]
  <2> SUFFICES ASSUME NEW i \in m..n PROVE i - m + 1 \in 1..Len(b) /\ b[i - m + 1] = s[i]
    OBVIOUS
  <2>1. i - m + 1 \in 1..Len(b) /\ m + (i - m + 1) - 1 = i
    BY <1>0, <1>3
  <2> QED BY <1>4, <2>1
<1>7. ToSet(b) = {s[i] : i \in m..n}
  <2>1. ToSet(b) = {b[i] : i \in 1..Len(b)}
    BY <1>2, InBucket
  <2>2. ToSet(b) \subseteq {s[i] : i \in m..n}
    BY <1>4, <2>1
  <2>3. {s[i] : i \in m..n} \subseteq ToSet(b)
    BY <1>6, <2>1
  <2> QED BY <2>2, <2>3
<1> QED BY <1>2, <1>3, <1>5, <1>7 DEF Once

\* The positions of a bucket before one of them, and after it.
LEMMA Around ==
    ASSUME NEW s \in Seq(WpSocks), Once(s), NEW k \in 1..Len(s)
    PROVE  /\ ToSet(s) = {s[i] : i \in 1..(k - 1)} \cup {s[k]} \cup {s[i] : i \in (k + 1)..Len(s)}
           /\ s[k] \notin {s[i] : i \in 1..(k - 1)} \cup {s[i] : i \in (k + 1)..Len(s)}
           /\ {s[i] : i \in 1..(k - 1)} \cap {s[i] : i \in (k + 1)..Len(s)} = {}
           /\ {s[i] : i \in 1..k} = {s[i] : i \in 1..(k - 1)} \cup {s[k]}
<1>0. Len(s) \in Nat
  OBVIOUS
<1>1. \A i \in 1..Len(s) : i \in 1..(k - 1) \/ i = k \/ i \in (k + 1)..Len(s)
  BY <1>0
<1>2. \A i \in (1..(k - 1)) \cup ((k + 1)..Len(s)) : i \in 1..Len(s) /\ i # k
  BY <1>0
<1>3. (1..(k - 1)) \cap ((k + 1)..Len(s)) = {}
  BY <1>0
<1>4. 1..k = (1..(k - 1)) \cup {k}
  BY <1>0
<1>5. ToSet(s) = {s[i] : i \in 1..(k - 1)} \cup {s[k]} \cup {s[i] : i \in (k + 1)..Len(s)}
  BY <1>1, <1>2, InBucket
<1>6. s[k] \notin {s[i] : i \in 1..(k - 1)} \cup {s[i] : i \in (k + 1)..Len(s)}
  BY <1>2 DEF Once
<1>7. {s[i] : i \in 1..(k - 1)} \cap {s[i] : i \in (k + 1)..Len(s)} = {}
  BY <1>2, <1>3 DEF Once
<1>8. {s[i] : i \in 1..k} = {s[i] : i \in 1..(k - 1)} \cup {s[k]}
  BY <1>4
<1> QED BY <1>5, <1>6, <1>7, <1>8

\* What two buckets put together hold.
LEMMA JoinedSets ==
    ASSUME NEW a \in Seq(WpSocks), NEW b \in Seq(WpSocks), Once(a), Once(b), ToSet(a) \cap ToSet(b) = {}
    PROVE  \E t : /\ t = a \o b /\ t \in Seq(WpSocks) /\ Len(t) = Len(a) + Len(b)
                  /\ Once(t) /\ ToSet(t) = ToSet(a) \cup ToSet(b)
<1>1. PICK t : t = a \o b
  OBVIOUS
<1>2. t \in Seq(WpSocks) /\ Len(t) = Len(a) + Len(b) /\ ToSet(t) = ToSet(a) \cup ToSet(b)
  BY <1>1, Joined
<1>3. Once(t)
  BY <1>1, JoinedOnce
<1> QED BY <1>1, <1>2, <1>3

\* A bucket without one of its sockets.
LEMMA WithoutOne ==
    ASSUME NEW s \in Seq(WpSocks), Once(s), NEW k \in 1..Len(s)
    PROVE  LET t == SubSeq(s, 1, k - 1) \o SubSeq(s, k + 1, Len(s))
           IN  t \in Seq(WpSocks) /\ Len(t) < Len(s) /\ Once(t) /\ ToSet(t) = ToSet(s) \ {s[k]}
<1>1. PICK a : a = SubSeq(s, 1, k - 1)
  OBVIOUS
<1>2. PICK b : b = SubSeq(s, k + 1, Len(s))
  OBVIOUS
<1>3. Len(s) \in Nat /\ k - 1 \in 0..Len(s) /\ k + 1 \in 1..(Len(s) + 1) /\ 1 <= (k - 1) + 1 /\ k + 1 <= Len(s) + 1
      /\ 1 \in 1..(Len(s) + 1) /\ Len(s) \in 0..Len(s)
  OBVIOUS
<1>4. a \in Seq(WpSocks) /\ Len(a) = (k - 1) - 1 + 1 /\ Once(a) /\ ToSet(a) = {s[i] : i \in 1..(k - 1)}
  BY <1>1, <1>3, Part
<1>5. b \in Seq(WpSocks) /\ Len(b) = Len(s) - (k + 1) + 1 /\ Once(b) /\ ToSet(b) = {s[i] : i \in (k + 1)..Len(s)}
  BY <1>2, <1>3, Part
<1>6. Len(a) <= k - 1 /\ Len(b) = Len(s) - k
  BY <1>3, <1>4, <1>5
<1>s. PICK A, B : A = {s[i] : i \in 1..(k - 1)} /\ B = {s[i] : i \in (k + 1)..Len(s)}
  OBVIOUS
<1>7. ToSet(a) = A /\ ToSet(b) = B /\ ToSet(s) = A \cup {s[k]} \cup B /\ s[k] \notin A \cup B /\ A \cap B = {}
  <2>1. /\ ToSet(s) = {s[i] : i \in 1..(k - 1)} \cup {s[k]} \cup {s[i] : i \in (k + 1)..Len(s)}
        /\ s[k] \notin {s[i] : i \in 1..(k - 1)} \cup {s[i] : i \in (k + 1)..Len(s)}
        /\ {s[i] : i \in 1..(k - 1)} \cap {s[i] : i \in (k + 1)..Len(s)} = {}
    BY Around
  <2> QED BY <1>4, <1>5, <1>s, <2>1
<1>8. ToSet(a) \cap ToSet(b) = {}
  BY <1>7
<1>9. PICK t : /\ t = a \o b /\ t \in Seq(WpSocks) /\ Len(t) = Len(a) + Len(b)
               /\ Once(t) /\ ToSet(t) = ToSet(a) \cup ToSet(b)
  BY <1>4, <1>5, <1>8, JoinedSets
<1>10. Len(t) < Len(s) /\ ToSet(t) = ToSet(s) \ {s[k]}
  BY <1>3, <1>6, <1>7, <1>9
<1> QED BY <1>1, <1>2, <1>9, <1>10

\* A bucket whose first k sockets are gone, but for the one under probe.
LEMMA WithoutFirst ==
    ASSUME NEW s \in Seq(WpSocks), Once(s), NEW c, NEW k \in 1..Len(s), s[k] # c
    PROVE  LET t == (IF c \in {s[i] : i \in 1..(k - 1)} THEN <<c>> ELSE <<>>) \o SubSeq(s, k + 1, Len(s))
           IN  t \in Seq(WpSocks) /\ Len(t) < Len(s) /\ Once(t)
               /\ ToSet(t) = ToSet(s) \ ({s[i] : i \in 1..k} \ {c})
<1>1. PICK b : b = SubSeq(s, k + 1, Len(s))
  OBVIOUS
<1>2. Len(s) \in Nat /\ k + 1 \in 1..(Len(s) + 1) /\ k + 1 <= Len(s) + 1 /\ Len(s) \in 0..Len(s)
  OBVIOUS
<1>3. b \in Seq(WpSocks) /\ Len(b) = Len(s) - (k + 1) + 1 /\ Once(b) /\ ToSet(b) = {s[i] : i \in (k + 1)..Len(s)}
  BY <1>1, <1>2, Part
<1>4. Len(b) = Len(s) - k
  BY <1>2, <1>3
<1>5. PICK a : a = IF c \in {s[i] : i \in 1..(k - 1)} THEN <<c>> ELSE <<>>
  OBVIOUS
<1>6. /\ a \in Seq(WpSocks) /\ Len(a) <= k - 1 /\ Once(a)
      /\ ToSet(a) = {c} \cap {s[i] : i \in 1..(k - 1)}
  <2>1. CASE c \in {s[i] : i \in 1..(k - 1)}
    <3>1. c \in WpSocks /\ 1 <= k - 1 /\ a = <<c>>
      BY <1>2, <1>5, <2>1
    <3>2. a \in Seq(WpSocks) /\ Len(a) = 1 /\ a[1] = c /\ Once(a)
      BY <3>1 DEF Once
    <3>3. ToSet(a) = {c}
      BY <3>2, InBucket
    <3> QED BY <2>1, <3>1, <3>2, <3>3
  <2>2. CASE c \notin {s[i] : i \in 1..(k - 1)}
    <3>1. a = <<>>
      BY <1>5, <2>2
    <3>2. a \in Seq(WpSocks) /\ Len(a) = 0 /\ Once(a)
      BY <3>1 DEF Once
    <3>3. ToSet(a) = {}
      <4>1. ToSet(a) = {a[i] : i \in 1..Len(a)}
        BY <3>2, InBucket
      <4>2. 1..Len(a) = {}
        BY <3>2
      <4> QED BY <4>1, <4>2
    <3> QED BY <1>2, <2>2, <3>2, <3>3
  <2> QED BY <2>1, <2>2
<1>s. PICK A, B : A = {s[i] : i \in 1..(k - 1)} /\ B = {s[i] : i \in (k + 1)..Len(s)}
  OBVIOUS
<1>7. /\ ToSet(a) = {c} \cap A /\ ToSet(b) = B /\ ToSet(s) = A \cup {s[k]} \cup B
      /\ s[k] \notin A \cup B /\ A \cap B = {} /\ {s[i] : i \in 1..k} = A \cup {s[k]}
  <2>1. /\ ToSet(s) = {s[i] : i \in 1..(k - 1)} \cup {s[k]} \cup {s[i] : i \in (k + 1)..Len(s)}
        /\ s[k] \notin {s[i] : i \in 1..(k - 1)} \cup {s[i] : i \in (k + 1)..Len(s)}
        /\ {s[i] : i \in 1..(k - 1)} \cap {s[i] : i \in (k + 1)..Len(s)} = {}
        /\ {s[i] : i \in 1..k} = {s[i] : i \in 1..(k - 1)} \cup {s[k]}
    BY Around
  <2> QED BY <1>3, <1>6, <1>s, <2>1
<1>8. ToSet(a) \cap ToSet(b) = {}
  BY <1>7
<1>v. a \in Seq(WpSocks) /\ Len(a) <= k - 1 /\ Once(a)
  BY <1>6
<1>9. PICK t : /\ t = a \o b /\ t \in Seq(WpSocks) /\ Len(t) = Len(a) + Len(b)
               /\ Once(t) /\ ToSet(t) = ToSet(a) \cup ToSet(b)
  BY <1>3, <1>8, <1>v, JoinedSets
<1>10. Len(t) < Len(s)
  BY <1>2, <1>4, <1>9, <1>v
<1>11. ToSet(t) = ToSet(s) \ ({s[i] : i \in 1..k} \ {c})
  BY <1>7, <1>9
<1> QED BY <1>1, <1>5, <1>9, <1>10, <1>11

\* A bucket with one socket more.
LEMMA WithOneMore ==
    ASSUME NEW s \in Seq(WpSocks), Once(s), NEW x \in WpSocks, x \notin ToSet(s)
    PROVE  LET t == Append(s, x)
           IN  t \in Seq(WpSocks) /\ Len(t) = Len(s) + 1 /\ Once(t) /\ ToSet(t) = ToSet(s) \cup {x}
<1>1. PICK a : a = <<x>>
  OBVIOUS
<1>2. a \in Seq(WpSocks) /\ Len(a) = 1 /\ a[1] = x /\ Once(a)
  BY <1>1 DEF Once
<1>3. ToSet(a) = {x}
  <2>1. ToSet(a) = {a[i] : i \in 1..Len(a)}
    BY <1>2, InBucket
  <2>2. 1..Len(a) = {1}
    BY <1>2
  <2> QED BY <1>2, <2>1, <2>2
<1>4. ToSet(s) \cap ToSet(a) = {}
  BY <1>3
<1>5. PICK t : /\ t = s \o a /\ t \in Seq(WpSocks) /\ Len(t) = Len(s) + Len(a)
               /\ Once(t) /\ ToSet(t) = ToSet(s) \cup ToSet(a)
  BY <1>2, <1>4, JoinedSets
<1>6. Append(s, x) = t
  BY <1>1, <1>5, AppendIsConcat
<1> QED BY <1>2, <1>3, <1>5, <1>6

\* An empty bucket holds nothing.
LEMMA EmptyBucket == ToSet(<<>>) = {} /\ Once(<<>>) /\ <<>> \in Seq(WpSocks) /\ Len(<<>>) = 0
<1>1. <<>> \in Seq(WpSocks) /\ Len(<<>>) = 0 /\ 1..0 = {}
  OBVIOUS
<1>2. ToSet(<<>>) = {<<>>[i] : i \in 1..Len(<<>>)}
  BY <1>1, InBucket
<1> QED BY <1>1, <1>2 DEF Once

\* The pool starts empty.
LEMMA wpInitIInv == wpInit => wpIInv
<1> SUFFICES ASSUME wpInit PROVE wpIInv
  OBVIOUS
<1>1. wpTyped
  BY EmptyBucket, FS_EmptySet DEF wpInit, wpTyped, wpRefillOK, WpRefills, WpRotates, NoRefill, Asleep
<1>2. wpApart /\ wpProbes
  BY EmptyBucket DEF wpInit, wpApart, wpProbes, NoRefill, Asleep
<1>3. wpFits
  BY EmptyBucket, FS_EmptySet, wpAssumption DEF wpInit, wpFits, NoRefill
<1> QED BY <1>1, <1>2, <1>3 DEF wpIInv

\* scheduleRefill starts a refill only where none is dialling for the pool.
LEMMA WpSchedules ==
    ASSUME wpIInv, scheduleRefill
    PROVE  /\ wpRefillOK' /\ wpRefilling' \in BOOLEAN
           /\ (wpRefill.todo)' = wpRefill.todo /\ (wpRefill.ready)' = wpRefill.ready
           /\ (wpRefill.at)' # "dial" => wpRefill.todo = 0 /\ wpRefill.ready = {}
           /\ (wpRefill.at)' \in {"start", "dial"} /\ ~wpReset => wpRefilling'
<1>1. CASE wpRefill' = wpRefill /\ wpRefilling' = wpRefilling
  BY <1>1 DEF wpIInv, wpTyped, wpRefillOK, WpRefills, WpRotates, wpApart, wpProbes, wpFits
<1>2. CASE wpRefill' = [NoRefill EXCEPT !.at = "start"] /\ wpRefilling' = TRUE /\ ~wpDone /\ ~wpRefilling
  <2>1. wpRefill' = [at |-> "start", todo |-> 0, got |-> 0, ready |-> {}]
    BY <1>2 DEF NoRefill
  <2>2. wpRefill.todo = 0 /\ wpRefill.ready = {}
    BY <1>2 DEF wpIInv, wpTyped, wpRefillOK, WpRefills, WpRotates, wpApart, wpProbes, wpFits
  <2>3. wpRefill' \in WpRefills /\ (wpRefill.at)' = "start" /\ (wpRefill.todo)' = 0 /\ (wpRefill.ready)' = {}
    BY <2>1 DEF WpRefills
  <2> QED BY <1>2, <2>2, <2>3, FS_EmptySet DEF wpRefillOK
<1> QED BY <1>1, <1>2 DEF scheduleRefill

\* A step that leaves the bucket and the sockets alone.
LEMMA WpQuiet ==
    ASSUME wpIInv, wpRefillOK', wpRotate' \in WpRotates, wpRefilling' \in BOOLEAN, wpDone' \in BOOLEAN,
           UNCHANGED <<wpIdle, wpReset, wpLent, wpOpen, wpUsed>>,
           wpProbes', wpCheck' \in WpSocks \cup {0}, wpWaiting' \in BOOLEAN, wpDone => wpDone',
           (wpRefill.ready)' = wpRefill.ready,
           (wpRefill.todo)' <= wpRefill.todo \/ Len(wpIdle) + (wpRefill.todo)' + Cardinality(wpRefill.ready) <= WpTarget,
           (wpRefill.at)' # "dial" => (wpRefill.todo)' = 0 /\ wpRefill.ready = {},
           (wpRefill.at)' \in {"start", "dial"} /\ ~wpReset => wpRefilling'
    PROVE  wpIInv'
<1>1. wpTyped'
  BY DEF wpIInv, wpTyped
<1>2. wpApart'
  BY DEF wpIInv, wpApart
<1>3. wpFits'
  <2>1. (Len(wpIdle) + wpRefill.todo + Cardinality(wpRefill.ready) <= WpTarget)'
    <3>1. Len(wpIdle) \in Nat /\ Cardinality(wpRefill.ready) \in Nat /\ wpRefill.todo \in Nat /\ (wpRefill.todo)' \in Nat
      BY FS_CardinalityType DEF wpIInv, wpTyped, wpRefillOK, WpRefills
    <3> QED BY <3>1, wpAssumption DEF wpIInv, wpFits
  <2> QED BY <2>1 DEF wpIInv, wpFits
<1> QED BY <1>1, <1>2, <1>3 DEF wpIInv

\* The pool is warmed when the proxy starts.
LEMMA wpWarmupStep == wpIInv /\ wpWarmup => wpIInv'
<1> SUFFICES ASSUME wpIInv, wpWarmup PROVE wpIInv'
  OBVIOUS
<1>1. UNCHANGED <<wpIdle, wpCheck, wpReset, wpRotate, wpWaiting, wpLent, wpOpen, wpUsed, wpDone>>
  BY DEF wpWarmup
<1>2. wpProbes'
  BY <1>1, WpSchedules DEF wpWarmup, wpIInv, wpProbes
<1>3. /\ wpRefillOK' /\ wpRefilling' \in BOOLEAN
      /\ (wpRefill.todo)' = wpRefill.todo /\ (wpRefill.ready)' = wpRefill.ready
      /\ (wpRefill.at)' # "dial" => wpRefill.todo = 0 /\ wpRefill.ready = {}
      /\ (wpRefill.at)' \in {"start", "dial"} /\ ~wpReset => wpRefilling'
  BY WpSchedules DEF wpWarmup
<1>4. wpRotate' \in WpRotates /\ wpDone' \in BOOLEAN /\ wpCheck' \in WpSocks \cup {0} /\ wpWaiting' \in BOOLEAN
  BY <1>1 DEF wpIInv, wpTyped
<1>5. (wpRefill.todo)' <= wpRefill.todo
  BY <1>3 DEF wpRefillOK, WpRefills, wpIInv, wpTyped
<1> QED BY <1>1, <1>2, <1>3, <1>4, <1>5, WpQuiet

\* A client that waits for a probe gives up when the proxy ends.
LEMMA wpGiveUpStep == wpIInv /\ wpGiveUp => wpIInv'
<1> SUFFICES ASSUME wpIInv, wpGiveUp PROVE wpIInv'
  OBVIOUS
<1>1. UNCHANGED <<wpIdle, wpCheck, wpReset, wpRefilling, wpRefill, wpRotate, wpLent, wpOpen, wpUsed>>
  BY DEF wpGiveUp
<1>2. wpWaiting' \in BOOLEAN /\ (wpWaiting' => wpWaiting) /\ wpDone' \in BOOLEAN /\ (wpDone => wpDone')
  BY DEF wpGiveUp, wpIInv, wpTyped
<1>3. wpTyped' /\ wpApart'
  BY <1>1, <1>2 DEF wpIInv, wpTyped, wpApart, wpRefillOK
<1>4. wpProbes' /\ wpFits'
  BY <1>1, <1>2 DEF wpIInv, wpProbes, wpFits
<1> QED BY <1>3, <1>4 DEF wpIInv

\* The back-off of the refill ends.
LEMMA CoolingEndsStep == wpIInv /\ CoolingEnds => wpIInv'
<1> SUFFICES ASSUME wpIInv, CoolingEnds PROVE wpIInv'
  OBVIOUS
<1>1. UNCHANGED <<wpIdle, wpCheck, wpReset, wpRefilling, wpRefill, wpRotate, wpLent, wpOpen, wpUsed>>
  BY DEF CoolingEnds
<1>2. wpWaiting' \in BOOLEAN /\ (wpWaiting' => wpWaiting) /\ wpDone' \in BOOLEAN /\ (wpDone => wpDone')
  BY DEF CoolingEnds, wpIInv, wpTyped
<1>3. wpTyped' /\ wpApart'
  BY <1>1, <1>2 DEF wpIInv, wpTyped, wpApart, wpRefillOK
<1>4. wpProbes' /\ wpFits'
  BY <1>1, <1>2 DEF wpIInv, wpProbes, wpFits
<1> QED BY <1>3, <1>4 DEF wpIInv

\* The context of the proxy is cancelled.
LEMMA cancelPoolStep == wpIInv /\ cancelPool => wpIInv'
<1> SUFFICES ASSUME wpIInv, cancelPool PROVE wpIInv'
  OBVIOUS
<1>1. UNCHANGED <<wpIdle, wpCheck, wpReset, wpRefilling, wpRefill, wpRotate, wpLent, wpOpen, wpUsed>>
  BY DEF cancelPool
<1>2. wpWaiting' \in BOOLEAN /\ (wpWaiting' => wpWaiting) /\ wpDone' \in BOOLEAN /\ (wpDone => wpDone')
  BY DEF cancelPool, wpIInv, wpTyped
<1>3. wpTyped' /\ wpApart'
  BY <1>1, <1>2 DEF wpIInv, wpTyped, wpApart, wpRefillOK
<1>4. wpProbes' /\ wpFits'
  BY <1>1, <1>2 DEF wpIInv, wpProbes, wpFits
<1> QED BY <1>3, <1>4 DEF wpIInv

\* A socket ages, or its peer closes it.
LEMMA SocketAgesStep == \A s \in WpSocks : wpIInv /\ SocketAges(s) => wpIInv'
  BY DEF SocketAges, wpIInv, wpTyped, wpRefillOK, wpApart, wpProbes, wpFits

\* The bridge of a client closes its socket.
LEMMA wpReleaseStep == \A s \in WpSocks : wpIInv /\ wpRelease(s) => wpIInv'
<1> SUFFICES ASSUME NEW s \in WpSocks, wpIInv, wpRelease(s) PROVE wpIInv'
  OBVIOUS
<1>1. UNCHANGED <<wpIdle, wpCheck, wpReset, wpRefilling, wpRefill, wpRotate, wpWaiting, wpUsed, wpDone>>
  BY DEF wpRelease
<1>2. s \in wpLent /\ wpLent' = wpLent \ {s} /\ wpOpen' = wpOpen \ {s}
  BY DEF wpRelease
<1>3. wpTyped'
  BY <1>1, <1>2 DEF wpIInv, wpTyped, wpRefillOK
<1>4. wpApart' /\ wpProbes'
  BY <1>1, <1>2 DEF wpIInv, wpApart, wpProbes
<1>5. wpFits'
  BY <1>1 DEF wpIInv, wpFits
<1> QED BY <1>3, <1>4, <1>5 DEF wpIInv

\* A step of the maintenance goroutine that leaves the pool alone.
LEMMA WpRotateMoves ==
    ASSUME wpIInv, wpRotate' \in WpRotates, wpCheck' \in WpSocks \cup {0}, wpProbes',
           UNCHANGED <<wpIdle, wpReset, wpRefilling, wpRefill, wpWaiting, wpLent, wpOpen, wpUsed, wpDone>>
    PROVE  wpIInv'
<1>1. wpTyped' /\ wpApart'
  BY DEF wpIInv, wpTyped, wpApart, wpRefillOK
<1>2. wpFits'
  BY DEF wpIInv, wpFits
<1> QED BY <1>1, <1>2 DEF wpIInv

\* rotate takes the sockets of the bucket to probe them.
LEMMA rotateStep == wpIInv /\ rotate => wpIInv'
<1> SUFFICES ASSUME wpIInv, rotate PROVE wpIInv'
  OBVIOUS
<1>1. UNCHANGED <<wpIdle, wpCheck, wpReset, wpRefilling, wpRefill, wpWaiting, wpLent, wpOpen, wpUsed, wpDone>>
  BY DEF rotate
<1>2. /\ wpRotate.at = "idle" /\ wpRotate' \in WpRotates /\ (wpRotate.at)' = "next"
      /\ wpCheck' \in WpSocks \cup {0}
  BY DEF rotate, wpIInv, wpTyped, WpRotates
<1>3. wpProbes'
  BY <1>1, <1>2 DEF wpIInv, wpProbes
<1> QED BY <1>1, <1>2, <1>3, WpRotateMoves

\* The next socket is probed only while it is still in the bucket.
LEMMA rotateNextStep == wpIInv /\ rotateNext => wpIInv'
<1> SUFFICES ASSUME wpIInv, rotateNext PROVE wpIInv'
  OBVIOUS
<1>1. UNCHANGED <<wpIdle, wpReset, wpRefilling, wpRefill, wpWaiting, wpLent, wpOpen, wpUsed, wpDone>>
  BY DEF rotateNext
<1>2. PICK s : s = Head(wpRotate.rest)
  OBVIOUS
<1>3. /\ wpRotate \in WpRotates /\ wpRotate.rest \in Seq(WpSocks) /\ wpRotate.rest # <<>> /\ wpRotate.at = "next"
      /\ wpCheck = 0 /\ ~wpWaiting
  BY DEF rotateNext, wpIInv, wpTyped, wpProbes, WpRotates
<1>4. s \in WpSocks /\ Tail(wpRotate.rest) \in Seq(WpSocks)
  BY <1>2, <1>3
<1>5. CASE wpRotate' = Asleep /\ wpCheck' = wpCheck
  <2>1. wpRotate' \in WpRotates /\ (wpRotate.at)' = "idle" /\ wpCheck' \in WpSocks \cup {0}
    BY <1>3, <1>5 DEF Asleep, WpRotates
  <2>2. wpProbes'
    BY <1>1, <1>3, <1>5, <2>1 DEF wpProbes
  <2> QED BY <1>1, <2>1, <2>2, WpRotateMoves
<1>6. CASE wpRotate' = [wpRotate EXCEPT !.rest = Tail(@)] /\ wpCheck' = wpCheck
  <2>1. wpRotate' \in WpRotates /\ (wpRotate.at)' = "next" /\ wpCheck' \in WpSocks \cup {0}
    BY <1>3, <1>4, <1>6 DEF WpRotates
  <2>2. wpProbes'
    BY <1>1, <1>3, <1>6, <2>1 DEF wpProbes
  <2> QED BY <1>1, <2>1, <2>2, WpRotateMoves
<1>7. CASE /\ wpRotate' = [wpRotate EXCEPT !.at = "probe", !.rest = Tail(@), !.ws = s] /\ wpCheck' = s
           /\ s \in ToSet(wpIdle)
  <2>1. wpRotate' \in WpRotates /\ (wpRotate.at)' = "probe" /\ (wpRotate.ws)' = s /\ wpCheck' \in WpSocks \cup {0}
    BY <1>3, <1>4, <1>7 DEF WpRotates
  <2>2. s \in wpUsed \ (wpLent \cup wpRefill.ready)
    BY <1>7 DEF wpIInv, wpApart
  <2>3. wpProbes'
    BY <1>1, <1>3, <1>7, <2>1, <2>2 DEF wpProbes
  <2> QED BY <1>1, <2>1, <2>3, WpRotateMoves
<1> QED BY <1>2, <1>5, <1>6, <1>7 DEF rotateNext, StillIdle

\* The end of a round of probes asks for a refill.
LEMMA rotateEndStep == wpIInv /\ rotateEnd => wpIInv'
<1> SUFFICES ASSUME wpIInv, rotateEnd PROVE wpIInv'
  OBVIOUS
<1>1. UNCHANGED <<wpIdle, wpCheck, wpReset, wpWaiting, wpLent, wpOpen, wpUsed, wpDone>>
  BY DEF rotateEnd
<1>2. wpRotate.at = "next" /\ wpRotate' \in WpRotates /\ (wpRotate.at)' = "idle"
  BY DEF rotateEnd, WpRotates, Asleep
<1>3. /\ wpRefillOK' /\ wpRefilling' \in BOOLEAN
      /\ (wpRefill.todo)' = wpRefill.todo /\ (wpRefill.ready)' = wpRefill.ready
      /\ (wpRefill.at)' # "dial" => wpRefill.todo = 0 /\ wpRefill.ready = {}
      /\ (wpRefill.at)' \in {"start", "dial"} /\ ~wpReset => wpRefilling'
  <2>1. CASE scheduleRefill
    BY <2>1, WpSchedules
  <2>2. CASE UNCHANGED <<wpKnown, wpRefilling, wpRefill>>
    BY <2>2 DEF wpIInv, wpTyped, wpRefillOK, wpFits
  <2> QED BY <2>1, <2>2 DEF rotateEnd
<1>4. wpProbes'
  BY <1>1, <1>2, <1>3 DEF wpIInv, wpProbes
<1>5. wpDone' \in BOOLEAN /\ wpCheck' \in WpSocks \cup {0} /\ wpWaiting' \in BOOLEAN
  BY <1>1 DEF wpIInv, wpTyped
<1>6. (wpRefill.todo)' <= wpRefill.todo
  BY <1>3 DEF wpRefillOK, WpRefills, wpIInv, wpTyped
<1> QED BY <1>1, <1>2, <1>3, <1>4, <1>5, <1>6, WpQuiet

\* The refill counts what is missing.
LEMMA refillStep == wpIInv /\ refill => wpIInv'
<1> SUFFICES ASSUME wpIInv, refill PROVE wpIInv'
  OBVIOUS
<1>1. UNCHANGED <<wpIdle, wpCheck, wpReset, wpRefilling, wpRotate, wpWaiting, wpLent, wpOpen, wpUsed, wpDone>>
  BY DEF refill
<1>2. /\ wpRefill \in WpRefills /\ wpRefill.at = "start" /\ wpRefill.ready = {} /\ Len(wpIdle) \in Nat
      /\ (~wpReset => wpRefilling)
  BY DEF refill, wpIInv, wpTyped, wpRefillOK, wpFits
<1>3. PICK n : n = IF current /\ Len(wpIdle) < WpTarget THEN needed ELSE 0
  OBVIOUS
<1>4. n \in Nat /\ (n # 0 => Len(wpIdle) + n = WpTarget) /\ (~(current /\ Len(wpIdle) < WpTarget) => n = 0)
  BY <1>2, <1>3, wpAssumption DEF needed
<1>5. PICK a : a = IF current /\ Len(wpIdle) < WpTarget THEN "dial" ELSE "exit"
  OBVIOUS
<1>6. wpRefill' = [wpRefill EXCEPT !.at = a, !.todo = n]
  BY <1>3, <1>5 DEF refill
<1>7. /\ wpRefill' \in WpRefills /\ (wpRefill.at)' = a /\ (wpRefill.todo)' = n /\ (wpRefill.ready)' = {}
      /\ a \in {"dial", "exit"} /\ (a # "dial" => n = 0)
  BY <1>2, <1>4, <1>5, <1>6 DEF WpRefills
<1>8. wpProbes' /\ wpRefillOK'
  BY <1>1, <1>2, <1>7, FS_EmptySet DEF wpIInv, wpProbes, wpRefillOK
<1>9. (wpRefill.todo)' <= wpRefill.todo \/ Len(wpIdle) + (wpRefill.todo)' + Cardinality(wpRefill.ready) <= WpTarget
  <2>1. Cardinality(wpRefill.ready) = 0 /\ wpRefill.todo \in Nat
    BY <1>2, FS_EmptySet DEF WpRefills
  <2> QED BY <1>2, <1>4, <1>7, <2>1, wpAssumption
<1>10. /\ wpRotate' \in WpRotates /\ wpRefilling' \in BOOLEAN /\ wpDone' \in BOOLEAN
       /\ wpCheck' \in WpSocks \cup {0} /\ wpWaiting' \in BOOLEAN /\ (wpDone => wpDone')
  BY <1>1 DEF wpIInv, wpTyped
<1>11. /\ (wpRefill.ready)' = wpRefill.ready
       /\ (wpRefill.at)' # "dial" => (wpRefill.todo)' = 0 /\ wpRefill.ready = {}
       /\ (wpRefill.at)' \in {"start", "dial"} /\ ~wpReset => wpRefilling'
  BY <1>1, <1>2, <1>7
<1> QED BY <1>1, <1>8, <1>9, <1>10, <1>11, WpQuiet

\* A refill that ends dials and holds nothing.
LEMMA RefillEndsStep == wpIInv /\ (refillBackoff \/ refillExit) => wpIInv'
<1> SUFFICES ASSUME wpIInv, refillBackoff \/ refillExit PROVE wpIInv'
  OBVIOUS
<1>1. UNCHANGED <<wpIdle, wpCheck, wpReset, wpRotate, wpWaiting, wpLent, wpOpen, wpUsed, wpDone>>
  BY DEF refillBackoff, refillExit
<1>2. wpRefill \in WpRefills /\ wpRefill.todo = 0 /\ wpRefill.ready = {}
  BY DEF refillBackoff, refillExit, wpIInv, wpTyped, wpRefillOK, wpFits
<1>3. /\ wpRefill' \in WpRefills /\ (wpRefill.at)' \in {"exit", "none"} /\ (wpRefill.todo)' = 0
      /\ (wpRefill.ready)' = {}
  <2>1. CASE refillBackoff
    BY <1>2, <2>1 DEF refillBackoff, WpRefills
  <2>2. CASE refillExit
    BY <2>2 DEF refillExit, WpRefills, NoRefill
  <2> QED BY <2>1, <2>2
<1>4. wpRefilling' \in BOOLEAN
  BY DEF refillBackoff, refillExit, wpIInv, wpTyped
<1>5. wpProbes' /\ wpRefillOK'
  BY <1>1, <1>2, <1>3, FS_EmptySet DEF wpIInv, wpProbes, wpRefillOK
<1>6. (wpRefill.todo)' <= wpRefill.todo /\ (wpRefill.ready)' = wpRefill.ready
  BY <1>2, <1>3
<1>7. /\ wpRotate' \in WpRotates /\ wpDone' \in BOOLEAN
      /\ wpCheck' \in WpSocks \cup {0} /\ wpWaiting' \in BOOLEAN /\ (wpDone => wpDone')
  BY <1>1 DEF wpIInv, wpTyped
<1>8. /\ (wpRefill.at)' # "dial" => (wpRefill.todo)' = 0 /\ wpRefill.ready = {}
      /\ (wpRefill.at)' \in {"start", "dial"} /\ ~wpReset => wpRefilling'
  BY <1>2, <1>3
<1> QED BY <1>1, <1>4, <1>5, <1>6, <1>7, <1>8, WpQuiet

\* The reset of a stop closes what is idle and leaves the bucket empty.
LEMMA ResetStep == wpIInv /\ (stopResets \/ maintainStops) => wpIInv'
<1> SUFFICES ASSUME wpIInv, stopResets \/ maintainStops PROVE wpIInv'
  OBVIOUS
<1>1. /\ wpDone /\ wpIdle' = <<>> /\ wpCheck' = 0 /\ wpRefilling' = FALSE /\ wpWaiting' = FALSE /\ wpReset' = TRUE
      /\ wpOpen' = wpOpen \ ToSet(wpIdle) /\ UNCHANGED <<wpRefill, wpLent, wpUsed, wpDone>>
  BY DEF stopResets, maintainStops, resetPool, wakeWaiters
<1>2. wpRotate' = wpRotate \/ wpRotate' = [Asleep EXCEPT !.at = "stopped"]
  BY DEF stopResets, maintainStops
<1>3. wpRotate' \in WpRotates /\ ((wpRotate.at)' = "probe" => wpRotate' = wpRotate)
  <2>1. CASE wpRotate' = wpRotate
    BY <2>1 DEF wpIInv, wpTyped
  <2>2. CASE wpRotate' = [Asleep EXCEPT !.at = "stopped"]
    <3>1. wpRotate' = [at |-> "stopped", rest |-> <<>>, ws |-> 0]
      BY <2>2 DEF Asleep
    <3>2. wpRotate' \in WpRotates /\ (wpRotate.at)' = "stopped"
      BY <3>1 DEF WpRotates
    <3> QED BY <3>2
  <2> QED BY <1>2, <2>1, <2>2
<1>4. ToSet(wpIdle)' = {} /\ Once(wpIdle') /\ wpIdle' \in Seq(WpSocks) /\ Len(wpIdle') = 0
  BY <1>1, EmptyBucket
<1>5. wpTyped'
  BY <1>1, <1>3, <1>4 DEF wpIInv, wpTyped, wpRefillOK
<1>6. wpApart'
  BY <1>1, <1>4 DEF wpIInv, wpApart
<1>7. wpProbes'
  BY <1>1, <1>3 DEF wpIInv, wpProbes
<1>8. wpFits'
  <2>1. /\ Len(wpIdle) \in Nat /\ wpRefill.todo \in Nat /\ Cardinality(wpRefill.ready) \in Nat
    BY FS_CardinalityType DEF wpIInv, wpTyped, wpRefillOK, WpRefills
  <2>2. (Len(wpIdle) + wpRefill.todo + Cardinality(wpRefill.ready) <= WpTarget)'
    BY <1>1, <1>4, <2>1, wpAssumption DEF wpIInv, wpFits
  <2> QED BY <1>1, <2>2 DEF wpIInv, wpFits
<1> QED BY <1>5, <1>6, <1>7, <1>8 DEF wpIInv

\* Without takes one socket out of the bucket.
LEMMA WithoutIdle ==
    ASSUME wpIdle \in Seq(WpSocks), Once(wpIdle), NEW s \in ToSet(wpIdle)
    PROVE  /\ Without(s) \in Seq(WpSocks) /\ Len(Without(s)) < Len(wpIdle) /\ Once(Without(s))
           /\ ToSet(Without(s)) = ToSet(wpIdle) \ {s}
<1>1. PICK k : k = CHOOSE i \in 1..Len(wpIdle) : wpIdle[i] = s
  OBVIOUS
<1>2. \E i \in 1..Len(wpIdle) : wpIdle[i] = s
  BY InBucket
<1>3. k \in 1..Len(wpIdle) /\ wpIdle[k] = s
  BY <1>1, <1>2
<1>4. PICK t : t = SubSeq(wpIdle, 1, k - 1) \o SubSeq(wpIdle, k + 1, Len(wpIdle))
  OBVIOUS
<1>5. t \in Seq(WpSocks) /\ Len(t) < Len(wpIdle) /\ Once(t) /\ ToSet(t) = ToSet(wpIdle) \ {wpIdle[k]}
  BY <1>3, <1>4, WithoutOne
<1>6. Without(s) = t
  BY <1>1, <1>4 DEF Without
<1> QED BY <1>3, <1>5, <1>6

\* A probe reports: a socket that failed leaves the bucket and is closed.
LEMMA rotateProbedStep == wpIInv /\ rotateProbed => wpIInv'
<1> SUFFICES ASSUME wpIInv, rotateProbed PROVE wpIInv'
  OBVIOUS
<1>1. UNCHANGED <<wpReset, wpRefilling, wpRefill, wpLent, wpUsed, wpDone>>
  BY DEF rotateProbed
<1>2. PICK s : s = wpRotate.ws
  OBVIOUS
<1>3. /\ wpRotate.at = "probe" /\ s \in wpUsed \ (wpLent \cup wpRefill.ready) /\ (wpCheck = s \/ wpReset)
      /\ s \in WpSocks /\ s # 0
  BY <1>2, wpAssumption DEF rotateProbed, wpIInv, wpProbes, wpTyped
<1>4. wpRotate' \in WpRotates /\ (wpRotate.at)' = "next"
  BY DEF rotateProbed, wpIInv, wpTyped, WpRotates
<1>5. PICK healthy : healthy = (s \notin wpSick /\ s \in wpOpen)
  OBVIOUS
<1>6. wpOpen' = IF healthy THEN wpOpen ELSE wpOpen \ {s}
  BY <1>2, <1>5 DEF rotateProbed
<1>7. /\ wpIdle \in Seq(WpSocks) /\ Once(wpIdle) /\ Len(wpIdle) \in Nat
      /\ (wpCheck = s => s \in ToSet(wpIdle)) /\ (wpCheck # s => wpCheck = 0 /\ ~wpWaiting /\ wpIdle = <<>>)
  BY <1>2, <1>3 DEF wpIInv, wpTyped, wpApart, wpProbes, wpFits
<1>8. /\ wpCheck' = 0 /\ wpWaiting' = FALSE
      /\ wpIdle' = IF wpCheck = s /\ ~healthy THEN Without(s) ELSE wpIdle
  <2>1. CASE wpCheck = s
    <3>1. s \in ToSet(wpIdle)
      BY <1>7, <2>1
    <3>2. /\ wpCheck' = 0 /\ wpWaiting' = FALSE
          /\ wpIdle' = IF healthy \/ ~StillIdle(s) THEN wpIdle ELSE Without(s)
      BY <1>2, <1>5, <2>1 DEF rotateProbed
    <3> QED BY <2>1, <3>1, <3>2 DEF StillIdle
  <2>2. CASE wpCheck # s
    <3>1. UNCHANGED <<wpCheck, wpWaiting, wpIdle>>
      BY <1>2, <2>2 DEF rotateProbed
    <3>2. wpCheck = 0 /\ wpWaiting = FALSE
      BY <1>7, <2>2 DEF wpIInv, wpTyped
    <3> QED BY <2>2, <3>1, <3>2
  <2> QED BY <2>1, <2>2
<1>9. /\ wpIdle' \in Seq(WpSocks) /\ Once(wpIdle') /\ Len(wpIdle') <= Len(wpIdle)
      /\ ToSet(wpIdle') = IF wpCheck = s /\ ~healthy THEN ToSet(wpIdle) \ {s} ELSE ToSet(wpIdle)
  <2>1. CASE wpCheck = s /\ ~healthy
    <3>1. s \in ToSet(wpIdle) /\ wpIdle' = Without(s)
      BY <1>7, <1>8, <2>1
    <3>2. /\ Without(s) \in Seq(WpSocks) /\ Len(Without(s)) < Len(wpIdle) /\ Once(Without(s))
          /\ ToSet(Without(s)) = ToSet(wpIdle) \ {s}
      BY <1>7, <3>1, WithoutIdle
    <3>3. Len(Without(s)) \in Nat
      BY <3>2
    <3> QED BY <1>7, <2>1, <3>1, <3>2, <3>3
  <2>2. CASE ~(wpCheck = s /\ ~healthy)
    BY <1>7, <1>8, <2>2
  <2> QED BY <2>1, <2>2
<1> HIDE DEF rotateProbed
<1>10. wpTyped'
  BY <1>1, <1>4, <1>6, <1>8, <1>9 DEF wpIInv, wpTyped, wpRefillOK
<1>11. wpApart'
  <2>1. ToSet(wpIdle') \subseteq ToSet(wpIdle) /\ wpOpen' \subseteq wpOpen
    BY <1>6, <1>9
  <2>2. wpOpen' = ToSet(wpIdle') \cup wpLent \cup wpRefill.ready
    <3>1. wpCheck # s => ToSet(wpIdle) = {}
      BY <1>7, EmptyBucket
    <3>2. wpOpen = ToSet(wpIdle) \cup wpLent \cup wpRefill.ready
      BY DEF wpIInv, wpApart
    <3> QED BY <1>3, <1>6, <1>9, <3>1, <3>2
  <2> QED BY <1>1, <1>9, <2>1, <2>2 DEF wpIInv, wpApart
<1>12. wpProbes'
  BY <1>4, <1>8 DEF wpProbes
<1>13. wpFits'
  <2>1. /\ Len(wpIdle) \in Nat /\ wpRefill.todo \in Nat /\ Cardinality(wpRefill.ready) \in Nat /\ Len(wpIdle') \in Nat
    BY <1>9, FS_CardinalityType DEF wpIInv, wpTyped, wpRefillOK, WpRefills
  <2>2. (Len(wpIdle) + wpRefill.todo + Cardinality(wpRefill.ready) <= WpTarget)'
    BY <1>1, <1>9, <2>1, wpAssumption DEF wpIInv, wpFits
  <2>3. wpReset => wpIdle' = <<>>
    <3>1. wpReset => wpIdle = <<>> /\ ToSet(wpIdle) = {}
      BY EmptyBucket DEF wpIInv, wpFits
    <3> QED BY <1>7, <1>8, <3>1
  <2> QED BY <1>1, <2>2, <2>3 DEF wpIInv, wpFits
<1> QED BY <1>10, <1>11, <1>12, <1>13 DEF wpIInv

\* A refill holds a finite set of sockets: one more, or one less.
LEMMA ReadyCounts ==
    ASSUME NEW R, IsFiniteSet(R), NEW s
    PROVE  /\ Cardinality(R) \in Nat /\ IsFiniteSet(R \cup {s}) /\ IsFiniteSet(R \ {s})
           /\ s \notin R => Cardinality(R \cup {s}) = Cardinality(R) + 1
           /\ s \in R => Cardinality(R \ {s}) = Cardinality(R) - 1
  BY FS_CardinalityType, FS_AddElement, FS_RemoveElement

\* A dial of the refill ends, with a socket nobody else has or with none.
LEMMA connectOneResultStep == wpIInv /\ connectOneResult => wpIInv'
<1> SUFFICES ASSUME wpIInv, connectOneResult PROVE wpIInv'
  OBVIOUS
<1>1. UNCHANGED <<wpIdle, wpCheck, wpReset, wpRefilling, wpRotate, wpWaiting, wpLent, wpDone>>
  BY DEF connectOneResult
<1>2. /\ wpRefill \in WpRefills /\ IsFiniteSet(wpRefill.ready) /\ wpRefill.at = "dial"
      /\ wpRefill.todo \in Nat /\ wpRefill.todo > 0 /\ Len(wpIdle) \in Nat /\ Cardinality(wpRefill.ready) \in Nat
  <2>1. wpRefill \in WpRefills /\ IsFiniteSet(wpRefill.ready) /\ wpIdle \in Seq(WpSocks)
    BY DEF wpIInv, wpTyped, wpRefillOK
  <2>2. wpRefill.at = "dial" /\ wpRefill.todo > 0
    BY DEF connectOneResult
  <2> QED BY <2>1, <2>2, FS_CardinalityType DEF WpRefills
<1>3. CASE /\ wpRefill' = [wpRefill EXCEPT !.todo = @ - 1] /\ UNCHANGED <<wpUsed, wpOpen>>
  <2>1. /\ wpRefill' \in WpRefills /\ (wpRefill.at)' = "dial" /\ (wpRefill.todo)' = wpRefill.todo - 1
        /\ (wpRefill.ready)' = wpRefill.ready
    BY <1>2, <1>3 DEF WpRefills
  <2>2. wpTyped' /\ wpApart'
    BY <1>1, <1>2, <1>3, <2>1 DEF wpIInv, wpTyped, wpApart, wpRefillOK
  <2>3. wpProbes'
    BY <1>1, <1>3, <2>1 DEF wpIInv, wpProbes
  <2>4. wpFits'
    BY <1>1, <1>2, <2>1, wpAssumption DEF wpIInv, wpFits
  <2> QED BY <2>2, <2>3, <2>4 DEF wpIInv
<1>4. ASSUME NEW s \in WpSocks \ wpUsed, wpUsed' = wpUsed \cup {s}, wpOpen' = wpOpen \cup {s},
             wpRefill' = [wpRefill EXCEPT !.todo = @ - 1, !.ready = @ \cup {s}]
      PROVE  wpIInv'
  <2>1. /\ wpRefill' \in WpRefills /\ (wpRefill.at)' = "dial" /\ (wpRefill.todo)' = wpRefill.todo - 1
        /\ (wpRefill.ready)' = wpRefill.ready \cup {s}
    <3>1. PICK n, r : n = wpRefill.todo - 1 /\ r = wpRefill.ready \cup {s}
      OBVIOUS
    <3>2. n \in Nat /\ r \in SUBSET WpSocks
      BY <1>2, <1>4, <3>1 DEF WpRefills
    <3>3. wpRefill' = [wpRefill EXCEPT !.todo = n, !.ready = r]
      BY <1>4, <3>1
    <3> QED BY <1>2, <3>1, <3>2, <3>3 DEF WpRefills
  <2>2. s \notin ToSet(wpIdle) /\ s \notin wpLent /\ s \notin wpRefill.ready
    BY <1>4 DEF wpIInv, wpApart
  <2>3. /\ IsFiniteSet(wpRefill.ready \cup {s})
        /\ Cardinality(wpRefill.ready \cup {s}) = Cardinality(wpRefill.ready) + 1
    BY <1>2, <2>2, ReadyCounts
  <2>4. wpTyped'
    BY <1>1, <1>4, <2>1, <2>3 DEF wpIInv, wpTyped, wpRefillOK
  <2>5. wpApart'
    BY <1>1, <1>4, <2>1, <2>2 DEF wpIInv, wpApart
  <2>6. wpProbes'
    BY <1>1, <1>4, <2>1 DEF wpIInv, wpProbes
  <2>7. wpFits'
    BY <1>1, <1>2, <2>1, <2>3, wpAssumption DEF wpIInv, wpFits
  <2> QED BY <2>4, <2>5, <2>6, <2>7 DEF wpIInv
<1> QED BY <1>3, <1>4 DEF connectOneResult

\* A dialled socket is put into the bucket, or closed when the pool has moved on.
LEMMA takeResultStep == \A s \in WpSocks : wpIInv /\ takeResult(s) => wpIInv'
<1> SUFFICES ASSUME NEW s \in WpSocks, wpIInv, takeResult(s) PROVE wpIInv'
  OBVIOUS
<1>1. UNCHANGED <<wpCheck, wpReset, wpRefilling, wpRotate, wpWaiting, wpLent, wpUsed, wpDone>>
  BY DEF takeResult
<1>2. /\ wpRefill \in WpRefills /\ IsFiniteSet(wpRefill.ready) /\ s \in wpRefill.ready
      /\ wpRefill.todo \in Nat /\ Len(wpIdle) \in Nat /\ Cardinality(wpRefill.ready) \in Nat
      /\ wpIdle \in Seq(WpSocks) /\ Once(wpIdle)
  BY FS_CardinalityType DEF takeResult, wpIInv, wpTyped, wpRefillOK, WpRefills, wpApart
<1>3. PICK g : g = IF current THEN wpRefill.got + 1 ELSE wpRefill.got
  OBVIOUS
<1>4. g \in Nat /\ wpRefill' = [wpRefill EXCEPT !.ready = @ \ {s}, !.got = g]
  BY <1>2, <1>3 DEF takeResult, WpRefills
<1>5. /\ wpRefill' \in WpRefills /\ (wpRefill.at)' = wpRefill.at /\ (wpRefill.todo)' = wpRefill.todo
      /\ (wpRefill.ready)' = wpRefill.ready \ {s}
  BY <1>2, <1>4 DEF WpRefills
<1>6. IsFiniteSet(wpRefill.ready \ {s}) /\ Cardinality(wpRefill.ready \ {s}) = Cardinality(wpRefill.ready) - 1
  BY <1>2, ReadyCounts
<1>7. CASE current
  <2>1. wpIdle' = Append(wpIdle, s) /\ wpOpen' = wpOpen
    BY <1>7 DEF takeResult, keepResult
  <2>2. s \notin ToSet(wpIdle)
    BY <1>2 DEF wpIInv, wpApart
  <2>3. PICK t : t = Append(wpIdle, s)
    OBVIOUS
  <2>4. t \in Seq(WpSocks) /\ Len(t) = Len(wpIdle) + 1 /\ Once(t) /\ ToSet(t) = ToSet(wpIdle) \cup {s}
    BY <1>2, <2>2, <2>3, WithOneMore
  <2>5. wpIdle' = t
    BY <2>1, <2>3
  <2>6. wpTyped'
    BY <1>1, <1>5, <1>6, <2>1, <2>4, <2>5 DEF wpIInv, wpTyped, wpRefillOK
  <2>7. wpApart'
    BY <1>1, <1>2, <1>5, <2>1, <2>4, <2>5 DEF wpIInv, wpApart
  <2>8. wpProbes'
    BY <1>1, <1>5, <2>4, <2>5 DEF wpIInv, wpProbes
  <2>9. wpFits'
    BY <1>1, <1>2, <1>5, <1>6, <1>7, <2>4, <2>5, wpAssumption DEF wpIInv, wpFits, current
  <2> QED BY <2>6, <2>7, <2>8, <2>9 DEF wpIInv
<1>8. CASE ~current
  <2>1. wpIdle' = wpIdle /\ wpOpen' = wpOpen \ {s}
    BY <1>8 DEF takeResult, keepResult
  <2>2. wpTyped'
    BY <1>1, <1>5, <1>6, <2>1 DEF wpIInv, wpTyped, wpRefillOK
  <2>3. wpApart'
    BY <1>1, <1>2, <1>5, <2>1 DEF wpIInv, wpApart
  <2>4. wpProbes'
    BY <1>1, <1>5, <2>1 DEF wpIInv, wpProbes
  <2>5. wpFits'
    BY <1>1, <1>2, <1>5, <1>6, <2>1, wpAssumption DEF wpIInv, wpFits
  <2> QED BY <2>2, <2>3, <2>4, <2>5 DEF wpIInv
<1> QED BY <1>7, <1>8

\* A step of a client: the bucket loses what the client takes and what is
\* stale, but not the socket under probe.
LEMMA WpClientTakes ==
    ASSUME wpIInv, wpIdle' \in Seq(WpSocks), Once(wpIdle'), Len(wpIdle') <= Len(wpIdle), wpReset => wpIdle' = <<>>,
           NEW L, L \subseteq ToSet(wpIdle), wpCheck \notin L, wpLent' = wpLent \cup L,
           NEW G, G \subseteq ToSet(wpIdle), wpCheck \notin G, L \cap G = {}, wpOpen' = wpOpen \ G,
           ToSet(wpIdle') = ToSet(wpIdle) \ (L \cup G),
           UNCHANGED <<wpCheck, wpReset, wpRotate, wpUsed, wpDone>>,
           wpWaiting' \in BOOLEAN, wpWaiting' => wpCheck # 0,
           wpRefillOK', wpRefilling' \in BOOLEAN,
           (wpRefill.todo)' = wpRefill.todo, (wpRefill.ready)' = wpRefill.ready,
           (wpRefill.at)' # "dial" => wpRefill.todo = 0 /\ wpRefill.ready = {},
           (wpRefill.at)' \in {"start", "dial"} /\ ~wpReset => wpRefilling'
    PROVE  wpIInv'
<1>1. wpTyped'
  <2>1. L \subseteq WpSocks
    BY InBucket DEF wpIInv, wpTyped
  <2> QED BY <2>1 DEF wpIInv, wpTyped
<1>2. wpApart'
  BY DEF wpIInv, wpApart
<1>3. wpProbes'
  <2>1. wpReset => ToSet(wpIdle) = {}
    BY EmptyBucket DEF wpIInv, wpFits
  <2> QED BY <2>1 DEF wpIInv, wpProbes
<1>4. wpFits'
  <2>1. /\ Len(wpIdle) \in Nat /\ wpRefill.todo \in Nat /\ Cardinality(wpRefill.ready) \in Nat /\ Len(wpIdle') \in Nat
    BY FS_CardinalityType DEF wpIInv, wpTyped, wpRefillOK, WpRefills
  <2>2. (Len(wpIdle) + wpRefill.todo + Cardinality(wpRefill.ready) <= WpTarget)'
    BY <2>1, wpAssumption DEF wpIInv, wpFits
  <2> QED BY <2>2 DEF wpIInv, wpFits
<1> QED BY <1>1, <1>2, <1>3, <1>4 DEF wpIInv

\* A client takes the first usable socket of the bucket.
LEMMA wpAcquireStep == wpIInv /\ wpAcquire => wpIInv'
<1> SUFFICES ASSUME wpIInv, wpAcquire PROVE wpIInv'
  OBVIOUS
<1>1. /\ UNCHANGED <<wpCheck, wpReset, wpRotate, wpWaiting, wpUsed, wpDone>> /\ scheduleRefill
  BY DEF wpAcquire
<1>2. PICK k \in 1..Len(wpIdle) :
          /\ Usable(wpIdle[k]) /\ \A i \in 1..(k - 1) : ~Usable(wpIdle[i])
          /\ wpIdle' = Kept(k - 1) \o SubSeq(wpIdle, k + 1, Len(wpIdle))
          /\ wpLent' = wpLent \cup {wpIdle[k]}
          /\ wpOpen' = wpOpen \ Stale(k)
  BY DEF wpAcquire
<1>3. wpIdle \in Seq(WpSocks) /\ Once(wpIdle) /\ wpIdle[k] # wpCheck /\ wpIdle[k] \notin wpSick
  BY <1>2 DEF wpIInv, wpTyped, wpApart, Usable
<1>4. PICK A : A = {wpIdle[i] : i \in 1..(k - 1)}
  OBVIOUS
<1>5. /\ A \subseteq ToSet(wpIdle) /\ wpIdle[k] \in ToSet(wpIdle) /\ wpIdle[k] \notin A
      /\ {wpIdle[i] : i \in 1..k} = A \cup {wpIdle[k]}
  <2>1. /\ ToSet(wpIdle) = {wpIdle[i] : i \in 1..(k - 1)} \cup {wpIdle[k]} \cup {wpIdle[i] : i \in (k + 1)..Len(wpIdle)}
        /\ wpIdle[k] \notin {wpIdle[i] : i \in 1..(k - 1)} \cup {wpIdle[i] : i \in (k + 1)..Len(wpIdle)}
        /\ {wpIdle[i] : i \in 1..k} = {wpIdle[i] : i \in 1..(k - 1)} \cup {wpIdle[k]}
    BY <1>3, Around
  <2> QED BY <1>4, <2>1
<1>6. Stale(k) = A \ {wpCheck}
  <2>1. \A x \in A : x = wpCheck \/ x \in wpSick
    BY <1>2, <1>4 DEF Usable
  <2>2. Stale(k) = (A \cup {wpIdle[k]}) \cap (wpSick \ {wpCheck})
    BY <1>5 DEF Stale
  <2> QED BY <1>3, <2>1, <2>2
<1>7. PICK t : t = (IF wpCheck \in {wpIdle[i] : i \in 1..(k - 1)} THEN <<wpCheck>> ELSE <<>>)
                       \o SubSeq(wpIdle, k + 1, Len(wpIdle))
  OBVIOUS
<1>8. /\ t \in Seq(WpSocks) /\ Len(t) < Len(wpIdle) /\ Once(t)
      /\ ToSet(t) = ToSet(wpIdle) \ ({wpIdle[i] : i \in 1..k} \ {wpCheck})
  BY <1>2, <1>3, <1>7, WithoutFirst
<1>9. wpIdle' = t
  BY <1>2, <1>7 DEF Kept
<1>10. /\ wpIdle' \in Seq(WpSocks) /\ Once(wpIdle') /\ Len(wpIdle') <= Len(wpIdle)
       /\ ToSet(wpIdle') = ToSet(wpIdle) \ ({wpIdle[k]} \cup (A \ {wpCheck}))
  <2>1. Len(t) \in Nat /\ Len(wpIdle) \in Nat
    BY <1>3, <1>8
  <2>2. ToSet(t) = ToSet(wpIdle) \ ({wpIdle[k]} \cup (A \ {wpCheck}))
    BY <1>3, <1>5, <1>8
  <2> QED BY <1>8, <1>9, <2>1, <2>2
<1>11. ~wpReset
  <2>1. wpReset => Len(wpIdle) = 0
    BY EmptyBucket DEF wpIInv, wpFits
  <2> QED BY <1>2, <2>1
<1>12. /\ wpRefillOK' /\ wpRefilling' \in BOOLEAN
       /\ (wpRefill.todo)' = wpRefill.todo /\ (wpRefill.ready)' = wpRefill.ready
       /\ (wpRefill.at)' # "dial" => wpRefill.todo = 0 /\ wpRefill.ready = {}
       /\ (wpRefill.at)' \in {"start", "dial"} /\ ~wpReset => wpRefilling'
  BY <1>1, WpSchedules
<1>13. wpWaiting' \in BOOLEAN /\ (wpWaiting' => wpCheck # 0)
  BY <1>1 DEF wpIInv, wpTyped, wpProbes
<1>14. PICK L, G : L = {wpIdle[k]} /\ G = A \ {wpCheck}
  OBVIOUS
<1>15. /\ L \subseteq ToSet(wpIdle) /\ wpCheck \notin L /\ wpLent' = wpLent \cup L
       /\ G \subseteq ToSet(wpIdle) /\ wpCheck \notin G /\ L \cap G = {} /\ wpOpen' = wpOpen \ G
       /\ ToSet(wpIdle') = ToSet(wpIdle) \ (L \cup G)
  BY <1>2, <1>3, <1>5, <1>6, <1>10, <1>14
<1>16. UNCHANGED <<wpCheck, wpReset, wpRotate, wpUsed, wpDone>>
  BY <1>1
<1> QED BY <1>10, <1>11, <1>12, <1>13, <1>15, <1>16, WpClientTakes

\* A client finds nothing usable: only the socket under probe stays.
LEMMA wpMissStep == wpIInv /\ wpMiss => wpIInv'
<1> SUFFICES ASSUME wpIInv, wpMiss PROVE wpIInv'
  OBVIOUS
<1>1. /\ UNCHANGED <<wpCheck, wpReset, wpRotate, wpLent, wpUsed, wpDone>>
      /\ wpIdle' = Kept(Len(wpIdle)) /\ wpOpen' = wpOpen \ Stale(Len(wpIdle))
      /\ wpWaiting' = (wpIdle' # <<>>)
      /\ \A i \in 1..Len(wpIdle) : wpIdle[i] = wpCheck \/ wpIdle[i] \in wpSick
  BY DEF wpMiss, Usable
<1>2. /\ wpIdle \in Seq(WpSocks) /\ Once(wpIdle) /\ Len(wpIdle) \in Nat
      /\ {wpIdle[i] : i \in 1..Len(wpIdle)} = ToSet(wpIdle)
  BY InBucket DEF wpIInv, wpTyped, wpApart
<1>3. PICK G : G = ToSet(wpIdle) \ {wpCheck}
  OBVIOUS
<1>4. Stale(Len(wpIdle)) = G
  <2>1. \A x \in ToSet(wpIdle) : x = wpCheck \/ x \in wpSick
    BY <1>1, <1>2
  <2>2. Stale(Len(wpIdle)) = ToSet(wpIdle) \cap (wpSick \ {wpCheck})
    BY <1>2 DEF Stale
  <2> QED BY <1>3, <2>1, <2>2
<1>5. wpIdle' = IF wpCheck \in ToSet(wpIdle) THEN <<wpCheck>> ELSE <<>>
  BY <1>1, <1>2 DEF Kept
<1>6. /\ wpIdle' \in Seq(WpSocks) /\ Once(wpIdle') /\ Len(wpIdle') <= Len(wpIdle)
      /\ ToSet(wpIdle') = ToSet(wpIdle) \ G
  <2>1. CASE wpCheck \in ToSet(wpIdle)
    <3>1. wpCheck \in WpSocks /\ wpIdle' = <<wpCheck>>
      BY <1>2, <1>5, <2>1, InBucket
    <3>2. wpIdle' \in Seq(WpSocks) /\ Len(wpIdle') = 1 /\ wpIdle'[1] = wpCheck /\ Once(wpIdle')
      BY <3>1 DEF Once
    <3>3. PICK t : t = wpIdle'
      OBVIOUS
    <3>4. ToSet(t) = {t[i] : i \in 1..Len(t)}
      BY <3>2, <3>3, InBucket
    <3>5. 1..Len(t) = {1}
      BY <3>2, <3>3
    <3>6. ToSet(t) = {wpCheck}
      BY <3>2, <3>3, <3>4, <3>5
    <3>7. Len(wpIdle) # 0
      <4>1. 1..0 = {}
        OBVIOUS
      <4> QED BY <1>2, <2>1, <4>1
    <3> QED BY <1>2, <1>3, <2>1, <3>2, <3>3, <3>6, <3>7
  <2>2. CASE wpCheck \notin ToSet(wpIdle)
    <3>1. wpIdle' = <<>>
      BY <1>5, <2>2
    <3> QED BY <1>2, <1>3, <2>2, <3>1, EmptyBucket
  <2> QED BY <2>1, <2>2
<1>7. wpReset => wpIdle' = <<>>
  <2>1. wpReset => ToSet(wpIdle) = {}
    BY EmptyBucket DEF wpIInv, wpFits
  <2> QED BY <1>5, <2>1
<1>8. wpWaiting' \in BOOLEAN /\ (wpWaiting' => wpCheck # 0)
  <2>1. \A x \in ToSet(wpIdle) : x # 0
    BY <1>2, InBucket, wpAssumption
  <2> QED BY <1>1, <1>5, <2>1
<1>9. /\ wpRefillOK' /\ wpRefilling' \in BOOLEAN
      /\ (wpRefill.todo)' = wpRefill.todo /\ (wpRefill.ready)' = wpRefill.ready
      /\ (wpRefill.at)' # "dial" => wpRefill.todo = 0 /\ wpRefill.ready = {}
      /\ (wpRefill.at)' \in {"start", "dial"} /\ ~wpReset => wpRefilling'
  <2>1. CASE scheduleRefill
    BY <2>1, WpSchedules
  <2>2. CASE UNCHANGED <<wpKnown, wpRefilling, wpRefill>>
    BY <2>2 DEF wpIInv, wpTyped, wpRefillOK, wpFits
  <2> QED BY <2>1, <2>2 DEF wpMiss
<1>10. PICK L : L = {}
  OBVIOUS
<1>11. /\ L \subseteq ToSet(wpIdle) /\ wpCheck \notin L /\ wpLent' = wpLent \cup L
       /\ G \subseteq ToSet(wpIdle) /\ wpCheck \notin G /\ L \cap G = {} /\ wpOpen' = wpOpen \ G
       /\ ToSet(wpIdle') = ToSet(wpIdle) \ (L \cup G)
  BY <1>1, <1>3, <1>4, <1>6, <1>10
<1>12. UNCHANGED <<wpCheck, wpReset, wpRotate, wpUsed, wpDone>>
  BY <1>1
<1> QED BY <1>6, <1>7, <1>8, <1>9, <1>11, <1>12, WpClientTakes

\* The inductive invariant of the pool holds in every state.
THEOREM PoolInvariance == wpSpec => []wpIInv
<1>1. wpIInv /\ [wpNext]_wpVars => wpIInv'
  <2> SUFFICES ASSUME wpIInv, [wpNext]_wpVars PROVE wpIInv'
    OBVIOUS
  <2>1. CASE UNCHANGED wpVars
    BY <2>1 DEF wpVars, wpIInv, wpTyped, wpRefillOK, wpApart, wpProbes, wpFits
  <2>2. CASE wpNext
    BY <2>2, wpWarmupStep, wpAcquireStep, wpMissStep, wpGiveUpStep, CoolingEndsStep, cancelPoolStep, ResetStep,
       rotateStep, rotateNextStep, rotateProbedStep, rotateEndStep, wpReleaseStep, SocketAgesStep, takeResultStep,
       refillStep, connectOneResultStep, RefillEndsStep DEF wpNext
  <2> QED BY <2>1, <2>2
<1> QED BY <1>1, wpInitIInv, PTL DEF wpSpec

\* The bucket is never over its target, a socket of a client is nobody else's,
\* no open socket is forgotten, no client waits for a probe that will not
\* report, and nothing becomes idle after the reset of a stop.
THEOREM PoolIsSafe == wpSpec => []PoolSafe
<1>1. wpIInv => PoolSafe
  <2> SUFFICES ASSUME wpIInv PROVE PoolSafe
    OBVIOUS
  <2>1. PoolBounded
    <3>1. /\ Len(wpIdle) \in Nat /\ wpRefill.todo \in Nat /\ Cardinality(wpRefill.ready) \in Nat
      BY FS_CardinalityType DEF wpIInv, wpTyped, wpRefillOK, WpRefills
    <3> QED BY <3>1, wpAssumption DEF wpIInv, wpFits, PoolBounded
  <2>2. LentIsExclusive
    <3>1. \A s \in wpLent : s \in WpSocks /\ s # 0
      BY wpAssumption DEF wpIInv, wpTyped
    <3> QED BY <3>1 DEF wpIInv, wpApart, wpProbes, LentIsExclusive
  <2>3. NoSocketLeak /\ WaitIsAnswered /\ StoppedStaysEmpty
    BY DEF wpIInv, wpApart, wpProbes, wpFits, NoSocketLeak, WaitIsAnswered, StoppedStaysEmpty
  <2> QED BY <2>1, <2>2, <2>3 DEF PoolSafe
<1> QED BY <1>1, PoolInvariance, PTL

(***************************************************************************)
(* ProviderRenew                                                           *)
(***************************************************************************)
pnSpec == pnInit /\ [][pnNext]_pnVars

PnPlaces == {"idle", "run", "refresh", "op", "disc", "check", "checked", "sent", "failed", "wait"}
PnEarly == {"run", "refresh", "op", "disc", "check", "checked"}  \* before the command
PnReqRec == [at : PnPlaces, run : Nat, reader : [id : Nat, wan : 0..2]]
PnSentRec == [at : Nat, run : Nat, live : Nat, wan : 0..2, seen : SUBSET (1..2), reader : Nat, current : Nat]
\* One request holds the guard until it ends, and until its command is given the cooldown it found over stays over.
pnTyped ==
    /\ pnNow \in Nat /\ pnRun \in Nat /\ pnRuns \in Nat /\ pnWan \in 1..2 /\ pnReader \in [id : Nat, wan : 0..2]
    /\ pnReaders \in Nat /\ pnNextAt \in Nat /\ pnActive \in BOOLEAN /\ pnReq \in [PnReqs -> PnReqRec] /\ pnSent \subseteq PnSentRec
    /\ pnSeen \subseteq 1..2
pnGuarded ==
    /\ \A r, s \in PnReqs : pnReq[r].at # "idle" => pnActive /\ (pnReq[s].at # "idle" => s = r)
    /\ \A r \in PnReqs : pnReq[r].at \in PnEarly => pnNow >= pnNextAt
pnApart == \A c \in pnSent : c.at + PnCooldown <= pnNextAt
\* The WAN of the request had the route at some time since the locks were taken, once the check has found it so.
pnWatched ==
    \A r \in PnReqs :
        /\ pnReq[r].at \in {"check", "checked"} => pnDisc # 0
        /\ pnReq[r].at = "check" => pnWan \in pnSeen
        /\ pnReq[r].at = "checked" => pnReq[r].reader.wan \in pnSeen
pnIInv == pnTyped /\ pnGuarded /\ pnWatched /\ pnApart /\ RenewedInItsRun

LEMMA pnInitially == pnInit => pnIInv
<1> SUFFICES ASSUME pnInit PROVE pnIInv OBVIOUS
<1>1. pnDone \in PnReqRec /\ pnDone.at = "idle" /\ pnNoReader \in [id : Nat, wan : 0..2]
    BY DEF pnDone, pnNoReader, PnReqRec, PnPlaces
<1>2. pnTyped
    <2>1. pnReq \in [PnReqs -> PnReqRec] BY <1>1 DEF pnInit
    <2>2. pnReader \in [id : Nat, wan : 0..2] BY <1>1 DEF pnInit
    <2>3. pnSent \subseteq PnSentRec BY DEF pnInit
    <2>4. pnNow \in Nat /\ pnRun \in Nat /\ pnRuns \in Nat /\ pnWan \in 1..2 /\ pnReaders \in Nat /\ pnNextAt \in Nat
        BY DEF pnInit
    <2>5. pnActive \in BOOLEAN /\ pnSeen \subseteq 1..2 BY DEF pnInit
    <2> QED BY <2>1, <2>2, <2>3, <2>4, <2>5 DEF pnTyped
<1>3. pnGuarded /\ pnWatched BY <1>1 DEF pnInit, pnGuarded, pnWatched, PnEarly
<1>4. pnApart /\ RenewedInItsRun BY DEF pnInit, pnApart, RenewedInItsRun
<1> QED BY <1>2, <1>3, <1>4 DEF pnIInv

\* Where a request is after a step that only moves it or ends it, and what it then knows.
pnFits(r, v) ==
    /\ v \in PnReqRec /\ pnReq' = [pnReq EXCEPT ![r] = v]
    /\ pnActive' = pnActive \/ (v.at = "idle" /\ pnActive' = FALSE)
    /\ v.at \in PnEarly => pnReq[r].at \in PnEarly
    /\ pnSeen' \subseteq 1..2
    /\ v.at \in {"check", "checked"} => pnDisc' # 0
    /\ v.at = "check" => pnWan \in pnSeen'
    /\ v.at = "checked" => v.reader.wan \in pnSeen'
LEMMA pnMoved ==
    ASSUME pnIInv, NEW r \in PnReqs, pnReq[r].at # "idle", NEW v, pnFits(r, v),
           UNCHANGED <<pnNow, pnRun, pnRuns, pnWan, pnReader, pnReaders, pnNextAt, pnSent>>
    PROVE  pnIInv'
<1>1. pnTyped' BY DEF pnIInv, pnTyped, pnFits
<1>2. \A s \in PnReqs : pnReq'[s] = IF s = r THEN v ELSE pnReq[s] BY DEF pnIInv, pnTyped, pnFits
<1>3. \A s \in PnReqs : s # r => pnReq[s].at = "idle" BY DEF pnIInv, pnGuarded
<1>4. pnGuarded' BY <1>2, <1>3 DEF pnIInv, pnGuarded, pnFits, PnEarly
<1>5. pnWatched' BY <1>2, <1>3 DEF pnWatched, pnFits
<1>6. pnApart' /\ RenewedInItsRun' BY DEF pnIInv, pnApart, RenewedInItsRun
<1> QED BY <1>1, <1>4, <1>5, <1>6 DEF pnIInv

LEMMA pnInductive == pnIInv /\ [pnNext]_pnVars => pnIInv' /\ (pnSent' # pnSent => \A c \in pnSent : pnNow >= c.at + PnCooldown)
<1> SUFFICES ASSUME pnIInv, [pnNext]_pnVars
             PROVE pnIInv' /\ (pnSent' # pnSent => \A c \in pnSent : pnNow >= c.at + PnCooldown)
    OBVIOUS
<1> DEFINE apart == pnSent' # pnSent => \A c \in pnSent : pnNow >= c.at + PnCooldown
<1>0. pnDone \in PnReqRec /\ pnDone.at = "idle" /\ pnNoReader \in [id : Nat, wan : 0..2]
    BY DEF pnDone, pnNoReader, PnReqRec, PnPlaces
<1>t. \A r \in PnReqs : pnReq[r] \in PnReqRec BY DEF pnIInv, pnTyped
<1>1. CASE UNCHANGED pnVars BY <1>1 DEF pnIInv, pnTyped, pnGuarded, pnWatched, pnApart, RenewedInItsRun, pnVars
<1>2. CASE pnTick \/ pnDiscover \/ pnWanChanges \/ pnCloses \/ pnClosed \/ pnPrepare
    <2>1. /\ UNCHANGED <<pnReq, pnDisc, pnActive, pnNextAt, pnSent>> /\ pnNow' \in Nat /\ pnNow' >= pnNow
          /\ pnRun' \in Nat /\ pnRuns' \in Nat /\ pnWan' \in 1..2 /\ pnReaders' \in Nat
        BY <1>2 DEF pnIInv, pnTyped, pnTick, pnDiscover, pnWanChanges, pnCloses, pnClosed, pnPrepare
    <2>2. pnReader' \in [id : Nat, wan : 0..2]
        BY <1>0, <1>2 DEF pnIInv, pnTyped, pnTick, pnDiscover, pnWanChanges, pnCloses, pnClosed, pnPrepare
    <2>3. \/ UNCHANGED <<pnWan, pnSeen>>
          \/ pnSeen' = IF pnDisc = 0 THEN {} ELSE pnSeen \cup {pnWan'}
        BY <1>2 DEF pnTick, pnDiscover, pnWanChanges, pnCloses, pnClosed, pnPrepare
    <2>4. pnTyped' BY <2>1, <2>2, <2>3 DEF pnIInv, pnTyped
    <2>5. pnGuarded' BY <2>1 DEF pnIInv, pnTyped, pnGuarded
    <2>6. pnWatched' BY <2>1, <2>3 DEF pnIInv, pnWatched
    <2>7. pnApart' /\ RenewedInItsRun' BY <2>1 DEF pnIInv, pnApart, RenewedInItsRun
    <2> QED BY <2>1, <2>4, <2>5, <2>6, <2>7 DEF pnIInv
<1>3. ASSUME NEW r \in PnReqs, renewBegin(r) PROVE pnIInv' /\ apart
    <2>1. /\ pnReq[r].at = "idle" /\ ~pnActive /\ pnNow >= pnNextAt /\ pnActive' = TRUE /\ pnReq' = [pnReq EXCEPT ![r].at = "run"]
          /\ UNCHANGED <<pnNow, pnRun, pnRuns, pnWan, pnReader, pnReaders, pnNextAt, pnSent, pnSeen>>
        BY <1>3 DEF renewBegin, pnMove, pnWorld
    <2>2. pnReq' \in [PnReqs -> PnReqRec] /\ \A s \in PnReqs : pnReq'[s].at = IF s = r THEN "run" ELSE pnReq[s].at
        BY <2>1 DEF pnIInv, pnTyped, PnReqRec, PnPlaces
    <2>3. \A s \in PnReqs : pnReq[s].at = "idle" BY <2>1 DEF pnIInv, pnGuarded
    <2>4. pnTyped' BY <2>1, <2>2 DEF pnIInv, pnTyped
    <2>5. pnGuarded' /\ pnWatched' BY <2>1, <2>2, <2>3 DEF pnGuarded, pnWatched
    <2>6. pnApart' /\ RenewedInItsRun' BY <2>1 DEF pnIInv, pnApart, RenewedInItsRun
    <2> QED BY <2>1, <2>4, <2>5, <2>6 DEF pnIInv
<1>4. ASSUME NEW r \in PnReqs,
             \/ renewRun(r) \/ shadowRenewTarget(r) \/ lockOp(r) \/ lockDisc(r) \/ renewCheck(r) \/ renewUnlock(r)
             \/ waitShadowRenewal(r) \/ (renewCommand(r) /\ pnLeave(r))
      PROVE  pnIInv' /\ apart
    <2>1. /\ pnReq[r].at # "idle"
          /\ UNCHANGED <<pnNow, pnRun, pnRuns, pnWan, pnReader, pnReaders, pnNextAt, pnSent>>
        BY <1>4 DEF renewRun, shadowRenewTarget, lockOp, lockDisc, renewCheck, renewCommand, renewUnlock,
                    waitShadowRenewal, pnLeave, pnWorld
    <2>2. \E v : pnFits(r, v)
        <3>1. /\ pnActive \in BOOLEAN /\ pnActive /\ pnRun \in Nat /\ pnReader \in [id : Nat, wan : 0..2] /\ pnWan \in 1..2
              /\ pnSeen \subseteq 1..2 /\ r # 0
            BY <2>1, PnAssumption DEF pnIInv, pnTyped, pnGuarded
        <3>2. ASSUME pnFinish(r), pnSeen' \subseteq 1..2 PROVE pnFits(r, pnDone)
            BY <1>0, <3>2 DEF pnFinish, pnFits, PnEarly
        <3>3. ASSUME NEW at \in PnPlaces \ {"idle"}, pnMove(r, at), pnActive' = pnActive, pnSeen' \subseteq 1..2,
                     at \in PnEarly => pnReq[r].at \in PnEarly, at \in {"check", "checked"} => pnDisc' # 0,
                     at = "check" => pnWan \in pnSeen', at = "checked" => pnReq[r].reader.wan \in pnSeen'
              PROVE  \E v : pnFits(r, v)
            <4> DEFINE v == [pnReq[r] EXCEPT !.at = at]
            <4>1. v \in PnReqRec /\ v.at = at /\ v.reader = pnReq[r].reader BY <1>t DEF PnReqRec
            <4>2. pnReq' = [pnReq EXCEPT ![r] = v] BY <3>3 DEF pnMove
            <4> HIDE DEF v
            <4> QED BY <3>1, <3>3, <4>1, <4>2 DEF pnFits
        <3>6. CASE renewRun(r)
            <4>1. CASE pnFinish(r) BY <3>1, <3>2, <3>6, <4>1 DEF renewRun
            <4>2. CASE pnReq' = [pnReq EXCEPT ![r] = [@ EXCEPT !.at = "refresh", !.run = pnRun]] /\ pnActive' = pnActive
                <5> DEFINE v == [pnReq[r] EXCEPT !.at = "refresh", !.run = pnRun]
                <5>1. v \in PnReqRec /\ v.at = "refresh" BY <1>t, <3>1 DEF PnReqRec, PnPlaces
                <5>2. pnReq' = [pnReq EXCEPT ![r] = v] BY <4>2
                <5>3. pnReq[r].at = "run" /\ pnSeen' = pnSeen BY <3>6 DEF renewRun
                <5> HIDE DEF v
                <5> QED BY <3>1, <4>2, <5>1, <5>2, <5>3 DEF pnFits, PnEarly
            <4> QED BY <3>6, <4>1, <4>2 DEF renewRun
        <3>7. CASE shadowRenewTarget(r)
            <4>1. CASE pnFinish(r) BY <3>1, <3>2, <3>7, <4>1 DEF shadowRenewTarget
            <4>2. CASE pnReq' = [pnReq EXCEPT ![r] = [@ EXCEPT !.at = "op", !.reader = pnReader]] /\ pnActive' = pnActive
                <5> DEFINE v == [pnReq[r] EXCEPT !.at = "op", !.reader = pnReader]
                <5>1. v \in PnReqRec /\ v.at = "op" BY <1>t, <3>1 DEF PnReqRec, PnPlaces
                <5>2. pnReq' = [pnReq EXCEPT ![r] = v] BY <4>2
                <5>3. pnReq[r].at = "refresh" /\ pnSeen' = pnSeen BY <3>7 DEF shadowRenewTarget
                <5> HIDE DEF v
                <5> QED BY <3>1, <4>2, <5>1, <5>2, <5>3 DEF pnFits, PnEarly
            <4> QED BY <3>7, <4>1, <4>2 DEF shadowRenewTarget
        <3>8. CASE lockOp(r) BY <3>1, <3>2, <3>3, <3>8 DEF lockOp, PnPlaces, PnEarly
        <3>9. CASE lockDisc(r)
            <4>1. CASE pnFinish(r) /\ pnSeen' = pnSeen BY <3>1, <3>2, <4>1
            <4>2. CASE pnDisc' = r /\ pnSeen' = {pnWan} /\ pnMove(r, "check") /\ pnActive' = pnActive /\ pnReq[r].at = "disc"
                BY <3>1, <3>3, <4>2 DEF PnPlaces, PnEarly
            <4> QED BY <3>9, <4>1, <4>2 DEF lockDisc
        <3>10. CASE pnLeave(r) BY <3>2, <3>10 DEF pnLeave
        <3>11. CASE renewCheck(r)
            <4>1. CASE pnMove(r, "checked") /\ verifyShadowRenewTarget(r) /\ UNCHANGED <<pnDisc, pnActive, pnSeen>> /\ pnReq[r].at = "check"
                <5>1. pnDisc # 0 /\ pnReq[r].reader.wan \in pnSeen BY <4>1 DEF pnIInv, pnWatched, verifyShadowRenewTarget
                <5> QED BY <3>1, <3>3, <4>1, <5>1 DEF PnPlaces, PnEarly
            <4> QED BY <3>10, <3>11, <4>1 DEF renewCheck
        <3>12. CASE renewUnlock(r)
            <4>1. pnSeen' = {} BY <3>12 DEF renewUnlock
            <4>2. CASE pnFinish(r) BY <3>2, <4>1, <4>2
            <4>3. CASE pnMove(r, "wait") /\ pnActive' = pnActive BY <3>3, <4>1, <4>3 DEF PnPlaces, PnEarly
            <4> QED BY <3>12, <4>2, <4>3 DEF renewUnlock
        <3>13. CASE waitShadowRenewal(r) BY <3>1, <3>2, <3>13 DEF waitShadowRenewal
        <3> QED BY <1>4, <3>6, <3>7, <3>8, <3>9, <3>10, <3>11, <3>12, <3>13
    <2>3. pnIInv' BY <2>1, <2>2, pnMoved
    <2> QED BY <2>1, <2>3
<1>5. ASSUME NEW r \in PnReqs, renewCommand(r) PROVE pnIInv' /\ apart
    <2>1. pnReq[r].at = "checked" /\ UNCHANGED <<pnNow, pnRun, pnRuns, pnWan, pnReader, pnReaders>>
        BY <1>5 DEF renewCommand, pnWorld
    <2>2. CASE pnLeave(r) BY <1>4, <1>5, <2>2
    <2>3. ASSUME ~pnCut(r), sameReader(r), NEW ok \in BOOLEAN, sent(ok), pnMove(r, IF ok THEN "sent" ELSE "failed"), UNCHANGED <<pnActive, pnSeen>>,
                 pnSent' = pnSent \cup {[at |-> pnNow, run |-> pnReq[r].run, live |-> pnRun, wan |-> pnReq[r].reader.wan,
                                         seen |-> pnSeen, reader |-> pnReq[r].reader.id, current |-> pnReader.id]}
          PROVE  pnIInv' /\ apart
        <3> DEFINE at == IF ok THEN "sent" ELSE "failed"
                   c == [at |-> pnNow, run |-> pnReq[r].run, live |-> pnRun, wan |-> pnReq[r].reader.wan,
                         seen |-> pnSeen, reader |-> pnReq[r].reader.id, current |-> pnReader.id]
        <3>1. pnNow \in Nat /\ pnNextAt \in Nat /\ pnNow >= pnNextAt /\ pnReq[r] \in PnReqRec
            BY <1>t, <2>1 DEF pnIInv, pnTyped, pnGuarded, PnEarly
        <3>2. pnNextAt' = pnNow + PnCooldown BY <2>3 DEF sent
        <3>3. c \in PnSentRec /\ c.at = pnNow /\ c.run = c.live /\ c.wan \in c.seen /\ c.reader = c.current
            <4>1. pnReq[r].run \in Nat /\ pnReq[r].reader \in [id : Nat, wan : 0..2] BY <3>1 DEF PnReqRec
            <4>2. pnReader \in [id : Nat, wan : 0..2] /\ pnRun \in Nat /\ pnSeen \subseteq 1..2 BY DEF pnIInv, pnTyped
            <4>3. pnReq[r].run = pnRun /\ pnReader = pnReq[r].reader BY <2>3 DEF sameReader, pnCut
            <4>4. pnReq[r].reader.wan \in pnSeen BY <2>1 DEF pnIInv, pnWatched
            <4> QED BY <3>1, <4>1, <4>2, <4>3, <4>4 DEF PnSentRec
        <3>4. at \in {"sent", "failed"} /\ pnReq' = [pnReq EXCEPT ![r].at = at] BY <2>3 DEF pnMove
        <3>5. pnSent' = pnSent \cup {c} BY <2>3
        <3> HIDE DEF c, at
        <3>6. pnReq' \in [PnReqs -> PnReqRec] /\ \A s \in PnReqs : pnReq'[s].at = IF s = r THEN at ELSE pnReq[s].at
            BY <3>4 DEF pnIInv, pnTyped, PnReqRec, PnPlaces
        <3>7. \A s \in PnReqs : s # r => pnReq[s].at = "idle" BY <2>1 DEF pnIInv, pnGuarded
        <3>8. \A d \in pnSent : d.at \in Nat /\ d.at + PnCooldown <= pnNextAt
            BY DEF pnIInv, pnTyped, pnApart, PnSentRec
        <3>9. pnTyped' BY <2>1, <2>3, <3>1, <3>2, <3>3, <3>5, <3>6, PnAssumption DEF pnIInv, pnTyped
        <3>10. pnGuarded' /\ pnWatched' BY <2>1, <2>3, <3>4, <3>6, <3>7 DEF pnIInv, pnGuarded, pnWatched, PnEarly
        <3>11. \A d \in pnSent : pnNow >= d.at + PnCooldown BY <3>1, <3>8, PnAssumption
        <3>12. pnApart' BY <3>1, <3>2, <3>3, <3>5, <3>8, <3>11, PnAssumption DEF pnApart
        <3>13. RenewedInItsRun' BY <3>3, <3>5 DEF pnIInv, RenewedInItsRun
        <3> QED BY <3>9, <3>10, <3>11, <3>12, <3>13 DEF pnIInv
    <2> QED BY <1>5, <2>2, <2>3 DEF renewCommand
<1> QED BY <1>1, <1>2, <1>3, <1>4, <1>5 DEF pnNext

\* The firmware is told to renew at most once in the cooldown, by a request of the live run whose reader is watching,
\* for a WAN that had the route while both locks were held.
THEOREM RenewIsSafe == pnSpec => RenewSafe
<1>1. pnInit => pnIInv BY pnInitially
<1>2. pnIInv /\ [pnNext]_pnVars => pnIInv' BY pnInductive
<1>3. pnIInv => RenewedInItsRun BY DEF pnIInv
<1>4. pnIInv /\ [pnNext]_pnVars => [pnSent' # pnSent => \A c \in pnSent : pnNow >= c.at + PnCooldown]_pnVars
    BY pnInductive
<1> QED BY <1>1, <1>2, <1>3, <1>4, PTL DEF pnSpec, RenewSafe, RenewedOnce

(***************************************************************************)
(* DhcpTracker                                                             *)
(***************************************************************************)
dtSpec == dtInit /\ [][dtNext]_dtVars

DtPendRec == [started : Nat, reg : Nat, seq : Nat \ {0}, server : BOOLEAN, txn : Nat]
DtObsRec == [seq : Nat, txn : Nat, of : Nat, exp : Nat, copy : Nat, reg : Nat]
\* A transaction that is open is younger than the one that was answered last, and as old as its first REQUEST.
dtOpen(pend, seq, obs) ==
    \A x \in DtXids : pend[x] # dtNoPend => pend[x].started = pend[x].reg /\ pend[x].seq <= seq /\ pend[x].seq > obs.seq
dtTyped ==
    /\ dtNow \in Nat /\ dtSeq \in Nat /\ dtPend \in [DtXids -> DtPendRec \cup {dtNoPend}] /\ dtObs \in DtObsRec
    /\ \A r \in dtNet : r.xid \in DtXids /\ r.copy \in Nat /\ r.txn \in Nat
    /\ dtTxn \in Seq([xid : DtXids, server : BOOLEAN])
dtIInv == dtTyped /\ dtObs.seq <= dtSeq /\ dtOpen(dtPend, dtSeq, dtObs) /\ LeaseFromRequest

LEMMA dtInitially == dtInit => dtIInv
<1> SUFFICES ASSUME dtInit PROVE dtIInv OBVIOUS
<1>1. dtObs \in DtObsRec /\ dtObs.seq = 0 /\ dtObs.exp = 0 /\ dtObs.copy = 0 BY DEF dtInit, dtNone, DtObsRec
<1>2. dtTyped BY <1>1 DEF dtInit, dtTyped
<1>3. dtOpen(dtPend, dtSeq, dtObs) BY DEF dtInit, dtOpen
<1>4. LeaseFromRequest BY <1>1, DtAssumption DEF LeaseFromRequest
<1>5. dtObs.seq <= dtSeq BY <1>1 DEF dtInit
<1> QED BY <1>2, <1>3, <1>4, <1>5 DEF dtIInv

LEMMA dtPrune ==
    ASSUME dtIInv
    PROVE  dtPruned \in [DtXids -> DtPendRec \cup {dtNoPend}] /\ dtOpen(dtPruned, dtSeq, dtObs)
<1>1. \A x \in DtXids : dtPruned[x] = dtPend[x] \/ dtPruned[x] = dtNoPend BY DEF dtPruned
<1>2. dtPruned \in [DtXids -> DtPendRec \cup {dtNoPend}] BY DEF dtPruned, dtIInv, dtTyped
<1>3. dtOpen(dtPruned, dtSeq, dtObs) BY <1>1 DEF dtIInv, dtOpen
<1> QED BY <1>2, <1>3

LEMMA dtRequestStep ==
    ASSUME dtIInv, NEW txn \in Seq([xid : DtXids, server : BOOLEAN]), NEW t \in 1..Len(txn), dtRequest(t, txn)
    PROVE  dtIInv' /\ dtObs' = dtObs
<1> DEFINE x == txn[t].xid
           pend == dtPruned
<1>1. x \in DtXids /\ txn[t].server \in BOOLEAN /\ t \in Nat
    <2>1. txn[t] \in [xid : DtXids, server : BOOLEAN] BY ElementOfSeq
    <2> QED BY <2>1
<1>2. pend \in [DtXids -> DtPendRec \cup {dtNoPend}] /\ dtOpen(pend, dtSeq, dtObs) BY dtPrune
<1>3. /\ dtTxn' = txn /\ dtNow' = dtNow /\ dtObs' = dtObs
      /\ \/ /\ pend[x] # dtNoPend /\ dtSeq' = dtSeq
            /\ dtPend' = pend \/ dtPend' = [pend EXCEPT ![x] = pend[x]]
         \/ /\ dtSeq' = dtSeq + 1
            /\ dtPend' = [evicted(pend, x) EXCEPT ![x] =
                    [started |-> dtNow, reg |-> dtNow, seq |-> dtSeq + 1, server |-> txn[t].server, txn |-> t]]
    BY DEF dtRequest, retransmit
<1>4. dtNow \in Nat /\ dtSeq \in Nat /\ dtObs \in DtObsRec /\ dtObs.seq \in Nat BY DEF dtIInv, dtTyped, DtObsRec
<1>5. \A r \in dtNet' : r.xid \in DtXids /\ r.copy \in Nat /\ r.txn \in Nat
    <2>1. PICK kind : dtNet' = dtNet \cup {[txn |-> t, xid |-> x, copy |-> dtNow, kind |-> kind]} BY DEF dtRequest
    <2> QED BY <1>1, <1>4, <2>1 DEF dtIInv, dtTyped
<1> HIDE DEF x, pend
<1>6. /\ dtPend' \in [DtXids -> DtPendRec \cup {dtNoPend}] /\ dtSeq' \in Nat /\ dtOpen(dtPend', dtSeq', dtObs)
      /\ dtObs.seq <= dtSeq'
    <2>1. dtObs.seq <= dtSeq BY DEF dtIInv
    <2>2. CASE dtSeq' = dtSeq /\ (dtPend' = pend \/ dtPend' = [pend EXCEPT ![x] = pend[x]])
        <3>1. dtPend' = pend BY <1>1, <1>2, <2>2
        <3> QED BY <1>2, <1>4, <2>1, <2>2, <3>1
    <2>3. CASE /\ dtSeq' = dtSeq + 1
               /\ dtPend' = [evicted(pend, x) EXCEPT ![x] =
                    [started |-> dtNow, reg |-> dtNow, seq |-> dtSeq + 1, server |-> txn[t].server, txn |-> t]]
        <3> DEFINE new == [started |-> dtNow, reg |-> dtNow, seq |-> dtSeq + 1, server |-> txn[t].server, txn |-> t]
                   left == evicted(pend, x)
        <3>1. new \in DtPendRec /\ new.started = new.reg /\ new.seq = dtSeq + 1 BY <1>1, <1>4 DEF DtPendRec
        <3>2. left \in [DtXids -> DtPendRec \cup {dtNoPend}] /\ \A y \in DtXids : left[y] = pend[y] \/ left[y] = dtNoPend
            BY <1>2 DEF evicted
        <3> HIDE DEF new, left
        <3>3. dtPend' = [left EXCEPT ![x] = new] BY <2>3 DEF new, left
        <3>4. dtPend' \in [DtXids -> DtPendRec \cup {dtNoPend}] BY <1>1, <3>1, <3>2, <3>3
        <3>5. \A y \in DtXids : dtPend'[y] = IF y = x THEN new ELSE left[y] BY <1>1, <3>2, <3>3
        <3>6. \A y \in DtXids : pend[y] # dtNoPend => pend[y].seq \in Nat BY <1>2 DEF DtPendRec
        <3>7. dtOpen(dtPend', dtSeq', dtObs) BY <1>2, <1>4, <2>1, <2>3, <3>1, <3>2, <3>5, <3>6 DEF dtOpen
        <3> QED BY <1>4, <2>1, <2>3, <3>4, <3>7
    <2> QED BY <1>3, <2>2, <2>3
<1>7. dtTyped' BY <1>3, <1>4, <1>5, <1>6 DEF dtTyped
<1>8. LeaseFromRequest' BY <1>3 DEF dtIInv, LeaseFromRequest
<1>9. dtOpen(dtPend, dtSeq, dtObs)' /\ (dtObs.seq <= dtSeq)' BY <1>3, <1>6
<1> QED BY <1>3, <1>7, <1>8, <1>9 DEF dtIInv

LEMMA dtDeliverStep ==
    ASSUME dtIInv, NEW r \in dtNet, dtDeliver(r)
    PROVE  dtIInv' /\ (dtObs' # dtObs => dtObs'.seq > dtObs.seq)
<1> DEFINE pend == dtPruned
           p == pend[r.xid]
<1>1. pend \in [DtXids -> DtPendRec \cup {dtNoPend}] /\ dtOpen(pend, dtSeq, dtObs) BY dtPrune
<1>2. r.xid \in DtXids /\ r.copy \in Nat /\ r.txn \in Nat BY DEF dtIInv, dtTyped
<1>3. /\ UNCHANGED <<dtNow, dtTxn, dtNet, dtSeq>>
      /\ \/ /\ p # dtNoPend /\ dtPend' = complete(pend, p)
            /\ \E exp \in {p.started + DtLease, 0} :
                   dtObs' = [seq |-> p.seq, txn |-> r.txn, of |-> p.txn, copy |-> r.copy, reg |-> p.reg, exp |-> exp]
         \/ dtPend' = pend /\ dtObs' = dtObs
    BY DEF dtDeliver, expires
<1>4. dtNow \in Nat /\ dtSeq \in Nat /\ dtObs \in DtObsRec /\ dtObs.seq \in Nat BY DEF dtIInv, dtTyped, DtObsRec
<1>5. CASE dtPend' = pend /\ dtObs' = dtObs
    <2>1. dtTyped' BY <1>1, <1>3, <1>5 DEF dtIInv, dtTyped
    <2>2. LeaseFromRequest' /\ (dtObs.seq <= dtSeq)' BY <1>3, <1>5 DEF dtIInv, LeaseFromRequest
    <2>3. dtOpen(dtPend, dtSeq, dtObs)' BY <1>1, <1>3, <1>5
    <2> QED BY <1>5, <2>1, <2>2, <2>3 DEF dtIInv
<1>6. ASSUME p # dtNoPend, dtPend' = complete(pend, p), NEW exp \in {p.started + DtLease, 0},
             dtObs' = [seq |-> p.seq, txn |-> r.txn, of |-> p.txn, copy |-> r.copy, reg |-> p.reg, exp |-> exp]
      PROVE  dtIInv' /\ (dtObs' # dtObs => dtObs'.seq > dtObs.seq)
    <2>1. /\ p.started \in Nat /\ p.reg \in Nat /\ p.seq \in Nat /\ p.txn \in Nat
          /\ p.started = p.reg /\ p.seq <= dtSeq /\ p.seq > dtObs.seq
        BY <1>1, <1>2, <1>6 DEF DtPendRec, dtOpen
    <2> HIDE DEF p, pend
    <2>2. dtObs' \in DtObsRec /\ dtObs'.seq = p.seq /\ dtObs'.exp = exp /\ dtObs'.copy = r.copy /\ dtObs'.reg = p.reg
        BY <1>2, <1>6, <2>1, DtAssumption DEF DtObsRec
    <2>3. /\ dtPend' \in [DtXids -> DtPendRec \cup {dtNoPend}]
          /\ \A x \in DtXids : dtPend'[x] = dtNoPend \/ (dtPend'[x] = pend[x] /\ ~(pend[x].seq <= p.seq))
        BY <1>1, <1>6 DEF complete
    <2>4. dtTyped' BY <1>3, <2>2, <2>3 DEF dtIInv, dtTyped
    <2>5. \A x \in DtXids : pend[x] # dtNoPend => pend[x].seq \in Nat BY <1>1 DEF DtPendRec
    <2>6. dtOpen(dtPend, dtSeq, dtObs)' BY <1>1, <1>3, <2>1, <2>2, <2>3, <2>5 DEF dtOpen
    <2>7. LeaseFromRequest' BY <1>2, <1>6, <2>1, <2>2, DtAssumption DEF LeaseFromRequest
    <2>8. (dtObs.seq <= dtSeq)' BY <1>3, <2>1, <2>2
    <2> QED BY <2>1, <2>2, <2>4, <2>6, <2>7, <2>8 DEF dtIInv
<1> QED BY <1>3, <1>5, <1>6

LEMMA dtInductive == dtIInv /\ [dtNext]_dtVars => dtIInv' /\ (dtObs' # dtObs => dtObs'.seq > dtObs.seq)
<1> SUFFICES ASSUME dtIInv, [dtNext]_dtVars PROVE dtIInv' /\ (dtObs' # dtObs => dtObs'.seq > dtObs.seq) OBVIOUS
<1>1. CASE dtTick \/ UNCHANGED dtVars
    <2>1. dtNow' \in Nat /\ UNCHANGED <<dtTxn, dtNet, dtPend, dtSeq, dtObs>>
        BY <1>1 DEF dtTick, dtVars, dtIInv, dtTyped
    <2> QED BY <2>1 DEF dtIInv, dtTyped, dtOpen, LeaseFromRequest
<1>2. CASE dtMalformed
    <2>1. dtPend' = dtPruned /\ UNCHANGED <<dtNow, dtTxn, dtNet, dtSeq, dtObs>> BY <1>2 DEF dtMalformed
    <2>2. dtTyped' BY <2>1, dtPrune DEF dtIInv, dtTyped
    <2>3. dtOpen(dtPend, dtSeq, dtObs)' BY <2>1, dtPrune
    <2> QED BY <2>1, <2>2, <2>3 DEF dtIInv, LeaseFromRequest
<1>3. CASE dtRenew
    <2>1. PICK x \in DtXids, s \in BOOLEAN : dtRequest(Len(dtTxn) + 1, Append(dtTxn, [xid |-> x, server |-> s]))
        BY <1>3 DEF dtRenew
    <2>2. /\ Append(dtTxn, [xid |-> x, server |-> s]) \in Seq([xid : DtXids, server : BOOLEAN])
          /\ Len(dtTxn) + 1 \in 1..Len(Append(dtTxn, [xid |-> x, server |-> s]))
        BY DEF dtIInv, dtTyped
    <2> QED BY <2>1, <2>2, dtRequestStep
<1>4. CASE dtResend
    <2>1. dtTxn \in Seq([xid : DtXids, server : BOOLEAN]) /\ Len(dtTxn) \in 1..Len(dtTxn)
        BY <1>4 DEF dtResend, dtIInv, dtTyped
    <2> QED BY <1>4, <2>1, dtRequestStep DEF dtResend
<1>5. ASSUME NEW r \in dtNet, dtDeliver(r) PROVE dtIInv' /\ (dtObs' # dtObs => dtObs'.seq > dtObs.seq)
    BY <1>5, dtDeliverStep
<1> QED BY <1>1, <1>2, <1>3, <1>4, <1>5 DEF dtNext

\* Late, lost, repeated and foreign packets never take a lease back, and never make it end later than its REQUEST allows.
THEOREM TrackerIsSafe == dtSpec => TrackerSafe
<1>1. dtInit => dtIInv BY dtInitially
<1>2. dtIInv /\ [dtNext]_dtVars => dtIInv' BY dtInductive
<1>3. dtIInv => LeaseFromRequest BY DEF dtIInv
<1>4. dtIInv /\ [dtNext]_dtVars => [dtObs' # dtObs => dtObs'.seq > dtObs.seq]_dtVars BY dtInductive
<1> QED BY <1>1, <1>2, <1>3, <1>4, PTL DEF dtSpec, TrackerSafe, NoLeaseRollback

(***************************************************************************)
(* ProviderInform                                                          *)
(***************************************************************************)
piSpec == piInit /\ [][piNext]_piVars

PiTargetRec == [wan : 1..2, server : PiServers, stamp : Nat, cast : BOOLEAN]
PiAnsRec == [server : 0..2, until : Nat, refresh : BOOLEAN]
PiPassRec == [at : {"inform", "unicast", "cast", "broadcast", "recheck"}, key : 0..2, sent : 0..1, found : PiAnsRec]
piTyped ==
    /\ piNow \in Nat /\ piWan \in 0..2 /\ piTarget \in PiTargetRec \cup {piNoTarget} /\ piAns \in PiAnsRec
    /\ piAck.stamp \in Nat /\ (piAck.stamp # 0 => piAck.server \in PiServers)
    /\ piRetryAt \in Nat /\ piCast \in [wan : 0..2, until : Nat] /\ piLast \in [wan : 0..2, ended : Nat]
    /\ piPass \in PiPassRec \cup {piIdle}
\* A pass asks the known server first, then nobody else.
piOnce ==
    piPass # piIdle => /\ piPass.at = "inform" => piPass.sent = 0
                       /\ piPass.at \in {"unicast", "broadcast"} => piPass.key # 0
                       /\ piPass.at = "unicast" => targetValid(piPass.key)
                       /\ piPass.key # 0 /\ piLast.ended > 0 => piLast.wan = piPass.key
                       /\ piPass.key # 0 /\ piTarget # piNoTarget => piTarget.wan = piPass.key
\* The end of the last exchange is what the next one waits for: by the cooldown of the server that is known, or by that of
\* the broadcast.
piWaits ==
    piLast.ended > 0 =>
        IF piTarget = piNoTarget THEN piCast.wan = piLast.wan /\ piCast.until >= piLast.ended + PiRetry
        ELSE piTarget.wan = piLast.wan /\ piRetryAt >= piLast.ended + PiRetry
piIInv == piTyped /\ piOnce /\ piWaits

LEMMA piConstants ==
    /\ piNoAns \in PiAnsRec /\ piNoLast \in [wan : 0..2, ended : Nat] /\ piNoLast.ended = 0 /\ piNoTarget.server = 0
    /\ piIdle.at = "idle"
    /\ \A t \in PiTargetRec : t.server \in {1, 2} /\ t.wan \in 1..2 /\ t.stamp \in Nat
    /\ \A p \in PiPassRec : p # piIdle /\ p.at # "idle"
<1>1. piIdle.at = "idle" BY DEF piIdle
<1>2. \A p \in PiPassRec : p.at # "idle" BY DEF PiPassRec
<1>3. \A t \in PiTargetRec : t.server \in {1, 2} /\ t.wan \in 1..2 /\ t.stamp \in Nat BY DEF PiTargetRec, PiServers
<1>4. piNoAns \in PiAnsRec BY DEF piNoAns, PiAnsRec
<1>5. piNoLast \in [wan : 0..2, ended : Nat] /\ piNoLast.ended = 0 BY DEF piNoLast
<1> QED BY <1>1, <1>2, <1>3, <1>4, <1>5 DEF piNoTarget

LEMMA piInitially == piInit => piIInv
<1> SUFFICES ASSUME piInit PROVE piIInv OBVIOUS
<1>1. piTyped
    <2>1. piTarget \in PiTargetRec \cup {piNoTarget} /\ piAns \in PiAnsRec /\ piLast \in [wan : 0..2, ended : Nat] /\ piPass \in PiPassRec \cup {piIdle}
        BY piConstants DEF piInit
    <2>2. piCast \in [wan : 0..2, until : Nat] /\ piAck.stamp = 0 /\ piNow \in Nat BY PiAssumption DEF piInit
    <2> QED BY <2>1, <2>2 DEF piInit, piTyped
<1>2. piOnce /\ piWaits BY piConstants DEF piInit, piOnce, piWaits
<1> QED BY <1>1, <1>2 DEF piIInv

\* What a pass knows after it has read the route and the log.
LEMMA piRemembers ==
    ASSUME piIInv, NEW key \in 0..2, NEW r, r = remember(key)
    PROVE  /\ r[1] \in PiTargetRec \cup {piNoTarget} /\ r[2] \in PiAnsRec /\ r[3] \in Nat
           /\ (piTarget = piNoTarget \/ key = 0 \/ piTarget.wan = key) /\ r[1].server = piTarget.server =>
                /\ r[3] = piRetryAt
                /\ (r[1] = piNoTarget <=> piTarget = piNoTarget) /\ (r[1] # piNoTarget => r[1].wan = piTarget.wan)
           /\ piTarget # piNoTarget /\ r[1] # piNoTarget /\ piTarget.wan = r[1].wan /\ piTarget.stamp = r[1].stamp
                => piTarget.server = r[1].server
           /\ key # 0 /\ r[1] # piNoTarget => r[1].wan = key
<1> DEFINE gone == key # 0 /\ piTarget # piNoTarget /\ ~targetValid(key)
           target == IF gone THEN piNoTarget ELSE piTarget
           ans == IF gone THEN piNoAns ELSE piAns
           retry == IF gone THEN 0 ELSE piRetryAt
           new == [wan |-> key, server |-> piAck.server, stamp |-> piAck.stamp, cast |-> FALSE]
<1>1. /\ piTarget \in PiTargetRec \cup {piNoTarget} /\ piAns \in PiAnsRec /\ piRetryAt \in Nat
      /\ piAck.stamp \in Nat /\ (piAck.stamp # 0 => piAck.server \in PiServers)
    BY DEF piIInv, piTyped
<1>2. target \in PiTargetRec \cup {piNoTarget} /\ ans \in PiAnsRec /\ retry \in Nat BY <1>1, piConstants
<1>3. gone <=> key # 0 /\ piTarget # piNoTarget /\ piTarget.wan # key BY DEF targetValid
<1>4. \/ r = <<target, ans, retry>>
      \/ /\ piAck.stamp # 0 /\ key # 0 /\ target = piNoTarget /\ r = <<new, ans, retry>>
      \/ /\ piAck.stamp # 0 /\ key # 0 /\ target # piNoTarget /\ ~repeated(key)
         /\ \/ /\ target.server = piAck.server
               /\ r = <<[new EXCEPT !.cast = target.cast], IF ans = piNoAns THEN ans ELSE [ans EXCEPT !.refresh = TRUE], retry>>
            \/ target.server # piAck.server /\ r = <<new, piNoAns, 0>>
    BY DEF remember
<1>5. piAck.stamp # 0 /\ key # 0 => new \in PiTargetRec BY <1>1 DEF PiTargetRec
<1>6. new.wan = key /\ new.server = piAck.server /\ new.stamp = piAck.stamp OBVIOUS
<1>7. target # piNoTarget => target = piTarget /\ ~gone OBVIOUS
<1>8. gone => target = piNoTarget OBVIOUS
<1>9. target = piNoTarget => piTarget = piNoTarget \/ gone OBVIOUS
<1>10. ~gone => target = piTarget /\ retry = piRetryAt OBVIOUS
<1> HIDE DEF gone, target, ans, retry, new
<1>11. CASE r = <<target, ans, retry>>
    <2>1. r[1] = target /\ r[2] = ans /\ r[3] = retry BY <1>11
    <2> QED BY <1>2, <1>3, <1>7, <1>8, <1>9, <1>10, <2>1
<1>12. CASE /\ piAck.stamp # 0 /\ key # 0 /\ target = piNoTarget /\ r = <<new, ans, retry>>
    <2>1. r[1] = new /\ r[2] = ans /\ r[3] = retry /\ new \in PiTargetRec /\ new.server \in {1, 2}
        BY <1>5, <1>12, piConstants
    <2>2. piTarget = piNoTarget => piTarget.server = 0 BY piConstants
    <2> QED BY <1>2, <1>3, <1>6, <1>9, <1>12, <2>1, <2>2
<1>13. CASE /\ piAck.stamp # 0 /\ key # 0 /\ target # piNoTarget /\ ~repeated(key) /\ target.server = piAck.server
            /\ r = <<[new EXCEPT !.cast = target.cast], IF ans = piNoAns THEN ans ELSE [ans EXCEPT !.refresh = TRUE], retry>>
    <2>1. target \in PiTargetRec /\ target.cast \in BOOLEAN /\ target = piTarget /\ target.wan = key
        BY <1>1, <1>2, <1>3, <1>7, <1>13 DEF PiTargetRec
    <2>2. /\ [new EXCEPT !.cast = target.cast] \in PiTargetRec
          /\ [new EXCEPT !.cast = target.cast].wan = key /\ [new EXCEPT !.cast = target.cast].server = piAck.server
          /\ [new EXCEPT !.cast = target.cast] # piNoTarget
        <3>1. [new EXCEPT !.cast = target.cast] \in PiTargetRec BY <1>5, <1>13, <2>1 DEF PiTargetRec
        <3>2. [new EXCEPT !.cast = target.cast].wan = key /\ [new EXCEPT !.cast = target.cast].server = piAck.server
            BY <1>5, <1>6, <1>13 DEF PiTargetRec
        <3>3. \A t \in PiTargetRec : t # piNoTarget BY piConstants
        <3> QED BY <3>1, <3>2, <3>3
    <2>3. (IF ans = piNoAns THEN ans ELSE [ans EXCEPT !.refresh = TRUE]) \in PiAnsRec BY <1>2 DEF PiAnsRec
    <2>4. /\ r[1] = [new EXCEPT !.cast = target.cast] /\ r[3] = retry
          /\ r[2] = (IF ans = piNoAns THEN ans ELSE [ans EXCEPT !.refresh = TRUE])
        BY <1>13
    <2> QED BY <1>2, <1>7, <1>10, <1>13, <2>1, <2>2, <2>3, <2>4
<1>14. CASE /\ piAck.stamp # 0 /\ key # 0 /\ target # piNoTarget /\ ~repeated(key) /\ target.server # piAck.server
            /\ r = <<new, piNoAns, 0>>
    <2>1. target \in PiTargetRec /\ target = piTarget /\ target.wan = key /\ piTarget # piNoTarget
        BY <1>1, <1>2, <1>3, <1>7, <1>14
    <2>2. r[1] = new /\ r[2] = piNoAns /\ r[3] = 0 /\ new \in PiTargetRec BY <1>5, <1>14
    <2>3. piTarget.stamp # piAck.stamp BY <1>14, <2>1 DEF repeated
    <2> QED BY <1>6, <1>14, <2>1, <2>2, <2>3, piConstants
<1> QED BY <1>4, <1>11, <1>12, <1>13, <1>14

\* What a step may do: see OneExchange, AnswerIsLive, AttemptsApart and PeerNotReplayed.
piLiveStep == piPass.at = "recheck" /\ piPass'.at = "idle" /\ piGot'.server # 0 => piNow < piGot'.until
piApartStep ==
    piPass.at \in {"inform", "cast"} /\ piPass'.at \in {"unicast", "broadcast"} /\ piLast.wan = piPass.key /\ piLast.ended > 0
        => piNow >= piLast.ended + PiRetry
piPeerStep ==
    piTarget # piNoTarget /\ piTarget' # piNoTarget /\ piTarget.wan = piTarget'.wan /\ piTarget.stamp = piTarget'.stamp
        /\ piPass = piIdle => piTarget.server = piTarget'.server
piStep == piLiveStep /\ piApartStep /\ piPeerStep

\* The world moves on; nothing of the discovery changes.
LEMMA piWorldStep ==
    ASSUME piIInv, piTick \/ piWanChanges \/ piLogged \/ UNCHANGED piVars
    PROVE  piIInv' /\ piStep
<1>1. /\ UNCHANGED <<piTarget, piAns, piRetryAt, piCast, piPass, piGot, piLast>>
      /\ piNow' \in Nat /\ piWan' \in 0..2 /\ piAck'.stamp \in Nat /\ (piAck'.stamp # 0 => piAck'.server \in PiServers)
    <2>1. CASE piTick BY <2>1 DEF piTick, piKnown, piIInv, piTyped
    <2>2. CASE piWanChanges BY <2>2 DEF piWanChanges, piKnown, piIInv, piTyped
    <2>3. CASE piLogged
        <3>1. PICK s \in PiServers : piAck' = [stamp |-> piAck.stamp + 1, server |-> s, wan |-> piWan]
            BY <2>3 DEF piLogged
        <3>2. piAck.stamp \in Nat BY DEF piIInv, piTyped
        <3>3. piAck'.stamp = piAck.stamp + 1 /\ piAck'.server = s BY <3>1
        <3> QED BY <2>3, <3>2, <3>3 DEF piLogged, piKnown, piIInv, piTyped
    <2>4. CASE UNCHANGED piVars BY <2>4 DEF piVars, piIInv, piTyped
    <2> QED BY <2>1, <2>2, <2>3, <2>4
<1>2. piTyped' BY <1>1 DEF piIInv, piTyped
<1>3. piOnce' BY <1>1 DEF piIInv, piOnce, targetValid
<1>4. piWaits' BY <1>1 DEF piIInv, piWaits
<1>5. piPass = piIdle => piPass.at = "idle" BY piConstants
<1>6. piStep BY <1>1, <1>5 DEF piStep, piLiveStep, piApartStep, piPeerStep
<1> QED BY <1>2, <1>3, <1>4, <1>6 DEF piIInv

LEMMA piBeginStep == ASSUME piIInv, piBegin PROVE piIInv' /\ piStep
<1> DEFINE r == remember(piWan)
<1>1. /\ piPass = piIdle /\ piTarget' = r[1] /\ piAns' = r[2] /\ piRetryAt' = r[3]
      /\ piLast' = IF r[1].server = piTarget.server /\ piWan \in {0, piLast.wan} THEN piLast ELSE piNoLast
      /\ piPass' = [at |-> "inform", key |-> piWan, sent |-> 0, found |-> piNoAns]
      /\ UNCHANGED <<piNow, piWan, piAck, piCast, piGot>>
    BY DEF piBegin
<1> HIDE DEF r
<1>2. piWan \in 0..2 /\ piLast \in [wan : 0..2, ended : Nat] /\ piTarget \in PiTargetRec \cup {piNoTarget}
    BY DEF piIInv, piTyped
<1>3. /\ r[1] \in PiTargetRec \cup {piNoTarget} /\ r[2] \in PiAnsRec /\ r[3] \in Nat
      /\ (piTarget = piNoTarget \/ piWan = 0 \/ piTarget.wan = piWan) /\ r[1].server = piTarget.server =>
           /\ r[3] = piRetryAt
           /\ (r[1] = piNoTarget <=> piTarget = piNoTarget) /\ (r[1] # piNoTarget => r[1].wan = piTarget.wan)
      /\ piTarget # piNoTarget /\ r[1] # piNoTarget /\ piTarget.wan = r[1].wan /\ piTarget.stamp = r[1].stamp
           => piTarget.server = r[1].server
      /\ piWan # 0 /\ r[1] # piNoTarget => r[1].wan = piWan
    BY <1>2, piRemembers DEF r
<1>4. piPass' \in PiPassRec /\ piPass'.at = "inform" /\ piPass'.sent = 0 /\ piPass'.key = piWan
    BY <1>1, <1>2, piConstants DEF PiPassRec
<1>5. piLast' \in [wan : 0..2, ended : Nat] BY <1>1, <1>2, piConstants
<1>6. piTyped' BY <1>1, <1>3, <1>4, <1>5 DEF piIInv, piTyped
<1>7. piLast'.ended > 0 => piLast' = piLast /\ r[1].server = piTarget.server /\ piWan \in {0, piLast.wan}
    BY <1>1, piConstants
<1>8. piOnce' BY <1>1, <1>3, <1>4, <1>7 DEF piOnce
<1>9. piWaits'
    <2> SUFFICES ASSUME piLast'.ended > 0
                 PROVE IF piTarget' = piNoTarget THEN piCast'.wan = piLast'.wan /\ piCast'.until >= piLast'.ended + PiRetry
                       ELSE piTarget'.wan = piLast'.wan /\ piRetryAt' >= piLast'.ended + PiRetry
        BY DEF piWaits
    <2>1. piLast' = piLast /\ r[1].server = piTarget.server /\ piWan \in {0, piLast.wan} BY <1>7
    <2>2. piTarget = piNoTarget \/ piWan = 0 \/ piTarget.wan = piWan BY <2>1 DEF piIInv, piWaits
    <2> QED BY <1>1, <1>3, <2>1, <2>2 DEF piIInv, piWaits
<1>10. piStep BY <1>1, <1>3, <1>4, piConstants DEF piStep, piLiveStep, piApartStep, piPeerStep
<1> QED BY <1>6, <1>8, <1>9, <1>10 DEF piIInv

LEMMA piFounds == ASSUME piIInv PROVE piFound \in PiAnsRec /\ unexpired \in PiAnsRec
BY piConstants DEF piFound, unexpired, piIInv, piTyped

\* A pass moves on without an answer, and asks only after the cooldown.
LEMMA piMoves ==
    ASSUME piIInv, piPass # piIdle, NEW v \in PiPassRec, piPass' = v, v.key = piPass.key, v.at # "inform", v.at # "idle",
           v.at = "unicast" => targetValid(piPass.key), v.at = "broadcast" => piPass.key # 0,
           UNCHANGED <<piNow, piWan, piAck, piTarget, piAns, piRetryAt, piCast, piGot, piLast>>
    PROVE  piIInv'
<1>1. piTyped' BY DEF piIInv, piTyped
<1>2. piPass \in PiPassRec BY DEF piIInv, piTyped
<1>3. targetValid(piPass.key) => piPass.key # 0 /\ targetValid(piPass.key)' BY DEF targetValid
<1>4. piOnce' BY <1>3 DEF piIInv, piOnce, targetValid
<1>5. piWaits' BY DEF piIInv, piWaits
<1> QED BY <1>1, <1>4, <1>5 DEF piIInv

LEMMA piAskStep == ASSUME piIInv, informCached \/ informProbe \/ piCastBegin PROVE piIInv' /\ piStep
<1>0. piPass # piIdle /\ piPass \in PiPassRec /\ piPass.at \in {"inform", "cast"}
    BY piConstants DEF informCached, informProbe, piCastBegin, piIInv, piTyped
<1>1. UNCHANGED <<piNow, piWan, piAck, piTarget, piAns, piRetryAt, piCast, piGot, piLast>>
    BY DEF informCached, informProbe, piCastBegin, piKnown
<1>2. piNow \in Nat /\ piRetryAt \in Nat /\ piCast.until \in Nat /\ piLast.ended \in Nat /\ piAns \in PiAnsRec /\ piFound \in PiAnsRec
    BY piFounds DEF piIInv, piTyped
<1>3. CASE informCached
    <2>1. PICK found \in PiAnsRec : piPass' = [piPass EXCEPT !.at = "cast", !.found = found]
        BY <1>2, <1>3, piConstants DEF informCached, piTo
    <2>2. piPass' \in PiPassRec /\ piPass'.key = piPass.key /\ piPass'.at = "cast" BY <1>0, <2>1 DEF PiPassRec
    <2> QED BY <1>0, <1>1, <2>2, piMoves DEF piStep, piLiveStep, piApartStep, piPeerStep
<1>4. CASE informProbe
    <2>1. /\ piPass.at = "inform" /\ targetValid(piPass.key) /\ piNow >= piRetryAt /\ piPass' = [piPass EXCEPT !.at = "unicast", !.sent = piPass.sent + 1]
        BY <1>4 DEF informProbe
    <2>2. piPass.sent = 0 BY <1>0, <2>1 DEF piIInv, piOnce
    <2>3. piPass' \in PiPassRec /\ piPass'.key = piPass.key /\ piPass'.at = "unicast"
        <3>1. piPass' = [piPass EXCEPT !.at = "unicast", !.sent = 1] BY <2>1, <2>2
        <3>2. piPass.key \in 0..2 /\ piPass.found \in PiAnsRec BY <1>0 DEF PiPassRec
        <3>3. piPass' = [at |-> "unicast", key |-> piPass.key, sent |-> 1, found |-> piPass.found]
            BY <1>0, <3>1 DEF PiPassRec
        <3> QED BY <3>2, <3>3 DEF PiPassRec
    <2>4. piLast.ended > 0 => piNow >= piLast.ended + PiRetry
        BY <1>2, <2>1, PiAssumption DEF targetValid, piIInv, piWaits
    <2> QED BY <1>0, <1>1, <2>1, <2>3, <2>4, piMoves DEF piStep, piLiveStep, piApartStep, piPeerStep
<1>5. CASE piCastBegin
    <2>1. piPass.at = "cast" /\ casts BY <1>5 DEF piCastBegin
    <2>2. CASE /\ ~(piCast.wan = piPass.key /\ piNow < piCast.until) /\ piPass' = [piPass EXCEPT !.at = "broadcast", !.sent = piPass.sent + 1]
        <3>1. piPass.sent = 0 /\ piPass.key # 0 BY <2>1 DEF casts
        <3>2. piPass' \in PiPassRec /\ piPass'.key = piPass.key /\ piPass'.at = "broadcast"
            <4>1. piPass' = [piPass EXCEPT !.at = "broadcast", !.sent = 1] BY <2>2, <3>1
            <4>2. piPass.key \in 0..2 /\ piPass.found \in PiAnsRec BY <1>0 DEF PiPassRec
            <4>3. piPass' = [at |-> "broadcast", key |-> piPass.key, sent |-> 1, found |-> piPass.found]
                BY <1>0, <4>1 DEF PiPassRec
            <4> QED BY <4>2, <4>3 DEF PiPassRec
        <3>3. ASSUME piLast.wan = piPass.key, piLast.ended > 0 PROVE piNow >= piLast.ended + PiRetry
            <4>1. CASE due BY <1>2, <3>3, <4>1, PiAssumption DEF due, targetValid, piIInv, piWaits
            <4>2. CASE ~targetValid(piPass.key)
                <5>1. piTarget = piNoTarget \/ piTarget.wan # piPass.key BY <3>1, <4>2 DEF targetValid
                <5> QED BY <1>2, <2>2, <3>3, <5>1, PiAssumption DEF piIInv, piWaits
            <4> QED BY <2>1, <4>1, <4>2 DEF casts
        <3> QED BY <1>0, <1>1, <3>1, <3>2, <3>3, piMoves DEF piStep, piLiveStep, piApartStep, piPeerStep
    <2>3. CASE piTo("recheck", piPass.found)
        <3>1. piPass' \in PiPassRec /\ piPass'.key = piPass.key /\ piPass'.at = "recheck"
            BY <1>0, <2>3 DEF PiPassRec, piTo
        <3> QED BY <1>0, <1>1, <3>1, piMoves DEF piStep, piLiveStep, piApartStep, piPeerStep
    <2> QED BY <1>5, <2>2, <2>3 DEF piCastBegin
<1> QED BY <1>3, <1>4, <1>5

\* A pass is over.
LEMMA piOverStep == ASSUME piIInv, piCancel \/ piNoCast \/ piRecheck PROVE piIInv' /\ piStep
<1>1. piPass' = piIdle /\ UNCHANGED <<piNow, piWan, piAck, piTarget, piAns, piRetryAt, piCast, piLast>>
    BY DEF piCancel, piNoCast, piRecheck, piKnown
<1>2. piTyped' BY <1>1 DEF piIInv, piTyped
<1>3. piOnce' /\ piWaits' BY <1>1 DEF piIInv, piOnce, piWaits
<1>4. piPass # piIdle BY piConstants DEF piCancel, piNoCast, piRecheck
<1>5. piLiveStep
    <2> SUFFICES ASSUME piPass.at = "recheck", piGot'.server # 0 PROVE piNow < piGot'.until BY DEF piLiveStep
    <2>1. piGot' = [unexpired EXCEPT !.refresh = FALSE] BY DEF piCancel, piNoCast, piRecheck
    <2>2. piGot'.server = unexpired.server /\ piGot'.until = unexpired.until BY <2>1, piFounds DEF PiAnsRec
    <2>3. piNoAns.server = 0 BY DEF piNoAns
    <2> QED BY <2>2, <2>3 DEF unexpired
<1>6. piStep BY <1>1, <1>4, <1>5, piConstants DEF piStep, piApartStep, piPeerStep
<1> QED BY <1>2, <1>3, <1>6 DEF piIInv

LEMMA piAnswerStep == ASSUME piIInv, informAnswer \/ piCastAnswer PROVE piIInv' /\ piStep
<1>0. piPass # piIdle /\ piPass \in PiPassRec /\ piPass.at \in {"unicast", "broadcast"}
    BY piConstants DEF informAnswer, piCastAnswer, piIInv, piTyped
<1>1. /\ UNCHANGED <<piNow, piWan, piAck>> /\ piLast' = [wan |-> piPass.key, ended |-> piNow]
    BY DEF informAnswer, piCastAnswer, piEnded
<1>2. piNow \in Nat /\ piRetryAt \in Nat /\ piTarget \in PiTargetRec \cup {piNoTarget} /\ piAns \in PiAnsRec /\ piFound \in PiAnsRec
      /\ piCast \in [wan : 0..2, until : Nat] /\ cooldown \in Nat /\ piNow + PiTTL \in Nat
    BY piFounds, PiAssumption DEF piIInv, piTyped, cooldown
<1>3. piPass.key \in 1..2 /\ piPass.found \in PiAnsRec
    <2>1. piPass.key # 0 BY <1>0 DEF piIInv, piOnce
    <2> QED BY <1>0, <2>1 DEF PiPassRec
<1>4. piLast' \in [wan : 0..2, ended : Nat] /\ piLast'.wan = piPass.key /\ piLast'.ended = piNow BY <1>1, <1>2, <1>3
<1>5. CASE informAnswer
    <2>1. piPass.at = "unicast" /\ piRetryAt' = cooldown /\ piCast' = piCast BY <1>5 DEF informAnswer
    <2>2. targetValid(piPass.key) BY <1>0, <2>1 DEF piIInv, piOnce
    <2>3. piTarget \in PiTargetRec /\ piTarget.wan = piPass.key BY <1>2, <2>2 DEF targetValid
    <2>4. piTarget' \in PiTargetRec /\ piTarget'.wan = piPass.key /\ piAns' \in PiAnsRec
          /\ \E found \in PiAnsRec : piPass' = [piPass EXCEPT !.at = "cast", !.found = found]
        <3>1. CASE piAns' = [server |-> piTarget.server, until |-> piNow + PiTTL, refresh |-> FALSE] /\ piTo("cast", piAns') /\ piTarget' = piTarget
            <4>1. piAns' \in PiAnsRec BY <1>2, <2>3, <3>1, piConstants DEF PiAnsRec
            <4> QED BY <2>3, <3>1, <4>1 DEF piTo
        <3>2. CASE piTo("cast", piFound) /\ piTarget' = piTarget /\ piAns' = piAns BY <1>2, <2>3, <3>2 DEF piTo
        <3>3. CASE piTarget' = [piTarget EXCEPT !.cast = TRUE] /\ piTo("cast", piFound) /\ piAns' = piAns
            <4>1. piTarget' \in PiTargetRec /\ piTarget'.wan = piPass.key BY <2>3, <3>3 DEF PiTargetRec
            <4> QED BY <1>2, <3>3, <4>1 DEF piTo
        <3> QED BY <1>5, <3>1, <3>2, <3>3 DEF informAnswer
    <2>5. piPass' \in PiPassRec /\ piPass'.at = "cast" /\ piPass'.key = piPass.key BY <1>0, <2>4 DEF PiPassRec
    <2>6. piTyped' BY <1>1, <1>2, <1>4, <2>1, <2>4, <2>5 DEF piIInv, piTyped
    <2>7. piOnce' BY <1>4, <2>4, <2>5 DEF piOnce
    <2>8. piWaits' BY <1>2, <1>4, <2>1, <2>4, piConstants, PiAssumption DEF piWaits, cooldown
    <2> QED BY <1>0, <1>1, <2>1, <2>5, <2>6, <2>7, <2>8 DEF piIInv, piStep, piLiveStep, piApartStep, piPeerStep
<1>6. CASE piCastAnswer
    <2>1. piPass.at = "broadcast" /\ piCast' = [wan |-> piPass.key, until |-> piNow + PiRetry]
        BY <1>6 DEF piCastAnswer
    <2>2. piCast' \in [wan : 0..2, until : Nat] /\ piCast'.wan = piPass.key /\ piCast'.until = piNow + PiRetry
        BY <1>2, <1>3, <2>1, PiAssumption
    <2>3. ASSUME NEW s \in PiServers,
                 LET same == targetValid(piPass.key) IN
                 /\ piTarget' = [wan |-> piPass.key, server |-> s, stamp |-> IF same THEN piTarget.stamp ELSE 0,
                                 cast |-> same /\ piTarget.cast]
                 /\ piAns' = [server |-> s, until |-> piNow + PiTTL, refresh |-> FALSE]
                 /\ piRetryAt' = cooldown /\ piPass' = piIdle
          PROVE piIInv' /\ piStep
        <3>1. piTarget' \in PiTargetRec /\ piTarget'.wan = piPass.key
            <4>1. targetValid(piPass.key) => piTarget \in PiTargetRec BY <1>2 DEF targetValid
            <4>2. (IF targetValid(piPass.key) THEN piTarget.stamp ELSE 0) \in Nat BY <4>1, piConstants
            <4>3. (targetValid(piPass.key) /\ piTarget.cast) \in BOOLEAN BY <4>1 DEF PiTargetRec
            <4> QED BY <1>3, <2>3, <4>2, <4>3 DEF PiTargetRec
        <3>2. piAns' \in PiAnsRec BY <1>2, <2>3 DEF PiAnsRec, PiServers
        <3>3. piTyped' BY <1>1, <1>2, <1>4, <2>2, <2>3, <3>1, <3>2 DEF piIInv, piTyped
        <3>4. piOnce' BY <2>3 DEF piOnce
        <3>5. piWaits' BY <1>2, <1>4, <2>3, <3>1, piConstants, PiAssumption DEF piWaits, cooldown
        <3> QED BY <1>0, <2>1, <3>3, <3>4, <3>5 DEF piIInv, piStep, piLiveStep, piApartStep, piPeerStep
    <2>4. CASE /\ piRetryAt' = IF targetValid(piPass.key) THEN cooldown ELSE piRetryAt
               /\ piTo("recheck", piPass.found) /\ UNCHANGED <<piTarget, piAns, piGot>>
        <3>1. piPass' \in PiPassRec /\ piPass'.at = "recheck" /\ piPass'.key = piPass.key
            BY <1>0, <2>4 DEF PiPassRec, piTo
        <3>2. piRetryAt' \in Nat BY <1>2, <2>4
        <3>3. piTyped' BY <1>1, <1>2, <1>4, <2>2, <2>4, <3>1, <3>2 DEF piIInv, piTyped
        <3>4. piOnce' BY <1>0, <1>4, <2>4, <3>1 DEF piIInv, piOnce
        <3>5. piWaits'
            <4>1. CASE targetValid(piPass.key)
                <5>1. piTarget # piNoTarget /\ piTarget.wan = piPass.key BY <4>1 DEF targetValid
                <5> QED BY <1>2, <1>4, <2>4, <4>1, <5>1, PiAssumption DEF piWaits, cooldown
            <4>2. CASE ~targetValid(piPass.key)
                <5>1. piTarget = piNoTarget BY <1>0, <1>3, <4>2 DEF targetValid, piIInv, piOnce
                <5> QED BY <1>2, <1>4, <2>2, <2>4, <5>1, PiAssumption DEF piWaits
            <4> QED BY <4>1, <4>2
        <3> QED BY <1>0, <2>1, <2>4, <3>1, <3>3, <3>4, <3>5 DEF piIInv, piStep, piLiveStep, piApartStep, piPeerStep
    <2> QED BY <1>6, <2>3, <2>4 DEF piCastAnswer
<1> QED BY <1>5, <1>6

LEMMA piInductive == piIInv /\ [piNext]_piVars => piIInv' /\ piStep
<1> SUFFICES ASSUME piIInv, [piNext]_piVars PROVE piIInv' /\ piStep OBVIOUS
<1>1. CASE piTick \/ piWanChanges \/ piLogged \/ UNCHANGED piVars BY <1>1, piWorldStep
<1>2. CASE piBegin BY <1>2, piBeginStep
<1>3. CASE informCached \/ informProbe \/ piCastBegin BY <1>3, piAskStep
<1>4. CASE informAnswer \/ piCastAnswer BY <1>4, piAnswerStep
<1>5. CASE piCancel \/ piNoCast \/ piRecheck BY <1>5, piOverStep
<1> QED BY <1>1, <1>2, <1>3, <1>4, <1>5 DEF piNext

\* A pass asks once, keeps its distance from the exchange before it and returns nothing that is expired or displaced.
THEOREM InformIsSafe == piSpec => InformSafe
<1>1. piInit => piIInv BY piInitially
<1>2. piIInv /\ [piNext]_piVars => piIInv' BY piInductive
<1>3. piIInv => OneExchange
    <2> SUFFICES ASSUME piIInv, piPass # piIdle PROVE piPass.sent <= 1 BY DEF OneExchange
    <2>1. piPass.sent \in 0..1 BY DEF piIInv, piTyped, PiPassRec
    <2> QED BY <2>1
<1>4. piIInv /\ [piNext]_piVars => piLiveStep /\ piApartStep /\ piPeerStep BY piInductive DEF piStep
<1>5. piIInv /\ [piNext]_piVars =>
          [piPass.at = "recheck" /\ piPass'.at = "idle" /\ piGot'.server # 0 => piNow < piGot'.until]_piVars
    BY <1>4 DEF piLiveStep
<1>6. piIInv /\ [piNext]_piVars =>
          [piPass.at \in {"inform", "cast"} /\ piPass'.at \in {"unicast", "broadcast"} /\ piLast.wan = piPass.key
               /\ piLast.ended > 0 => piNow >= piLast.ended + PiRetry]_piVars
    BY <1>4 DEF piApartStep
<1>7. piIInv /\ [piNext]_piVars =>
          [piTarget # piNoTarget /\ piTarget' # piNoTarget /\ piTarget.wan = piTarget'.wan /\ piTarget.stamp = piTarget'.stamp
               /\ piPass = piIdle => piTarget.server = piTarget'.server]_piVars
    BY <1>4 DEF piPeerStep
<1> QED BY <1>1, <1>2, <1>3, <1>5, <1>6, <1>7, PTL DEF piSpec, InformSafe, AnswerIsLive, AttemptsApart,
       PeerNotReplayed

(***************************************************************************)
(* ProviderLeases                                                          *)
(***************************************************************************)
plSpec == plInit /\ [][plNext]_plVars

PlReplyRec == [at : Nat, kind : {"ack", "nodns", "nak"}, full : BOOLEAN, wan : 1..2, wall : Nat, back : Nat]
PlLeaseRec == [v : Nat \ {0}, wan : 1..2, nat : BOOLEAN, torn : BOOLEAN, back : Nat, exp : Int, wall : Int]
PlItemRec == [v : Nat \ {0}, wan : 1..2, wall : Int, nat : BOOLEAN, up : Int, torn : BOOLEAN]
PlReaderRec == [on : BOOLEAN, wan : 0..2, seen : Nat, last : Nat, applied : Nat, inspected : Nat]
PlPassRec == [at : {"idle", "observe", "end"}, key : 0..2, rev : Nat, cand : SUBSET Nat, reader : BOOLEAN, timed : BOOLEAN]
PlCacheRec == [v : SUBSET Nat, until : Int, timed : BOOLEAN, key : 0..2, lost : BOOLEAN]
PlFileRec == [ok : {TRUE}, boot : Nat, wall : Int, up : Int, leases : [PlNames -> PlItemRec \cup {PlNone}]]

plTyped ==
    /\ plNow \in 0..PlTime /\ plSkew \in {0, 1} /\ plBack \in Nat /\ plBoot \in 0..plNow /\ plWan \in 1..2
    /\ plRouted \in BOOLEAN /\ plAuth \in BOOLEAN /\ plStarted \in BOOLEAN /\ plClosing \in BOOLEAN /\ plLoaded \in BOOLEAN
    /\ plReply \in Seq(PlReplyRec) /\ plLog \in 0..Len(plReply)
    /\ plReader \in PlReaderRec /\ plLeases \in [PlNames -> PlLeaseRec \cup {PlNone}]
    /\ plPass \in PlPassRec /\ plCache \in PlCacheRec /\ plFile \in PlFileRec \cup {[ok |-> FALSE]}
\* Replies come one after the other, and by the wall clock too as long as it was not set back.
plReplied ==
    /\ \A v \in 1..Len(plReply) :
        /\ plReply[v].at <= plNow /\ plReply[v].back <= plBack
        /\ plReply[v].full => plReply[v].kind = "ack"
        /\ plReply[v].back = plBack => plReply[v].wall <= plReply[v].at + plSkew
    /\ plBack = 0 => \A u, v \in 1..Len(plReply) : u < v => plReply[u].wall < plReply[v].wall
\* A lease, or one in the file, is of a reply that granted it, and within the grant on every clock it is measured by.
plOf(l) == l.v \in 1..Len(plReply) /\ plReply[l.v].kind = "ack" /\ l.wan = plReply[l.v].wan /\ (l.torn => plBack # 0)
plNamed(leases) ==
    /\ leases["log"] # PlNone => ~leases["log"].nat
    /\ leases["native"] # PlNone => leases["native"].nat
    /\ plBack = 0 /\ leases["log"] # PlNone /\ leases["native"] # PlNone /\ leases["log"].wan = leases["native"].wan
        => leases["log"].v > leases["native"].v
plGood(l) ==
    /\ plOf(l) /\ l.back <= plBack
    /\ ~l.torn => l.exp <= plUntil(l.v)
    /\ ~l.torn /\ l.back = plBack => l.wall <= plUntil(l.v) + plSkew
plGoodIn(leases) == plNamed(leases) /\ \A i \in PlNames : leases[i] # PlNone => plGood(leases[i])
plLeased == plGoodIn(plLeases)
plFiledIn(leases, boot) ==
    plNamed(leases) /\ \A i \in PlNames : leases[i] # PlNone =>
        plOf(leases[i]) /\ (~leases[i].torn => leases[i].up + boot <= plUntil(leases[i].v))
plFiled == plFile.ok => plFiledIn(plFile.leases, plFile.boot)
\* The reader, which ends with the run, has seen what the provider said on its WAN.
plReads ==
    /\ plReader.applied <= plReader.seen /\ plReader.inspected <= plReader.seen
    /\ plReader.last # 0 =>
        /\ plReader.last <= Len(plReply) /\ plReply[plReader.last].wan = plReader.wan
        /\ \A u \in 1..Len(plReply) : u > plReader.last => plReply[u].wan # plReader.wan
    /\ ~plReader.on => plReader = plNoReader
    /\ plClosing => ~plStarted
    /\ ~plStarted /\ ~plClosing => ~plReader.on
\* What a pass has found, and how far it has read.
plFound ==
    /\ plPass.at = "observe" => ~plPass.timed
    /\ plPass.cand # {} /\ plPass.key # 0 =>
        plLeases["log"] # PlNone /\ plPass.cand = {plLeases["log"].v} /\ plLeases["log"].wan = plPass.key
    /\ plPass.cand \subseteq 0..Len(plReply)
    /\ 0 \in plPass.cand => plPass.key = 0
    /\ plPass.at # "idle" /\ plPass.reader => plReader.on /\ plPass.rev <= plReader.seen
    /\ plPass.at = "end" /\ ~plPass.timed /\ plReader.on =>
        plReader.applied <= plReader.inspected /\ (plPass.reader => plPass.rev <= plReader.inspected)
    /\ plPass.at = "end" /\ ~plPass.timed /\ plReader.on /\ plReader.inspected = plReader.seen /\ plReader.last # 0 /\ plBack = 0 =>
        /\ \A v \in plPass.cand \ {0} : plReply[v].wan = plReader.wan => v >= plReader.last
        /\ \A i \in PlNames : plLeases[i] # PlNone /\ plLeases[i].wan = plReader.wan => plLeases[i].v >= plReader.last
plNewer == \A v \in plCache.v, l \in plHeld : l.nat /\ l.wan = plReply[v].wan => v >= l.v
plCached ==
    /\ plCache.v \subseteq 0..Len(plReply) /\ (0 \in plCache.v => plCache.key = 0)
    /\ plCache.key # 0 /\ plBack = 0 => \A v \in plCache.v : plCache.until <= plUntil(v)
    /\ plReader.on /\ ~plChanged /\ ~plCache.timed /\ plReader.last # 0 /\ plBack = 0
        => \A v \in plCache.v \ {0} : plReply[v].wan = plReader.wan => v >= plReader.last
    /\ plStarted /\ plNow < plCache.until /\ ~plChanged /\ ~plCache.lost /\ plBack = 0 /\ plCache.key # 0
        => IF plPass.at = "idle" THEN plNewer ELSE plPass.at = "end" /\ plLeases["native"] = PlNone
plIInv == plTyped /\ plReplied /\ plLeased /\ plFiled /\ plReads /\ plFound /\ plCached

LEMMA plConstants ==
    /\ PlNone.v = 0 /\ \A l \in PlLeaseRec \cup PlItemRec : l # PlNone /\ l.v # 0
    /\ plNoReader \in PlReaderRec /\ plNoPass \in PlPassRec /\ plNoCache \in PlCacheRec
    /\ PlNames = {"log", "native"} /\ [i \in PlNames |-> PlNone] \in [PlNames -> PlLeaseRec \cup {PlNone}]
<1>1. PlNone.v = 0 BY DEF PlNone
<1>2. \A l \in PlLeaseRec \cup PlItemRec : l.v # 0 BY DEF PlLeaseRec, PlItemRec
<1>3. plNoReader \in PlReaderRec BY DEF plNoReader, PlReaderRec
<1>4. plNoPass \in PlPassRec BY DEF plNoPass, PlPassRec
<1>5. plNoCache \in PlCacheRec BY DEF plNoCache, PlCacheRec
<1> QED BY <1>1, <1>2, <1>3, <1>4, <1>5 DEF PlNames

LEMMA plInitially == plInit => plIInv
<1> SUFFICES ASSUME plInit PROVE plIInv OBVIOUS
<1>0. \A i \in PlNames : plLeases[i] = PlNone BY DEF plInit
<1>1. Len(plReply) = 0 /\ plReply \in Seq(PlReplyRec) /\ 1..Len(plReply) = {} BY DEF plInit
<1>2. plTyped
    <2>1. plNow \in 0..PlTime /\ plBoot \in 0..plNow /\ plLog \in 0..Len(plReply) BY <1>1, PlAssumption DEF plInit
    <2>2. plLeases \in [PlNames -> PlLeaseRec \cup {PlNone}] /\ plFile \in PlFileRec \cup {[ok |-> FALSE]}
        BY plConstants DEF plInit
    <2>3. plReader \in PlReaderRec /\ plPass \in PlPassRec /\ plCache \in PlCacheRec BY plConstants DEF plInit
    <2>4. plSkew \in {0, 1} /\ plBack \in Nat /\ plWan \in 1..2 BY DEF plInit
    <2>5. plRouted \in BOOLEAN /\ plAuth \in BOOLEAN /\ plStarted \in BOOLEAN /\ plClosing \in BOOLEAN /\ plLoaded \in BOOLEAN
        BY DEF plInit
    <2> QED BY <1>1, <2>1, <2>2, <2>3, <2>4, <2>5 DEF plTyped
<1>3. plReplied BY <1>1 DEF plReplied
<1>4. plLeased BY <1>0 DEF plLeased, plGoodIn, plNamed, PlNames
<1>5. plFiled BY DEF plInit, plFiled
<1>6. plReads BY DEF plInit, plReads, plNoReader
<1>7. plFound BY DEF plInit, plFound, plNoPass
<1>8. plCached BY DEF plInit, plCached, plNoCache
<1> QED BY <1>2, <1>3, <1>4, <1>5, <1>6, <1>7, <1>8 DEF plIInv

LEMMA plReplyType ==
    ASSUME plTyped, NEW v \in 1..Len(plReply)
    PROVE  /\ plReply[v] \in PlReplyRec /\ plReply[v].at \in Nat /\ plReply[v].wall \in Nat /\ plReply[v].back \in Nat
           /\ plReply[v].wan \in 1..2 /\ plUntil(v) \in Nat
<1>1. plReply[v] \in PlReplyRec BY DEF plTyped
<1> QED BY <1>1, PlAssumption DEF PlReplyRec, plUntil

LEMMA plLeaseType ==
    ASSUME NEW leases \in [PlNames -> PlLeaseRec \cup {PlNone}], NEW i \in PlNames, leases[i] # PlNone
    PROVE  /\ leases[i] \in PlLeaseRec /\ leases[i].v \in Nat \ {0} /\ leases[i].wan \in 1..2 /\ leases[i].nat \in BOOLEAN
           /\ leases[i].torn \in BOOLEAN /\ leases[i].back \in Nat /\ leases[i].exp \in Int /\ leases[i].wall \in Int
<1>1. leases[i] \in PlLeaseRec OBVIOUS
<1> QED BY <1>1 DEF PlLeaseRec

\* As long as the wall clock was not set back it tells which of two replies is the newer one.
LEMMA plWallOrders ==
    ASSUME plTyped, plReplied, plBack = 0, NEW u \in 1..Len(plReply), NEW v \in 1..Len(plReply)
    PROVE  /\ plReply[u].wall < plReply[v].wall <=> u < v
           /\ plReply[v].wall <= plWall
<1>1. plReply[u].wall \in Nat /\ plReply[v].wall \in Nat /\ plReply[v].at \in Nat /\ plReply[v].back \in Nat
    BY plReplyType
<1>2. plReply[v].back = plBack BY <1>1 DEF plReplied
<1>3. plReply[v].wall <= plReply[v].at + plSkew /\ plReply[v].at <= plNow BY <1>2 DEF plReplied
<1>4. plNow \in Int /\ plSkew \in Int BY DEF plTyped
<1>5. plReply[v].wall <= plWall BY <1>1, <1>3, <1>4 DEF plWall
<1>6. CASE u < v BY <1>1, <1>5, <1>6 DEF plReplied
<1>7. CASE v < u BY <1>1, <1>5, <1>7 DEF plReplied
<1>8. CASE u = v BY <1>1, <1>5, <1>8
<1> QED BY <1>5, <1>6, <1>7, <1>8

\* What is cached is not touched by what leaves the cache, the leases, the replies and the reader alone.
LEMMA plCachedFrame ==
    ASSUME plIInv, UNCHANGED <<plReply, plLeases, plCache, plReader>>, plBack' = 0 => plBack = 0,
           plNow' \in Nat, plNow <= plNow', plStarted' => plStarted, plPass'.at = plPass.at
    PROVE  plCached'
<1>1. plHeld' = plHeld /\ plNewer' = plNewer /\ plChanged' = plChanged BY DEF plHeld, plNewer, plChanged
<1>2. \A v : plUntil(v)' = plUntil(v) BY DEF plUntil
<1>3. plNow \in Int /\ plCache.until \in Int BY DEF plIInv, plTyped, PlCacheRec
<1>4. plNow' < plCache.until => plNow < plCache.until BY <1>3
<1> QED BY <1>1, <1>2, <1>4 DEF plIInv, plCached

LEMMA plAnswerReply ==
    ASSUME plTyped, plAnswer
    PROVE  \E r \in PlReplyRec :
               /\ plReply' = Append(plReply, r) /\ r.at = plNow /\ r.wan = plWan /\ r.wall = plWall /\ r.back = plBack
               /\ r.full => r.kind = "ack"
<1>1. PICK kind \in {"ack", "nodns", "nak"}, full \in BOOLEAN :
          /\ full => kind = "ack"
          /\ plReply' = Append(plReply, [at |-> plNow, kind |-> kind, full |-> full, wan |-> plWan, wall |-> plWall,
                                         back |-> plBack])
    BY DEF plAnswer
<1> DEFINE r == [at |-> plNow, kind |-> kind, full |-> full, wan |-> plWan, wall |-> plWall, back |-> plBack]
<1>2. r \in PlReplyRec BY DEF plTyped, plWall, PlReplyRec
<1> QED BY <1>1, <1>2

LEMMA plPruned ==
    ASSUME NEW leases \in [PlNames -> PlLeaseRec \cup {PlNone}], plGoodIn(leases), NEW key
    PROVE  prune(leases, key) \in [PlNames -> PlLeaseRec \cup {PlNone}] /\ plGoodIn(prune(leases, key))
<1>1. \A i \in PlNames : prune(leases, key)[i] = leases[i] \/ prune(leases, key)[i] = PlNone BY DEF prune
<1>2. prune(leases, key) \in [PlNames -> PlLeaseRec \cup {PlNone}] BY DEF prune
<1>3. plNamed(prune(leases, key)) BY <1>1 DEF plGoodIn, plNamed, PlNames
<1> QED BY <1>1, <1>2, <1>3 DEF plGoodIn

\* What the file still holds of a lease ends with its grant on the uptime, and on the wall clock since.
LEMMA plLoadedOk ==
    ASSUME plIInv
    PROVE  loaded \in [PlNames -> PlLeaseRec \cup {PlNone}] /\ plGoodIn(loaded)
<1>1. ASSUME NEW i \in PlNames, loaded[i] # PlNone
      PROVE  /\ decodable /\ plFile.ok /\ plFile.leases[i] # PlNone /\ plFile.leases[i] \in PlItemRec
             /\ loaded[i] = [v |-> plFile.leases[i].v, wan |-> plFile.leases[i].wan, nat |-> plFile.leases[i].nat,
                             torn |-> plFile.leases[i].torn, back |-> plBack, exp |-> plNow + remains(plFile.leases[i]),
                             wall |-> plWall + remains(plFile.leases[i])]
    <2>1. decodable /\ plFile.leases[i] # PlNone BY <1>1 DEF loaded
    <2>2. plFile \in PlFileRec BY <2>1 DEF decodable, plIInv, plTyped
    <2>3. plFile.leases[i] \in PlItemRec BY <2>1, <2>2 DEF PlFileRec
    <2> QED BY <1>1, <2>1, <2>3 DEF loaded, decodable
<1>2. ASSUME NEW i \in PlNames, loaded[i] # PlNone PROVE loaded[i] \in PlLeaseRec /\ plGood(loaded[i])
    <2> DEFINE item == plFile.leases[i]
               left == remains(item)
    <2>1. item \in PlItemRec /\ item.v \in Nat \ {0} /\ item.wan \in 1..2 /\ item.nat \in BOOLEAN /\ item.torn \in BOOLEAN
          /\ item.wall \in Int /\ item.up \in Int
        BY <1>1, <1>2 DEF PlItemRec
    <2>2. plNow \in Nat /\ plBoot \in Nat /\ plSkew \in Nat /\ plBack \in Nat BY DEF plIInv, plTyped
    <2>3. left \in Int /\ left <= item.up - plUptime BY <2>1, <2>2 DEF remains, plWall, plUptime
    <2>4. plFile.boot = plBoot BY <1>1, <1>2 DEF decodable
    <2>5. plOf(item) /\ (~item.torn => item.up + plBoot <= plUntil(item.v))
        BY <1>1, <1>2, <2>4 DEF plIInv, plFiled, plFiledIn
    <2>6. plUntil(item.v) \in Nat BY <2>5, plReplyType DEF plOf, plIInv
    <2>7. loaded[i] = [v |-> item.v, wan |-> item.wan, nat |-> item.nat, torn |-> item.torn, back |-> plBack,
                       exp |-> plNow + left, wall |-> plWall + left]
        BY <1>1, <1>2
    <2> HIDE DEF left
    <2>8. plNow + left \in Int /\ plWall + left \in Int BY <2>2, <2>3 DEF plWall
    <2>9. loaded[i] \in PlLeaseRec BY <2>1, <2>2, <2>7, <2>8 DEF PlLeaseRec
    <2>10. ~item.torn => plNow + left <= plUntil(item.v) /\ plWall + left <= plUntil(item.v) + plSkew
        BY <2>1, <2>2, <2>3, <2>5, <2>6 DEF plWall, plUptime
    <2> HIDE DEF item
    <2>11. plGood(loaded[i]) BY <2>2, <2>5, <2>7, <2>10 DEF plGood, plOf
    <2> QED BY <2>9, <2>11
<1>3. loaded \in [PlNames -> PlLeaseRec \cup {PlNone}]
    <2>1. \A i \in PlNames : loaded[i] \in PlLeaseRec \cup {PlNone} BY <1>2
    <2>2. loaded = [i \in PlNames |-> loaded[i]] BY DEF loaded
    <2> QED BY <2>1, <2>2
<1>4. plNamed(loaded)
    <2>1. \A i \in PlNames : loaded[i] # PlNone =>
              /\ plFile.ok /\ plFile.leases[i] # PlNone /\ loaded[i].v = plFile.leases[i].v
              /\ loaded[i].wan = plFile.leases[i].wan /\ loaded[i].nat = plFile.leases[i].nat
        <3> SUFFICES ASSUME NEW i \in PlNames, loaded[i] # PlNone
                     PROVE  /\ plFile.ok /\ plFile.leases[i] # PlNone /\ loaded[i].v = plFile.leases[i].v
                            /\ loaded[i].wan = plFile.leases[i].wan /\ loaded[i].nat = plFile.leases[i].nat
            OBVIOUS
        <3> DEFINE item == plFile.leases[i]
                   left == remains(item)
        <3>1. /\ plFile.ok /\ item # PlNone
              /\ loaded[i] = [v |-> item.v, wan |-> item.wan, nat |-> item.nat, torn |-> item.torn, back |-> plBack,
                              exp |-> plNow + left, wall |-> plWall + left]
            BY <1>1
        <3> HIDE DEF left, item
        <3>2. loaded[i].v = item.v /\ loaded[i].wan = item.wan /\ loaded[i].nat = item.nat BY <3>1
        <3> QED BY <3>1, <3>2 DEF item
    <2>2. plFile.ok => plNamed(plFile.leases) BY DEF plIInv, plFiled, plFiledIn
    <2> QED BY <2>1, <2>2 DEF plNamed, PlNames
<1> QED BY <1>2, <1>3, <1>4 DEF plGoodIn

\* The ACK of the log that is used is newer than the packets of its WAN, and its lease within its grant.
LEMMA plLearned ==
    ASSUME plIInv, NEW leases \in [PlNames -> PlLeaseRec \cup {PlNone}], plGoodIn(leases)
    PROVE  /\ learnLog(leases, plKey) \in [PlNames -> PlLeaseRec \cup {PlNone}] /\ plGoodIn(learnLog(leases, plKey))
           /\ logUsable(leases, plKey) /\ plKey # 0 =>
                LET l == learnLog(leases, plKey)["log"] IN l # PlNone /\ l.v = plLog /\ l.wan = plKey
           /\ logUsable(leases, plKey) => plLog \in 1..Len(plReply)
<1>1. logUsable(leases, plKey) => plLog \in 1..Len(plReply) BY DEF logUsable, plIInv, plTyped
<1>2. CASE ~logUsable(leases, plKey) \/ plKey = 0 BY <1>1, <1>2 DEF learnLog
<1>3. CASE logUsable(leases, plKey) /\ plKey # 0
    <2> DEFINE own == leases["log"]
               left == remainingByLog(plLog)
               next == [v |-> plLog, wan |-> plKey, nat |-> FALSE, torn |-> plReply[plLog].back # plBack, back |-> plBack,
                        exp |-> plNow + left, wall |-> plWall + left]
    <2>1. plLog \in 1..Len(plReply) BY <1>1, <1>3
    <2>2. /\ plReply[plLog].at \in Nat /\ plReply[plLog].wall \in Nat /\ plReply[plLog].back \in Nat /\ plReply[plLog].wan \in 1..2
          /\ plUntil(plLog) \in Nat
        BY <2>1, plReplyType DEF plIInv
    <2>3. plNow \in Nat /\ plSkew \in Nat /\ plBack \in Nat /\ plKey = plWan /\ plWan \in 1..2
        BY <1>3 DEF plIInv, plTyped, plKey
    <2>4. /\ plReply[plLog].wan = plWan /\ plReply[plLog].full /\ left > 0 /\ ~stale(leases, plKey, plLog)
        BY <1>3 DEF logUsable
    <2>5. plReply[plLog].kind = "ack" /\ plReply[plLog].back <= plBack
          /\ (plReply[plLog].back = plBack => plReply[plLog].wall <= plReply[plLog].at + plSkew)
        BY <2>1, <2>4 DEF plIInv, plReplied
    <2>6. left \in Int /\ plWall + left = plReply[plLog].wall + PlLease
        BY <2>2, <2>3, <2>4, PlAssumption DEF remainingByLog, plWall
    <2> HIDE DEF left
    <2>7. plNow + left \in Int /\ plWall + left \in Int BY <2>3, <2>6 DEF plWall
    <2>8. next \in PlLeaseRec BY <2>1, <2>3, <2>7 DEF PlLeaseRec
    <2>9. plGood(next)
        <3>0. /\ next.v = plLog /\ next.wan = plKey /\ next.back = plBack
              /\ (next.torn => plReply[plLog].back # plBack) /\ (~next.torn => plReply[plLog].back = plBack)
              /\ next.exp = plNow + left /\ next.wall = plWall + left
            OBVIOUS
        <3> HIDE DEF next
        <3>1. plOf(next)
            <4>1. next.torn => plBack # 0 BY <2>2, <2>3, <2>5, <3>0
            <4> QED BY <2>1, <2>3, <2>4, <2>5, <3>0, <4>1 DEF plOf
        <3>2. plReply[plLog].back = plBack => plNow + left <= plUntil(plLog) /\ plWall + left <= plUntil(plLog) + plSkew
            BY <2>2, <2>3, <2>5, <2>6, PlAssumption DEF plUntil, plWall
        <3> QED BY <2>3, <3>0, <3>1, <3>2 DEF plGood
    <2>10. plBack = 0 /\ leases["native"] # PlNone /\ leases["native"].wan = plKey => plLog > leases["native"].v
        <3> SUFFICES ASSUME plBack = 0, leases["native"] # PlNone, leases["native"].wan = plKey PROVE plLog > leases["native"].v
            OBVIOUS
        <3>1. leases["native"].v \in 1..Len(plReply) /\ leases["native"].nat
            BY DEF plGoodIn, plNamed, plGood, plOf, PlNames
        <3>2. observedAt(plLog) > plReply[leases["native"].v].wall
            <4>1. plReply[leases["native"].v].wall \in Nat BY <3>1, plReplyType DEF plIInv
            <4>2. ~(observedAt(plLog) <= plReply[leases["native"].v].wall) BY <2>3, <2>4, <3>1 DEF stale, PlNames
            <4>3. observedAt(plLog) \in Int BY <2>2, PlAssumption DEF observedAt
            <4> QED BY <4>1, <4>2, <4>3
        <3>3. plReply[plLog].wall > plReply[leases["native"].v].wall
            <4>1. plReply[leases["native"].v].wall \in Nat BY <3>1, plReplyType DEF plIInv
            <4> QED BY <2>2, <3>2, <4>1, PlAssumption DEF observedAt
        <3> QED BY <2>1, <3>1, <3>3, plWallOrders DEF plIInv
    <2> HIDE DEF next
    <2>11. /\ learnLog(leases, plKey) = [leases EXCEPT !["log"] = own] /\ own # PlNone /\ own.v = plLog /\ own.wan = plKey
           \/ learnLog(leases, plKey) = [leases EXCEPT !["log"] = next]
        BY <1>3 DEF learnLog, next, left
    <2>12. CASE /\ learnLog(leases, plKey) = [leases EXCEPT !["log"] = own] /\ own # PlNone /\ own.v = plLog /\ own.wan = plKey
        <3>1. learnLog(leases, plKey) = leases BY <2>12
        <3> QED BY <2>1, <2>12, <3>1
    <2>13. CASE learnLog(leases, plKey) = [leases EXCEPT !["log"] = next]
        <3>1. /\ learnLog(leases, plKey)["log"] = next /\ learnLog(leases, plKey)["native"] = leases["native"]
              /\ learnLog(leases, plKey) \in [PlNames -> PlLeaseRec \cup {PlNone}]
            BY <2>8, <2>13 DEF PlNames
        <3>2. next # PlNone /\ next.v = plLog /\ next.wan = plKey /\ ~next.nat BY <2>8, plConstants DEF next
        <3>3. plNamed(learnLog(leases, plKey)) BY <2>10, <3>1, <3>2 DEF plGoodIn, plNamed
        <3>4. plGoodIn(learnLog(leases, plKey)) BY <2>9, <3>1, <3>3 DEF plGoodIn, PlNames
        <3> QED BY <2>1, <3>1, <3>2, <3>4
    <2> QED BY <2>11, <2>12, <2>13
<1> QED BY <1>2, <1>3

\* Packet evidence takes the place of every lease of its WAN.
LEMMA plSuperseded ==
    ASSUME plIInv, NEW v \in 1..Len(plReply), NEW key, plReply[v].wan = key, NEW leases, leases = supersede(key, v)
    PROVE  /\ leases \in [PlNames -> PlLeaseRec \cup {PlNone}] /\ plGoodIn(leases)
           /\ \A i \in PlNames : leases[i] # PlNone /\ leases[i].wan = key => leases[i].v = v
<1> DEFINE own(l) == l # PlNone /\ l.wan = key
           kept == [i \in PlNames |-> IF own(plLeases[i]) THEN PlNone ELSE plLeases[i]]
           lease == [v |-> v, wan |-> key, nat |-> TRUE, torn |-> FALSE, back |-> plReply[v].back,
                     exp |-> plUntil(v), wall |-> plReply[v].wall + PlLease]
<1>1. /\ plReply[v].at \in Nat /\ plReply[v].wall \in Nat /\ plReply[v].back \in Nat /\ plReply[v].wan \in 1..2
      /\ plUntil(v) \in Nat /\ plReply[v].wall + PlLease \in Nat
    BY plReplyType, PlAssumption DEF plIInv
<1>2. leases = kept \/ (leases = [kept EXCEPT !["native"] = lease] /\ plReply[v].kind = "ack") BY DEF supersede
<1>3. kept \in [PlNames -> PlLeaseRec \cup {PlNone}] BY DEF plIInv, plTyped
<1>4. \A i \in PlNames : kept[i] = PlNone \/ (kept[i] = plLeases[i] /\ kept[i].wan # key) OBVIOUS
<1>5. lease \in PlLeaseRec BY <1>1 DEF PlLeaseRec
<1>6. /\ lease.v = v /\ lease.wan = key /\ lease.nat /\ ~lease.torn /\ lease.back = plReply[v].back /\ lease.exp = plUntil(v)
      /\ lease.wall = plReply[v].wall + PlLease
    OBVIOUS
<1>7. plGoodIn(kept) BY <1>4 DEF plIInv, plLeased, plGoodIn, plNamed, PlNames
<1> HIDE DEF kept, lease, own
<1>8. plReply[v].kind = "ack" => plGood(lease)
    <2>1. plNow \in Nat /\ plSkew \in Nat /\ plBack \in Nat BY DEF plIInv, plTyped
    <2>2. plReply[v].back <= plBack /\ (plReply[v].back = plBack => plReply[v].wall <= plReply[v].at + plSkew)
        BY DEF plIInv, plReplied
    <2>3. plUntil(v) = plReply[v].at + PlLease BY DEF plUntil
    <2>4. lease.back = plBack => lease.wall <= plUntil(v) + plSkew BY <1>1, <1>6, <2>1, <2>2, <2>3, PlAssumption, SMTT(30)
    <2> QED BY <1>1, <1>6, <2>1, <2>2, <2>4 DEF plGood, plOf
<1>9. CASE leases = kept BY <1>3, <1>4, <1>7, <1>9
<1>10. CASE leases = [kept EXCEPT !["native"] = lease] /\ plReply[v].kind = "ack"
    <2>1. leases["native"] = lease /\ leases["log"] = kept["log"] BY <1>3, <1>10 DEF PlNames
    <2>2. leases \in [PlNames -> PlLeaseRec \cup {PlNone}] BY <1>3, <1>5, <1>10
    <2>3. plNamed(leases) BY <1>4, <1>6, <1>7, <2>1 DEF plGoodIn, plNamed, PlNames
    <2>4. \A i \in PlNames : leases[i] # PlNone => plGood(leases[i]) BY <1>7, <1>8, <1>10, <2>1 DEF plGoodIn, PlNames
    <2> QED BY <1>4, <1>6, <2>1, <2>2, <2>3, <2>4 DEF plGoodIn, PlNames
<1> QED BY <1>2, <1>9, <1>10

\* A pass is cached no longer than any lease that is held.
LEMMA plCachedUntil ==
    ASSUME plIInv, NEW found
    PROVE  /\ cachedUntil(found) \in Int
           /\ \A i \in PlNames : plLeases[i] # PlNone => cachedUntil(found) <= plLeases[i].exp
<1> DEFINE ends == {plLeases[i].exp : i \in {n \in PlNames : plLeases[n] # PlNone}} \cup {plNow + PlTTL}
<1>1. \A i \in PlNames : plLeases[i] # PlNone => plLeases[i].exp \in Int BY plLeaseType DEF plIInv, plTyped
<1>2. plNow + PlTTL \in Int BY PlAssumption DEF plIInv, plTyped
<1>3. ends \subseteq Int BY <1>1, <1>2
<1>4. \E a, b, c \in Int : ends = {a, b, c}
    <2> DEFINE log == IF plLeases["log"] = PlNone THEN plNow + PlTTL ELSE plLeases["log"].exp
               native == IF plLeases["native"] = PlNone THEN plNow + PlTTL ELSE plLeases["native"].exp
    <2>1. log \in Int /\ native \in Int BY <1>1, <1>2 DEF PlNames
    <2>2. ends = {log, native, plNow + PlTTL} BY DEF PlNames
    <2> QED BY <1>2, <2>1, <2>2
<1>5. \E t \in ends : \A u \in ends : t <= u
    <2> HIDE DEF ends
    <2>1. PICK a \in Int, b \in Int, c \in Int : ends = {a, b, c} BY <1>4
    <2>2. CASE a <= b /\ a <= c BY <2>1, <2>2
    <2>3. CASE b <= a /\ b <= c BY <2>1, <2>3
    <2>4. CASE c <= a /\ c <= b BY <2>1, <2>4
    <2> QED BY <2>2, <2>3, <2>4
<1>6. cachedUntil(found) \in ends /\ \A u \in ends : cachedUntil(found) <= u
    <2>1. cachedUntil(found) = CHOOSE t \in ends : \A u \in ends : t <= u BY DEF cachedUntil
    <2> HIDE DEF ends
    <2> QED BY <1>5, <2>1
<1>7. \A i \in PlNames : plLeases[i] # PlNone => plLeases[i].exp \in ends OBVIOUS
<1> QED BY <1>3, <1>6, <1>7

\* What is written of a lease ends with its grant on the scale of the uptime.
LEMMA plEncodedOk ==
    ASSUME plIInv
    PROVE  plEncoded \in PlFileRec /\ plFiledIn(plEncoded.leases, plEncoded.boot)
<1> DEFINE item(i) == [v |-> plLeases[i].v, wan |-> plLeases[i].wan, wall |-> plLeases[i].wall, nat |-> plLeases[i].nat,
                       up |-> plUptime + (plLeases[i].wall - plWall),
                       torn |-> plLeases[i].torn \/ plLeases[i].back # plBack]
           items == [i \in PlNames |-> IF plLeases[i] = PlNone THEN PlNone ELSE item(i)]
<1>1. plNow \in Nat /\ plSkew \in Nat /\ plBack \in Nat /\ plBoot \in Nat BY DEF plIInv, plTyped
<1>2. plUptime \in Int /\ plWall \in Int BY <1>1 DEF plUptime, plWall
<1>3. plEncoded = [ok |-> TRUE, boot |-> plBoot, wall |-> plWall, up |-> plUptime, leases |-> items] BY DEF plEncoded
<1>4. ASSUME NEW i \in PlNames, plLeases[i] # PlNone
      PROVE  item(i) \in PlItemRec /\ plOf(item(i)) /\ (~item(i).torn => item(i).up + plBoot <= plUntil(item(i).v))
    <2>1. /\ plLeases[i].v \in Nat \ {0} /\ plLeases[i].wan \in 1..2 /\ plLeases[i].nat \in BOOLEAN /\ plLeases[i].torn \in BOOLEAN
          /\ plLeases[i].back \in Nat /\ plLeases[i].wall \in Int
        BY <1>4, plLeaseType DEF plIInv, plTyped
    <2>2. plGood(plLeases[i]) BY <1>4 DEF plIInv, plLeased, plGoodIn
    <2>3. /\ item(i).v = plLeases[i].v /\ item(i).wan = plLeases[i].wan /\ item(i).wall = plLeases[i].wall
          /\ item(i).nat = plLeases[i].nat /\ item(i).up = plUptime + (plLeases[i].wall - plWall)
          /\ item(i).torn \in BOOLEAN
          /\ (item(i).torn => plLeases[i].torn \/ plLeases[i].back # plBack)
          /\ (~item(i).torn => ~plLeases[i].torn /\ plLeases[i].back = plBack)
        OBVIOUS
    <2>4. item(i) \in PlItemRec BY <1>2, <2>1 DEF PlItemRec
    <2> HIDE DEF item
    <2>5. plOf(item(i)) BY <1>1, <2>1, <2>2, <2>3 DEF plGood, plOf
    <2>6. plUntil(plLeases[i].v) \in Nat BY <2>2, plReplyType DEF plGood, plOf, plIInv
    <2>7. ~item(i).torn => plLeases[i].wall <= plUntil(plLeases[i].v) + plSkew BY <2>2, <2>3 DEF plGood
    <2>8. ~item(i).torn => item(i).up + plBoot <= plUntil(item(i).v)
        BY <1>1, <2>1, <2>3, <2>6, <2>7 DEF plUptime, plWall
    <2> QED BY <2>4, <2>5, <2>8
<1>5. \A i \in PlNames : items[i] = IF plLeases[i] = PlNone THEN PlNone ELSE item(i) OBVIOUS
<1>6. ASSUME NEW i \in PlNames, items[i] # PlNone
      PROVE  /\ plLeases[i] # PlNone /\ items[i] = item(i) /\ item(i).v = plLeases[i].v /\ item(i).wan = plLeases[i].wan
             /\ item(i).nat = plLeases[i].nat
    BY <1>5, <1>6
<1>7. items \in [PlNames -> PlItemRec \cup {PlNone}] BY <1>4
<1> HIDE DEF items, item
<1>8. plEncoded \in PlFileRec BY <1>1, <1>2, <1>3, <1>7 DEF PlFileRec
<1>9. plNamed(items) BY <1>6 DEF plNamed, plIInv, plLeased, plGoodIn, PlNames
<1>10. plFiledIn(items, plBoot) BY <1>4, <1>6, <1>9 DEF plFiledIn
<1> QED BY <1>3, <1>8, <1>10

LEMMA plTickStep == ASSUME plIInv, plTick PROVE plIInv'
<1>1. plTyped' BY PlAssumption, plConstants DEF plTick, plIInv, plTyped
<1>2. plReplied'
    <2>1. \A v \in 1..Len(plReply) : plReply[v].at \in Nat BY plReplyType DEF plIInv
    <2> QED BY <2>1 DEF plTick, plIInv, plTyped, plReplied
<1>3. plLeased'
    BY PlAssumption, plConstants DEF plTick, plIInv, plTyped, plLeased, plGoodIn, plNamed, plGood, plOf, plUntil
<1>4. plFiled' BY PlAssumption, plConstants DEF plTick, plIInv, plTyped, plFiled, plFiledIn, plNamed, plOf, plUntil
<1>5. plReads' BY PlAssumption, plConstants DEF plTick, plIInv, plTyped, plReads, PlReaderRec
<1>6. plFound'
    BY PlAssumption, plConstants DEF plTick, plIInv, plTyped, plReads, plFound, PlReaderRec, PlPassRec, plChanged
<1>7. plCached' BY plCachedFrame DEF plTick, plIInv, plTyped
<1> QED BY <1>1, <1>2, <1>3, <1>4, <1>5, <1>6, <1>7 DEF plIInv

LEMMA plClockStepStep == ASSUME plIInv, plClockStep PROVE plIInv'
<1>a. /\ plSkew' \in {0, 1} /\ plBack \in Nat /\ plBack' \in Nat /\ plSkew \in {0, 1}
      /\ \/ plBack' = plBack /\ plSkew <= plSkew'
         \/ plBack' = plBack + 1
      /\ UNCHANGED <<plNow, plReply, plLeases, plReader, plCache, plPass, plStarted, plFile>>
    BY DEF plClockStep, plIInv, plTyped
<1>b. plBack' # 0 \/ plBack' = plBack BY <1>a
<1>1. plTyped' BY PlAssumption, plConstants DEF plClockStep, plHappens, plIInv, plTyped
<1>2. plReplied'
    <2>1. \A v \in 1..Len(plReply) : plReply[v].at \in Nat /\ plReply[v].wall \in Nat /\ plReply[v].back \in Nat
        BY plReplyType DEF plIInv
    <2>2. CASE plBack' = plBack /\ plSkew <= plSkew' BY <1>a, <2>1, <2>2 DEF plIInv, plReplied
    <2>3. CASE plBack' = plBack + 1 BY <1>a, <2>1, <2>3 DEF plIInv, plReplied
    <2> QED BY <1>a, <2>2, <2>3
<1>3. plLeased'
    <2>1. plNamed(plLeases)' BY <1>a, <1>b DEF plIInv, plLeased, plGoodIn, plNamed
    <2>2. ASSUME NEW i \in PlNames, plLeases[i] # PlNone PROVE plGood(plLeases[i])'
        <3>1. plLeases[i].back \in Nat /\ plLeases[i].wall \in Int BY <2>2, plLeaseType DEF plIInv, plTyped
        <3>2. plGood(plLeases[i]) BY <2>2 DEF plIInv, plLeased, plGoodIn
        <3>3. plUntil(plLeases[i].v) \in Nat BY <3>2, plReplyType DEF plIInv, plGood, plOf
        <3>4. plUntil(plLeases[i].v)' = plUntil(plLeases[i].v) BY <1>a DEF plUntil
        <3>5. plOf(plLeases[i])' BY <1>a, <3>2 DEF plGood, plOf
        <3> QED BY <1>a, <3>1, <3>2, <3>3, <3>4, <3>5 DEF plGood
    <2> QED BY <1>a, <2>1, <2>2 DEF plLeased, plGoodIn
<1>4. plFiled'
    BY PlAssumption, plConstants DEF plClockStep, plHappens, plIInv, plTyped, plFiled, plFiledIn, plNamed, plOf,
       plUntil
<1>5. plReads' BY PlAssumption, plConstants DEF plClockStep, plHappens, plIInv, plTyped, plReads, PlReaderRec
<1>6. plFound' BY <1>a, <1>b DEF plIInv, plFound
<1>7. plCached' BY <1>a, <1>b, plCachedFrame DEF plIInv, plTyped
<1> QED BY <1>1, <1>2, <1>3, <1>4, <1>5, <1>6, <1>7 DEF plIInv

LEMMA plAnswerStep == ASSUME plIInv, plAnswer PROVE plIInv'
<1>a. PICK r \in PlReplyRec :
          /\ plReply' = Append(plReply, r) /\ r.at = plNow /\ r.wan = plWan /\ r.wall = plWall /\ r.back = plBack
          /\ r.full => r.kind = "ack"
    BY plAnswerReply DEF plIInv
<1>b. /\ Len(plReply) \in Nat /\ Len(plReply') = Len(plReply) + 1 /\ plReply' \in Seq(PlReplyRec)
      /\ \A v \in 1..Len(plReply) : plReply'[v] = plReply[v]
      /\ plReply'[Len(plReply) + 1] = r
    BY <1>a DEF plIInv, plTyped
<1>c. /\ plLog' \in 0..Len(plReply') /\ \A v \in 1..Len(plReply) : plReply[v].at < plNow
      /\ plReader' = (IF plReader.on /\ plReader.wan = plWan
                      THEN [plReader EXCEPT !.seen = @ + 1, !.last = Len(plReply) + 1] ELSE plReader)
      /\ UNCHANGED <<plNow, plSkew, plBack, plBoot, plWan, plRouted, plAuth, plStarted, plClosing, plLeases, plLoaded, plFile,
                     plPass, plCache>>
    BY <1>b DEF plAnswer, plIInv, plTyped
<1>d. /\ plReader' \in PlReaderRec /\ plReader'.on = plReader.on /\ plReader'.wan = plReader.wan
      /\ plReader'.applied = plReader.applied /\ plReader'.inspected = plReader.inspected
      /\ \/ plReader' = plReader /\ (plReader.on => plReader.wan # plWan)
         \/ plReader'.seen = plReader.seen + 1 /\ plReader'.last = Len(plReply) + 1 /\ plReader.on /\ plReader.wan = plWan
    <2>1. plReader \in PlReaderRec BY DEF plIInv, plTyped
    <2>2. CASE plReader.on /\ plReader.wan = plWan
        <3>1. plReader' = [plReader EXCEPT !.seen = plReader.seen + 1, !.last = Len(plReply) + 1] BY <1>c, <2>2
        <3>2. plReader.seen + 1 \in Nat /\ Len(plReply) + 1 \in Nat BY <1>b, <2>1 DEF PlReaderRec
        <3> QED BY <2>1, <2>2, <3>1, <3>2 DEF PlReaderRec
    <2>3. CASE ~(plReader.on /\ plReader.wan = plWan) BY <1>c, <2>1, <2>3
    <2> QED BY <2>2, <2>3
<1>e. \A v \in 1..Len(plReply) : plUntil(v)' = plUntil(v) BY <1>b DEF plUntil
<1>f. plReader \in PlReaderRec /\ plPass \in PlPassRec /\ plCache \in PlCacheRec BY DEF plIInv, plTyped
<1>1. plTyped' BY <1>b, <1>c, <1>d DEF plIInv, plTyped
<1>2. plReplied'
    <2>1. \A v \in 1..Len(plReply) : plReply[v].at \in Nat /\ plReply[v].wall \in Nat /\ plReply[v].back \in Nat
        BY plReplyType DEF plIInv
    <2>2. plNow \in Nat /\ plSkew \in Nat /\ plBack \in Nat BY DEF plIInv, plTyped
    <2>3. ASSUME NEW v \in 1..Len(plReply')
          PROVE /\ plReply'[v].at <= plNow /\ plReply'[v].back <= plBack
                /\ plReply'[v].full => plReply'[v].kind = "ack"
                /\ plReply'[v].back = plBack => plReply'[v].wall <= plReply'[v].at + plSkew
        <3>1. CASE v = Len(plReply) + 1 BY <1>a, <1>b, <2>2, <3>1 DEF plWall
        <3>2. CASE v # Len(plReply) + 1
            <4>1. v \in 1..Len(plReply) BY <1>b, <3>2
            <4> QED BY <1>b, <4>1 DEF plIInv, plReplied
        <3> QED BY <3>1, <3>2
    <2>4. ASSUME plBack = 0, NEW u \in 1..Len(plReply'), NEW v \in 1..Len(plReply'), u < v
          PROVE plReply'[u].wall < plReply'[v].wall
        <3>1. u \in 1..Len(plReply) BY <1>b, <2>4
        <3>2. CASE v = Len(plReply) + 1
            <4>1. plReply[u].back = plBack BY <2>1, <2>4, <3>1 DEF plIInv, plReplied
            <4>2. plReply[u].wall <= plReply[u].at + plSkew BY <3>1, <4>1 DEF plIInv, plReplied
            <4>3. plReply[u].at < plNow BY <1>c, <3>1
            <4> QED BY <1>a, <1>b, <2>1, <2>2, <3>1, <3>2, <4>2, <4>3, SMTT(60) DEF plWall
        <3>3. CASE v # Len(plReply) + 1
            <4>1. v \in 1..Len(plReply) BY <1>b, <3>3
            <4> QED BY <1>b, <2>4, <3>1, <4>1 DEF plIInv, plReplied
        <3> QED BY <3>2, <3>3
    <2> QED BY <1>c, <2>3, <2>4 DEF plReplied
<1>3. plLeased'
    <2>1. plNamed(plLeases)' BY <1>c DEF plIInv, plLeased, plGoodIn, plNamed
    <2>2. ASSUME NEW i \in PlNames, plLeases[i] # PlNone PROVE plGood(plLeases[i])'
        <3>1. plGood(plLeases[i]) /\ plLeases[i].v \in 1..Len(plReply)
            BY <2>2 DEF plIInv, plLeased, plGoodIn, plGood, plOf
        <3> QED BY <1>b, <1>c, <1>e, <3>1 DEF plGood, plOf
    <2> QED BY <1>c, <2>1, <2>2 DEF plLeased, plGoodIn
<1>4. plFiled'
    <2> SUFFICES ASSUME plFile.ok PROVE plFiledIn(plFile.leases, plFile.boot)' BY <1>c DEF plFiled
    <2>1. plNamed(plFile.leases)' BY <1>c DEF plIInv, plFiled, plFiledIn, plNamed
    <2>2. ASSUME NEW i \in PlNames, plFile.leases[i] # PlNone
          PROVE (plOf(plFile.leases[i]) /\ (~plFile.leases[i].torn => plFile.leases[i].up + plFile.boot <= plUntil(plFile.leases[i].v)))'
        <3>1. /\ plOf(plFile.leases[i]) /\ plFile.leases[i].v \in 1..Len(plReply)
              /\ (~plFile.leases[i].torn => plFile.leases[i].up + plFile.boot <= plUntil(plFile.leases[i].v))
            BY <2>2 DEF plIInv, plFiled, plFiledIn, plOf
        <3> QED BY <1>b, <1>c, <1>e, <3>1 DEF plOf
    <2> QED BY <1>c, <2>1, <2>2 DEF plFiledIn
<1>5. plReads'
    <2>1. plReader.applied \in Nat /\ plReader.seen \in Nat /\ plReader.inspected \in Nat /\ plReader.last \in Nat
        BY <1>f DEF PlReaderRec
    <2>2. CASE plReader' = plReader /\ (plReader.on => plReader.wan # plWan)
        <3>1. plReader.last # 0 => plReader.on BY DEF plIInv, plReads, plNoReader
        <3>2. \A u \in 1..Len(plReply') : u # Len(plReply) + 1 => u \in 1..Len(plReply) BY <1>b
        <3> QED BY <1>a, <1>b, <1>c, <2>1, <2>2, <3>1, <3>2 DEF plIInv, plReads
    <2>3. CASE plReader'.seen = plReader.seen + 1 /\ plReader'.last = Len(plReply) + 1 /\ plReader.on /\ plReader.wan = plWan
        BY <1>a, <1>b, <1>c, <1>d, <2>1, <2>3 DEF plIInv, plReads
    <2> QED BY <1>d, <2>2, <2>3
<1>6. plFound'
    <2>1. /\ plReader.applied \in Nat /\ plReader.seen \in Nat /\ plReader.inspected \in Nat /\ plReader.last \in Nat
          /\ plReader.inspected <= plReader.seen /\ plPass.rev \in Nat
        BY <1>f DEF PlReaderRec, PlPassRec, plIInv, plReads
    <2>2. plPass.cand \subseteq 0..Len(plReply') /\ \A v \in plPass.cand \ {0} : v \in 1..Len(plReply)
        BY <1>b, <1>f DEF plIInv, plFound
    <2>3. \A i \in PlNames : plLeases[i] # PlNone => plLeases[i].v \in 1..Len(plReply)
        BY DEF plIInv, plLeased, plGoodIn, plGood, plOf
    <2>4. CASE plReader' = plReader
        BY <1>b, <1>c, <2>2, <2>3, <2>4 DEF plIInv, plFound
    <2>5. CASE plReader'.seen = plReader.seen + 1
        BY <1>c, <1>d, <2>1, <2>2, <2>5 DEF plIInv, plFound
    <2> QED BY <1>d, <2>4, <2>5
<1>7. plCached'
    <2>1. /\ plReader.applied \in Nat /\ plReader.seen \in Nat /\ plReader.applied <= plReader.seen
        BY <1>f DEF PlReaderRec, plIInv, plReads
    <2>2. plCache.v \subseteq 0..Len(plReply') /\ \A v \in plCache.v \ {0} : v \in 1..Len(plReply)
        BY <1>b, <1>f DEF plIInv, plCached
    <2>3. plHeld' = plHeld /\ (plChanged' \/ plChanged' = plChanged) BY <1>c, <1>d, <2>1 DEF plHeld, plChanged
    <2>4. plCache.key # 0 => 0 \notin plCache.v BY DEF plIInv, plCached
    <2>5. plCache.key # 0 /\ plNewer => plNewer' BY <1>b, <1>c, <2>2, <2>3, <2>4 DEF plNewer
    <2>6. plCache.key # 0 /\ plBack = 0 => \A v \in plCache.v : plCache.until <= plUntil(v)'
        BY <1>e, <2>2, <2>4 DEF plIInv, plCached
    <2>7. CASE plReader' = plReader
        <3>1. plChanged' = plChanged BY <2>7 DEF plChanged
        <3> QED BY <1>b, <1>c, <2>2, <2>4, <2>5, <2>6, <2>7, <3>1 DEF plIInv, plCached
    <2>8. CASE plReader'.seen = plReader.seen + 1 /\ plReader.on
        <3>1. plChanged' BY <1>d, <2>1, <2>8 DEF plChanged
        <3> QED BY <1>c, <2>2, <2>4, <2>6, <3>1 DEF plIInv, plCached
    <2> QED BY <1>d, <2>7, <2>8
<1> QED BY <1>1, <1>2, <1>3, <1>4, <1>5, <1>6, <1>7 DEF plIInv

LEMMA plWanChangesStep == ASSUME plIInv, plWanChanges PROVE plIInv'
<1>1. plTyped'
    <2>1. plWan' \in 1..2 BY DEF plWanChanges, plIInv, plTyped
    <2>2. plRouted' \in BOOLEAN /\ plAuth' \in BOOLEAN BY DEF plWanChanges, plIInv, plTyped
    <2>3. plLog' \in 0..Len(plReply)
        <3>1. Len(plReply) \in Nat /\ plLog \in 0..Len(plReply) BY DEF plIInv, plTyped
        <3>2. plLog' = plLog \/ plLog' = 0 BY DEF plWanChanges
        <3> QED BY <3>1, <3>2
    <2> QED BY <2>1, <2>2, <2>3 DEF plWanChanges, plHappens, plIInv, plTyped
<1>2. plReplied' BY PlAssumption, plConstants DEF plWanChanges, plHappens, plIInv, plTyped, plReplied
<1>3. plLeased'
    BY PlAssumption, plConstants DEF plWanChanges, plHappens, plIInv, plTyped, plLeased, plGoodIn, plNamed, plGood,
       plOf, plUntil
<1>4. plFiled'
    BY PlAssumption, plConstants DEF plWanChanges, plHappens, plIInv, plTyped, plFiled, plFiledIn, plNamed, plOf,
       plUntil
<1>5. plReads' BY PlAssumption, plConstants DEF plWanChanges, plHappens, plIInv, plTyped, plReads, PlReaderRec
<1>6. plFound'
    BY PlAssumption, plConstants DEF plWanChanges, plHappens, plIInv, plTyped, plReads, plFound, PlReaderRec,
       PlPassRec, plChanged
<1>7. plCached'
    BY PlAssumption, plConstants DEF plWanChanges, plHappens, plIInv, plTyped, plReads, plFound, plCached, plNewer,
       plHeld, plUntil, plChanged, PlReaderRec, PlCacheRec
<1> QED BY <1>1, <1>2, <1>3, <1>4, <1>5, <1>6, <1>7 DEF plIInv

LEMMA plRestartStep == ASSUME plIInv, plRestart PROVE plIInv'
<1>a. /\ plReader' = plNoReader /\ plLeases' = [i \in PlNames |-> PlNone] /\ plPass' = plNoPass /\ plCache' = plNoCache
      /\ plStarted' = TRUE /\ plClosing' = FALSE /\ plLoaded' = FALSE /\ plBoot' \in 0..plNow /\ plLog' \in 0..Len(plReply)
      /\ UNCHANGED <<plNow, plSkew, plBack, plWan, plRouted, plAuth, plReply, plFile>>
    BY DEF plRestart, plIInv, plTyped
<1>1. plTyped' BY <1>a, plConstants DEF plIInv, plTyped
<1>2. plReplied' BY PlAssumption, plConstants DEF plRestart, plHappens, plIInv, plTyped, plReplied
<1>3. plLeased'
    BY PlAssumption, plConstants DEF plRestart, plHappens, plIInv, plTyped, plLeased, plGoodIn, plNamed, plGood,
       plOf, plUntil
<1>4. plFiled'
    BY PlAssumption, plConstants DEF plRestart, plHappens, plIInv, plTyped, plFiled, plFiledIn, plNamed, plOf,
       plUntil
<1>5. plReads' BY <1>a DEF plReads, plNoReader
<1>6. plFound' BY <1>a DEF plFound, plNoReader, plNoPass
<1>7. plCached' BY <1>a DEF plCached, plNoReader, plNoCache
<1> QED BY <1>1, <1>2, <1>3, <1>4, <1>5, <1>6, <1>7 DEF plIInv

LEMMA plBeginStep == ASSUME plIInv, plBegin PROVE plIInv'
<1>a. /\ plPass.at = "idle" /\ (plNow >= plCache.until \/ plChanged) /\ plLoaded' = TRUE
      /\ UNCHANGED <<plNow, plSkew, plBack, plBoot, plWan, plRouted, plAuth, plReply, plLog, plStarted, plClosing, plFile, plCache>>
    BY DEF plBegin, plWorld
<1>b. \/ /\ plLeases' = [i \in PlNames |-> PlNone] /\ plReader' = plNoReader
         /\ plPass' = [plNoPass EXCEPT !.at = "end", !.cand = {0}]
      \/ /\ plLeases' \in [PlNames -> PlLeaseRec \cup {PlNone}] /\ plGoodIn(plLeases') /\ plReader' = plReader
         /\ \E cand : /\ plPass' = [plNoPass EXCEPT !.at = "observe", !.key = plKey, !.rev = plReader.seen,
                                                      !.reader = plReader.on, !.cand = cand]
                       /\ \/ cand = {}
                          \/ /\ cand = {plLog} /\ plLog \in 1..Len(plReply)
                             /\ plKey # 0 => plLeases'["log"] # PlNone /\ plLeases'["log"].v = plLog /\ plLeases'["log"].wan = plKey
    <2> DEFINE before == IF plLoaded THEN plLeases ELSE loaded
               kept == prune(before, plKey)
               cand == IF logUsable(kept, plKey) THEN {plLog} ELSE {}
    <2>1. before \in [PlNames -> PlLeaseRec \cup {PlNone}] /\ plGoodIn(before)
        BY plLoadedOk DEF plIInv, plTyped, plLeased
    <2>2. \/ /\ plLeases' = [i \in PlNames |-> PlNone] /\ plReader' = plNoReader
             /\ plPass' = [plNoPass EXCEPT !.at = "end", !.cand = {0}]
          \/ /\ plLeases' = learnLog(kept, plKey) /\ plReader' = plReader
             /\ plPass' = [plNoPass EXCEPT !.at = "observe", !.key = plKey, !.rev = plReader.seen,
                                           !.reader = plReader.on, !.cand = cand]
        BY DEF plBegin
    <2> HIDE DEF before
    <2>3. kept \in [PlNames -> PlLeaseRec \cup {PlNone}] /\ plGoodIn(kept) BY <2>1, plPruned
    <2> HIDE DEF kept
    <2>4. /\ learnLog(kept, plKey) \in [PlNames -> PlLeaseRec \cup {PlNone}] /\ plGoodIn(learnLog(kept, plKey))
          /\ logUsable(kept, plKey) /\ plKey # 0 =>
               LET l == learnLog(kept, plKey)["log"] IN l # PlNone /\ l.v = plLog /\ l.wan = plKey
          /\ logUsable(kept, plKey) => plLog \in 1..Len(plReply)
        BY <2>3, plLearned
    <2>5. CASE plReader' = plNoReader /\ plLeases' = [i \in PlNames |-> PlNone]
               /\ plPass' = [plNoPass EXCEPT !.at = "end", !.cand = {0}]
        BY <2>5
    <2>6. CASE /\ plLeases' = learnLog(kept, plKey) /\ plReader' = plReader
               /\ plPass' = [plNoPass EXCEPT !.at = "observe", !.key = plKey, !.rev = plReader.seen,
                                             !.reader = plReader.on, !.cand = cand]
        <3>1. plLeases' \in [PlNames -> PlLeaseRec \cup {PlNone}] /\ plGoodIn(plLeases') BY <2>4, <2>6
        <3>2. \/ cand = {}
              \/ /\ cand = {plLog} /\ plLog \in 1..Len(plReply)
                 /\ plKey # 0 => plLeases'["log"] # PlNone /\ plLeases'["log"].v = plLog /\ plLeases'["log"].wan = plKey
            BY <2>4, <2>6
        <3> HIDE DEF cand
        <3> QED BY <2>6, <3>1, <3>2
    <2> QED BY <2>2, <2>5, <2>6
<1>c. plKey \in 0..2 BY DEF plKey, plIInv, plTyped
<1>d. plLeases' \in [PlNames -> PlLeaseRec \cup {PlNone}] /\ plGoodIn(plLeases')
    <2>1. plLeases' = [i \in PlNames |-> PlNone] => plGoodIn(plLeases') BY DEF plGoodIn, plNamed, PlNames
    <2> QED BY <1>b, <2>1
<1>e. plReader \in PlReaderRec /\ plNoPass \in PlPassRec /\ plNoReader \in PlReaderRec
    BY plConstants DEF plIInv, plTyped
<1>f. \/ /\ plLeases'["native"] = PlNone /\ plReader' = plNoReader
         /\ plPass'.at = "end" /\ plPass'.cand = {0} /\ plPass'.key = 0 /\ ~plPass'.reader /\ ~plPass'.timed
      \/ /\ plReader' = plReader /\ plPass'.at = "observe" /\ plPass'.key = plKey /\ ~plPass'.timed
         /\ plPass'.rev = plReader.seen /\ (plPass'.reader => plReader.on)
         /\ \/ plPass'.cand = {}
            \/ /\ plPass'.cand = {plLog} /\ plLog \in 1..Len(plReply)
               /\ plKey # 0 => plLeases'["log"] # PlNone /\ plLeases'["log"].v = plLog /\ plLeases'["log"].wan = plKey
    BY <1>b DEF plNoPass, PlNames
<1>g. plReader' \in PlReaderRec /\ plPass' \in PlPassRec
    <2>1. CASE plReader' = plNoReader /\ plPass' = [plNoPass EXCEPT !.at = "end", !.cand = {0}]
        BY <1>e, <2>1 DEF plNoPass, PlPassRec
    <2>2. ASSUME plReader' = plReader, NEW cand, cand = {} \/ cand = {plLog},
                 plPass' = [plNoPass EXCEPT !.at = "observe", !.key = plKey, !.rev = plReader.seen,
                                            !.reader = plReader.on, !.cand = cand]
          PROVE plReader' \in PlReaderRec /\ plPass' \in PlPassRec
        <3>1. plLog \in Nat /\ plReader.seen \in Nat /\ plReader.on \in BOOLEAN
            BY <1>e DEF plIInv, plTyped, PlReaderRec
        <3>2. cand \in SUBSET Nat BY <2>2, <3>1
        <3> QED BY <1>c, <1>e, <2>2, <3>1, <3>2 DEF plNoPass, PlPassRec
    <2> QED BY <1>b, <2>1, <2>2
<1>1. plTyped' BY <1>a, <1>d, <1>g DEF plIInv, plTyped
<1>2. plReplied' BY <1>a DEF plIInv, plReplied
<1>3. plLeased' BY <1>a, <1>d DEF plLeased, plGoodIn, plNamed, plGood, plOf, plUntil
<1>4. plFiled' BY <1>a DEF plIInv, plFiled, plFiledIn, plNamed, plOf, plUntil
<1>5. plReads' BY <1>a, <1>f DEF plIInv, plReads, plNoReader
<1>6. plFound'
    <2>1. Len(plReply) \in Nat BY DEF plIInv, plTyped
    <2>2. CASE plReader' = plNoReader /\ plPass'.at = "end" /\ plPass'.cand = {0} /\ plPass'.key = 0 /\ ~plPass'.reader /\ ~plPass'.timed
        <3>1. ~plReader'.on BY <2>2 DEF plNoReader
        <3> QED BY <1>a, <2>1, <2>2, <3>1 DEF plFound
    <2>3. CASE /\ plReader' = plReader /\ plPass'.at = "observe" /\ plPass'.key = plKey /\ ~plPass'.timed
               /\ plPass'.rev = plReader.seen /\ (plPass'.reader => plReader.on)
               /\ \/ plPass'.cand = {}
                  \/ /\ plPass'.cand = {plLog} /\ plLog \in 1..Len(plReply)
                     /\ plKey # 0 => plLeases'["log"] # PlNone /\ plLeases'["log"].v = plLog /\ plLeases'["log"].wan = plKey
        <3>1. plReader.seen \in Nat BY <1>e DEF PlReaderRec
        <3> QED BY <1>a, <2>1, <2>3, <3>1 DEF plFound
    <2> QED BY <1>f, <2>2, <2>3
<1>7. plCached'
    <2>1. plNow \in Int /\ plCache.until \in Int BY DEF plIInv, plTyped, PlCacheRec
    <2>2. \A v : plUntil(v)' = plUntil(v) BY <1>a DEF plUntil
    <2>3. CASE plLeases'["native"] = PlNone /\ plReader' = plNoReader /\ plPass'.at = "end"
        <3>1. ~plReader'.on BY <2>3 DEF plNoReader
        <3> QED BY <1>a, <2>2, <2>3, <3>1 DEF plIInv, plCached
    <2>4. CASE plReader' = plReader
        <3>1. plChanged' = plChanged BY <2>4 DEF plChanged
        <3> QED BY <1>a, <2>1, <2>2, <2>4, <3>1 DEF plIInv, plCached
    <2> QED BY <1>f, <2>3, <2>4
<1> QED BY <1>1, <1>2, <1>3, <1>4, <1>5, <1>6, <1>7 DEF plIInv

LEMMA plObserveStep == ASSUME plIInv, plObserve PROVE plIInv'
<1>a. /\ plPass.at = "observe"
      /\ UNCHANGED <<plNow, plSkew, plBack, plBoot, plWan, plRouted, plAuth, plReply, plLog, plStarted, plClosing, plLoaded, plFile>>
    BY DEF plObserve, plWorld, plStore
<1>b. plReader \in PlReaderRec /\ plPass \in PlPassRec /\ plCache \in PlCacheRec /\ plNoReader \in PlReaderRec
    BY plConstants DEF plIInv, plTyped
<1>c. \/ /\ plReader' = plNoReader /\ plPass' = [plPass EXCEPT !.at = "end", !.reader = FALSE] /\ plLeases' = plLeases
         /\ plCache' = [plCache EXCEPT !.lost = plCache.lost \/ plChanged]
      \/ /\ ~(plReader.on /\ plReader.wan = plPass.key) /\ plStarted /\ plPass.key # 0 /\ plLeases' = plLeases
         /\ plReader' = [plNoReader EXCEPT !.on = TRUE, !.wan = plPass.key, !.inspected = 0]
         /\ plPass' = [plPass EXCEPT !.at = "end", !.reader = FALSE]
         /\ plCache' = [plCache EXCEPT !.lost = plCache.lost \/ plChanged]
      \/ /\ plReader.on /\ plReader.wan = plPass.key /\ plStarted /\ plPass.key # 0 /\ plCache' = plCache
         /\ plReader' = [plReader EXCEPT !.inspected = plReader.seen]
         /\ \/ /\ plPass' = [plPass EXCEPT !.at = "end"] /\ plLeases' = plLeases
               /\ \/ plReader.last = 0
                  \/ \E i \in PlNames : plLeases[i] # PlNone /\ plLeases[i].wan = plPass.key
                                         /\ leaseObserved(plLeases[i]) > plReply[plReader.last].wall
            \/ /\ plReader.last # 0 /\ plPass' = [plPass EXCEPT !.at = "end", !.cand = {}]
               /\ plLeases' = supersede(plPass.key, plReader.last)
    <2>1. CASE ~runs \/ plPass.key = 0 \/ plWan # plPass.key BY <2>1 DEF plObserve, readerEnds
    <2>2. CASE ~(~runs \/ plPass.key = 0 \/ plWan # plPass.key)
        <3>1. CASE plReader.on /\ plReader.wan = plPass.key
            <4>1. [plPass EXCEPT !.at = "end", !.reader = @ /\ TRUE] = [plPass EXCEPT !.at = "end"]
                BY <1>b DEF PlPassRec
            <4>2. [[plPass EXCEPT !.at = "end", !.reader = @ /\ TRUE] EXCEPT !.cand = {}] = [plPass EXCEPT !.at = "end", !.cand = {}]
                BY <1>b DEF PlPassRec
            <4> QED BY <2>2, <3>1, <4>1, <4>2 DEF plObserve, runs
        <3>2. CASE ~(plReader.on /\ plReader.wan = plPass.key)
            <4>1. [plPass EXCEPT !.at = "end", !.reader = @ /\ FALSE] = [plPass EXCEPT !.at = "end", !.reader = FALSE]
                BY <1>b DEF PlPassRec
            <4>2. plNoReader.seen = 0 /\ plNoReader.last = 0 BY DEF plNoReader
            <4> QED BY <2>2, <3>2, <4>1, <4>2 DEF plObserve, runs, readerEnds, plNoReader
        <3> QED BY <3>1, <3>2
    <2> QED BY <2>1, <2>2
<1>d. /\ plCache' \in PlCacheRec /\ plCache'.v = plCache.v /\ plCache'.until = plCache.until /\ plCache'.timed = plCache.timed
      /\ plCache'.key = plCache.key /\ (plCache.lost => plCache'.lost)
    <2>1. CASE plCache' = plCache BY <1>b, <2>1
    <2>2. CASE plCache' = [plCache EXCEPT !.lost = plCache.lost \/ plChanged]
        <3>1. (plCache.lost \/ plChanged) \in BOOLEAN BY <1>b DEF PlCacheRec, PlReaderRec, plChanged
        <3> QED BY <1>b, <2>2, <3>1 DEF PlCacheRec
    <2> QED BY <1>c, <2>1, <2>2
<1>e. /\ plPass' \in PlPassRec /\ plPass'.at = "end" /\ plPass'.key = plPass.key /\ plPass'.rev = plPass.rev
      /\ plPass'.timed = plPass.timed /\ (plPass'.reader => plPass.reader) /\ (plPass'.cand = plPass.cand \/ plPass'.cand = {})
    BY <1>b, <1>c DEF PlPassRec
<1>f. ASSUME plReader.on, plReader.wan = plPass.key, plReader.last # 0
      PROVE  plReader.last \in 1..Len(plReply) /\ plReply[plReader.last].wan = plPass.key
    BY <1>b, <1>f DEF plIInv, plReads, PlReaderRec
<1>g. plLeases' = plLeases \/ (/\ plLeases' \in [PlNames -> PlLeaseRec \cup {PlNone}] /\ plGoodIn(plLeases')
                              /\ plReader.last # 0 /\ plReader.on /\ plReader.wan = plPass.key /\ plPass'.cand = {}
                              /\ \A i \in PlNames : plLeases'[i] # PlNone /\ plLeases'[i].wan = plPass.key => plLeases'[i].v = plReader.last)
    <2>1. CASE /\ plReader.on /\ plReader.wan = plPass.key /\ plReader.last # 0 /\ plPass' = [plPass EXCEPT !.at = "end", !.cand = {}]
               /\ plLeases' = supersede(plPass.key, plReader.last)
        <3>1. plPass'.cand = {} BY <1>b, <2>1 DEF PlPassRec
        <3> QED BY <1>f, <2>1, <3>1, plSuperseded
    <2> QED BY <1>c, <2>1
<1>h. plLeases' \in [PlNames -> PlLeaseRec \cup {PlNone}] /\ plGoodIn(plLeases') BY <1>g DEF plIInv, plTyped, plLeased
<1>i. \/ ~plReader'.on /\ plReader' = plNoReader /\ ~plPass'.reader /\ plLeases' = plLeases /\ (plCache'.lost \/ ~plChanged)
      \/ /\ plReader'.on /\ plReader'.last = 0 /\ plReader'.seen = 0 /\ plReader'.applied = 0 /\ plReader'.inspected = 0
         /\ ~plPass'.reader /\ plStarted /\ plLeases' = plLeases /\ plReader' \in PlReaderRec /\ (plCache'.lost \/ ~plChanged)
      \/ /\ plReader.on /\ plReader'.on /\ plReader'.wan = plReader.wan /\ plReader.wan = plPass.key /\ plStarted /\ plCache' = plCache
         /\ plReader'.seen = plReader.seen /\ plReader'.applied = plReader.applied /\ plReader'.inspected = plReader.seen
         /\ plReader'.last = plReader.last /\ plReader' \in PlReaderRec
    <2>1. CASE /\ plReader' = plNoReader /\ plPass' = [plPass EXCEPT !.at = "end", !.reader = FALSE] /\ plLeases' = plLeases
               /\ plCache' = [plCache EXCEPT !.lost = plCache.lost \/ plChanged]
        BY <1>b, <2>1 DEF plNoReader, PlPassRec, PlCacheRec
    <2>2. CASE /\ plStarted /\ plLeases' = plLeases
               /\ plReader' = [plNoReader EXCEPT !.on = TRUE, !.wan = plPass.key, !.inspected = 0]
               /\ plPass' = [plPass EXCEPT !.at = "end", !.reader = FALSE]
               /\ plCache' = [plCache EXCEPT !.lost = plCache.lost \/ plChanged]
        <3>1. ~plPass'.reader /\ (plCache'.lost \/ ~plChanged) BY <1>b, <2>2 DEF PlPassRec, PlCacheRec
        <3>2. plReader' = [on |-> TRUE, wan |-> plPass.key, seen |-> 0, last |-> 0, applied |-> 0, inspected |-> 0]
            BY <2>2 DEF plNoReader
        <3>3. plPass.key \in 0..2 BY <1>b DEF PlPassRec
        <3>4. plReader' \in PlReaderRec BY <3>2, <3>3 DEF PlReaderRec
        <3>5. /\ plReader'.on /\ plReader'.last = 0 /\ plReader'.seen = 0 /\ plReader'.applied = 0 /\ plReader'.inspected = 0
            BY <3>2
        <3> QED BY <2>2, <3>1, <3>4, <3>5
    <2>3. CASE /\ plReader.on /\ plReader.wan = plPass.key /\ plStarted /\ plCache' = plCache
               /\ plReader' = [plReader EXCEPT !.inspected = plReader.seen]
        BY <1>b, <2>3 DEF PlReaderRec
    <2> QED BY <1>c, <2>1, <2>2, <2>3
\* As long as the wall clock was not set back nothing is newer than the last reply of the reader's WAN.
<1>j. ASSUME plBack = 0, plReader.on, plReader.wan = plPass.key, plReader.last # 0, NEW i \in PlNames,
             plLeases[i] # PlNone, plLeases[i].wan = plPass.key
      PROVE  ~(leaseObserved(plLeases[i]) > plReply[plReader.last].wall)
    <2>1. plLeases[i].v \in 1..Len(plReply) /\ plReply[plLeases[i].v].wan = plPass.key
        BY <1>j DEF plIInv, plLeased, plGoodIn, plGood, plOf
    <2>2. plReader.last \in 1..Len(plReply) BY <1>f, <1>j
    <2>3. ~(plLeases[i].v > plReader.last) BY <1>j, <2>1 DEF plIInv, plReads
    <2>4. plReply[plLeases[i].v].wall \in Nat /\ plReply[plReader.last].wall \in Nat /\ plWall \in Int
        BY <2>1, <2>2, plReplyType DEF plIInv, plTyped, plWall
    <2>5. /\ plReply[plReader.last].wall < plReply[plLeases[i].v].wall <=> plReader.last < plLeases[i].v
          /\ plReply[plLeases[i].v].wall <= plWall
        BY <1>j, <2>1, <2>2, plWallOrders DEF plIInv
    <2>6. leaseObserved(plLeases[i]) = plReply[plLeases[i].v].wall BY <2>4, <2>5 DEF leaseObserved, observedAt
    <2> QED BY <2>1, <2>2, <2>3, <2>4, <2>5, <2>6
<1>k. ASSUME plBack = 0, plReader'.on, plReader.on, plReader.wan = plPass.key, plReader.last # 0
      PROVE  plPass'.cand = {} /\ \A i \in PlNames : plLeases'[i] # PlNone /\ plLeases'[i].wan = plPass.key => plLeases'[i].v = plReader.last
    <2>1. plLeases' = supersede(plPass.key, plReader.last) /\ plPass' = [plPass EXCEPT !.at = "end", !.cand = {}] /\ plReader.last # 0
        <3>1. ~(\E i \in PlNames : plLeases[i] # PlNone /\ plLeases[i].wan = plPass.key
                                         /\ leaseObserved(plLeases[i]) > plReply[plReader.last].wall)
            BY <1>j, <1>k
        <3>2. plReader' # plNoReader BY <1>k DEF plNoReader
        <3> QED BY <1>c, <1>k, <3>1, <3>2
    <2>2. plPass'.cand = {} BY <1>b, <2>1 DEF PlPassRec
    <2> QED BY <1>f, <1>k, <2>1, <2>2, plSuperseded
<1>1. plTyped' BY <1>a, <1>d, <1>e, <1>h, <1>i, <1>b DEF plIInv, plTyped
<1>2. plReplied' BY PlAssumption, plConstants DEF plObserve, plWorld, plStore, plIInv, plTyped, plReplied
<1>3. plLeased' BY <1>a, <1>h DEF plLeased, plGoodIn, plNamed, plGood, plOf, plUntil
<1>4. plFiled'
    BY PlAssumption, plConstants DEF plObserve, plWorld, plStore, plIInv, plTyped, plFiled, plFiledIn, plNamed,
       plOf, plUntil
<1>5. plReads'
    <2>1. plReader.applied \in Nat /\ plReader.seen \in Nat /\ plReader.inspected \in Nat BY <1>b DEF PlReaderRec
    <2>2. CASE plReader' = plNoReader BY <1>a, <2>2 DEF plIInv, plReads, plNoReader
    <2>3. CASE plReader'.on /\ plReader'.last = 0 /\ plReader'.seen = 0 /\ plReader'.applied = 0 /\ plReader'.inspected = 0 /\ plStarted
        BY <1>a, <2>3 DEF plIInv, plReads
    <2>4. CASE /\ plReader.on /\ plReader'.on /\ plReader'.wan = plReader.wan /\ plStarted
               /\ plReader'.seen = plReader.seen /\ plReader'.applied = plReader.applied /\ plReader'.inspected = plReader.seen
               /\ plReader'.last = plReader.last
        BY <1>a, <2>1, <2>4 DEF plIInv, plReads
    <2> QED BY <1>i, <2>2, <2>3, <2>4
<1>6. plFound'
    <2>1. plReader.applied \in Nat /\ plReader.seen \in Nat /\ plReader.inspected \in Nat /\ plPass.rev \in Nat
        BY <1>b DEF PlReaderRec, PlPassRec
    <2>2. plPass'.cand \subseteq 0..Len(plReply') /\ (0 \in plPass'.cand => plPass'.key = 0) /\ ~plPass.timed
        BY <1>a, <1>e DEF plIInv, plFound
    <2>3. plPass'.cand # {} /\ plPass'.key # 0 =>
              plLeases'["log"] # PlNone /\ plPass'.cand = {plLeases'["log"].v} /\ plLeases'["log"].wan = plPass'.key
        BY <1>e, <1>g DEF plIInv, plFound
    <2>4. CASE ~plReader'.on /\ ~plPass'.reader BY <1>e, <2>2, <2>3, <2>4 DEF plFound
    <2>5. CASE plReader'.on /\ plReader'.last = 0 /\ plReader'.seen = 0 /\ plReader'.applied = 0 /\ plReader'.inspected = 0 /\ ~plPass'.reader
        BY <1>e, <2>2, <2>3, <2>5 DEF plFound
    <2>6. CASE /\ plReader.on /\ plReader'.on /\ plReader'.wan = plReader.wan /\ plReader.wan = plPass.key
               /\ plReader'.seen = plReader.seen /\ plReader'.applied = plReader.applied /\ plReader'.inspected = plReader.seen
               /\ plReader'.last = plReader.last
        <3>1. plReader.applied <= plReader.seen /\ (plPass.reader => plPass.rev <= plReader.seen)
            BY <1>a DEF plIInv, plReads, plFound
        <3>2. plBack = 0 /\ plReader.last # 0 => /\ plPass'.cand = {}
                  /\ \A i \in PlNames : plLeases'[i] # PlNone /\ plLeases'[i].wan = plReader'.wan => plLeases'[i].v >= plReader'.last
            <4> SUFFICES ASSUME plBack = 0, plReader.last # 0
                         PROVE  /\ plPass'.cand = {}
                                /\ \A i \in PlNames : plLeases'[i] # PlNone /\ plLeases'[i].wan = plReader'.wan => plLeases'[i].v >= plReader'.last
                OBVIOUS
            <4>1. plReader.last \in Nat BY <1>b DEF PlReaderRec
            <4> QED BY <1>k, <2>6, <4>1
        <3> QED BY <1>a, <1>e, <2>1, <2>2, <2>3, <2>6, <3>1, <3>2 DEF plFound
    <2> QED BY <1>i, <2>4, <2>5, <2>6
<1>7. plCached'
    <2>1. /\ plCache'.v \subseteq 0..Len(plReply') /\ (0 \in plCache'.v => plCache'.key = 0)
          /\ (plCache'.key # 0 /\ plBack' = 0 => \A v \in plCache'.v : plCache'.until <= plUntil(v)')
        BY <1>a, <1>d DEF plIInv, plCached, plUntil
    <2>2. plStarted /\ plNow < plCache.until /\ ~plChanged /\ ~plCache.lost /\ plBack = 0 /\ plCache.key # 0 => FALSE
        BY <1>a DEF plIInv, plCached
    <2>3. CASE ~plReader'.on /\ (plCache'.lost \/ ~plChanged)
        BY <1>a, <1>d, <2>1, <2>2, <2>3 DEF plCached
    <2>4. CASE plReader'.last = 0 /\ (plCache'.lost \/ ~plChanged)
        BY <1>a, <1>d, <2>1, <2>2, <2>4 DEF plCached
    <2>5. CASE /\ plReader.on /\ plReader'.on /\ plReader'.wan = plReader.wan /\ plCache' = plCache
               /\ plReader'.seen = plReader.seen /\ plReader'.applied = plReader.applied /\ plReader'.last = plReader.last
        <3>1. plChanged' = plChanged BY <2>5 DEF plChanged
        <3>2. plReader.on /\ ~plChanged /\ ~plCache.timed /\ plReader.last # 0 /\ plBack = 0
              => \A v \in plCache.v \ {0} : plReply[v].wan = plReader.wan => v >= plReader.last
            BY DEF plIInv, plCached
        <3> QED BY <1>a, <2>1, <2>2, <2>5, <3>1, <3>2 DEF plCached
    <2> QED BY <1>i, <2>3, <2>4, <2>5
<1> QED BY <1>1, <1>2, <1>3, <1>4, <1>5, <1>6, <1>7 DEF plIInv

LEMMA plTimeoutStep == ASSUME plIInv, plTimeout PROVE plIInv'
<1>1. plTyped'
    <2>1. plPass' \in PlPassRec BY DEF plTimeout, plIInv, plTyped, PlPassRec
    <2> QED BY <2>1 DEF plTimeout, plWorld, plStore, plIInv, plTyped
<1>2. plReplied' BY PlAssumption, plConstants DEF plTimeout, plHappens, plWorld, plStore, plIInv, plTyped, plReplied
<1>3. plLeased'
    BY PlAssumption, plConstants DEF plTimeout, plHappens, plWorld, plStore, plIInv, plTyped, plLeased, plGoodIn,
       plNamed, plGood, plOf, plUntil
<1>4. plFiled'
    BY PlAssumption, plConstants DEF plTimeout, plHappens, plWorld, plStore, plIInv, plTyped, plFiled, plFiledIn,
       plNamed, plOf, plUntil
<1>5. plReads'
    BY PlAssumption, plConstants DEF plTimeout, plHappens, plWorld, plStore, plIInv, plTyped, plReads, PlReaderRec
<1>6. plFound'
    BY PlAssumption, plConstants DEF plTimeout, plHappens, plWorld, plStore, plIInv, plTyped, plReads, plFound,
       PlReaderRec, PlPassRec, plChanged
<1>7. plCached'
    BY PlAssumption, plConstants DEF plTimeout, plHappens, plWorld, plStore, plIInv, plTyped, plReads, plFound,
       plCached, plNewer, plHeld, plUntil, plChanged, PlReaderRec, PlCacheRec
<1> QED BY <1>1, <1>2, <1>3, <1>4, <1>5, <1>6, <1>7 DEF plIInv

LEMMA plCancelStep == ASSUME plIInv, plCancel PROVE plIInv'
<1>1. plTyped' BY PlAssumption, plConstants DEF plCancel, plHappens, plWorld, plStore, plIInv, plTyped
<1>2. plReplied' BY PlAssumption, plConstants DEF plCancel, plHappens, plWorld, plStore, plIInv, plTyped, plReplied
<1>3. plLeased'
    BY PlAssumption, plConstants DEF plCancel, plHappens, plWorld, plStore, plIInv, plTyped, plLeased, plGoodIn,
       plNamed, plGood, plOf, plUntil
<1>4. plFiled'
    BY PlAssumption, plConstants DEF plCancel, plHappens, plWorld, plStore, plIInv, plTyped, plFiled, plFiledIn,
       plNamed, plOf, plUntil
<1>5. plReads'
    BY PlAssumption, plConstants DEF plCancel, plHappens, plWorld, plStore, plIInv, plTyped, plReads, PlReaderRec
<1>6. plFound' BY DEF plCancel, plWorld, plNoPass, plFound
<1>7. plCached'
    <2>1. plHeld' = plHeld /\ plChanged' = plChanged /\ \A v : plUntil(v)' = plUntil(v)
        BY DEF plCancel, plWorld, plHeld, plChanged, plUntil
    <2>2. plLeases["native"] = PlNone => plNewer'
        <3>1. ASSUME plLeases["native"] = PlNone, NEW l \in plHeld PROVE ~l.nat
            BY <3>1, plConstants DEF plHeld, plIInv, plTyped, plLeased, plGoodIn, plNamed, PlLeaseRec
        <3> QED BY <2>1, <3>1 DEF plNewer
    <2> QED BY <2>1, <2>2 DEF plCancel, plWorld, plNoPass, plIInv, plCached
<1> QED BY <1>1, <1>2, <1>3, <1>4, <1>5, <1>6, <1>7 DEF plIInv

LEMMA plEndStep == ASSUME plIInv, plEnd PROVE plIInv'
<1>a. /\ plPass.at = "end" /\ plPass' = plNoPass
      /\ UNCHANGED <<plNow, plSkew, plBack, plBoot, plWan, plRouted, plAuth, plReply, plLog, plStarted, plClosing, plLoaded, plLeases>>
    BY DEF plEnd, plWorld
<1>b. plReader \in PlReaderRec /\ plPass \in PlPassRec /\ plCache \in PlCacheRec /\ plNoPass \in PlPassRec
    BY plConstants DEF plIInv, plTyped
<1> DEFINE held == {plLeases[i].v : i \in {n \in PlNames : leaseValid(plLeases[n], plPass.key)}}
           found == IF plPass.cand # {} \/ plPass.timed THEN plPass.cand ELSE held
<1>c. plCache' = [v |-> found, until |-> IF found = {} THEN plNow + 1 ELSE cachedUntil(found),
                  timed |-> plPass.timed, key |-> plPass.key, lost |-> FALSE]
    BY DEF plEnd
<1>d. ASSUME NEW v \in held
      PROVE  \E i \in PlNames : /\ plLeases[i] # PlNone /\ v = plLeases[i].v /\ plGood(plLeases[i]) /\ v \in 1..Len(plReply)
                              /\ plLeases[i].wan = plPass.key
    BY <1>d DEF leaseValid, plIInv, plLeased, plGoodIn, plGood, plOf
<1>e. ASSUME NEW v \in found, v \notin plPass.cand
      PROVE  \E i \in PlNames : /\ plLeases[i] # PlNone /\ v = plLeases[i].v /\ plGood(plLeases[i]) /\ v \in 1..Len(plReply)
                              /\ plLeases[i].wan = plPass.key
    BY <1>d, <1>e
<1> HIDE DEF held
<1>f. found \subseteq 0..Len(plReply) /\ (0 \in found => plPass.key = 0) /\ found \in SUBSET Nat
    <2>1. plPass.cand \subseteq 0..Len(plReply) /\ (0 \in plPass.cand => plPass.key = 0) BY DEF plIInv, plFound
    <2>2. \A v \in found : v \in plPass.cand \/ v \in 1..Len(plReply) BY <1>e
    <2> HIDE DEF found
    <2> QED BY <2>1, <2>2
\* What is found with a route is of a lease of the WAN.
<1>g. ASSUME NEW v \in found, plPass.key # 0
      PROVE  \E i \in PlNames : /\ plLeases[i] # PlNone /\ v = plLeases[i].v /\ plGood(plLeases[i]) /\ v \in 1..Len(plReply)
                              /\ plLeases[i].wan = plPass.key
    <2>1. CASE v \in plPass.cand
        <3>1. plLeases["log"] # PlNone /\ v = plLeases["log"].v /\ plLeases["log"].wan = plPass.key
            BY <1>g, <2>1 DEF plIInv, plFound
        <3> QED BY <3>1 DEF plIInv, plLeased, plGoodIn, plGood, plOf, PlNames
    <2> QED BY <1>e, <2>1
<1>h. cachedUntil(found) \in Int /\ \A i \in PlNames : plLeases[i] # PlNone => cachedUntil(found) <= plLeases[i].exp
    BY plCachedUntil
<1> HIDE DEF found
<1>i. /\ plCache' \in PlCacheRec /\ plCache'.v = found /\ plCache'.timed = plPass.timed /\ plCache'.key = plPass.key /\ ~plCache'.lost
      /\ (found # {} => plCache'.until = cachedUntil(found))
    <2>1. plNow + 1 \in Int BY DEF plIInv, plTyped
    <2> QED BY <1>b, <1>c, <1>f, <1>h, <2>1 DEF PlCacheRec, PlPassRec
<1>j. plReader.seen \in Nat /\ plReader.applied \in Nat /\ plReader.inspected \in Nat /\ plPass.rev \in Nat /\ plReader.on \in BOOLEAN
    BY <1>b DEF PlReaderRec, PlPassRec
<1>k. /\ applied(plReader) \in Nat /\ applied(plReader) <= plReader.seen
      /\ ~plPass.timed /\ plReader.on => applied(plReader) = plReader.inspected
    <2>1. /\ plReader.applied <= plReader.seen /\ plReader.inspected <= plReader.seen /\ (plPass.reader => plPass.rev <= plReader.seen)
          /\ ~plPass.timed /\ plReader.on =>
               plReader.applied <= plReader.inspected /\ (plPass.reader => plPass.rev <= plReader.inspected)
        BY <1>a DEF plIInv, plReads, plFound
    <2> QED BY <1>j, <2>1 DEF applied
<1>l. /\ plReader' \in PlReaderRec /\ plReader'.on = plReader.on /\ plReader'.wan = plReader.wan /\ plReader'.seen = plReader.seen
      /\ plReader'.last = plReader.last /\ plReader'.inspected = plReader.inspected
      /\ (plReader.on => plReader'.applied = applied(plReader)) /\ (~plReader.on => plReader' = plReader)
    <2>1. CASE plReader.on
        <3>1. plReader' = [plReader EXCEPT !.applied = applied(plReader)] BY <2>1 DEF plEnd
        <3> QED BY <1>b, <1>k, <2>1, <3>1 DEF PlReaderRec
    <2>2. CASE ~plReader.on
        <3>1. plReader' = plReader BY <2>2 DEF plEnd
        <3> QED BY <1>b, <2>2, <3>1
    <2> QED BY <2>1, <2>2
<1>m. plFile' = plFile \/ plFile' = plEncoded BY DEF plEnd, saveShadowLeases
<1>1. plTyped'
    <2>1. plFile' \in PlFileRec \cup {[ok |-> FALSE]} BY <1>m, plEncodedOk DEF plIInv, plTyped
    <2> QED BY <1>a, <1>b, <1>i, <1>l, <2>1 DEF plIInv, plTyped
<1>2. plReplied' BY <1>a DEF plIInv, plReplied
<1>3. plLeased' BY <1>a DEF plIInv, plLeased, plGoodIn, plNamed, plGood, plOf, plUntil
<1>4. plFiled'
    <2>1. plFile'.ok => plFiledIn(plFile'.leases, plFile'.boot) BY <1>m, plEncodedOk DEF plIInv, plFiled
    <2> QED BY <1>a, <2>1 DEF plFiled, plFiledIn, plNamed, plOf, plUntil
<1>5. plReads'
    <2>1. plReader.on => plReader'.applied <= plReader'.seen BY <1>k, <1>l
    <2>2. plReader'.on <=> plReader.on BY <1>l
    <2>3. ~plReader.on => plReads' BY <1>a, <1>l DEF plIInv, plReads
    <2>4. plReader.on => plReads' BY <1>a, <1>l, <2>1, <2>2 DEF plIInv, plReads
    <2> QED BY <2>3, <2>4
<1>6. plFound'
    <2>1. Len(plReply) \in Nat BY DEF plIInv, plTyped
    <2>2. plPass'.at = "idle" /\ plPass'.cand = {} /\ ~plPass'.timed BY <1>a DEF plNoPass
    <2> QED BY <1>a, <2>1, <2>2 DEF plFound
<1>7. plCached'
    <2>1. plPass'.at = "idle" /\ plHeld' = plHeld /\ \A v : plUntil(v)' = plUntil(v)
        BY <1>a DEF plNoPass, plHeld, plUntil
    <2>2. plCache'.v \subseteq 0..Len(plReply') /\ (0 \in plCache'.v => plCache'.key = 0) BY <1>a, <1>f, <1>i
    <2>3. ASSUME plCache'.key # 0, plBack' = 0, NEW v \in plCache'.v PROVE plCache'.until <= plUntil(v)'
        <3>1. v \in found /\ plPass.key # 0 /\ plBack = 0 /\ plCache'.until = cachedUntil(found) BY <1>a, <1>i, <2>3
        <3>2. PICK i \in PlNames : plLeases[i] # PlNone /\ v = plLeases[i].v /\ plGood(plLeases[i]) /\ v \in 1..Len(plReply)
            BY <1>g, <3>1
        <3>3. plLeases[i].exp <= plUntil(v) BY <3>1, <3>2 DEF plGood, plOf
        <3>4. plUntil(v) \in Nat /\ plLeases[i].exp \in Int BY <3>2, plReplyType, plLeaseType DEF plIInv, plTyped
        <3> QED BY <1>h, <2>1, <3>1, <3>2, <3>3, <3>4
    <2>4. ASSUME plReader'.on, ~plChanged', ~plCache'.timed, plReader'.last # 0, plBack' = 0, NEW v \in plCache'.v \ {0},
                 plReply'[v].wan = plReader'.wan
          PROVE  v >= plReader'.last
        <3>1. /\ plReader.on /\ ~plPass.timed /\ plReader.last # 0 /\ plBack = 0 /\ v \in found /\ v # 0
              /\ plReply[v].wan = plReader.wan
            BY <1>a, <1>i, <1>l, <2>4
        <3>2. plReader.inspected = plReader.seen BY <1>k, <1>l, <2>4, <3>1 DEF plChanged
        <3>3. /\ \A u \in plPass.cand \ {0} : plReply[u].wan = plReader.wan => u >= plReader.last
              /\ \A i \in PlNames : plLeases[i] # PlNone /\ plLeases[i].wan = plReader.wan => plLeases[i].v >= plReader.last
            BY <1>a, <3>1, <3>2 DEF plIInv, plFound
        <3>4. CASE v \in plPass.cand BY <1>l, <3>1, <3>3, <3>4
        <3>5. CASE v \notin plPass.cand
            <4>1. PICK i \in PlNames : plLeases[i] # PlNone /\ v = plLeases[i].v /\ plGood(plLeases[i])
                BY <1>e, <3>1, <3>5
            <4>2. plLeases[i].wan = plReply[v].wan BY <4>1 DEF plGood, plOf
            <4> QED BY <1>l, <3>1, <3>3, <4>1, <4>2
        <3> QED BY <3>4, <3>5
    <2>5. ASSUME plBack' = 0, plCache'.key # 0 PROVE plNewer'
        <3> SUFFICES ASSUME NEW v \in found, NEW l \in plHeld, l.nat, l.wan = plReply[v].wan PROVE v >= l.v
            BY <1>a, <1>i, <2>1 DEF plNewer
        <3>1. plPass.key # 0 /\ plBack = 0 BY <1>a, <1>i, <2>5
        <3>2. PICK i \in PlNames : plLeases[i] # PlNone /\ v = plLeases[i].v /\ plGood(plLeases[i]) BY <1>g, <3>1
        <3>3. PICK j \in PlNames : plLeases[j] # PlNone /\ l = plLeases[j] BY DEF plHeld
        <3>4. j = "native" BY <3>3 DEF plIInv, plLeased, plGoodIn, plNamed, PlNames
        <3>5. plLeases[i].wan = plLeases[j].wan BY <3>2, <3>3 DEF plGood, plOf
        <3>6. plLeases[i].v \in Nat /\ plLeases[j].v \in Nat BY <3>2, <3>3, plLeaseType DEF plIInv, plTyped
        <3> QED BY <3>1, <3>2, <3>3, <3>4, <3>5, <3>6 DEF plIInv, plLeased, plGoodIn, plNamed, PlNames
    <2> QED BY <2>1, <2>2, <2>3, <2>4, <2>5 DEF plCached
<1> QED BY <1>1, <1>2, <1>3, <1>4, <1>5, <1>6, <1>7 DEF plIInv

LEMMA plCloseStep == ASSUME plIInv, plClose PROVE plIInv'
<1>1. plTyped' BY PlAssumption, plConstants DEF plClose, plHappens, plWorld, plStore, plIInv, plTyped
<1>2. plReplied' BY PlAssumption, plConstants DEF plClose, plHappens, plWorld, plStore, plIInv, plTyped, plReplied
<1>3. plLeased'
    BY PlAssumption, plConstants DEF plClose, plHappens, plWorld, plStore, plIInv, plTyped, plLeased, plGoodIn,
       plNamed, plGood, plOf, plUntil
<1>4. plFiled'
    BY PlAssumption, plConstants DEF plClose, plHappens, plWorld, plStore, plIInv, plTyped, plFiled, plFiledIn,
       plNamed, plOf, plUntil
<1>5. plReads'
    BY PlAssumption, plConstants DEF plClose, plHappens, plWorld, plStore, plIInv, plTyped, plReads, PlReaderRec
<1>6. plFound'
    BY PlAssumption, plConstants DEF plClose, plHappens, plWorld, plStore, plIInv, plTyped, plReads, plFound,
       PlReaderRec, PlPassRec, plChanged
<1>7. plCached'
    BY PlAssumption, plConstants DEF plClose, plHappens, plWorld, plStore, plIInv, plTyped, plReads, plFound,
       plCached, plNewer, plHeld, plUntil, plChanged, PlReaderRec, PlCacheRec
<1> QED BY <1>1, <1>2, <1>3, <1>4, <1>5, <1>6, <1>7 DEF plIInv

LEMMA closeShadowNativeStep == ASSUME plIInv, closeShadowNative PROVE plIInv'
<1>1. plTyped' BY PlAssumption, plConstants DEF closeShadowNative, plWorld, plStore, plIInv, plTyped
<1>2. plReplied' BY PlAssumption, plConstants DEF closeShadowNative, plWorld, plStore, plIInv, plTyped, plReplied
<1>3. plLeased'
    BY PlAssumption, plConstants DEF closeShadowNative, plWorld, plStore, plIInv, plTyped, plLeased, plGoodIn,
       plNamed, plGood, plOf, plUntil
<1>4. plFiled'
    BY PlAssumption, plConstants DEF closeShadowNative, plWorld, plStore, plIInv, plTyped, plFiled, plFiledIn,
       plNamed, plOf, plUntil
<1>5. plReads' BY DEF closeShadowNative, plWorld, plIInv, plReads, plNoReader
<1>6. plFound'
    BY PlAssumption, plConstants DEF closeShadowNative, plWorld, plStore, plIInv, plTyped, plReads, plFound,
       PlReaderRec, PlPassRec, plChanged
<1>7. plCached' BY DEF closeShadowNative, plWorld, plIInv, plReads, plCached, plNoReader, plUntil
<1> QED BY <1>1, <1>2, <1>3, <1>4, <1>5, <1>6, <1>7 DEF plIInv

LEMMA plInductive == plIInv /\ [plNext]_plVars => plIInv'
<1> SUFFICES ASSUME plIInv, [plNext]_plVars PROVE plIInv' OBVIOUS
<1>1. CASE plTick BY <1>1, plTickStep
<1>2. CASE plClockStep BY <1>2, plClockStepStep
<1>3. CASE plAnswer BY <1>3, plAnswerStep
<1>4. CASE plWanChanges BY <1>4, plWanChangesStep
<1>5. CASE plRestart BY <1>5, plRestartStep
<1>6. CASE plBegin BY <1>6, plBeginStep
<1>7. CASE plObserve BY <1>7, plObserveStep
<1>8. CASE plTimeout BY <1>8, plTimeoutStep
<1>9. CASE plCancel BY <1>9, plCancelStep
<1>10. CASE plEnd BY <1>10, plEndStep
<1>11. CASE plClose BY <1>11, plCloseStep
<1>12. CASE closeShadowNative BY <1>12, closeShadowNativeStep
<1>13. CASE UNCHANGED plVars
    <2>1. plTyped' BY <1>13 DEF plVars, plIInv, plTyped
    <2>2. plReplied' BY <1>13 DEF plVars, plIInv, plReplied
    <2>3. plLeased' BY <1>13 DEF plVars, plIInv, plLeased, plGoodIn, plNamed, plGood, plOf, plUntil
    <2>4. plFiled' BY <1>13 DEF plVars, plIInv, plFiled, plFiledIn, plNamed, plOf, plUntil
    <2>5. plReads' BY <1>13 DEF plVars, plIInv, plReads
    <2>6. plFound' BY <1>13 DEF plVars, plIInv, plFound
    <2>7. plCached' BY <1>13, plCachedFrame DEF plVars, plIInv, plTyped
    <2> QED BY <2>1, <2>2, <2>3, <2>4, <2>5, <2>6, <2>7 DEF plIInv
<1> QED BY <1>1, <1>2, <1>3, <1>4, <1>5, <1>6, <1>7, <1>8, <1>9, <1>10, <1>11, <1>12, <1>13 DEF plNext

LEMMA plImplies == plIInv => LeasesSafe
<1> SUFFICES ASSUME plIInv PROVE LeasesSafe OBVIOUS
<1>1. ASSUME NEW l \in plHeld PROVE plGood(l)
    BY <1>1 DEF plHeld, plIInv, plLeased, plGoodIn
<1>2. plTypeOK
    <2>1. plReader.applied <= plReader.seen BY DEF plIInv, plReads
    <2>2. plReader.last <= Len(plReply)
        <3>1. plReader.last \in Nat /\ Len(plReply) \in Nat BY DEF plIInv, plTyped, PlReaderRec
        <3> QED BY <3>1 DEF plIInv, plReads
    <2>3. plPass.at \in {"idle", "observe", "end"} BY DEF plIInv, plTyped, PlPassRec
    <2>4. \A l \in plHeld : l.v \in 1..Len(plReply) /\ plReply[l.v].kind = "ack" /\ l.wan = plReply[l.v].wan
        BY <1>1 DEF plGood, plOf
    <2> QED BY <2>1, <2>2, <2>3, <2>4 DEF plIInv, plTyped, plTypeOK
<1>3. WithinGrant BY <1>1 DEF WithinGrant, plGood
<1>4. CacheWithinLease BY DEF plIInv, plCached, CacheWithinLease
<1>5. ReplyNotMasked BY DEF plIInv, plCached, ReplyNotMasked
<1>6. NewestWins BY DEF plIInv, plCached, plNewer, NewestWins
<1>7. ReaderOwned BY DEF plIInv, plReads, ReaderOwned
<1> QED BY <1>2, <1>3, <1>4, <1>5, <1>6, <1>7 DEF LeasesSafe

\* What is served or remembered of the provider's DNS servers is current and within its lease, through log, packets, file,
\* restarts, set clocks and changes of the WAN.
THEOREM LeasesAreSafe == plSpec => []LeasesSafe
<1>1. plInit => plIInv BY plInitially
<1>2. plIInv /\ [plNext]_plVars => plIInv' BY plInductive
<1>3. plIInv => LeasesSafe BY plImplies
<1> QED BY <1>1, <1>2, <1>3, PTL DEF plSpec

(***************************************************************************)
(* The services side by side                                               *)
(***************************************************************************)
\* A step of the services is a step of each of them, or leaves it where it is.
LEMMA ServicesSideBySide ==
    /\ Init => wpInit /\ tpInit /\ hlInit /\ skInit /\ plInit /\ dtInit /\ piInit /\ pnInit
    /\ [Next]_<<scope, wpVars, tpVars, hcVars, hlVars, skVars, plVars, dtVars, piVars, pnVars>>
        => [wpNext]_wpVars /\ [tpNext]_tpVars /\ [hlNext]_hlVars /\ [skNext]_skVars
           /\ [plNext]_plVars /\ [dtNext]_dtVars /\ [piNext]_piVars /\ [pnNext]_pnVars
<1>1. Init => wpInit /\ tpInit /\ hlInit /\ skInit /\ plInit /\ dtInit /\ piInit /\ pnInit BY DEF Init
<1>2. ASSUME Next
      PROVE  [wpNext]_wpVars /\ [tpNext]_tpVars /\ [hlNext]_hlVars /\ [skNext]_skVars
             /\ [plNext]_plVars /\ [dtNext]_dtVars /\ [piNext]_piVars /\ [pnNext]_pnVars
    BY <1>2 DEF Next
<1> QED BY <1>1, <1>2

\* What is known of the provider's DNS servers stays current, within its lease, and is asked for with restraint, whatever
\* else runs beside it.
THEOREM ProviderIsSafe == Spec => ProviderSafe
<1>1. Spec => plSpec /\ dtSpec /\ piSpec /\ pnSpec BY ServicesSideBySide, PTL DEF Spec, plSpec, dtSpec, piSpec, pnSpec
<1> QED BY <1>1, LeasesAreSafe, TrackerIsSafe, InformIsSafe, RenewIsSafe, PTL DEF ProviderSafe

\* The proxy, its pool, the lanes, the SOCKS front and the discovery are safe side by side.
THEOREM ServicesAreSafe == Spec => [](PoolSafe /\ ProxySafe /\ LanesSafe /\ SocksSafe) /\ ProviderSafe
<1>1. Spec => wpSpec /\ tpSpec /\ hlSpec /\ skSpec BY ServicesSideBySide, PTL DEF Spec, wpSpec, tpSpec, hlSpec, skSpec
<1> QED BY <1>1, PoolIsSafe, ProxyIsSafe, LanesAreSafe, SocksIsSafe, ProviderIsSafe, PTL
=============================================================================
