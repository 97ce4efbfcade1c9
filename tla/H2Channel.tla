----------------------------- MODULE H2Channel -----------------------------
(***************************************************************************)
(* Media channels of the Telegram proxy over one HTTP/2 lane.  Uploads are *)
(* bounded per channel and per lane; a sender waits for room, a ticker     *)
(* cancels old requests it can replay later and replays silent packets,    *)
(* and replies are accounted for from the first byte until the client has  *)
(* them.  Every count below is one unit of a request or reply.             *)
(***************************************************************************)
EXTENDS Naturals, Sequences, FiniteSets

CONSTANTS
    HcChannels,  \* channels of the lane
    HcPackets,   \* packets a client sends on a channel
    HcRoom,      \* requests of a channel, as of its replies
    HcLaneRoom,  \* requests of the lane, as of its replies
    HcHistory,   \* packets kept for a replay
    HcAttempts   \* replays of a packet

VARIABLES
    hcState,    \* "open", "failed", "closing" or "closed", per channel
    hcPend,     \* requests in flight
    hcHist,     \* packets that may be replayed
    hcReplies,  \* replies not yet received
    hcDeliver,  \* replies on their way to the client
    hcSender,   \* "idle", "try" or "asleep" on the signal of the lane
    hcReader,   \* the same, and "deliver"
    hcSent,     \* packets sent
    hcInflight, hcReplyBytes, \* the counters of the lane
    hcOther,    \* requests of channels of the lane that are not modelled in detail
    hcChanBytes \* and the reply counter of each channel

hcVars == <<hcState, hcPend, hcHist, hcReplies, hcDeliver, hcSender, hcReader, hcSent,
            hcInflight, hcReplyBytes, hcOther, hcChanBytes>>

hcAll(v) == [c \in HcChannels |-> v]
hcInit ==
    /\ hcState = hcAll("open") /\ hcPend = hcAll({}) /\ hcHist = hcAll(<<>>)
    /\ hcReplies = hcAll(0) /\ hcDeliver = hcAll(0)
    /\ hcSender = hcAll("idle") /\ hcReader = hcAll("idle") /\ hcSent = hcAll(0)
    /\ hcInflight = 0 /\ hcReplyBytes = 0 /\ hcOther = 0 /\ hcChanBytes = hcAll(0)

noSignal == UNCHANGED <<hcSender, hcReader>>

\* signalLocked: everybody who waits on the lane looks again.
signalLocked ==
    /\ hcSender' = [c \in HcChannels |-> IF hcSender[c] = "asleep" THEN "try" ELSE hcSender[c]]
    /\ hcReader' = [c \in HcChannels |-> IF hcReader[c] = "asleep" THEN "try" ELSE hcReader[c]]

hasCapacity(c) == Cardinality(hcPend[c]) < HcRoom /\ hcInflight < HcLaneRoom

\* releaseReplyLocked
releaseReply(c, n) ==
    /\ hcChanBytes' = [hcChanBytes EXCEPT ![c] = @ - n]
    /\ hcReplyBytes' = hcReplyBytes - n

-----------------------------------------------------------------------------
Entry(p) == [p |-> p, attempts |-> 0, retired |-> FALSE, expired |-> FALSE]
Request(p, n) == [p |-> p, replay |-> n, age |-> "new", receiving |-> FALSE, rotated |-> FALSE, buffered |-> 0]
Originals(c, p) == {r \in hcPend[c] : r.p = p /\ r.replay = 0}
Replays(c, p) == {r \in hcPend[c] : r.p = p /\ r.replay > 0}

\* rememberLocked: a full history drops the first packet that is neither in
\* flight nor waiting for its replay, or else the oldest.
Droppable(c, e) == Originals(c, e.p) = {} /\ ~(e.retired /\ e.attempts < HcAttempts /\ ~e.expired)
Victim(c, hist) ==
    LET free == {i \in 1..Len(hist) : Droppable(c, hist[i]) /\ i < Len(hist)}
    IN  IF free = {} THEN 1 ELSE CHOOSE i \in free : \A j \in free : i <= j
rememberLocked(c, p) ==
    LET hist == Append(hcHist[c], Entry(p))
        v == Victim(c, hist)
    IN  IF Len(hist) <= HcHistory THEN hist
        ELSE SubSeq(hist, 1, v - 1) \o SubSeq(hist, v + 1, Len(hist))

\* send: one at a time per channel.
hcSend(c) ==
    /\ hcSender[c] = "idle" /\ hcState[c] = "open" /\ hcSent[c] < HcPackets
    /\ hcSender' = [hcSender EXCEPT ![c] = "try"]
    /\ UNCHANGED <<hcOther, hcState, hcPend, hcHist, hcReplies, hcDeliver, hcReader, hcSent, hcInflight,
                   hcReplyBytes, hcChanBytes>>
hcSendTry(c) ==
    /\ hcSender[c] = "try"
    /\ IF hcState[c] # "open"
       THEN hcSender' = [hcSender EXCEPT ![c] = "idle"] /\ UNCHANGED <<hcPend, hcHist, hcSent, hcInflight>>
       ELSE IF hasCapacity(c)
       THEN LET p == hcSent[c] + 1
            IN  /\ hcHist' = [hcHist EXCEPT ![c] = rememberLocked(c, p)]
                /\ hcPend' = [hcPend EXCEPT ![c] = @ \cup {Request(p, 0)}]
                /\ hcSent' = [hcSent EXCEPT ![c] = p] /\ hcInflight' = hcInflight + 1
                /\ hcSender' = [hcSender EXCEPT ![c] = "idle"]
       ELSE hcSender' = [hcSender EXCEPT ![c] = "asleep"] /\ UNCHANGED <<hcPend, hcHist, hcSent, hcInflight>>
    /\ UNCHANGED <<hcOther, hcState, hcReplies, hcDeliver, hcReader, hcReplyBytes, hcChanBytes>>

-----------------------------------------------------------------------------
hcReplace(c, r, x) == hcPend' = [hcPend EXCEPT ![c] = (@ \ {r}) \cup {x}]

\* The request is written; it gets old without an answer.
RequestAges(c, r) ==
    /\ r.age # "old" /\ ~r.receiving
    /\ hcReplace(c, r, [r EXCEPT !.age = IF @ = "new" THEN "sent" ELSE "old"])
    /\ UNCHANGED <<hcOther, hcState, hcHist, hcReplies, hcDeliver, hcSender, hcReader, hcSent, hcInflight,
                   hcReplyBytes, hcChanBytes>>
PacketExpires(c, i) ==
    /\ i \in 1..Len(hcHist[c]) /\ ~hcHist[c][i].expired
    /\ hcHist' = [hcHist EXCEPT ![c][i].expired = TRUE]
    /\ UNCHANGED <<hcOther, hcState, hcPend, hcReplies, hcDeliver, hcSender, hcReader, hcSent, hcInflight,
                   hcReplyBytes, hcChanBytes>>

\* post: the answer is buffered while it arrives.
GotFirstResponseByte(c, r) ==
    /\ r.age # "new" /\ ~r.receiving
    /\ hcReplyBytes < HcLaneRoom /\ hcChanBytes[c] < HcRoom
    /\ hcReplace(c, r, [r EXCEPT !.receiving = TRUE, !.buffered = 1])
    /\ hcReplyBytes' = hcReplyBytes + 1 /\ hcChanBytes' = [hcChanBytes EXCEPT ![c] = @ + 1]
    /\ UNCHANGED <<hcOther, hcState, hcHist, hcReplies, hcDeliver, hcSender, hcReader, hcSent, hcInflight>>

\* run with an answer, or with an empty one; a new answer gives the packet its
\* replays again.  A channel that has failed meanwhile drops the answer.
runAnswered(c, r) ==
    /\ r.age # "new"
    /\ hcPend' = [hcPend EXCEPT ![c] = @ \ {r}] /\ hcInflight' = hcInflight - 1
    /\ IF hcState[c] = "open"
       THEN /\ hcReplies' = [hcReplies EXCEPT ![c] = @ + r.buffered]
            /\ hcHist' = [hcHist EXCEPT ![c] = [i \in DOMAIN @ |->
                            IF @[i].p = r.p /\ r.buffered = 1 THEN [@[i] EXCEPT !.attempts = 0] ELSE @[i]]]
            /\ UNCHANGED <<hcReplyBytes, hcChanBytes>>
       ELSE releaseReply(c, r.buffered) /\ UNCHANGED <<hcReplies, hcHist>>
    /\ signalLocked
    /\ UNCHANGED <<hcOther, hcState, hcDeliver, hcSent>>

\* failLocked: the replies nobody has received are released.
failReleases(c) == hcReplies[c]

\* run with an error: the buffer of post is released, and unless the ticker
\* cancelled the request the channel fails.
runFailed(c, r) ==
    /\ hcPend' = [hcPend EXCEPT ![c] = @ \ {r}] /\ hcInflight' = hcInflight - 1
    /\ IF r.rotated \/ hcState[c] # "open"
       THEN releaseReply(c, r.buffered) /\ UNCHANGED <<hcState, hcReplies>>
       ELSE /\ hcState' = [hcState EXCEPT ![c] = "failed"]
            /\ hcReplies' = [hcReplies EXCEPT ![c] = 0]
            /\ releaseReply(c, r.buffered + failReleases(c))
    /\ signalLocked
    /\ UNCHANGED <<hcOther, hcHist, hcDeliver, hcSent>>

-----------------------------------------------------------------------------
\* rotateLocked: the request is cancelled; an original that is retired is
\* replayed later.
rotateLocked(c, r) ==
    /\ hcReplace(c, r, [r EXCEPT !.rotated = TRUE])
    /\ hcHist' = [hcHist EXCEPT ![c] = [i \in DOMAIN @ |->
                    IF @[i].p = r.p /\ r.replay = 0 THEN [@[i] EXCEPT !.retired = TRUE] ELSE @[i]]]

Forgotten(c, r) == TRUE

\* capacityCandidateLocked: only a replay, or an original still in the history.
Replayable(c, r) == \E i \in 1..Len(hcHist[c]) : hcHist[c][i].p = r.p /\ ~hcHist[c][i].expired
Candidates(c) ==
    {r \in hcPend[c] : ~r.rotated /\ ~r.receiving /\ r.age = "old" /\ (r.replay > 0 \/ Replayable(c, r))}
Preferred(c) ==
    IF \E r \in Candidates(c) : r.replay > 0 THEN {r \in Candidates(c) : r.replay > 0} ELSE Candidates(c)

hcWaiting(c) == hcSender[c] # "idle"
makeUploadRoom(c) ==
    /\ hcState[c] = "open" /\ hcWaiting(c)
    /\ IF Cardinality(hcPend[c]) >= HcRoom
       THEN \E r \in Preferred(c) : rotateLocked(c, r)
       ELSE /\ hcInflight >= HcLaneRoom
            /\ \E d \in HcChannels : \E r \in Preferred(d) : rotateLocked(d, r)
    /\ UNCHANGED <<hcOther, hcState, hcReplies, hcDeliver, hcSender, hcReader, hcSent, hcInflight,
                   hcReplyBytes, hcChanBytes>>

\* replayDueLocked and replayCandidateLocked.
overdue(c, e) == e.retired \/ \E r \in Originals(c, e.p) : r.age = "old" /\ ~r.receiving
replayDue(c, i) ==
    LET e == hcHist[c][i]
        latest == i = Len(hcHist[c])
    IN  /\ ~e.expired /\ e.attempts < HcAttempts
        /\ Originals(c, e.p) # {} \/ e.retired \/ latest
        /\ hcChanBytes[c] = 0 /\ hcDeliver[c] = 0
        /\ \A r \in Originals(c, e.p) \cup Replays(c, e.p) : ~r.receiving
        /\ overdue(c, e) \/ (latest /\ hcPend[c] \subseteq Replays(c, e.p))

\* recoverLocked: one replay, or an old one cancelled for it.
Slots == 1

slotFree(c) == Cardinality({r \in hcPend[c] : r.replay > 0}) < Slots
recoverLocked(c) ==
    /\ hcState[c] = "open" /\ ~hcWaiting(c) /\ hcChanBytes[c] = 0 /\ hcDeliver[c] = 0
    /\ \E i \in 1..Len(hcHist[c]) :
         LET e == hcHist[c][i]
             old == {r \in Replays(c, e.p) : ~r.rotated /\ r.age = "old"}
             replays == {r \in hcPend[c] : r.replay > 0}
         IN  /\ replayDue(c, i)
             /\ \/ \E r \in old : rotateLocked(c, r) /\ UNCHANGED hcInflight
                \/ /\ Replays(c, e.p) = {} /\ ~slotFree(c)
                   /\ \E r \in replays : ~r.rotated /\ ~r.receiving /\ r.age = "old" /\ rotateLocked(c, r)
                   /\ UNCHANGED hcInflight
                \/ /\ Replays(c, e.p) = {} /\ slotFree(c) /\ hasCapacity(c)
                   /\ hcPend' = [hcPend EXCEPT ![c] = @ \cup {Request(e.p, e.attempts + 1)}]
                   /\ hcHist' = [hcHist EXCEPT ![c][i].attempts = @ + 1]
                   /\ hcInflight' = hcInflight + 1
    /\ UNCHANGED <<hcOther, hcState, hcReplies, hcDeliver, hcSender, hcReader, hcSent, hcReplyBytes, hcChanBytes>>

-----------------------------------------------------------------------------
\* receive and delivered.
hcReceive(c) ==
    /\ hcReader[c] \in {"idle", "try"}
    /\ IF hcState[c] # "open"
       THEN hcReader[c] = "try" /\ hcReader' = [hcReader EXCEPT ![c] = "idle"] /\ UNCHANGED <<hcReplies, hcDeliver>>
       ELSE IF hcReplies[c] > 0
       THEN /\ hcReplies' = [hcReplies EXCEPT ![c] = @ - 1] /\ hcDeliver' = [hcDeliver EXCEPT ![c] = 1]
            /\ hcReader' = [hcReader EXCEPT ![c] = "deliver"]
       ELSE hcReader' = [hcReader EXCEPT ![c] = "asleep"] /\ UNCHANGED <<hcReplies, hcDeliver>>
    /\ UNCHANGED <<hcOther, hcState, hcPend, hcHist, hcSender, hcSent, hcInflight, hcReplyBytes, hcChanBytes>>
delivered(c) ==
    /\ hcReader[c] = "deliver"
    /\ releaseReply(c, hcDeliver[c]) /\ hcDeliver' = [hcDeliver EXCEPT ![c] = 0]
    /\ hcSender' = [d \in HcChannels |-> IF hcSender[d] = "asleep" THEN "try" ELSE hcSender[d]]
    /\ hcReader' = [d \in HcChannels |-> IF d = c THEN "idle"
                                         ELSE IF hcReader[d] = "asleep" THEN "try" ELSE hcReader[d]]
    /\ UNCHANGED <<hcOther, hcState, hcPend, hcHist, hcReplies, hcSent, hcInflight>>

\* close: fail the channel, wait for its requests, release what was being
\* delivered (delivered may come later and then releases nothing).
hcClose(c) ==
    /\ hcState[c] \in {"open", "failed"}
    /\ hcState' = [hcState EXCEPT ![c] = "closing"]
    /\ hcReplies' = [hcReplies EXCEPT ![c] = 0] /\ releaseReply(c, failReleases(c))
    /\ signalLocked
    /\ UNCHANGED <<hcOther, hcPend, hcHist, hcDeliver, hcSent, hcInflight>>
hcClosed(c) ==
    /\ hcState[c] = "closing" /\ hcPend[c] = {}
    /\ hcState' = [hcState EXCEPT ![c] = "closed"]
    /\ releaseReply(c, hcDeliver[c]) /\ hcDeliver' = [hcDeliver EXCEPT ![c] = 0]
    /\ hcHist' = [hcHist EXCEPT ![c] = <<>>]
    /\ UNCHANGED <<hcOther, hcPend, hcReplies, hcSender, hcReader, hcSent, hcInflight>>

\* The other channels of the lane; a request of theirs that makeUploadRoom
\* cancels ends like any other.
OtherRequests ==
    \/ /\ hcInflight < HcLaneRoom /\ hcOther' = hcOther + 1 /\ hcInflight' = hcInflight + 1 /\ noSignal
       /\ UNCHANGED <<hcState, hcPend, hcHist, hcReplies, hcDeliver, hcSent, hcReplyBytes, hcChanBytes>>
    \/ /\ hcOther > 0 /\ hcOther' = hcOther - 1 /\ hcInflight' = hcInflight - 1 /\ signalLocked
       /\ UNCHANGED <<hcState, hcPend, hcHist, hcReplies, hcDeliver, hcSent, hcReplyBytes, hcChanBytes>>

hcNext == OtherRequests \/ \E c \in HcChannels :
    \/ hcSend(c) \/ hcSendTry(c) \/ makeUploadRoom(c) \/ recoverLocked(c)
    \/ hcReceive(c) \/ delivered(c) \/ hcClose(c) \/ hcClosed(c)
    \/ \E i \in 1..HcHistory : PacketExpires(c, i)
    \/ \E r \in hcPend[c] : \/ RequestAges(c, r) \/ GotFirstResponseByte(c, r)
                            \/ runAnswered(c, r) \/ runFailed(c, r)

-----------------------------------------------------------------------------
hcSum(f) == LET S[T \in SUBSET HcChannels] ==
                    IF T = {} THEN 0 ELSE LET c == CHOOSE x \in T : TRUE IN f[c] + S[T \ {c}]
            IN  S[HcChannels]
Buffered(c) == Cardinality({r \in hcPend[c] : r.buffered = 1})

\* The counters of the lane and of its channels are what the requests, the
\* queued replies and the deliveries hold: a failure, a cancelled request, a
\* late answer or a close gives every unit back exactly once.
BytesBalanced ==
    /\ hcInflight = hcOther + hcSum([c \in HcChannels |-> Cardinality(hcPend[c])])
    /\ \A c \in HcChannels : hcChanBytes[c] = Buffered(c) + hcReplies[c] + hcDeliver[c]
    /\ hcReplyBytes = hcSum(hcChanBytes)

\* Nobody sleeps on the lane when it could go on.
NoLostWakeup ==
    \A c \in HcChannels :
        /\ hcSender[c] = "asleep" => hcState[c] = "open" /\ ~hasCapacity(c)
        /\ hcReader[c] = "asleep" => hcState[c] = "open" /\ hcReplies[c] = 0

\* An upload that is cancelled to make room can be replayed: when it is
\* cancelled it is in the history and not too old.
RetiredIsReplayable ==
    [][ \A c \in HcChannels : \A r \in hcPend[c], x \in hcPend'[c] :
            x.p = r.p /\ x.replay = 0 /\ r.replay = 0 /\ x.rotated /\ ~r.rotated =>
                \E e \in {hcHist[c][i] : i \in 1..Len(hcHist[c])} : e.p = r.p /\ ~e.expired ]_hcVars

\* No packet is in flight twice as an original and a second replay: at most
\* one replay of a packet, and the replays of a channel stay within its slots.
ReplaysBounded ==
    \A c \in HcChannels :
        /\ \A p \in 1..HcPackets : Cardinality(Replays(c, p)) <= 1
        /\ Cardinality({r \in hcPend[c] : r.replay > 0}) <= Slots

\* The accounts of a lane balance, nobody sleeps for ever, and rotation loses no upload.
ChannelSafe == [](BytesBalanced /\ NoLostWakeup /\ ReplaysBounded) /\ RetiredIsReplayable
=============================================================================
