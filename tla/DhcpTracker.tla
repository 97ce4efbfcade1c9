----------------------------- MODULE DhcpTracker -----------------------------
(***************************************************************************)
(* The passive reader of the firmware's DHCP exchange.  REQUESTs that      *)
(* leave the router open a transaction; a reply counts only if it belongs  *)
(* to one.  Replies are delayed, lost, doubled and overtake each other,    *)
(* the client sends a REQUEST again, and it may use a transaction id again *)
(* for a later renewal.                                                    *)
(***************************************************************************)
EXTENDS Naturals, Sequences, FiniteSets

CONSTANTS
    DtTime,   \* bound on the clock
    DtXids,   \* transaction ids of the client
    DtTxns,   \* bound on its transactions
    DtCopies, \* bound on REQUESTs sent
    DtTTL,    \* shadowNativePendingTTL
    DtLimit,  \* shadowNativePendingLimit
    DtLease   \* length of a lease

ASSUME DtAssumption == DtTime \in Nat /\ DtTxns \in Nat /\ DtCopies \in Nat /\ DtTTL \in Nat /\ DtLimit \in Nat /\ DtLease \in Nat

VARIABLES
    dtNow,
    dtTxn,    \* transactions of the client: id, and whether the REQUEST names a server
    dtCopy,   \* REQUESTs sent
    dtNet,    \* replies under way or delivered
    dtPend,   \* t.pending
    dtSeq,    \* t.sequence
    dtObs     \* the last reply taken for the lease

dtVars == <<dtNow, dtTxn, dtCopy, dtNet, dtPend, dtSeq, dtObs>>

dtNoPend == [seq |-> 0]
dtNone == [seq |-> 0, txn |-> 0, of |-> 0, exp |-> 0, copy |-> 0, reg |-> 0]

dtInit ==
    /\ dtNow = 0 /\ dtTxn = <<>> /\ dtCopy = 0 /\ dtNet = {} /\ dtSeq = 0
    /\ dtPend = [x \in DtXids |-> dtNoPend] /\ dtObs = dtNone

dtTick ==
    /\ dtNow < DtTime /\ dtNow' = dtNow + 1
    /\ UNCHANGED <<dtTxn, dtCopy, dtNet, dtPend, dtSeq, dtObs>>

-----------------------------------------------------------------------------
\* prune: transactions that are too old, on every packet.
dtPruned == [x \in DtXids |-> IF dtPend[x] # dtNoPend /\ dtNow >= dtPend[x].started + DtTTL THEN dtNoPend ELSE dtPend[x]]

\* A REQUEST sent again does not make its transaction younger.
retransmit(p) == p

\* The transaction that gives way when the table is full.
evicted(pend, x) ==
    IF Cardinality({y \in DtXids : pend[y] # dtNoPend}) < DtLimit THEN pend
    ELSE [y \in DtXids |-> IF pend[y] # dtNoPend /\ \A z \in DtXids : pend[z] # dtNoPend => pend[y].seq <= pend[z].seq
                           THEN dtNoPend ELSE pend[y]]

\* A copy of the REQUEST of transaction t, seen leaving.  One that names another server than the transaction does is
\* rejected.  The server that hears it answers with a lease and its DNS, or with none (an ACK
\* without DNS, a NAK); so may a server that was not chosen.
dtRequest(t, txn) ==
    LET x == txn[t].xid
        pend == dtPruned
        known == pend[x] # dtNoPend
    IN /\ dtCopy < DtCopies /\ dtCopy' = dtCopy + 1 /\ dtTxn' = txn
       /\ IF known
          THEN /\ dtPend' = IF pend[x].server = txn[t].server THEN [pend EXCEPT ![x] = retransmit(@)] ELSE pend
               /\ UNCHANGED dtSeq
          ELSE /\ dtSeq' = dtSeq + 1
               /\ dtPend' = [evicted(pend, x) EXCEPT ![x] =
                       [started |-> dtNow, reg |-> dtNow, seq |-> dtSeq', server |-> txn[t].server, txn |-> t]]
       /\ \E kind \in {"ack", "none"} \cup (IF txn[t].server THEN {"foreign"} ELSE {}) :
             dtNet' = dtNet \cup {[txn |-> t, xid |-> x, copy |-> dtNow, kind |-> kind]}
       /\ UNCHANGED <<dtNow, dtObs>>

dtRenew ==
    /\ Len(dtTxn) < DtTxns
    /\ \E x \in DtXids, s \in BOOLEAN : dtRequest(Len(dtTxn) + 1, Append(dtTxn, [xid |-> x, server |-> s]))
dtResend == Len(dtTxn) > 0 /\ dtRequest(Len(dtTxn), dtTxn)

-----------------------------------------------------------------------------
completeOne(pend, p) == [x \in DtXids |-> IF pend[x] = p THEN dtNoPend ELSE pend[x]]
\* complete: the transaction and every older one are over.
complete(pend, p) == [x \in DtXids |-> IF pend[x] # dtNoPend /\ pend[x].seq <= p.seq THEN dtNoPend ELSE pend[x]]

\* RFC 2131 measures the lease from the REQUEST, not from its ACK.
expires(p) == p.started + DtLease

\* A reply arrives; one that belongs to no transaction is ignored, one of another server, or malformed, rejected.
dtDeliver(r) ==
    LET pend == dtPruned
        p == pend[r.xid]
        ok == p # dtNoPend /\ (p.server => r.kind # "foreign")
    IN /\ \/ /\ ok /\ dtPend' = complete(pend, p)
             /\ dtObs' = [seq |-> p.seq, txn |-> r.txn, of |-> p.txn, copy |-> r.copy, reg |-> p.reg,
                          exp |-> IF r.kind = "ack" THEN expires(p) ELSE 0]
          \/ ~ok /\ dtPend' = pend /\ UNCHANGED dtObs
       /\ UNCHANGED <<dtNow, dtTxn, dtCopy, dtNet, dtSeq>>
dtMalformed == dtPend' = dtPruned /\ UNCHANGED <<dtNow, dtTxn, dtCopy, dtNet, dtSeq, dtObs>>

dtNext ==
    \/ dtTick \/ dtRenew \/ dtResend \/ dtMalformed
    \/ \E r \in dtNet : dtDeliver(r)

-----------------------------------------------------------------------------
\* A late answer to an older transaction never replaces the answer to a newer one, and no reply counts twice.
NoLeaseRollback == [][dtObs' # dtObs => dtObs'.seq > dtObs.seq]_dtVars

\* The lease ends no later than measured from the copy of the REQUEST that was answered, however late the answer came
\* and however often the REQUEST was repeated (an id used again, or taken up anew after shadowNativePendingTTL,
\* cannot be told apart).
LeaseFromRequest == dtObs.txn = dtObs.of /\ dtObs.copy >= dtObs.reg => dtObs.exp <= dtObs.copy + DtLease

\* Late, lost and repeated packets never take a lease back or stretch it.
TrackerSafe == []LeaseFromRequest /\ NoLeaseRollback
=============================================================================
