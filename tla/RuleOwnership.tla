--------------------------- MODULE RuleOwnership ---------------------------
(***************************************************************************)
(* The connections and the routing rules bound to them: rules live in the  *)
(* list of their primary connection, or wait for one when it was deleted;  *)
(* public references of deleted connections stay as long as a rule names   *)
(* them.  Every operation edits the state in memory and saves it; a save   *)
(* may fail before or after the file is replaced, and the panel may start  *)
(* over from the file at any time.                                         *)
(***************************************************************************)
EXTENDS Naturals, Sequences, FiniteSets

CONSTANTS
    RoIds,      \* identifiers of connections; 1, 2 and 3 exist at the start
    RoRules,    \* identifiers of rules; 1 and 2 exist at the start
    RoEdits,    \* bound on edits of the list and of the connections
    RoFaults    \* bound on failed saves and restarts

VARIABLES
    roMem,      \* the managers, pending rules and references in memory
    roDisk,     \* the saved state
    roView,     \* a list of rules read for an edit that is still to be saved
    roCopied,   \* rules were copied from one connection to another
    roEdits,
    roFaults

roVars == <<roMem, roDisk, roView, roCopied, roEdits, roFaults>>

Rule(id, tunnel, order) ==
    [id |-> id, tunnel |-> tunnel, fallback |-> {}, waiting |-> FALSE, order |-> order]

\* Two connections of the time when each had its own list, and a spare one.
roInit ==
    /\ roMem = [order   |-> <<1, 2, 3>>,
                zones   |-> [s \in RoIds |-> IF s \in {1, 2} THEN <<Rule(s, s, 1)>> ELSE <<>>],
                pending |-> <<>>,
                refs    |-> {},
                on      |-> {1, 2, 3},
                active  |-> {1, 2},
                backups |-> [s \in RoIds |-> IF s = 1 THEN {2} ELSE {}],
                selected |-> 1]
    /\ roDisk = roMem /\ roView = <<>> /\ roCopied = FALSE
    /\ roEdits = 0 /\ roFaults = 0

Live(st) == {st.order[i] : i \in 1..Len(st.order)}

RECURSIVE Flatten(_, _)
Flatten(lists, order) ==
    IF order = <<>> THEN <<>> ELSE lists[Head(order)] \o Flatten(lists, Tail(order))

\* awgRoutingRules: the lists of all connections and the waiting rules, by
\* priority; ties and missing priorities fall back to the order of the lists.
Precedes(list, i, j) ==
    LET a == list[i].order  b == list[j].order
    IN  \/ a > 0 /\ (b = 0 \/ a < b)
        \/ a = b /\ i < j
awgRoutingRules(st) ==
    LET all == Flatten(st.zones, st.order) \o st.pending
        at(k) == CHOOSE i \in 1..Len(all) :
                    Cardinality({j \in 1..Len(all) : Precedes(all, j, i)}) = k - 1
    IN  [k \in 1..Len(all) |->
            [all[at(k)] EXCEPT !.order = IF @ = 0 THEN k ELSE @,
                               !.fallback = @ \ {all[at(k)].tunnel}]]

RuleIds(st) == [k \in 1..Len(awgRoutingRules(st)) |-> awgRoutingRules(st)[k].id]
Members(list) == {list[k] : k \in 1..Len(list)}
Named(rule) == {rule.tunnel} \cup rule.fallback

\* awgRetainedConnectionRefs: the missing connections that a waiting rule or
\* a fallback still names.
Missing(st) ==
    (UNION {Named(r) : r \in Members(st.pending)} \cup
     UNION {UNION {r.fallback : r \in Members(st.zones[s])} : s \in Live(st)}) \ Live(st)

awgRetainedConnectionRefs(st) == [st EXCEPT !.refs = Missing(st)]

\* normalizeAWGPendingRules, on every load.
Attached(rule, live) == ~rule.waiting /\ rule.tunnel \in live
SetAside(rule) == [rule EXCEPT !.waiting = TRUE]

normalizeAWGPendingRules(st) ==
    LET live == Live(st)
        all == Flatten(st.zones, st.order)
        off == SelectSeq(all, LAMBDA r : ~Attached(r, live))
    IN  awgRetainedConnectionRefs(
            [st EXCEPT !.zones = [s \in RoIds |-> SelectSeq(st.zones[s], LAMBDA r : Attached(r, live))],
                       !.pending = [i \in 1..Len(st.pending) |-> SetAside(st.pending[i])] \o
                                   [i \in 1..Len(off) |-> SetAside(off[i])]])

-----------------------------------------------------------------------------
\* awgSaveRoutingRulesWithRefs: the list is checked, numbered and divided
\* among the connections; a candidate is saved before anything is published.
Accepted(st, list) ==
    \A k \in 1..Len(list) : ~list[k].waiting =>
        /\ list[k].tunnel \in Live(st)
        /\ list[k].fallback \subseteq Live(st) \cup st.refs
Numbered(list) == [k \in 1..Len(list) |-> [list[k] EXCEPT !.order = k]]
PartOf(list, s) == SelectSeq(list, LAMBDA r : ~r.waiting /\ r.tunnel = s)

OwnersOnly(list) == {r.tunnel : r \in {x \in Members(list) : ~x.waiting}}

\* Connections that own a rule or back one up take part in the routing.
Referenced(list) == UNION {Named(r) : r \in {x \in Members(list) : ~x.waiting}}

awgSaveRoutingRules(st, list) ==
    awgRetainedConnectionRefs(
        [st EXCEPT !.zones = [s \in RoIds |-> PartOf(Numbered(list), s)],
                   !.pending = SelectSeq(Numbered(list), LAMBDA r : r.waiting),
                   !.active = Referenced(list) \cap Live(st)])

\* awgDeleteServerWithOps: the rules of the connection wait, its public
\* reference is kept, a backup that was active for it alone is not any more.
Without(seq, x) == SelectSeq(seq, LAMBDA y : y # x)
Fresh(st) == RoIds \ (Live(st) \cup Missing(st))
awgDeleteServer(st, id) ==
    LET rules == awgRoutingRules(st)
        left == Without(st.order, id)
        order == IF left = <<>> THEN <<CHOOSE s \in Fresh(st) \ {id} : TRUE>> ELSE left
        kept == SelectSeq(rules, LAMBDA r : ~r.waiting /\ r.tunnel # id)
        off == SelectSeq(rules, LAMBDA r : r.waiting \/ r.tunnel = id)
    IN  awgRetainedConnectionRefs(
            [st EXCEPT !.order = order,
                       !.zones = [s \in RoIds |-> PartOf(kept, s)],
                       !.pending = [i \in 1..Len(off) |-> SetAside(off[i])],
                       !.on = (@ \ {id}) \cup (IF left = <<>> THEN {order[1]} ELSE {}),
                       !.active = (@ \cap Referenced(kept)) \ {id},
                       !.backups = [s \in RoIds |-> IF s = id THEN {} ELSE @[s] \ {id}],
                       !.selected = IF @ = id THEN order[1] ELSE @])

\* awgReplacementState: every rule gets the rank it is seen with, and every
\* reference to the connection becomes one to its replacement.
Ranked(list) == Numbered(list)
Renamed(set, from, to) == IF from \in set THEN (set \ {from}) \cup {to} ELSE set
Moved(rule, from, to) ==
    LET r == IF rule.tunnel = from THEN [rule EXCEPT !.tunnel = to, !.waiting = FALSE] ELSE rule
    IN  [r EXCEPT !.fallback = Renamed(@, from, to) \ {r.tunnel}]
awgReplacementState(st, from, to) ==
    LET seen == Ranked(awgRoutingRules(st))
        rules == [k \in 1..Len(seen) |-> Moved(seen[k], from, to)]
        transfer == from \in st.active /\ \E k \in 1..Len(seen) : seen[k].tunnel = from
    IN  awgRetainedConnectionRefs(
            [st EXCEPT !.order = Without(@, from),
                       !.zones = [s \in RoIds |-> PartOf(rules, s)],
                       !.pending = SelectSeq(rules, LAMBDA r : r.waiting),
                       !.on = @ \ {from},
                       !.active = (@ \ {from}) \cup (IF transfer THEN {to} ELSE {}),
                       !.backups = [s \in RoIds |->
                            IF s = from THEN {}
                            ELSE Renamed(@[s] \cup (IF s = to THEN @[from] ELSE {}), from, to) \ {s}],
                       !.selected = IF @ = from THEN to ELSE @])

\* awgValidateReplacementGraph: no connection backs itself up.
Reach(b, S) == UNION {b[s] : s \in S}
awgValidateReplacementGraph(st) ==
    \A s \in RoIds :
        LET one == st.backups[s]
            two == one \cup Reach(st.backups, one)
            all == two \cup Reach(st.backups, two)
        IN  s \notin all

-----------------------------------------------------------------------------
roFault == roFaults < RoFaults /\ roFaults' = roFaults + 1
roEdit == roEdits < RoEdits /\ roEdits' = roEdits + 1

\* awgSave: the references are computed again; an error is only logged.
awgSave(st) ==
    /\ roMem' = awgRetainedConnectionRefs(st)
    /\ \/ roDisk' = roMem' /\ UNCHANGED roFaults
       \/ roFault /\ UNCHANGED roDisk

\* The panel's list, or the list a quick action of the trace reads before it
\* takes the operations lock.
ReadRules ==
    /\ roView # awgRoutingRules(roMem) /\ roView' = awgRoutingRules(roMem)
    /\ UNCHANGED <<roMem, roDisk, roCopied, roEdits, roFaults>>

\* What the panel sends: one rule changed, moved to the top or removed, or a
\* new one on top (AWG2InsertTopRule).
Edited(list) ==
    { [list EXCEPT ![k].tunnel = s, ![k].waiting = FALSE, ![k].fallback = f] :
          k \in 1..Len(list), s \in {1, 3}, f \in {{}, {2}} }
    \cup { [list EXCEPT ![k].waiting = TRUE] : k \in 1..Len(list) }
    \cup { <<list[Len(list)]>> \o SubSeq(list, 1, Len(list) - 1), Tail(list) }
InsertTop(st, list) ==
    { <<Rule(r, st.selected, 1)>> \o list : r \in RoRules \ {x.id : x \in Members(list)} }

\* A failed save leaves the memory as it was, also when the file was replaced.
AWG2SetRoutingRules ==
    /\ roView # <<>> /\ roEdit
    /\ \E list \in Edited(roView) \cup InsertTop(roMem, roView) :
          /\ Accepted(roMem, list)
          /\ LET next == awgSaveRoutingRules(roMem, list)
             IN  \/ roMem' = next /\ roDisk' = next /\ UNCHANGED roFaults
                 \/ roFault /\ roDisk' \in {roDisk, next} /\ UNCHANGED roMem
    /\ roView' = <<>> /\ UNCHANGED roCopied

AWG2AddServer ==
    /\ roEdit /\ Fresh(roMem) # {}
    /\ LET s == CHOOSE x \in Fresh(roMem) : TRUE
       IN  awgSave([roMem EXCEPT !.order = Append(@, s), !.on = @ \cup {s}, !.selected = s])
    /\ UNCHANGED <<roView, roCopied>>

AWG2SelectServer(s) ==
    /\ s \in Live(roMem) \ {roMem.selected} /\ roEdit
    /\ awgSave([roMem EXCEPT !.selected = s]) /\ UNCHANGED <<roView, roCopied>>

SetServerEnabled(s) ==
    /\ s \in Live(roMem) /\ roEdit
    /\ awgSave(IF s \in roMem.on THEN [roMem EXCEPT !.on = @ \ {s}, !.active = @ \ {s}]
               ELSE [roMem EXCEPT !.on = @ \cup {s}, !.active = @ \cup {s}])
    /\ UNCHANGED <<roView, roCopied>>

AWG2DeleteServer(s) ==
    /\ s \in Live(roMem) /\ Fresh(roMem) \ {s} # {} /\ roEdit
    /\ awgSave(awgDeleteServer(roMem, s)) /\ UNCHANGED <<roView, roCopied>>

\* AWG2DeleteServerWithReplacement: the candidate is saved first.  A failed
\* save is rolled back; when that fails too, the file decides, and when it
\* cannot be read the memory stays.
AWG2DeleteServerWithReplacement(from, to) ==
    /\ {from, to} \subseteq Live(roMem) /\ from # to /\ roEdit
    /\ LET next == awgReplacementState(roMem, from, to)
       IN  /\ awgValidateReplacementGraph(next)
           /\ \/ roMem' = next /\ roDisk' = next /\ UNCHANGED roFaults
              \/ roFault /\ roDisk' = roMem /\ UNCHANGED roMem
              \/ roFault /\ roDisk' \in {roDisk, next} /\ UNCHANGED roMem
    /\ UNCHANGED <<roView, roCopied>>

\* AWG2CopyRulesFromServer: the copies keep the connection they name.
AWG2CopyRulesFromServer(s) ==
    /\ s \in Live(roMem) \ {roMem.selected} /\ ~roCopied /\ roEdit
    /\ awgSave([roMem EXCEPT !.zones[roMem.selected] = roMem.zones[s]])
    /\ roCopied' = TRUE /\ UNCHANGED roView

\* initAWG after a crash or a restart.
loadAWGState ==
    /\ roFault /\ roMem' = normalizeAWGPendingRules(roDisk)
    /\ roView' = <<>> /\ UNCHANGED <<roDisk, roCopied, roEdits>>

roNext ==
    \/ ReadRules \/ AWG2SetRoutingRules \/ AWG2AddServer \/ loadAWGState
    \/ \E s \in RoIds : \/ AWG2SelectServer(s) \/ SetServerEnabled(s)
                        \/ AWG2DeleteServer(s) \/ AWG2CopyRulesFromServer(s)
    \/ \E s, t \in RoIds : AWG2DeleteServerWithReplacement(s, t)

-----------------------------------------------------------------------------
RulesOf(st) == {RuleIds(st)[k] : k \in DOMAIN RuleIds(st)}
Loads == roMem' = normalizeAWGPendingRules(roDisk)

\* Deleting, replacing, adding, selecting or switching a connection loses no
\* rule; a replacement keeps the order in which the rules apply, also between
\* rules of equal priority (rules copied twice aside).
RulesKept ==
    [][ roMem' # roMem /\ (roView' # <<>> \/ roView = roView') /\ roCopied' = roCopied =>
         \/ Loads
         \/ /\ RulesOf(roMem') = RulesOf(roMem)
            /\ ~roCopied /\ (\A r \in Members(awgRoutingRules(roMem')) : r.waiting =>
                   r.tunnel \in Live(roMem') \/ r \in Members(awgRoutingRules(roMem)))
               => RuleIds(roMem') = RuleIds(roMem) ]_roVars

\* A waiting rule is attached by the user only: by a saved list or by the
\* replacement of the connection it names, never by a load, a new connection
\* or a deletion.
NoAutoAttach ==
    [][ roMem' # roMem /\ (roView' # <<>> \/ roView = roView' \/ Loads) =>
         LET old == IF Loads THEN roDisk ELSE roMem
         IN  \A r \in Members(old.pending) :
               \/ \E x \in Members(roMem'.pending) : x.id = r.id
               \/ r.tunnel \in Live(roMem) \ Live(roMem') ]_roVars

\* In memory, a rule that is not waiting names a connection that exists, and
\* the references are exactly the missing connections that rules name.
RefsExact ==
    /\ \A s \in Live(roMem) : \A r \in Members(roMem.zones[s]) : Attached(r, Live(roMem))
    /\ roMem.refs = Missing(roMem)

\* A rule that had a usable connection keeps one, unless a connection was
\* switched off or deleted: a backup-only connection stays in the routing.
Served(st, r) == ~r.waiting /\ Named(r) \cap st.active \cap st.on # {}
ServedKept ==
    [][ roMem' # roMem /\ ~Loads /\ roMem'.on = roMem.on /\ Live(roMem') = Live(roMem) =>
          \A r \in Members(awgRoutingRules(roMem)) : \A x \in Members(awgRoutingRules(roMem')) :
              x.id = r.id /\ Named(x) = Named(r) /\ ~x.waiting /\ Served(roMem, r)
                 => Served(roMem', x) ]_roVars

\* No edit of the connections loses, detaches, reorders or attaches a rule that
\* the user did not touch.
RulesSafe == []RefsExact /\ RulesKept /\ NoAutoAttach /\ ServedKept
=============================================================================
