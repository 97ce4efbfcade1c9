------------------------- MODULE RoutingDiscoveries -------------------------
(***************************************************************************)
(* The history of names seen by the routing rules.  A DNS answer whose     *)
(* address was put into the sets of a rule is recorded in memory, shown as *)
(* confirmed while the policy is the one it was installed under, and saved *)
(* some time later.  A backup may replace the file and the memory under    *)
(* the feet of a save.  The panel may be killed and started again.         *)
(***************************************************************************)
EXTENDS Naturals, FiniteSets, FiniteSetsExt

CONSTANTS
    RdSights,                       \* what an answer may be: the key of its rule, its name, its address
    RdRare,                         \* the name that an edit of a list drops or brings back
    RdRuleLimit, RdLimit, RdIPLimit, RdScopes, \* limits of the history and of the scopes
    RdObservers,                    \* answers at a time
    RdClock,                        \* times of the wall clock, which may go back
    RdAnswers,                      \* bound on answers
    RdEvents                        \* bound on applies, edits, backups, failures and restarts

VARIABLES
    rdHist,     \* routingLearnedHistory: entries, counts, version, persisted, touch
    rdGate,     \* routingDNSGate: generation, epoch, applying, err
    rdSets,     \* addresses in the sets of each rule
    rdObs,      \* answers under way
    rdScope,    \* discoveryScopes: the compiled lists, by rule
    rdLists,    \* edits of the lists that rules refer to
    rdRev, rdBumped, \* zonesRevision, and the edits it has taken notice of
    rdSaver,    \* persistence: timer, closed, the flush under way, whether the last save failed
    rdFile,     \* awg-routing-learned.json
    rdRestore,  \* the restore of a backup
    rdEra, rdLost, \* the backup the memory comes from; the file could not be brought back
    rdUsed      \* what is used up of the bounds

RdRules == {s[1] : s \in RdSights}

rdVars == <<rdHist, rdGate, rdSets, rdObs, rdScope, rdLists, rdRev, rdBumped, rdSaver, rdFile, rdRestore, rdEra, rdLost, rdUsed>>
rdPolicy == <<rdGate, rdSets>>
rdNaming == <<rdScope, rdLists, rdRev, rdBumped>>
rdStore == <<rdSaver, rdFile, rdRestore, rdEra, rdLost>>

rdNoFile == [at |-> "none", era |-> 0, entries |-> <<>>]
rdBadFile == [at |-> "bad", era |-> 0, entries |-> <<>>]
rdIdle == [at |-> "idle", rule |-> 0, name |-> 0, ip |-> 0, gen |-> 0, epoch |-> 0, rev |-> 0, of |-> 0]
rdNoFlush == [at |-> "idle", version |-> 0, entries |-> <<>>, era |-> 0]
rdNoRestore == [at |-> "idle", previous |-> rdNoFile]
rdQuiet == [timer |-> FALSE, closed |-> FALSE, waiting |-> {}, flush |-> rdNoFlush, failed |-> FALSE]
rdEmpty == [entries |-> <<>>, counts |-> [r \in RdRules |-> 0], version |-> 0, persisted |-> 0, touch |-> 0]

rdInit ==
    /\ rdHist = rdEmpty /\ rdSets = {} /\ rdLists = 0 /\ rdRev = 0 /\ rdBumped = 0 /\ rdScope = <<>>
    /\ rdGate = [generation |-> 0, epoch |-> 0, applying |-> FALSE, err |-> FALSE]
    /\ rdObs = [o \in RdObservers |-> rdIdle] /\ rdSaver = rdQuiet
    /\ rdFile = rdNoFile /\ rdRestore = rdNoRestore /\ rdEra = 0 /\ rdLost = FALSE
    /\ rdUsed = [answers |-> 0, events |-> 0]

rdUse(what, bound) == rdUsed[what] < bound /\ rdUsed' = [rdUsed EXCEPT ![what] = @ + 1]
rdEvent == rdUse("events", RdEvents)
rdWorks == UNCHANGED rdUsed

-----------------------------------------------------------------------------
\* The history in memory.  An entry has its last sight, its last touch and its
\* addresses; an address has its own and the policy it was installed under.
older(a, b) == a.seen < b.seen \/ (a.seen = b.seen /\ a.touch < b.touch)
rdWithout(f, k) == [j \in DOMAIN f \ {k} |-> f[j]]
rdWith(f, k, v) == [j \in DOMAIN f \cup {k} |-> IF j = k THEN v ELSE f[j]]

\* The address seen longest ago goes first; the smaller of two seen at once.
trimLearnedValues(ips, limit) ==
    IF Cardinality(DOMAIN ips) <= limit THEN ips
    ELSE rdWithout(ips, CHOOSE a \in DOMAIN ips : \A b \in DOMAIN ips \ {a} :
                            older(ips[a], ips[b]) \/ (~older(ips[b], ips[a]) /\ a < b))
\* The entry seen longest ago, of one rule or of all.
evictLocked(h, keys) ==
    LET k == CHOOSE k \in keys : \A j \in keys \ {k} : older(h.entries[k], h.entries[j])
    IN  [h EXCEPT !.entries = rdWithout(h.entries, k), !.counts[k[1]] = @ - 1]
rdOfRule(h, r) == {k \in DOMAIN h.entries : k[1] = r}
rdTrimRule(h, r) ==
    IF h.counts[r] > RdRuleLimit THEN evictLocked(h, rdOfRule(h, r)) ELSE h
rdTrimAll(h) ==
    IF Cardinality(DOMAIN h.entries) > RdLimit THEN evictLocked(h, DOMAIN h.entries) ELSE h

\* A confirmation never goes back to an older policy.
rdConfirm(previous, generation, epoch) ==
    LET newer == previous.confirmed /\ \/ previous.generation > generation
                                       \/ previous.generation = generation /\ previous.epoch > epoch
    IN  IF newer THEN [generation |-> previous.generation, epoch |-> previous.epoch]
        ELSE [generation |-> generation, epoch |-> epoch]
rdNever == [seen |-> 0, touch |-> 0, generation |-> 0, epoch |-> 0, confirmed |-> FALSE]
\* Record under the mutex of the history.
Record(h, k, ip, generation, epoch, now) ==
    LET old == IF k \in DOMAIN h.entries THEN h.entries[k] ELSE [seen |-> 0, touch |-> 0, ips |-> <<>>]
        was == IF ip \in DOMAIN old.ips THEN old.ips[ip] ELSE rdNever
        conf == rdConfirm(was, generation, epoch)
        val == [seen |-> Max({now, was.seen}), touch |-> h.touch + 1,
                generation |-> conf.generation, epoch |-> conf.epoch, confirmed |-> TRUE]
        new == [seen |-> Max({now, old.seen}), touch |-> h.touch + 1,
                ips |-> trimLearnedValues(rdWith(old.ips, ip, val), RdIPLimit)]
        grown == [h EXCEPT !.entries = rdWith(@, k, new), !.touch = @ + 1, !.version = @ + 1,
                           !.counts[k[1]] = IF k \in DOMAIN h.entries THEN @ ELSE @ + 1]
    IN  rdTrimAll(rdTrimRule(grown, k[1]))

\* What is shown as confirmed: every address was installed under the policy in force.
rdReady == ~rdGate.applying /\ ~rdGate.err
Confirmed(k) ==
    /\ rdReady /\ DOMAIN rdHist.entries[k].ips # {}
    /\ \A ip \in DOMAIN rdHist.entries[k].ips :
        LET v == rdHist.entries[k].ips[ip] IN
        v.confirmed /\ v.generation = rdGate.generation /\ v.epoch = rdGate.epoch

\* The document on disk has neither touches nor confirmations.
Document(entries) == [k \in DOMAIN entries |-> [seen |-> entries[k].seen, ips |-> DOMAIN entries[k].ips]]
\* loadLocked: recorded again in the order of sight, then no address counts as confirmed.
rdBefore(doc, j, k) ==
    doc[j].seen < doc[k].seen \/ (doc[j].seen = doc[k].seen /\ (j[1] < k[1] \/ (j[1] = k[1] /\ j[2] <= k[2])))
rdLoadedValue == [generation |-> 0, epoch |-> 0, confirmed |-> FALSE]
Loaded(doc) ==
    LET rank(k) == Cardinality({j \in DOMAIN doc : rdBefore(doc, j, k)})
        value(k) == [seen |-> doc[k].seen, touch |-> rank(k), generation |-> rdLoadedValue.generation,
                     epoch |-> rdLoadedValue.epoch, confirmed |-> rdLoadedValue.confirmed]
    IN  [k \in DOMAIN doc |-> [seen |-> doc[k].seen, touch |-> rank(k),
                               ips |-> [ip \in doc[k].ips |-> value(k)]]]
replaceLoaded(h, doc) ==
    [entries |-> Loaded(doc), touch |-> Cardinality(DOMAIN doc),
     counts |-> [r \in RdRules |-> Cardinality({k \in DOMAIN doc : k[1] = r})],
     version |-> h.version + 1, persisted |-> h.version + 1]

-----------------------------------------------------------------------------
\* One answer: the reader guard, the epoch, the check, the sets, the check again.
rdAt(o, at) == rdObs[o].at = at
rdGoes(o, at) == rdObs' = [rdObs EXCEPT ![o].at = at]
rdLeaves(o) == rdObs' = [rdObs EXCEPT ![o] = rdIdle]
rdHolds(o) == rdReady /\ rdObs[o].gen = rdGate.generation /\ rdObs[o].epoch = rdGate.epoch
rdAcquire(o) ==
    /\ rdAt(o, "idle") /\ rdReady /\ ~rdSaver.closed /\ rdUse("answers", RdAnswers)
    /\ \E s \in RdSights :
        rdObs' = [rdObs EXCEPT ![o] = [rdIdle EXCEPT !.at = "in", !.rule = s[1], !.name = s[2], !.ip = s[3],
                                                     !.gen = rdGate.generation]]
    /\ UNCHANGED <<rdHist, rdPolicy, rdNaming, rdStore>>
rdNote(o) ==
    /\ rdAt(o, "in") /\ rdObs' = [rdObs EXCEPT ![o].at = "noted", ![o].epoch = rdGate.epoch]
    /\ UNCHANGED <<rdHist, rdPolicy, rdNaming, rdStore, rdUsed>>
rdVerify(o) ==
    /\ \/ rdAt(o, "noted") /\ IF rdHolds(o) THEN rdGoes(o, "install") ELSE rdLeaves(o)
       \/ rdAt(o, "installed") /\ IF rdHolds(o) THEN rdGoes(o, "scope") ELSE rdLeaves(o)
    /\ UNCHANGED <<rdHist, rdPolicy, rdNaming, rdStore, rdUsed>>
rdInstall(o) ==
    /\ rdAt(o, "install")
    /\ \/ rdWorks /\ rdGoes(o, "installed") /\ rdSets' = rdSets \cup {<<rdObs[o].rule, rdObs[o].ip>>}
       \/ rdEvent /\ rdLeaves(o) /\ UNCHANGED rdSets
    /\ UNCHANGED <<rdHist, rdGate, rdNaming, rdStore>>

\* routingDiscoveryMatchers: the compiled lists of the rule, kept while the revision stays.
rdLook(o) ==
    /\ rdAt(o, "scope")
    /\ LET r == rdObs[o].rule
           kept == r \in DOMAIN rdScope /\ rdScope[r].rev = rdRev
       IN  rdObs' = [rdObs EXCEPT ![o].at = IF kept THEN "record" ELSE "expand", ![o].rev = rdRev,
                                  ![o].of = IF kept THEN rdScope[r].of ELSE 0]
    /\ UNCHANGED <<rdHist, rdPolicy, rdNaming, rdStore, rdUsed>>
\* The lists are read, or taken from a cache of what was read under the same revision.
rdExpand(o) ==
    /\ rdAt(o, "expand")
    /\ \E read \in rdBumped..rdLists : rdObs' = [rdObs EXCEPT ![o].at = "keep", ![o].of = read]
    /\ UNCHANGED <<rdHist, rdPolicy, rdNaming, rdStore, rdUsed>>
rdRoom(scopes) == IF Cardinality(DOMAIN scopes) >= RdScopes THEN <<>> ELSE scopes
rdKeep(o) ==
    /\ rdAt(o, "keep") /\ rdGoes(o, "record")
    /\ rdScope' = IF rdRev # rdObs[o].rev THEN rdScope
                  ELSE rdWith(rdRoom(rdScope), rdObs[o].rule, [rev |-> rdObs[o].rev, of |-> rdObs[o].of])
    /\ UNCHANGED <<rdHist, rdPolicy, rdLists, rdRev, rdBumped, rdStore, rdUsed>>
rdMatches(name, lists) == lists % 2 = 0 \/ name # RdRare

\* recordRoutingDiscovery: the check of the policy and the record are one step
\* under the mutex of the gate; a restore that waits or works makes it a no-op.
rdRestoring == rdRestore.at # "idle"
rdPolicyHolds(o) == rdReady /\ rdGate.generation = rdObs[o].gen
recordRoutingDiscovery(o) ==
    /\ rdAt(o, "record")
    /\ IF rdMatches(rdObs[o].name, rdObs[o].of) /\ rdPolicyHolds(o)
       THEN /\ rdGoes(o, "schedule")
            /\ IF rdRestoring THEN UNCHANGED rdHist
               ELSE \E now \in RdClock :
                    rdHist' = Record(rdHist, <<rdObs[o].rule, rdObs[o].name>>, rdObs[o].ip,
                                     rdGate.generation, rdGate.epoch, now)
       ELSE rdLeaves(o) /\ UNCHANGED rdHist
    /\ UNCHANGED <<rdPolicy, rdNaming, rdStore, rdUsed>>
scheduleRoutingDiscoveriesSave(o) ==
    /\ rdAt(o, "schedule") /\ rdLeaves(o)
    /\ rdSaver' = IF rdSaver.closed \/ rdSaver.timer THEN rdSaver
                  ELSE [rdSaver EXCEPT !.timer = TRUE, !.failed = FALSE]
    /\ UNCHANGED <<rdHist, rdPolicy, rdNaming, rdFile, rdRestore, rdEra, rdLost, rdUsed>>

\* The policy is replaced when no answer is inside; a re-assertion keeps the generation.
rdBegin ==
    /\ ~rdGate.applying /\ rdEvent
    /\ \E revise \in {0, 1} :
        rdGate' = [rdGate EXCEPT !.applying = TRUE, !.epoch = @ + 1, !.generation = @ + revise]
    /\ UNCHANGED <<rdHist, rdSets, rdObs, rdNaming, rdStore>>
rdReplace ==
    /\ rdGate.applying /\ \A o \in RdObservers : rdAt(o, "idle")
    /\ rdSets' = {} /\ \E err \in BOOLEAN : rdGate' = [rdGate EXCEPT !.applying = FALSE, !.err = err]
    /\ UNCHANGED <<rdHist, rdObs, rdNaming, rdStore, rdUsed>>
\* A list is edited; only a save of the AWG configuration raises the revision.
rdEdit ==
    /\ rdEvent /\ rdLists' = rdLists + 1
    /\ UNCHANGED <<rdHist, rdPolicy, rdObs, rdScope, rdRev, rdBumped, rdStore>>
BumpZonesRevision ==
    /\ rdEvent /\ rdRev' = rdRev + 1 /\ rdBumped' = rdLists
    /\ UNCHANGED <<rdHist, rdPolicy, rdObs, rdScope, rdLists, rdStore>>

-----------------------------------------------------------------------------
\* The timer goes off, the panel closes: a flush waits for its locks.
rdTimer ==
    /\ rdSaver.timer /\ rdSaver' = [rdSaver EXCEPT !.timer = FALSE, !.waiting = @ \cup {"timer"}]
    /\ UNCHANGED <<rdHist, rdPolicy, rdObs, rdNaming, rdFile, rdRestore, rdEra, rdLost, rdUsed>>
CloseRoutingDiscoveries ==
    /\ ~rdSaver.closed /\ \A o \in RdObservers : rdAt(o, "idle")
    /\ rdSaver' = [rdSaver EXCEPT !.closed = TRUE, !.timer = FALSE, !.waiting = @ \cup {"close"}]
    /\ UNCHANGED <<rdHist, rdPolicy, rdObs, rdNaming, rdFile, rdRestore, rdEra, rdLost, rdUsed>>
\* Both locks are free for a flush: no other flush, and no restore that waits or works.
rdFlushMay == rdSaver.flush.at = "idle" /\ ~rdRestoring
Flush ==
    /\ rdFlushMay
    /\ \E by \in rdSaver.waiting :
        rdSaver' = [rdSaver EXCEPT !.waiting = @ \ {by},
            !.flush = IF rdHist.version = rdHist.persisted THEN rdNoFlush
                      ELSE [at |-> "save", version |-> rdHist.version, entries |-> Document(rdHist.entries),
                            era |-> rdEra]]
    /\ UNCHANGED <<rdHist, rdPolicy, rdObs, rdNaming, rdFile, rdRestore, rdEra, rdLost, rdUsed>>
\* The save renames a whole file into place; its error may come before or after.
rdWritten == [at |-> "ok", era |-> rdSaver.flush.era, entries |-> rdSaver.flush.entries]
FlushSaved ==
    /\ rdSaver.flush.at = "save" /\ rdWorks
    /\ rdFile' = rdWritten /\ rdHist' = [rdHist EXCEPT !.persisted = rdSaver.flush.version]
    /\ rdSaver' = [rdSaver EXCEPT !.flush = rdNoFlush, !.failed = FALSE] /\ rdLost' = FALSE
    /\ UNCHANGED <<rdPolicy, rdObs, rdNaming, rdRestore, rdEra>>
FlushFails ==
    /\ rdSaver.flush.at = "save" /\ rdEvent
    /\ rdFile' \in {rdFile, rdWritten} /\ rdSaver' = [rdSaver EXCEPT !.flush = rdNoFlush, !.failed = TRUE]
    /\ UNCHANGED <<rdHist, rdPolicy, rdObs, rdNaming, rdRestore, rdEra, rdLost>>

\* Restore of a backup: the writer's lock is asked for, taken when no flush is
\* at work, the file kept aside, the archive written, the file loaded.
Restore ==
    /\ ~rdRestoring /\ ~rdSaver.closed /\ rdEvent
    /\ rdRestore' = [rdNoRestore EXCEPT !.at = "wait"]
    /\ UNCHANGED <<rdHist, rdPolicy, rdObs, rdNaming, rdSaver, rdFile, rdEra, rdLost>>
RestoreMay == rdSaver.flush.at = "idle"
RestoreLocked ==
    /\ rdRestore.at = "wait" /\ RestoreMay
    /\ \/ rdWorks /\ rdRestore' = [at |-> "write", previous |-> rdFile]
       \/ rdEvent /\ rdRestore' = rdNoRestore
    /\ UNCHANGED <<rdHist, rdPolicy, rdObs, rdNaming, rdSaver, rdFile, rdEra, rdLost>>
\* The archive may hold a history (of one name), one that cannot be read, or none;
\* a failure leaves the file untouched, cut off or written.
rdArchive ==
    LET s == CHOOSE s \in RdSights : TRUE
    IN  [at |-> "ok", era |-> rdUsed.events,
         entries |-> [k \in {<<s[1], s[2]>>} |-> [seen |-> Min(RdClock), ips |-> {s[3]}]]]
RestoreWrite ==
    /\ rdRestore.at = "write" /\ rdFile' \in {rdFile, rdArchive, rdBadFile}
    /\ \/ rdWorks /\ rdRestore' = [rdRestore EXCEPT !.at = "load"]
       \/ rdEvent /\ rdRestore' = [rdRestore EXCEPT !.at = "undo"]
    /\ UNCHANGED <<rdHist, rdPolicy, rdObs, rdNaming, rdSaver, rdEra, rdLost>>
RestoreLoad ==
    /\ rdRestore.at = "load"
    /\ IF rdFile.at = "bad"
       THEN rdRestore' = [rdRestore EXCEPT !.at = "undo"] /\ UNCHANGED <<rdHist, rdEra, rdLost>>
       ELSE /\ rdHist' = replaceLoaded(rdHist, rdFile.entries)
            /\ rdEra' = rdFile.era /\ rdLost' = FALSE /\ rdRestore' = rdNoRestore
    /\ UNCHANGED <<rdPolicy, rdObs, rdNaming, rdSaver, rdFile, rdUsed>>
rdUndone == rdRestore.previous
RestoreUndo ==
    /\ rdRestore.at = "undo" /\ rdRestore' = rdNoRestore
    /\ \/ rdWorks /\ rdFile' = rdUndone /\ UNCHANGED rdLost
       \/ rdEvent /\ rdLost' = TRUE /\ UNCHANGED rdFile
    /\ UNCHANGED <<rdHist, rdPolicy, rdObs, rdNaming, rdSaver, rdEra>>

\* The panel dies and starts again: the policy counts anew, the sets may still
\* be there, and a file that cannot be read is an empty history.
rdReboot ==
    /\ rdEvent
    /\ rdHist' = IF rdFile.at = "ok" THEN replaceLoaded(rdEmpty, rdFile.entries) ELSE rdEmpty
    /\ rdGate' = [generation |-> 0, epoch |-> 0, applying |-> FALSE, err |-> FALSE]
    /\ rdObs' = [o \in RdObservers |-> rdIdle] /\ rdScope' = <<>> /\ rdSaver' = rdQuiet
    /\ rdRestore' = rdNoRestore /\ rdEra' = rdFile.era /\ rdLost' = (rdFile.at = "bad") /\ rdRev' = 0 /\ rdBumped' = rdLists
    /\ \E kept \in {{}, rdSets} : rdSets' = kept
    /\ UNCHANGED <<rdLists, rdFile>>

rdNext ==
    \/ \E o \in RdObservers :
        \/ rdAcquire(o) \/ rdNote(o) \/ rdVerify(o) \/ rdInstall(o) \/ rdLook(o) \/ rdExpand(o)
        \/ rdKeep(o) \/ recordRoutingDiscovery(o) \/ scheduleRoutingDiscoveriesSave(o)
    \/ rdBegin \/ rdReplace \/ rdEdit \/ BumpZonesRevision
    \/ rdTimer \/ CloseRoutingDiscoveries \/ Flush \/ FlushSaved \/ FlushFails
    \/ Restore \/ RestoreLocked \/ RestoreWrite \/ RestoreLoad \/ RestoreUndo \/ rdReboot

-----------------------------------------------------------------------------
\* The page says "confirmed" of a name only while each of its addresses is in
\* the sets of its rule: across replacements of the policy under an answer,
\* re-assertions that keep the generation, backups, and restarts that count
\* generations from zero again (recordRoutingDiscovery, loadLocked).
ShownIsInstalled ==
    \A k \in DOMAIN rdHist.entries : Confirmed(k) =>
        \A ip \in DOMAIN rdHist.entries[k].ips : <<k[1], ip>> \in rdSets

\* An observation that is not on disk has a save to come: a timer, a flush that
\* will see it, or an answer about to set the timer; only a failed save ends that.
UnsavedIsScheduled ==
    rdHist.version # rdHist.persisted =>
        \/ rdSaver.timer \/ rdSaver.waiting # {} \/ rdSaver.failed
        \/ rdSaver.flush.at = "save" /\ rdSaver.flush.version = rdHist.version
        \/ \E o \in RdObservers : rdAt(o, "schedule")

\* A history that counts as saved is the one in the file, and a save copied
\* before a backup was restored never lands after it; a backup that failed leaves
\* the file as it was, unless taking it back failed too (Restore, Flush).
SavedIsOnDisk ==
    (~rdRestoring /\ ~rdLost) =>
        /\ rdFile.at # "bad" /\ rdFile.era = rdEra
        /\ rdHist.version = rdHist.persisted => rdFile.entries = Document(rdHist.entries)
\* The counters of the rules say what the history holds, and no limit is passed,
\* whatever the clock does.
CountsAreExact ==
    /\ \A r \in RdRules : rdHist.counts[r] = Cardinality(rdOfRule(rdHist, r)) /\ rdHist.counts[r] <= RdRuleLimit
    /\ Cardinality(DOMAIN rdHist.entries) <= RdLimit
    /\ \A k \in DOMAIN rdHist.entries : Cardinality(DOMAIN rdHist.entries[k].ips) <= RdIPLimit

\* A save of the configuration makes earlier edits of lists visible: no scope
\* that is still used was compiled from lists read before the revision was
\* raised, though it may have been under way then (routingDiscoveryMatchers).
ScopeIsCurrent == \A r \in DOMAIN rdScope : rdScope[r].rev = rdRev => rdScope[r].of >= rdBumped

\* The history of discovered names is true, kept and bounded.
DiscoveriesSafe ==
    /\ ShownIsInstalled /\ UnsavedIsScheduled /\ SavedIsOnDisk /\ CountsAreExact /\ ScopeIsCurrent
=============================================================================
