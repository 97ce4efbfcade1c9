----------------------------- MODULE DnsFilters -----------------------------
(***************************************************************************)
(* The block lists of the DNS server.  A manager keeps the selected lists, *)
(* the matcher built from their cached files and the download under way;   *)
(* resolvers hold the matcher they were given.  Downloads run outside the  *)
(* locks and install one list at a time; a change of the configuration, a  *)
(* restart of the resolver and a failing disk come in between.             *)
(***************************************************************************)
EXTENDS Naturals, FiniteSets, Sequences

CONSTANTS
    FmLists,     \* the catalogue
    FmVersions,  \* bound on versions of a list: 0..FmVersions, 0 = none
    FmUpdates,   \* bound on downloads: 1..FmUpdates
    FmConfigs,   \* bound on changes of the configuration
    FmResolvers  \* bound on resolvers: 1..FmResolvers

ASSUME FmAssumption ==
    FmVersions \in Nat /\ FmUpdates \in Nat /\ FmConfigs \in Nat /\ FmResolvers \in Nat \ {0}

VARIABLES
    fmCfg,      \* selected lists (m.cfg.Lists), {} = filtering is off
    fmRev,      \* m.revision
    fmMatch,    \* versions in m.blocker
    fmDisk,     \* versions in the cached files
    fmNow,      \* the resolver that runs
    fmGiven,    \* matcher of each resolver
    fmDead,     \* closed resolvers
    fmStarted,  \* m.resolver
    fmPending,  \* the configuration changed and the resolver is to be replaced
    fmUpdating, fmId, \* m.updating, m.updateID
    fmUp,       \* each download
    fmLock      \* holder of opMu: a download installing a list, or 0

fmVars == <<fmCfg, fmRev, fmMatch, fmDisk, fmNow, fmGiven, fmDead, fmStarted, fmPending, fmUpdating, fmId, fmUp, fmLock>>

fmEmpty == [l \in FmLists |-> 0]
fmNoUp == [at |-> "none", todo |-> {}, rev |-> 0, res |-> 0, id |-> 0, list |-> "none", version |-> 0, cut |-> FALSE]
fmInit ==
    /\ fmCfg = {} /\ fmRev = 0 /\ fmMatch = fmEmpty /\ fmDisk = fmEmpty
    /\ fmNow = 1 /\ fmGiven = [r \in 1..FmResolvers |-> fmEmpty] /\ fmDead = {} /\ fmStarted = 1 /\ fmPending = FALSE
    /\ fmUpdating = FALSE /\ fmId = 0 /\ fmUp = [u \in 1..FmUpdates |-> fmNoUp] /\ fmLock = 0

\* build: the cached file of every selected list, and the new data of one.
built(lists, disk) == [l \in FmLists |-> IF l \in lists THEN disk[l] ELSE 0]
\* updateCancel and a new updateID.
fmCuts == [u \in 1..FmUpdates |-> [fmUp[u] EXCEPT !.cut = @ \/ (fmUp[u].id = fmId /\ fmUpdating)]]

-----------------------------------------------------------------------------
\* ConfigurePersist: built and saved before anything changes in memory.
ConfigureFilters(lists) ==
    /\ fmLock = 0 /\ fmRev < FmConfigs /\ lists # fmCfg
    /\ ~fmPending /\ fmStarted = fmNow /\ fmNow \notin fmDead /\ fmPending' = TRUE
    /\ fmCfg' = lists /\ fmMatch' = built(lists, fmDisk) /\ fmRev' = fmRev + 1
    /\ fmUp' = fmCuts /\ fmId' = fmId + 1 /\ fmUpdating' = FALSE
    /\ UNCHANGED <<fmDisk, fmNow, fmGiven, fmDead, fmStarted, fmLock>>
\* The server replaces its resolver: the old one is closed, the new one gets
\* the matcher of the moment, and Start gives it once more under opMu.
fmStop ==
    /\ fmNow \notin fmDead /\ fmNow < FmResolvers /\ fmDead' = fmDead \cup {fmNow}
    /\ UNCHANGED <<fmCfg, fmRev, fmMatch, fmDisk, fmNow, fmGiven, fmStarted, fmPending, fmUpdating, fmId, fmUp, fmLock>>
fmNewResolver ==
    /\ fmNow \in fmDead /\ fmNow' = fmNow + 1 /\ fmGiven' = [fmGiven EXCEPT ![fmNow'] = fmMatch]
    /\ UNCHANGED <<fmCfg, fmRev, fmMatch, fmDisk, fmDead, fmStarted, fmPending, fmUpdating, fmId, fmUp, fmLock>>

startGives == fmGiven' = [fmGiven EXCEPT ![fmNow] = fmMatch]
FilterStart ==
    /\ fmLock = 0 /\ fmStarted # fmNow /\ fmNow \notin fmDead /\ fmStarted' = fmNow /\ fmPending' = FALSE
    /\ fmUp' = fmCuts /\ fmId' = fmId + 1 /\ fmUpdating' = FALSE /\ startGives
    /\ UNCHANGED <<fmCfg, fmRev, fmMatch, fmDisk, fmNow, fmDead, fmLock>>

-----------------------------------------------------------------------------
\* Trigger: one download at a time, of the lists and the revision of now, for
\* the resolver whose timer or request it is, which may be closed already.
fmMay == ~fmUpdating /\ fmCfg # {}
Trigger(u, r) ==
    /\ fmUp[u].at = "none" /\ fmMay /\ r <= fmStarted
    /\ \A v \in 1..(u - 1) : fmUp[v].at # "none"
    /\ fmId' = fmId + 1 /\ fmUpdating' = TRUE
    /\ fmUp' = [fmUp EXCEPT ![u] = [at |-> "next", todo |-> fmCfg, rev |-> fmRev, res |-> r,
                                    id |-> fmId', list |-> "none", version |-> 0, cut |-> FALSE]]
    /\ UNCHANGED <<fmCfg, fmRev, fmMatch, fmDisk, fmNow, fmGiven, fmDead, fmStarted, fmPending, fmLock>>
fmOver(u) == fmUp[u].cut \/ fmUp[u].res \in fmDead
fmUpdate(u, rec) == fmUp' = [fmUp EXCEPT ![u] = rec]
\* FetchFilteringSource: the new version of a list, or a failure.
FetchFilteringSource(u, l) ==
    /\ fmUp[u].at = "next" /\ l \in fmUp[u].todo /\ ~fmOver(u)
    /\ \/ fmUpdate(u, [fmUp[u] EXCEPT !.todo = @ \ {l}])
       \/ /\ fmDisk[l] < FmVersions
          /\ fmUpdate(u, [fmUp[u] EXCEPT !.todo = @ \ {l}, !.at = "fetched", !.list = l, !.version = fmDisk[l] + 1])
    /\ UNCHANGED <<fmCfg, fmRev, fmMatch, fmDisk, fmNow, fmGiven, fmDead, fmStarted, fmPending, fmUpdating, fmId, fmLock>>

\* install: under opMu, for the revision it was fetched for and a resolver
\* that lives; the file is written before the matcher is replaced.
installs(u) == fmUp[u].rev = fmRev
installLock(u) ==
    /\ fmUp[u].at = "fetched" /\ fmLock = 0
    /\ IF installs(u) /\ fmUp[u].res \notin fmDead
       THEN fmLock' = u /\ fmUpdate(u, [fmUp[u] EXCEPT !.at = "write"])
       ELSE UNCHANGED fmLock /\ fmUpdate(u, [fmUp[u] EXCEPT !.at = "next", !.todo = IF installs(u) THEN @ ELSE {}])
    /\ UNCHANGED <<fmCfg, fmRev, fmMatch, fmDisk, fmNow, fmGiven, fmDead, fmStarted, fmPending, fmUpdating, fmId>>

writeFails(u) == fmLock' = 0 /\ fmUpdate(u, [fmUp[u] EXCEPT !.at = "next"]) /\ UNCHANGED fmDisk
installWrite(u) ==
    /\ fmUp[u].at = "write"
    /\ \/ /\ fmUp[u].res \notin fmDead /\ fmDisk' = [fmDisk EXCEPT ![fmUp[u].list] = fmUp[u].version]
          /\ fmUpdate(u, [fmUp[u] EXCEPT !.at = "publish"]) /\ UNCHANGED fmLock
       \/ writeFails(u)
    /\ UNCHANGED <<fmCfg, fmRev, fmMatch, fmNow, fmGiven, fmDead, fmStarted, fmPending, fmUpdating, fmId>>
\* The matcher was built from the files of the configuration and the new data.
installPublish(u) ==
    /\ fmUp[u].at = "publish"
    /\ fmMatch' = [built(fmCfg, fmDisk) EXCEPT ![fmUp[u].list] = fmUp[u].version]
    /\ fmUpdate(u, [fmUp[u] EXCEPT !.at = "give"])
    /\ UNCHANGED <<fmCfg, fmRev, fmDisk, fmNow, fmGiven, fmDead, fmStarted, fmPending, fmUpdating, fmId, fmLock>>
installGive(u) ==
    /\ fmUp[u].at = "give" /\ fmGiven' = [fmGiven EXCEPT ![fmUp[u].res] = fmMatch]
    /\ fmLock' = 0 /\ fmUpdate(u, [fmUp[u] EXCEPT !.at = "next"])
    /\ UNCHANGED <<fmCfg, fmRev, fmMatch, fmDisk, fmNow, fmDead, fmStarted, fmPending, fmUpdating, fmId>>

\* The end clears the flag only if it is still its own.
endsUpdate(u) == fmUp[u].id = fmId
updateEnds(u) ==
    /\ fmUp[u].at = "next" /\ (fmUp[u].todo = {} \/ fmOver(u))
    /\ fmUpdate(u, [fmUp[u] EXCEPT !.at = "done"])
    /\ fmUpdating' = (fmUpdating /\ ~endsUpdate(u))
    /\ UNCHANGED <<fmCfg, fmRev, fmMatch, fmDisk, fmNow, fmGiven, fmDead, fmStarted, fmPending, fmId, fmLock>>

fmNext ==
    \/ \E lists \in SUBSET FmLists : ConfigureFilters(lists)
    \/ fmStop \/ fmNewResolver \/ FilterStart
    \/ \E u \in 1..FmUpdates :
         \/ installLock(u) \/ installWrite(u) \/ installPublish(u) \/ installGive(u)
         \/ updateEnds(u) \/ \E r \in 1..FmResolvers : Trigger(u, r)
         \/ \E l \in FmLists : FetchFilteringSource(u, l)

-----------------------------------------------------------------------------
\* What blocks queries is what the files hold for the selected lists: neither
\* a list of an older configuration nor the last of two downloads at once
\* leaves a matcher that a restart would not build again.
MatcherIsOnDisk == fmLock = 0 => fmMatch = built(fmCfg, fmDisk)

\* A resolver that runs uses the current matcher, though downloads outlive the
\* resolver they were started for.
ResolverIsCurrent ==
    fmLock = 0 /\ ~fmPending /\ fmStarted = fmNow /\ fmNow \notin fmDead => fmGiven[fmNow] = fmMatch

\* The mark of a download under way belongs to one that will take it off, and
\* a cancelled one does not take off the mark of its successor.
UpdatingIsOwned ==
    fmUpdating <=> \E u \in 1..FmUpdates : fmUp[u].id = fmId /\ fmUp[u].at \notin {"none", "done"}

\* What blocks queries is what is on disk and selected, through overlapping downloads.
FiltersSafe == MatcherIsOnDisk /\ ResolverIsCurrent /\ UpdatingIsOwned
=============================================================================
