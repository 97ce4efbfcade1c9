----------------------------- MODULE BypassRules -----------------------------
(***************************************************************************)
(* The addresses that are taken past NFQUEUE: the panel resolves a list of *)
(* domains into a cache, and a shell helper turns the cache into an ipset  *)
(* and one firewall chain.  The helper is run by the panel and by the      *)
(* hooks that follow every rebuild of the firewall, so two of them may     *)
(* overlap; any command of it may fail, a signal may end it, and the       *)
(* rebuild itself takes the jumps to the chain away.                       *)
(***************************************************************************)
EXTENDS Naturals

CONSTANTS
    ByEdits,     \* bound on saves of the domain list, each a new version of it
    ByFaults,    \* bound on failed commands, signals and kills
    ByRebuilds   \* bound on rebuilds of the firewall, restarts and updates of the engine

ASSUME ByAssumption == ByEdits \in Nat \ {0} /\ ByFaults \in Nat /\ ByRebuilds \in Nat

VARIABLES
    byList,    \* version of the domain list
    byCache,   \* version the resolved cache was made from (0: no cache), and whether it is younger than the list
    byHooked,  \* hooks in place: in the firewall, in the init script of the engine
    byFw,      \* the jumps, what the chain matches, the live set and the staged one
    byLock,    \* who made the lock directory
    byRun,     \* the helper as run by the panel and by a hook
    byDue,     \* a hook has to run
    byPanel,   \* where the panel is, and the version it resolved
    byFault, byRebuild

byVars == <<byList, byCache, byHooked, byFw, byLock, byRun, byDue, byPanel, byFault, byRebuild>>

byHelpers == {"panel", "hook"}
\* Contents of a set or chain are versions of the list; 0 is an empty one.
byNone == ByEdits + 2      \* no such set or chain
byPart == ByEdits + 3      \* filled in part
byBySet == ByEdits + 4     \* the chain matches the live set

byIdle == [at |-> "idle", read |-> 0, sets |-> FALSE, swapped |-> FALSE, staged |-> FALSE, jump |-> FALSE,
           ok |-> TRUE, before |-> byNone]
byNoPanel == [at |-> "idle", read |-> 0, chains |-> FALSE]

byInit ==
    /\ byList = 1 /\ byCache = [v |-> 0, young |-> FALSE] /\ byHooked = [fw |-> FALSE, init |-> FALSE]
    /\ byFw = [jump |-> FALSE, chain |-> byNone, live |-> byNone, stage |-> byNone]
    /\ byLock = "free" /\ byRun = [p \in byHelpers |-> byIdle] /\ byDue = FALSE /\ byPanel = byNoPanel
    /\ byFault = 0 /\ byRebuild = 0

byFails == byFault < ByFaults /\ byFault' = byFault + 1
\* What the chain lets past the queue.
content == IF byFw.chain = byBySet THEN byFw.live ELSE byFw.chain

-----------------------------------------------------------------------------
\* The helper.  byTo moves it on; byFail is a command that fails, a signal included.
byTo(p, at) == byRun' = [byRun EXCEPT ![p].at = at]
byFail(p) == byFails /\ byRun' = [byRun EXCEPT ![p].at = "clean", ![p].ok = FALSE]
byHelper(p, at) == byRun[p].at = at /\ UNCHANGED <<byList, byCache, byHooked, byDue, byPanel, byRebuild>>

\* mkdir takes the lock, or nobody does: ten attempts, then busy.
lockable == byLock = "free"
byTakeLock(p) ==
    /\ byHelper(p, "lock")
    /\ \/ /\ lockable /\ byLock' = p /\ byRun' = [byRun EXCEPT ![p].at = "read", ![p].before = content] /\ UNCHANGED byFault
       \/ /\ ~lockable /\ byFails /\ byRun' = [byRun EXCEPT ![p] = [byIdle EXCEPT !.ok = FALSE]] /\ UNCHANGED byLock
    /\ UNCHANGED byFw
\* The addresses are read under the lock.
addresses_Started(p) == byRun[p].read
addresses(p) == byCache.v
byRead(p) ==
    /\ byHelper(p, "read")
    /\ \/ byRun' = [byRun EXCEPT ![p].at = "stage", ![p].read = addresses(p)] /\ UNCHANGED byFault
       \/ byFail(p)
    /\ UNCHANGED <<byFw, byLock>>
\* A new set is made and the kernel asked whether a rule can match it; otherwise there will be plain rules.
byStage(p) ==
    /\ byHelper(p, "stage")
    /\ \/ /\ byFw' = [byFw EXCEPT !.stage = 0] /\ UNCHANGED byFault
          /\ \E sets \in BOOLEAN : byRun' = [byRun EXCEPT ![p].at = "fill", ![p].staged = TRUE, ![p].sets = sets]
       \/ byFw' = [byFw EXCEPT !.stage = byNone] /\ byTo(p, "fill") /\ UNCHANGED byFault
       \/ byFail(p) /\ UNCHANGED byFw
    /\ UNCHANGED byLock
filled(fw, c) == [fw EXCEPT !.stage = c]
byFill(p) ==
    /\ byHelper(p, "fill")
    /\ \/ /\ byRun[p].sets /\ byTo(p, "live") /\ byFw' = filled(byFw, byRun[p].read) /\ UNCHANGED byFault
       \/ /\ byRun[p].sets /\ byFail(p) /\ byFw' = filled(byFw, byPart)
       \/ /\ ~byRun[p].sets /\ byTo(p, "jump") /\ UNCHANGED <<byFw, byFault>>
    /\ UNCHANGED byLock
\* The set the rules name exists before they are committed.
byLive(p) ==
    /\ byHelper(p, "live")
    /\ \/ /\ byFw' = [byFw EXCEPT !.live = IF @ = byNone THEN 0 ELSE @] /\ byTo(p, "jump") /\ UNCHANGED byFault
       \/ byFail(p) /\ UNCHANGED byFw
    /\ UNCHANGED byLock
byJump(p) ==
    /\ byHelper(p, "jump")
    /\ byRun' = [byRun EXCEPT ![p].at = IF byRun[p].sets THEN "swap" ELSE "commit", ![p].jump = byFw.jump]
    /\ UNCHANGED <<byFw, byLock, byFault>>
\* From here to the commit a signal is only noted and looked at between the two.
swapNoted(p) == TRUE
bySwap(p) ==
    /\ byHelper(p, "swap")
    /\ \/ /\ byFw' = [byFw EXCEPT !.live = byFw.stage, !.stage = byFw.live] /\ UNCHANGED byFault
          /\ byRun' = [byRun EXCEPT ![p].at = "commit", ![p].swapped = swapNoted(p)]
       \/ byFail(p) /\ UNCHANGED byFw
    /\ UNCHANGED byLock
byCommitted(fw, p) == [fw EXCEPT !.chain = IF byRun[p].sets THEN byBySet ELSE byRun[p].read, !.jump = @ \/ ~byRun[p].jump]
byCommit(p) ==
    /\ byHelper(p, "commit")
    /\ \/ /\ byFw' = byCommitted(byFw, p) /\ UNCHANGED byFault
          /\ byRun' = [byRun EXCEPT ![p].at = IF byRun[p].sets THEN "clean" ELSE "unused", ![p].swapped = FALSE]
       \/ byFail(p) /\ UNCHANGED byFw
       \/ /\ byFails /\ byFw' = byCommitted(byFw, p)
          /\ byRun' = [byRun EXCEPT ![p].at = "clean", ![p].swapped = FALSE, ![p].ok = FALSE, ![p].before = byRun[p].read]
    /\ UNCHANGED byLock
byUnused(p) ==
    /\ byHelper(p, "unused") /\ byFw' = [byFw EXCEPT !.live = byNone] /\ byTo(p, "clean")
    /\ UNCHANGED <<byLock, byFault>>
\* The exit trap, whatever ended the helper.  If the set cannot be swapped back, the old one is kept.
byClean(p) ==
    /\ byHelper(p, "clean")
    /\ \/ /\ byRun[p].swapped
          /\ \/ byFw' = [byFw EXCEPT !.live = byFw.stage, !.stage = byFw.live] /\ UNCHANGED byFault
                /\ byRun' = [byRun EXCEPT ![p].swapped = FALSE]
             \/ byFails /\ byRun' = [byRun EXCEPT ![p].swapped = FALSE, ![p].staged = FALSE, ![p].before = content] /\ UNCHANGED byFw
          /\ UNCHANGED byLock
       \/ /\ ~byRun[p].swapped /\ UNCHANGED byFault
          /\ byFw' = [byFw EXCEPT !.stage = IF byRun[p].staged THEN byNone ELSE @]
          /\ byTo(p, "done") /\ byLock' = "free"
\* Killed outright: nothing is cleaned up, the lock stays until the router starts anew.
byKill(p) ==
    /\ byRun[p].at \notin {"idle", "lock", "done"} /\ byFails
    /\ byRun' = [byRun EXCEPT ![p] = [byIdle EXCEPT !.ok = FALSE]] /\ byLock' = "stale"
    /\ UNCHANGED <<byList, byCache, byHooked, byFw, byDue, byPanel, byRebuild>>

\* A hook runs the helper once for every rebuild.
byHookStarts ==
    /\ byDue /\ byRun["hook"].at = "idle" /\ byDue' = FALSE
    /\ byRun' = [byRun EXCEPT !["hook"] = [byIdle EXCEPT !.at = "lock", !.read = byCache.v]]
    /\ UNCHANGED <<byList, byCache, byHooked, byFw, byLock, byPanel, byFault, byRebuild>>
byHookEnds ==
    /\ byRun["hook"].at = "done" /\ byRun' = [byRun EXCEPT !["hook"] = byIdle]
    /\ UNCHANGED <<byList, byCache, byHooked, byFw, byLock, byDue, byPanel, byFault, byRebuild>>

-----------------------------------------------------------------------------
\* The firewall is rebuilt: by the platform, or by the engine as it starts.  The hook of whoever did it follows.
byRebuilt(hook) == byFw' = [byFw EXCEPT !.jump = FALSE] /\ byDue' = (byDue \/ hook)
byReload ==
    /\ byRebuild < ByRebuilds /\ byRebuild' = byRebuild + 1 /\ \E h \in {"fw", "init"} : byRebuilt(byHooked[h])
    /\ UNCHANGED <<byList, byCache, byHooked, byLock, byRun, byPanel, byFault>>
\* An update replaces the init script and starts the engine; the panel puts the bypass back when there is one.
byApplying == [at |-> "resolve", read |-> 0, chains |-> TRUE]
reapplies == byCache.v # 0 \/ byList # 0
Update ==
    /\ byPanel.at = "idle" /\ byRebuild < ByRebuilds /\ byRebuild' = byRebuild + 1
    /\ byHooked' = [byHooked EXCEPT !.init = FALSE] /\ byRebuilt(FALSE)
    /\ byPanel' = IF reapplies THEN byApplying ELSE byPanel
    /\ UNCHANGED <<byList, byCache, byLock, byRun, byFault>>
\* The router starts anew: no rules, no sets, no lock, no helper; its hooks run and the panel restores.
byReboot ==
    /\ byRebuild < ByRebuilds /\ byRebuild' = byRebuild + 1
    /\ byFw' = [jump |-> FALSE, chain |-> byNone, live |-> byNone, stage |-> byNone]
    /\ byLock' = "free" /\ byRun' = [p \in byHelpers |-> byIdle] /\ byDue' = (byHooked.fw \/ byHooked.init)
    /\ byPanel' = [byNoPanel EXCEPT !.at = "restore"]
    /\ UNCHANGED <<byList, byCache, byHooked, byFault>>

byPanelAt(at) == byPanel.at = at /\ UNCHANGED <<byLock, byRebuild>>
bySaveList ==
    /\ byList < ByEdits /\ byList' = byList + 1 /\ byCache' = [byCache EXCEPT !.young = FALSE]
    /\ UNCHANGED <<byHooked, byFw, byLock, byRun, byDue, byPanel, byFault, byRebuild>>
ApplyBypass ==
    /\ byPanelAt("idle") /\ byPanel' = byApplying
    /\ UNCHANGED <<byList, byCache, byHooked, byFw, byRun, byDue, byFault>>
\* A cache that is younger than the list is used as it is; the chains are rebuilt if the interfaces were repaired.
reusable == byCache.v # 0 /\ byCache.young
PrepareWANInterfaces == BOOLEAN
RestoreBypass ==
    /\ byPanelAt("restore")
    /\ \E changed \in PrepareWANInterfaces : byPanel' = IF reusable THEN [at |-> "hooks", read |-> 0, chains |-> changed] ELSE byApplying
    /\ UNCHANGED <<byList, byCache, byHooked, byFw, byRun, byDue, byFault>>
\* The list is read; none of the domains may resolve, then nothing is changed.
byResolve ==
    /\ byPanelAt("resolve")
    /\ \/ byPanel' = [byPanel EXCEPT !.at = "cache", !.read = byList] /\ UNCHANGED byFault
       \/ byFails /\ byPanel' = byNoPanel
    /\ UNCHANGED <<byList, byCache, byHooked, byFw, byRun, byDue>>
writeBypassResolved ==
    /\ byPanelAt("cache")
    /\ \/ byCache' = [v |-> byPanel.read, young |-> TRUE] /\ byPanel' = [byPanel EXCEPT !.at = "hooks"] /\ UNCHANGED byFault
       \/ byFails /\ byPanel' = byNoPanel /\ UNCHANGED byCache
    /\ UNCHANGED <<byList, byHooked, byFw, byRun, byDue>>
ensureBypassPersistence ==
    /\ byPanelAt("hooks")
    /\ \/ byHooked' = [byHooked EXCEPT !.fw = TRUE] /\ byPanel' = [byPanel EXCEPT !.at = "init"] /\ UNCHANGED byFault
       \/ byFails /\ byPanel' = byNoPanel /\ UNCHANGED byHooked
    /\ UNCHANGED <<byList, byCache, byFw, byRun, byDue>>
ensureBypassInitHook ==
    /\ byPanelAt("init")
    /\ \/ /\ byHooked' = [byHooked EXCEPT !.init = TRUE] /\ UNCHANGED byFault
          /\ byPanel' = [byPanel EXCEPT !.at = IF byPanel.chains THEN "chains" ELSE "helper"]
       \/ byFails /\ byPanel' = byNoPanel /\ UNCHANGED byHooked
    /\ UNCHANGED <<byList, byCache, byFw, byRun, byDue>>
\* The init script rebuilds its chains, then the helper runs.
byChains ==
    /\ byPanelAt("chains")
    /\ \/ byFw' = [byFw EXCEPT !.jump = FALSE] /\ byPanel' = [byPanel EXCEPT !.at = "helper"] /\ UNCHANGED byFault
       \/ byFails /\ byPanel' = byNoPanel /\ UNCHANGED byFw
    /\ UNCHANGED <<byList, byCache, byHooked, byRun, byDue>>
byPanelHelper ==
    /\ byPanelAt("helper") /\ byRun["panel"].at = "idle"
    /\ byRun' = [byRun EXCEPT !["panel"] = [byIdle EXCEPT !.at = "lock", !.read = byCache.v]]
    /\ byPanel' = [byPanel EXCEPT !.at = "waits"]
    /\ UNCHANGED <<byList, byCache, byHooked, byFw, byDue, byFault>>
byPanelEnds ==
    /\ byPanelAt("waits") /\ byRun["panel"].at \in {"idle", "done"}
    /\ byPanel' = byNoPanel /\ byRun' = [byRun EXCEPT !["panel"] = byIdle]
    /\ UNCHANGED <<byList, byCache, byHooked, byFw, byDue, byFault>>

byNext ==
    \/ \E p \in byHelpers : byTakeLock(p) \/ byRead(p) \/ byStage(p) \/ byFill(p) \/ byLive(p) \/ byJump(p) \/ bySwap(p)
                            \/ byCommit(p) \/ byUnused(p) \/ byClean(p) \/ byKill(p)
    \/ byHookStarts \/ byHookEnds \/ byReload \/ Update \/ byReboot
    \/ bySaveList \/ ApplyBypass \/ RestoreBypass \/ byResolve \/ writeBypassResolved
    \/ ensureBypassPersistence \/ ensureBypassInitHook \/ byChains \/ byPanelHelper \/ byPanelEnds

-----------------------------------------------------------------------------
byInside(p) == byRun[p].at \notin {"idle", "lock", "done"}

\* Two helpers never work on the sets and the chain at once, also after one was killed and left its lock.
OneHelper == \A p, q \in byHelpers : byInside(p) /\ byInside(q) => p = q

\* What traffic is matched against is always a whole list, never an empty or half filled set, whichever command
\* failed and wherever a helper was ended.
PolicyIsWhole == byFw.chain # byNone => content \in 1..ByEdits

\* A helper that fails leaves the addresses that were let past before it, unless the set could not be swapped back.
FailedKeepsPolicy ==
    [][\A p \in byHelpers : byRun[p].at = "clean" /\ byRun'[p].at = "done" /\ ~byRun[p].ok => content' = byRun[p].before]_byVars

\* The addresses never go back to an older list, unless a failing helper takes its own back.
NoOlderPolicy ==
    [][byFw.chain # byNone /\ byFw'.chain # byNone /\ content' < content
        => \E p \in byHelpers : byRun[p].at = "clean" /\ ~byRun[p].ok]_byVars

\* As long as no command failed, an engine or firewall that was rebuilt has its bypass again once the hooks and
\* the panel are through, and with the addresses of the cache.
BypassComesBack ==
    byFault = 0 /\ byCache.v # 0 /\ ~byDue /\ byPanel.at = "idle" /\ (\A p \in byHelpers : byRun[p].at = "idle")
        => byFw.jump /\ content = byCache.v

\* The bypass is one whole policy at a time, never an older one, and comes back after a rebuild.
BypassSafe == [](OneHelper /\ PolicyIsWhole /\ BypassComesBack) /\ NoOlderPolicy /\ FailedKeepsPolicy
=============================================================================
