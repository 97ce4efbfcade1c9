# Verification of the NFQWS2 strategy selector

TLA+ models of the concurrent and crash-exposed parts of the panel that runs on
the router (`src/cmd/nfqws2-strategy`, `src/internal`), TLC configurations that
check them on small instances, and TLAPS proofs for any number of processes.

    tlc -workers 2 -config MCAwg.cfg MCAwg
    tlapm ServiceControlProofs.tla

`PROJECT.json` lists the runs, the source lines behind every definition, the
mutants that show each property can fail, the hazards and the findings.

## 1. The system

The panel is one Go process with an embedded web interface. HTTP handlers call
into `internal/app` (strategy testing and control of the NFQWS2 engine) and into
`internal/services/*`. Almost every service keeps three kinds of state: a JSON
file, a copy in memory under a mutex, and effects in the router (processes,
iptables chains, ip sets, routing tables, UCI options). The hard behaviours come
from there: the three are changed in several steps, by several goroutines, with
commands that may fail half way, and the process may be killed between any two.

| Component | State | Operations | Talks to | What makes it correct | Module |
|---|---|---|---|---|---|
| Engine control, watchdog, automatic pick (`app/nfqws2_service_control.go`, `automation.go`, `services.go`) | `automation.json` and its copy, `serviceMu`, `serviceNeedsStop`, hysteresis, `pickRunning`; engine and NFQUEUE rules | start, stop, restart, firewall apply, package update, settings, watchdog tick, picks | scripts, strategy runs | OFF is durable and only an explicit start clears it; failed clean-ups are retried; picks exclude each other | `ServiceControl` |
| Strategy runs and block checks (`app/run.go`, `blockcheck.go`, `engine/sandbox.go`) | `active`, `activeBC`, `addWorker`, `pendingThreads`, runs on disk; sandboxes | start, cancel, raise threads, workers, merge, shutdown, boot clean-up | main engine | sandboxes never shared or left behind; a done run is complete; every job ends | `StrategyRun` |
| DNS policy gate and learning (`awgroute/dns_policy_gate.go`, `dns_learn_linux.go`, `dns_service.go`) | generation, applying, readers, write epoch, memo, writer slot; ip sets | begin/finish of an apply, acquire/verify/release of a learner | DNS server, routing | applies exclude learners; addresses installed before the reply; no write for an old policy | `DnsPolicyGate`, `SharedSets` |
| Routing lifecycle (`awgroute/routing_linux.go`, `client.go`) | operations lock, applied/confirmed flags, rule families, refresh loops, dead-man switch | apply, confirm, edit, teardown, refresh, restore, shutdown | multi policy, supervisor | rules have an owner; teardown does not wait for itself | `RoutingLifecycle` |
| Multi policy (`awgroute/multi_policy_linux.go`, `multi_maintenance_linux.go`, `multi_refresh_sets.go`) | a set per rule, a table, mark and slot per tunnel, chain, learner | apply, rewrite in place, refresh, audit, repair | gate, failover | learned addresses survive; packets reach their own tunnel | `MultiPolicySets` |
| Client supervisor and failover (`awgroute/client_watchdog*.go`, `failover.go`) | health of each tunnel, deadlines, chosen reserves | observe, probe, recreate, wake, sleep, switch | multi policy | leaves and returns only with proof; a reserve in use is not put to sleep | `ClientFailover` |
| Client engine (`awgroute/client_linux.go`, `connection_check.go`, `warp_endpoint_linux.go`) | binary, version file, daemon, interface, UAPI state | install, connect, probe, WARP scan, test, reconnect | release server, kernel | no half-installed engine; one profile per daemon; what was changed for a probe is put back | `ClientEngine` |
| Connections and rules (`awgroute/awgroute.go`, `pending_rules.go`, `delete_replacement.go`) | connections, rules, references of deleted connections | add, select, delete, replace, copy, save | configuration file | no rule lost, served by, or attached to a wrong connection | `RuleOwnership` |
| Discovered names (`awgroute/routing_discoveries.go`, `routing_learned.go`) | history in memory and on disk, compiled scopes, delayed save | observe, confirm, evict, save, restore | gate, backup | what is shown as routed is routed; what was learned reaches the disk | `RoutingDiscoveries` |
| DNS server (`dnsserver/service.go`, `listeners.go`) | configuration, current run, supervisor; listeners and slots | configure, start, stop, restart, serve, close | binding, resolver, adapter | the binding points to a served port; slots are given back | `DnsServer` |
| Resolver (`dnsserver/resolver*.go`) | cache, generation, flights, waiter counts | resolve, clear, close | scheduler | an operation belongs to its waiters; nothing older than a clear is served | `ResolverFlights` |
| Scheduler and probes (`dnsserver/scheduler.go`, `scheduler_probe.go`, `methods.go`) | slots, measured pairs, probe lease | race, cancel, disable, probe | upstreams | slots balance; a loser is not blamed; a disabled pair does not answer | `DnsRace` |
| Filters, fast DNS (`dnsserver/filter_manager.go`, `filter_fetch.go`, `fast_dns.go`) | lists, matcher, downloads; provider addresses, flights | download, install, configure; look up, evict, disable | resolver | a resolver filters by what is on disk; each waiter is woken once | `DnsFilters`, `FastDns` |
| Shadow resolver (`dnsserver/shadow_*.go`) | outage, retry time, probe mark, generation | ask, fail, recover, renew | provider DNS | one probe; only evidence newer than the outage ends it | `ShadowFallback` |
| Routed sockets (`dnsroute/adapter.go`, `adapter_linux.go`) | hook, rules, tables, connections, repair goroutine | prepare, dial, repair, close | kernel | what a stop leaves is known; a socket has its route | `DnsAdapter` |
| Provider DNS (`dnsroute/shadow*.go`) | leases in memory, file, cache; transactions; attempts | passes, passive reader, INFORM, renewal | firmware, DHCP | no lease outlived, rolled back or mixed up | `ProviderLeases`, `DhcpTracker`, `ProviderInform`, `ProviderRenew` |
| dnsmasq binding (`openwrtdns/*`) | snapshot file, UCI values, reloaded services | Apply, Restore, rollback | `uci` | the user's values are never lost | `DnsBinding` |
| Telegram proxy (`services/tgws`) | listener, clients, warm pool, HTTP/2 lanes and channels | start, stop, restart, dial, lend, refill, rotate, replay | Telegram | a stop ends everything; a socket is lent once; bytes balance | `TgProxy`, `WsPool`, `H2Lanes`, `H2Channel` |
| SOCKS front (`tgws/socks5*.go`) | listener, run, connections | start, stop, configure, relay | | running means served | `SocksLifecycle` |
| NFQWS2 files (`services/nfqws2`) | services, `nfqws2.conf`, lists, snapshots | compile, edit, import, roll back, restart | engine | the configuration has its lists; a failure restores | `StrategyFiles` |
| NFQUEUE bypass (`nfqws2/bypass_resolve.go`, `bypass_script.go`) | domain list, cache, set, chain | resolve, apply, hooks, rebuild | firewall | one helper; the policy is whole or absent | `BypassRules` |
| ARP tools (`services/arpspoof`, `arpblock`) | journal of original addresses; isolation of a segment | change, undo, refresh; change, verify, save, undo | kernel, firmware | originals are kept; an answer is true | `MacSpoof`, `ArpIsolation` |
| Panel port, self update, port forwarding (`server/panel_listener.go`, `app/selfupdate.go`, `services/portforward`) | servers, settings; executable; rules, hook | change port; update; add, delete | platform | the panel stays reachable; the executable whole; the firewall follows the rules once a script has run well | `PanelPort`, `SelfUpdate`, `PortForward` |
| Rule portability, expansion, tracing; server import and provisioning; cache lifetimes; store, backup, geo data; HTTP server; frontend | files, views | sequential | | | not modelled (section 6) |

Interactions that cross components and are modelled: the automatic pick starts a
strategy run and restarts the engine under `serviceMu`; a restart of the main
service disturbs the sandboxes of a run (`StrategyRun!Disturb`); a routing apply
shuts the gate that DNS answers pass (`DnsPolicyGate!Replace`); an apply of the
routing runs the clean-up of the multi policy, which stops the legacy loop and its
switch (`RoutingLifecycle`); failover rewrites the multi policy in place
(`MultiPolicySets`); the DNS server binds and unbinds dnsmasq, which outlives the
process (`DnsServer`); the engine's restart reads the files the panel is writing
(`StrategyFiles`); the platform's firewall rebuild runs the panel's hooks beside
the panel (`BypassRules`, `PortForward`).

## 2. Modules

Throughout, one TLA+ step is one critical section of the Go mutex involved, or one
piece of work outside it (a command, a probe, a file write). A failed command is a
nondeterministic choice over everything it may have done. An operation that holds
a lock over several steps is a sequence of steps still to do, or a label. Time is
abstract except where deadlines matter (`ClientFailover`, the provider modules),
where a bounded clock stands for it. Every bound is a constant whose name says what
it bounds; variables carry a two-letter prefix per module, so that modules can be
composed without renaming.

A definition directly before the one it varies, used in no specification, is a
mutant: the same step with a plausible bug. `PROJECT.json` says which property each
of them breaks.

`ServiceControl`, `DnsPolicyGate` and `StrategyRun` are checked as they are, with symmetry. The
others are composed:

| Composition | Scopes |
|---|---|
| `MCLive` | the gate and the strategy runs under fairness |
| `MCAwg` | routing, client supervisor, multi policy, client engine, rules, discovered names |
| `MCServices` | Telegram proxy, pool, lanes, channels, SOCKS, the four provider modules |
| `MCDns` | server, listeners, race, fallback, fast DNS, filters, adapter, flights |
| `MCPanel` | strategy files, bypass, panel port, self update, port forwarding, cloned addresses, isolation, dnsmasq binding |

A composition instantiates the modules of one area of the program. A behaviour
belongs to one of them (`scope`, chosen initially), and the others stay where they
start: the modules share no variable, so their interleavings would say nothing. What
one component does to another is an action of the module it happens to.

### ServiceControl

`disk` and `mem` are the two copies of `AutomationState`; `serviceMu` names its
holder; `pc` has a label per handler, watchdog and pick goroutine; `wasOff`,
`needsStop`, `streak`, `sample`, `pickRunning`, `reason` are the variables of the
same names; `conf` says who wrote the engine's arguments last; `running` and `rules`
are the engine in the router; `foreign` is history (the engine was last touched from
outside). The handlers are split where `serviceMu` is held across a script;
`CheckBootOff` ... `PeriodicPick` are `automationLoop` and `automationStep` in order;
`BeginPick` ... `RecordPick` are `runAutoPick`. `persistNfqws2ManualOff` either
saves and publishes or changes nothing; saves whose error the code ignores may be
lost. The consecutive-sample counter saturates at `confirmTicks`.

### DnsPolicyGate and SharedSets

The fields of `routingDNSGate` under their names; `sleeping` holds the goroutines
blocked on `g.changed`; `snap` is the generation the installed learner was built for;
`kernel` the addresses in the sets; per query its address and the versions it noted.
`Begin*`, `Drain*`, `Finish` are `begin` and its closing function, `Replace` the apply
in between; `Acquire*` ... `Check` follow one answer through `ObserveDNSAnswer`,
`confirmRoutingDNSLearning` and `awgIPSetLearnWith`. Callers may give up wherever
their context is consulted. `SharedSets` is what the gate promises: the sets may be
extended by any number of answers together, one address at a time, and shrunk by one
apply alone; `SetsAreShared` is the refinement (users of the sets are the queries
between acquire and release, the owner is the apply that drained them).

### StrategyRun

`active`, `activeBC`, `addWorker`, `pending` of `App`; per job the record, the
cancelled context, the label of `executeRun`/`executeBlockCheck`, the locals of the
pool and one goroutine per slot; `adder` are calls of the `addWorker` closure; `rules`,
`broken`, `engines` are the sandboxes in the router; `saved` and `list` are on disk;
`tainted` is history. Bringing a sandbox up and taking it down are one step each: it is
half built only inside them, and their failure undoes them. A job that is not on disk
when the process ends is forgotten.

### Routing

`RoutingLifecycle`: the operations lock, a list of steps for its owner, the two refresh
goroutines (stopping means a closed channel and a wait for the goroutine, which itself
only tries the lock), the switch, one value per rule family (none, partial, full).
`MultiPolicySets`: two connections and two rules; kernel sets tagged with the edition
of the list they come from, slots and marks, the chain, staging sets of a refresh, the
learner. `ClientFailover`: per server the interface, its handshake age, failures and
deadlines as ages; the passes of the supervisor and the configuration edits. `ClientEngine`:
the step of the operation under way and the candidates a scan has left, the engine file and its
download, the saved profile, the daemon with what it was told. `RuleOwnership`: connections, rules, references, in memory and
in the file; a save fails before or after the rename. `RoutingDiscoveries`: the history and
its revision, the compiled scopes, observers between the gate and the lock, the timer,
the save under way and the file.

### DNS

`DnsServer`: configuration in memory and on disk, the run with listeners, resolver and
firewall, the retry of the supervisor, the binding; its second part UDP goroutines, TCP
connections, three kinds of slots, `Close` of the listeners. `dsEdited` remembers what an
outside edit allows; `Drained` is the wait of a stop for its queries. `ResolverFlights`: cache entries with the
generation they were asked in, flights with waiters, per caller its question and flight.
`DnsRace`: dispatcher, workers, the answer, the disabled pairs, the table and the probe
lease. `DnsFilters`, `FastDns`, `ShadowFallback`, `DnsAdapter`: as their head comments
say. `ProviderLeases` keeps the lease in memory, file and cache against the router's two
clocks; `DhcpTracker` the transactions and the messages in flight; `ProviderInform` the
attempts; `ProviderRenew` the run and reader a renewal was asked in, its check and its
command as two steps, as commands of seconds lie between them (`pnSeen`: the WANs that had the
route meanwhile). `DnsAdapter` has each command of a clean-up as a step that may fail with or
without a report (`daErr`, `daSkipped`); `daTorn` remembers one that deleted the rule of a
table it did not empty. `DnsBinding`: committed and
staged UCI values, what the services loaded, the snapshot, the operation under way;
`original` and `touched` are history. Of the four managed options the two lists are
kept; the two scalars are written the same way.

### Proxies, files, ARP tools, panel

`TgProxy`: the manager's fields, accept loop, clients on their routes, the two
goroutines of a bridge. `WsPool`: one bucket with idle, lent, dialling and probed sockets.
`H2Lanes`: lanes of one host, the shared preflight, retirement. `H2Channel`: packets from
upload to acknowledged reply, room per channel and lane, history for replays.
`SocksLifecycle`: calls of two callers step by step. `StrategyFiles`: services, block of the
configuration, lists, snapshots, restart pending, what the engine read. `BypassRules`: panel
and helper processes with lock, staging set and trap. `MacSpoof`: addresses now, the journal,
what was applied, the job. `ArpIsolation`: the segment, running and saved configuration, the
cached view, the operation. `PanelPort`, `SelfUpdate`, `PortForward`: the three copies of a
setting and the steps between them. The scripts of `PortForward` run command by command, for the
panel, the platform or a panel that died; a command that fails is passed over, a script can be
killed, and one that is read from the hook goes on with what the hook is overwritten with. What was
written to disk is taken as durable in `SelfUpdate`, although the code does not sync it
before the rename; in `MacSpoof` a bridge that is made anew has its own address.

## 3. Runs

| Run | Instance | Shows |
|---|---|---|
| `service_control` | 1 client, 2 picks, watchdog, 1 crash | `OffIsDurable`, `EngineExclusive`, `OnePick`, `OffKept`, `PickRespectsOff` |
| `service_live` | 1 client, no pick, 1 crash, fair | `EngineSettles` |
| `gate` | 2 answers, 2 addresses, 2 appliers, 2 applies | `Barrier`, `MemoSound`, `InstalledBeforeReply`, `NoObsoleteWrite`, `AnswerUnderPolicy`, `SetsAreShared` |
| `strategy_jobs` | 2 jobs (with baseline, block check), 2 threads, 1 late raise, 1 fault: outside restart, crash or shutdown | `SandboxSafe`, `JobRecord`, `IsolatedSuccess` |
| `live` | 1 answer after another, 2 appliers, 3 applies; 1 job of any kind, plan of 2, 1 restart or shutdown; fair | `GateEnds`, `JobEnds` |
| `awg` | see `MCAwg.cfg` | `RoutingSafe`, `ClientSafe`, `FailoverKept`, `LearningSafe`, `RulesSafe` |
| `services` | see `MCServices.cfg` | `PoolSafe`, `ProxySafe`, `LanesSafe`, `SocksSafe`, `ChannelSafe`, `ProviderSafe` |
| `dns` | see `MCDns.cfg` | `LocalAnswersSafe`, `DnsServiceSafe`, `RaceSafe`, `FallbackSafe`, `AdapterSafe`, `FlightsSafe` |
| `panel` | see `MCPanel.cfg` | `FilesSafe`, `BypassSafe`, `PanelSafe`, `BindingSafe`, `AddressesSafe`, `IsolationSafe` |
| `binding_power_loss` | binding alone, 1 crash, 1 power loss | `Recoverable` is violated (finding 1) |
| `routing_unconfirmed` | routing alone | `UnconfirmedIsWatched` is violated (finding 2) |
| `tgws_stop` | Telegram proxy alone | `StopShutsListener` is violated (finding 3) |

Most of these are conjunctions; the parts, each with its own comment in the module:

| Property | Parts |
|---|---|
| `EngineExclusive` | types; `CriticalSections` (each section acts on the OFF it read); `LeftoversRemembered` |
| `OffKept` | `OnlyStartClearsOff`, `OffRespected` |
| `EngineSettles` | `OffHonoured`, `CleanupRetried`, `EngineKeptOn` |
| `SandboxSafe`, `JobRecord` | types, `IdleIsClean`, `SandboxOwned`; `DoneIsComplete`, `WaitIsFinal`, `RaiseNotLost` |
| `GateEnds` | `QueryEnds`, `ApplyEnds` |
| `RoutingSafe` | `LegacyOwned`, `MultiOwned` (rules in the kernel have a loop and a state that own them), `ShutdownIsFinal`, `OpsNeverStuck` |
| `FailoverKept` | `OutageKept`, `ReserveKept` |
| `ClientSafe` | `EngineWhole`, `OneProfile`, `KeepaliveRestored`, `EndpointSaved`, `NoStrayDaemon` |
| `LearningSafe` | `LearnedKept`, `NoForeignAddress`, `RightTunnel` of the sets; `ShownIsInstalled`, `UnsavedIsScheduled`, `SavedIsOnDisk`, `CountsAreExact`, `ScopeIsCurrent` of the history |
| `RulesSafe` | `RefsExact`, `RulesKept`, `NoAutoAttach`, `ServedKept` |
| `AddressesSafe` | `AddressJournalled`, `UnselectedIsRestored`, `FailedIsUndone`, `RefreshGoesOn` |
| `IsolationSafe` | `AnswerIsTrue`, `RefusedIsUntouched`, `CacheKnowsCommands` |
| `PoolSafe` | `PoolBounded`, `LentIsExclusive`, `NoSocketLeak`, `WaitIsAnswered`, `StoppedStaysEmpty` |
| `ProxySafe` | `ProxyStopped`, `ClientsDropped`, `ConnectingOwned` |
| `LanesSafe`, `ChannelSafe` | `LanesClosed`, `ChannelsOnLiveLane`, `WaitersServed`, `ActiveIsListed`; `BytesBalanced`, `NoLostWakeup`, `ReplaysBounded`, `RetiredIsReplayable` |
| `SocksSafe` | `RunningIsServed`, `NothingLeftOver`, `SocksClientsDropped` |
| `ProviderSafe` | leases: `WithinGrant`, `CacheWithinLease`, `ReplyNotMasked`, `NewestWins`, `ReaderOwned`; tracker: `LeaseFromRequest`, `NoLeaseRollback`; INFORM: `OneExchange`, `AnswerIsLive`, `AttemptsApart`, `PeerNotReplayed`; renewal: `RenewedInItsRun`, `RenewedOnce` |
| `DnsServiceSafe` | server: `BindingServed`, `StatsOfCurrent`, `RunIsWhole`, `NoForeignStop`; listeners: `DnsSlotsBalanced`, `SweptIsClosed`, `ClosedIsQuiet` |
| `RaceSafe` | `AttemptSlotsBalanced`, `DisabledNeverAnswers`, `CanceledIsNeutral`, `ProbedIsTracked`, `LeaseIsHeld`, `FailsOnlyWhenAllFailed` |
| `FallbackSafe` | `ProbeIsOwned`, `OneProbe`, `RecoveryIsProven` |
| `AdapterSafe` | `StoppedIsCleaned`, `ConnsOfRun`, `JoinCanEnd`, `TableIsClaimed`, `SocketHasRoute` |
| `LocalAnswersSafe` | fast DNS: `ClosedOnce`, `WaitHasWorker`, `QueueIsWorked`; filters: `MatcherIsOnDisk`, `ResolverIsCurrent`, `UpdatingIsOwned` |
| `FlightsSafe` | `WaitersCounted`, `OwnedByWaiters`, `Deduplicated`, `CacheIsFresh`, `AnswerIsFresh`, `Bounded`, `FlightGoesOn`, `ClosedIsFrozen` |
| `FilesSafe` | `ConfHasItsLists`, `EngineKeepsItsLists`, `RestartNotForgotten`, `FailedJobRestores`, `ImportHasSnapshot`, `PersonalListKept` |
| `BypassSafe` | `OneHelper`, `PolicyIsWhole`, `BypassComesBack`, `NoOlderPolicy`, `FailedKeepsPolicy` |
| `PanelSafe` | port: `PanelIsReachable`, `SavedIsServed`, `ShutdownClosesAll`; update: `ExeIsWhole`, `StatusFollowsJob`; forwarding: `PortsFollowRules` |
| `BindingSafe` | `OriginalKept`, `Settled`, `CrashRecoverable` |

Every module's types are a part of one of these.

Why the bounds are enough for the cases in question:

- `service_control`: one request against the watchdog and two picks gives every pair
  of contenders for `serviceMu` except two requests, which the proofs cover. One
  crash is enough to compare memory and file at every step. Modes `off`, `on` and
  `auto` meet in `service_live`.
- `gate`: a learner that waits for the writer slot, an apply waiting for both and a
  second apply behind the first all occur; the proofs cover any number. Without the
  bound on applies `generation` grows for ever.
- `strategy_jobs`: the second job is there for leftovers of the first, a late
  `AddRunThreads` and the fault. The number of jobs stays below `maxStoredRuns`. A plan
  of one with two threads has idle workers; `live` has a plan of two.
- `awg`: two servers are a primary and its reserve; four connection identities and
  three rules reach a rule whose primary and replacement were both deleted; two edits of a profile allow one
  that is cancelled and a probe after it; four sights of two names under limits of one make every eviction happen.
- `services`: four sockets for a pool of two let one be lent, one idle, one dialling and
  one discarded at once; two faults of the discovery let a crash, a cancelled pass and a change of the clock meet; three packets with room for two make a sender wait; three
  listeners are needed for a reopening during a restart; the provider clocks exceed every
  lifetime by at least one tick.
- `dns`: three pairs for two slots make the dispatcher wait; three queries are a prober, a
  bystander and a latecomer; a table for one flight makes the overflow path
  (`ResolveDirect`) happen after a clear. With one question the eviction of a second
  cache entry does not happen. Two faults of the adapter let a failing command of the clean-up and a
  crash between two of its commands meet.
- `panel`: three interfaces with one WAN and two false addresses reach a job that fails in the middle, and
  three faults a job that fails after one that could not undo all it wrote; two crashes are needed to interrupt the repetition of an interrupted binding,
  a failure besides to reach its rollback; two faults reach a rollback that fails; a second
  release appears between two attempts of a download. Two changes, two faults and one rebuild of the port forwards are
  enough for a hook that skips a command and for the platform's hook beside the panel's.

Deadlock is checked in the runs of one component. In the compositions and in `live` it
is not: operations there are finitely many, and some are rightly refused for good (after
an outside edit of the binding, for instance).

Fairness, and why the code gives it:

- `ServiceControl` (`service_live`): weak fairness of the goroutines' own steps; strong
  fairness of taking `serviceMu`, since a Go mutex hands itself to a waiter that has
  waited 1 ms; strong fairness of a script doing its work when it is retried for ever
  (otherwise `CleanupRetried` cannot hold and nothing in the panel could help). None for
  users, crashes, scans or the engine's death.
- `DnsPolicyGate` (`live`): weak fairness of a query's and an apply's steps; strong
  fairness of taking the writer slot, a channel whose senders queue in order. Commands
  end because `ipset` runs under a timeout.
- `StrategyRun` (`live`): weak fairness of the executor, the workers and the closure.
  Probes, iptables and starting a child have timeouts. None for users or faults.
- Elsewhere "it goes on" is a safety property: a goroutine that waits has somebody who
  will wake it (`WaitIsAnswered`, `NoLostWakeup`, `JoinCanEnd`, `OpsNeverStuck`,
  `FlightGoesOn`, `QueueIsWorked`).

## 4. Proofs

| Module | Theorems | Of the runs' properties |
|---|---|---|
| `ServiceControlProofs` | `TypeCorrect`, `Durability`, `EngineIsExclusive`, `OffIsKept`, `OnePickAtATime`, `PickKeepsOff` | `OffIsDurable`, `EngineExclusive`, `OffKept`, `OnePick`, `PickRespectsOff` |
| `AwgProofs` | `TypeCorrect`, `ApplyIsAlone`, `MemoIsConfirmed`, `RepliesInstalled`, `ObsoleteNeverWrites`, `AnswersUnderPolicy`, `GateIsSharing` of the gate; `ClientIsSafe`, `RoutingIsSafe` | `Barrier`, `MemoSound`, `InstalledBeforeReply`, `NoObsoleteWrite`, `AnswerUnderPolicy`, `SetsAreShared`; `ClientSafe`, `RoutingSafe` |
| `StrategyRunProofs` | `TypeCorrect`, `SandboxesAreSafe`, `RecordsAreComplete`, `SuccessIsIsolated` | `SandboxSafe`, `JobRecord`, `IsolatedSuccess` |
| `ServicesProofs` | `LanesAreSafe`, `SocksIsSafe`, `ProxyIsSafe`, `PoolIsSafe`; `LeasesAreSafe`, `TrackerIsSafe`, `InformIsSafe`, `RenewIsSafe`, `ProviderIsSafe`; `ServicesAreSafe` | `LanesSafe`, `SocksSafe`, `ProxySafe`, `PoolSafe`; `ProviderSafe` |
| `DnsServerProofs` | `DnsServiceIsSafe`, `FlightsAreSafe`, `RaceIsSafe`, `AdapterIsSafe`; `DnsIsSafe` | `DnsServiceSafe`, `FlightsSafe`, `RaceSafe`, `AdapterSafe` |
| `DnsProofs`, `ShadowFallback` | `LocalAnswersAreSafe`; `FallbackIsSafe` | `LocalAnswersSafe`; `FallbackSafe` |
| `PanelProofs` | `PanelIsSafe`, `IsolationIsSafe`, `SpoofIsSafe`, `BindingIsSafe`, `BypassIsSafe` | `PanelSafe`, `IsolationSafe`, `AddressesSafe`, `BindingSafe`, `BypassSafe` |

Every theorem holds for every value of the constants. `PanelIsSafe`, `ServicesAreSafe`,
`ProviderIsSafe`, `DnsIsSafe` and `LocalAnswersAreSafe` are about the composition that the run
checks, where a component that is not in scope stays as it is; the theorems they follow from,
and those of `AwgProofs`, are about the component alone (`MCAwg` reaches recursive operators).
Each inductive invariant was checked by TLC on the instance of the run first.

The constants are assumed to be what the code makes of them, in an `ASSUME` of the module
that declares them: counters and bounds are natural numbers, a value that stands for "none" is
not among the values (`"no hook"` is no rule, 0 is no port and no request of a renewal, `None` no job), identities of
different kinds differ, sets whose elements are counted are finite (queries of the gate, clients of a lane,
callers and questions of the resolver, its pairs and queries, workers of the address cache), there is at least one of what the code always has (a worker, a
thread, a strategy of a plan, a resolver, a port, a list for the bypass, two rows in the table of the scheduler), the WAN bridges are among the bridges, and the values
that dnsmasq had before the panel are values it may have. Nothing else is assumed, and the runs evaluate all of it.

The safety properties are seldom inductive. What the invariants add:

- `ServiceControl`: the invariants need each other and `DownIsIdle` (a dead panel has no
  goroutine and no lock). That a script ends with the override it began with is
  `CriticalSections`, which is preserved because only the holder of `serviceMu` writes
  `ManualOff` and every other writer of the file keeps it; that needs `OffIsDurable`, since a
  reboot takes memory from the file; `LeftoversRemembered` follows the flag through each stop.
  The action properties are one-step consequences: `PickKeepsOff` is the same comparison made
  for the write of a pick.
- `DnsPolicyGate`: the reader count is the number of queries between acquire and release,
  `applying` belongs to one apply from `begin` to its end, nothing is memoised meanwhile, an
  address stays in the kernel from the command to the delivery, and the learner's version is the
  one noted and the one in force unless an apply has begun. The last carries the subtle
  argument: a learner is never newer than the version `ObserveDNSAnswer` noted, and the versioned
  acquire finds it no older, so the final comparison of generations compares the learner's too.
  `GateIsSharing` follows step by step from the same invariant.
- `StrategyRun` (`IInv`): one job at a time, named by `active` or `activeBC`; a live worker has
  one of the sandboxes that were counted; every index that was fed is tested, held by one
  worker, or dropped by a cancellation, and the counter of results is behind the feeder by no more than the workers
  that hold an uncounted index; a call of the `addWorker` closure adds workers only while its job feeds.
  Completeness of a done run is what is left of this accounting once no worker lives.
  `Watched` is the invariant of isolation: a test that was disturbed finds its rules gone when it
  checks them.
- `H2Lanes` (`hlIInv`): an open lane is the one of the map, one under preflight or the one the
  close took; a lane under preflight is one client's; `openingWG` is the number of clients between the
  start and end of an opening. Hence the close, which waits for it, finds no lane afterwards.
- `SocksLifecycle` (`skIInv`): every start runs, has ended, or is under the stop that took it, as far as
  the steps of that stop say. `TgProxy` (`tpIInv`): the same along the six steps of a stop, and
  an open connection is in the set until that is closed.
- `WsPool` (`wpIInv`): a socket is in the bucket, lent or in the hands of the refill, once (`wpApart`);
  a socket under probe is in the bucket until the pool is reset (`wpProbes`); the bucket
  with all that the refill has or will dial is within the target (`wpFits`), which is why the bucket
  alone is.
- `RoutingLifecycle` (`rlIInv`): the list of steps of the owner is well formed (`rlPlan`: what stops a loop
  is followed by the wait for it and by what becomes of its rules), so a stopped loop, or
  rules without a loop, always have the step before them that looks after them (`rlLegacyKept`,
  `rlMultiKept`); a loop that ticks holds the lock (`rlTicks`), which is why an owner that
  waits for a loop never waits for itself (`OpsNeverStuck`).
- `ProviderRenew` (`pnIInv`): one request holds the guard, and until its command is given the cooldown it found
  over stays over; from the check on it holds the locks and its WAN is among those that had the route since it
  took them (`pnWatched`). `DhcpTracker` (`dtIInv`): a transaction that is open is younger than the one answered last and
  as old as its first REQUEST. `ProviderInform` (`piIInv`): the end of the last exchange is what
  the next one waits for, by the cooldown of the known server or, with none known, by that of the broadcast.
- `ProviderLeases` (`plIInv`): a lease in memory or in the file is of a reply that granted it and within that grant on
  both clocks, as long as no wall clock was set back (`plGood`, `plFiled`); of two leases of one WAN the one from
  the log is the newer (`plNamed`); a pass that has observed has in hand the reader's last reply, or a newer one (`plFound`);
  and the cache is behind no packet evidence unless the pass under way is about to replace it (`plCached`).
- `ClientEngine` (`ceIInv`): what is configured was fresh (`ceFresh`), so the fields of two profiles never mix; between
  the requests of a probe the keepalive may differ, and what is left of the probe cannot be cancelled (`ceProbing`);
  during a scan the daemon has the candidate tried last, which is what the scan will save (`ceScanned`); a
  daemon that is switched off has an operation that ends it (`ceOwned`). The proof showed that the keepalive must be
  compared with the profile of the last probe, not of the last configuration: after a cancelled
  reconnect a probe may set the one of an edit that is itself undone later.
- `FastDns` (`fdIInv`): an entry that holds a flight holds one of its own that is not over; a
  worker's flight is that of the entry it took exactly while the entry has the identity it had then; every
  flight that started is over, queued in an entry or run by a worker. So a flight that is evicted, disabled
  or answered is ended by one party only. `QueueIsWorked` is inductive with these.
- `DnsFilters` (`fmIInv`): a download of the revision in force is of selected lists; the one that installs
  holds `opMu` and is of that revision; between the write of a file and its publication the
  matcher is behind the disk, between that and the hand-over the resolver is behind the
  matcher, and at no other time; a resolver that was started is the one the
  download is for.
- `DnsServer` (`dsIInv`): the steps that the holder of `opMu` has left follow each other as the code writes them
  (`dsPlan`); from those it is known which run has listeners and the firewall (`dsWhole`), whether memory and file agree
  (`dsEnabled`), and that a binding the file does not serve is one nobody has compared with it yet
  (`dsBinding`); the supervisor of the current generation waits for the run that is active (`dsWatch`). The
  listeners (`dlIInv`): a connection that is being accepted is open, alone, and the work of a loop that
  runs, so the sweep after the loops misses none.
- `ResolverFlights` (`rfIInv`): a caller holds a flight exactly from joining to releasing it, of its question and of the generation
  it saw at its start; a flight's origin is not older than that generation. So an answer cannot be older than
  the last clear its caller saw, however many clears pass meanwhile.
- `DnsRace` (`drIInv`): the slots of a resolver are the dispatchers, workers and probes counted one by one
  (`drCounted`); the pairs a dispatcher still has are distinct and untouched; a worker is cut by its switch from the moment it
  has begun, also when the switch is moved back (`drSwitched`); the lease is that of the one probe under way.
- `DnsAdapter` (`daIInv`): who holds `opMu` and where (`daHolds`); that a server which runs has its hook, and a route
  that is remembered has its rule (`daWorks`); and what a clean-up that has met no error has done so far, its unreported
  failures excepted (`daCleaned`).
- `ShadowFallback`: the generation an attempt holds is never ahead of the current one
  (`AttemptsArePast`), and an attempt that counts during an outage began in it (`AttemptsAreFresh`).
- `PanelPort` (`ppIInv`): servers are numbered as they start, the file has the port of the change exactly
  from its save to its end, a change and a shutdown exclude each other, and a shutdown knows every open socket.
- `SelfUpdate` (`suIInv`): the part that is downloaded is all of what the address serves, and what
  is renamed or replaces the executable is whole, unless the address changed in between.
- `PortForward` (`pfIInv`): what a script of the panel installs is saved (`pfSaved`); as long as nothing went wrong, the
  scripts that run are for the same rules, the chains have nothing else from the step on at which one has emptied them
  (`pfFar`), and one of them, begun last, will have opened everything when it ends, although it empties what the others
  filled (`pfTogether`); when none runs, the chains are right (`pfSettled`).
- `BypassRules` (`byIInv`): nobody works without a cache, which only grows (`byCached`); how far a helper has staged, swapped
  and failed (`byStaged`); what was matched before a helper began is what is matched when it has failed and
  cleaned up (`byKept`); and without faults the panel or a helper is always about to bring jumps and addresses up to date (`byBack`).
- `ArpIsolation` (`aiIInv`): before its command, and after the command or the rollback was verified, a
  change knows what the segment is unless somebody else edited it (`SegmentIsKnown`); no cached view
  survives while a change is under way (`NoViewInChange`).
- `MacSpoof` (`msIInv`): the journal in memory is within the one on disk, with the same originals, and every
  bridge that is not as it was found is in it. Between the steps of a job a bridge it has not written, or has
  undone, is as the job found it, and one that is not selected has its own address unless it is still to be
  written or the job failed. The journal alone would not do: it says that the original is
  known, not that somebody will write it.
- `DnsBinding` (`dbIInv`), until an administrator edits a managed option: once an operation has written its
  pending snapshot the file is that; it holds the original values, the values found (`before`) and those
  to make; without a pending snapshot committed, staged and loaded values are one and are what the file
  promises. The replacement is followed option by option (deleted, so many values added), which is
  what `Explained` needs at whatever step the process dies. `CrashRecoverable` speaks of no lost power: with
  it `Recoverable` is false, as the run `binding_power_loss` shows.

The attempts to prove showed where the model, or what it said, was wrong:

- `NewestWins` is false if two passes in a row are cancelled and the second has ended the reader
  (`shadow_linux.go:29`, `54`; `stop` of the reader): the evidence is gone and nothing tells that the cache
  is behind. `lost` in the cache marks this, and the property excepts it.
- `AttemptsApart` is false across a change of the WAN and back: the code drops the cooldown with the target
  (`shadow_linux.go:210`, `shadow.go:361`). The property says so now; the run has two changes and two ACKs.
- The step by which a supervisor reads the run's error (`superviseRead`) lacked its guard, and
  the flight that goes on, the operation that is not stuck and the join that can end were
  stated with ENABLED; they now name the step that is possible (`Unfinished`, `IsLeaving`, `tryLock`).

Only model-checked:

- liveness (`EngineSettles`, `GateEnds`, `JobEnds`): the prover does not reason about fairness here;
- `FailoverKept`, `RulesSafe`: `ClientFailover` and `RuleOwnership` hold recursive operators;
- `ChannelSafe`: the room of a lane is a sum over a set of packets, defined by recursion, and what such a sum
  does needs induction over data;
- `LearningSafe` and `FilesSafe`.

## 5. Findings

1. `binding_power_loss`: a Restore interrupted by a crash, repeated, and interrupted
   again by a reboot leaves a snapshot that no longer explains the committed values;
   every later Restore and Apply is refused with "параметр ... изменён вне приложения"
   although nothing else changed it (`openwrtdns/manager.go:264`).
2. `routing_unconfirmed`: an apply of the routing arms the 90 s switch and its own last
   step, the rebuild of the multi policy, disarms it (`client.go:443`,
   `multi_policy_linux.go:557`, `routing_linux.go:419`); the unconfirmed routing stays.
   The log line and the change log promise the roll-back.
3. `tgws_stop`: `stop` takes the listener and cancels the context later; an accept loop that
   reopens a failed listener in between is waited for, with `opMu` held, although nobody
   closes its listener (`tgws/manager.go:266`).

Smaller differences and exposures seen while modelling, without a run of their own. Engine
control and strategy runs:

- `automation.go:357` calls the saved switch of the background pick authoritative;
  `SetAutomationConfig` takes only the state mutex, so it can go off between the check
  under `serviceMu` (508) and the write.
- `run.go:80` handles runs that crashed half way, but runs are saved only at their end
  (277): a crash forgets the run. `run.go:137`: two raises at once overshoot the larger of
  them, never `maxThreads`. A run cancelled during its baseline is recorded as done.
- `Shutdown` cleans the sandboxes once, after 300 ms, without waiting for the run
  (`app.go:160`, against the comment at 148); the next boot removes what is left.
- A worker takes its number outside the lock under which it publishes it (`run.go:346`,
  `350`), so `done` may end one too low. `mergeSuccessful` (616) merges without a lock.

Routing and clients:

- `expand.go:30` says edits of lists are picked up at every rebuild; the expansion cache is
  keyed by a revision that only saves of the AWG configuration raise.
- An explicit apply gives no slot to a connection whose endpoint is unresolved, the cached
  rewrite does; slots are renumbered without clearing tables.
- A WARP scan remembers the last endpoint it configured only if it differs from the start;
  a keepalive probe whose answer is lost leaves keepalive 0; a cancelled reconnect after an
  edit leaves the daemon on the old profile.
- `AWG2InsertTopRule` reads the list before it takes the operations lock;
  `AWG2CopyRulesFromServer` keeps the `TunnelID`; a failed save of a deletion resurrects the
  connection at the next start.
- The history of names: with the wall clock set back a new observation at the limit is itself
  evicted; a failed save is not retried before the next observation.

DNS:

- `openwrtdns/transaction.go:58` says edits outside the owned fields are never committed;
  edits staged between `guardChanges` and `uci commit` are.
- `cleanupLocked` deletes the rule (`adapter_linux.go:652`) before it flushes the table (656). If the flush fails
  or the process dies in between, the routes stay without the rule: the next clean-up looks for the rule (651)
  and passes the table over, and every later dial refuses it as occupied (547), although the comment at 551
  says a failure can always be recovered or cleaned by the rule. `TableIsClaimed` excepts exactly this window.
- The firewall script of `cleanupLocked` ends as a success whatever `iptables` answers (`rules.go:92`), and a
  failing `ip -6 rule show` is not reported (`adapter_linux.go:645`): a `Close` without an error may leave rules
  (`StoppedIsCleaned` excepts what such a command left, until one works).
- A renewal reads the route, then runs two `ndmc` commands (`shadow_renew_linux.go:88`, 95, 107) and is sent
  (211): the WAN may have lost the default route by then, which no lock prevents.
- Provider leases: a pass that used its 2 s budget serves the log's ACK despite a later NAK;
  without a default route in the main table the log's ACK is neither remembered nor clipped;
  a pass cancelled before `Close` leaves the old cache. A reused XID, or a REQUEST older than
  `shadowNativePendingTTL`, cannot be told apart; a peer found by broadcast without a stamp
  is replaced by any ACK.

Proxies:

- `TGWSSetConfig` and `tgwsSetEnabled` read the configuration before `opMu`; an error leaves
  memory unsaved; two saves at once may leave the older configuration.
- `Socks5Manager` has no operation lock although its comment calls it safe to call
  concurrently; the model checks what remains true.
- The history of a channel may evict a retired packet; a change of the key clears it.

Files, ARP tools, panel:

- A failing roll-back of the strategy files may take `nfqws2.conf` back after the engine read
  it; a services file is saved although its block was edited by hand; the router starts the
  engine outside the panel.
- A killed bypass helper leaves its lock until the next boot; a domain list saved while the old
  one is resolved gets a cache that looks younger than the list.
- The original address of an absent interface is forgotten when spoofing is switched off. The
  no-op path of `SetIsolation` reports success without saving although `finish` speaks of a
  persisted change; saving the configuration also saves the unsaved edits of others.
- The port-forward hook has no `set -e` (`portforward/apply_linux.go:62`) and `cleanupRules` ends in `exit 0`
  (95): an operation succeeds although a command in the middle failed, with a rule missing or a
  port still open; that the hook could not be removed is ignored (34). Hooks of panel and platform overlap
  without a lock, and the hook is overwritten in place. `PortsFollowRules` says what remains: the ports are
  right unless one of these happened since a script last ran alone, and that script mends them.
- A download resumed from the "latest" URL may mix two releases; an update from the
  command line beside the panel shares its temporary file. `SetGeoAuto` may lose an update.

## 6. Not modelled

- Data formats: strategy expansion, scoring, DNS messages, TLS, MTProto and DHCP framing,
  configuration text, parsing of lists. They are values of small sets here.
- The score of the DNS scheduler: every order of the pairs is possible, so what holds does not
  depend on it. PPP as a source of the provider's servers.
- TTL arithmetic (`dnsserver/cache.go`): sequential; an entry is live or stale.
- Import and provisioning of servers: text formats, and a shell script on a remote host whose
  roll-back is text that the repository does not execute itself.
- Portability, expansion and tracing of rules; monitor, blobs and catalogue; geo data and
  backups: sequential transformations, views and downloads. The store's atomic rename is assumed
  wherever a module persists something.
- HTTP decoding, authentication and the frontend: they stand in front of the operations that
  the modules model.
- Half-built sandboxes, and user edits of a list during a merge.
- Wall-clock time where no deadline is compared: timeouts may pass at any moment.

## 7. Plan

Done: the engine control, the gate with its abstract specification, the strategy runs, the
routing with its clients and rules, the DNS server with its resolver and provider discovery, the
proxies, the files, ARP tools and the panel's own settings. All of them are proved as well, but for
the supervisor of the tunnels, the rules, the sets with the history of names, the strategy files and the
channels (section 4).

Next, in this order:

1. `MultiPolicySets`, `RoutingDiscoveries` and `StrategyFiles`: `LearningSafe` and `FilesSafe` for any number of faults.
2. An atomic binding (bound, unbound, in doubt) that `DnsBinding` implements.
3. The expansion cache of rules and the TTL arithmetic as operators against references.
