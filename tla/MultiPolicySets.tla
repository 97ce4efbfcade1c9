-------------------------- MODULE MultiPolicySets --------------------------
(***************************************************************************)
(* The kernel state of the multi-tunnel policy and its maintenance: one    *)
(* address set per rule, one routing table, mark and slot per tunnel, the  *)
(* chain that marks packets, and the DNS learner.  An explicit apply       *)
(* clears and rebuilds all of it; a failover or a recovered interface      *)
(* rewrites it in place; a periodic tick audits it, refreshes the sets     *)
(* through staging copies, or repairs what is missing.  Every command may  *)
(* fail, the router may drop its firewall, a set or an interface between   *)
(* any two commands, and the panel may be killed.                          *)
(*                                                                         *)
(* Two connections, 1 and 2, in configured order.  Rule 1 is bound to      *)
(* connection 1 with 2 in reserve and selects by a set of addresses; rule  *)
(* 2 is bound to connection 2 and selects by source.  Addresses are tagged *)
(* with the edition of the rule list they come from.                       *)
(***************************************************************************)
EXTENDS Naturals, Sequences

CONSTANTS
    MpMaxFaults,  \* bound on failures, losses and crashes
    MpMaxEdits    \* bound on editions of the rule list

MpConns == {1, 2}
MultiRules == {1, 2}
RefreshEvery == 2      \* the fifteenth tick
NoMpSet == {<<0, "no set">>}  \* the set does not exist

VARIABLES
    mpEdition,   \* the saved rule list
    mpEligible,  \* connectionRoutingEligibility
    mpKnown,     \* connections with an endpoint address (cached or resolved)
    mpLink,      \* interfaces that exist
    mpConnected, \* tunnels with a recent handshake
    mpSnap,      \* the policy of the learner and of the refresh goroutine
    mpSet,       \* the live set of rule 1
    mpStage,     \* its staging copy, awgm_000_r
    mpSaved,     \* members read by ipset save
    mpTable,     \* default device of each slot's table
    mpChain,     \* the slot each rule marks packets with; 0 when no chain
    mpReady,     \* the DNS gate holds no error
    mpLearner,   \* the DNS learner runs
    mpTodo,      \* commands left of the operation in progress
    mpNew,       \* the policy that operation installs
    mpTicks,
    mpFaults

mpVars == <<mpEdition, mpEligible, mpKnown, mpLink, mpConnected, mpSnap, mpSet,
            mpStage, mpSaved, mpTable, mpChain, mpReady, mpLearner, mpTodo,
            mpNew, mpTicks, mpFaults>>
mpWorld == <<mpEdition, mpEligible, mpKnown, mpLink, mpConnected>>
mpKernel == <<mpSet, mpStage, mpTable, mpChain>>

NoPolicy == [edition |-> 0, slot |-> [c \in MpConns |-> 0], via |-> [r \in MultiRules |-> 0]]
NoTable == [s \in 1..2 |-> 0]
NoChain == [r \in MultiRules |-> 0]

\* awgBuildMultiPolicyWithResolve: slots in configured order for every
\* eligible connection (an explicit apply needs its endpoint, the others keep
\* the slot), then the tunnel each rule uses.
awgBuildMultiPolicy(resolve) ==
    LET has(c) == c \in mpEligible /\ (resolve => c \in mpKnown)
        slot == [c \in MpConns |-> IF ~has(c) THEN 0 ELSE IF c = 2 /\ has(1) THEN 2 ELSE 1]
        chosen == IF 1 \in mpEligible /\ (1 \in mpConnected \/ 2 \notin mpEligible \cap mpConnected)
                  THEN 1 ELSE IF 2 \in mpEligible THEN 2 ELSE 1
        via(r) == LET c == IF r = 1 THEN chosen ELSE 2
                  IN  IF has(c) THEN c ELSE 0
    IN  [edition |-> mpEdition, slot |-> slot, via |-> [r \in MultiRules |-> via(r)]]

IsPolicy(p) == \E r \in MultiRules : p.via[r] # 0
StaticOf(p) == {<<p.edition, "static">>}

mpInit ==
    /\ mpEdition = 1 /\ mpEligible = MpConns /\ mpKnown = MpConns
    /\ mpLink = MpConns /\ mpConnected = MpConns
    /\ mpSnap = NoPolicy /\ mpSet = NoMpSet /\ mpStage = NoMpSet /\ mpSaved = {}
    /\ mpTable = NoTable /\ mpChain = NoChain
    /\ mpReady = TRUE /\ mpLearner = FALSE
    /\ mpTodo = <<>> /\ mpNew = NoPolicy /\ mpTicks = 0 /\ mpFaults = 0

-----------------------------------------------------------------------------
\* The operations and the commands they run.  The gate is closed while one is
\* in progress, so that no answer is learned in between.
ApplySteps   == <<"clear", "write", "routes", "learner", "hook", "done">>
WriteSteps   == <<"write", "routes", "learner", "hook", "done">>
InPlaceSteps == <<"routes", "learner", "hook", "done">>
StageSteps   == <<"save", "clean", "stage", "swap", "clean">>
RefreshSteps == StageSteps \o <<"done">>
RepairSteps  == <<"ensure">> \o StageSteps \o InPlaceSteps

mpBegin(todo, policy) ==
    /\ mpTodo = <<>>
    /\ mpTodo' = todo /\ mpNew' = policy
    /\ UNCHANGED <<mpWorld, mpSnap, mpKernel, mpSaved, mpReady, mpLearner, mpFaults>>

\* awgApplyMultiPolicyWithResolveOS: legacy and multi policy are cleared first.
ApplyPolicy ==
    /\ mpSnap.edition # mpEdition \/ ~mpReady
    /\ mpBegin(IF IsPolicy(awgBuildMultiPolicy(TRUE)) THEN ApplySteps ELSE <<"clear", "done">>, awgBuildMultiPolicy(TRUE))
    /\ UNCHANGED mpTicks

\* awgRestoreRoutingSets: a ready policy keeps its sets, any other is written
\* again.
awgRestoreRoutingSets(ready) == IF ready THEN InPlaceSteps ELSE WriteSteps

\* awgRestoreMultiPolicyOS, after a change of the selected tunnels or of an
\* interface, or when a tunnel recovers after a failed apply.
RestorePolicy ==
    /\ \/ /\ mpSnap.edition = mpEdition
          /\ \/ awgBuildMultiPolicy(FALSE) # mpSnap
             \/ \E c \in mpLink : mpSnap.slot[c] # 0 /\ mpTable[mpSnap.slot[c]] # c
       \/ mpSnap = NoPolicy /\ ~mpReady
    /\ IsPolicy(awgBuildMultiPolicy(FALSE))
    /\ mpBegin(awgRestoreRoutingSets(mpReady), awgBuildMultiPolicy(FALSE))
    /\ UNCHANGED mpTicks

\* The chain as the policy writes it, in order, with its jumps.
awgMultiFirewallIntact(p) ==
    \A r \in MultiRules : p.via[r] # 0 => mpChain[r] = p.slot[p.via[r]]

\* The rule and the default route of every interface that exists.
awgMultiRoutesIntact(p) ==
    \A c \in mpLink : p.slot[c] # 0 => mpTable[p.slot[c]] = c

\* awgMultiPolicyIntact: chain, tables of the existing interfaces and sets.
awgMultiPolicyIntact(p) == awgMultiFirewallIntact(p) /\ awgMultiRoutesIntact(p) /\ mpSet # NoMpSet

\* One tick of awgStartMultiPolicyRefresh through awgMaintainMultiPolicy: an
\* intact policy is refreshed now and then, a broken one is repaired; only a
\* policy that was ready keeps the members of its sets.
RepairFor(ready) == IF ready THEN RepairSteps ELSE WriteSteps

\* awgMultiNeedsFullRefresh: the ticks since the last full refresh.
TickAfter(n) == (n + 1) % RefreshEvery

awgMaintainMultiPolicy ==
    LET healthy == mpReady /\ mpLearner /\ awgMultiPolicyIntact(mpSnap)
        tick == TickAfter(mpTicks)
    IN  /\ IsPolicy(mpSnap)
        /\ mpTicks' = tick
        /\ IF ~healthy THEN mpBegin(RepairFor(mpReady), mpSnap)
           ELSE IF tick = 0 THEN mpBegin(RefreshSteps, mpSnap)
           ELSE /\ mpTodo = <<>>
                /\ UNCHANGED <<mpWorld, mpSnap, mpKernel, mpSaved, mpReady, mpLearner,
                               mpTodo, mpNew, mpFaults>>

-----------------------------------------------------------------------------
\* The command at the head of the list is done; the rest follows.
mpRuns(step) == mpTodo # <<>> /\ Head(mpTodo) = step /\ mpTodo' = Tail(mpTodo)
mpFault == mpFaults < MpMaxFaults /\ mpFaults' = mpFaults + 1
mpLocal == <<mpWorld, mpReady, mpNew, mpTicks, mpFaults>>

\* awgClearMultiPolicyOS: learner, chain, tables and sets.  Errors are
\* ignored; a set that is still referenced survives.
awgClearMultiPolicy ==
    /\ mpRuns("clear")
    /\ mpSnap' = NoPolicy /\ mpLearner' = FALSE
    /\ mpChain' = NoChain /\ mpTable' = NoTable
    /\ \E left \in {NoMpSet, mpSet} :
          /\ IF left = NoMpSet THEN UNCHANGED mpFaults ELSE mpFault
          /\ mpSet' = left
    /\ mpStage' = NoMpSet
    /\ UNCHANGED <<mpWorld, mpReady, mpNew, mpTicks, mpSaved>>

\* awgWriteMultiSets: create, flush, add in one restore.
awgWriteMultiSets ==
    /\ mpRuns("write") /\ mpSet' = StaticOf(mpNew)
    /\ UNCHANGED <<mpLocal, mpSnap, mpStage, mpSaved, mpTable, mpChain, mpLearner>>

awgEnsureMultiSets ==
    /\ mpRuns("ensure") /\ mpSet' = IF mpSet = NoMpSet THEN {} ELSE mpSet
    /\ UNCHANGED <<mpLocal, mpSnap, mpStage, mpSaved, mpTable, mpChain, mpLearner>>

\* awgRefreshMultiSets: save the live members, drop a staging set left by an
\* interrupted refresh, build the new one from members and entries, swap.
ipsetSave ==
    /\ mpSet # NoMpSet /\ mpRuns("save") /\ mpSaved' = mpSet
    /\ UNCHANGED <<mpLocal, mpSnap, mpKernel, mpLearner>>
ipsetClean ==
    /\ mpRuns("clean") /\ mpStage' = NoMpSet
    /\ UNCHANGED <<mpLocal, mpSnap, mpSet, mpSaved, mpTable, mpChain, mpLearner>>
DocumentsOfEntries == StaticOf(mpNew)

awgMultiSetRefreshDocuments == mpSaved \cup StaticOf(mpNew)
ipsetStage ==
    /\ mpRuns("stage") /\ mpStage' = awgMultiSetRefreshDocuments
    /\ UNCHANGED <<mpLocal, mpSnap, mpSet, mpSaved, mpTable, mpChain, mpLearner>>
ipsetSwap ==
    /\ mpStage # NoMpSet /\ mpSet # NoMpSet
    /\ mpRuns("swap") /\ mpSet' = mpStage /\ mpStage' = NoMpSet
    /\ UNCHANGED <<mpLocal, mpSnap, mpSaved, mpTable, mpChain, mpLearner>>

\* awgInstallMultiRoutes: a default route per existing interface; the table
\* of an interface that does not exist keeps what it has.
awgInstallMultiRoutes ==
    /\ mpRuns("routes")
    /\ mpTable' = [s \in 1..2 |-> LET here == {c \in mpLink : mpNew.slot[c] = s}
                                  IN  IF here = {} THEN mpTable[s] ELSE CHOOSE c \in here : TRUE]
    /\ UNCHANGED <<mpLocal, mpSnap, mpSet, mpStage, mpSaved, mpChain, mpLearner>>

\* awgEnsureMultiDNSProxy, when the running learner cannot be kept.
awgEnsureMultiDNSProxy ==
    /\ mpRuns("learner") /\ mpLearner' = TRUE
    /\ UNCHANGED <<mpLocal, mpSnap, mpKernel, mpSaved>>

\* awgWriteMultiHook: the chain is replaced at one COMMIT, which needs the
\* sets it names.
awgWriteMultiHook ==
    /\ mpRuns("hook") /\ (mpNew.via[1] # 0 => mpSet # NoMpSet)
    /\ mpChain' = [r \in MultiRules |-> IF mpNew.via[r] = 0 THEN 0 ELSE mpNew.slot[mpNew.via[r]]]
    /\ UNCHANGED <<mpLocal, mpSnap, mpSet, mpStage, mpSaved, mpTable, mpLearner>>

\* The gate opens, and the goroutine starts over with the installed policy.
OperationDone ==
    /\ mpRuns("done") /\ mpReady' = TRUE
    /\ mpSnap' = IF IsPolicy(mpNew) THEN mpNew ELSE NoPolicy
    /\ mpTicks' = 0
    /\ UNCHANGED <<mpWorld, mpNew, mpKernel, mpSaved, mpLearner, mpFaults>>

\* A command fails: the gate keeps the error, the clean-up of a refresh runs.
CommandFails ==
    /\ mpTodo # <<>> /\ Head(mpTodo) \notin {"clear", "clean", "done"}
    /\ \/ mpFaults < MpMaxFaults /\ mpFaults' = mpFaults + 1
       \/ /\ \/ Head(mpTodo) = "save" /\ mpSet = NoMpSet
             \/ Head(mpTodo) = "hook" /\ mpSet = NoMpSet /\ mpNew.via[1] # 0
             \/ Head(mpTodo) = "swap" /\ (mpStage = NoMpSet \/ mpSet = NoMpSet)
          /\ UNCHANGED mpFaults
    /\ mpStage' = IF Head(mpTodo) \in {"stage", "swap"} THEN NoMpSet ELSE mpStage
    /\ mpTodo' = <<>> /\ mpReady' = FALSE
    /\ UNCHANGED <<mpWorld, mpSnap, mpSet, mpSaved, mpTable, mpChain, mpLearner, mpNew, mpTicks>>

-----------------------------------------------------------------------------
\* An answer is learned into the set before it is delivered.
mpLearn ==
    /\ mpTodo = <<>> /\ mpReady /\ mpLearner /\ mpSet # NoMpSet /\ mpSnap.edition # 0
    /\ mpSet' = mpSet \cup {<<mpSnap.edition, "learned">>}
    /\ UNCHANGED <<mpWorld, mpSnap, mpStage, mpSaved, mpTable, mpChain, mpReady,
                   mpLearner, mpTodo, mpNew, mpTicks, mpFaults>>

\* The user edits the rules, or a connection is switched on or off; the apply
\* follows.
EditRules ==
    /\ mpTodo = <<>> /\ mpEdition = mpSnap.edition /\ mpEdition <= MpMaxEdits
    /\ mpEdition' = mpEdition + 1
    /\ mpEligible' \in {MpConns, {2}}
    /\ mpKnown' \in {MpConns, {2}}
    /\ UNCHANGED <<mpLink, mpConnected, mpSnap, mpKernel, mpSaved, mpReady,
                   mpLearner, mpTodo, mpNew, mpTicks, mpFaults>>

\* Interfaces and peers come and go; a deleted interface takes its routes.
LinkChanges(c) ==
    /\ mpFault
    /\ IF c \in mpLink
       THEN /\ mpLink' = mpLink \ {c} /\ mpConnected' = mpConnected \ {c}
            /\ mpTable' = [s \in 1..2 |-> IF mpTable[s] = c THEN 0 ELSE mpTable[s]]
       ELSE mpLink' = mpLink \cup {c} /\ mpConnected' = mpConnected \cup {c} /\ UNCHANGED mpTable
    /\ UNCHANGED <<mpEdition, mpEligible, mpKnown, mpSnap, mpSet, mpStage, mpSaved,
                   mpChain, mpReady, mpLearner, mpTodo, mpNew, mpTicks>>

\* The router rebuilds its firewall without the hook, or somebody destroys
\* the sets.
KernelLoses ==
    /\ mpFault
    /\ \/ mpChain' = NoChain /\ UNCHANGED mpSet
       \/ mpSet' = NoMpSet /\ mpChain' = NoChain
    /\ UNCHANGED <<mpWorld, mpSnap, mpStage, mpSaved, mpTable, mpReady, mpLearner,
                   mpTodo, mpNew, mpTicks>>

\* The panel is killed and started again; it will apply the saved rules.
PanelKilled ==
    /\ mpFault
    /\ mpTodo' = <<>> /\ mpSnap' = NoPolicy /\ mpLearner' = FALSE /\ mpReady' = TRUE
    /\ mpTicks' = 0 /\ mpNew' = NoPolicy /\ mpSaved' = {}
    /\ UNCHANGED <<mpWorld, mpKernel>>

mpCommand ==
    \/ awgClearMultiPolicy \/ awgWriteMultiSets \/ awgEnsureMultiSets
    \/ ipsetSave \/ ipsetClean \/ ipsetStage \/ ipsetSwap
    \/ awgInstallMultiRoutes \/ awgEnsureMultiDNSProxy \/ awgWriteMultiHook \/ OperationDone
    \/ CommandFails

mpNext ==
    \/ ApplyPolicy \/ RestorePolicy \/ awgMaintainMultiPolicy \/ mpCommand
    \/ mpLearn \/ EditRules \/ KernelLoses \/ PanelKilled
    \/ \E c \in MpConns : LinkChanges(c)

-----------------------------------------------------------------------------
mpTypeOK ==
    /\ mpEdition \in 1..MpMaxEdits + 1
    /\ {mpEligible, mpKnown, mpLink, mpConnected} \subseteq SUBSET MpConns
    /\ mpTable \in [1..2 -> 0..2] /\ mpChain \in [MultiRules -> 0..2]
    /\ mpTicks \in 0..RefreshEvery - 1 /\ mpFaults \in 0..MpMaxFaults
    /\ {mpReady, mpLearner} \subseteq BOOLEAN

\* Maintenance of an unchanged, ready policy never loses an address: what was
\* learned into a live set survives every step of a refresh, of a repair, of
\* a failover and of a recovered interface, wherever one of them stops.
LearnedKept ==
    [][mpTodo # <<>> /\ mpReady /\ mpSet # NoMpSet /\ mpNew.edition = mpSnap.edition
          /\ mpSet' # NoMpSet
       => mpSet \subseteq mpSet']_mpVars

\* A set never carries addresses of an older rule list once the policy is
\* ready: not from a set that could not be destroyed, not from a staging set
\* left behind, not after a failed apply that a tick repaired.
NoForeignAddress ==
    mpTodo = <<>> /\ mpReady /\ mpSnap.edition # 0 /\ mpSet # NoMpSet
       => \A x \in mpSet : x[1] = mpSnap.edition

\* A marked packet leaves through the tunnel its rule selects: with a ready
\* policy the table of a mark is empty or leads to the tunnel the rule was
\* given, across renumbered slots, failovers and missing interfaces.  An
\* apply that skips a connection whose endpoint it cannot resolve is left
\* out: the in-place rewrite after it gives that connection a slot whose
\* table still leads to another one.
RightTunnel ==
    mpTodo = <<>> /\ mpReady /\ mpSnap.edition # 0 /\ mpEligible \subseteq mpKnown
       => \A r \in MultiRules :
             mpChain[r] # 0 => mpTable[mpChain[r]] \in {0, mpSnap.via[r]}

\* A ready policy has the addresses of its rules and no others, leads through
\* the right tunnels, and is maintained without losing what was learned.
PolicySafe == [](mpTypeOK /\ NoForeignAddress /\ RightTunnel) /\ LearnedKept
=============================================================================
