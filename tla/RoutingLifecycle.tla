-------------------------- MODULE RoutingLifecycle --------------------------
(***************************************************************************)
(* The life of the AWG2 split routing on a router: applying, confirming,   *)
(* editing and removing it, the dead-man's switch that takes an            *)
(* unconfirmed routing back, the two refresh loops that re-assert the      *)
(* rules in the kernel, the supervisor that restores them after a          *)
(* reconnect, and shutdown.  All of them are serialized by one mutex, ops: *)
(* user operations and the switch wait for it, loops and the supervisor    *)
(* only try it.                                                            *)
(*                                                                         *)
(* An operation that owns ops is a sequence of steps still to do (rlTodo): *)
(* removing rules means stopping the loop that re-asserts them, waiting    *)
(* for its goroutine and only then deleting them.  What a step writes to   *)
(* the kernel is abstracted to one value per rule family: none, partial    *)
(* (a failed installation) or full.                                        *)
(***************************************************************************)
EXTENDS Naturals, Sequences

VARIABLES
    rlMode,       \* Routing.Mode of the active server
    rlRules,      \* the routing list compiles to a non-empty multi policy
    rlClient,     \* Client.Enabled, the saved wish to run the tunnel
    rlCommitted,  \* Routing.Active, the saved wish to route
    rlActive,     \* route.active: a legacy routing runtime exists
    rlKernel,     \* what each rule family has in the kernel
    rlTimer,      \* route.rollback is pending
    rlFired,      \* the rollback function runs and waits for ops
    rlLoop,       \* the refresh goroutines and their stop channels
    rlUser,       \* the user operation that waits for ops, if any
    rlOwner,      \* who owns ops
    rlTodo,       \* what the owner has still to do
    rlCancelled,  \* the context of the owner is cancelled
    rlStopping,   \* StopAWG has begun
    rlDown,       \* the teardown of shutdown is over
    rlPhase       \* history: none, applied (not confirmed) or confirmed

rlVars == <<rlMode, rlRules, rlClient, rlCommitted, rlActive, rlKernel,
            rlTimer, rlFired, rlLoop, rlUser, rlOwner, rlTodo, rlCancelled,
            rlStopping, rlDown, rlPhase>>

\* off, a mode made of zones, or the whole traffic.
RoutingModes == {"off", "split", "full"}
Families == {"legacy", "multi"}

\* Two legacy goroutines can overlap: awgStartRefresh closes the stop channel
\* of the old one and does not wait for it.
RefreshLoops == {"L1", "L2", "M"}
LegacyLoops == {"L1", "L2"}
NoLoop == [st |-> "none", stop |-> FALSE]

UserOps == {"apply", "commit", "teardown", "clientDown", "clientUp", "set"}
OpsOwners == UserOps \cup RefreshLoops \cup {"none", "rollback", "watch", "final"}

\* Steps of awgTeardownRoutingOS and of the policy rebuild that ends most
\* operations (awgApplyMultiPolicyWithResolveOS).
TeardownSteps == <<"stopM", "waitM", "clearM", "stopL", "waitL", "clearL">>
RebuildSteps  == <<"stopL", "waitL", "clearL", "stopM", "waitM", "clearM", "install">>
RestoreSteps  == <<"reinstall", "stopM", "waitM", "startM">>
OpSteps == UserOps \cup {"applied", "restore", "stopL", "waitL", "clearL", "stopM", "waitM", "clearM",
                         "install", "reinstall", "startM"}

rlInit ==
    /\ rlMode = "off" /\ rlRules = FALSE /\ rlClient = FALSE
    /\ rlCommitted = FALSE
    /\ rlActive = FALSE
    /\ rlKernel = [f \in Families |-> "none"]
    /\ rlTimer = FALSE /\ rlFired = FALSE
    /\ rlLoop = [l \in RefreshLoops |-> NoLoop]
    /\ rlUser = "none" /\ rlOwner = "none" /\ rlTodo = <<>>
    /\ rlCancelled = FALSE /\ rlStopping = FALSE /\ rlDown = FALSE
    /\ rlPhase = "none"

rlConfig == <<rlMode, rlRules, rlClient, rlCommitted>>
rlRuntime == <<rlActive, rlKernel, rlTimer, rlFired, rlLoop>>
rlLock == <<rlUser, rlOwner, rlTodo, rlCancelled, rlStopping, rlDown>>

\* tryClientOps gives way to anybody who waits and to shutdown.
Waiting == rlUser # "none" \/ rlFired \/ (rlStopping /\ ~rlDown)
CanTry == rlOwner = "none" /\ ~rlStopping /\ ~Waiting

-----------------------------------------------------------------------------
\* A user operation asks for ops; only taking the tunnel down interrupts the
\* operation in progress.
lockClientOps(k) ==
    /\ rlUser = "none" /\ rlUser' = k
    /\ rlCancelled' = (rlCancelled \/ (k = "clientDown" /\ rlOwner # "none"))
    /\ UNCHANGED <<rlConfig, rlRuntime, rlOwner, rlTodo, rlStopping, rlDown, rlPhase>>

\* ops is taken: a fresh context, born cancelled when shutdown has begun.
clientOpLocked(who, todo) ==
    /\ rlOwner = "none"
    /\ rlOwner' = who /\ rlTodo' = todo
    /\ rlCancelled' = rlStopping

OpBegins(who) ==
    /\ rlUser = who
    /\ clientOpLocked(who, <<who>>)
    /\ rlUser' = "none"
    /\ UNCHANGED <<rlConfig, rlRuntime, rlStopping, rlDown, rlPhase>>

OpEnds ==
    /\ rlOwner \notin {"none"} \cup RefreshLoops /\ rlTodo = <<>>
    /\ rlOwner' = "none" /\ rlCancelled' = FALSE
    /\ rlDown' = (rlDown \/ rlOwner = "final")
    /\ UNCHANGED <<rlConfig, rlRuntime, rlUser, rlTodo, rlStopping, rlPhase>>

\* The step at the head of the owner's list, and what replaces the list.
rlAt(step) == rlTodo # <<>> /\ Head(rlTodo) = step
rlThen(todo) == /\ rlTodo' = todo
              /\ UNCHANGED <<rlUser, rlOwner, rlCancelled, rlStopping, rlDown>>
rlContinue == rlThen(Tail(rlTodo))

-----------------------------------------------------------------------------
\* A legacy refresh goroutine replaces the running one, which is not joined.
StartLegacyLoop(loop) ==
    LET free == CHOOSE l \in LegacyLoops : loop[l].st = "none"
    IN  [l \in RefreshLoops |-> IF l = free THEN [st |-> "idle", stop |-> FALSE]
                         ELSE IF l \in LegacyLoops /\ loop[l].st # "none"
                              THEN [loop[l] EXCEPT !.stop = TRUE] ELSE loop[l]]

\* awgArmRollback: the switch is set again from zero and routing is active.
awgArmRollback == rlTimer' = TRUE /\ rlActive' = TRUE

\* AWG2ApplyRouting up to the rebuild.  It may fail before anything is
\* installed or with a part of the legacy rules in place.
AWG2ApplyRouting ==
    /\ rlAt("apply")
    /\ \/ /\ rlMode = "off"
          /\ rlThen(TeardownSteps \o <<"applied">>)
          /\ UNCHANGED <<rlConfig, rlRuntime, rlPhase>>
       \/ /\ rlMode # "off"
          /\ rlClient' = (rlClient \/ ~rlCancelled)
          /\ rlThen(<<>>)
          /\ \E left \in {"none", "partial"} :
                /\ rlCancelled => left = "none"
                /\ rlKernel' = IF left = "none" THEN rlKernel
                               ELSE [rlKernel EXCEPT !["legacy"] = "partial"]
          /\ UNCHANGED <<rlMode, rlRules, rlCommitted, rlActive, rlTimer,
                         rlFired, rlLoop, rlPhase>>
       \/ /\ rlMode # "off" /\ ~rlCancelled
          /\ rlClient' = TRUE
          /\ rlKernel' = [rlKernel EXCEPT !["legacy"] = "full"]
          /\ awgArmRollback
          /\ rlLoop' = StartLegacyLoop(rlLoop)
          /\ rlPhase' = "applied"
          /\ rlThen(<<"applied">>)
          /\ UNCHANGED <<rlMode, rlRules, rlCommitted, rlFired>>

\* The rest of AWG2ApplyRouting: the wish is saved, the policy rebuilt.
ApplyCommitted ==
    /\ rlAt("applied")
    /\ rlCommitted' = (rlMode # "off")
    /\ rlThen(RebuildSteps)
    /\ UNCHANGED <<rlMode, rlRules, rlClient, rlRuntime, rlPhase>>

\* AWG2CommitRouting refuses when no legacy routing is active.
AWG2CommitRouting ==
    /\ rlAt("commit")
    /\ IF rlActive
       THEN /\ rlTimer' = FALSE /\ rlCommitted' = TRUE /\ rlPhase' = "confirmed"
            /\ rlThen(RebuildSteps)
            /\ UNCHANGED <<rlMode, rlRules, rlClient, rlActive, rlKernel, rlFired, rlLoop>>
       ELSE rlThen(<<>>) /\ UNCHANGED <<rlConfig, rlRuntime, rlPhase>>

AWG2TeardownRouting ==
    /\ rlAt("teardown")
    /\ rlCommitted' = FALSE /\ rlPhase' = "none"
    /\ rlThen(TeardownSteps \o RebuildSteps)
    /\ UNCHANGED <<rlMode, rlRules, rlClient, rlRuntime>>

AWG2ClientDown ==
    /\ rlAt("clientDown")
    /\ rlClient' = FALSE /\ rlPhase' = "none"
    /\ rlThen(TeardownSteps \o RebuildSteps)
    /\ UNCHANGED <<rlMode, rlRules, rlCommitted, rlRuntime>>

\* AWG2ClientUp and what the supervisor does for routes that are pending.
AWG2ClientUp ==
    /\ rlAt("clientUp")
    /\ \/ ~rlCancelled /\ rlClient' = TRUE /\ rlThen(<<"restore">>)
       \/ rlClient' = (rlClient \/ ~rlCancelled) /\ rlThen(<<>>)
    /\ UNCHANGED <<rlMode, rlRules, rlCommitted, rlRuntime, rlPhase>>

\* AWG2SetRouting and an edit of the routing list: the new mode is saved; a
\* routing that was committed is rebuilt, or removed when the mode is off.
AWG2SetRouting ==
    /\ rlAt("set")
    /\ rlMode' \in RoutingModes /\ rlRules' \in BOOLEAN
    /\ rlCommitted' = (rlCommitted /\ rlMode' # "off")
    /\ rlThen(IF ~rlCommitted THEN <<>>
            ELSE IF rlMode' = "off" THEN TeardownSteps \o RebuildSteps ELSE RebuildSteps)
    /\ rlPhase' = IF rlMode' = "off" THEN "none" ELSE rlPhase
    /\ UNCHANGED <<rlClient, rlRuntime>>

\* awgRestoreClientRoutesOS: a committed routing comes back through the multi
\* policy, or through the legacy rules when a full tunnel has no list.
awgRestoreClientRoutesOS ==
    /\ rlAt("restore")
    /\ IF ~(rlClient /\ rlCommitted /\ rlMode # "off") \/ rlCancelled
       THEN rlContinue /\ UNCHANGED rlRuntime
       ELSE IF rlRules THEN rlThen(RestoreSteps) /\ UNCHANGED rlRuntime
       ELSE IF rlMode = "full"
       THEN /\ rlContinue
            /\ \/ /\ rlKernel' = [rlKernel EXCEPT !["legacy"] = "full"]
                  /\ rlActive' = TRUE
                  /\ rlLoop' = IF \E l \in LegacyLoops : rlLoop[l].st # "none" /\ ~rlLoop[l].stop
                               THEN rlLoop ELSE StartLegacyLoop(rlLoop)
               \/ /\ rlKernel' = [rlKernel EXCEPT !["legacy"] = "partial"]
                  /\ rlActive' \in {rlActive, TRUE}
                  /\ UNCHANGED rlLoop
            /\ UNCHANGED <<rlTimer, rlFired>>
       ELSE rlContinue /\ UNCHANGED rlRuntime
    /\ UNCHANGED <<rlConfig, rlPhase>>

-----------------------------------------------------------------------------
\* Stop, join and removal of one family (awgStopLegacyRoutingRuntimeOS,
\* awgStopMultiPolicyRefresh, awgClearLegacyPolicyOS, awgClearMultiPolicyOS).
\* Stopping the legacy runtime also stops the dead-man's switch.
awgStopLegacyRoutingRuntimeOS ==
    /\ rlAt("stopL")
    /\ rlTimer' = FALSE /\ rlActive' = FALSE
    /\ rlLoop' = [l \in RefreshLoops |-> IF l \in LegacyLoops /\ rlLoop[l].st # "none"
                                  THEN [rlLoop[l] EXCEPT !.stop = TRUE] ELSE rlLoop[l]]
    /\ rlContinue
    /\ UNCHANGED <<rlConfig, rlKernel, rlFired, rlPhase>>

awgStopMultiPolicyRefresh ==
    /\ rlAt("stopM")
    /\ rlLoop' = IF rlLoop["M"].st = "none" THEN rlLoop ELSE [rlLoop EXCEPT !["M"].stop = TRUE]
    /\ rlContinue
    /\ UNCHANGED <<rlConfig, rlActive, rlKernel, rlTimer, rlFired, rlPhase>>

NoWaitLegacyLoops ==
    rlAt("waitL") /\ rlContinue /\ UNCHANGED <<rlConfig, rlRuntime, rlPhase>>

\* refreshWG.Wait and multiRefreshWG.Wait, with ops held.
WaitLegacyLoops ==
    /\ rlAt("waitL") /\ \A l \in LegacyLoops : rlLoop[l].st = "none"
    /\ rlContinue /\ UNCHANGED <<rlConfig, rlRuntime, rlPhase>>

WaitMultiLoop ==
    /\ rlAt("waitM") /\ rlLoop["M"].st = "none"
    /\ rlContinue /\ UNCHANGED <<rlConfig, rlRuntime, rlPhase>>

awgClearLegacyPolicyOS ==
    /\ rlAt("clearL") /\ rlKernel' = [rlKernel EXCEPT !["legacy"] = "none"]
    /\ rlContinue
    /\ UNCHANGED <<rlConfig, rlActive, rlTimer, rlFired, rlLoop, rlPhase>>

awgClearMultiPolicyOS ==
    /\ rlAt("clearM") /\ rlKernel' = [rlKernel EXCEPT !["multi"] = "none"]
    /\ rlContinue
    /\ UNCHANGED <<rlConfig, rlActive, rlTimer, rlFired, rlLoop, rlPhase>>

\* What awgBuildMultiPolicyWithResolve makes of the configuration.
HasPolicy == rlRules /\ rlClient /\ rlCommitted /\ rlMode # "off"

\* Sets, routes, DNS learner, hook and the loop of the multi policy.  ipset is
\* prepared under the context of the operation: a cancelled one installs
\* nothing.
awgApplyMultiPolicyWithResolveOS ==
    /\ rlAt("install")
    /\ \/ /\ HasPolicy /\ ~rlCancelled
          /\ rlKernel' = [rlKernel EXCEPT !["multi"] = "full"]
          /\ rlLoop' = [rlLoop EXCEPT !["M"] = [st |-> "idle", stop |-> FALSE]]
       \/ /\ HasPolicy /\ ~rlCancelled
          /\ rlKernel' = [rlKernel EXCEPT !["multi"] = "partial"] /\ UNCHANGED rlLoop
       \/ /\ ~HasPolicy \/ rlCancelled
          /\ UNCHANGED <<rlKernel, rlLoop>>
    /\ rlContinue
    /\ UNCHANGED <<rlConfig, rlActive, rlTimer, rlFired, rlPhase>>

\* awgRestoreMultiPolicyOS writes the same rules in place and replaces the
\* snapshot of the loop at the end; a failure leaves the old loop running.
awgRestoreMultiPolicyOS ==
    /\ rlAt("reinstall")
    /\ \E k \in {"partial", "full"} :
          /\ rlKernel' = [rlKernel EXCEPT !["multi"] = k]
          /\ IF k = "full" THEN rlContinue ELSE rlThen(<<>>)
    /\ UNCHANGED <<rlConfig, rlActive, rlTimer, rlFired, rlLoop, rlPhase>>

awgStartMultiPolicyRefresh ==
    /\ rlAt("startM")
    /\ rlLoop' = [rlLoop EXCEPT !["M"] = [st |-> "idle", stop |-> FALSE]]
    /\ rlContinue
    /\ UNCHANGED <<rlConfig, rlActive, rlKernel, rlTimer, rlFired, rlPhase>>

-----------------------------------------------------------------------------
\* The dead-man's switch: once the timer has fired, Stop no longer reaches
\* its function, which waits for ops.
RollbackFires ==
    /\ rlTimer /\ ~rlFired
    /\ rlTimer' = FALSE /\ rlFired' = TRUE
    /\ UNCHANGED <<rlConfig, rlActive, rlKernel, rlLoop, rlLock, rlPhase>>

Rollback ==
    /\ rlFired /\ rlFired' = FALSE
    /\ clientOpLocked("rollback", IF rlStopping THEN <<>> ELSE TeardownSteps)
    /\ rlCommitted' = IF rlStopping THEN rlCommitted ELSE FALSE
    /\ rlPhase' = IF rlStopping THEN rlPhase ELSE "none"
    /\ UNCHANGED <<rlMode, rlRules, rlClient, rlActive, rlKernel, rlTimer,
                   rlLoop, rlUser, rlStopping, rlDown>>

\* A goroutine in its select: the ticker may win over a closed stop channel,
\* but a tick only tries ops and gives up when it is busy.
LoopTick(l) ==
    /\ rlLoop[l].st = "idle" /\ CanTry
    /\ rlLoop' = [rlLoop EXCEPT ![l].st = "tick"]
    /\ clientOpLocked(l, <<>>)
    /\ UNCHANGED <<rlConfig, rlActive, rlKernel, rlTimer, rlFired, rlUser,
                   rlStopping, rlDown, rlPhase>>

\* The tick re-asserts the rules of its family, completely or not.
LoopReassert(l) ==
    LET f == IF l = "M" THEN "multi" ELSE "legacy"
        idle == l # "M" /\ (~rlClient \/ rlMode = "off")
    IN  /\ rlLoop[l].st = "tick"
        /\ \E k \in {"partial", "full"} :
              rlKernel' = IF idle THEN rlKernel ELSE [rlKernel EXCEPT ![f] = k]
        /\ rlLoop' = [rlLoop EXCEPT ![l].st = "idle"]
        /\ rlOwner' = "none" /\ rlCancelled' = FALSE
        /\ UNCHANGED <<rlConfig, rlActive, rlTimer, rlFired, rlUser, rlTodo,
                       rlStopping, rlDown, rlPhase>>

LoopExit(l) ==
    /\ rlLoop[l].st = "idle" /\ rlLoop[l].stop
    /\ rlLoop' = [rlLoop EXCEPT ![l] = NoLoop]
    /\ UNCHANGED <<rlConfig, rlActive, rlKernel, rlTimer, rlFired, rlLock, rlPhase>>

\* The supervisor restores routes that are pending, or a changed fallback.
SupervisorRestore ==
    /\ CanTry
    /\ clientOpLocked("watch", <<"restore">>)
    /\ UNCHANGED <<rlConfig, rlRuntime, rlUser, rlStopping, rlDown, rlPhase>>

\* StopAWG: nothing starts any more and the operation in progress is
\* cancelled; then TeardownRouting takes ops and removes the live routing.
StopAWG ==
    /\ ~rlStopping /\ rlStopping' = TRUE
    /\ rlCancelled' = (rlOwner # "none")
    /\ UNCHANGED <<rlConfig, rlRuntime, rlUser, rlOwner, rlTodo, rlDown, rlPhase>>

TeardownRouting ==
    /\ rlStopping /\ ~rlDown
    /\ clientOpLocked("final", TeardownSteps)
    /\ UNCHANGED <<rlConfig, rlRuntime, rlUser, rlStopping, rlDown, rlPhase>>

-----------------------------------------------------------------------------
rlStep ==
    \/ AWG2ApplyRouting \/ ApplyCommitted \/ AWG2CommitRouting \/ AWG2TeardownRouting
    \/ AWG2ClientDown \/ AWG2ClientUp \/ AWG2SetRouting \/ awgRestoreClientRoutesOS
    \/ awgStopLegacyRoutingRuntimeOS \/ awgStopMultiPolicyRefresh
    \/ WaitLegacyLoops \/ WaitMultiLoop
    \/ awgClearLegacyPolicyOS \/ awgClearMultiPolicyOS
    \/ awgApplyMultiPolicyWithResolveOS \/ awgRestoreMultiPolicyOS
    \/ awgStartMultiPolicyRefresh \/ OpEnds

LoopStep == \E l \in RefreshLoops : LoopReassert(l) \/ LoopExit(l)

rlNext ==
    \/ \E k \in UserOps : lockClientOps(k) \/ OpBegins(k)
    \/ rlStep \/ LoopStep
    \/ RollbackFires \/ Rollback
    \/ \E l \in RefreshLoops : LoopTick(l)
    \/ SupervisorRestore \/ StopAWG \/ TeardownRouting

-----------------------------------------------------------------------------
rlTypeOK ==
    /\ rlMode \in RoutingModes
    /\ {rlRules, rlClient, rlCommitted, rlActive, rlTimer, rlFired,
        rlCancelled, rlStopping, rlDown} \subseteq BOOLEAN
    /\ rlKernel \in [Families -> {"none", "partial", "full"}]
    /\ rlLoop \in [RefreshLoops -> [st : {"none", "idle", "tick"}, stop : BOOLEAN]]
    /\ rlUser \in UserOps \cup {"none"} /\ rlOwner \in OpsOwners
    /\ rlPhase \in {"none", "applied", "confirmed"}

\* A removed legacy routing stays removed: outside an operation its rules are
\* complete in the kernel only while the runtime that owns them is active.  A
\* goroutine that chose its ticker over its closed stop channel would put them
\* back after teardown has deleted them.
LegacyOwned == rlOwner = "none" /\ rlKernel["legacy"] = "full" => rlActive

\* The same for the multi policy: complete rules have a loop that keeps them.
MultiOwned == rlOwner = "none" /\ rlKernel["multi"] = "full"
                 => rlLoop["M"].st # "none" /\ ~rlLoop["M"].stop

\* Shutdown is final: once TeardownRouting is over no operation that was still
\* waiting, no fired switch and no loop installs rules again.
ShutdownIsFinal == rlDown => /\ \A f \in Families : rlKernel[f] = "none"
                             /\ \A l \in RefreshLoops : rlLoop[l].st = "none"

\* What the log line of an apply promises: an applied routing is confirmed
\* within the delay or taken back, so that the switch is set or has fired as
\* long as the routing is neither confirmed nor removed.
UnconfirmedIsWatched == rlOwner = "none" /\ rlPhase = "applied" /\ ~rlStopping
                           => rlTimer \/ rlFired

\* Whoever owns ops can go on, although teardown waits with ops held for
\* goroutines that need ops for a tick: a loop that owns it is in its tick, an
\* operation that waits for goroutines waits for none that is not on its way
\* out, and every other step of an operation is always possible.
IsLeaving(l) == rlLoop[l].st = "none" \/ (rlLoop[l].st = "idle" /\ rlLoop[l].stop)
OpsNeverStuck ==
    /\ \A l \in RefreshLoops : rlOwner = l => rlLoop[l].st = "tick"
    /\ rlAt("waitL") => \A l \in LegacyLoops : IsLeaving(l)
    /\ rlAt("waitM") => IsLeaving("M")
    /\ rlTodo # <<>> => Head(rlTodo) \in OpSteps

\* Rules in the kernel always have an owner that keeps or removes them, through
\* racing loops, operations, the switch and the shutdown.
RoutingSafe == rlTypeOK /\ LegacyOwned /\ MultiOwned /\ ShutdownIsFinal /\ OpsNeverStuck
=============================================================================
