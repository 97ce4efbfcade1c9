--------------------------- MODULE ServiceControl ---------------------------
(***************************************************************************)
(* On/off control of the NFQWS2 engine by the panel                        *)
(* (internal/app/nfqws2_service_control.go, automation.go, services.go).   *)
(*                                                                         *)
(* HTTP handlers (Clients), the automation loop (Watchdog) and auto-pick   *)
(* goroutines (Pickers) share the engine under serviceMu.  The preference  *)
(* state (automation.json) lives in memory (mem) and on disk (disk); its   *)
(* mutex `mu' covers single reads and writes, so every access under it is  *)
(* one step here, while the shell scripts run under serviceMu only and     *)
(* have a step of their own.  The panel may be killed between any two      *)
(* steps; the engine may die, and may be started by the vendor's init.     *)
(***************************************************************************)
EXTENDS Naturals, FiniteSets, TLC

CONSTANTS
  Clients,      \* concurrent HTTP requests
  Pickers,      \* slots for runAutoPick goroutines
  Watchdog,     \* the automationLoop goroutine
  NoOne,        \* serviceMu is free
  Settings,     \* the settings users post: a subset of AutomationConfig
  MaxCrashes    \* bound: how often the panel process dies

Modes == {"off", "on", "auto"}
AutomationConfig == [Mode : Modes, AutoPick : BOOLEAN, PeriodicScan : BOOLEAN]

ASSUME SettingsAssumption == Settings \subseteq AutomationConfig

ASSUME ProcessAssumption ==
  /\ Watchdog \notin Clients \cup Pickers
  /\ NoOne \notin Clients \cup Pickers \cup {Watchdog}
  /\ Clients \cap Pickers = {}
  /\ MaxCrashes \in Nat

Processes == Clients \cup Pickers \cup {Watchdog}

VARIABLES
  disk,         \* automation.json
  mem,          \* automationRuntime.state
  up,           \* the panel process runs
  serviceMu,    \* holder of automationRuntime.serviceMu
  pc,           \* what each goroutine does next
  wasOff,       \* local of the Nfqws2Start / package update that holds serviceMu
  needsStop,    \* automationRuntime.serviceNeedsStop
  streak,       \* unhealthyStreak, saturated at confirmTicks
  sample,       \* locals of automationStep: healthy and the captured fallback
  pickRunning,  \* automationRuntime.pickRunning
  reason,       \* argument of each runAutoPick
  conf,         \* who wrote NFQWS_ARGS of nfqws2.conf last
  running,      \* the main engine process is alive
  rules,        \* NFQUEUE firewall rules are installed
  foreign,      \* history: the engine was last touched by someone else
  crashes

vars == <<disk, mem, up, serviceMu, pc, wasOff, needsStop, streak, sample,
          pickRunning, reason, conf, running, rules, foreign, crashes>>

engine == <<running, rules, foreign>>
prefs == <<disk, mem>>
watch == <<streak, sample>>
picks == <<pickRunning, reason, conf>>

-----------------------------------------------------------------------------
confirmTicks == 2
Reasons == {"manual", "first-boot", "periodic"}

\* AutomationState: the settings, the manual override, and whether some pick
\* was ever recorded (LastPickAt # 0).
AutomationState == [Mode : Modes, AutoPick : BOOLEAN, PeriodicScan : BOOLEAN,
                    ManualOff : BOOLEAN, Picked : BOOLEAN]

defaultAutomation ==
  [Mode |-> "off", AutoPick |-> FALSE, PeriodicScan |-> FALSE,
   ManualOff |-> FALSE, Picked |-> FALSE]

ClientPCs == {"idle", "stopping", "starting", "clearing", "restart",
              "restarting", "updating", "bypassing"}
WatchdogPCs == {"idle", "boot", "restore", "restoring", "first", "step",
                "enforce", "stopping", "starting", "periodic"}
PickerPCs == {"idle", "queued", "scanning", "apply", "writing",
              "restarting", "record"}

Init ==
  /\ disk = defaultAutomation
  /\ mem = defaultAutomation
  /\ up = FALSE
  /\ serviceMu = NoOne
  /\ pc = [p \in Processes |-> "idle"]
  /\ wasOff = FALSE
  /\ needsStop = FALSE
  /\ streak = 0
  /\ sample = [healthy |-> FALSE, fallback |-> FALSE]
  /\ pickRunning = FALSE
  /\ reason = [p \in Pickers |-> "manual"]
  /\ conf \in {"empty", "user"}
  /\ running \in BOOLEAN
  /\ rules = running
  /\ foreign = running
  /\ crashes = 0

-----------------------------------------------------------------------------
(* The shell scripts.  A failed script may have done any part of its work. *)

\* nfqws2StartRaw, restartNfqws2Raw: success is judged by `pidof' only, so
\* the firewall may be missing; a failure may leave a live engine behind.
StartScript(ok) ==
  /\ running' \in IF ok THEN {TRUE} ELSE BOOLEAN
  /\ rules' \in BOOLEAN
  /\ foreign' = FALSE

\* nfqws2StopRaw: verifies that the process and the NFQUEUE rules are gone.
StopScript(ok) ==
  /\ running' \in IF ok THEN {FALSE} ELSE {FALSE, running}
  /\ rules' \in IF ok THEN {FALSE} ELSE {FALSE, rules}
  /\ foreign' = FALSE

Lock(p) == serviceMu = NoOne /\ serviceMu' = p
Unlock == serviceMu' = NoOne
Goto(p, l) == pc' = [pc EXCEPT ![p] = l]
At(p, l) == up /\ pc[p] = l

\* a.store.Save(automationFile, &rt.state) with the error ignored.
SaveIgnoringErrors(state) == disk' \in {disk, state}

-----------------------------------------------------------------------------
(* Explicit controls (HTTP handlers) *)

PersistManualOff_MemoryOnly(off) ==
  /\ mem' = [mem EXCEPT !.ManualOff = off]
  /\ UNCHANGED disk

\* persistNfqws2ManualOff, when the save succeeds; a failed save changes nothing.
PersistManualOff(off) ==
  /\ mem' = [mem EXCEPT !.ManualOff = off]
  /\ disk' = IF mem.ManualOff = off THEN disk ELSE mem'

\* Nfqws2Stop: OFF is saved before the engine is touched.  When the save
\* fails the handler returns with nothing changed.
Nfqws2Stop(c) ==
  /\ At(c, "idle")
  /\ Lock(c)
  /\ PersistManualOff(TRUE)
  /\ Goto(c, "stopping")
  /\ UNCHANGED <<up, wasOff, needsStop, watch, picks, engine, crashes>>

StopAndRelease_ResultIgnored(c, ok) ==
  /\ At(c, "stopping")
  /\ StopScript(ok)
  /\ needsStop' = FALSE
  /\ Unlock
  /\ Goto(c, "idle")
  /\ UNCHANGED <<prefs, up, wasOff, watch, picks, crashes>>

\* The stop that ends Nfqws2Stop, a failed Nfqws2Start and a package update.
StopAndRelease(c, ok) ==
  /\ At(c, "stopping")
  /\ StopScript(ok)
  /\ needsStop' = ~ok
  /\ Unlock
  /\ Goto(c, "idle")
  /\ UNCHANGED <<prefs, up, wasOff, watch, picks, crashes>>

\* Nfqws2Start up to the start script; with the engine alive and no saved OFF
\* it returns at once.
Nfqws2Start(c) ==
  /\ At(c, "idle")
  /\ ~running \/ mem.ManualOff
  /\ Lock(c)
  /\ wasOff' = mem.ManualOff
  /\ Goto(c, IF running THEN "clearing" ELSE "starting")
  /\ UNCHANGED <<prefs, up, needsStop, watch, picks, engine, crashes>>

StartEngine(c, ok) ==
  /\ At(c, "starting")
  /\ StartScript(ok)
  /\ IF wasOff
       THEN /\ Goto(c, IF ok THEN "clearing" ELSE "stopping")
            /\ UNCHANGED serviceMu
       ELSE /\ Goto(c, "idle")
            /\ Unlock
  /\ UNCHANGED <<prefs, up, wasOff, needsStop, watch, picks, crashes>>

\* The started engine lets Nfqws2Start clear the saved OFF; if that save fails
\* the engine is stopped again.
ClearManualOff(c, saved) ==
  /\ At(c, "clearing")
  /\ IF saved
       THEN /\ PersistManualOff(FALSE)
            /\ needsStop' = FALSE
            /\ Unlock
            /\ Goto(c, "idle")
       ELSE /\ Goto(c, "stopping")
            /\ UNCHANGED <<prefs, needsStop, serviceMu>>
  /\ UNCHANGED <<up, wasOff, watch, picks, engine, crashes>>

\* ApplyStrategyToConfig from the UI: the file is written outside serviceMu,
\* a restart is requested afterwards or not at all.
ApplyStrategyToConfig(c) ==
  /\ At(c, "idle")
  /\ conf' = "user"
  /\ \E l \in {"idle", "restart"} : Goto(c, l)
  /\ UNCHANGED <<prefs, up, serviceMu, wasOff, needsStop, watch, pickRunning,
                 reason, engine, crashes>>

RestartNfqws2_Unchecked(c) ==
  /\ At(c, "idle") \/ At(c, "restart")
  /\ Lock(c)
  /\ Goto(c, "restarting")
  /\ UNCHANGED <<prefs, up, wasOff, needsStop, watch, picks, engine, crashes>>

\* restartNfqws2, alone or after ApplyStrategyToConfig: refused while OFF.
RestartNfqws2(c) ==
  /\ At(c, "idle") \/ At(c, "restart")
  /\ ~mem.ManualOff
  /\ Lock(c)
  /\ Goto(c, "restarting")
  /\ UNCHANGED <<prefs, up, wasOff, needsStop, watch, picks, engine, crashes>>

RestartRefused(c) ==
  /\ At(c, "restart")
  /\ serviceMu = NoOne
  /\ mem.ManualOff
  /\ Goto(c, "idle")
  /\ UNCHANGED <<prefs, up, serviceMu, wasOff, needsStop, watch, picks, engine,
                 crashes>>

RestartEngine(c, ok) ==
  /\ At(c, "restarting")
  /\ StartScript(ok)
  /\ Unlock
  /\ Goto(c, "idle")
  /\ UNCHANGED <<prefs, up, wasOff, needsStop, watch, picks, crashes>>

\* withNfqws2FirewallApply: the bypass helper re-installs the NFQUEUE rules.
FirewallApply(c) ==
  /\ At(c, "idle")
  /\ ~mem.ManualOff
  /\ Lock(c)
  /\ Goto(c, "bypassing")
  /\ UNCHANGED <<prefs, up, wasOff, needsStop, watch, picks, engine, crashes>>

BypassApplied(c) ==
  /\ At(c, "bypassing")
  /\ rules' \in {rules, TRUE}
  /\ Unlock
  /\ Goto(c, "idle")
  /\ UNCHANGED <<prefs, up, wasOff, needsStop, watch, picks, running, foreign,
                 crashes>>

\* withNfqws2PackageUpdate: the package's hooks may start or kill the engine.
PackageUpdate(c) ==
  /\ At(c, "idle")
  /\ Lock(c)
  /\ wasOff' = mem.ManualOff
  /\ Goto(c, "updating")
  /\ UNCHANGED <<prefs, up, needsStop, watch, picks, engine, crashes>>

PackageInstalled(c) ==
  /\ At(c, "updating")
  /\ running' \in BOOLEAN
  /\ rules' \in BOOLEAN
  /\ foreign' = TRUE
  /\ IF wasOff THEN Goto(c, "stopping") /\ UNCHANGED serviceMu
               ELSE Goto(c, "idle") /\ Unlock
  /\ UNCHANGED <<prefs, up, wasOff, needsStop, watch, picks, crashes>>

\* SetAutomationConfig: save, then publish, under mu; resets the hysteresis.
SetAutomationConfig(in) ==
  /\ up
  /\ mem' = [mem EXCEPT !.Mode = in.Mode, !.AutoPick = in.AutoPick,
                          !.PeriodicScan = in.PeriodicScan]
  /\ disk' = mem'
  /\ streak' = 0
  /\ UNCHANGED <<up, serviceMu, pc, wasOff, needsStop, sample, picks, engine,
                 crashes>>

-----------------------------------------------------------------------------
(* The watchdog: automationLoop *)

\* The unlocked check of automationLoop before restoreNfqws2ManualOff.
CheckBootOff ==
  /\ At(Watchdog, "boot")
  /\ Goto(Watchdog, IF mem.ManualOff THEN "restore" ELSE "first")
  /\ UNCHANGED <<prefs, up, serviceMu, wasOff, needsStop, watch, picks, engine,
                 crashes>>

\* restoreNfqws2ManualOff re-reads the override under serviceMu.
RestoreManualOff ==
  /\ At(Watchdog, "restore")
  /\ IF mem.ManualOff
       THEN Lock(Watchdog) /\ Goto(Watchdog, "restoring")
       ELSE serviceMu = NoOne /\ UNCHANGED serviceMu /\ Goto(Watchdog, "first")
  /\ UNCHANGED <<prefs, up, wasOff, needsStop, watch, picks, engine, crashes>>

\* The stop script of restoreNfqws2ManualOff and of enforceNfqws2Automation.
WatchdogStop(ok) ==
  /\ At(Watchdog, "restoring") \/ At(Watchdog, "stopping")
  /\ StopScript(ok)
  /\ needsStop' = ~ok
  /\ Unlock
  /\ Goto(Watchdog, IF pc[Watchdog] = "restoring" THEN "first" ELSE "periodic")
  /\ UNCHANGED <<prefs, up, wasOff, watch, picks, crashes>>

\* `go a.runAutoPick(r)': a free slot becomes a queued goroutine.
Spawn(p, r, l) ==
  /\ pc[p] = "idle"
  /\ reason' = [reason EXCEPT ![p] = r]
  /\ pc' = IF l = "" THEN [pc EXCEPT ![p] = "queued"]
                     ELSE [pc EXCEPT ![p] = "queued", ![Watchdog] = l]

\* maybeRunFirstBootPick
FirstBootPick ==
  /\ At(Watchdog, "first")
  /\ \/ /\ ~mem.ManualOff /\ mem.AutoPick /\ ~mem.Picked /\ conf = "empty"
        /\ \E p \in Pickers : Spawn(p, "first-boot", "step")
        /\ UNCHANGED prefs
     \/ /\ ~mem.ManualOff /\ mem.AutoPick /\ ~mem.Picked /\ conf # "empty"
        /\ mem' = [mem EXCEPT !.Picked = TRUE]
        /\ SaveIgnoringErrors(mem')
        /\ Goto(Watchdog, "step")
        /\ UNCHANGED reason
     \/ /\ \/ mem.ManualOff
           \/ ~mem.AutoPick
           \/ mem.Picked
           \/ conf = "empty" /\ (\A p \in Pickers : pc[p] # "idle")
        /\ Goto(Watchdog, "step")
        /\ UNCHANGED <<prefs, reason>>
  /\ UNCHANGED <<up, serviceMu, wasOff, needsStop, watch, pickRunning, conf,
                 engine, crashes>>

\* First half of automationStep: sample the tunnel, count unhealthy ticks.
SampleTunnel(healthy) ==
  LET n == IF healthy THEN 0
           ELSE IF streak < confirmTicks THEN streak + 1 ELSE streak
  IN /\ At(Watchdog, "step")
     /\ streak' = n
     /\ sample' = [healthy |-> healthy, fallback |-> n >= confirmTicks]
     /\ Goto(Watchdog, "enforce")
     /\ UNCHANGED <<prefs, up, serviceMu, wasOff, needsStop, picks, engine,
                    crashes>>

Enforcement_OffIsLeftAlone ==
  IF ~mem.ManualOff /\ mem.Mode = "on" /\ ~running THEN "starting"
  ELSE IF mem.ManualOff /\ needsStop THEN "stopping" ELSE "periodic"

\* enforceNfqws2Automation: what the watchdog does under serviceMu, decided
\* from the mode re-read there and the fallback flag captured before.
Enforcement ==
  IF mem.ManualOff
    THEN IF needsStop \/ running THEN "stopping" ELSE "periodic"
    ELSE IF (mem.Mode = "on" \/ (mem.Mode = "auto" /\ sample.fallback)) /\ ~running
         THEN "starting" ELSE "periodic"

EnforceAutomation ==
  /\ At(Watchdog, "enforce")
  /\ serviceMu = NoOne
  /\ serviceMu' = IF Enforcement = "periodic" THEN NoOne ELSE Watchdog
  /\ Goto(Watchdog, Enforcement)
  /\ UNCHANGED <<prefs, up, wasOff, needsStop, watch, picks, engine, crashes>>

WatchdogStart(ok) ==
  /\ At(Watchdog, "starting")
  /\ StartScript(ok)
  /\ Unlock
  /\ Goto(Watchdog, "periodic")
  /\ UNCHANGED <<prefs, up, wasOff, needsStop, watch, picks, crashes>>

\* Tail of automationStep: shouldPeriodicPick, then the 30 s tick.  Whether
\* the re-scan interval has passed is left open.
PeriodicPick ==
  /\ At(Watchdog, "periodic")
  /\ \/ /\ ~mem.ManualOff /\ mem.AutoPick /\ mem.PeriodicScan /\ sample.healthy
        /\ ~pickRunning /\ mem.Picked
        /\ \E p \in Pickers : Spawn(p, "periodic", "step")
     \/ /\ Goto(Watchdog, "step")
        /\ UNCHANGED reason
  /\ UNCHANGED <<prefs, up, serviceMu, wasOff, needsStop, watch, pickRunning,
                 conf, engine, crashes>>

-----------------------------------------------------------------------------
(* Auto-pick: runAutoPick *)

TriggerAutoPickNow(p) ==
  /\ up
  /\ ~mem.ManualOff
  /\ ~pickRunning
  /\ Spawn(p, "manual", "")
  /\ UNCHANGED <<prefs, up, serviceMu, wasOff, needsStop, watch, pickRunning,
                 conf, engine, crashes>>

autoPickAllowed(r) ==
  /\ ~mem.ManualOff
  /\ \/ r = "manual"
     \/ (r = "first-boot" /\ mem.AutoPick)
     \/ (r = "periodic" /\ mem.AutoPick /\ mem.PeriodicScan)

BeginPick_NoTestAndSet(p) ==
  /\ At(p, "queued")
  /\ IF autoPickAllowed(reason[p])
       THEN pickRunning' = TRUE /\ Goto(p, "scanning")
       ELSE UNCHANGED pickRunning /\ Goto(p, "idle")
  /\ UNCHANGED <<prefs, up, serviceMu, wasOff, needsStop, watch, reason, conf,
                 engine, crashes>>

\* Entry of runAutoPick: the switch, then the test-and-set of pickRunning.
BeginPick(p) ==
  /\ At(p, "queued")
  /\ IF autoPickAllowed(reason[p]) /\ ~pickRunning
       THEN pickRunning' = TRUE /\ Goto(p, "scanning")
       ELSE UNCHANGED pickRunning /\ Goto(p, "idle")
  /\ UNCHANGED <<prefs, up, serviceMu, wasOff, needsStop, watch, reason, conf,
                 engine, crashes>>

\* The scan (StartRun, waitRunForWinner) ends with a winner, with an error
\* that recordPickError saves, or with a result that is no longer wanted.
ScanEnded(p, winner) ==
  /\ At(p, "scanning")
  /\ IF winner /\ autoPickAllowed(reason[p])
       THEN Goto(p, "apply") /\ UNCHANGED <<pickRunning, disk>>
       ELSE /\ Goto(p, "idle")
            /\ pickRunning' = FALSE
            /\ IF winner THEN UNCHANGED disk ELSE SaveIgnoringErrors(mem)
  /\ UNCHANGED <<mem, up, serviceMu, wasOff, needsStop, watch, reason, conf,
                 engine, crashes>>

LockForApply_NoRecheck(p) ==
  /\ At(p, "apply")
  /\ Lock(p)
  /\ Goto(p, "writing")
  /\ UNCHANGED <<mem, pickRunning, disk, up, wasOff, needsStop, watch, reason,
                 conf, engine, crashes>>

\* applyAutoPickStrategyForReason: the checks under serviceMu.
LockForApply(p) ==
  /\ At(p, "apply")
  /\ IF autoPickAllowed(reason[p])
       THEN /\ Lock(p)
            /\ Goto(p, "writing")
            /\ UNCHANGED <<pickRunning, disk>>
       ELSE /\ serviceMu = NoOne
            /\ Goto(p, "idle")
            /\ pickRunning' = FALSE
            /\ SaveIgnoringErrors(mem)
            /\ UNCHANGED serviceMu
  /\ UNCHANGED <<mem, up, wasOff, needsStop, watch, reason, conf, engine,
                 crashes>>

\* ApplyStrategyToConfig(argLine, false) under serviceMu: a failed write
\* becomes a recorded error.
WriteStrategy(p, ok) ==
  /\ At(p, "writing")
  /\ IF ok
       THEN /\ conf' = "auto"
            /\ Goto(p, "restarting")
            /\ UNCHANGED <<serviceMu, pickRunning, disk>>
       ELSE /\ Goto(p, "idle")
            /\ Unlock
            /\ pickRunning' = FALSE
            /\ SaveIgnoringErrors(mem)
            /\ UNCHANGED conf
  /\ UNCHANGED <<mem, up, wasOff, needsStop, watch, reason, engine, crashes>>

\* The restart that ends the apply; its failure is recorded as an error.
RestartForPick(p, ok) ==
  /\ At(p, "restarting")
  /\ StartScript(ok)
  /\ Unlock
  /\ IF ok
       THEN Goto(p, "record") /\ UNCHANGED <<pickRunning, disk>>
       ELSE /\ Goto(p, "idle")
            /\ pickRunning' = FALSE
            /\ SaveIgnoringErrors(mem)
  /\ UNCHANGED <<mem, up, wasOff, needsStop, watch, reason, conf, crashes>>

\* The successful pick is recorded in LastPickAt.
RecordPick(p) ==
  /\ At(p, "record")
  /\ mem' = [mem EXCEPT !.Picked = TRUE]
  /\ SaveIgnoringErrors(mem')
  /\ pickRunning' = FALSE
  /\ Goto(p, "idle")
  /\ UNCHANGED <<up, serviceMu, wasOff, needsStop, watch, reason, conf, engine,
                 crashes>>

-----------------------------------------------------------------------------
(* The environment *)

\* The panel dies (kill, power loss) or is shut down; only files, the engine
\* and the firewall survive.
Crash ==
  /\ up
  /\ crashes < MaxCrashes
  /\ crashes' = crashes + 1
  /\ up' = FALSE
  /\ mem' = defaultAutomation
  /\ serviceMu' = NoOne
  /\ pc' = [p \in Processes |-> "idle"]
  /\ wasOff' = FALSE
  /\ needsStop' = FALSE
  /\ streak' = 0
  /\ sample' = [healthy |-> FALSE, fallback |-> FALSE]
  /\ pickRunning' = FALSE
  /\ UNCHANGED <<disk, reason, conf, engine>>

\* loadAutomationState + initAutomation: mode "auto" is migrated to "on", and
\* the migrated state saved if it can be.
Boot ==
  LET st == IF disk.Mode = "auto" THEN [disk EXCEPT !.Mode = "on"] ELSE disk
  IN /\ ~up
     /\ up' = TRUE
     /\ mem' = st
     /\ SaveIgnoringErrors(st)
     /\ Goto(Watchdog, "boot")
     /\ UNCHANGED <<serviceMu, wasOff, needsStop, watch, picks, engine, crashes>>

\* The engine process dies by itself; its firewall rules stay.
EngineDies ==
  /\ running
  /\ running' = FALSE
  /\ UNCHANGED <<prefs, up, serviceMu, pc, wasOff, needsStop, watch, picks,
                 rules, foreign, crashes>>

\* The vendor's init script, or a script that outlived the panel, starts it.
EngineStartedByVendor ==
  /\ ~running
  /\ running' = TRUE
  /\ rules' = TRUE
  /\ foreign' = TRUE
  /\ UNCHANGED <<prefs, up, serviceMu, pc, wasOff, needsStop, watch, picks,
                 crashes>>

-----------------------------------------------------------------------------
ClientStep(c) ==
  \/ Nfqws2Stop(c)
  \/ Nfqws2Start(c)
  \/ ApplyStrategyToConfig(c)
  \/ RestartNfqws2(c)
  \/ RestartRefused(c)
  \/ FirewallApply(c)
  \/ BypassApplied(c)
  \/ PackageUpdate(c)
  \/ PackageInstalled(c)
  \/ \E ok \in BOOLEAN : \/ StopAndRelease(c, ok)
                         \/ StartEngine(c, ok)
                         \/ ClearManualOff(c, ok)
                         \/ RestartEngine(c, ok)

WatchdogStep ==
  \/ CheckBootOff
  \/ RestoreManualOff
  \/ FirstBootPick
  \/ EnforceAutomation
  \/ PeriodicPick
  \/ \E b \in BOOLEAN : SampleTunnel(b) \/ WatchdogStop(b) \/ WatchdogStart(b)

PickerStep(p) ==
  \/ BeginPick(p)
  \/ LockForApply(p)
  \/ RecordPick(p)
  \/ \E b \in BOOLEAN :
       ScanEnded(p, b) \/ WriteStrategy(p, b) \/ RestartForPick(p, b)

Next ==
  \/ \E c \in Clients : ClientStep(c)
  \/ WatchdogStep
  \/ \E p \in Pickers : PickerStep(p) \/ TriggerAutoPickNow(p)
  \/ \E in \in Settings : SetAutomationConfig(in)
  \/ Crash
  \/ Boot
  \/ EngineDies
  \/ EngineStartedByVendor

Spec == Init /\ [][Next]_vars

\* The goroutines keep running and serviceMu is granted to a waiter that keeps
\* asking (Go mutexes do not starve).  A script that is retried for ever does
\* its work at last; nothing is assumed of the user, of crashes or of scans.
Fairness ==
  /\ WF_vars(Boot)
  /\ WF_vars(CheckBootOff)
  /\ SF_vars(RestoreManualOff)
  /\ WF_vars(FirstBootPick)
  /\ WF_vars(\E b \in BOOLEAN : SampleTunnel(b))
  /\ SF_vars(EnforceAutomation)
  /\ WF_vars(\E ok \in BOOLEAN : WatchdogStop(ok))
  /\ SF_vars(WatchdogStop(TRUE))
  /\ WF_vars(\E ok \in BOOLEAN : WatchdogStart(ok))
  /\ SF_vars(WatchdogStart(TRUE))
  /\ WF_vars(PeriodicPick)
  /\ \A c \in Clients :
       /\ WF_vars(BypassApplied(c))
       /\ WF_vars(PackageInstalled(c))
       /\ WF_vars(\E ok \in BOOLEAN : StopAndRelease(c, ok))
       /\ WF_vars(\E ok \in BOOLEAN : StartEngine(c, ok))
       /\ WF_vars(\E ok \in BOOLEAN : ClearManualOff(c, ok))
       /\ WF_vars(\E ok \in BOOLEAN : RestartEngine(c, ok))
  /\ \A p \in Pickers :
       /\ WF_vars(BeginPick(p))
       /\ SF_vars(LockForApply(p))
       /\ WF_vars(\E b \in BOOLEAN : ScanEnded(p, b))
       /\ WF_vars(\E b \in BOOLEAN : WriteStrategy(p, b))
       /\ WF_vars(\E b \in BOOLEAN : RestartForPick(p, b))
       /\ WF_vars(RecordPick(p))

FairSpec == Spec /\ Fairness

-----------------------------------------------------------------------------
(* Properties *)

PCsOK ==
  /\ pc \in [Processes -> ClientPCs \cup WatchdogPCs \cup PickerPCs]
  /\ \A c \in Clients : pc[c] \in ClientPCs
  /\ \A p \in Pickers : pc[p] \in PickerPCs
  /\ pc[Watchdog] \in WatchdogPCs

FlagsOK ==
  /\ up \in BOOLEAN
  /\ wasOff \in BOOLEAN
  /\ needsStop \in BOOLEAN
  /\ pickRunning \in BOOLEAN
  /\ running \in BOOLEAN
  /\ rules \in BOOLEAN
  /\ foreign \in BOOLEAN

\* Every variable has its type.
TypeOK ==
  /\ PCsOK
  /\ FlagsOK
  /\ disk \in AutomationState
  /\ mem \in AutomationState
  /\ serviceMu \in Processes \cup {NoOne}
  /\ streak \in 0..confirmTicks
  /\ sample \in [healthy : BOOLEAN, fallback : BOOLEAN]
  /\ reason \in [Pickers -> Reasons]
  /\ conf \in {"empty", "user", "auto"}
  /\ crashes \in 0..MaxCrashes

\* The manual override a running panel acts on is the one a restart would read:
\* whatever interleaving of saves (persistNfqws2ManualOff, config posts, pick
\* history with its ignored save errors), memory and file agree on it.
OffIsDurable == up => mem.ManualOff = disk.ManualOff

InBoot == pc[Watchdog] \in {"boot", "restore", "restoring"}

\* Once the boot-time restore is over and no operation is in flight, an engine
\* process or a firewall rule left behind while OFF is retained is remembered in
\* serviceNeedsStop, so the next watchdog tick retries the cleanup; only what
\* somebody outside the panel started may be unknown to it.
LeftoversRemembered ==
  /\ up
  /\ mem.ManualOff
  /\ serviceMu = NoOne
  /\ ~InBoot
  /\ ~foreign
  => (running \/ rules => needsStop)

\* serviceMu is held exactly by the goroutine inside its critical section, and
\* what that section knows of the override stays true while it runs a script
\* for up to 60 seconds: OFF inside every stop, ON inside a restart, a bypass,
\* an automatic start or an auto-pick apply.
InCritical(p) ==
  \/ p \in Clients /\ pc[p] \notin {"idle", "restart"}
  \/ p \in Pickers /\ pc[p] \in {"writing", "restarting"}
  \/ p = Watchdog /\ pc[p] \in {"restoring", "stopping", "starting"}

OffInside(p) ==
  \/ pc[p] \in {"stopping", "restoring", "clearing"}
  \/ p \in Clients /\ pc[p] \in {"starting", "updating"} /\ wasOff

CriticalSections ==
  \A p \in Processes :
    /\ (serviceMu = p) <=> InCritical(p)
    /\ InCritical(p) => (mem.ManualOff <=> OffInside(p))

\* At most one runAutoPick is past its test-and-set, and pickRunning says so.
OnePick ==
  LET active == {p \in Pickers : pc[p] \notin {"idle", "queued"}}
  IN /\ \A p, q \in active : p = q
     /\ pickRunning <=> active # {}

\* "Only this explicit start clears a saved OFF": no config post, pick record,
\* watchdog step, crash or reboot does.
OnlyStartClearsOff ==
  [][disk.ManualOff /\ ~disk'.ManualOff
       => \E c \in Clients : pc[c] = "clearing" /\ serviceMu = c]_vars

\* "Restart/apply/watchdog actions remain unable to turn a deliberately disabled
\* engine back on": with OFF saved, the panel starts the engine or installs its
\* rules only inside an explicit start.
OffRespected ==
  [][up /\ disk.ManualOff /\ ((running' /\ ~running) \/ (rules' /\ ~rules))
       => foreign' \/ (\E c \in Clients : pc[c] = "starting")]_vars

\* A strategy that background work or a manual pick found is never written to
\* nfqws2.conf while OFF is saved, even if OFF arrived during the scan.
PickRespectsOff == [][conf' = "auto" /\ conf # "auto" => ~disk.ManualOff]_vars

\* A running engine under OFF does not survive: whoever started it, the watchdog
\* stops it unless the user turns the engine on or the panel dies.
OffHonoured == (up /\ mem.ManualOff) ~> (~running \/ ~mem.ManualOff \/ ~up)

\* A failed cleanup (process gone, firewall rules left) is retried until it
\* succeeds, the user starts the engine, or the panel dies.
CleanupRetried == needsStop ~> ~needsStop

\* In mode "on" the watchdog brings a dead engine back.
EngineKeptOn ==
  (up /\ mem.Mode = "on" /\ ~mem.ManualOff /\ ~running)
     ~> (running \/ mem.ManualOff \/ mem.Mode # "on" \/ ~up)

\* Operations on the engine exclude each other, and what one leaves behind
\* while OFF is retained is not forgotten by the next.
EngineExclusive == TypeOK /\ CriticalSections /\ LeftoversRemembered

\* A saved OFF ends with an explicit start only, in the file and in the engine.
OffKept == OnlyStartClearsOff /\ OffRespected

\* The watchdog makes the saved choice true, however often a step fails.
EngineSettles == OffHonoured /\ CleanupRetried /\ EngineKeptOn

-----------------------------------------------------------------------------
(* The values the runs give the constants. *)
Config(m, ap, ps) == [Mode |-> m, AutoPick |-> ap, PeriodicScan |-> ps]

\* A panel starts in mode "off" with both switches off; these are the posts.
ControlSettings == {Config("on", TRUE, TRUE)}
LiveSettings == {Config("on", FALSE, FALSE), Config("auto", FALSE, FALSE)}

\* Requests are interchangeable, and so are the pick goroutines.
Symmetry == Permutations(Clients) \cup Permutations(Pickers)
=============================================================================
