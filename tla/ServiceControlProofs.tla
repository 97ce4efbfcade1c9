------------------------ MODULE ServiceControlProofs ------------------------
(***************************************************************************)
(* Proofs about ServiceControl, for any number of concurrent requests,     *)
(* auto-pick goroutines, posted settings and crashes.                      *)
(***************************************************************************)
EXTENDS ServiceControl, TLAPS

\* Nothing of a dead panel survives: no goroutine, no lock.
DownIsIdle ==
  ~up => serviceMu = NoOne /\ (\A p \in Processes : pc[p] = "idle")

\* The inductive invariant.
IInv ==
  /\ TypeOK
  /\ DownIsIdle
  /\ OffIsDurable
  /\ CriticalSections
  /\ LeftoversRemembered

USE ProcessAssumption

(* A goroutine that moves on to a label of its own keeps PCsOK. *)
LEMMA ClientGoto ==
  ASSUME PCsOK, NEW c \in Clients, NEW l \in ClientPCs, Goto(c, l)
  PROVE  PCsOK'
BY DEF PCsOK, Goto, Processes

\* The same for an auto-pick goroutine.
LEMMA PickerGoto ==
  ASSUME PCsOK, NEW p \in Pickers, NEW l \in PickerPCs, Goto(p, l)
  PROVE  PCsOK'
BY DEF PCsOK, Goto, Processes

\* The same for the automation loop.
LEMMA WatchdogGoto ==
  ASSUME PCsOK, NEW l \in WatchdogPCs, Goto(Watchdog, l)
  PROVE  PCsOK'
BY DEF PCsOK, Goto, Processes

\* A panel that never ran satisfies the invariant.
LEMMA InitIInv == Init => IInv
<1> SUFFICES ASSUME Init PROVE IInv
  OBVIOUS
<1> USE DEF Init, Processes
<1>1. PCsOK
  BY DEF PCsOK, ClientPCs, WatchdogPCs, PickerPCs
<1>2. FlagsOK
  BY Zenon DEF FlagsOK
<1>a. TypeOK
  BY <1>1, <1>2 DEF TypeOK, AutomationState, Modes, defaultAutomation, Reasons,
     confirmTicks
<1>3. DownIsIdle /\ OffIsDurable /\ LeftoversRemembered
  BY DEF DownIsIdle, OffIsDurable, LeftoversRemembered
<1>4. CriticalSections
  BY DEF CriticalSections, InCritical
<1> QED BY <1>a, <1>3, <1>4 DEF IInv

\* Saving OFF before the engine is stopped (Nfqws2Stop).
LEMMA Nfqws2StopStep ==
  ASSUME IInv, NEW c \in Clients, Nfqws2Stop(c)
  PROVE  IInv'
<1> USE DEF Processes, engine, prefs, watch, picks, Goto, At
<1> USE DEF IInv, Nfqws2Stop, Lock, PersistManualOff
<1>1. PCsOK'
  BY ClientGoto DEF TypeOK, ClientPCs
<1>2. FlagsOK'
  BY Zenon DEF TypeOK, FlagsOK
<1>3. TypeOK'
  BY <1>1, <1>2 DEF TypeOK, AutomationState, Modes, Reasons, confirmTicks
<1>4. DownIsIdle'
  BY DEF DownIsIdle
<1>5. OffIsDurable'
  BY DEF OffIsDurable, TypeOK, AutomationState
<1>6. CriticalSections'
  BY DEF CriticalSections, InCritical, OffInside, DownIsIdle, TypeOK,
     FlagsOK, PCsOK, AutomationState, ClientPCs, WatchdogPCs, PickerPCs
<1>7. LeftoversRemembered'
  BY DEF LeftoversRemembered, CriticalSections, InCritical, OffInside,
     InBoot, TypeOK, FlagsOK, PCsOK
<1> QED BY <1>3, <1>4, <1>5, <1>6, <1>7

\* Taking serviceMu for an explicit start; wasOff notes the saved OFF.
LEMMA Nfqws2StartStep ==
  ASSUME IInv, NEW c \in Clients, Nfqws2Start(c)
  PROVE  IInv'
<1> USE DEF Processes, engine, prefs, watch, picks, Goto, At
<1> USE DEF IInv, Nfqws2Start, Lock
<1>1. PCsOK'
  BY ClientGoto DEF TypeOK, ClientPCs
<1>2. FlagsOK'
  <2>1. mem.ManualOff \in BOOLEAN
    BY DEF TypeOK, AutomationState
  <2> QED BY Zenon, <2>1 DEF TypeOK, FlagsOK
<1>3. TypeOK'
  BY <1>1, <1>2 DEF TypeOK, AutomationState, Modes, Reasons, confirmTicks
<1>4. DownIsIdle'
  BY DEF DownIsIdle
<1>5. OffIsDurable'
  BY DEF OffIsDurable, TypeOK, AutomationState
<1>6. CriticalSections'
  BY DEF CriticalSections, InCritical, OffInside, DownIsIdle, TypeOK,
     FlagsOK, PCsOK, AutomationState, ClientPCs, WatchdogPCs, PickerPCs
<1>7. LeftoversRemembered'
  BY DEF LeftoversRemembered, CriticalSections, InCritical, OffInside,
     InBoot, TypeOK, FlagsOK, PCsOK
<1> QED BY <1>3, <1>4, <1>5, <1>6, <1>7

\* Writing nfqws2.conf outside serviceMu.
LEMMA ApplyStrategyToConfigStep ==
  ASSUME IInv, NEW c \in Clients, ApplyStrategyToConfig(c)
  PROVE  IInv'
<1> USE DEF Processes, engine, prefs, watch, picks, Goto, At
<1> USE DEF IInv, ApplyStrategyToConfig
<1>1. PCsOK'
  BY ClientGoto DEF TypeOK, ClientPCs
<1>2. FlagsOK'
  BY Zenon DEF TypeOK, FlagsOK
<1>3. TypeOK'
  BY <1>1, <1>2 DEF TypeOK, AutomationState, Modes, Reasons, confirmTicks
<1>4. DownIsIdle'
  BY DEF DownIsIdle
<1>5. OffIsDurable'
  BY DEF OffIsDurable, TypeOK, AutomationState
<1>6. CriticalSections'
  BY DEF CriticalSections, InCritical, OffInside, DownIsIdle, TypeOK,
     FlagsOK, PCsOK, AutomationState, ClientPCs, WatchdogPCs, PickerPCs
<1>7. LeftoversRemembered'
  BY DEF LeftoversRemembered, CriticalSections, InCritical, OffInside,
     InBoot, TypeOK, FlagsOK, PCsOK
<1> QED BY <1>3, <1>4, <1>5, <1>6, <1>7

\* A restart takes serviceMu only while OFF is not saved.
LEMMA RestartNfqws2Step ==
  ASSUME IInv, NEW c \in Clients, RestartNfqws2(c)
  PROVE  IInv'
<1> USE DEF Processes, engine, prefs, watch, picks, Goto, At
<1> USE DEF IInv, RestartNfqws2, Lock
<1>1. PCsOK'
  BY ClientGoto DEF TypeOK, ClientPCs
<1>2. FlagsOK'
  BY Zenon DEF TypeOK, FlagsOK
<1>3. TypeOK'
  BY <1>1, <1>2 DEF TypeOK, AutomationState, Modes, Reasons, confirmTicks
<1>4. DownIsIdle'
  BY DEF DownIsIdle
<1>5. OffIsDurable'
  BY DEF OffIsDurable, TypeOK, AutomationState
<1>6. CriticalSections'
  BY DEF CriticalSections, InCritical, OffInside, DownIsIdle, TypeOK,
     FlagsOK, PCsOK, AutomationState, ClientPCs, WatchdogPCs, PickerPCs
<1>7. LeftoversRemembered'
  BY DEF LeftoversRemembered, CriticalSections, InCritical, OffInside,
     InBoot, TypeOK, FlagsOK, PCsOK
<1> QED BY <1>3, <1>4, <1>5, <1>6, <1>7

\* A restart refused because OFF is saved.
LEMMA RestartRefusedStep ==
  ASSUME IInv, NEW c \in Clients, RestartRefused(c)
  PROVE  IInv'
<1> USE DEF Processes, engine, prefs, watch, picks, Goto, At
<1> USE DEF IInv, RestartRefused
<1>1. PCsOK'
  BY ClientGoto DEF TypeOK, ClientPCs
<1>2. FlagsOK'
  BY Zenon DEF TypeOK, FlagsOK
<1>3. TypeOK'
  BY <1>1, <1>2 DEF TypeOK, AutomationState, Modes, Reasons, confirmTicks
<1>4. DownIsIdle'
  BY DEF DownIsIdle
<1>5. OffIsDurable'
  BY DEF OffIsDurable, TypeOK, AutomationState
<1>6. CriticalSections'
  BY DEF CriticalSections, InCritical, OffInside, DownIsIdle, TypeOK,
     FlagsOK, PCsOK, AutomationState, ClientPCs, WatchdogPCs, PickerPCs
<1>7. LeftoversRemembered'
  BY DEF LeftoversRemembered, CriticalSections, InCritical, OffInside,
     InBoot, TypeOK, FlagsOK, PCsOK
<1> QED BY <1>3, <1>4, <1>5, <1>6, <1>7

\* withNfqws2FirewallApply takes serviceMu only while OFF is not saved.
LEMMA FirewallApplyStep ==
  ASSUME IInv, NEW c \in Clients, FirewallApply(c)
  PROVE  IInv'
<1> USE DEF Processes, engine, prefs, watch, picks, Goto, At
<1> USE DEF IInv, FirewallApply, Lock
<1>1. PCsOK'
  BY ClientGoto DEF TypeOK, ClientPCs
<1>2. FlagsOK'
  BY Zenon DEF TypeOK, FlagsOK
<1>3. TypeOK'
  BY <1>1, <1>2 DEF TypeOK, AutomationState, Modes, Reasons, confirmTicks
<1>4. DownIsIdle'
  BY DEF DownIsIdle
<1>5. OffIsDurable'
  BY DEF OffIsDurable, TypeOK, AutomationState
<1>6. CriticalSections'
  BY DEF CriticalSections, InCritical, OffInside, DownIsIdle, TypeOK,
     FlagsOK, PCsOK, AutomationState, ClientPCs, WatchdogPCs, PickerPCs
<1>7. LeftoversRemembered'
  BY DEF LeftoversRemembered, CriticalSections, InCritical, OffInside,
     InBoot, TypeOK, FlagsOK, PCsOK
<1> QED BY <1>3, <1>4, <1>5, <1>6, <1>7

\* The bypass helper re-installs rules and releases serviceMu.
LEMMA BypassAppliedStep ==
  ASSUME IInv, NEW c \in Clients, BypassApplied(c)
  PROVE  IInv'
<1> USE DEF Processes, engine, prefs, watch, picks, Goto, At
<1> USE DEF IInv, BypassApplied, Unlock
<1>1. PCsOK'
  BY ClientGoto DEF TypeOK, ClientPCs
<1>2. FlagsOK'
  BY Zenon DEF TypeOK, FlagsOK
<1>3. TypeOK'
  BY <1>1, <1>2 DEF TypeOK, AutomationState, Modes, Reasons, confirmTicks
<1>4. DownIsIdle'
  BY DEF DownIsIdle
<1>5. OffIsDurable'
  BY DEF OffIsDurable, TypeOK, AutomationState
<1>6. CriticalSections'
  BY DEF CriticalSections, InCritical, OffInside, DownIsIdle, TypeOK,
     FlagsOK, PCsOK, AutomationState, ClientPCs, WatchdogPCs, PickerPCs
<1>7. LeftoversRemembered'
  BY DEF LeftoversRemembered, CriticalSections, InCritical, OffInside,
     InBoot, TypeOK, FlagsOK, PCsOK
<1> QED BY <1>3, <1>4, <1>5, <1>6, <1>7

\* withNfqws2PackageUpdate notes the saved OFF under serviceMu.
LEMMA PackageUpdateStep ==
  ASSUME IInv, NEW c \in Clients, PackageUpdate(c)
  PROVE  IInv'
<1> USE DEF Processes, engine, prefs, watch, picks, Goto, At
<1> USE DEF IInv, PackageUpdate, Lock
<1>1. PCsOK'
  BY ClientGoto DEF TypeOK, ClientPCs
<1>2. FlagsOK'
  <2>1. mem.ManualOff \in BOOLEAN
    BY DEF TypeOK, AutomationState
  <2> QED BY Zenon, <2>1 DEF TypeOK, FlagsOK
<1>3. TypeOK'
  BY <1>1, <1>2 DEF TypeOK, AutomationState, Modes, Reasons, confirmTicks
<1>4. DownIsIdle'
  BY DEF DownIsIdle
<1>5. OffIsDurable'
  BY DEF OffIsDurable, TypeOK, AutomationState
<1>6. CriticalSections'
  BY DEF CriticalSections, InCritical, OffInside, DownIsIdle, TypeOK,
     FlagsOK, PCsOK, AutomationState, ClientPCs, WatchdogPCs, PickerPCs
<1>7. LeftoversRemembered'
  BY DEF LeftoversRemembered, CriticalSections, InCritical, OffInside,
     InBoot, TypeOK, FlagsOK, PCsOK
<1> QED BY <1>3, <1>4, <1>5, <1>6, <1>7

\* After the package hooks: stop again if OFF was saved, else release.
LEMMA PackageInstalledStep ==
  ASSUME IInv, NEW c \in Clients, PackageInstalled(c)
  PROVE  IInv'
<1> USE DEF Processes, engine, prefs, watch, picks, Goto, At
<1> USE DEF IInv, PackageInstalled, Unlock
<1>1. PCsOK'
  BY ClientGoto DEF TypeOK, ClientPCs
<1>2. FlagsOK'
  BY Zenon DEF TypeOK, FlagsOK
<1>3. TypeOK'
  BY <1>1, <1>2 DEF TypeOK, AutomationState, Modes, Reasons, confirmTicks
<1>4. DownIsIdle'
  BY DEF DownIsIdle
<1>5. OffIsDurable'
  BY DEF OffIsDurable, TypeOK, AutomationState
<1>6. CriticalSections'
  BY DEF CriticalSections, InCritical, OffInside, DownIsIdle, TypeOK,
     FlagsOK, PCsOK, AutomationState, ClientPCs, WatchdogPCs, PickerPCs
<1>7. LeftoversRemembered'
  BY DEF LeftoversRemembered, CriticalSections, InCritical, OffInside,
     InBoot, TypeOK, FlagsOK, PCsOK
<1> QED BY <1>3, <1>4, <1>5, <1>6, <1>7

\* A stop script succeeds, or serviceNeedsStop remembers its leftovers.
LEMMA StopAndReleaseStep ==
  ASSUME IInv, NEW c \in Clients, NEW ok \in BOOLEAN, StopAndRelease(c, ok)
  PROVE  IInv'
<1> USE DEF Processes, engine, prefs, watch, picks, Goto, At
<1> USE DEF IInv, StopAndRelease, Unlock, StopScript
<1>1. PCsOK'
  BY ClientGoto DEF TypeOK, ClientPCs
<1>2. FlagsOK'
  BY Zenon DEF TypeOK, FlagsOK
<1>3. TypeOK'
  BY <1>1, <1>2 DEF TypeOK, AutomationState, Modes, Reasons, confirmTicks
<1>4. DownIsIdle'
  BY DEF DownIsIdle
<1>5. OffIsDurable'
  BY DEF OffIsDurable, TypeOK, AutomationState
<1>6. CriticalSections'
  BY DEF CriticalSections, InCritical, OffInside, DownIsIdle, TypeOK,
     FlagsOK, PCsOK, AutomationState, ClientPCs, WatchdogPCs, PickerPCs
<1>7. LeftoversRemembered'
  BY DEF LeftoversRemembered, CriticalSections, InCritical, OffInside,
     InBoot, TypeOK, FlagsOK, PCsOK
<1> QED BY <1>3, <1>4, <1>5, <1>6, <1>7

\* A start script succeeds, or an explicit start under OFF stops again.
LEMMA StartEngineStep ==
  ASSUME IInv, NEW c \in Clients, NEW ok \in BOOLEAN, StartEngine(c, ok)
  PROVE  IInv'
<1> USE DEF Processes, engine, prefs, watch, picks, Goto, At
<1> USE DEF IInv, StartEngine, Unlock, StartScript
<1>1. PCsOK'
  BY ClientGoto DEF TypeOK, ClientPCs
<1>2. FlagsOK'
  BY Zenon DEF TypeOK, FlagsOK
<1>3. TypeOK'
  BY <1>1, <1>2 DEF TypeOK, AutomationState, Modes, Reasons, confirmTicks
<1>4. DownIsIdle'
  BY DEF DownIsIdle
<1>5. OffIsDurable'
  BY DEF OffIsDurable, TypeOK, AutomationState
<1>6. CriticalSections'
  BY DEF CriticalSections, InCritical, OffInside, DownIsIdle, TypeOK,
     FlagsOK, PCsOK, AutomationState, ClientPCs, WatchdogPCs, PickerPCs
<1>7. LeftoversRemembered'
  BY DEF LeftoversRemembered, CriticalSections, InCritical, OffInside,
     InBoot, TypeOK, FlagsOK, PCsOK
<1> QED BY <1>3, <1>4, <1>5, <1>6, <1>7

\* The one step that clears a saved OFF, in memory and on disk at once.
LEMMA ClearManualOffStep ==
  ASSUME IInv, NEW c \in Clients, NEW ok \in BOOLEAN, ClearManualOff(c, ok)
  PROVE  IInv'
<1> USE DEF Processes, engine, prefs, watch, picks, Goto, At
<1> USE DEF IInv, ClearManualOff, Unlock, PersistManualOff
<1>1. PCsOK'
  BY ClientGoto DEF TypeOK, ClientPCs
<1>2. FlagsOK'
  BY Zenon DEF TypeOK, FlagsOK
<1>3. TypeOK'
  <2>1. mem' \in AutomationState /\ disk' \in AutomationState
    <3>1. CASE ok
      <4>1. mem' \in AutomationState
        BY <3>1 DEF TypeOK, AutomationState
      <4> QED BY <3>1, <4>1 DEF TypeOK
    <3>2. CASE ~ok
      BY <3>2 DEF TypeOK
    <3> QED BY <3>1, <3>2
  <2>2. serviceMu' \in Processes \cup {NoOne}
    BY DEF TypeOK
  <2> QED BY <1>1, <1>2, <2>1, <2>2 DEF TypeOK
<1>4. DownIsIdle'
  BY DEF DownIsIdle
<1>5. OffIsDurable'
  BY DEF OffIsDurable, TypeOK, AutomationState
<1>6. CriticalSections'
  BY DEF CriticalSections, InCritical, OffInside, DownIsIdle, TypeOK,
     FlagsOK, PCsOK, AutomationState, ClientPCs, WatchdogPCs, PickerPCs
<1>7. LeftoversRemembered'
  <2>1. CASE ok
    <3>1. ~mem'.ManualOff
      BY <2>1 DEF TypeOK, AutomationState
    <3> QED BY <3>1 DEF LeftoversRemembered
  <2>2. CASE ~ok
    <3>1. serviceMu' = c /\ c # NoOne
      BY <2>2 DEF CriticalSections, InCritical
    <3> QED BY <3>1 DEF LeftoversRemembered
  <2> QED BY <2>1, <2>2
<1> QED BY <1>3, <1>4, <1>5, <1>6, <1>7

\* A restart script ends and serviceMu is released.
LEMMA RestartEngineStep ==
  ASSUME IInv, NEW c \in Clients, NEW ok \in BOOLEAN, RestartEngine(c, ok)
  PROVE  IInv'
<1> USE DEF Processes, engine, prefs, watch, picks, Goto, At
<1> USE DEF IInv, RestartEngine, Unlock, StartScript
<1>1. PCsOK'
  BY ClientGoto DEF TypeOK, ClientPCs
<1>2. FlagsOK'
  BY Zenon DEF TypeOK, FlagsOK
<1>3. TypeOK'
  BY <1>1, <1>2 DEF TypeOK, AutomationState, Modes, Reasons, confirmTicks
<1>4. DownIsIdle'
  BY DEF DownIsIdle
<1>5. OffIsDurable'
  BY DEF OffIsDurable, TypeOK, AutomationState
<1>6. CriticalSections'
  BY DEF CriticalSections, InCritical, OffInside, DownIsIdle, TypeOK,
     FlagsOK, PCsOK, AutomationState, ClientPCs, WatchdogPCs, PickerPCs
<1>7. LeftoversRemembered'
  BY DEF LeftoversRemembered, CriticalSections, InCritical, OffInside,
     InBoot, TypeOK, FlagsOK, PCsOK
<1> QED BY <1>3, <1>4, <1>5, <1>6, <1>7

\* The unlocked check of automationLoop at boot.
LEMMA CheckBootOffStep ==
  ASSUME IInv, CheckBootOff
  PROVE  IInv'
<1> USE DEF Processes, engine, prefs, watch, picks, Goto, At
<1> USE DEF IInv, CheckBootOff
<1>1. PCsOK'
  BY WatchdogGoto DEF TypeOK, WatchdogPCs
<1>2. FlagsOK'
  BY Zenon DEF TypeOK, FlagsOK
<1>3. TypeOK'
  BY <1>1, <1>2 DEF TypeOK, AutomationState, Modes, Reasons, confirmTicks
<1>4. DownIsIdle'
  BY DEF DownIsIdle
<1>5. OffIsDurable'
  BY DEF OffIsDurable, TypeOK, AutomationState
<1>6. CriticalSections'
  BY DEF CriticalSections, InCritical, OffInside, DownIsIdle, TypeOK,
     FlagsOK, PCsOK, AutomationState, ClientPCs, WatchdogPCs, PickerPCs
<1>7. LeftoversRemembered'
  BY DEF LeftoversRemembered, CriticalSections, InCritical, OffInside,
     InBoot, TypeOK, FlagsOK, PCsOK
<1> QED BY <1>3, <1>4, <1>5, <1>6, <1>7

\* restoreNfqws2ManualOff re-reads the override under serviceMu.
LEMMA RestoreManualOffStep ==
  ASSUME IInv, RestoreManualOff
  PROVE  IInv'
<1> USE DEF Processes, engine, prefs, watch, picks, Goto, At
<1> USE DEF IInv, RestoreManualOff, Lock
<1>1. PCsOK'
  BY WatchdogGoto DEF TypeOK, WatchdogPCs
<1>2. FlagsOK'
  BY Zenon DEF TypeOK, FlagsOK
<1>3. TypeOK'
  BY <1>1, <1>2 DEF TypeOK, AutomationState, Modes, Reasons, confirmTicks
<1>4. DownIsIdle'
  BY DEF DownIsIdle
<1>5. OffIsDurable'
  BY DEF OffIsDurable, TypeOK, AutomationState
<1>6. CriticalSections'
  BY DEF CriticalSections, InCritical, OffInside, DownIsIdle, TypeOK,
     FlagsOK, PCsOK, AutomationState, ClientPCs, WatchdogPCs, PickerPCs
<1>7. LeftoversRemembered'
  BY DEF LeftoversRemembered, CriticalSections, InCritical, OffInside,
     InBoot, TypeOK, FlagsOK, PCsOK
<1> QED BY <1>3, <1>4, <1>5, <1>6, <1>7

\* maybeRunFirstBootPick spawns a pick or goes on.
LEMMA FirstBootPickStep ==
  ASSUME IInv, FirstBootPick
  PROVE  IInv'
<1> USE DEF Processes, engine, prefs, watch, picks, Goto, At
<1> USE DEF IInv, FirstBootPick, Spawn, SaveIgnoringErrors
<1>1. PCsOK'
  BY DEF TypeOK, PCsOK, ClientPCs, PickerPCs, WatchdogPCs
<1>2. FlagsOK'
  BY Zenon DEF TypeOK, FlagsOK
<1>3. TypeOK'
  <2>1. mem' \in AutomationState /\ disk' \in AutomationState
    <3>1. mem' = mem \/ mem' = [mem EXCEPT !.Picked = TRUE]
      OBVIOUS
    <3>2. mem' \in AutomationState
      BY <3>1 DEF TypeOK, AutomationState
    <3> QED BY <3>2 DEF TypeOK
  <2>2. reason' \in [Pickers -> Reasons]
    BY DEF TypeOK, Reasons
  <2> QED BY <1>1, <1>2, <2>1, <2>2 DEF TypeOK
<1>4. DownIsIdle'
  BY DEF DownIsIdle
<1>5. OffIsDurable'
  BY DEF OffIsDurable, TypeOK, AutomationState
<1>6. CriticalSections'
  BY DEF CriticalSections, InCritical, OffInside, DownIsIdle, TypeOK,
     FlagsOK, PCsOK, AutomationState, ClientPCs, WatchdogPCs, PickerPCs
<1>7. LeftoversRemembered'
  <2>1. mem'.ManualOff = mem.ManualOff
    BY DEF TypeOK, AutomationState
  <2>2. ~InBoot
    BY DEF InBoot
  <2> QED BY <2>1, <2>2 DEF LeftoversRemembered
<1> QED BY <1>3, <1>4, <1>5, <1>6, <1>7

\* enforceNfqws2Automation decides under serviceMu.
LEMMA EnforceAutomationStep ==
  ASSUME IInv, EnforceAutomation
  PROVE  IInv'
<1> USE DEF Processes, engine, prefs, watch, picks, Goto, At
<1> USE DEF IInv, EnforceAutomation, Enforcement
<1>1. PCsOK'
  BY WatchdogGoto DEF TypeOK, WatchdogPCs
<1>2. FlagsOK'
  BY Zenon DEF TypeOK, FlagsOK
<1>3. TypeOK'
  BY <1>1, <1>2 DEF TypeOK, AutomationState, Modes, Reasons, confirmTicks
<1>4. DownIsIdle'
  BY DEF DownIsIdle
<1>5. OffIsDurable'
  BY DEF OffIsDurable, TypeOK, AutomationState
<1>6. CriticalSections'
  BY DEF CriticalSections, InCritical, OffInside, DownIsIdle, TypeOK,
     FlagsOK, PCsOK, AutomationState, ClientPCs, WatchdogPCs, PickerPCs
<1>7. LeftoversRemembered'
  BY DEF LeftoversRemembered, CriticalSections, InCritical, OffInside,
     InBoot, TypeOK, FlagsOK, PCsOK
<1> QED BY <1>3, <1>4, <1>5, <1>6, <1>7

\* The periodic pick that ends automationStep.
LEMMA PeriodicPickStep ==
  ASSUME IInv, PeriodicPick
  PROVE  IInv'
<1> USE DEF Processes, engine, prefs, watch, picks, Goto, At
<1> USE DEF IInv, PeriodicPick, Spawn
<1>1. PCsOK'
  BY DEF TypeOK, PCsOK, ClientPCs, PickerPCs, WatchdogPCs
<1>2. FlagsOK'
  BY Zenon DEF TypeOK, FlagsOK
<1>3. TypeOK'
  BY <1>1, <1>2 DEF TypeOK, AutomationState, Modes, Reasons, confirmTicks
<1>4. DownIsIdle'
  BY DEF DownIsIdle
<1>5. OffIsDurable'
  BY DEF OffIsDurable, TypeOK, AutomationState
<1>6. CriticalSections'
  BY DEF CriticalSections, InCritical, OffInside, DownIsIdle, TypeOK,
     FlagsOK, PCsOK, AutomationState, ClientPCs, WatchdogPCs, PickerPCs
<1>7. LeftoversRemembered'
  BY DEF LeftoversRemembered, CriticalSections, InCritical, OffInside,
     InBoot, TypeOK, FlagsOK, PCsOK
<1> QED BY <1>3, <1>4, <1>5, <1>6, <1>7

\* Sampling the tunnel touches only the hysteresis.
LEMMA SampleTunnelStep ==
  ASSUME IInv, NEW ok \in BOOLEAN, SampleTunnel(ok)
  PROVE  IInv'
<1> USE DEF Processes, engine, prefs, watch, picks, Goto, At
<1> USE DEF IInv, SampleTunnel
<1>1. PCsOK'
  BY WatchdogGoto DEF TypeOK, WatchdogPCs
<1>2. FlagsOK'
  BY Zenon DEF TypeOK, FlagsOK
<1>3. TypeOK'
  BY <1>1, <1>2 DEF TypeOK, AutomationState, Modes, Reasons, confirmTicks
<1>4. DownIsIdle'
  BY DEF DownIsIdle
<1>5. OffIsDurable'
  BY DEF OffIsDurable, TypeOK, AutomationState
<1>6. CriticalSections'
  BY DEF CriticalSections, InCritical, OffInside, DownIsIdle, TypeOK,
     FlagsOK, PCsOK, AutomationState, ClientPCs, WatchdogPCs, PickerPCs
<1>7. LeftoversRemembered'
  BY DEF LeftoversRemembered, CriticalSections, InCritical, OffInside,
     InBoot, TypeOK, FlagsOK, PCsOK
<1> QED BY <1>3, <1>4, <1>5, <1>6, <1>7

\* The stop script of the watchdog, successful or not.
LEMMA WatchdogStopStep ==
  ASSUME IInv, NEW ok \in BOOLEAN, WatchdogStop(ok)
  PROVE  IInv'
<1> USE DEF Processes, engine, prefs, watch, picks, Goto, At
<1> USE DEF IInv, WatchdogStop, Unlock, StopScript
<1>1. PCsOK'
  BY WatchdogGoto DEF TypeOK, WatchdogPCs
<1>2. FlagsOK'
  BY Zenon DEF TypeOK, FlagsOK
<1>3. TypeOK'
  BY <1>1, <1>2 DEF TypeOK, AutomationState, Modes, Reasons, confirmTicks
<1>4. DownIsIdle'
  BY DEF DownIsIdle
<1>5. OffIsDurable'
  BY DEF OffIsDurable, TypeOK, AutomationState
<1>6. CriticalSections'
  BY DEF CriticalSections, InCritical, OffInside, DownIsIdle, TypeOK,
     FlagsOK, PCsOK, AutomationState, ClientPCs, WatchdogPCs, PickerPCs
<1>7. LeftoversRemembered'
  BY DEF LeftoversRemembered, CriticalSections, InCritical, OffInside,
     InBoot, TypeOK, FlagsOK, PCsOK
<1> QED BY <1>3, <1>4, <1>5, <1>6, <1>7

\* The start script of the watchdog, which runs only without OFF.
LEMMA WatchdogStartStep ==
  ASSUME IInv, NEW ok \in BOOLEAN, WatchdogStart(ok)
  PROVE  IInv'
<1> USE DEF Processes, engine, prefs, watch, picks, Goto, At
<1> USE DEF IInv, WatchdogStart, Unlock, StartScript
<1>1. PCsOK'
  BY WatchdogGoto DEF TypeOK, WatchdogPCs
<1>2. FlagsOK'
  BY Zenon DEF TypeOK, FlagsOK
<1>3. TypeOK'
  BY <1>1, <1>2 DEF TypeOK, AutomationState, Modes, Reasons, confirmTicks
<1>4. DownIsIdle'
  BY DEF DownIsIdle
<1>5. OffIsDurable'
  BY DEF OffIsDurable, TypeOK, AutomationState
<1>6. CriticalSections'
  BY DEF CriticalSections, InCritical, OffInside, DownIsIdle, TypeOK,
     FlagsOK, PCsOK, AutomationState, ClientPCs, WatchdogPCs, PickerPCs
<1>7. LeftoversRemembered'
  BY DEF LeftoversRemembered, CriticalSections, InCritical, OffInside,
     InBoot, TypeOK, FlagsOK, PCsOK
<1> QED BY <1>3, <1>4, <1>5, <1>6, <1>7

\* The test-and-set of pickRunning.
LEMMA BeginPickStep ==
  ASSUME IInv, NEW p \in Pickers, BeginPick(p)
  PROVE  IInv'
<1> USE DEF Processes, engine, prefs, watch, picks, Goto, At
<1> USE DEF IInv, BeginPick
<1>1. PCsOK'
  BY PickerGoto DEF TypeOK, PickerPCs
<1>2. FlagsOK'
  BY Zenon DEF TypeOK, FlagsOK
<1>3. TypeOK'
  BY <1>1, <1>2 DEF TypeOK, AutomationState, Modes, Reasons, confirmTicks
<1>4. DownIsIdle'
  BY DEF DownIsIdle
<1>5. OffIsDurable'
  BY DEF OffIsDurable, TypeOK, AutomationState
<1>6. CriticalSections'
  BY DEF CriticalSections, InCritical, OffInside, DownIsIdle, TypeOK,
     FlagsOK, PCsOK, AutomationState, ClientPCs, WatchdogPCs, PickerPCs
<1>7. LeftoversRemembered'
  BY DEF LeftoversRemembered, CriticalSections, InCritical, OffInside,
     InBoot, TypeOK, FlagsOK, PCsOK
<1> QED BY <1>3, <1>4, <1>5, <1>6, <1>7

\* A pick takes serviceMu to apply, or gives up under OFF.
LEMMA LockForApplyStep ==
  ASSUME IInv, NEW p \in Pickers, LockForApply(p)
  PROVE  IInv'
<1> USE DEF Processes, engine, prefs, watch, picks, Goto, At
<1> USE DEF IInv, LockForApply, autoPickAllowed, Lock, SaveIgnoringErrors
<1>1. PCsOK'
  BY PickerGoto DEF TypeOK, PickerPCs
<1>2. FlagsOK'
  BY Zenon DEF TypeOK, FlagsOK
<1>3. TypeOK'
  BY <1>1, <1>2 DEF TypeOK, AutomationState, Modes, Reasons, confirmTicks
<1>4. DownIsIdle'
  BY DEF DownIsIdle
<1>5. OffIsDurable'
  BY DEF OffIsDurable, TypeOK, AutomationState
<1>6. CriticalSections'
  BY DEF CriticalSections, InCritical, OffInside, DownIsIdle, TypeOK,
     FlagsOK, PCsOK, AutomationState, ClientPCs, WatchdogPCs, PickerPCs
<1>7. LeftoversRemembered'
  BY DEF LeftoversRemembered, CriticalSections, InCritical, OffInside,
     InBoot, TypeOK, FlagsOK, PCsOK
<1> QED BY <1>3, <1>4, <1>5, <1>6, <1>7

\* A successful pick is recorded; the save may be lost, the override is not.
LEMMA RecordPickStep ==
  ASSUME IInv, NEW p \in Pickers, RecordPick(p)
  PROVE  IInv'
<1> USE DEF Processes, engine, prefs, watch, picks, Goto, At
<1> USE DEF IInv, RecordPick, SaveIgnoringErrors
<1>1. PCsOK'
  BY PickerGoto DEF TypeOK, PickerPCs
<1>2. FlagsOK'
  BY Zenon DEF TypeOK, FlagsOK
<1>3. TypeOK'
  BY <1>1, <1>2 DEF TypeOK, AutomationState, Modes, Reasons, confirmTicks
<1>4. DownIsIdle'
  BY DEF DownIsIdle
<1>5. OffIsDurable'
  BY DEF OffIsDurable, TypeOK, AutomationState
<1>6. CriticalSections'
  BY DEF CriticalSections, InCritical, OffInside, DownIsIdle, TypeOK,
     FlagsOK, PCsOK, AutomationState, ClientPCs, WatchdogPCs, PickerPCs
<1>7. LeftoversRemembered'
  BY DEF LeftoversRemembered, CriticalSections, InCritical, OffInside,
     InBoot, TypeOK, FlagsOK, PCsOK
<1> QED BY <1>3, <1>4, <1>5, <1>6, <1>7

\* A scan ends; a recorded error keeps the override.
LEMMA ScanEndedStep ==
  ASSUME IInv, NEW p \in Pickers, NEW ok \in BOOLEAN, ScanEnded(p, ok)
  PROVE  IInv'
<1> USE DEF Processes, engine, prefs, watch, picks, Goto, At
<1> USE DEF IInv, ScanEnded, SaveIgnoringErrors
<1>1. PCsOK'
  BY PickerGoto DEF TypeOK, PickerPCs
<1>2. FlagsOK'
  BY Zenon DEF TypeOK, FlagsOK
<1>3. TypeOK'
  BY <1>1, <1>2 DEF TypeOK, AutomationState, Modes, Reasons, confirmTicks
<1>4. DownIsIdle'
  BY DEF DownIsIdle
<1>5. OffIsDurable'
  BY DEF OffIsDurable, TypeOK, AutomationState
<1>6. CriticalSections'
  BY DEF CriticalSections, InCritical, OffInside, DownIsIdle, TypeOK,
     FlagsOK, PCsOK, AutomationState, ClientPCs, WatchdogPCs, PickerPCs
<1>7. LeftoversRemembered'
  BY DEF LeftoversRemembered, CriticalSections, InCritical, OffInside,
     InBoot, TypeOK, FlagsOK, PCsOK
<1> QED BY <1>3, <1>4, <1>5, <1>6, <1>7

\* A pick writes nfqws2.conf under serviceMu.
LEMMA WriteStrategyStep ==
  ASSUME IInv, NEW p \in Pickers, NEW ok \in BOOLEAN, WriteStrategy(p, ok)
  PROVE  IInv'
<1> USE DEF Processes, engine, prefs, watch, picks, Goto, At
<1> USE DEF IInv, WriteStrategy, SaveIgnoringErrors, Unlock
<1>1. PCsOK'
  BY PickerGoto DEF TypeOK, PickerPCs
<1>2. FlagsOK'
  BY Zenon DEF TypeOK, FlagsOK
<1>3. TypeOK'
  BY <1>1, <1>2 DEF TypeOK, AutomationState, Modes, Reasons, confirmTicks
<1>4. DownIsIdle'
  BY DEF DownIsIdle
<1>5. OffIsDurable'
  BY DEF OffIsDurable, TypeOK, AutomationState
<1>6. CriticalSections'
  BY DEF CriticalSections, InCritical, OffInside, DownIsIdle, TypeOK,
     FlagsOK, PCsOK, AutomationState, ClientPCs, WatchdogPCs, PickerPCs
<1>7. LeftoversRemembered'
  BY DEF LeftoversRemembered, CriticalSections, InCritical, OffInside,
     InBoot, TypeOK, FlagsOK, PCsOK
<1> QED BY <1>3, <1>4, <1>5, <1>6, <1>7

\* A pick restarts the engine under serviceMu.
LEMMA RestartForPickStep ==
  ASSUME IInv, NEW p \in Pickers, NEW ok \in BOOLEAN, RestartForPick(p, ok)
  PROVE  IInv'
<1> USE DEF Processes, engine, prefs, watch, picks, Goto, At
<1> USE DEF IInv, RestartForPick, SaveIgnoringErrors, StartScript, Unlock
<1>1. PCsOK'
  BY PickerGoto DEF TypeOK, PickerPCs
<1>2. FlagsOK'
  BY Zenon DEF TypeOK, FlagsOK
<1>3. TypeOK'
  BY <1>1, <1>2 DEF TypeOK, AutomationState, Modes, Reasons, confirmTicks
<1>4. DownIsIdle'
  BY DEF DownIsIdle
<1>5. OffIsDurable'
  BY DEF OffIsDurable, TypeOK, AutomationState
<1>6. CriticalSections'
  BY DEF CriticalSections, InCritical, OffInside, DownIsIdle, TypeOK,
     FlagsOK, PCsOK, AutomationState, ClientPCs, WatchdogPCs, PickerPCs
<1>7. LeftoversRemembered'
  BY DEF LeftoversRemembered, CriticalSections, InCritical, OffInside,
     InBoot, TypeOK, FlagsOK, PCsOK
<1> QED BY <1>3, <1>4, <1>5, <1>6, <1>7

\* The button spawns a pick goroutine.
LEMMA TriggerAutoPickNowStep ==
  ASSUME IInv, NEW p \in Pickers, TriggerAutoPickNow(p)
  PROVE  IInv'
<1> USE DEF Processes, engine, prefs, watch, picks, Goto, At
<1> USE DEF IInv, TriggerAutoPickNow, Spawn
<1>1. PCsOK'
  BY DEF TypeOK, PCsOK, ClientPCs, PickerPCs, WatchdogPCs
<1>2. FlagsOK'
  BY Zenon DEF TypeOK, FlagsOK
<1>3. TypeOK'
  BY <1>1, <1>2 DEF TypeOK, AutomationState, Modes, Reasons, confirmTicks
<1>4. DownIsIdle'
  BY DEF DownIsIdle
<1>5. OffIsDurable'
  BY DEF OffIsDurable, TypeOK, AutomationState
<1>6. CriticalSections'
  BY DEF CriticalSections, InCritical, OffInside, DownIsIdle, TypeOK,
     FlagsOK, PCsOK, AutomationState, ClientPCs, WatchdogPCs, PickerPCs
<1>7. LeftoversRemembered'
  BY DEF LeftoversRemembered, CriticalSections, InCritical, OffInside,
     InBoot, TypeOK, FlagsOK, PCsOK
<1> QED BY <1>3, <1>4, <1>5, <1>6, <1>7

\* A configuration post keeps the override it does not carry.
LEMMA SetAutomationConfigStep ==
  ASSUME IInv, NEW in \in Settings, SetAutomationConfig(in)
  PROVE  IInv'
<1> USE DEF Processes, engine, prefs, watch, picks, Goto, At
<1> USE DEF IInv, SetAutomationConfig
<1>1. PCsOK'
  BY DEF TypeOK, PCsOK
<1>2. FlagsOK'
  BY Zenon DEF TypeOK, FlagsOK
<1>3. TypeOK'
  <2>1. in \in AutomationConfig
    BY SettingsAssumption
  <2>2. mem' \in AutomationState /\ disk' \in AutomationState
    BY <2>1 DEF TypeOK, AutomationState, AutomationConfig
  <2> QED BY <1>1, <1>2, <2>2 DEF TypeOK, confirmTicks
<1>4. DownIsIdle'
  BY DEF DownIsIdle
<1>5. OffIsDurable'
  BY DEF OffIsDurable, TypeOK, AutomationState
<1>6. CriticalSections'
  BY DEF CriticalSections, InCritical, OffInside, DownIsIdle, TypeOK,
     FlagsOK, PCsOK, AutomationState, ClientPCs, WatchdogPCs, PickerPCs
<1>7. LeftoversRemembered'
  BY DEF LeftoversRemembered, CriticalSections, InCritical, OffInside,
     InBoot, TypeOK, FlagsOK, PCsOK
<1> QED BY <1>3, <1>4, <1>5, <1>6, <1>7

\* The panel dies: goroutines, locks and memory are gone.
LEMMA CrashStep ==
  ASSUME IInv, Crash
  PROVE  IInv'
<1> USE DEF Processes, engine, prefs, watch, picks, Goto, At
<1> USE DEF IInv, Crash, defaultAutomation
<1>1. PCsOK'
  BY DEF TypeOK, PCsOK, ClientPCs, PickerPCs, WatchdogPCs
<1>2. FlagsOK'
  BY Zenon DEF TypeOK, FlagsOK
<1>3. TypeOK'
  BY <1>1, <1>2 DEF TypeOK, AutomationState, Modes, Reasons, confirmTicks
<1>4. DownIsIdle'
  BY DEF DownIsIdle
<1>5. OffIsDurable'
  BY DEF OffIsDurable, TypeOK, AutomationState
<1>6. CriticalSections'
  BY DEF CriticalSections, InCritical, OffInside, DownIsIdle, TypeOK,
     FlagsOK, PCsOK, AutomationState, ClientPCs, WatchdogPCs, PickerPCs
<1>7. LeftoversRemembered'
  BY DEF LeftoversRemembered, CriticalSections, InCritical, OffInside,
     InBoot, TypeOK, FlagsOK, PCsOK
<1> QED BY <1>3, <1>4, <1>5, <1>6, <1>7

\* The panel starts from what the file holds.
LEMMA BootStep ==
  ASSUME IInv, Boot
  PROVE  IInv'
<1> USE DEF Processes, engine, prefs, watch, picks, Goto, At
<1> USE DEF IInv, Boot, SaveIgnoringErrors
<1>1. PCsOK'
  BY WatchdogGoto DEF TypeOK, WatchdogPCs
<1>2. FlagsOK'
  BY Zenon DEF TypeOK, FlagsOK
<1>3. TypeOK'
  BY <1>1, <1>2 DEF TypeOK, AutomationState, Modes, Reasons, confirmTicks
<1>4. DownIsIdle'
  BY DEF DownIsIdle
<1>5. OffIsDurable'
  BY DEF OffIsDurable, TypeOK, AutomationState
<1>6. CriticalSections'
  BY DEF CriticalSections, InCritical, OffInside, DownIsIdle, TypeOK,
     FlagsOK, PCsOK, AutomationState, ClientPCs, WatchdogPCs, PickerPCs
<1>7. LeftoversRemembered'
  BY DEF LeftoversRemembered, CriticalSections, InCritical, OffInside,
     InBoot, TypeOK, FlagsOK, PCsOK
<1> QED BY <1>3, <1>4, <1>5, <1>6, <1>7

\* The engine dies by itself.
LEMMA EngineDiesStep ==
  ASSUME IInv, EngineDies
  PROVE  IInv'
<1> USE DEF Processes, engine, prefs, watch, picks, Goto, At
<1> USE DEF IInv, EngineDies
<1>1. PCsOK'
  BY DEF TypeOK, PCsOK
<1>2. FlagsOK'
  BY Zenon DEF TypeOK, FlagsOK
<1>3. TypeOK'
  BY <1>1, <1>2 DEF TypeOK, AutomationState, Modes, Reasons, confirmTicks
<1>4. DownIsIdle'
  BY DEF DownIsIdle
<1>5. OffIsDurable'
  BY DEF OffIsDurable, TypeOK, AutomationState
<1>6. CriticalSections'
  BY DEF CriticalSections, InCritical, OffInside, DownIsIdle, TypeOK,
     FlagsOK, PCsOK, AutomationState, ClientPCs, WatchdogPCs, PickerPCs
<1>7. LeftoversRemembered'
  BY DEF LeftoversRemembered, CriticalSections, InCritical, OffInside,
     InBoot, TypeOK, FlagsOK, PCsOK
<1> QED BY <1>3, <1>4, <1>5, <1>6, <1>7

\* Somebody outside the panel starts the engine.
LEMMA EngineStartedByVendorStep ==
  ASSUME IInv, EngineStartedByVendor
  PROVE  IInv'
<1> USE DEF Processes, engine, prefs, watch, picks, Goto, At
<1> USE DEF IInv, EngineStartedByVendor
<1>1. PCsOK'
  BY DEF TypeOK, PCsOK
<1>2. FlagsOK'
  BY Zenon DEF TypeOK, FlagsOK
<1>3. TypeOK'
  BY <1>1, <1>2 DEF TypeOK, AutomationState, Modes, Reasons, confirmTicks
<1>4. DownIsIdle'
  BY DEF DownIsIdle
<1>5. OffIsDurable'
  BY DEF OffIsDurable, TypeOK, AutomationState
<1>6. CriticalSections'
  BY DEF CriticalSections, InCritical, OffInside, DownIsIdle, TypeOK,
     FlagsOK, PCsOK, AutomationState, ClientPCs, WatchdogPCs, PickerPCs
<1>7. LeftoversRemembered'
  BY DEF LeftoversRemembered, CriticalSections, InCritical, OffInside,
     InBoot, TypeOK, FlagsOK, PCsOK
<1> QED BY <1>3, <1>4, <1>5, <1>6, <1>7

\* Every step of the system keeps the invariant.
LEMMA IInvStep == IInv /\ [Next]_vars => IInv'
<1> SUFFICES ASSUME IInv, [Next]_vars PROVE IInv'
  OBVIOUS
<1>1. ASSUME NEW c \in Clients, ClientStep(c) PROVE IInv'
  BY <1>1, Nfqws2StopStep, Nfqws2StartStep, ApplyStrategyToConfigStep,
     RestartNfqws2Step, RestartRefusedStep, FirewallApplyStep,
     BypassAppliedStep, PackageUpdateStep, PackageInstalledStep,
     StopAndReleaseStep, StartEngineStep, ClearManualOffStep,
     RestartEngineStep DEF ClientStep
<1>2. ASSUME WatchdogStep PROVE IInv'
  BY <1>2, CheckBootOffStep, RestoreManualOffStep, FirstBootPickStep,
     EnforceAutomationStep, PeriodicPickStep, SampleTunnelStep,
     WatchdogStopStep, WatchdogStartStep DEF WatchdogStep
<1>3. ASSUME NEW p \in Pickers, PickerStep(p) PROVE IInv'
  BY <1>3, BeginPickStep, LockForApplyStep, RecordPickStep, ScanEndedStep,
     WriteStrategyStep, RestartForPickStep DEF PickerStep
<1>4. CASE UNCHANGED vars
  BY <1>4 DEF vars, IInv, TypeOK, PCsOK, FlagsOK, DownIsIdle, OffIsDurable,
     CriticalSections, InCritical, OffInside, LeftoversRemembered, InBoot
<1> QED
  BY <1>1, <1>2, <1>3, <1>4, TriggerAutoPickNowStep, SetAutomationConfigStep,
     CrashStep, BootStep, EngineDiesStep, EngineStartedByVendorStep DEF Next

\* In every behaviour: on and off commands, picks, watchdog ticks, failed
\* scripts, lost saves and crashes in any order keep the inductive invariant.
THEOREM Invariance == Spec => []IInv
  BY InitIInv, IInvStep, PTL DEF Spec

(* Whatever the interleaving, the types hold. *)
THEOREM TypeCorrect == Spec => []TypeOK
  BY Invariance, PTL DEF IInv

(* The override in memory and the one on disk agree while the panel is up
   (persistNfqws2ManualOff against every other writer of automation.json). *)
THEOREM Durability == Spec => []OffIsDurable
  BY Invariance, PTL DEF IInv

(* serviceMu excludes, and the override does not change under a script that
   relies on it. *)
THEOREM Exclusion == Spec => []CriticalSections
  BY Invariance, PTL DEF IInv

(* Leftovers of a failed stop under OFF are always in serviceNeedsStop. *)
THEOREM Leftovers == Spec => []LeftoversRemembered
  BY Invariance, PTL DEF IInv

(* The two action properties, as facts about one step. *)
ClearedByStart ==
  disk.ManualOff /\ ~disk'.ManualOff
    => \E c \in Clients : pc[c] = "clearing" /\ serviceMu = c

\* A step that clears the saved OFF is the one that ends Nfqws2Start.
LEMMA ClearedByStartStep == IInv /\ [Next]_vars => ClearedByStart
<1> SUFFICES ASSUME IInv, [Next]_vars, disk.ManualOff, ~disk'.ManualOff
             PROVE  \E c \in Clients : pc[c] = "clearing" /\ serviceMu = c
  BY DEF ClearedByStart
<1> USE DEF IInv, prefs
<1>1. mem.ManualOff \/ ~up
  BY DEF OffIsDurable, TypeOK, AutomationState
<1>2. ASSUME NEW c \in Clients, ClientStep(c)
      PROVE  \E d \in Clients : pc[d] = "clearing" /\ serviceMu = d
  <2>1. ASSUME Nfqws2Stop(c) PROVE FALSE
    BY <2>1 DEF Nfqws2Stop, PersistManualOff, TypeOK, AutomationState
  <2>2. ASSUME NEW ok \in BOOLEAN, ClearManualOff(c, ok)
        PROVE  pc[c] = "clearing" /\ serviceMu = c
    BY <2>2 DEF ClearManualOff, At, CriticalSections, InCritical, Processes
  <2>3. disk' = disk \/ Nfqws2Stop(c)
        \/ \E ok \in BOOLEAN : ClearManualOff(c, ok)
    BY <1>2 DEF ClientStep, Nfqws2Start, ApplyStrategyToConfig, RestartNfqws2,
       RestartRefused, FirewallApply, BypassApplied, PackageUpdate,
       PackageInstalled, StopAndRelease, StartEngine, RestartEngine
  <2> QED BY <2>1, <2>2, <2>3
<1>3. ASSUME WatchdogStep PROVE FALSE
  <2>1. ASSUME FirstBootPick PROVE FALSE
    <3>1. disk' = disk \/ disk' = [mem EXCEPT !.Picked = TRUE]
      BY <2>1 DEF FirstBootPick, SaveIgnoringErrors
    <3> QED BY <1>1, <2>1, <3>1 DEF FirstBootPick, At, TypeOK, AutomationState
  <2>2. disk' = disk \/ FirstBootPick
    BY <1>3 DEF WatchdogStep, CheckBootOff, RestoreManualOff, SampleTunnel,
       EnforceAutomation, PeriodicPick, WatchdogStop, WatchdogStart
  <2> QED BY <2>1, <2>2
<1>4. ASSUME NEW p \in Pickers, PickerStep(p) PROVE FALSE
  <2>1. up /\ disk' \in {disk, mem, [mem EXCEPT !.Picked = TRUE]}
    BY <1>4 DEF PickerStep, BeginPick, ScanEnded, LockForApply, WriteStrategy,
       RestartForPick, RecordPick, SaveIgnoringErrors, At
  <2> QED BY <1>1, <2>1 DEF TypeOK, AutomationState
<1>5. ASSUME NEW in \in Settings, SetAutomationConfig(in) PROVE FALSE
  BY <1>1, <1>5 DEF SetAutomationConfig, TypeOK, AutomationState
<1>6. ASSUME Boot PROVE FALSE
  BY <1>6 DEF Boot, SaveIgnoringErrors, TypeOK, AutomationState
<1>7. disk' = disk \/ WatchdogStep \/ Boot
      \/ (\E c \in Clients : ClientStep(c))
      \/ (\E p \in Pickers : PickerStep(p))
      \/ (\E in \in Settings : SetAutomationConfig(in))
  BY DEF Next, vars, TriggerAutoPickNow, Crash, EngineDies,
     EngineStartedByVendor
<1> QED BY <1>2, <1>3, <1>4, <1>5, <1>6, <1>7

(* Only an explicit Nfqws2Start, holding serviceMu, clears a saved OFF. *)
THEOREM ExplicitStartOnly == Spec => OnlyStartClearsOff
<1>1. IInv /\ [Next]_vars => [ClearedByStart]_vars
  BY ClearedByStartStep
<1> QED BY <1>1, Invariance, PTL DEF Spec, OnlyStartClearsOff, ClearedByStart

TurnedOnByStart ==
  up /\ disk.ManualOff /\ ((running' /\ ~running) \/ (rules' /\ ~rules))
    => foreign' \/ (\E c \in Clients : pc[c] = "starting")

\* A step of the panel that turns the engine on under OFF is an explicit start.
LEMMA TurnedOnByStartStep == IInv /\ [Next]_vars => TurnedOnByStart
<1> SUFFICES ASSUME IInv, [Next]_vars, up, disk.ManualOff,
                    (running' /\ ~running) \/ (rules' /\ ~rules)
             PROVE  foreign' \/ (\E c \in Clients : pc[c] = "starting")
  BY DEF TurnedOnByStart
<1> USE DEF IInv, engine
<1>1. mem.ManualOff
  BY DEF OffIsDurable, TypeOK, AutomationState
<1>2. \A p \in Processes : InCritical(p) => OffInside(p)
  BY <1>1 DEF CriticalSections
<1>3. ASSUME NEW c \in Clients, ClientStep(c)
      PROVE  foreign' \/ (\E d \in Clients : pc[d] = "starting")
  <2>1. ASSUME BypassApplied(c) PROVE FALSE
    BY <1>2, <2>1 DEF BypassApplied, At, Processes, InCritical, OffInside
  <2>2. ASSUME NEW ok \in BOOLEAN, RestartEngine(c, ok) PROVE FALSE
    BY <1>2, <2>2 DEF RestartEngine, At, Processes, InCritical, OffInside
  <2>3. ASSUME NEW ok \in BOOLEAN, StopAndRelease(c, ok) PROVE FALSE
    BY <2>3, Zenon DEF StopAndRelease, StopScript, TypeOK, FlagsOK
  <2>4. ASSUME NEW ok \in BOOLEAN, StartEngine(c, ok) PROVE pc[c] = "starting"
    BY <2>4 DEF StartEngine, At
  <2>5. ASSUME PackageInstalled(c) PROVE foreign'
    BY <2>5 DEF PackageInstalled
  <2>6. \/ UNCHANGED <<running, rules>>
        \/ BypassApplied(c) \/ PackageInstalled(c)
        \/ \E ok \in BOOLEAN : \/ RestartEngine(c, ok)
                               \/ StopAndRelease(c, ok)
                               \/ StartEngine(c, ok)
    BY <1>3 DEF ClientStep, Nfqws2Stop, Nfqws2Start, ApplyStrategyToConfig,
       RestartNfqws2, RestartRefused, FirewallApply, PackageUpdate,
       ClearManualOff
  <2> QED BY <2>1, <2>2, <2>3, <2>4, <2>5, <2>6
<1>4. ASSUME WatchdogStep PROVE FALSE
  <2>1. ASSUME NEW ok \in BOOLEAN, WatchdogStart(ok) PROVE FALSE
    BY <1>2, <2>1, ProcessAssumption
       DEF WatchdogStart, At, Processes, InCritical, OffInside
  <2>2. ASSUME NEW ok \in BOOLEAN, WatchdogStop(ok) PROVE FALSE
    BY <2>2, Zenon DEF WatchdogStop, StopScript, TypeOK, FlagsOK
  <2>3. \/ UNCHANGED <<running, rules>>
        \/ \E ok \in BOOLEAN : WatchdogStart(ok) \/ WatchdogStop(ok)
    BY <1>4 DEF WatchdogStep, CheckBootOff, RestoreManualOff, FirstBootPick,
       SampleTunnel, EnforceAutomation, PeriodicPick
  <2> QED BY <2>1, <2>2, <2>3
<1>5. ASSUME NEW p \in Pickers, PickerStep(p) PROVE FALSE
  <2>1. ASSUME NEW ok \in BOOLEAN, RestartForPick(p, ok) PROVE FALSE
    BY <1>2, <2>1, ProcessAssumption
       DEF RestartForPick, At, Processes, InCritical, OffInside
  <2>2. \/ UNCHANGED <<running, rules>>
        \/ \E ok \in BOOLEAN : RestartForPick(p, ok)
    BY <1>5 DEF PickerStep, BeginPick, ScanEnded, LockForApply, WriteStrategy,
       RecordPick
  <2> QED BY <2>1, <2>2
<1>6. ASSUME EngineDies PROVE FALSE
  BY <1>6 DEF EngineDies
<1>7. ASSUME EngineStartedByVendor PROVE foreign'
  BY <1>7 DEF EngineStartedByVendor
<1>8. \/ UNCHANGED <<running, rules>>
      \/ WatchdogStep \/ EngineDies \/ EngineStartedByVendor
      \/ (\E c \in Clients : ClientStep(c))
      \/ (\E p \in Pickers : PickerStep(p))
  BY DEF Next, vars, TriggerAutoPickNow, SetAutomationConfig, Crash, Boot
<1> QED BY <1>3, <1>4, <1>5, <1>6, <1>7, <1>8

(* With OFF saved the panel turns the engine on only inside Nfqws2Start: no
   restart, bypass, watchdog tick or auto-pick does. *)
THEOREM OffKeptByAutomation == Spec => OffRespected
<1>1. IInv /\ [Next]_vars => [TurnedOnByStart]_vars
  BY TurnedOnByStartStep
<1> QED BY <1>1, Invariance, PTL DEF Spec, OffRespected, TurnedOnByStart

-----------------------------------------------------------------------------
(* The automatic pick *)

\* A runAutoPick that is past its test-and-set.
Picking(p) == pc[p] \notin {"idle", "queued"}

\* OnePick without its local set.
PickIsOne ==
  /\ \A p, q \in Pickers : Picking(p) /\ Picking(q) => p = q
  /\ pickRunning <=> \E p \in Pickers : Picking(p)

\* The two forms of the property agree.
LEMMA PickForms == PickIsOne <=> OnePick
BY DEF PickIsOne, OnePick, Picking

\* A step that leaves the flag and the picks under way alone keeps it.
LEMMA PicksUntouched ==
  ASSUME PickIsOne, pickRunning' = pickRunning,
         \A p \in Pickers : Picking(p)' <=> Picking(p)
  PROVE  PickIsOne'
BY DEF PickIsOne

\* So does the end of the pick under way, which clears the flag.
LEMMA PickEnds ==
  ASSUME IInv, PickIsOne, NEW p \in Pickers, Picking(p), Goto(p, "idle"), pickRunning' = FALSE
  PROVE  PickIsOne'
<1>1. \A q \in Pickers : ~Picking(q)'
  BY DEF PickIsOne, Picking, Goto, IInv, TypeOK, PCsOK, Processes
<1> QED BY <1>1, Zenon DEF PickIsOne

\* And a step of the pick under way to another of its places.
LEMMA PickGoesOn ==
  ASSUME IInv, PickIsOne, NEW p \in Pickers, Picking(p), NEW l \in PickerPCs \ {"idle", "queued"},
         Goto(p, l), pickRunning' = pickRunning
  PROVE  PickIsOne'
<1>1. \A q \in Pickers : Picking(q)' <=> Picking(q)
  BY DEF Picking, Goto, IInv, TypeOK, PCsOK, Processes
<1> QED BY <1>1, PicksUntouched

\* The steps of one pick.
LEMMA PickIsOne_Picker ==
  ASSUME IInv, PickIsOne, NEW p \in Pickers, PickerStep(p)
  PROVE  PickIsOne'
<1> USE DEF PickerPCs
<1>1. ASSUME BeginPick(p) PROVE PickIsOne'
  <2>1. CASE autoPickAllowed(reason[p]) /\ ~pickRunning
    <3>1. pickRunning' = TRUE /\ Goto(p, "scanning")
      BY <1>1, <2>1 DEF BeginPick
    <3>2. \A q \in Pickers : Picking(q)' <=> q = p
      BY <2>1, <3>1 DEF PickIsOne, Picking, Goto, IInv, TypeOK, PCsOK, Processes
    <3> QED BY <3>1, <3>2 DEF PickIsOne
  <2>2. CASE ~(autoPickAllowed(reason[p]) /\ ~pickRunning)
    <3>1. pc[p] = "queued" /\ pickRunning' = pickRunning /\ Goto(p, "idle")
      BY <1>1, <2>2 DEF BeginPick, At
    <3>2. \A q \in Pickers : Picking(q)' <=> Picking(q)
      BY <3>1 DEF Picking, Goto, IInv, TypeOK, PCsOK, Processes
    <3> QED BY <3>1, <3>2, PicksUntouched
  <2> QED BY <2>1, <2>2
<1>2. ASSUME NEW l \in {"apply", "writing", "restarting", "record"},
             Picking(p), \/ Goto(p, l) /\ UNCHANGED pickRunning
                         \/ Goto(p, "idle") /\ pickRunning' = FALSE
      PROVE  PickIsOne'
  BY <1>2, PickEnds, PickGoesOn
<1>3. ASSUME NEW b \in BOOLEAN, ScanEnded(p, b) PROVE PickIsOne'
  BY <1>2, <1>3 DEF ScanEnded, At, Picking
<1>4. ASSUME LockForApply(p) PROVE PickIsOne'
  BY <1>2, <1>4 DEF LockForApply, At, Picking
<1>5. ASSUME NEW b \in BOOLEAN, WriteStrategy(p, b) PROVE PickIsOne'
  BY <1>2, <1>5 DEF WriteStrategy, At, Picking
<1>6. ASSUME NEW b \in BOOLEAN, RestartForPick(p, b) PROVE PickIsOne'
  BY <1>2, <1>6 DEF RestartForPick, At, Picking
<1>7. ASSUME RecordPick(p) PROVE PickIsOne'
  BY <1>2, <1>7 DEF RecordPick, At, Picking
<1> QED BY <1>1, <1>3, <1>4, <1>5, <1>6, <1>7 DEF PickerStep

\* A new goroutine is queued, which is not yet a pick.
LEMMA PickIsOne_Spawn ==
  ASSUME IInv, PickIsOne, NEW p \in Pickers, NEW r, NEW l, Spawn(p, r, l),
         pickRunning' = pickRunning
  PROVE  PickIsOne'
<1>1. \A q \in Pickers : Picking(q)' <=> Picking(q)
  BY DEF Picking, Spawn, IInv, TypeOK, PCsOK, Processes
<1> QED BY <1>1, PicksUntouched

\* Every step keeps at most one pick under way.
LEMMA PickIsOneStep == IInv /\ PickIsOne /\ [Next]_vars => PickIsOne'
<1> SUFFICES ASSUME IInv, PickIsOne, [Next]_vars PROVE PickIsOne'
  OBVIOUS
<1> USE DEF picks
<1>1. ASSUME pickRunning' = pickRunning, \A p \in Pickers : pc'[p] = pc[p] PROVE PickIsOne'
  BY <1>1, PicksUntouched DEF Picking
<1>2. ASSUME NEW c \in Clients, ClientStep(c) PROVE PickIsOne'
  <2>1. pickRunning' = pickRunning /\ \E l \in ClientPCs : Goto(c, l)
    BY <1>2 DEF ClientStep, Nfqws2Stop, Nfqws2Start, ApplyStrategyToConfig, RestartNfqws2,
       RestartRefused, FirewallApply, BypassApplied, PackageUpdate, PackageInstalled,
       StopAndRelease, StartEngine, ClearManualOff, RestartEngine, ClientPCs
  <2>2. \A p \in Pickers : pc'[p] = pc[p]
    BY <2>1 DEF Goto, IInv, TypeOK, PCsOK, Processes
  <2> QED BY <1>1, <2>1, <2>2
<1>3. ASSUME WatchdogStep PROVE PickIsOne'
  <2>1. pickRunning' = pickRunning
    BY <1>3 DEF WatchdogStep, CheckBootOff, RestoreManualOff, FirstBootPick, SampleTunnel,
       EnforceAutomation, PeriodicPick, WatchdogStop, WatchdogStart
  <2>2. \/ \E l \in WatchdogPCs : Goto(Watchdog, l)
        \/ \E p \in Pickers, r \in Reasons : Spawn(p, r, "step")
    BY <1>3 DEF WatchdogStep, CheckBootOff, RestoreManualOff, FirstBootPick, SampleTunnel,
       EnforceAutomation, PeriodicPick, WatchdogStop, WatchdogStart, Enforcement, WatchdogPCs, Reasons
  <2>3. ASSUME NEW l \in WatchdogPCs, Goto(Watchdog, l) PROVE PickIsOne'
    <3>1. \A p \in Pickers : pc'[p] = pc[p]
      BY <2>3 DEF Goto, IInv, TypeOK, PCsOK, Processes
    <3> QED BY <1>1, <2>1, <3>1
  <2> QED BY <2>1, <2>2, <2>3, PickIsOne_Spawn
<1>4. ASSUME NEW p \in Pickers, TriggerAutoPickNow(p) PROVE PickIsOne'
  BY <1>4, PickIsOne_Spawn DEF TriggerAutoPickNow
<1>5. ASSUME Crash PROVE PickIsOne'
  BY <1>5, Zenon DEF Crash, PickIsOne, Picking, Processes
<1>6. ASSUME Boot PROVE PickIsOne'
  <2>1. \A p \in Pickers : pc'[p] = pc[p]
    BY <1>6 DEF Boot, Goto, IInv, TypeOK, PCsOK, Processes
  <2> QED BY <1>1, <1>6, <2>1 DEF Boot
<1>7. ASSUME UNCHANGED <<pc, pickRunning>> PROVE PickIsOne'
  BY <1>1, <1>7
<1>8. ASSUME NEW in \in Settings, SetAutomationConfig(in) PROVE PickIsOne'
  BY <1>7, <1>8 DEF SetAutomationConfig
<1>9. ASSUME EngineDies \/ EngineStartedByVendor PROVE PickIsOne'
  BY <1>7, <1>9 DEF EngineDies, EngineStartedByVendor
<1>10. CASE UNCHANGED vars
  BY <1>7, <1>10 DEF vars
<1> QED
  BY <1>2, <1>3, <1>4, <1>5, <1>6, <1>8, <1>9, <1>10, PickIsOne_Picker DEF Next

\* At most one runAutoPick is past its test-and-set, whoever started it (the
\* user, the first boot, the periodic re-scan), and the flag says so.
THEOREM OnePickAtATime == Spec => []OnePick
<1>1. Init => PickIsOne
  BY DEF Init, PickIsOne, Picking, Processes
<1> QED BY <1>1, PickIsOneStep, PickForms, Invariance, PTL DEF Spec

\* A pick that writes nfqws2.conf.
PickWritesOn == conf' = "auto" /\ conf # "auto" => ~disk.ManualOff

\* Only WriteStrategy does, inside serviceMu, where the override is off.
LEMMA PickWritesOnStep == IInv /\ [Next]_vars => PickWritesOn
<1> SUFFICES ASSUME IInv, [Next]_vars, conf' = "auto", conf # "auto"
             PROVE  ~disk.ManualOff
  BY DEF PickWritesOn
<1> USE DEF picks
<1>1. \E p \in Pickers : WriteStrategy(p, TRUE)
  <2>1. ASSUME NEW c \in Clients, ClientStep(c) PROVE FALSE
    BY <2>1 DEF ClientStep, Nfqws2Stop, Nfqws2Start, ApplyStrategyToConfig, RestartNfqws2,
       RestartRefused, FirewallApply, BypassApplied, PackageUpdate, PackageInstalled,
       StopAndRelease, StartEngine, ClearManualOff, RestartEngine
  <2>2. ASSUME WatchdogStep PROVE FALSE
    BY <2>2 DEF WatchdogStep, CheckBootOff, RestoreManualOff, FirstBootPick, SampleTunnel,
       EnforceAutomation, PeriodicPick, WatchdogStop, WatchdogStart
  <2>3. ASSUME NEW p \in Pickers, PickerStep(p) PROVE WriteStrategy(p, TRUE)
    BY <2>3 DEF PickerStep, BeginPick, ScanEnded, LockForApply, WriteStrategy, RestartForPick,
       RecordPick
  <2>4. UNCHANGED conf \/ WatchdogStep \/ (\E c \in Clients : ClientStep(c))
        \/ (\E p \in Pickers : PickerStep(p))
    BY DEF Next, vars, TriggerAutoPickNow, SetAutomationConfig, Crash, Boot, EngineDies,
       EngineStartedByVendor
  <2> QED BY <2>1, <2>2, <2>3, <2>4
<1>2. PICK p \in Pickers : WriteStrategy(p, TRUE)
  BY <1>1
<1>3. up /\ pc[p] = "writing"
  BY <1>2 DEF WriteStrategy, At
<1>4. ~mem.ManualOff
  BY <1>3 DEF IInv, CriticalSections, InCritical, OffInside, Processes
<1> QED BY <1>3, <1>4 DEF IInv, OffIsDurable

\* A found strategy is never written to nfqws2.conf while OFF is saved, even if
\* OFF was asked for during the scan (applyAutoPickStrategyForReason).
THEOREM PickKeepsOff == Spec => PickRespectsOff
<1>1. IInv /\ [Next]_vars => [PickWritesOn]_vars
  BY PickWritesOnStep
<1> QED BY <1>1, Invariance, PTL DEF Spec, PickRespectsOff, PickWritesOn

-----------------------------------------------------------------------------
(* The properties of the run that are made of these *)

\* Operations on the engine exclude each other and forget nothing of what a
\* failed stop left behind.
THEOREM EngineIsExclusive == Spec => []EngineExclusive
  BY Invariance, PTL DEF IInv, EngineExclusive

\* A saved OFF ends with an explicit start only, in the file and in the engine.
THEOREM OffIsKept == Spec => OffKept
  BY ExplicitStartOnly, OffKeptByAutomation, PTL DEF OffKept
=============================================================================
