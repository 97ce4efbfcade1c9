----------------------------- MODULE PortForward -----------------------------
(***************************************************************************)
(* Port forwarding: the rules are kept in memory, in a file, in a hook     *)
(* script and in the firewall.  A change saves the file, writes the hook   *)
(* and runs it; the platform runs the same hook after every rebuild of the *)
(* firewall, without a lock.  The scripts pass over a command that fails   *)
(* and may still end as a success; every other step can fail too, and the  *)
(* panel can die between two of them.                                      *)
(***************************************************************************)
EXTENDS Naturals, FiniteSets

CONSTANTS
    PfRules,     \* rules
    PfChanges,   \* bound on changes by the user
    PfFaults,    \* bound on failed steps and crashes
    PfRebuilds   \* bound on rebuilds of the firewall and reboots

ASSUME PfAssumption == "no hook" \notin PfRules /\ PfChanges \in Nat /\ PfFaults \in Nat /\ PfRebuilds \in Nat

VARIABLES
    pfMem,      \* enabled rules in memory
    pfFile,     \* enabled rules in port_forwarding.json
    pfHook,     \* rules in the hook script; pfNoHook: there is none
    pfFw,       \* whether the chains are attached, and the rules in them
    pfRun,      \* the scripts that run: of the panel, of the platform, of a panel that died
    pfPanel,    \* step of the operation that holds mu
    pfClean,    \* nothing went wrong since the chains were last begun anew by one script alone
    pfChange, pfFault, pfRebuild

pfVars == <<pfMem, pfFile, pfHook, pfFw, pfRun, pfPanel, pfClean, pfChange, pfFault, pfRebuild>>

pfNoHook == {"no hook"}
pfStill == [at |-> "idle", todo |-> {}, of |-> {}]  \* of: the rules the script was written for
pfRunners == {"panel", "platform", "orphan"}

pfInit ==
    /\ pfMem = {} /\ pfFile = {} /\ pfHook = pfNoHook /\ pfFw = [jump |-> FALSE, rules |-> {}]
    /\ pfRun = [r \in pfRunners |-> pfStill] /\ pfPanel = "idle" /\ pfClean = TRUE
    /\ pfChange = 0 /\ pfFault = 0 /\ pfRebuild = 0

pfFails == pfFault < PfFaults /\ pfFault' = pfFault + 1
pfGivesUp == pfFails /\ pfPanel' = "idle" /\ pfClean' = FALSE

-----------------------------------------------------------------------------
\* A change of the rules, in memory first; then saveApplyLocked.
pfEdit(rules) ==
    /\ pfPanel = "idle" /\ pfChange < PfChanges /\ pfChange' = pfChange + 1
    /\ pfMem' = rules /\ pfPanel' = "save"
    /\ UNCHANGED <<pfFile, pfHook, pfFw, pfRun, pfClean, pfFault, pfRebuild>>
SaveRule == \E r \in PfRules \ pfMem : pfEdit(pfMem \cup {r})
SetEnabled == \E r \in PfRules : pfEdit(IF r \in pfMem THEN pfMem \ {r} ELSE pfMem \cup {r})
DeleteRule == \E r \in pfMem : pfEdit(pfMem \ {r})
saveApplyLocked ==
    /\ pfPanel = "save"
    /\ \/ pfFile' = pfMem /\ pfPanel' = "hook" /\ UNCHANGED <<pfFault, pfClean>>
       \/ pfGivesUp /\ UNCHANGED pfFile
    /\ UNCHANGED <<pfMem, pfHook, pfFw, pfRun, pfChange, pfRebuild>>
\* With rules the hook is written over, in place: a script that is being read from it goes on with what stands
\* there now, or ends.  Without rules it is removed first; that this failed nobody learns.
hookFor(rules) == IF rules = {} THEN pfNoHook ELSE rules
pfReads(r) == pfRun[r].at \in {"flush", "jump", "fill"}
pfReadOn ==
    LET Readers == {r \in pfRunners : pfReads(r)} IN
    \E ended \in SUBSET Readers, rest \in [Readers -> SUBSET PfRules] :
        pfRun' = [r \in pfRunners |->
                    IF r \in ended THEN pfStill
                    ELSE IF r \in Readers THEN [pfRun[r] EXCEPT !.todo = (@ \cup pfMem) \cap rest[r]]
                    ELSE pfRun[r]]
pfWriteHook ==
    /\ pfPanel = "hook"
    /\ \/ /\ pfMem # {} /\ pfReadOn
          /\ \/ /\ pfHook' = pfMem /\ pfPanel' = "run" /\ UNCHANGED pfFault
                /\ pfClean' = (pfClean /\ \A r \in pfRunners : ~pfReads(r))
             \/ pfGivesUp /\ pfHook' \in {pfHook} \cup SUBSET pfMem
       \/ /\ pfMem = {} /\ pfPanel' = "run" /\ UNCHANGED <<pfRun, pfClean>>
          /\ \/ pfHook' = pfNoHook /\ UNCHANGED pfFault
             \/ pfHook # pfNoHook /\ pfFails /\ UNCHANGED pfHook
    /\ UNCHANGED <<pfMem, pfFile, pfFw, pfChange, pfRebuild>>

\* A script begins.  Alone it makes the chains anew; beside others it must at least have been written for the
\* same rules as they.
pfAlone(r) == \A q \in pfRunners \ {r} : pfRun[q] = pfStill
pfSameRules(r, of) == \A q \in pfRunners \ {r} : pfRun[q] # pfStill => pfRun[q].of = of
pfBegins(r, of, right) == pfClean' = IF pfAlone(r) THEN right ELSE pfClean /\ pfSameRules(r, of)
pfRunHook ==
    /\ pfPanel = "run" /\ pfRun["panel"] = pfStill
    /\ pfRun' = [pfRun EXCEPT !["panel"] = [at |-> IF pfMem = {} THEN "detach" ELSE "flush", todo |-> pfMem,
                                           of |-> hookFor(pfMem)]]
    /\ pfPanel' = "runs" /\ pfBegins("panel", hookFor(pfMem), TRUE)
    /\ UNCHANGED <<pfMem, pfFile, pfHook, pfFw, pfChange, pfFault, pfRebuild>>
pfEnds ==
    /\ pfPanel = "runs" /\ pfRun["panel"] = pfStill /\ pfPanel' = "idle"
    /\ UNCHANGED <<pfMem, pfFile, pfHook, pfFw, pfRun, pfClean, pfChange, pfFault, pfRebuild>>

-----------------------------------------------------------------------------
\* The script: the chains are emptied, attached and filled, rule by rule; or detached and deleted.  A command
\* that fails is passed over, and nothing later tells: the end of the script is that of its last command, or 0.
pfStep(r, fw, failed, run) ==
    /\ pfRun' = [pfRun EXCEPT ![r] = run]
    /\ \/ pfFw' = fw /\ UNCHANGED <<pfClean, pfFault>>
       \/ pfFails /\ pfFw' \in failed /\ pfClean' = FALSE
    /\ UNCHANGED <<pfMem, pfFile, pfHook, pfPanel, pfChange, pfRebuild>>
pfGoes(r, at) == [pfRun[r] EXCEPT !.at = at]
flushed == [pfFw EXCEPT !.rules = {}]
hooked(jump) == [pfFw EXCEPT !.jump = jump]
pfFlush(r) == pfRun[r].at = "flush" /\ pfStep(r, flushed, {pfFw, flushed}, pfGoes(r, "jump"))
pfJump(r) == pfRun[r].at = "jump" /\ pfStep(r, hooked(TRUE), {pfFw, hooked(TRUE), hooked(FALSE)}, pfGoes(r, "fill"))
pfFill(r) ==
    /\ pfRun[r].at = "fill"
    /\ \/ \E k \in pfRun[r].todo : LET filled == [pfFw EXCEPT !.rules = @ \cup {k}] IN
             pfStep(r, filled, {pfFw, filled}, [pfRun[r] EXCEPT !.todo = @ \ {k}])
       \/ pfRun[r].todo = {} /\ pfStep(r, pfFw, {}, pfStill)
cleanupRules(r) ==
    \/ pfRun[r].at = "detach" /\ pfStep(r, hooked(FALSE), {pfFw, hooked(FALSE)}, pfGoes(r, "delete"))
    \/ pfRun[r].at = "delete" /\ pfStep(r, flushed, {pfFw, flushed}, pfStill)
\* A script is killed: its time is over.
pfBreaks(r) ==
    /\ pfRun[r] # pfStill /\ pfFails /\ pfRun' = [pfRun EXCEPT ![r] = pfStill] /\ pfClean' = FALSE
    /\ UNCHANGED <<pfMem, pfFile, pfHook, pfFw, pfPanel, pfChange, pfRebuild>>

\* The firewall is rebuilt and the platform runs the hook there is; a reboot also starts the panel, which applies.
pfRuns == IF pfHook = pfNoHook THEN pfStill ELSE [at |-> "flush", todo |-> pfHook, of |-> pfHook]
pfReload ==
    /\ pfRebuild < PfRebuilds /\ pfRebuild' = pfRebuild + 1 /\ pfRun["platform"] = pfStill
    /\ pfFw' = [jump |-> FALSE, rules |-> {}] /\ pfRun' = [pfRun EXCEPT !["platform"] = pfRuns]
    /\ pfBegins("platform", pfHook, pfMem = pfFile /\ pfHook = hookFor(pfMem))
    /\ UNCHANGED <<pfMem, pfFile, pfHook, pfPanel, pfChange, pfFault>>
pfReboot ==
    /\ pfRebuild < PfRebuilds /\ pfRebuild' = pfRebuild + 1
    /\ pfFw' = [jump |-> FALSE, rules |-> {}] /\ pfRun' = [r \in pfRunners |-> IF r = "platform" THEN pfRuns ELSE pfStill]
    /\ pfMem' = pfFile /\ pfPanel' = "hook" /\ UNCHANGED <<pfFile, pfHook, pfClean, pfChange, pfFault>>
\* The panel dies and is started again, which applies what the file has; a script of it goes on.
pfCrash ==
    /\ pfFails /\ pfRun["orphan"] = pfStill
    /\ pfRun' = [pfRun EXCEPT !["panel"] = pfStill, !["orphan"] = pfRun["panel"]]
    /\ pfMem' = pfFile /\ pfPanel' = "hook" /\ UNCHANGED <<pfFile, pfHook, pfFw, pfClean, pfChange, pfRebuild>>

pfNext ==
    \/ SaveRule \/ SetEnabled \/ DeleteRule \/ saveApplyLocked \/ pfWriteHook \/ pfRunHook \/ pfEnds
    \/ \E r \in pfRunners : pfFlush(r) \/ pfJump(r) \/ pfFill(r) \/ cleanupRules(r) \/ pfBreaks(r)
    \/ pfReload \/ pfReboot \/ pfCrash

-----------------------------------------------------------------------------
\* The ports that are open are those of the enabled rules, which are also saved, after any number of changes,
\* rebuilds of the firewall and deaths of the panel, also where the hook is run by the platform while the panel
\* runs it for the same rules.  What can go wrong before is a command that is passed over, a script that is killed,
\* written over while it is read, or that runs beside one for other rules, and a change that gave up, whatever the
\* operation answered; the next change or rebuild whose script runs alone mends all of it.
PortsFollowRules ==
    pfPanel = "idle" /\ pfClean /\ (\A r \in pfRunners : pfRun[r] = pfStill)
        => pfFw = [jump |-> pfMem # {}, rules |-> pfMem] /\ pfMem = pfFile
=============================================================================
