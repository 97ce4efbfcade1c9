------------------------------ MODULE MacSpoof ------------------------------
(***************************************************************************)
(* The service that gives the LAN bridges another MAC address.  The        *)
(* original addresses are journalled before the first change; a change of  *)
(* several bridges that fails half way is undone; the process can die at   *)
(* any write; bridges come and go under the 30 second refresh.             *)
(* All operations hold one mutex, so there is at most one job.             *)
(***************************************************************************)
EXTENDS Naturals

CONSTANTS
    MsIfaces,  \* bridges, numbered in the order of their names
    MsWan,     \* the ones that carry the WAN
    MsFakes,   \* addresses the user can ask for
    MsOps,     \* bound on requests of the user
    MsFaults   \* bound on faults: failed commands and saves, crashes, bridges that come and go

ASSUME MsAssumption ==
    MsIfaces \subseteq Nat \ {0} /\ MsWan \subseteq MsIfaces /\ 0 \notin MsFakes /\ MsOps \in Nat /\ MsFaults \in Nat

VARIABLES
    msCfg,   \* s.config: on, the fake address, the bridges chosen ({} = automatic)
    msErr,   \* s.lastError # ""
    msOrig,  \* s.origMACs, msNone = no entry
    msDisk,  \* the state file
    msAddr,  \* address of each bridge in the network manager
    msSkew,  \* bridges whose kernel address is another one
    msHere,  \* bridges that exist
    msLoop,  \* s.stopRefresh # nil
    msJob,   \* the operation that holds the mutex
    msUp,    \* the process runs
    msOp, msFault

msVars == <<msCfg, msErr, msOrig, msDisk, msAddr, msSkew, msHere, msLoop, msJob, msUp, msOp, msFault>>

msNone == 0
\* The address a bridge was made with: the bridge stands for it.
msOwn(i) == i
msOff == [on |-> FALSE, mac |-> msNone, ifs |-> {}]
msNobody == [i \in MsIfaces |-> msNone]
msIdle == [at |-> "idle", loud |-> FALSE, selected |-> {}, want |-> msNobody, todo |-> {}, before |-> msNobody,
           skew |-> {}, changed |-> {}, failed |-> FALSE, lost |-> FALSE]

msInit ==
    /\ msCfg = msOff /\ msErr = FALSE /\ msOrig = msNobody
    /\ msDisk = [cfg |-> msOff, err |-> FALSE, orig |-> msOrig]
    /\ msAddr = [i \in MsIfaces |-> msOwn(i)] /\ msSkew = {} /\ msHere = MsIfaces
    /\ msLoop = FALSE /\ msJob = msIdle /\ msUp = TRUE /\ msOp = 0 /\ msFault = 0

msFails == msFault < MsFaults /\ msFault' = msFault + 1
msWorks == UNCHANGED msFault

-----------------------------------------------------------------------------
\* The bridges a configuration selects.
msTargets(c) == IF c.ifs # {} THEN c.ifs ELSE msHere \ MsWan
\* The address each bridge of the job is to get: the fake one, or its own back.
desired(c, orig, targets) == [i \in MsIfaces |-> IF c.on /\ i \in targets THEN c.mac ELSE orig[i]]
\* The ways a job ends before it has changed anything.
refused(c, targets) ==
    c.on /\ (\/ targets = {} \/ targets \cap MsWan # {} \/ ~(targets \subseteq msHere)
             \/ \E i \in targets : msOrig[i] = msNone /\ msAddr[i] = c.mac)
\* The bridges whose original is not known yet, and the journal with them.
added_Late(c, targets) == {}
added(c, targets) == IF c.on THEN {i \in targets : msOrig[i] = msNone} ELSE {}
journalled(c, targets) == [i \in MsIfaces |-> IF i \in added(c, targets) THEN msAddr[i] ELSE msOrig[i]]

\* What is to be written: every bridge of an explicit job, the bridges that differ of a refresh.
writes(want, loud) ==
    {i \in msHere : want[i] # msNone /\ (loud \/ msAddr[i] # want[i] \/ i \in msSkew)}

\* A configuration c comes into force and its job begins, up to the save of the journal.
msBegin(c, loud) ==
    LET targets == msTargets(c)
        orig == journalled(c, targets)
        want == desired(c, orig, targets)
        job == [msIdle EXCEPT !.loud = loud, !.selected = IF c.on THEN targets ELSE {}] IN
    /\ msCfg' = c
    /\ UNCHANGED <<msErr, msAddr, msSkew, msHere, msLoop, msUp>>
    /\ \/ /\ refused(c, targets) /\ msWorks
          /\ msJob' = [job EXCEPT !.at = "close", !.failed = TRUE] /\ UNCHANGED <<msOrig, msDisk>>
       \* A bridge cannot be read, or the journal cannot be saved.
       \/ /\ ~refused(c, targets) /\ msFails
          /\ msJob' = [job EXCEPT !.at = "close", !.failed = TRUE] /\ UNCHANGED <<msOrig, msDisk>>
       \/ /\ ~refused(c, targets) /\ msWorks
          /\ msOrig' = orig
          /\ msDisk' = IF added(c, targets) = {} THEN msDisk ELSE [cfg |-> c, err |-> msErr, orig |-> orig]
          /\ msJob' = [job EXCEPT !.at = "write", !.want = want, !.todo = writes(want, loud),
                                  !.before = msAddr, !.skew = msSkew]

msRequest == msUp /\ msJob.at = "idle" /\ msOp < MsOps /\ msOp' = msOp + 1
\* What is asked for, made complete: a service that is on has an address, generated if none is given.
prepared(c) == IF c.on /\ c.mac = msNone THEN {[c EXCEPT !.mac = m] : m \in MsFakes} ELSE {c}
msSaveConfig ==
    \E on \in BOOLEAN, m \in MsFakes \cup {msNone}, ifs \in {{}} \cup {{i} : i \in MsIfaces} :
        \E c \in prepared([on |-> on, mac |-> m, ifs |-> ifs]) : msRequest /\ msBegin(c, TRUE)
msSetEnabled ==
    \E on \in BOOLEAN : \E c \in prepared([msCfg EXCEPT !.on = on]) : msRequest /\ msBegin(c, TRUE)
\* A tick of the loop.  One that waited for the mutex while the loop was stopped still comes.
msRefresh ==
    /\ msUp /\ msJob.at = "idle" /\ msCfg.on /\ UNCHANGED msOp
    /\ msBegin(msCfg, FALSE)

-----------------------------------------------------------------------------
\* Commands.  One that fails may have changed one of the two addresses, both or none.
msSet(i, mac) ==
    /\ i \in msHere /\ msAddr' = [msAddr EXCEPT ![i] = mac] /\ msSkew' = msSkew \ {i} /\ msWorks
msSetFails(i, mac) ==
    \/ i \notin msHere /\ msWorks /\ UNCHANGED <<msAddr, msSkew>>
    \/ /\ i \in msHere /\ msFails
       /\ \E a \in {msAddr[i], mac}, s \in {msSkew, msSkew \cup {i}} : msAddr' = [msAddr EXCEPT ![i] = a] /\ msSkew' = s

\* In the order of their names; what is undone, in the reverse order.
msWrite ==
    /\ msUp /\ msJob.at = "write"
    /\ \E i \in msJob.todo :
         /\ \A j \in msJob.todo : i <= j
         /\ \/ /\ msSet(i, msJob.want[i])
               /\ msJob' = [msJob EXCEPT !.todo = @ \ {i}, !.changed = @ \cup {i}]
            \/ /\ msSetFails(i, msJob.want[i])
               /\ msJob' = [msJob EXCEPT !.at = "undo", !.todo = {}, !.failed = TRUE, !.changed = @ \cup {i}]
    /\ UNCHANGED <<msCfg, msErr, msOrig, msDisk, msHere, msLoop, msUp, msOp>>

msUndo ==
    /\ msUp /\ msJob.at = "undo"
    /\ \/ /\ msJob.changed = {}
          /\ msJob' = [msJob EXCEPT !.at = "close"] /\ msWorks /\ UNCHANGED <<msAddr, msSkew>>
       \/ \E i \in msJob.changed :
            /\ \A j \in msJob.changed : j <= i
            /\ \/ msSet(i, msJob.before[i]) /\ msJob' = [msJob EXCEPT !.changed = @ \ {i}]
               \/ msSetFails(i, msJob.before[i]) /\ msJob' = [msJob EXCEPT !.changed = @ \ {i}, !.lost = TRUE]
    /\ UNCHANGED <<msCfg, msErr, msOrig, msDisk, msHere, msLoop, msUp, msOp>>

\* Everything is written: the originals of the bridges that have theirs back are forgotten.
forgotten(orig, selected) == [i \in MsIfaces |-> IF i \in selected THEN orig[i] ELSE msNone]
msForget ==
    /\ msUp /\ msJob.at = "write" /\ msJob.todo = {}
    /\ msOrig' = forgotten(msOrig, msJob.selected)
    /\ \/ /\ msOrig' = msOrig /\ msWorks /\ UNCHANGED msDisk
          /\ msJob' = [msJob EXCEPT !.at = "close"]
       \/ /\ msOrig' # msOrig /\ msWorks
          /\ msDisk' = [cfg |-> msCfg, err |-> msErr, orig |-> msOrig']
          /\ msJob' = [msJob EXCEPT !.at = "close"]
       \/ /\ msOrig' # msOrig /\ msFails /\ UNCHANGED msDisk
          /\ msJob' = [msJob EXCEPT !.at = "close", !.failed = TRUE]
    /\ UNCHANGED <<msCfg, msErr, msAddr, msSkew, msHere, msLoop, msUp, msOp>>

\* The loop after an explicit job.
looping(on, failed) == on
\* The end of saveApply, or of a refresh: a refresh saves when its error is another one.
msClose ==
    /\ msUp /\ msJob.at = "close"
    /\ msErr' = msJob.failed
    /\ msLoop' = IF msJob.loud THEN looping(msCfg.on, msJob.failed) ELSE msLoop
    /\ \/ msWorks /\ msDisk' = [cfg |-> msCfg, err |-> msErr', orig |-> msOrig]
       \/ msFails /\ UNCHANGED msDisk
       \/ ~msJob.loud /\ (msErr => msErr') /\ (msErr' => msErr) /\ msWorks /\ UNCHANGED msDisk
    /\ msJob' = msIdle
    /\ UNCHANGED <<msCfg, msOrig, msAddr, msSkew, msHere, msUp, msOp>>

-----------------------------------------------------------------------------
\* The process dies, or Stop ends it; New loads the state file and Apply begins.
msCrash ==
    /\ msUp /\ (msFails \/ (msJob.at = "idle" /\ msWorks))
    /\ msUp' = FALSE /\ msJob' = msIdle /\ msLoop' = FALSE
    /\ UNCHANGED <<msCfg, msErr, msOrig, msDisk, msAddr, msSkew, msHere, msOp>>
msBoot ==
    /\ ~msUp /\ msUp' = TRUE /\ msWorks
    /\ msCfg' = msDisk.cfg /\ msErr' = msDisk.err /\ msOrig' = msDisk.orig
    /\ msJob' = [msIdle EXCEPT !.at = "boot"]
    /\ UNCHANGED <<msDisk, msAddr, msSkew, msHere, msLoop, msOp>>
msApply ==
    /\ msUp /\ msJob.at = "boot" /\ UNCHANGED msOp
    /\ \E c \in prepared(msCfg) : msBegin(c, TRUE)

\* A bridge is removed; one that is made anew has the address of its make.
msComesAndGoes ==
    \E i \in MsIfaces :
        /\ msFails
        /\ msHere' = (msHere \ {i}) \cup ({i} \ msHere)
        /\ msAddr' = [msAddr EXCEPT ![i] = IF i \in msHere THEN @ ELSE msOwn(i)]
        /\ msSkew' = msSkew \ {i}
        /\ UNCHANGED <<msCfg, msErr, msOrig, msDisk, msLoop, msJob, msUp, msOp>>

msNext ==
    \/ msSaveConfig \/ msSetEnabled \/ msRefresh \/ msWrite \/ msUndo \/ msForget \/ msClose
    \/ msCrash \/ msBoot \/ msApply \/ msComesAndGoes

-----------------------------------------------------------------------------
\* A bridge that does not have its own address has it in the state file, whatever write or save failed
\* and wherever the process died: the next start can put it back.
AddressJournalled ==
    \A i \in msHere : (msAddr[i] # msOwn(i) \/ i \in msSkew) => msDisk.orig[i] = msOwn(i)

\* The panel shows no error: a bridge the configuration does not select has its own address back, also
\* after other bridges, another address, failed attempts and restarts in between.
UnselectedIsRestored ==
    msUp /\ msJob.at = "idle" /\ ~msErr =>
        \A i \in msHere :
            (~msCfg.on \/ (msCfg.ifs # {} /\ i \notin msCfg.ifs)) => msAddr[i] = msOwn(i) /\ i \notin msSkew

\* An attempt that failed half way and could be undone leaves every bridge as it found it, the one whose
\* command failed too; only a bridge that was made anew meanwhile has another address, its own.
FailedIsUndone ==
    msJob.at = "undo" /\ msJob.changed = {} /\ ~msJob.lost =>
        \A i \in msHere : msAddr[i] \in {msJob.before[i], msOwn(i)} /\ (i \in msSkew => i \in msJob.skew)

\* An address that could not be given is tried again: while the service is on, its loop runs.
RefreshGoesOn == msUp /\ msJob.at = "idle" /\ msCfg.on => msLoop

\* A bridge gets its own address back however a change, a save or the process ended.
AddressesSafe == AddressJournalled /\ UnselectedIsRestored /\ FailedIsUndone /\ RefreshGoesOn
=============================================================================
