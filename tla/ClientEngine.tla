---------------------------- MODULE ClientEngine ----------------------------
(***************************************************************************)
(* The amneziawg-go engine of a tunnel: its installation from a release,   *)
(* the daemon that runs it, the configuration sent over the UAPI socket,   *)
(* the keepalive probe, the scan of WARP endpoints and the connection test.*)
(* All of them hold the operations lock, so one is in progress at a time;  *)
(* it goes from step to step, and each step may fail or find its context   *)
(* cancelled.  The panel may be killed between two steps.                  *)
(***************************************************************************)
EXTENDS Naturals, Sequences

CONSTANTS
    CeFaults,   \* bound on failures, cancellations and crashes
    CeEdits     \* bound on changes of the profile

ASSUME CeAssumption == CeFaults \in Nat /\ CeEdits \in Nat

\* Release 1 is installed, 2 is a whole engine, 3 was published with a binary
\* of another architecture.  Garbled is what a broken transfer delivers.
SoundReleases == {1, 2}
Garbled == 9

VARIABLES
    ceRelease,   \* what "latest" names on the release server
    ceFile,      \* the engine file, 0 when there is none
    ceTmp,       \* amneziawg-go.new
    ceGot,       \* archive and checksum downloaded
    ceConf,      \* the saved profile of the tunnel
    ceD,         \* the daemon
    ceTodo,      \* step of the operation in progress, what it is part of, candidates left
    ceWhy,       \* the operation in progress
    ceLast,      \* endpoint the scan reports as configured
    ceCancelled, \* its context is done
    ceLost,      \* an answer of the daemon was lost, or a restore failed
    ceStuck,     \* the interface could not be removed
    ceEdits,
    ceFaults

ceVars == <<ceRelease, ceFile, ceTmp, ceGot, ceConf, ceD, ceTodo, ceWhy, ceLast,
            ceCancelled, ceLost, ceStuck, ceEdits, ceFaults>>
ceDisk == <<ceRelease, ceFile, ceTmp, ceGot>>
ceCount == <<ceLost, ceStuck, ceEdits, ceFaults>>

\* A daemon: its release, what it was told, the keepalive of the profile it was
\* configured or probed for, and the saved endpoint at that time.
NoDaemon == [ver |-> 0, fields |-> {}, ep |-> 0, keep |-> 0, want |-> 0, was |-> 0]

ceAt(step, of) == [at |-> step, of |-> of, left |-> <<>>]
ceIdle == ceAt("idle", "none")
ceBusy == ceTodo.at # "idle"

\* Endpoints 1 and 2 are the built-in ones, 3 has a port of its own, 4 the
\* default port.
ceInit ==
    /\ ceRelease = 1 /\ ceFile = 1 /\ ceTmp = 0 /\ ceGot = <<0, 0>>
    /\ ceConf = [fields |-> {"H"}, ep |-> 0, keep |-> 25, warp |-> FALSE, on |-> FALSE]
    /\ ceD = NoDaemon /\ ceTodo = ceIdle /\ ceWhy = "none" /\ ceLast = 0
    /\ ceCancelled = FALSE /\ ceLost = FALSE /\ ceStuck = FALSE
    /\ ceEdits = 0 /\ ceFaults = 0

-----------------------------------------------------------------------------
\* The steps of the operations.
ceRunning == ceD.ep # 0

\* prioritizeWARPEndpoints, cut at the attempt limit.
prioritizeWARPEndpoints(current) ==
    CASE current = 3 -> <<3, 1, 2>>
      [] current = 4 -> <<1, 2, 4>>
      [] OTHER       -> <<1, 2>>

\* A daemon without configuration gets that of the profile, or a scan of the endpoints.
ceConfigure ==
    IF ceConf.warp THEN [at |-> "try", of |-> "scan", left |-> prioritizeWARPEndpoints(ceConf.ep)]
    ELSE ceAt("set", "up")

\* A daemon that runs is configured again.
UpInPlace == IF ceD = NoDaemon THEN ceAt("down", "up") ELSE ceConfigure

\* awgClientUpManagerOS: always through a fresh daemon.
UpSteps == ceAt("down", "up")

\* testConnection: a tunnel that does not run is brought up for the test and
\* taken down at its end, whatever the end.
testSteps == IF ceRunning THEN ceAt("zero", "probe") ELSE UpSteps
ceFinal == IF ceWhy = "test" /\ ceTodo.at # "final" THEN ceAt("final", "up") ELSE ceIdle
ceIsUp == IF ceWhy = "test" THEN ceAt("zero", "probe") ELSE ceIdle

\* awgProbeClientOS: 0, then the interval, then 0 again when that is the
\* configured value; a configuration with that value ends with a probe.
ceProbed ==
    CASE ceTodo.of = "scan" -> [ceTodo EXCEPT !.at = "wait"]
      [] ceTodo.of = "up"   -> ceIsUp
      [] OTHER              -> ceFinal

\* Where an operation goes on.
ceNextStep ==
    CASE ceTodo.at = "archive" -> ceAt("sum", "first")
      [] ceTodo.at = "sum"     -> ceAt("verify", "none")
      [] ceTodo.at = "verify"  -> ceAt("extract", "none")
      [] ceTodo.at = "extract" -> ceAt("rename", "none")
      [] ceTodo.at = "down"    -> IF ceWhy = "off" THEN ceIdle ELSE ceAt("start", "up")
      [] ceTodo.at = "start"                             -> ceConfigure
      [] ceTodo.at \in {"set", "try"} /\ ceConf.keep = 0 -> [ceTodo EXCEPT !.at = "zero"]
      [] ceTodo.at = "zero"                              -> [ceTodo EXCEPT !.at = "interval"]
      [] ceTodo.at = "interval" /\ ceConf.keep = 0       -> [ceTodo EXCEPT !.at = "rezero"]
      [] ceTodo.at \in {"set", "try", "interval"} /\ ceConf.keep # 0 -> ceProbed
      [] ceTodo.at = "rezero"                                        -> ceProbed
      [] OTHER -> ceIdle

ceBegin(why, steps) ==
    /\ ~ceBusy /\ ceTodo' = steps /\ ceWhy' = why
    /\ ceCancelled' = FALSE /\ ceLast' = IF why = "install" THEN 0 ELSE ceConf.ep

-----------------------------------------------------------------------------
\* The operations.
AWG2InstallEngine ==
    /\ ceFile # ceRelease /\ ceBegin("install", ceAt("archive", "first")) /\ ceGot' = <<0, 0>>
    /\ UNCHANGED <<ceRelease, ceFile, ceTmp, ceConf, ceD, ceCount>>

\* AWG2CreateWARP registers a profile; others are imported or provisioned.
AWG2CreateWARP ==
    /\ ceConf.ep = 0
    /\ \E ep \in {1, 3, 4}, keep \in {0, 25} :
          ceConf' = [ceConf EXCEPT !.warp = ep # 1, !.ep = ep, !.keep = keep]
    /\ UNCHANGED <<ceDisk, ceD, ceTodo, ceWhy, ceLast, ceCancelled, ceCount>>

\* awgEnsureClientManagerUpForRouting: the intent is saved first; a tunnel
\* that runs the installed engine is left alone.
ClientUp ==
    /\ ~ceConf.on /\ ceConf.ep # 0
    /\ ceConf' = [ceConf EXCEPT !.on = TRUE]
    /\ ceBegin("up", IF ceRunning /\ ceD.ver = ceFile THEN ceIdle ELSE UpSteps)
    /\ UNCHANGED <<ceDisk, ceD, ceCount>>

ClientDown ==
    /\ ceConf.on
    /\ ceConf' = [ceConf EXCEPT !.on = FALSE]
    /\ ceBegin("off", ceAt("down", "up"))
    /\ UNCHANGED <<ceDisk, ceD, ceCount>>

\* A changed profile; awgReconnectActiveClientAfterDeploy follows.
EditProfile ==
    /\ ceConf.on /\ ceEdits < CeEdits /\ ceEdits' = ceEdits + 1
    /\ \E f \in {{"H"}, {"S"}}, k \in {0, 25} :
          ceConf' = [ceConf EXCEPT !.fields = f, !.keep = k]
    /\ ceBegin("up", ceAt("reconnect", "up"))
    /\ UNCHANGED <<ceDisk, ceD, ceLost, ceStuck, ceFaults>>

\* awgClientCurrentEngineOS: the running executable is the installed file.
needsRecovery == ~ceRunning \/ ceD.ver # ceFile

\* One check of the supervisor: a tunnel that is down, unconfigured or runs a
\* replaced engine is recovered, a silent one is probed.
SuperviseClient ==
    /\ ceConf.on /\ (needsRecovery \/ ceEdits < CeEdits)
    /\ ceBegin("up", IF needsRecovery THEN UpSteps ELSE ceAt("zero", "probe"))
    /\ ceEdits' = IF needsRecovery THEN ceEdits ELSE ceEdits + 1
    /\ UNCHANGED <<ceDisk, ceConf, ceD, ceLost, ceStuck, ceFaults>>

AWG2TestConnection ==
    /\ ceConf.ep # 0 /\ ceEdits < CeEdits /\ ceEdits' = ceEdits + 1
    /\ ceBegin(IF ceRunning THEN "up" ELSE "test", testSteps)
    /\ UNCHANGED <<ceDisk, ceConf, ceD, ceLost, ceStuck, ceFaults>>

-----------------------------------------------------------------------------
\* The steps.  A failed or cancelled operation ends: a test takes its tunnel
\* down, a scan saves what it configured last.
ceFault == ceFaults < CeFaults /\ ceFaults' = ceFaults + 1
ceRequests == {"set", "zero", "interval", "rezero", "try"}

ceDeferred == {"final", "exhausted", "interval", "rezero"}  \* with a context of their own
ceTakes(name) ==
    /\ ceTodo.at = name
    /\ ceCancelled => name \in ceDeferred
    /\ name \in ceRequests => ceD # NoDaemon
ceGoOn(name) == ceTakes(name) /\ ceTodo' = ceNextStep
ceOp == <<ceWhy, ceLast, ceCancelled>>

\* Where an operation goes on after an error: the next candidate of a scan,
\* its end, or the deferred clean-up.
ceAfterError ==
    IF ceTodo.of # "scan" THEN ceFinal
    ELSE IF ceCancelled \/ Len(ceTodo.left) = 1 THEN ceAt("exhausted", "scan")
    ELSE [at |-> "try", of |-> "scan", left |-> Tail(ceTodo.left)]

\* downloadAWGAsset: one method, then the other; the archive and the
\* checksum may come from different releases.
downloadAWGAsset(name, i) ==
    /\ ceTakes(name)
    /\ \/ /\ \E got \in {ceRelease, Garbled} :
               /\ ceGot' = [ceGot EXCEPT ![i] = got]
               /\ IF got = Garbled THEN ceFault ELSE UNCHANGED ceFaults
          /\ ceTodo' = ceNextStep
       \/ /\ ceFault /\ UNCHANGED ceGot
          /\ ceTodo' = IF ceTodo.of = "first" THEN ceAt(name, "second") ELSE ceIdle
    /\ UNCHANGED <<ceRelease, ceFile, ceTmp, ceConf, ceD, ceOp, ceLost, ceStuck, ceEdits>>

\* The checksum is compared as soon as both are there.
installAWGEngineFromRelease == ceGot[1] = ceGot[2] /\ ceGot[1] # Garbled

verifyArchive ==
    /\ ceTakes("verify")
    /\ ceTodo' = IF installAWGEngineFromRelease THEN ceNextStep ELSE ceIdle
    /\ UNCHANGED <<ceDisk, ceConf, ceD, ceOp, ceCount>>

\* extractEngine: into .new, validated and read to the end before the rename.
validateEngineBinary(x) == x \in SoundReleases

extractEngine ==
    /\ ceTakes("extract")
    /\ IF validateEngineBinary(ceGot[1])
       THEN ceTmp' = ceGot[1] /\ ceTodo' = ceNextStep
       ELSE ceTmp' = 0 /\ ceTodo' = ceIdle
    /\ UNCHANGED <<ceRelease, ceFile, ceGot, ceConf, ceD, ceOp, ceCount>>

renameEngine ==
    /\ ceGoOn("rename") /\ ceFile' = ceTmp /\ ceTmp' = 0 /\ ceGot' = <<0, 0>>
    /\ UNCHANGED <<ceRelease, ceConf, ceD, ceOp, ceCount>>

Reconnect ==
    /\ ceTakes("reconnect") /\ ceTodo' = UpSteps /\ ceLast' = ceConf.ep
    /\ UNCHANGED <<ceDisk, ceConf, ceD, ceWhy, ceCancelled, ceCount>>

\* awgClientDownManagerOS: interface, daemon and socket.
awgClientDownManagerOS ==
    /\ ceGoOn("down") \/ ceGoOn("final")
    /\ ceD' = NoDaemon /\ ceStuck' = FALSE
    /\ UNCHANGED <<ceDisk, ceConf, ceOp, ceLost, ceEdits, ceFaults>>

\* The start script: a daemon of the installed engine without configuration.
startDaemon ==
    /\ ceGoOn("start") /\ ceD' = [NoDaemon EXCEPT !.ver = ceFile]
    /\ UNCHANGED <<ceDisk, ceConf, ceOp, ceCount>>

\* RenderUAPISet: fields the profile omits keep their value in the daemon.
ceConfigured(ep) ==
    [ceD EXCEPT !.fields = @ \cup ceConf.fields, !.ep = ep,
                !.keep = ceConf.keep, !.want = ceConf.keep, !.was = ceConf.ep]

uapiSet ==
    /\ ceGoOn("set") /\ ceD' = ceConfigured(ceConf.ep)
    /\ UNCHANGED <<ceDisk, ceConf, ceOp, ceCount>>

\* The three requests of a probe.
uapiKeepalive ==
    /\ \/ ceGoOn("zero") /\ ceD' = [ceD EXCEPT !.keep = 0, !.want = ceConf.keep]
       \/ ceGoOn("interval") /\ ceD' = [ceD EXCEPT !.keep = 25]
       \/ ceGoOn("rezero") /\ ceD' = [ceD EXCEPT !.keep = 0]
    /\ UNCHANGED <<ceDisk, ceConf, ceOp, ceCount>>

awgTryWARPEndpoint ==
    /\ ceGoOn("try") /\ ceD' = ceConfigured(Head(ceTodo.left))
    /\ ceLast' = IF Head(ceTodo.left) # ceConf.ep THEN Head(ceTodo.left) ELSE ceLast
    /\ UNCHANGED <<ceDisk, ceConf, ceWhy, ceCancelled, ceCount>>

\* awgWaitEndpointHandshake: the first endpoint that answers is saved.
awgWaitEndpointHandshake ==
    /\ ceTakes("wait")
    /\ \/ /\ ceConf' = [ceConf EXCEPT !.ep = Head(ceTodo.left)] /\ ceTodo' = ceIsUp
       \/ ceTodo' = ceAfterError /\ UNCHANGED ceConf
    /\ UNCHANGED <<ceDisk, ceD, ceOp, ceCount>>

\* The scan is exhausted or cancelled: the endpoint configured last is saved
\* all the same, a handshake may still arrive.
saveLastConfigured ==
    /\ ceTakes("exhausted") /\ ceConf' = [ceConf EXCEPT !.ep = ceLast]
    /\ ceTodo' = ceFinal
    /\ UNCHANGED <<ceDisk, ceD, ceOp, ceCount>>

-----------------------------------------------------------------------------
\* A step finds its context done, or fails: before its effect, or after it
\* when the answer of the daemon is lost.
StepCancelled ==
    /\ ceBusy /\ ceCancelled /\ ceTodo.at \notin ceDeferred
    /\ ceTodo' = ceAfterError /\ ceTmp' = 0
    /\ ceStuck' = (ceStuck \/ ceWhy = "off")
    /\ UNCHANGED <<ceRelease, ceFile, ceGot, ceConf, ceD, ceOp, ceLost, ceEdits, ceFaults>>

StepFails ==
    /\ ceBusy /\ (ceCancelled => ceTodo.at \in ceDeferred)
    /\ IF ceTodo.at \in ceRequests /\ ceD = NoDaemon THEN UNCHANGED ceFaults ELSE ceFault
    /\ ceTodo.at \notin {"archive", "sum", "verify", "reconnect", "wait", "exhausted"}
    /\ ceTodo' = ceAfterError /\ ceTmp' = 0
    /\ \/ UNCHANGED ceD
       \/ ceTodo.at = "start" /\ ceD' = [NoDaemon EXCEPT !.ver = ceFile]
       \/ ceD # NoDaemon /\ ceTodo.at = "zero" /\ ceD' = [ceD EXCEPT !.keep = 0]
       \/ ceD # NoDaemon /\ ceTodo.at = "try" /\ ceD' = ceConfigured(Head(ceTodo.left))
    /\ ceLost' = (ceLost \/ ceTodo.at \in {"zero", "interval", "rezero", "try"})
    /\ ceStuck' = (ceStuck \/ ceTodo.at \in {"down", "final"})
    /\ UNCHANGED <<ceRelease, ceFile, ceGot, ceConf, ceOp, ceEdits>>

\* A client-down, a shutdown or the caller of a test cancels the operation.
cancelClientOp ==
    /\ ceBusy /\ ~ceCancelled /\ ceFault /\ ceCancelled' = TRUE
    /\ UNCHANGED <<ceDisk, ceConf, ceD, ceTodo, ceWhy, ceLast, ceLost, ceStuck, ceEdits>>

PublishRelease ==
    /\ ceRelease < 3 /\ ceRelease' = ceRelease + 1
    /\ ceWhy = "install" \/ ~ceBusy  \* it matters to an installation only
    /\ UNCHANGED <<ceFile, ceTmp, ceGot, ceConf, ceD, ceTodo, ceOp, ceCount>>

\* The daemon dies by itself, or the panel is killed; the daemon outlives it,
\* and so does a test's.
DaemonDies ==
    /\ ceD # NoDaemon /\ ceFault /\ ceD' = NoDaemon
    /\ UNCHANGED <<ceDisk, ceConf, ceTodo, ceOp, ceLost, ceStuck, ceEdits>>
PanelDies ==
    /\ ceBusy /\ ceFault /\ ceTodo' = ceIdle
    /\ ceLost' = TRUE /\ ceStuck' = TRUE
    /\ UNCHANGED <<ceDisk, ceConf, ceD, ceOp, ceEdits>>

ceStepNext ==
    \/ downloadAWGAsset("archive", 1) \/ downloadAWGAsset("sum", 2)
    \/ verifyArchive \/ extractEngine \/ renameEngine \/ Reconnect
    \/ awgClientDownManagerOS \/ startDaemon \/ uapiSet \/ uapiKeepalive
    \/ awgTryWARPEndpoint \/ awgWaitEndpointHandshake \/ saveLastConfigured
    \/ StepCancelled \/ StepFails

ceNext ==
    \/ AWG2InstallEngine \/ AWG2CreateWARP \/ ClientUp \/ ClientDown \/ EditProfile
    \/ SuperviseClient \/ AWG2TestConnection \/ ceStepNext
    \/ cancelClientOp \/ PublishRelease \/ DaemonDies \/ PanelDies

-----------------------------------------------------------------------------
\* The engine file is always a whole engine for this router out of one
\* release: not after a transfer that broke, a release published between the
\* two downloads, a foreign binary with a right checksum, a cancellation or a
\* crash at any step.
EngineWhole == ceFile \in SoundReleases

\* The daemon runs one profile: a field that an edit removed never survives
\* in it beside the new ones, whatever was cancelled on the way.
OneProfile == ceD.fields \in {{}, {"H"}, {"S"}}

\* A probe leaves the keepalive as the profile had it, also when it is cancelled
\* between its requests; a lost answer is left out.
KeepaliveRestored ==
    ~ceBusy /\ ceRunning /\ ~ceLost => ceD.keep = ceD.want

\* The saved endpoint, from which the policy excludes the tunnel's own
\* packets, is the one the daemon was given last, also after a scan without
\* an answer or a cancelled one.  A scan that went back to the endpoint it
\* started from is left out: it reports the one before.
EndpointSaved ==
    ~ceBusy /\ ceRunning /\ ~ceLost => ceD.ep \in {ceConf.ep, ceD.was}

\* A reserve started for a test does not outlive it, and no tunnel that is
\* switched off keeps a daemon.
NoStrayDaemon ==
    ~ceBusy /\ ~ceConf.on /\ ~ceStuck => ceD = NoDaemon

\* Whatever was cancelled, broke or crashed: one whole engine, one profile, the
\* configured keepalive and endpoint, and no daemon that nobody wants.
ClientSafe == EngineWhole /\ OneProfile /\ KeepaliveRestored /\ EndpointSaved /\ NoStrayDaemon
=============================================================================
