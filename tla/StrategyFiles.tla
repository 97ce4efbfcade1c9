---------------------------- MODULE StrategyFiles ----------------------------
(***************************************************************************)
(* The files of the NFQWS2 engine under the panel: the service strategies  *)
(* that are compiled into a block of nfqws2.conf and into lists, the raw   *)
(* editor, archives and snapshots that replace everything at once, and the *)
(* restart that makes the engine read the result.  assetsMu lets one       *)
(* operation write at a time; the restart takes it only now and then.  A   *)
(* write can fail, the panel can die between two writes, the engine        *)
(* appends to its list all the time.                                       *)
(***************************************************************************)
EXTENDS Naturals, Sequences, SequencesExt

CONSTANTS
    SxSets,    \* service definitions; the list compiled from one is a file of that name
    SxKeep,    \* automatic snapshots kept (3)
    SxOps,     \* bound on operations of the user
    SxFaults   \* bound on failed writes and crashes

VARIABLES
    sxDisk,    \* content of each file
    sxSnaps,   \* snapshots, newest first
    sxJob,     \* the operation that holds assetsMu and writes
    sxPage,    \* revision the services page was loaded with
    sxPreview, \* what the import page shows: archive, choice, files on disk
    sxRestart, \* where the restart of the engine is, and the revision it captured
    sxEngine,  \* service block the engine read when it started
    sxSeen,    \* whether something was written since the restart captured its revision
    sxTorn,    \* the cases the files cannot tell (see RestartNotForgotten)
    sxOp, sxFault

sxVars == <<sxDisk, sxSnaps, sxJob, sxPage, sxPreview, sxRestart, sxEngine, sxSeen, sxTorn, sxOp, sxFault>>

\* doc: the services and whether a restart is due.  conf: the managed block and the version of the rest.
\* user: a personal list.  blob: any other asset.
sxFiles == {"doc", "conf", "user", "blob"} \cup SxSets
sxNoFile == [set |-> "-", n |-> 0]
sxFile(set, n) == [set |-> set, n |-> n]
sxNoServices == "none"

sxIdle == [kind |-> "idle", todo |-> <<>>, done |-> <<>>, before |-> <<>>, lists |-> "", torn |-> FALSE]
sxNoRestart == [at |-> "idle", rev |-> <<>>, services |-> sxNoServices]

\* A router without services, of which the user has a snapshot.
sxFresh == [f \in sxFiles |-> CASE f = "conf" -> sxFile(sxNoServices, 0) [] f = "user" -> sxFile("-", 1) [] OTHER -> sxNoFile]
sxInit ==
    /\ sxDisk = sxFresh /\ sxSnaps = <<[auto |-> FALSE, files |-> sxFresh]>>
    /\ sxJob = sxIdle /\ sxPage = <<sxNoFile, sxNoFile>> /\ sxPreview = <<>>
    /\ sxRestart = sxNoRestart /\ sxEngine = sxNoServices /\ sxSeen = FALSE /\ sxTorn = FALSE /\ sxOp = 0 /\ sxFault = 0

sxAsks == sxJob.kind = "idle" /\ sxOp < SxOps /\ sxOp' = sxOp + 1
sxFails == sxFault < SxFaults /\ sxFault' = sxFault + 1

-----------------------------------------------------------------------------
\* serviceStrategiesRead, its revision, and the state the page shows.
sxDoc(disk) == IF disk["doc"] = sxNoFile THEN sxFile(sxNoServices, 0) ELSE disk["doc"]
serviceRevision(disk) == <<disk["doc"], disk["conf"]>>
restartRequired(disk) == sxDoc(disk).n = 1 \/ disk["conf"].set # sxDoc(disk).set

\* The files a set of services is compiled to, in the order in which they are written.
serviceLists(disk, s) == IF s \in SxSets /\ disk[s] = sxNoFile THEN << <<s, sxFile(s, 1)>> >> ELSE <<>>
serviceDoc(disk, s) ==
    LET changed == serviceLists(disk, s) # <<>> \/ disk["conf"].set # s IN
    << <<"doc", sxFile(s, IF changed THEN 1 ELSE sxDoc(disk).n)>> >>
serviceConf(disk, s) == IF disk["conf"].set # s THEN << <<"conf", sxFile(s, disk["conf"].n)>> >> ELSE <<>>
serviceUpdates(disk, s) == serviceLists(disk, s) \o serviceDoc(disk, s) \o serviceConf(disk, s)

sxLoad ==
    /\ sxJob.kind = "idle" /\ sxPage' = serviceRevision(sxDisk)
    /\ UNCHANGED <<sxDisk, sxSnaps, sxJob, sxPreview, sxRestart, sxEngine, sxSeen, sxTorn, sxOp, sxFault>>
sxBegin(kind, todo, lists) ==
    sxJob' = [kind |-> kind, todo |-> todo, done |-> <<>>, before |-> sxDisk, lists |-> lists, torn |-> FALSE]
SaveServiceStrategies ==
    /\ sxAsks /\ sxPage = serviceRevision(sxDisk)
    /\ \E s \in SxSets \cup {sxNoServices} :
        /\ sxBegin("save", serviceUpdates(sxDisk, s), "")
        /\ sxTorn' = (sxTorn \/ (s = sxDisk["conf"].set /\ s # sxDoc(sxDisk).set))
    /\ UNCHANGED <<sxDisk, sxSnaps, sxPage, sxPreview, sxRestart, sxEngine, sxSeen, sxFault>>

\* The raw editor: other settings, or the managed block deleted; another asset stored or removed.  Each is one
\* atomic write; a managed list is refused.
sxEdited(f, v) ==
    /\ sxAsks /\ sxDisk' = [sxDisk EXCEPT ![f] = v] /\ sxSeen' = TRUE
    /\ UNCHANGED <<sxSnaps, sxJob, sxPage, sxPreview, sxRestart, sxEngine, sxTorn, sxFault>>
sxSaveConf == \E v \in {sxFile(sxDisk["conf"].set, 1 - sxDisk["conf"].n), sxFile(sxNoServices, sxDisk["conf"].n)} :
    sxEdited("conf", v)
SaveAsset == sxEdited("blob", sxFile("-", 2))
DeleteAsset == sxDisk["blob"] # sxNoFile /\ sxEdited("blob", sxNoFile)
\* The engine appends to the personal list.
sxAppend ==
    /\ sxDisk["user"].n \in {1, 3} /\ sxDisk' = [sxDisk EXCEPT !["user"].n = @ + 1]
    /\ UNCHANGED <<sxSnaps, sxJob, sxPage, sxPreview, sxRestart, sxEngine, sxSeen, sxTorn, sxOp, sxFault>>

-----------------------------------------------------------------------------
\* An archive is made fit for this router: the block and the list follow from the services in it.
prepareServices(files) ==
    IF files["doc"] = sxNoFile THEN files
    ELSE LET s == files["doc"].set IN
         [f \in sxFiles |-> CASE f = "doc" -> sxFile(s, 1) [] f = "conf" -> sxFile(s, files["conf"].n)
                              [] f = s -> sxFile(s, 1) [] OTHER -> files[f]]
decodable(files) == files["conf"] # sxNoFile /\ (files["doc"] = sxNoFile => files["conf"].set = sxNoServices)
\* An archive from before there were services clears the present ones.
againstCurrent(files, disk) ==
    IF files["doc"] = sxNoFile /\ disk["doc"] # sxNoFile
    THEN [files EXCEPT !["doc"] = sxFile(sxNoServices, 1)] ELSE files
\* What the preview binds of the files on disk: of a personal list only that it is there.
digest(disk) == [disk EXCEPT !["user"] = IF @ = sxNoFile THEN @ ELSE sxFile("-", 0)]

\* Archives a user may bring: one with services, one without and with other files.
sxArchives ==
    {[f \in sxFiles |-> CASE f = "doc" -> sxFile(s, 0) [] f = "conf" -> sxFile(s, 1) [] f = "user" -> sxFile("-", 3)
                          [] OTHER -> sxNoFile] : s \in SxSets}
    \cup {[f \in sxFiles |-> CASE f = "conf" -> sxFile(sxNoServices, 1) [] f = "blob" -> sxFile("-", 3) [] OTHER -> sxNoFile]}

sxShow(files, restore) ==
    /\ decodable(files)
    /\ sxPreview' = << againstCurrent(prepareServices(files), sxDisk), restore, digest(sxDisk) >>
    /\ UNCHANGED <<sxDisk, sxSnaps, sxJob, sxPage, sxRestart, sxEngine, sxSeen, sxTorn, sxFault>>
StrategyPreview ==
    /\ sxJob.kind = "idle" /\ sxOp < SxOps /\ UNCHANGED sxOp
    /\ (sxPreview # <<>> => sxPreview[3] # digest(sxDisk))
    /\ \/ \E a \in sxArchives : sxShow(a, FALSE)
       \/ \E k \in 1..Len(sxSnaps) : sxShow(sxSnaps[k].files, TRUE)

keeps_Never(f, lists) == FALSE
keeps(f, lists) == f = "user" /\ lists = "keep" /\ sxDisk[f] # sxNoFile
\* A restore removes what the snapshot does not have, but never a list compiled from services.
removable == sxFiles \ SxSets
\* The writes of an import: config last, then what a restore removes.
imported(files, restore, lists) ==
    LET written == {f \in sxFiles : files[f] # sxNoFile /\ ~keeps(f, lists) /\ ~(f \in SxSets /\ sxDisk[f] = files[f])}
        removed == {f \in removable : restore /\ files[f] = sxNoFile /\ sxDisk[f] # sxNoFile
                                             /\ (f = "user" => lists = "replace")}
        seq(fs) == SetToSeq({<<f, files[f]>> : f \in fs}) IN
    seq(written \ {"conf"}) \o seq(written \cap {"conf"}) \o seq(removed)

\* The automatic snapshots that are kept: the newest ones.
autoUpTo(snaps, k) == Len(SelectSeq(SubSeq(snaps, 1, k), LAMBDA s : s.auto))
displaced(snaps, k) == snaps[k].auto /\ autoUpTo(snaps, k) > SxKeep
autoKept(snaps) ==
    SelectSeq([k \in 1..Len(snaps) |-> IF displaced(snaps, k) THEN [snaps[k] EXCEPT !.files = <<>>] ELSE snaps[k]],
              LAMBDA s : s.files # <<>>)
withSnapshot(files, auto) ==
    IF auto THEN autoKept(<<[auto |-> TRUE, files |-> files]>> \o sxSnaps) ELSE <<[auto |-> FALSE, files |-> files]>> \o sxSnaps

StrategyImport ==
    /\ sxAsks /\ sxPreview # <<>> /\ sxPreview[3] = digest(sxDisk)
    /\ sxPreview' = <<>>
    /\ sxSnaps' = withSnapshot(sxDisk, TRUE)
    /\ \E lists \in {"keep", "replace"} : sxBegin("import", imported(sxPreview[1], sxPreview[2], lists), lists)
    /\ UNCHANGED <<sxDisk, sxPage, sxRestart, sxEngine, sxSeen, sxTorn, sxFault>>
StrategySnapshotCreate ==
    /\ sxAsks /\ \A k \in 1..Len(sxSnaps) : sxSnaps[k].auto \/ sxSnaps[k].files = sxFresh
    /\ decodable(sxDisk) /\ sxSnaps' = withSnapshot(prepareServices(sxDisk), FALSE)
    /\ UNCHANGED <<sxDisk, sxJob, sxPage, sxPreview, sxRestart, sxEngine, sxSeen, sxTorn, sxFault>>

-----------------------------------------------------------------------------
\* One write or removal, each atomic.  The first that fails turns the job round.
sxWrite ==
    /\ sxJob.kind \in {"save", "import", "prepare"} /\ sxJob.todo # <<>>
    /\ LET u == Head(sxJob.todo) IN
       \/ /\ sxDisk' = [sxDisk EXCEPT ![u[1]] = u[2]] /\ sxSeen' = TRUE /\ UNCHANGED sxFault
          /\ sxJob' = [sxJob EXCEPT !.todo = Tail(@), !.done = Append(@, u[1])]
       \/ sxFails /\ sxJob' = [sxJob EXCEPT !.kind = "undo", !.todo = <<>>] /\ UNCHANGED <<sxDisk, sxSeen>>
    /\ UNCHANGED <<sxSnaps, sxPage, sxPreview, sxRestart, sxEngine, sxTorn, sxOp>>
undone(f) == sxJob.before[f]
sxUndo ==
    /\ sxJob.kind = "undo" /\ sxJob.done # <<>>
    /\ LET f == Last(sxJob.done) IN
       \/ /\ sxDisk' = [sxDisk EXCEPT ![f] = undone(f)] /\ sxSeen' = TRUE /\ UNCHANGED sxFault
          /\ sxJob' = [sxJob EXCEPT !.done = Front(@)]
          /\ sxTorn' = (sxTorn \/ (f = "conf" /\ sxEngine = sxDisk["conf"].set))
       \/ /\ sxFails /\ sxJob' = [sxJob EXCEPT !.done = Front(@), !.torn = TRUE]
          /\ sxTorn' = TRUE /\ UNCHANGED <<sxDisk, sxSeen>>
    /\ UNCHANGED <<sxSnaps, sxPage, sxPreview, sxRestart, sxEngine, sxOp>>
\* The job ends; the page of the one who saved gets the new revision, the restart goes on or fails.
sxEnd ==
    /\ sxJob.kind # "idle" /\ sxJob.todo = <<>> /\ (sxJob.kind = "undo" => sxJob.done = <<>>)
    /\ sxJob' = sxIdle
    /\ sxPage' = IF sxJob.kind = "save" THEN serviceRevision(sxDisk) ELSE sxPage
    /\ sxRestart' = IF sxRestart.at # "saving" THEN sxRestart
                    ELSE IF sxJob.kind = "prepare" THEN [sxRestart EXCEPT !.at = "prepared"] ELSE sxNoRestart
    /\ UNCHANGED <<sxDisk, sxSnaps, sxPreview, sxEngine, sxSeen, sxTorn, sxOp, sxFault>>
sxCrash ==
    /\ sxFails /\ sxJob' = sxIdle /\ sxRestart' = sxNoRestart /\ sxPreview' = <<>>
    /\ sxTorn' = (sxTorn \/ sxJob.kind = "undo")
    /\ UNCHANGED <<sxDisk, sxSnaps, sxPage, sxEngine, sxSeen, sxOp>>

-----------------------------------------------------------------------------
\* The restart: the services are compiled anew if that is due, the revision captured, the engine started.
PrepareServiceStrategies ==
    /\ sxRestart.at = "idle" /\ sxAsks
    /\ sxRestart' = [at |-> IF restartRequired(sxDisk) THEN "read" ELSE "prepared", rev |-> serviceRevision(sxDisk),
                     services |-> sxDoc(sxDisk).set]
    /\ UNCHANGED <<sxDisk, sxSnaps, sxJob, sxPage, sxPreview, sxEngine, sxSeen, sxTorn, sxFault>>
sxPrepareSave ==
    /\ sxRestart.at = "read" /\ sxJob.kind = "idle"
    /\ IF sxRestart.rev = serviceRevision(sxDisk)
       THEN sxBegin("prepare", serviceUpdates(sxDisk, sxRestart.services), "") /\ sxRestart' = [sxRestart EXCEPT !.at = "saving"]
       ELSE sxRestart' = sxNoRestart /\ UNCHANGED sxJob
    /\ UNCHANGED <<sxDisk, sxSnaps, sxPage, sxPreview, sxEngine, sxSeen, sxTorn, sxOp, sxFault>>
sxCapture ==
    /\ sxRestart.at = "prepared" /\ sxJob.kind = "idle"
    /\ sxRestart' = [sxRestart EXCEPT !.at = "stopped", !.rev = serviceRevision(sxDisk)] /\ sxSeen' = FALSE
    /\ UNCHANGED <<sxDisk, sxSnaps, sxJob, sxPage, sxPreview, sxEngine, sxTorn, sxOp, sxFault>>
sxStart ==
    /\ sxRestart.at = "stopped"
    /\ sxEngine' = sxDisk["conf"].set /\ sxRestart' = [sxRestart EXCEPT !.at = "started"]
    /\ UNCHANGED <<sxDisk, sxSnaps, sxJob, sxPage, sxPreview, sxSeen, sxTorn, sxOp, sxFault>>
clearable(rev) == rev = serviceRevision(sxDisk)
ServiceStrategiesApplied ==
    /\ sxRestart.at = "started" /\ sxJob.kind = "idle" /\ sxRestart' = sxNoRestart
    /\ IF clearable(sxRestart.rev) /\ sxDoc(sxDisk).n = 1
       THEN /\ sxDisk' = [sxDisk EXCEPT !["doc"].n = 0]
            /\ sxTorn' = (sxTorn \/ (sxSeen /\ clearable(sxRestart.rev) /\ sxRestart.rev = serviceRevision(sxDisk)))
       ELSE UNCHANGED <<sxDisk, sxTorn>>
    /\ UNCHANGED <<sxSnaps, sxJob, sxPage, sxPreview, sxEngine, sxSeen, sxOp, sxFault>>

sxNext ==
    \/ sxLoad \/ SaveServiceStrategies \/ sxSaveConf \/ SaveAsset \/ DeleteAsset \/ sxAppend \/ StrategyPreview \/ StrategyImport \/ StrategySnapshotCreate
    \/ sxWrite \/ sxUndo \/ sxEnd \/ sxCrash
    \/ PrepareServiceStrategies \/ sxPrepareSave \/ sxCapture \/ sxStart \/ ServiceStrategiesApplied

-----------------------------------------------------------------------------
\* The config never names a list that is not there, whichever write failed and wherever the panel died: the
\* lists are written before the config and taken back after it.
ConfHasItsLists == sxDisk["conf"].set \in SxSets /\ ~sxTorn => sxDisk[sxDisk["conf"].set] # sxNoFile

\* A list the running engine was started with stays until it is restarted, also when an older state is
\* restored that does not have it.
EngineKeepsItsLists == sxEngine \in SxSets /\ ~sxTorn => sxDisk[sxEngine] # sxNoFile

\* The page never says that no restart is due while the engine runs other services than the ones it shows.
\* Excepted (sxTorn) are a rollback that failed or takes the config back after the engine has read it, files that were
\* changed and changed back during a restart, which have the captured revision again, and services saved as
\* somebody has already edited the block by hand, which changes no file.
RestartNotForgotten ==
    ~restartRequired(sxDisk) /\ ~sxTorn /\ sxRestart.at # "started" => sxEngine = sxDoc(sxDisk).set

\* A job that failed and could be rolled back leaves the files as it found them; the engine's own list may
\* have grown.
FailedJobRestores ==
    sxJob.kind = "undo" /\ sxJob.done = <<>> /\ ~sxJob.torn =>
        \A f \in sxFiles \ {"user"} : sxDisk[f] = sxJob.before[f]

\* While an import replaces the files there is a snapshot of all of them as they were.
ImportHasSnapshot ==
    sxJob.kind = "import" => \E k \in 1..Len(sxSnaps) : sxSnaps[k].auto /\ sxSnaps[k].files = sxJob.before

\* An import that keeps the personal lists never takes away what the engine appended meanwhile.
PersonalListKept ==
    [][sxJob.lists = "keep" /\ sxJob.before # <<>> /\ sxJob.before["user"] # sxNoFile
        => sxDisk'["user"].n >= sxDisk["user"].n]_sxVars

\* Config, lists, services and snapshots agree with one another and with the engine, wherever a job stopped.
FilesSafe ==
    /\ [](ConfHasItsLists /\ EngineKeepsItsLists /\ RestartNotForgotten /\ FailedJobRestores /\ ImportHasSnapshot)
    /\ PersonalListKept
=============================================================================
