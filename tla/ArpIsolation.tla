---------------------------- MODULE ArpIsolation ----------------------------
(***************************************************************************)
(* Client isolation of a Keenetic segment: a change is checked against the *)
(* page it was asked on, sent, verified, saved, and taken back when one of *)
(* these fails.  A command that failed may have had its effect; the router *)
(* is configured by others at the same time; the browser may go away.      *)
(* The gate lets one operation in at a time.                               *)
(***************************************************************************)
EXTENDS Naturals

CONSTANTS
    AiAsks,   \* bound on changes asked for
    AiFaults, \* bound on failed commands and crashes
    AiEdits   \* bound on edits of others

VARIABLES
    aiRun,    \* running configuration of the segment: isolated, a local segment
    aiSaved,  \* startup configuration
    aiPage,   \* configuration whose revision the browser has
    aiCache, aiFresh, \* the cached view, and whether it is younger than five seconds
    aiJob,    \* the change that holds the gate
    aiAnswer, \* the last answer
    aiSince,  \* what was done since: commands since the cache was filled, edits of others since the change began
    aiAsked, aiFault, aiEdit

aiVars == <<aiRun, aiSaved, aiPage, aiCache, aiFresh, aiJob, aiAnswer, aiSince, aiAsked, aiFault, aiEdit>>

aiIdle == [at |-> "idle", want |-> FALSE, prev |-> FALSE, view |-> [iso |-> FALSE, local |-> TRUE]]

aiInit ==
    /\ aiRun = [iso |-> FALSE, local |-> TRUE] /\ aiSaved = aiRun /\ aiPage = aiRun /\ aiCache = aiRun
    /\ aiFresh = FALSE /\ aiJob = aiIdle /\ aiAnswer = [what |-> "none", want |-> FALSE, prev |-> FALSE]
    /\ aiSince = [sent |-> FALSE, edited |-> FALSE] /\ aiAsked = 0 /\ aiFault = 0 /\ aiEdit = 0

aiFails == aiFault < AiFaults /\ aiFault' = aiFault + 1
aiWorks == UNCHANGED aiFault
aiEnds(what) ==
    aiJob' = aiIdle /\ aiAnswer' = [what |-> what, want |-> aiJob.want, prev |-> aiJob.prev]
aiGoes(at) == aiJob' = [aiJob EXCEPT !.at = at] /\ UNCHANGED aiAnswer

-----------------------------------------------------------------------------
\* The revision is a digest of everything that was parsed, so it tells two configurations apart.
revision(cfg) == cfg
\* A segment may be changed if it is local by its configuration, and by its live status.
validTarget(cfg) == cfg.local
\* View: the cached one, or the configuration read anew.
aiShow ==
    /\ aiJob.at = "idle" /\ aiWorks
    /\ \/ aiFresh /\ aiPage' = revision(aiCache) /\ UNCHANGED <<aiCache, aiFresh, aiSince>>
       \/ /\ ~aiFresh /\ aiPage' = revision(aiRun) /\ aiCache' = aiRun /\ aiFresh' = TRUE
          /\ aiSince' = [aiSince EXCEPT !.sent = FALSE]
    /\ UNCHANGED <<aiRun, aiSaved, aiJob, aiAnswer, aiAsked, aiEdit>>
aiExpire ==
    /\ aiFresh /\ aiFresh' = FALSE
    /\ UNCHANGED <<aiRun, aiSaved, aiPage, aiCache, aiJob, aiAnswer, aiSince, aiAsked, aiFault, aiEdit>>
\* The change that was verified and saved, or that was not needed, becomes the cached view.
finish(view) == aiCache' = view /\ aiFresh' = TRUE /\ aiSince' = [aiSince EXCEPT !.sent = FALSE] /\ aiEnds("done")

\* A change begins: the cached view is void, the configuration is read, the revision of the page compared.
expired == FALSE
aiAsk ==
    /\ aiJob.at = "idle" /\ aiAsked < AiAsks /\ aiAsked' = aiAsked + 1 /\ aiWorks
    /\ aiFresh' = expired
    /\ aiSince' = [aiSince EXCEPT !.edited = FALSE]
    /\ \E want \in BOOLEAN :
        LET job == [at |-> "status", want |-> want, prev |-> aiRun.iso, view |-> aiRun]
            answer == [what |-> "refused", want |-> want, prev |-> aiRun.iso] IN
        IF aiPage = revision(aiRun) /\ validTarget(aiRun)
        THEN aiJob' = job /\ UNCHANGED aiAnswer
        ELSE aiJob' = aiIdle /\ aiAnswer' = answer
    /\ UNCHANGED <<aiRun, aiSaved, aiPage, aiCache, aiEdit>>

\* The live status of the interface, the last look before the command.
aiStatus ==
    /\ aiJob.at = "status"
    /\ \/ aiFails /\ aiEnds("refused") /\ UNCHANGED <<aiCache, aiFresh, aiSince>>
       \/ ~aiRun.local /\ aiWorks /\ aiEnds("refused") /\ UNCHANGED <<aiCache, aiFresh, aiSince>>
       \/ aiRun.local /\ aiWorks /\ aiJob.prev = aiJob.want /\ finish(aiJob.view)
       \/ aiRun.local /\ aiWorks /\ aiJob.prev # aiJob.want /\ aiGoes("send") /\ UNCHANGED <<aiCache, aiFresh, aiSince>>
    /\ UNCHANGED <<aiRun, aiSaved, aiPage, aiAsked, aiEdit>>
\* The browser goes away: before the command this ends the change, from then on it goes on without it.
cancellable == {"status", "send"}
aiGone ==
    /\ aiJob.at \in cancellable /\ aiEnds("refused")
    /\ UNCHANGED <<aiRun, aiSaved, aiPage, aiCache, aiFresh, aiSince, aiAsked, aiFault, aiEdit>>

-----------------------------------------------------------------------------
\* A command; one that fails may have been carried out.
aiCommand(iso, next, failed) ==
    /\ aiSince' = [aiSince EXCEPT !.sent = TRUE]
    /\ \/ aiWorks /\ aiRun' = [aiRun EXCEPT !.iso = iso] /\ aiGoes(next)
       \/ aiFails /\ (\E now \in {aiRun.iso, iso} : aiRun' = [aiRun EXCEPT !.iso = now]) /\ failed
    /\ UNCHANGED <<aiSaved, aiPage, aiCache, aiFresh, aiAsked, aiEdit>>
\* The configuration is read again and must show the value.
aiVerify(iso, next, failed) ==
    /\ \/ /\ aiWorks /\ aiRun.iso = iso
          /\ aiJob' = [aiJob EXCEPT !.at = next, !.view = aiRun] /\ UNCHANGED aiAnswer
       \/ (aiFails \/ (aiWorks /\ aiRun.iso # iso)) /\ failed
    /\ UNCHANGED <<aiRun, aiSaved, aiPage, aiCache, aiFresh, aiSince, aiAsked, aiEdit>>

aiSend == aiJob.at = "send" /\ aiCommand(aiJob.want, "verify", aiGoes("undo"))
aiCheck == aiJob.at = "verify" /\ aiVerify(aiJob.want, "save", aiGoes("undo"))
aiSave ==
    /\ aiJob.at = "save"
    /\ \/ aiWorks /\ aiSaved' = aiRun /\ finish(aiJob.view)
       \/ aiFails /\ aiSaved' \in {aiSaved, aiRun} /\ aiGoes("undo") /\ UNCHANGED <<aiCache, aiFresh, aiSince>>
    /\ UNCHANGED <<aiRun, aiPage, aiAsked, aiEdit>>
aiUndo == aiJob.at = "undo" /\ aiCommand(aiJob.prev, "verifyUndo", aiEnds("unconfirmed"))
aiCheckUndo == aiJob.at = "verifyUndo" /\ aiVerify(aiJob.prev, "saveUndo", aiEnds("unconfirmed"))
saveUndo_None == UNCHANGED <<aiFault, aiSaved>> /\ aiEnds("restored")
saveUndo ==
    \/ aiWorks /\ aiSaved' = aiRun /\ aiEnds("restored")
    \/ aiFails /\ aiSaved' \in {aiSaved, aiRun} /\ aiEnds("unconfirmed")
aiSaveUndo ==
    /\ aiJob.at = "saveUndo" /\ saveUndo
    /\ UNCHANGED <<aiRun, aiPage, aiCache, aiFresh, aiSince, aiAsked, aiEdit>>

-----------------------------------------------------------------------------
\* Somebody edits the running configuration, or saves it; the router restarts from the saved one.
aiEdited ==
    /\ aiEdit < AiEdits /\ aiEdit' = aiEdit + 1
    /\ aiSince' = [aiSince EXCEPT !.edited = TRUE]
    /\ \/ aiRun' \in [iso : BOOLEAN, local : BOOLEAN] /\ UNCHANGED <<aiSaved, aiJob, aiFresh>>
       \/ aiSaved' = aiRun /\ UNCHANGED <<aiRun, aiJob, aiFresh>>
       \/ aiRun' = aiSaved /\ aiJob' = aiIdle /\ aiFresh' = FALSE /\ UNCHANGED aiSaved
    /\ UNCHANGED <<aiPage, aiCache, aiAnswer, aiAsked, aiFault>>
aiCrash ==
    /\ aiFails /\ aiJob' = aiIdle /\ aiFresh' = FALSE
    /\ aiAnswer' = [what |-> "none", want |-> FALSE, prev |-> FALSE]
    /\ UNCHANGED <<aiRun, aiSaved, aiPage, aiCache, aiSince, aiAsked, aiEdit>>

aiNext ==
    \/ aiShow \/ aiExpire \/ aiAsk \/ aiStatus \/ aiGone \/ aiSend \/ aiCheck \/ aiSave \/ aiUndo \/ aiCheckUndo
    \/ aiSaveUndo \/ aiEdited \/ aiCrash
aiSpec == aiInit /\ [][aiNext]_aiVars

-----------------------------------------------------------------------------
\* The answer says what is: a change that was made is in force, and one that is reported as taken back is
\* neither in force nor in the startup configuration, whichever command failed and whether it took effect.
\* (Unless somebody else changed the segment since.)
AnswerIsTrue ==
    aiJob.at = "idle" /\ ~aiSince.edited =>
        /\ aiAnswer.what = "done" => aiRun.iso = aiAnswer.want
        /\ aiAnswer.what = "restored" => aiRun.iso = aiAnswer.prev /\ aiSaved.iso = aiAnswer.prev

\* A change that was refused, or whose browser went away in time, has touched nothing.
RefusedIsUntouched ==
    aiJob.at = "idle" /\ ~aiSince.edited /\ aiAnswer.what = "refused" => aiRun.iso = aiAnswer.prev

\* The cached view is never one from before a command of the panel, also when the change failed and its
\* rollback was not confirmed.
CacheKnowsCommands == aiJob.at = "idle" /\ aiFresh => ~aiSince.sent

\* What the panel answers and caches about a segment is what the router does.
IsolationSafe == AnswerIsTrue /\ RefusedIsUntouched /\ CacheKnowsCommands
=============================================================================
