----------------------------- MODULE SelfUpdate -----------------------------
(***************************************************************************)
(* The panel replaces its own binary: the latest release is looked up, its *)
(* asset downloaded in attempts that resume what an earlier one left, and  *)
(* renamed over the executable; a detached shell then restarts the panel.  *)
(* Downloads break off, releases are published meanwhile, and the restart  *)
(* or a loss of power ends whatever is under way.  (The same job started   *)
(* from the command line beside the panel is not modelled.)                *)
(***************************************************************************)
EXTENDS Naturals, Sequences

CONSTANTS
    SuSize,      \* parts of a release: what one attempt may download less of
    SuReleases,  \* bound on releases published while the panel runs
    SuTries,     \* attempts per address (5)
    SuFaults     \* bound on broken downloads, failed commands and crashes

ASSUME SuAssumption == SuSize \in Nat \ {0} /\ SuReleases \in Nat /\ SuTries \in Nat \ {0} /\ SuFaults \in Nat

VARIABLES
    suExe,      \* content of the executable, a sequence of parts, each of a release
    suPart, suNew, \* the two temporary files beside it; <<>>: not there
    suPublished, \* the latest release
    suPanel,    \* version of the running panel, and its status: running and stage
    suJob,      \* the job in the panel: step, release looked up, address, attempt
    suDue,      \* a restart is scheduled
    suMixed,    \* a release was published between two attempts at the address of the latest one
    suFault

suVars == <<suExe, suPart, suNew, suPublished, suPanel, suJob, suDue, suMixed, suFault>>

suRelease(r) == [i \in 1..SuSize |-> r]
suNoJob == [at |-> "idle", latest |-> 0, url |-> 1, try |-> 1]

suInit ==
    /\ suExe = suRelease(0) /\ suPart = <<>> /\ suNew = <<>> /\ suPublished = 0
    /\ suPanel = [version |-> 0, running |-> FALSE, stage |-> "idle"]
    /\ suJob = suNoJob /\ suDue = FALSE /\ suMixed = FALSE /\ suFault = 0

suFails == suFault < SuFaults /\ suFault' = suFault + 1
suTo(at) == suJob' = [suJob EXCEPT !.at = at]
suShow(stage) == suPanel' = [suPanel EXCEPT !.stage = stage]
suFailed == suJob' = suNoJob /\ suPanel' = [suPanel EXCEPT !.running = FALSE, !.stage = "error"]

-----------------------------------------------------------------------------
suPublish ==
    /\ suPublished < SuReleases /\ suPublished' = suPublished + 1
    /\ suMixed' = (suMixed \/ (suJob.at = "download" /\ suJob.url = 2 /\ suPart # <<>>))
    /\ UNCHANGED <<suExe, suPart, suNew, suPanel, suJob, suDue, suFault>>

startable == ~suPanel.running
StartSelfUpdate ==
    /\ startable /\ suPanel' = [suPanel EXCEPT !.running = TRUE, !.stage = "queued"]
    /\ suJob' = [suNoJob EXCEPT !.at = "check"]
    /\ UNCHANGED <<suExe, suPart, suNew, suPublished, suDue, suMixed, suFault>>
CheckUpdate ==
    /\ suJob.at = "check"
    /\ \/ /\ suPublished > suPanel.version /\ UNCHANGED suFault /\ suShow("downloading")
          /\ suJob' = [suJob EXCEPT !.at = "clear", !.latest = suPublished]
       \/ suPublished <= suPanel.version /\ suFailed /\ UNCHANGED suFault
       \/ suFails /\ suFailed
    /\ UNCHANGED <<suExe, suPart, suNew, suPublished, suDue, suMixed>>
\* Each address begins with no part of a file.
cleared == <<>>
suClear ==
    /\ suJob.at = "clear" /\ suPart' = cleared /\ suTo("download")
    /\ UNCHANGED <<suExe, suNew, suPublished, suPanel, suDue, suMixed, suFault>>
\* What the address serves: the tagged release, or the latest one.
served == IF suJob.url = 1 THEN suJob.latest ELSE suPublished
\* The server may refuse to resume and send all of it; then the part is written anew.
suFrom == {suPart} \cup {<<>>}
suRest(from, n) == from \o [i \in 1..(n - Len(from)) |-> served]
whole(n) == n = SuSize
downloadAttempt ==
    /\ suJob.at = "download" /\ suJob.try <= SuTries
    /\ \E from \in suFrom, n \in 0..SuSize :
        /\ n >= Len(from) /\ suPart' = suRest(from, n)
        /\ IF whole(n) THEN suTo("rename") /\ UNCHANGED suFault
           ELSE suFails /\ suJob' = [suJob EXCEPT !.try = @ + 1]
    /\ UNCHANGED <<suExe, suNew, suPublished, suPanel, suDue, suMixed>>
\* After the last address the job fails, else the next one is tried.
suNextUrl ==
    IF suJob.url = 1 THEN suJob' = [suJob EXCEPT !.at = "clear", !.url = 2, !.try = 1] /\ UNCHANGED suPanel ELSE suFailed
suGiveUp ==
    /\ suJob.at = "download" /\ suJob.try > SuTries /\ suPart' = <<>>
    /\ suNextUrl /\ UNCHANGED <<suExe, suNew, suPublished, suDue, suMixed, suFault>>
suRenamePart ==
    /\ suJob.at = "rename"
    /\ \/ suNew' = suPart /\ suPart' = <<>> /\ suTo("replace") /\ suShow("replacing") /\ UNCHANGED suFault
       \/ suFails /\ suNextUrl /\ UNCHANGED <<suNew, suPart>>
    /\ UNCHANGED <<suExe, suPublished, suDue, suMixed>>
suReplace ==
    /\ suJob.at = "replace" /\ suNew' = <<>>
    /\ \/ suExe' = suNew /\ suTo("restart") /\ suShow("restarting") /\ UNCHANGED suFault
       \/ suFails /\ suFailed /\ UNCHANGED suExe
    /\ UNCHANGED <<suPart, suPublished, suDue, suMixed>>
detachedRestart ==
    /\ suJob.at = "restart"
    /\ \/ /\ suDue' = TRUE /\ suJob' = suNoJob /\ UNCHANGED suFault
          /\ suPanel' = [suPanel EXCEPT !.running = FALSE, !.stage = "restarting"]
       \/ suFails /\ suFailed /\ UNCHANGED suDue
    /\ UNCHANGED <<suExe, suPart, suNew, suPublished, suMixed>>

\* The panel starts from the executable, after the scheduled restart or after a crash.
suVersion == IF suExe = <<>> THEN 0 ELSE suExe[1]
suStarts(due) ==
    /\ suPanel' = [version |-> suVersion, running |-> FALSE, stage |-> "idle"] /\ suJob' = suNoJob /\ suDue' = due
    /\ UNCHANGED <<suExe, suPart, suNew, suPublished, suMixed>>
suRestart == suDue /\ suStarts(FALSE) /\ UNCHANGED suFault
suCrash == suFails /\ suStarts(FALSE)

suNext ==
    \/ suPublish \/ StartSelfUpdate \/ CheckUpdate \/ suClear \/ downloadAttempt \/ suGiveUp
    \/ suRenamePart \/ suReplace \/ detachedRestart \/ suRestart \/ suCrash

-----------------------------------------------------------------------------
\* The executable is always one whole release, wherever a download broke off and whatever it was resumed with.
\* Excepted (suMixed) is a release published between two attempts at the address that always serves the latest.
ExeIsWhole == ~suMixed => \E r \in 0..SuReleases : suExe = suRelease(r)

\* The status says that a job is running exactly while one is: a second click never starts another beside it, and
\* no outcome leaves the panel refusing to try again.
StatusFollowsJob == suPanel.running <=> suJob.at # "idle"

\* An update leaves a whole executable and a status that is true.
UpdateSafe == ExeIsWhole /\ StatusFollowsJob
=============================================================================
