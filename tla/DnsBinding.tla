----------------------------- MODULE DnsBinding -----------------------------
(***************************************************************************)
(* The crash-safe binding of OpenWrt's dnsmasq to the panel's DNS server   *)
(* (openwrtdns/manager.go, transaction.go).                                *)
(*                                                                         *)
(* Apply and Restore rewrite a few UCI options one command at a time, then *)
(* commit the packages one after the other and reload the services.  A     *)
(* snapshot file with the original values, written before the first        *)
(* command, lets a later Restore undo what an interrupted one left.  The   *)
(* mutex and the file lock make operations exclusive, so `tx' holds the    *)
(* locals of the one in progress.  UCI keeps uncommitted edits in a        *)
(* staging area on tmpfs which other users of the CLI share.               *)
(*                                                                         *)
(* Two of the four managed options stand for all: one list per package.    *)
(***************************************************************************)
EXTENDS Naturals, FiniteSets, SequencesExt

CONSTANTS
  Endpoints,      \* listener addresses the user can bind
  Originals,      \* option values found before the first Apply
  MaxFailures,    \* bound: how many commands fail
  MaxCrashes,     \* bound: how often the panel process dies
  MaxPowerLosses, \* bound: how often the router does
  MaxEdits,       \* bound: how many edits come from outside
  MaxFaults       \* bound on all of these together

Managed == {"dhcp.server", "network.dns"}
Other == "dhcp.other"
Options == Managed \cup {Other}
Network == {"network.dns"}
Dhcp == {"dhcp.server", Other}

\* Entries of a list that the panel finds or writes, and what the managed options hold.
Words == {"upstream", "conditional", "foreign"} \cup Endpoints
Values == [Managed -> Seq(Words)]

ASSUME DbAssumption == Originals \subseteq Values

VARIABLES
  committed,  \* /etc/config: value of every option
  work,       \* what `uci export' shows: committed plus staged edits
  dirty,      \* options with staged edits (`uci changes')
  live,       \* values the network and dnsmasq services have loaded
  file,       \* the snapshot file
  tx,         \* the operation in progress
  original,   \* history: the managed options as the user left them
  edited,    \* history: someone else edited a managed option since then
  budget      \* failures, crashes, power losses and edits so far

uci == <<committed, work, dirty>>
history == <<original, edited>>
dbVars == <<uci, live, file, tx, history, budget>>

-----------------------------------------------------------------------------
Absent == <<>>
AllAbsent == [k \in Managed |-> Absent]
Owned(values) == [k \in Managed |-> values[k]]

NoFile == [exists |-> FALSE, pending |-> FALSE, endpoint |-> "",
           original |-> AllAbsent, applied |-> AllAbsent, before |-> AllAbsent]

dbIdle == [stage |-> "idle", rolling |-> FALSE, restore |-> FALSE,
         todo |-> {}, deleted |-> FALSE, count |-> 0,
         current |-> AllAbsent, desired |-> AllAbsent, before |-> AllAbsent,
         next |-> NoFile, previous |-> NoFile]

dbInit ==
  /\ original \in Originals
  /\ committed = [k \in Options |-> IF k = Other THEN Absent ELSE original[k]]
  /\ work = committed
  /\ dirty = {}
  /\ live = original
  /\ file = NoFile
  /\ tx = dbIdle
  /\ edited = FALSE
  /\ budget = [what \in {"failures", "crashes", "losses", "edits"} |-> 0]

Spend(what, limit) ==
  /\ budget[what] < limit
  /\ budget["failures"] + budget["crashes"] + budget["losses"] + budget["edits"] < MaxFaults
  /\ budget' = [budget EXCEPT ![what] = @ + 1]

\* guardChanges: nothing is staged but the fields owned by the binding.
GuardChanges == dirty \subseteq Managed

\* conflict, as false: every owned option has a value the snapshot explains.
Explained(values, s) ==
  \A k \in Managed :
    \/ values[k] = s.applied[k]
    \/ s.pending /\ (\/ values[k] = s.before[k]
                     \/ values[k] = Absent
                     \/ IsPrefix(values[k], s.applied[k])
                     \/ IsPrefix(values[k], s.before[k]))

\* The panel's endpoint first; of the old servers only the conditional ones.
Conditional(servers) ==
  [n \in 1..Cardinality({i \in DOMAIN servers : servers[i] = "conditional"}) |-> "conditional"]
Bound(e, current) ==
  [k \in Managed |->
     IF k = "network.dns" THEN <<e>> ELSE <<e>> \o Conditional(current[k])]

-----------------------------------------------------------------------------
(* Operations *)

ApplyInspect_OriginalFromCurrent(e) ==
  LET current == Owned(work)
      applied == Bound(e, current)
  IN /\ tx.stage = "idle"
     /\ dirty = {}
     /\ file.exists => Explained(current, file) /\ ~file.pending
     /\ ~(file.exists /\ current = applied /\ file.endpoint = e)
     /\ tx' = [dbIdle EXCEPT
          !.stage = "pending",
          !.current = current,
          !.desired = applied,
          !.before = current,
          !.next = [exists |-> TRUE, pending |-> TRUE, endpoint |-> e,
                    original |-> current, applied |-> applied,
                    before |-> current],
          !.previous = file]
     /\ UNCHANGED <<uci, live, file, history, budget>>

\* Apply up to the first write: refused with staged edits, with unexplained
\* values, or while an earlier operation is unfinished.
ApplyInspect(e) ==
  LET current == Owned(work)
      applied == Bound(e, current)
  IN /\ tx.stage = "idle"
     /\ dirty = {}
     /\ file.exists => Explained(current, file) /\ ~file.pending
     /\ ~(file.exists /\ current = applied /\ file.endpoint = e)
     /\ tx' = [dbIdle EXCEPT
          !.stage = "pending",
          !.current = current,
          !.desired = applied,
          !.before = current,
          !.next = [exists |-> TRUE, pending |-> TRUE, endpoint |-> e,
                    original |-> IF file.exists THEN file.original ELSE current,
                    applied |-> applied, before |-> current],
          !.previous = file]
     /\ UNCHANGED <<uci, live, file, history, budget>>

\* Restore up to the first write.
RestoreInspect ==
  LET current == Owned(work)
  IN /\ tx.stage = "idle"
     /\ file.exists
     /\ dirty # {} => file.pending /\ GuardChanges
     /\ Explained(current, file)
     /\ tx' = [dbIdle EXCEPT
          !.stage = "pending",
          !.restore = TRUE,
          !.current = current,
          !.desired = file.original,
          !.before = current,
          !.next = [file EXCEPT !.pending = TRUE, !.before = current,
                                !.applied = file.original],
          !.previous = file]
     /\ UNCHANGED <<uci, live, file, history, budget>>

\* replaceAndReload works through the keys in order, skipping those that have
\* their value already.
ChangedKeys(current, desired) == {k \in Managed : current[k] # desired[k]}
FirstKey(keys) == IF "dhcp.server" \in keys THEN "dhcp.server" ELSE "network.dns"

Replace(t) ==
  [t EXCEPT !.stage = "replace", !.todo = ChangedKeys(t.current, t.desired),
            !.deleted = FALSE, !.count = 0]

\* A step fails: the operation rolls back, a rollback gives up and leaves the
\* pending snapshot for a later Restore.
Fail(t) == IF t.rolling THEN dbIdle ELSE [t EXCEPT !.stage = "rollback"]

\* writeSnapshot of the pending transaction, before any command.  If it fails
\* the operation returns.
WritePending ==
  /\ tx.stage = "pending"
  /\ \/ file' = tx.next /\ tx' = Replace(tx) /\ UNCHANGED budget
     \/ UNCHANGED file /\ tx' = dbIdle /\ Spend("failures", MaxFailures)
  /\ UNCHANGED <<uci, live, history>>

\* A command of the sequence fails, with or without its effect.
Failing(effect) ==
  /\ Spend("failures", MaxFailures)
  /\ tx' = Fail(tx)
  /\ effect \/ UNCHANGED <<uci, live>>

SetWork(k, v) ==
  /\ work' = [work EXCEPT ![k] = v]
  /\ dirty' = dirty \cup {k}
  /\ UNCHANGED <<committed, live>>

\* The first key, once deleted and refilled, makes room for the next.
NextKey(t) ==
  [t EXCEPT !.todo = t.todo \ {FirstKey(t.todo)}, !.deleted = FALSE, !.count = 0]

\* uci delete, for a key that had a value; it fails if the key is gone by now.
DeleteKey ==
  LET k == FirstKey(tx.todo)
  IN /\ tx.stage = "replace" /\ tx.todo # {}
     /\ ~tx.deleted /\ tx.current[k] # Absent
     /\ IF work[k] = Absent
          THEN tx' = Fail(tx) /\ UNCHANGED <<uci, live, budget>>
          ELSE \/ /\ SetWork(k, Absent)
                  /\ tx' = IF tx.desired[k] = Absent THEN NextKey(tx)
                           ELSE [tx EXCEPT !.deleted = TRUE]
                  /\ UNCHANGED budget
               \/ Failing(SetWork(k, Absent))
     /\ UNCHANGED <<file, history>>

\* uci set or add_list with the next value.
AddValue ==
  LET k == FirstKey(tx.todo)
      n == tx.count + 1
      added == SetWork(k, Append(work[k], tx.desired[k][n]))
  IN /\ tx.stage = "replace" /\ tx.todo # {}
     /\ tx.deleted \/ tx.current[k] = Absent
     /\ n <= Len(tx.desired[k])
     /\ \/ /\ added
           /\ UNCHANGED budget
           /\ tx' = IF n = Len(tx.desired[k]) THEN NextKey(tx)
                    ELSE [tx EXCEPT !.deleted = TRUE, !.count = n]
        \/ Failing(added)
     /\ UNCHANGED <<file, history>>

KeysDone ==
  /\ tx.stage = "replace" /\ tx.todo = {}
  /\ tx' = [tx EXCEPT !.stage = "guard network"]
  /\ UNCHANGED <<uci, live, file, history, budget>>

\* The check of the staging area before each commit ...
Guard ==
  /\ tx.stage \in {"guard network", "guard dhcp"}
  /\ \/ /\ GuardChanges
        /\ tx' = [tx EXCEPT !.stage = IF @ = "guard network" THEN "commit network"
                                      ELSE "commit dhcp"]
        /\ UNCHANGED <<uci, live, budget>>
     \/ ~GuardChanges /\ tx' = Fail(tx) /\ UNCHANGED <<uci, live, budget>>
     \/ Failing(FALSE)
  /\ UNCHANGED <<file, history>>

CommitPackage(pkg) ==
  /\ committed' = [k \in Options |-> IF k \in pkg THEN work[k] ELSE committed[k]]
  /\ dirty' = dirty \ pkg
  /\ UNCHANGED <<work, live>>

\* ... and the commit: it takes whatever is staged for the package by now.
Commit ==
  LET pkg == IF tx.stage = "commit network" THEN Network ELSE Dhcp
  IN /\ tx.stage \in {"commit network", "commit dhcp"}
     /\ \/ /\ CommitPackage(pkg)
           /\ UNCHANGED budget
           /\ tx' = [tx EXCEPT !.stage = IF pkg = Network THEN "guard dhcp"
                                         ELSE "reload"]
        \/ Failing(CommitPackage(pkg))
     /\ UNCHANGED <<file, history>>

\* The network service is reloaded, then dnsmasq.
Reload ==
  LET loaded(keys) ==
        /\ live' = [k \in Managed |-> IF k \in keys THEN committed[k] ELSE live[k]]
        /\ UNCHANGED uci
  IN /\ tx.stage = "reload"
     /\ \/ /\ loaded(Managed)
           /\ UNCHANGED budget
           /\ tx' = [tx EXCEPT !.stage = "verify"]
        \/ Failing(loaded(Network) \/ loaded(Managed))
     /\ UNCHANGED <<file, history>>

\* verifyApplied: the values are there and nothing foreign is staged.
Verify ==
  /\ tx.stage = "verify"
  /\ \/ /\ tx' = IF Owned(work) = tx.desired /\ GuardChanges
                  THEN [tx EXCEPT !.stage = "finish"] ELSE Fail(tx)
        /\ UNCHANGED <<uci, live, budget>>
     \/ Failing(FALSE)
  /\ UNCHANGED <<file, history>>

\* The last write: Apply's final snapshot, Restore's removal of the file, or the
\* snapshot that a rollback puts back.
Finish ==
  /\ tx.stage = "finish"
  /\ \/ /\ file' = IF tx.rolling THEN tx.previous
                   ELSE IF tx.restore THEN NoFile
                   ELSE [tx.next EXCEPT !.pending = FALSE, !.before = AllAbsent]
        /\ tx' = dbIdle
        /\ UNCHANGED budget
     \/ UNCHANGED file /\ tx' = Fail(tx) /\ Spend("failures", MaxFailures)
  /\ UNCHANGED <<uci, live, history>>

\* rollback: read the actual values; if they are explained and nothing foreign
\* is staged, replace them by those from before.
Rollback ==
  LET recovery == [tx.next EXCEPT !.pending = TRUE, !.before = tx.before]
  IN /\ tx.stage = "rollback"
     /\ \/ /\ tx' = IF Explained(Owned(work), recovery) /\ GuardChanges
                   THEN Replace([tx EXCEPT !.rolling = TRUE,
                                           !.current = Owned(work),
                                           !.desired = tx.before])
                   ELSE dbIdle
           /\ UNCHANGED budget
        \/ tx' = dbIdle /\ Spend("failures", MaxFailures)
     /\ UNCHANGED <<uci, live, file, history>>

-----------------------------------------------------------------------------
(* The environment *)

\* The panel process dies; the staging area stays.
dbCrash ==
  /\ tx # dbIdle
  /\ Spend("crashes", MaxCrashes)
  /\ tx' = dbIdle
  /\ UNCHANGED <<uci, live, file, history>>

\* The router reboots: the staging area is gone, services load what is committed.
PowerLoss ==
  /\ Spend("losses", MaxPowerLosses)
  /\ tx' = dbIdle
  /\ work' = committed
  /\ dirty' = {}
  /\ live' = Owned(committed)
  /\ UNCHANGED <<committed, file, history>>

\* Someone stages an edit of an option that is not ours ...
StageOther ==
  /\ Other \notin dirty
  /\ Spend("edits", MaxEdits)
  /\ work' = [work EXCEPT ![Other] = <<"other">>]
  /\ dirty' = dirty \cup {Other}
  /\ UNCHANGED <<committed, live, file, tx, history>>

\* ... and drops it, or commits the package with everything staged in it.
RevertOther ==
  /\ Other \in dirty
  /\ work' = [work EXCEPT ![Other] = committed[Other]]
  /\ dirty' = dirty \ {Other}
  /\ UNCHANGED <<committed, live, file, tx, history, budget>>

CommitOther ==
  /\ Other \in dirty
  /\ CommitPackage(Dhcp)
  /\ UNCHANGED <<file, tx, history, budget>>

\* An administrator sets and commits one of our options, and reloads.  Without a
\* snapshot or an Apply in progress that is a new original.
EditManaged(k) ==
  LET fresh == ~file.exists /\ tx = dbIdle
  IN /\ k \notin dirty
     /\ Spend("edits", MaxEdits)
     /\ work' = [work EXCEPT ![k] = <<"foreign">>]
     /\ committed' = [committed EXCEPT ![k] = <<"foreign">>]
     /\ live' = [live EXCEPT ![k] = <<"foreign">>]
     /\ original' = IF fresh THEN [original EXCEPT ![k] = <<"foreign">>]
                    ELSE original
     /\ edited' = (edited \/ ~fresh)
     /\ UNCHANGED <<dirty, file, tx>>

-----------------------------------------------------------------------------
dbNext ==
  \/ \E e \in Endpoints : ApplyInspect(e)
  \/ RestoreInspect
  \/ WritePending \/ DeleteKey \/ AddValue \/ KeysDone \/ Guard \/ Commit
  \/ Reload \/ Verify \/ Finish \/ Rollback
  \/ dbCrash \/ PowerLoss
  \/ StageOther \/ RevertOther \/ CommitOther
  \/ \E k \in Managed : EditManaged(k)

-----------------------------------------------------------------------------
\* Types, and the relation between the staging area and the committed files.
dbTypeOK ==
  /\ dirty \subseteq Options
  /\ \A k \in Options \ dirty : work[k] = committed[k]
  /\ live \in Values /\ original \in Values
  /\ file.original \in Values /\ file.applied \in Values
  /\ tx.deleted => tx.todo # {}
  /\ file.pending => file.exists

\* The original values survive any number of applies, failures and crashes:
\* while a binding is managed or half-made, the file still holds what the user
\* had, and without a file the options are as the user left them.
OriginalKept ==
  ~edited =>
    IF file.exists THEN file.original = original
    ELSE Owned(committed) = original /\ Owned(work) = original

\* Outside an operation, a snapshot that is not marked pending is the whole
\* truth: committed, visible and loaded values are the applied ones (the
\* original ones without a snapshot).  Whatever is half done is marked.
Settled ==
  ~edited /\ tx = dbIdle /\ ~file.pending =>
    LET values == IF file.exists THEN file.applied ELSE original
    IN /\ Owned(committed) = values /\ Owned(work) = values
       /\ live = values
       /\ dirty \cap Managed = {}

\* An interrupted operation can always be undone: as long as nobody else edits
\* the owned options, Restore never takes its own leftovers for somebody's edit.
Recoverable == ~edited /\ file.exists => Explained(Owned(work), file)

\* The same without a power loss, where the staged edits outlive the panel.
CrashRecoverable == budget["losses"] = 0 => Recoverable

\* The user's settings survive, what is half done is marked, and it can be undone after a crash.
BindingSafe == dbTypeOK /\ OriginalKept /\ Settled /\ CrashRecoverable
=============================================================================
