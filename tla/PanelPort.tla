------------------------------ MODULE PanelPort ------------------------------
(***************************************************************************)
(* The web panel moves to another port while it runs: the new socket is    *)
(* bound, the choice saved, the new server started and the old one closed  *)
(* after a grace period, from a goroutine of its own.  Changes follow one  *)
(* another faster than the old servers close, the panel can be shut down   *)
(* or die in between, and other programs take ports.                       *)
(***************************************************************************)
EXTENDS Naturals, FiniteSets

CONSTANTS
    PpPorts,     \* ports; one of them is the default
    PpDefault,
    PpChanges,   \* bound on changes of the port
    PpFaults     \* bound on failed saves, crashes and ports taken by others

ASSUME PpAssumption == 0 \notin PpPorts /\ PpDefault \in PpPorts /\ PpChanges \in Nat /\ PpFaults \in Nat

VARIABLES
    ppSaved,     \* ports.json: the port, or 0
    ppCurrent,   \* the server that serves the address, 0 when the panel is down
    ppServers,   \* the port of each server known to the listener; 0: unknown or removed
    ppOpen,      \* servers whose socket is open
    ppClosers,   \* servers a goroutine waits to close
    ppShut,      \* Shutdown: no, marked, or over; and the servers it closes
    ppChange,    \* the change that holds mu: its step and its port
    ppOthers,    \* ports other programs hold
    ppCount, ppFault

ppVars == <<ppSaved, ppCurrent, ppServers, ppOpen, ppClosers, ppShut, ppChange, ppOthers, ppCount, ppFault>>

ppIds == 1..(PpChanges + PpFaults + 1)
ppNoChange == [at |-> "idle", port |-> 0]
ppRunning == [at |-> "no", servers |-> {}]

ppInit ==
    /\ ppSaved = 0 /\ ppCurrent = 1 /\ ppServers = [s \in ppIds |-> IF s = 1 THEN PpDefault ELSE 0]
    /\ ppOpen = {1} /\ ppClosers = {} /\ ppShut = ppRunning /\ ppChange = ppNoChange /\ ppOthers = {}
    /\ ppCount = 0 /\ ppFault = 0

ppFails == ppFault < PpFaults /\ ppFault' = ppFault + 1
\* The port of a server once started; the map forgets closed ones, the socket does not.
ppUsed == {ppServers[s] : s \in ppOpen} \cup ppOthers
ppAddress == ppServers[ppCurrent]
ppFresh == CHOOSE s \in ppIds : ppServers[s] = 0 /\ \A t \in ppIds : ppServers[t] = 0 => s <= t

-----------------------------------------------------------------------------
\* A change holds mu from the bind to the new server.
acceptsChange == ppShut.at = "no"
ppBind ==
    /\ ppCurrent # 0 /\ ppChange.at = "idle" /\ ppCount < PpChanges /\ ppCount' = ppCount + 1 /\ acceptsChange
    /\ \E p \in PpPorts :
        ppChange' = IF p = ppAddress THEN [at |-> "resave", port |-> p]
                    ELSE IF p \in ppUsed THEN ppNoChange ELSE [at |-> "bound", port |-> p]
    /\ UNCHANGED <<ppSaved, ppCurrent, ppServers, ppOpen, ppClosers, ppShut, ppOthers, ppFault>>
\* SetPanelPort's callback writes ports.json; if it cannot, the new socket is closed.
ppPersist ==
    /\ ppChange.at \in {"bound", "resave"}
    /\ \/ ppSaved' = ppChange.port /\ UNCHANGED ppFault
          /\ ppChange' = IF ppChange.at = "bound" THEN [ppChange EXCEPT !.at = "saved"] ELSE ppNoChange
       \/ ppFails /\ ppChange' = ppNoChange /\ UNCHANGED ppSaved
    /\ UNCHANGED <<ppCurrent, ppServers, ppOpen, ppClosers, ppShut, ppOthers, ppCount>>
closes_Current(old, new) == new
closes(old, new) == old
ppStart ==
    /\ ppChange.at = "saved" /\ ppChange' = ppNoChange
    /\ ppCurrent' = ppFresh /\ ppServers' = [ppServers EXCEPT ![ppFresh] = ppChange.port]
    /\ ppOpen' = ppOpen \cup {ppFresh} /\ ppClosers' = ppClosers \cup {closes(ppCurrent, ppFresh)}
    /\ UNCHANGED <<ppSaved, ppShut, ppOthers, ppCount, ppFault>>
\* The grace period of a server is over.
ppClose(s) ==
    /\ s \in ppClosers /\ ppClosers' = ppClosers \ {s} /\ ppOpen' = ppOpen \ {s}
    /\ UNCHANGED <<ppSaved, ppCurrent, ppServers, ppShut, ppChange, ppOthers, ppCount, ppFault>>

\* Shutdown marks the listener closed under mu and closes the servers it found.
ppShutdown ==
    /\ ppCurrent # 0 /\ ppChange.at = "idle" /\ ppShut.at = "no"
    /\ ppShut' = [at |-> "marked", servers |-> ppOpen]
    /\ UNCHANGED <<ppSaved, ppCurrent, ppServers, ppOpen, ppClosers, ppChange, ppOthers, ppCount, ppFault>>
ppShutOne(s) ==
    /\ s \in ppShut.servers /\ ppShut' = [ppShut EXCEPT !.servers = @ \ {s}] /\ ppOpen' = ppOpen \ {s}
    /\ UNCHANGED <<ppSaved, ppCurrent, ppServers, ppClosers, ppChange, ppOthers, ppCount, ppFault>>
ppShutDone ==
    /\ ppShut.at = "marked" /\ ppShut.servers = {} /\ ppShut' = [ppShut EXCEPT !.at = "over"]
    /\ UNCHANGED <<ppSaved, ppCurrent, ppServers, ppOpen, ppClosers, ppChange, ppOthers, ppCount, ppFault>>
ppCrash ==
    /\ ppCurrent # 0 /\ ppFails
    /\ ppCurrent' = 0 /\ ppOpen' = {} /\ ppClosers' = {} /\ ppShut' = ppRunning /\ ppChange' = ppNoChange
    /\ UNCHANGED <<ppSaved, ppServers, ppOthers, ppCount>>
\* Start: the saved port, whatever the init script passes.
ResolvePanelListenAddr == IF ppSaved = 0 THEN PpDefault ELSE ppSaved
ppBoot ==
    /\ ppCurrent = 0 /\ ResolvePanelListenAddr \notin ppUsed
    /\ ppCurrent' = ppFresh /\ ppServers' = [ppServers EXCEPT ![ppFresh] = ResolvePanelListenAddr] /\ ppOpen' = {ppFresh}
    /\ UNCHANGED <<ppSaved, ppClosers, ppShut, ppChange, ppOthers, ppCount, ppFault>>
ppOther(p) ==
    /\ \/ p \notin ppUsed /\ p # ppChange.port /\ ppFails /\ ppOthers' = ppOthers \cup {p}
       \/ p \in ppOthers /\ ppOthers' = ppOthers \ {p} /\ UNCHANGED ppFault
    /\ UNCHANGED <<ppSaved, ppCurrent, ppServers, ppOpen, ppClosers, ppShut, ppChange, ppCount>>

ppNext ==
    \/ ppBind \/ ppPersist \/ ppStart \/ ppShutdown \/ ppShutDone \/ ppCrash \/ ppBoot
    \/ \E s \in ppIds : ppClose(s) \/ ppShutOne(s)
    \/ \E p \in PpPorts : ppOther(p)

-----------------------------------------------------------------------------
\* The panel answers at the address it shows for as long as it is not shut down, however closely changes follow
\* one another: the goroutine of an earlier change never closes a later server.
PanelIsReachable == ppCurrent # 0 /\ ppShut.at = "no" => ppCurrent \in ppOpen

\* Between changes the saved port is the one that is served, so that a restart comes back where the browser is; a
\* failed bind or save changes neither.
SavedIsServed == ppCurrent # 0 /\ ppChange.at = "idle" => ppAddress = ResolvePanelListenAddr

\* A shutdown that has returned leaves no socket of the panel open, also of servers still in their grace period.
ShutdownClosesAll == ppShut.at = "over" => ppOpen = {}

\* A change of the port, a crash or a shutdown loses neither the panel nor a socket.
PortSafe == PanelIsReachable /\ SavedIsServed /\ ShutdownClosesAll
=============================================================================
