------------------------------ MODULE PanelProofs ------------------------------
(*****************************************************************************)
(* The panel and what it writes to the router: its port (PanelPort), its own *)
(* update (SelfUpdate), the forwarded ports (PortForward), the isolation of  *)
(* a segment (ArpIsolation), the addresses of the bridges (MacSpoof), the    *)
(* binding of dnsmasq (DnsBinding) and the NFQUEUE bypass (BypassRules),     *)
(* each with the inductive invariant its safety rests on, for any number of  *)
(* ports, releases, rules, bridges, endpoints, lists, changes and faults;    *)
(* then the specification the run checks, where they stand side by side.     *)
(*****************************************************************************)
EXTENDS MCPanel, SequenceTheorems, FiniteSetTheorems, TLAPS

(***************************************************************************)
(* PanelPort                                                               *)
(***************************************************************************)
ppSpec == ppInit /\ [][ppNext]_ppVars

PpShuts == [at : {"no", "marked", "over"}, servers : SUBSET ppIds]
PpSteps == [at : {"idle", "bound", "resave", "saved"}, port : PpPorts \cup {0}]
ppTyped ==
    /\ ppSaved \in PpPorts \cup {0} /\ ppCurrent \in ppIds \cup {0} /\ ppServers \in [ppIds -> PpPorts \cup {0}]
    /\ ppOpen \subseteq ppIds /\ ppClosers \subseteq ppIds /\ ppShut \in PpShuts /\ ppChange \in PpSteps
    /\ ppCount \in 0..PpChanges /\ ppFault \in 0..PpFaults

\* Servers are numbered as they start; a change or a start to come has a number left.
ppUpTo(n) == \A s \in ppIds : ppServers[s] # 0 <=> s <= n
ppComes == ppChange.at # "idle" \/ ppCurrent = 0
ppNumbered ==
    \E n \in 1..(1 + ppCount + ppFault) : ppUpTo(n) /\ (ppComes => n <= ppCount + ppFault)

\* Only servers that have started are open or wait for their close, and the current one does not.
ppStarted ==
    /\ \A s \in ppOpen \cup ppClosers : ppServers[s] # 0
    /\ ppCurrent # 0 => ppCurrent \notin ppClosers
    /\ ppCurrent # 0 /\ ppShut.at = "no" => ppCurrent \in ppOpen

\* A change and a shutdown exclude each other, and both need a panel that runs.
ppApart ==
    /\ ppChange.at # "idle" => ppCurrent # 0 /\ ppShut.at = "no" /\ ppChange.port \in PpPorts
    /\ ppCurrent = 0 => ppShut.at = "no"
    /\ ppShut.at # "marked" => ppShut.servers = {}

\* What the file has, at each step of a change.
ppFiled ==
    ppCurrent # 0 =>
        /\ ppChange.at # "saved" => ppAddress = ResolvePanelListenAddr
        /\ ppChange.at = "saved" => ppSaved = ppChange.port
        /\ ppChange.at = "resave" => ppChange.port = ppAddress

\* A shutdown knows every socket that is open.
ppShuts ==
    /\ ppShut.at = "marked" => ppOpen \subseteq ppShut.servers
    /\ ppShut.at = "over" => ppOpen = {}

\* The inductive invariant.
ppIInv == ppTyped /\ ppNumbered /\ ppStarted /\ ppApart /\ ppFiled /\ ppShuts

\* The panel starts with one server at the default port.
LEMMA ppInitIInv == ppInit => ppIInv
<1> SUFFICES ASSUME ppInit PROVE ppIInv
  OBVIOUS
<1> USE PpAssumption DEF ppInit, ppIds, ppRunning, ppNoChange
<1>1. ppTyped
  BY DEF ppTyped, PpShuts, PpSteps
<1>2. ppNumbered
  <2>1. 1 \in 1..(1 + ppCount + ppFault) /\ ppUpTo(1) /\ ~ppComes
    BY DEF ppUpTo, ppComes
  <2> QED BY <2>1 DEF ppNumbered
<1>3. ppStarted /\ ppApart /\ ppFiled /\ ppShuts
  BY DEF ppStarted, ppApart, ppFiled, ppShuts, ppAddress, ResolvePanelListenAddr
<1> QED BY <1>1, <1>2, <1>3 DEF ppIInv

\* A server to come has the next number, which nobody had.
LEMMA PpFreshOne ==
    ASSUME ppTyped, ppNumbered, ppComes
    PROVE  \E n \in 1..(ppCount + ppFault) : /\ ppUpTo(n) /\ n + 1 \in ppIds /\ ppFresh = n + 1 /\ ppServers[ppFresh] = 0
<1>1. PICK n \in 1..(1 + ppCount + ppFault) : ppUpTo(n) /\ n <= ppCount + ppFault
  BY DEF ppNumbered
<1>2. n \in 1..(ppCount + ppFault) /\ n + 1 \in ppIds
  BY <1>1, PpAssumption DEF ppTyped, ppIds
<1>3. ppServers[n + 1] = 0 /\ \A t \in ppIds : ppServers[t] = 0 => n + 1 <= t
  BY <1>1, <1>2 DEF ppUpTo, ppIds
<1>4. \A s \in ppIds : ppServers[s] = 0 /\ (\A t \in ppIds : ppServers[t] = 0 => s <= t) => s = n + 1
  BY <1>2, <1>3 DEF ppIds
<1>5. ppFresh = n + 1
  BY <1>2, <1>3, <1>4 DEF ppFresh
<1> QED BY <1>1, <1>2, <1>3, <1>5

\* A step that starts no server keeps the numbers.
LEMMA PpNumbersKept ==
    ASSUME ppTyped, ppNumbered, ppTyped', ppServers' = ppServers, ppCount' >= ppCount, ppFault' >= ppFault,
           ppComes' => ppComes \/ ppCount' + ppFault' > ppCount + ppFault
    PROVE  ppNumbered'
<1>1. PICK n \in 1..(1 + ppCount + ppFault) : ppUpTo(n) /\ (ppComes => n <= ppCount + ppFault)
  BY DEF ppNumbered
<1>2. ppCount \in Nat /\ ppFault \in Nat /\ ppCount' \in Nat /\ ppFault' \in Nat
  BY PpAssumption DEF ppTyped
<1>3. PICK a, b : a = ppCount + ppFault /\ b = ppCount' + ppFault'
  OBVIOUS
<1>4. a \in Nat /\ b \in Nat /\ a <= b /\ n \in 1..(1 + a) /\ (ppComes => n <= a) /\ (ppComes' => ppComes \/ b > a)
  <2>1. a \in Nat /\ b \in Nat /\ a <= b
    <3>1. PICK c, d, e, f : c = ppCount /\ d = ppFault /\ e = ppCount' /\ f = ppFault'
      OBVIOUS
    <3>2. c \in Nat /\ d \in Nat /\ e \in Nat /\ f \in Nat /\ e >= c /\ f >= d
      BY <1>2, <3>1
    <3>3. c + d \in Nat /\ e + f \in Nat /\ c + d <= e + f
      BY <3>2
    <3> QED BY <1>3, <3>1, <3>3
  <2>2. 1 + ppCount + ppFault = 1 + a
    BY <1>2, <1>3
  <2>3. n \in 1..(1 + a) /\ (ppComes => n <= a)
    BY <1>1, <1>3, <2>2
  <2>4. ppComes' => ppComes \/ b > a
    BY <1>3
  <2> QED BY <2>1, <2>3, <2>4
<1>5. n \in 1..(1 + b) /\ (ppComes' => n <= b)
  BY <1>4
<1>6. 1 + b = 1 + ppCount' + ppFault'
  BY <1>2, <1>3
<1>7. ppUpTo(n)'
  BY <1>1 DEF ppUpTo, ppIds
<1> QED BY <1>3, <1>5, <1>6, <1>7 DEF ppNumbered

\* The steps that start no server.
LEMMA PpQuietSteps ==
    ppIInv /\ (ppBind \/ ppPersist \/ ppShutdown \/ ppShutDone \/ ppCrash
               \/ (\E s \in ppIds : ppClose(s) \/ ppShutOne(s)) \/ (\E p \in PpPorts : ppOther(p))) => ppIInv'
<1> USE PpAssumption DEF ppFails, ppAddress, ResolvePanelListenAddr
<1>1. ASSUME ppIInv, ppBind PROVE ppIInv'
  <2> USE <1>1 DEF ppBind
  <2>1. PICK p \in PpPorts :
        ppChange' = IF p = ppAddress THEN [at |-> "resave", port |-> p]
                    ELSE IF p \in ppUsed THEN ppNoChange ELSE [at |-> "bound", port |-> p]
    BY DEF ppBind
  <2>2. /\ ppChange' \in PpSteps /\ ppChange'.at \in {"resave", "idle", "bound"}
        /\ (ppChange'.at # "idle" => ppChange'.port = p) /\ (ppChange'.at = "resave" => p = ppAddress)
    BY <2>1 DEF PpSteps, ppNoChange
  <2>3. ppTyped'
    BY <2>2 DEF ppIInv, ppTyped
  <2>4. ppNumbered'
    BY <2>3, PpNumbersKept DEF ppIInv, ppTyped
  <2>5. ppStarted' /\ ppShuts'
    BY DEF ppIInv, ppStarted, ppShuts
  <2>6. ppApart' /\ ppFiled'
    BY <2>2 DEF ppIInv, ppApart, ppFiled, acceptsChange
  <2> QED BY <2>3, <2>4, <2>5, <2>6 DEF ppIInv
<1>2. ASSUME ppIInv, ppPersist PROVE ppIInv'
  <2>1. /\ ppChange' \in PpSteps /\ ppChange'.at \in {"idle", "saved"} /\ ppChange.at \in {"bound", "resave"}
        /\ (ppChange'.at = "saved" => ppSaved' = ppChange.port /\ ppChange'.port = ppChange.port)
        /\ (ppChange'.at = "idle" => ppSaved' = ppSaved \/ (ppChange.at = "resave" /\ ppSaved' = ppChange.port))
        /\ ppSaved' \in {ppSaved, ppChange.port} /\ ppFault' >= ppFault /\ ppFault' \in 0..PpFaults
    BY <1>2 DEF ppPersist, ppIInv, ppTyped, PpSteps, ppNoChange
  <2>2. UNCHANGED <<ppCurrent, ppServers, ppOpen, ppClosers, ppShut, ppOthers, ppCount>>
    BY <1>2 DEF ppPersist
  <2>3. ppTyped'
    BY <1>2, <2>1, <2>2 DEF ppIInv, ppTyped, PpSteps
  <2>4. ppNumbered'
    <3>1. ppCount' >= ppCount /\ (ppComes' => ppComes) /\ ppServers' = ppServers
      BY <1>2, <2>1, <2>2, PpAssumption DEF ppIInv, ppTyped, ppComes
    <3>2. ppTyped /\ ppNumbered
      BY <1>2 DEF ppIInv
    <3> QED BY <2>1, <2>3, <3>1, <3>2, PpNumbersKept
  <2>5. ppStarted' /\ ppShuts'
    BY <1>2, <2>2 DEF ppIInv, ppStarted, ppShuts
  <2>6. ppApart' /\ ppFiled'
    BY <1>2, <2>1, <2>2 DEF ppIInv, ppApart, ppFiled
  <2> QED BY <2>3, <2>4, <2>5, <2>6 DEF ppIInv
<1>3. ASSUME ppIInv, ppShutdown \/ ppShutDone PROVE ppIInv'
  <2>1. /\ ppShut' \in PpShuts /\ ppShut'.at \in {"marked", "over"} /\ ppCurrent # 0 /\ ppChange.at = "idle"
        /\ (ppShut'.at = "marked" => ppShut'.servers = ppOpen)
        /\ (ppShut'.at = "over" => ppShut'.servers = {} /\ ppOpen = {})
    BY <1>3 DEF ppShutdown, ppShutDone, ppIInv, ppTyped, PpShuts, ppApart, ppShuts
  <2>2. UNCHANGED <<ppSaved, ppCurrent, ppServers, ppOpen, ppClosers, ppChange, ppOthers, ppCount, ppFault>>
    BY <1>3 DEF ppShutdown, ppShutDone
  <2>3. ppTyped'
    BY <1>3, <2>1, <2>2 DEF ppIInv, ppTyped
  <2>4. ppNumbered'
    BY <1>3, <2>2, <2>3, PpNumbersKept DEF ppIInv, ppTyped, ppComes
  <2>5. ppStarted' /\ ppApart' /\ ppFiled' /\ ppShuts'
    BY <1>3, <2>1, <2>2 DEF ppIInv, ppStarted, ppApart, ppFiled, ppShuts
  <2> QED BY <2>3, <2>4, <2>5 DEF ppIInv
<1>4. ASSUME ppIInv, ppCrash PROVE ppIInv'
  <2>1. ppTyped'
    BY <1>4 DEF ppCrash, ppIInv, ppTyped, PpShuts, PpSteps, ppRunning, ppNoChange
  <2>2. ppNumbered'
    BY <1>4, <2>1, PpNumbersKept DEF ppCrash, ppIInv, ppTyped
  <2>3. ppStarted' /\ ppApart' /\ ppFiled' /\ ppShuts'
    BY <1>4 DEF ppCrash, ppIInv, ppStarted, ppApart, ppFiled, ppShuts, ppRunning, ppNoChange
  <2> QED BY <2>1, <2>2, <2>3 DEF ppIInv
<1>5. ASSUME ppIInv, NEW s \in ppIds, ppClose(s) \/ ppShutOne(s) PROVE ppIInv'
  <2>1. /\ ppShut' \in PpShuts /\ ppShut'.at = ppShut.at
        /\ ppOpen' = ppOpen \ {s} /\ ppClosers' \subseteq ppClosers
        /\ ppShut'.servers \in {ppShut.servers, ppShut.servers \ {s}}
        /\ ppShut.at = "no" => s \in ppClosers
    BY <1>5 DEF ppClose, ppShutOne, ppIInv, ppTyped, PpShuts, ppApart
  <2>2. UNCHANGED <<ppSaved, ppCurrent, ppServers, ppChange, ppOthers, ppCount, ppFault>>
    BY <1>5 DEF ppClose, ppShutOne
  <2>3. ppTyped'
    BY <1>5, <2>1, <2>2 DEF ppIInv, ppTyped
  <2>4. ppNumbered'
    BY <1>5, <2>2, <2>3, PpNumbersKept DEF ppIInv, ppTyped, ppComes
  <2>5. ppStarted' /\ ppApart' /\ ppFiled' /\ ppShuts'
    BY <1>5, <2>1, <2>2 DEF ppIInv, ppStarted, ppApart, ppFiled, ppShuts
  <2> QED BY <2>3, <2>4, <2>5 DEF ppIInv
<1>6. ASSUME ppIInv, NEW p \in PpPorts, ppOther(p) PROVE ppIInv'
  <2>1. UNCHANGED <<ppSaved, ppCurrent, ppServers, ppOpen, ppClosers, ppShut, ppChange, ppCount>>
    BY <1>6 DEF ppOther
  <2>2. ppFault' >= ppFault /\ ppFault' \in 0..PpFaults
    BY <1>6 DEF ppOther, ppIInv, ppTyped
  <2>3. ppTyped'
    BY <1>6, <2>1, <2>2 DEF ppIInv, ppTyped
  <2>4. ppNumbered'
    <3>1. ppCount' >= ppCount /\ (ppComes' => ppComes) /\ ppServers' = ppServers
      BY <1>6, <2>1, PpAssumption DEF ppIInv, ppTyped, ppComes
    <3>2. ppTyped /\ ppNumbered
      BY <1>6 DEF ppIInv
    <3> QED BY <2>2, <2>3, <3>1, <3>2, PpNumbersKept
  <2>5. ppStarted' /\ ppApart' /\ ppFiled' /\ ppShuts'
    BY <1>6, <2>1 DEF ppIInv, ppStarted, ppApart, ppFiled, ppShuts
  <2> QED BY <2>3, <2>4, <2>5 DEF ppIInv
<1> QED BY <1>1, <1>2, <1>3, <1>4, <1>5, <1>6

\* A server that starts, after a change or with the panel, becomes the current one.
LEMMA PpStartSteps == ppIInv /\ (ppStart \/ ppBoot) => ppIInv'
<1> SUFFICES ASSUME ppIInv, ppStart \/ ppBoot PROVE ppIInv'
  OBVIOUS
<1> USE PpAssumption DEF ppAddress, ResolvePanelListenAddr
<1>1. ppComes
  BY DEF ppStart, ppBoot, ppComes
<1>2. PICK n \in 1..(ppCount + ppFault) : ppUpTo(n) /\ n + 1 \in ppIds /\ ppFresh = n + 1 /\ ppServers[ppFresh] = 0
  BY <1>1, PpFreshOne DEF ppIInv
<1>3. PICK f : f = ppFresh
  OBVIOUS
<1>4. f \in ppIds /\ f # 0 /\ f = n + 1 /\ ppServers[f] = 0 /\ f \notin ppOpen \cup ppClosers
  BY <1>2, <1>3 DEF ppIInv, ppStarted, ppIds
<1>5. PICK p : p = IF ppChange.at = "saved" THEN ppChange.port ELSE ResolvePanelListenAddr
  OBVIOUS
<1>6. p \in PpPorts /\ p # 0
  BY <1>5 DEF ppStart, ppBoot, ppIInv, ppTyped, ppApart
<1>7. /\ ppCurrent' = f /\ ppServers' = [ppServers EXCEPT ![f] = p] /\ f \in ppOpen'
      /\ ppOpen' \subseteq ppOpen \cup {f} /\ ppClosers' \subseteq ppClosers \cup {ppCurrent}
      /\ (ppCurrent = 0 => ppClosers' = ppClosers) /\ ppChange'.at = "idle" /\ ppChange' \in PpSteps
      /\ p = (IF ppSaved = 0 THEN PpDefault ELSE ppSaved) /\ ppShut.at = "no"
      /\ (ppCurrent # 0 => ppCurrent \in ppOpen)
      /\ UNCHANGED <<ppSaved, ppShut, ppOthers, ppCount, ppFault>>
  <2>1. CASE ppStart
    BY <1>3, <1>5, <1>6, <2>1 DEF ppStart, ppNoChange, PpSteps, closes, ppIInv, ppTyped, ppApart, ppFiled, ppStarted
  <2>2. CASE ppBoot
    BY <1>3, <1>5, <1>6, <2>2 DEF ppBoot, ppIInv, ppTyped, ppApart
  <2> QED BY <2>1, <2>2
<1>8. /\ ppServers' \in [ppIds -> PpPorts \cup {0}] /\ ppServers'[f] = p
      /\ \A s \in ppIds \ {f} : ppServers'[s] = ppServers[s]
  BY <1>4, <1>6, <1>7 DEF ppIInv, ppTyped
<1>9. ppTyped'
  <2>1. ppClosers' \subseteq ppIds
    BY <1>7 DEF ppIInv, ppTyped
  <2> QED BY <1>4, <1>7, <1>8, <2>1 DEF ppIInv, ppTyped
<1>10. ppNumbered'
  <2>1. ppUpTo(n + 1)'
    BY <1>2, <1>4, <1>6, <1>8 DEF ppUpTo, ppIds
  <2>2. ~ppComes'
    BY <1>4, <1>7 DEF ppComes
  <2>3. n + 1 \in 1..(1 + ppCount + ppFault)
    BY <1>2 DEF ppIInv, ppTyped
  <2> QED BY <1>7, <2>1, <2>2, <2>3 DEF ppNumbered
<1>11. ppStarted'
  <2>1. \A s \in ppOpen' \cup ppClosers' : s \in ppIds /\ ppServers'[s] # 0
    BY <1>4, <1>6, <1>7, <1>8 DEF ppIInv, ppStarted, ppTyped
  <2>2. f \notin ppClosers'
    BY <1>4, <1>7
  <2> QED BY <1>7, <2>1, <2>2 DEF ppStarted
<1>12. ppApart' /\ ppFiled' /\ ppShuts'
  BY <1>4, <1>7, <1>8 DEF ppIInv, ppApart, ppFiled, ppShuts
<1> QED BY <1>9, <1>10, <1>11, <1>12 DEF ppIInv

\* Every step keeps the invariant.
LEMMA ppStep == ppIInv /\ [ppNext]_ppVars => ppIInv'
<1>1. ASSUME ppIInv, UNCHANGED ppVars PROVE ppIInv'
  BY <1>1 DEF ppVars, ppIInv, ppTyped, ppNumbered, ppUpTo, ppComes, ppStarted, ppApart, ppFiled, ppShuts,
              ppAddress, ResolvePanelListenAddr
<1> QED BY <1>1, PpQuietSteps, PpStartSteps DEF ppNext

\* The inductive invariant of the listener holds in every state.
THEOREM PortInvariance == ppSpec => []ppIInv
BY ppInitIInv, ppStep, PTL DEF ppSpec

\* The invariant is what the run checks.
LEMMA PortIsSafe == ppIInv => PortSafe
  BY DEF ppIInv, ppStarted, ppFiled, ppShuts, PortSafe, PanelIsReachable, SavedIsServed, ShutdownClosesAll

(***************************************************************************)
(* SelfUpdate                                                              *)
(***************************************************************************)
suSpec == suInit /\ [][suNext]_suVars

SuSteps == {"idle", "check", "clear", "download", "rename", "replace", "restart"}
SuStages == {"idle", "queued", "downloading", "replacing", "restarting", "error"}
SuParts == Seq(0..SuReleases)
SuPanels == [version : 0..SuReleases, running : BOOLEAN, stage : SuStages]
SuJobs == [at : SuSteps, latest : 0..SuReleases, url : {1, 2}, try : Nat]
suTyped ==
    /\ suExe \in SuParts /\ suPart \in SuParts /\ suNew \in SuParts /\ suPublished \in 0..SuReleases
    /\ suPanel \in SuPanels /\ suJob \in SuJobs /\ suMixed \in BOOLEAN

suIsRelease(s) == \E r \in 0..SuReleases : s = suRelease(r)
\* What has been downloaded is all of what the address serves now; once complete, of one release.
suPartIsOne ==
    suJob.at = "download" => \A i \in 1..Len(suPart) : suPart[i] = served
suWholes ==
    /\ suIsRelease(suExe)
    /\ suJob.at = "rename" => suIsRelease(suPart)
    /\ suJob.at = "replace" => suIsRelease(suNew)

\* The inductive invariant.
suIInv == suTyped /\ StatusFollowsJob /\ (~suMixed => suPartIsOne /\ suWholes)

\* What an attempt leaves: the part it resumed and the rest from the address.
LEMMA SuRestIsPart ==
    ASSUME suTyped, NEW from \in SuParts, NEW n \in 0..SuSize, n >= Len(from)
    PROVE  /\ suRest(from, n) \in SuParts /\ Len(suRest(from, n)) = n
           /\ (\A i \in 1..Len(from) : from[i] = served) => \A i \in 1..n : suRest(from, n)[i] = served
<1> USE SuAssumption
<1>1. PICK r : r = served
  OBVIOUS
<1>2. r \in 0..SuReleases
  BY <1>1 DEF served, suTyped, SuJobs
<1>3. PICK m : m = n - Len(from)
  OBVIOUS
<1>4. m \in Nat /\ Len(from) \in Nat /\ n = Len(from) + m
  BY <1>3 DEF SuParts
<1>5. PICK t : t = [i \in 1..m |-> r]
  OBVIOUS
<1>6. t \in SuParts /\ Len(t) = m /\ \A i \in 1..m : t[i] = r
  BY <1>2, <1>4, <1>5 DEF SuParts
<1>7. suRest(from, n) = from \o t
  BY <1>1, <1>3, <1>5 DEF suRest
<1>8. from \o t \in SuParts /\ Len(from \o t) = n
  BY <1>4, <1>6 DEF SuParts
<1>9. ASSUME \A i \in 1..Len(from) : from[i] = r, NEW i \in 1..n PROVE (from \o t)[i] = r
  BY <1>4, <1>6, <1>9 DEF SuParts
<1> QED BY <1>1, <1>7, <1>8, <1>9

\* A file with all the parts of one release is that release.
LEMMA SuWholeIsRelease ==
    ASSUME NEW p \in SuParts, NEW r \in 0..SuReleases, Len(p) = SuSize, \A i \in 1..SuSize : p[i] = r
    PROVE  suIsRelease(p)
<1>1. p = [i \in 1..SuSize |-> r]
  BY SuAssumption DEF SuParts
<1> QED BY <1>1 DEF suIsRelease, suRelease

\* The panel starts whole, with nothing under way.
LEMMA suInitIInv == suInit => suIInv
<1> SUFFICES ASSUME suInit PROVE suIInv
  OBVIOUS
<1> USE SuAssumption DEF suInit, suNoJob
<1>1. suRelease(0) \in SuParts /\ suIsRelease(suRelease(0)) /\ <<>> \in SuParts
  <2>1. 0 \in 0..SuReleases
    OBVIOUS
  <2>2. [i \in 1..SuSize |-> 0] \in Seq(0..SuReleases)
    BY <2>1
  <2>3. suIsRelease(suRelease(0))
    BY <2>1 DEF suIsRelease
  <2> QED BY <2>2, <2>3, EmptySeq DEF suRelease, SuParts
<1>2. suPanel \in SuPanels /\ suJob \in SuJobs
  BY DEF SuPanels, SuJobs, SuStages, SuSteps
<1>3. suTyped
  <2>1. suMixed \in BOOLEAN
    BY Zenon
  <2> QED BY <1>1, <1>2, <2>1 DEF suTyped
<1> QED BY <1>1, <1>3 DEF suIInv, suWholes, suPartIsOne, StatusFollowsJob

\* The panel ends a job: it failed, or the panel starts again.
LEMMA suJobEnds ==
    ASSUME suIInv, suPanel' \in SuPanels, suPanel'.running = FALSE, suJob' = suNoJob,
           UNCHANGED <<suExe, suPublished, suMixed>>, suPart' \in SuParts, suNew' \in SuParts
    PROVE  suIInv'
<1>1. suJob' \in SuJobs /\ suJob'.at = "idle"
  BY SuAssumption DEF suNoJob, SuJobs, SuSteps
<1>2. suTyped'
  BY <1>1 DEF suIInv, suTyped
<1>3. StatusFollowsJob'
  BY <1>1 DEF StatusFollowsJob
<1>4. (~suMixed => suPartIsOne /\ suWholes)'
  BY <1>1 DEF suIInv, suPartIsOne, suWholes
<1> QED BY <1>2, <1>3, <1>4 DEF suIInv

\* A job goes on without touching the executable.
LEMMA suJobGoesOn ==
    ASSUME suIInv, suPanel' \in SuPanels, suPanel'.running = TRUE, suJob' \in SuJobs, suJob'.at # "idle",
           UNCHANGED <<suExe, suPublished, suMixed>>, suPart' \in SuParts, suNew' \in SuParts,
           ~suMixed /\ suJob'.at = "download" => suPartIsOne',
           ~suMixed /\ suJob'.at = "rename" => suIsRelease(suPart'),
           ~suMixed /\ suJob'.at = "replace" => suIsRelease(suNew')
    PROVE  suIInv'
<1>1. suTyped'
  BY DEF suIInv, suTyped
<1>2. StatusFollowsJob'
  BY DEF StatusFollowsJob
<1>3. (~suMixed => suPartIsOne /\ suWholes)'
  BY DEF suIInv, suPartIsOne, suWholes, suIsRelease
<1> QED BY <1>1, <1>2, <1>3 DEF suIInv

\* A job that failed.
LEMMA suFailedEnds ==
    ASSUME suIInv, suFailed, UNCHANGED <<suExe, suPublished, suMixed>>, suPart' \in SuParts, suNew' \in SuParts
    PROVE  suIInv'
<1>1. suPanel' \in SuPanels /\ suPanel'.running = FALSE /\ suJob' = suNoJob
  BY DEF suFailed, suIInv, suTyped, SuPanels, SuStages
<1> QED BY <1>1, suJobEnds

\* A release is published.
LEMMA suPublishStep == suIInv /\ suPublish => suIInv'
<1> SUFFICES ASSUME suIInv, suPublish PROVE suIInv'
  OBVIOUS
<1>1. /\ suPublished' \in 0..SuReleases /\ suMixed' \in BOOLEAN /\ (suMixed => suMixed')
      /\ (~suMixed' /\ suJob.at = "download" /\ suJob.url = 2 => suPart = <<>>)
  <2>1. suPublished' \in 0..SuReleases
    BY SuAssumption DEF suPublish, suIInv, suTyped
  <2>2. suMixed' = (suMixed \/ (suJob.at = "download" /\ suJob.url = 2 /\ suPart # <<>>))
    BY DEF suPublish
  <2> QED BY <2>1, <2>2, Zenon
<1>2. UNCHANGED <<suExe, suPart, suNew, suPanel, suJob>>
  BY DEF suPublish
<1>3. suTyped' /\ StatusFollowsJob'
  BY <1>1, <1>2 DEF suIInv, suTyped, StatusFollowsJob
<1>4. ASSUME ~suMixed' PROVE suPartIsOne' /\ suWholes'
  <2>1. suPartIsOne /\ suWholes
    BY <1>1, <1>4 DEF suIInv
  <2>2. suWholes'
    BY <1>2, <2>1 DEF suWholes, suIsRelease
  <2>3. ASSUME suJob.at = "download", NEW i \in 1..Len(suPart) PROVE suPart[i] = served'
    <3>1. CASE suJob.url = 1
      BY <1>2, <2>1, <2>3, <3>1 DEF suPartIsOne, served
    <3>2. CASE suJob.url = 2
      BY <1>1, <1>4, <2>3, <3>2
    <3>3. suJob.url \in {1, 2}
      BY DEF suIInv, suTyped, SuJobs
    <3> QED BY <3>1, <3>2, <3>3
  <2> QED BY <1>2, <2>2, <2>3 DEF suPartIsOne
<1> QED BY <1>3, <1>4 DEF suIInv

\* An attempt.
LEMMA suAttemptStep == suIInv /\ downloadAttempt => suIInv'
<1> SUFFICES ASSUME suIInv, downloadAttempt PROVE suIInv'
  OBVIOUS
<1>1. PICK from \in suFrom, n \in 0..SuSize :
        /\ n >= Len(from) /\ suPart' = suRest(from, n)
        /\ IF whole(n) THEN suTo("rename") /\ UNCHANGED suFault
           ELSE suFails /\ suJob' = [suJob EXCEPT !.try = @ + 1]
  BY DEF downloadAttempt
<1>2. UNCHANGED <<suExe, suNew, suPublished, suPanel, suMixed>> /\ suJob.at = "download"
  BY DEF downloadAttempt
<1>3. /\ suJob' \in SuJobs /\ suJob'.url = suJob.url /\ suJob'.latest = suJob.latest
      /\ (whole(n) => suJob'.at = "rename") /\ (~whole(n) => suJob'.at = "download")
  BY <1>1, <1>2, SuAssumption DEF suTo, suIInv, suTyped, SuJobs, SuSteps
<1>4. from \in SuParts /\ (~suMixed => \A i \in 1..Len(from) : from[i] = served)
  <2>1. suPart \in SuParts /\ (~suMixed => \A i \in 1..Len(suPart) : suPart[i] = served)
    BY <1>2 DEF suIInv, suTyped, suPartIsOne
  <2>2. CASE from = suPart
    BY <2>1, <2>2
  <2>3. CASE from = <<>>
    <3>1. <<>> \in SuParts /\ Len(<<>>) = 0
      BY EmptySeq DEF SuParts
    <3> QED BY <2>3, <3>1
  <2> QED BY <2>2, <2>3 DEF suFrom
<1>5. /\ suPart' \in SuParts /\ Len(suPart') = n
      /\ (~suMixed => \A i \in 1..n : suPart'[i] = served)
  BY <1>1, <1>4, SuRestIsPart DEF suIInv
<1>6. served' = served /\ served \in 0..SuReleases
  BY <1>2, <1>3 DEF served, suIInv, suTyped, SuJobs
<1>7. ~suMixed /\ suJob'.at = "download" => suPartIsOne'
  BY <1>5, <1>6 DEF suPartIsOne
<1>8. ~suMixed /\ suJob'.at = "rename" => suIsRelease(suPart')
  BY <1>3, <1>5, <1>6, SuWholeIsRelease DEF whole
<1>9. suPanel' \in SuPanels /\ suPanel'.running = TRUE /\ suNew' \in SuParts
  BY <1>2 DEF suIInv, suTyped, StatusFollowsJob, SuPanels
<1> QED BY <1>2, <1>3, <1>5, <1>7, <1>8, <1>9, suJobGoesOn

\* The steps of a job before and after the download.
LEMMA suJobSteps ==
    suIInv /\ (StartSelfUpdate \/ CheckUpdate \/ suClear \/ suGiveUp \/ suRenamePart \/ detachedRestart) => suIInv'
<1>1. ASSUME suIInv, StartSelfUpdate PROVE suIInv'
  <2>1. /\ suPanel' \in SuPanels /\ suPanel'.running = TRUE /\ suJob' \in SuJobs /\ suJob'.at = "check"
        /\ UNCHANGED <<suExe, suPart, suNew, suPublished, suMixed>>
    <3>1. suPanel' \in SuPanels /\ suPanel'.running = TRUE
      BY <1>1 DEF StartSelfUpdate, suIInv, suTyped, SuPanels, SuStages
    <3>2. suJob' = [at |-> "check", latest |-> 0, url |-> 1, try |-> 1]
      BY <1>1 DEF StartSelfUpdate, suNoJob
    <3>3. 0 \in 0..SuReleases
      BY SuAssumption
    <3>4. suJob' \in SuJobs /\ suJob'.at = "check"
      BY <3>2, <3>3 DEF SuJobs, SuSteps
    <3>5. UNCHANGED <<suExe, suPart, suNew, suPublished, suMixed>>
      BY <1>1 DEF StartSelfUpdate
    <3> QED BY <3>1, <3>4, <3>5
  <2> QED BY <1>1, <2>1, suJobGoesOn DEF suIInv, suTyped
<1>2. ASSUME suIInv, CheckUpdate PROVE suIInv'
  <2>1. UNCHANGED <<suExe, suPart, suNew, suPublished, suMixed>> /\ suJob.at = "check"
    BY <1>2 DEF CheckUpdate
  <2>2. CASE suFailed
    BY <1>2, <2>1, <2>2, suFailedEnds DEF suIInv, suTyped
  <2>3. CASE suShow("downloading") /\ suJob' = [suJob EXCEPT !.at = "clear", !.latest = suPublished]
    <3>1. suPanel' \in SuPanels /\ suPanel'.running = TRUE /\ suJob' \in SuJobs /\ suJob'.at = "clear"
      BY <1>2, <2>1, <2>3 DEF suShow, suIInv, suTyped, SuPanels, SuStages, SuJobs, SuSteps, StatusFollowsJob
    <3> QED BY <1>2, <2>1, <3>1, suJobGoesOn DEF suIInv, suTyped
  <2> QED BY <1>2, <2>2, <2>3 DEF CheckUpdate
<1>3. ASSUME suIInv, suClear PROVE suIInv'
  <2>1. /\ suPart' = <<>> /\ suJob' \in SuJobs /\ suJob'.at = "download"
        /\ UNCHANGED <<suExe, suNew, suPublished, suPanel, suMixed>> /\ suJob.at = "clear"
    BY <1>3 DEF suClear, cleared, suTo, suIInv, suTyped, SuJobs, SuSteps
  <2>2. suPartIsOne' /\ suPart' \in SuParts
    BY <2>1 DEF suPartIsOne, SuParts
  <2>3. suPanel' \in SuPanels /\ suPanel'.running = TRUE /\ suNew' \in SuParts
    BY <1>3, <2>1 DEF suIInv, suTyped, StatusFollowsJob, SuPanels
  <2> QED BY <1>3, <2>1, <2>2, <2>3, suJobGoesOn
<1>4. ASSUME suIInv, suNextUrl, UNCHANGED <<suExe, suPublished, suMixed>>, suPart' \in SuParts, suNew' \in SuParts,
             suJob.at # "idle"
      PROVE  suIInv'
  <2>1. CASE suFailed
    BY <1>4, <2>1, suFailedEnds
  <2>2. CASE suJob' = [suJob EXCEPT !.at = "clear", !.url = 2, !.try = 1] /\ UNCHANGED suPanel
    <3>1. suPanel' \in SuPanels /\ suPanel'.running = TRUE /\ suJob' \in SuJobs /\ suJob'.at = "clear"
      BY <1>4, <2>2 DEF suIInv, suTyped, SuPanels, SuJobs, SuSteps, StatusFollowsJob
    <3> QED BY <1>4, <3>1, suJobGoesOn
  <2> QED BY <1>4, <2>1, <2>2 DEF suNextUrl
<1>5. ASSUME suIInv, suGiveUp PROVE suIInv'
  <2>1. suPart' \in SuParts /\ suNew' \in SuParts
    BY <1>5 DEF suGiveUp, suIInv, suTyped, SuParts
  <2> QED BY <1>4, <1>5, <2>1 DEF suGiveUp
<1>6. ASSUME suIInv, suRenamePart PROVE suIInv'
  <2>1. CASE suNew' = suPart /\ suPart' = <<>> /\ suTo("replace") /\ suShow("replacing")
    <3>1. suPanel' \in SuPanels /\ suPanel'.running = TRUE /\ suJob' \in SuJobs /\ suJob'.at = "replace"
      BY <1>6, <2>1 DEF suRenamePart, suShow, suTo, suIInv, suTyped, SuPanels, SuStages, SuJobs, SuSteps, StatusFollowsJob
    <3>2. suPart' \in SuParts /\ suNew' \in SuParts /\ (~suMixed => suIsRelease(suNew'))
      BY <1>6, <2>1 DEF suRenamePart, suIInv, suTyped, SuParts, suWholes
    <3>3. UNCHANGED <<suExe, suPublished, suMixed>>
      BY <1>6 DEF suRenamePart
    <3> QED BY <1>6, <3>1, <3>2, <3>3, suJobGoesOn
  <2>2. CASE suNextUrl /\ UNCHANGED <<suNew, suPart>>
    BY <1>4, <1>6, <2>2 DEF suRenamePart, suIInv, suTyped
  <2> QED BY <1>6, <2>1, <2>2 DEF suRenamePart
<1>7. ASSUME suIInv, detachedRestart PROVE suIInv'
  <2>1. CASE suFailed
    BY <1>7, <2>1, suFailedEnds DEF detachedRestart, suIInv, suTyped
  <2>2. CASE suJob' = suNoJob /\ suPanel' = [suPanel EXCEPT !.running = FALSE, !.stage = "restarting"]
    <3>1. suPanel' \in SuPanels /\ suPanel'.running = FALSE
      BY <1>7, <2>2 DEF suIInv, suTyped, SuPanels, SuStages
    <3> QED BY <1>7, <2>2, <3>1, suJobEnds DEF detachedRestart, suIInv, suTyped
  <2> QED BY <1>7, <2>1, <2>2 DEF detachedRestart
<1> QED BY <1>1, <1>2, <1>3, <1>5, <1>6, <1>7

\* The file that was renamed takes the place of the executable.
LEMMA suReplaceStep == suIInv /\ suReplace => suIInv'
<1> SUFFICES ASSUME suIInv, suReplace PROVE suIInv'
  OBVIOUS
<1>1. suNew' = <<>> /\ suNew' \in SuParts /\ UNCHANGED <<suPart, suPublished, suMixed>> /\ suJob.at = "replace"
  BY DEF suReplace, SuParts
<1>2. CASE suFailed /\ UNCHANGED suExe
  BY <1>1, <1>2, suFailedEnds DEF suIInv, suTyped
<1>3. CASE suExe' = suNew /\ suTo("restart") /\ suShow("restarting")
  <2>1. suPanel' \in SuPanels /\ suPanel'.running = TRUE /\ suJob' \in SuJobs /\ suJob'.at = "restart"
    BY <1>1, <1>3 DEF suShow, suTo, suIInv, suTyped, SuPanels, SuStages, SuJobs, SuSteps, StatusFollowsJob
  <2>2. suTyped' /\ StatusFollowsJob'
    BY <1>1, <1>3, <2>1 DEF suIInv, suTyped, StatusFollowsJob
  <2>3. (~suMixed => suPartIsOne /\ suWholes)'
    BY <1>1, <1>3, <2>1 DEF suIInv, suPartIsOne, suWholes, suIsRelease
  <2> QED BY <2>2, <2>3 DEF suIInv
<1> QED BY <1>2, <1>3 DEF suReplace

\* The panel starts from the executable.
LEMMA suStartsStep == suIInv /\ (suRestart \/ suCrash) => suIInv'
<1> SUFFICES ASSUME suIInv, suStarts(FALSE) PROVE suIInv'
  BY DEF suRestart, suCrash
<1>1. suVersion \in 0..SuReleases
  <2>1. CASE suExe = <<>>
    <3>1. 0 \in 0..SuReleases
      BY SuAssumption
    <3> QED BY <2>1, <3>1 DEF suVersion
  <2>2. CASE suExe # <<>>
    <3>1. suExe \in Seq(0..SuReleases)
      BY DEF suIInv, suTyped, SuParts
    <3>2. 1 \in 1..Len(suExe)
      BY <2>2, <3>1, EmptySeq
    <3>3. suExe[1] \in 0..SuReleases
      BY <3>1, <3>2, ElementOfSeq
    <3> QED BY <2>2, <3>3 DEF suVersion
  <2> QED BY <2>1, <2>2
<1>2. suPanel' \in SuPanels /\ suPanel'.running = FALSE
  <2>1. PICK v : v = suVersion
    OBVIOUS
  <2> QED BY <1>1, <2>1 DEF suStarts, SuPanels, SuStages
<1> QED BY <1>2, suJobEnds DEF suStarts, suIInv, suTyped

\* Every step keeps the invariant.
LEMMA suStep == suIInv /\ [suNext]_suVars => suIInv'
<1>1. ASSUME suIInv, UNCHANGED suVars PROVE suIInv'
  BY <1>1 DEF suVars, suIInv, suTyped, suPartIsOne, suWholes, suIsRelease, served, StatusFollowsJob
<1> QED BY <1>1, suPublishStep, suAttemptStep, suJobSteps, suReplaceStep, suStartsStep DEF suNext

\* The inductive invariant of the update holds in every state.
THEOREM UpdateInvariance == suSpec => []suIInv
BY suInitIInv, suStep, PTL DEF suSpec

\* The invariant is what the run checks.
LEMMA UpdateIsSafe == suIInv => UpdateSafe
  BY DEF suIInv, suWholes, suIsRelease, UpdateSafe, ExeIsWhole

(***************************************************************************)
(* PortForward                                                             *)
(***************************************************************************)
pfSpec == pfInit /\ [][pfNext]_pfVars

PfAt == {"idle", "flush", "jump", "fill", "detach", "delete"}
PfHooks == (SUBSET PfRules) \cup {pfNoHook}
PfScripts == [at : PfAt, todo : SUBSET PfRules, of : PfHooks]
PfWalls == [jump : BOOLEAN, rules : SUBSET PfRules]
pfTyped ==
    /\ pfMem \in SUBSET PfRules /\ pfFile \in SUBSET PfRules /\ pfHook \in PfHooks
    /\ pfFw \in PfWalls /\ pfRun \in [pfRunners -> PfScripts] /\ pfClean \in BOOLEAN
    /\ pfPanel \in {"idle", "save", "hook", "run", "runs"}
    /\ \A r \in pfRunners : pfRun[r].at = "idle" => pfRun[r] = pfStill

\* What the operation that runs its script installs is saved.
pfSaved == pfPanel \in {"hook", "run", "runs"} => pfMem = pfFile

\* How far a script is with the chains, none of whose commands failed.
pfFar(s) ==
    /\ s.at \in {"flush", "jump", "fill"} => s.of # pfNoHook /\ s.todo \subseteq s.of
    /\ s.at \in {"flush", "jump"} => s.todo = s.of
    /\ s.at \in {"jump", "fill"} => pfFw.rules \subseteq s.of
    /\ s.at \in {"detach", "delete"} => s.of = pfNoHook
    /\ s.at = "delete" => ~pfFw.jump

\* A script that will have opened everything when it ends, and is not ended before.
pfCompletes(s) ==
    \/ s.at \in {"flush", "jump"}
    \/ s.at = "fill" /\ pfFw.jump /\ s.of \subseteq pfFw.rules \cup s.todo

\* The scripts that run are for the same rules, and one of them completes.
pfTogether ==
    /\ \A r \in pfRunners : pfFar(pfRun[r])
    /\ \A r, q \in pfRunners : pfRun[r].at # "idle" /\ pfRun[q].at # "idle" => pfRun[r].of = pfRun[q].of
    /\ \A r \in pfRunners : pfReads(r) => \E q \in pfRunners : pfCompletes(pfRun[q])

\* They are for the rules of the panel, unless it is about to begin another; when none runs the chains are right.
pfSettled ==
    /\ pfMem = pfFile
    /\ \A r \in pfRunners : pfRun[r].at # "idle" => pfRun[r].of = hookFor(pfMem)
    /\ (\A r \in pfRunners : pfRun[r].at = "idle") => pfFw.jump = (pfMem # {}) /\ pfFw.rules = pfMem

\* The inductive invariant.
pfIInv ==
    /\ pfTyped /\ pfSaved
    /\ pfClean => pfTogether /\ (pfPanel \in {"idle", "runs"} => pfSettled)

\* Nothing is forwarded at first, and no hook is there.
LEMMA pfInitIInv == pfInit => pfIInv
<1> SUFFICES ASSUME pfInit PROVE pfIInv
  OBVIOUS
<1> USE DEF pfInit
<1>1. pfStill \in PfScripts /\ pfStill.at = "idle"
  BY DEF pfStill, PfScripts, PfAt, PfHooks
<1>2. pfFw \in PfWalls
  BY DEF PfWalls
<1>3. pfRun \in [pfRunners -> PfScripts] /\ \A r \in pfRunners : pfRun[r] = pfStill
  BY <1>1
<1>4. pfTyped /\ pfSaved
  <2>1. pfHook \in PfHooks
    BY DEF PfHooks
  <2> QED BY <1>2, <1>3, <2>1 DEF pfTyped, pfSaved
<1>5. pfTogether
  BY <1>1, <1>3 DEF pfTogether, pfFar, pfReads
<1>6. pfSettled
  BY <1>1, <1>3 DEF pfSettled
<1> QED BY <1>4, <1>5, <1>6 DEF pfIInv

\* A change in memory.
LEMMA pfEditStep == ASSUME pfIInv, NEW rules \in SUBSET PfRules, pfEdit(rules) PROVE pfIInv'
<1>1. pfTyped' /\ pfSaved' /\ pfPanel' = "save" /\ UNCHANGED <<pfFw, pfRun, pfClean>>
  BY DEF pfEdit, pfIInv, pfTyped, pfSaved
<1>2. pfTogether => pfTogether'
  BY <1>1 DEF pfTogether, pfFar, pfReads, pfCompletes
<1> QED BY <1>1, <1>2 DEF pfIInv

\* The steps of the operation that holds mu, up to the script.
LEMMA pfPanelSteps ==
    ASSUME pfIInv, SaveRule \/ SetEnabled \/ DeleteRule \/ saveApplyLocked \/ pfWriteHook \/ pfEnds PROVE pfIInv'
<1> USE DEF pfIInv
<1>1. pfMem \in SUBSET PfRules
  BY DEF pfTyped
<1>2. ASSUME NEW r \in PfRules PROVE pfMem \cup {r} \in SUBSET PfRules /\ pfMem \ {r} \in SUBSET PfRules
  BY <1>1
<1>3. CASE SaveRule
  BY <1>2, <1>3, pfEditStep DEF SaveRule
<1>4. CASE SetEnabled
  <2>1. PICK r \in PfRules : pfEdit(IF r \in pfMem THEN pfMem \ {r} ELSE pfMem \cup {r})
    BY <1>4 DEF SetEnabled
  <2> QED BY <1>2, <2>1, pfEditStep
<1>5. CASE DeleteRule
  <2>1. PICK r \in pfMem : pfEdit(pfMem \ {r})
    BY <1>5 DEF DeleteRule
  <2> QED BY <1>1, <2>1, pfEditStep
<1>6. CASE saveApplyLocked
  <2>1. pfTyped' /\ pfSaved' /\ UNCHANGED <<pfFw, pfRun>> /\ (pfClean' => pfClean /\ pfPanel' = "hook")
    <3>1. UNCHANGED <<pfMem, pfHook, pfFw, pfRun>>
      BY <1>6 DEF saveApplyLocked
    <3>2. \/ pfFile' = pfMem /\ pfPanel' = "hook" /\ pfClean' = pfClean
          \/ pfFile' = pfFile /\ pfPanel' = "idle" /\ pfClean' = FALSE
      BY <1>6 DEF saveApplyLocked, pfGivesUp
    <3>3. pfTyped'
      BY <3>1, <3>2 DEF pfTyped
    <3> QED BY <3>1, <3>2, <3>3 DEF pfSaved
  <2>2. pfTogether => pfTogether'
    BY <2>1 DEF pfTogether, pfFar, pfReads, pfCompletes
  <2> QED BY <2>1, <2>2
<1>7. CASE pfWriteHook
  <2>1. pfRun' \in [pfRunners -> PfScripts] /\ \A r \in pfRunners : pfRun'[r].at = "idle" => pfRun'[r] = pfStill
    <3>1. CASE pfRun' = pfRun
      BY <3>1 DEF pfTyped
    <3>2. CASE pfReadOn
      <4>1. PICK ended \in SUBSET {r \in pfRunners : pfReads(r)}, rest \in [{r \in pfRunners : pfReads(r)} -> SUBSET PfRules] :
              pfRun' = [r \in pfRunners |->
                          IF r \in ended THEN pfStill
                          ELSE IF r \in {q \in pfRunners : pfReads(q)} THEN [pfRun[r] EXCEPT !.todo = (@ \cup pfMem) \cap rest[r]]
                          ELSE pfRun[r]]
        BY <3>2 DEF pfReadOn
      <4>2. ASSUME NEW r \in pfRunners PROVE pfRun'[r] \in PfScripts /\ (pfRun'[r].at = "idle" => pfRun'[r] = pfStill)
        <5>1. CASE r \in ended
          <6>1. pfRun'[r] = pfStill /\ pfStill \in PfScripts
            BY <4>1, <5>1 DEF pfStill, PfScripts, PfAt, PfHooks
          <6> QED BY <6>1
        <5>2. CASE r \notin ended /\ pfReads(r)
          <6>1. PICK t : t = (pfRun[r].todo \cup pfMem) \cap rest[r]
            OBVIOUS
          <6>2. pfRun[r] \in PfScripts /\ rest[r] \in SUBSET PfRules
            BY <5>2 DEF pfTyped
          <6>3. t \in SUBSET PfRules
            BY <6>1, <6>2
          <6>4. pfRun'[r] = [pfRun[r] EXCEPT !.todo = t]
            BY <4>1, <5>2, <6>1
          <6> QED BY <5>2, <6>2, <6>3, <6>4 DEF PfScripts, pfReads
        <5>3. CASE r \notin ended /\ ~pfReads(r)
          BY <4>1, <5>3 DEF pfTyped
        <5> QED BY <5>1, <5>2, <5>3
      <4> QED BY <4>1, <4>2
    <3> QED BY <1>7, <3>1, <3>2 DEF pfWriteHook
  <2>2. pfHook' \in PfHooks /\ pfClean' \in BOOLEAN /\ pfPanel' \in {"idle", "run"} /\ UNCHANGED <<pfMem, pfFile, pfFw>>
    <3>1. UNCHANGED <<pfMem, pfFile, pfFw>> /\ pfPanel' \in {"idle", "run"}
      BY <1>7 DEF pfWriteHook, pfGivesUp
    <3>2. pfHook' \in {pfHook, pfMem, pfNoHook} \cup SUBSET pfMem
      BY <1>7 DEF pfWriteHook, pfGivesUp
    <3>3. pfHook' \in PfHooks
      BY <1>1, <3>2 DEF pfTyped, PfHooks
    <3>4. pfClean' \in {pfClean, FALSE, pfClean /\ \A r \in pfRunners : ~pfReads(r)}
      BY <1>7 DEF pfWriteHook, pfGivesUp
    <3> QED BY <3>1, <3>3, <3>4 DEF pfTyped
  <2>3. pfTyped' /\ pfSaved'
    BY <1>7, <2>1, <2>2 DEF pfTyped, pfSaved, pfWriteHook
  <2>4. ASSUME pfClean' PROVE pfClean /\ pfPanel' = "run" /\ pfRun' = pfRun
    <3>1. pfClean /\ pfPanel' = "run" /\ (pfRun' = pfRun \/ (pfReadOn /\ \A r \in pfRunners : ~pfReads(r)))
      BY <1>7, <2>4 DEF pfWriteHook, pfGivesUp
    <3>2. ASSUME pfReadOn, \A r \in pfRunners : ~pfReads(r) PROVE pfRun' = pfRun
      <4>1. pfRun' = [r \in pfRunners |-> pfRun[r]]
        BY <3>2 DEF pfReadOn
      <4> QED BY <4>1 DEF pfTyped
    <3> QED BY <3>1, <3>2
  <2>5. pfRun' = pfRun /\ pfTogether => pfTogether'
    BY <2>2 DEF pfTogether, pfFar, pfReads, pfCompletes
  <2> QED BY <2>3, <2>4, <2>5
<1>8. CASE pfEnds
  <2>1. UNCHANGED <<pfMem, pfFile, pfHook, pfFw, pfRun, pfClean>> /\ pfPanel = "runs" /\ pfPanel' = "idle"
    BY <1>8 DEF pfEnds
  <2>2. pfTyped' /\ pfSaved'
    BY <2>1 DEF pfTyped, pfSaved
  <2>3. (pfTogether => pfTogether') /\ (pfSettled => pfSettled')
    BY <2>1 DEF pfTogether, pfFar, pfReads, pfCompletes, pfSettled, hookFor
  <2> QED BY <2>1, <2>2, <2>3
<1> QED BY <1>3, <1>4, <1>5, <1>6, <1>7, <1>8

\* The script of an operation begins.
LEMMA pfRunStep == ASSUME pfIInv, pfRunHook PROVE pfIInv'
<1> USE DEF pfIInv
<1>1. PICK s : s = [at |-> IF pfMem = {} THEN "detach" ELSE "flush", todo |-> pfMem, of |-> hookFor(pfMem)]
  OBVIOUS
<1>2. hookFor(pfMem) \in PfHooks /\ (pfMem = {} <=> hookFor(pfMem) = pfNoHook) /\ (pfMem # {} => hookFor(pfMem) = pfMem)
  BY PfAssumption DEF hookFor, PfHooks, pfNoHook, pfTyped
<1>3. /\ s \in PfScripts /\ s.at = (IF pfMem = {} THEN "detach" ELSE "flush") /\ s.todo = pfMem
      /\ s.of = hookFor(pfMem)
  BY <1>1, <1>2 DEF PfScripts, PfAt, pfTyped
<1>4. /\ pfRun' = [pfRun EXCEPT !["panel"] = s] /\ pfPanel = "run" /\ pfPanel' = "runs"
      /\ pfClean' = IF pfAlone("panel") THEN TRUE ELSE pfClean /\ pfSameRules("panel", hookFor(pfMem))
      /\ UNCHANGED <<pfMem, pfFile, pfHook, pfFw>>
  BY <1>1 DEF pfRunHook, pfBegins
<1>5. /\ pfRun' \in [pfRunners -> PfScripts] /\ pfRun'["panel"] = s /\ "panel" \in pfRunners
      /\ \A q \in pfRunners \ {"panel"} : pfRun'[q] = pfRun[q]
  BY <1>3, <1>4 DEF pfTyped, pfRunners
<1>6. pfTyped' /\ pfSaved'
  <2>1. pfClean' \in BOOLEAN
    BY <1>4 DEF pfTyped
  <2>2. \A r \in pfRunners : pfRun'[r].at = "idle" => pfRun'[r] = pfStill
    BY <1>3, <1>5 DEF pfTyped
  <2> QED BY <1>4, <1>5, <2>1, <2>2 DEF pfTyped, pfSaved
<1>7. ASSUME pfClean' PROVE pfTogether' /\ pfSettled'
  <2>1. \A q \in pfRunners \ {"panel"} : pfRun[q].at # "idle" => pfClean /\ pfRun[q].of = s.of
    <3>1. \A q \in pfRunners : pfRun[q].at # "idle" => pfRun[q] # pfStill
      BY DEF pfStill
    <3>2. CASE pfAlone("panel")
      BY <3>1, <3>2 DEF pfAlone
    <3>3. CASE ~pfAlone("panel")
      BY <1>3, <1>4, <1>7, <3>1, <3>3 DEF pfSameRules
    <3> QED BY <3>2, <3>3
  <2>2. pfFar(s)'
    BY <1>2, <1>3 DEF pfFar
  <2>3. \A q \in pfRunners \ {"panel"} : pfFar(pfRun[q])'
    BY <1>4, <1>5, <2>1 DEF pfFar, pfTogether
  <2>4. \A q \in pfRunners : pfFar(pfRun[q])'
    BY <1>5, <2>2, <2>3 DEF pfFar
  <2>5. \A r, q \in pfRunners : pfRun'[r].at # "idle" /\ pfRun'[q].at # "idle" => pfRun'[r].of = pfRun'[q].of
    BY <1>5, <2>1
  <2>6. ASSUME NEW r \in pfRunners, pfReads(r)' PROVE \E q \in pfRunners : pfCompletes(pfRun[q])'
    <3>1. CASE pfMem # {}
      BY <1>3, <1>5, <3>1 DEF pfCompletes
    <3>2. CASE pfMem = {}
      <4>1. r # "panel" /\ pfRun[r] = pfRun'[r] /\ pfRun[r].at \in {"flush", "jump", "fill"}
        BY <1>3, <1>5, <2>6, <3>2 DEF pfReads
      <4>2. pfClean /\ pfRun[r].of = s.of
        BY <2>1, <4>1
      <4> QED BY <1>2, <1>3, <3>2, <4>1, <4>2 DEF pfTogether, pfFar
    <3> QED BY <3>1, <3>2
  <2>7. pfTogether'
    BY <2>4, <2>5, <2>6 DEF pfTogether
  <2>8. pfSettled'
    BY <1>3, <1>4, <1>5, <2>1 DEF pfSettled, pfSaved, hookFor
  <2> QED BY <2>7, <2>8
<1> QED BY <1>6, <1>7

\* A command of a script: what it leaves must be as far as the rest of the script supposes, and somebody must still complete.
LEMMA pfScriptStep ==
    ASSUME pfIInv, NEW r \in pfRunners, NEW fw \in PfWalls, NEW failed \in SUBSET PfWalls, NEW s \in PfScripts,
           pfStep(r, fw, failed, s), pfRun[r].at # "idle", s.at = "idle" => s = pfStill,
           s.at # "idle" => s.of = pfRun[r].of,
           pfClean /\ pfTogether /\ pfFw' = fw =>
               /\ pfFar(s)'
               /\ \A q \in pfRunners \ {r} : pfFar(pfRun[q])'
               /\ pfRun[r].of # pfNoHook =>
                      \/ pfCompletes(s)' \/ \E o \in pfRunners \ {r} : pfCompletes(pfRun[o])'
                      \/ s.at = "idle" /\ \A q \in pfRunners \ {r} : pfRun[q].at = "idle"
               /\ (\A q \in pfRunners \ {r} : pfRun[q].at = "idle") /\ s.at = "idle" =>
                      IF pfRun[r].of = pfNoHook THEN ~fw.jump /\ fw.rules = {} ELSE fw.jump /\ fw.rules = pfRun[r].of
    PROVE  pfIInv'
<1> USE DEF pfIInv
<1>1. /\ pfRun' = [pfRun EXCEPT ![r] = s] /\ UNCHANGED <<pfMem, pfFile, pfHook, pfPanel>>
      /\ pfFw' \in PfWalls /\ pfClean' \in BOOLEAN /\ (pfClean' => pfClean /\ pfFw' = fw)
  <2>1. /\ pfRun' = [pfRun EXCEPT ![r] = s] /\ UNCHANGED <<pfMem, pfFile, pfHook, pfPanel>>
        /\ \/ pfFw' = fw /\ pfClean' = pfClean
           \/ pfFw' \in failed /\ pfClean' = FALSE
    BY DEF pfStep
  <2>2. fw \in PfWalls /\ failed \in SUBSET PfWalls /\ pfClean \in BOOLEAN
    BY DEF pfTyped
  <2>3. CASE pfFw' = fw /\ pfClean' = pfClean
    BY <2>1, <2>2, <2>3
  <2>4. CASE pfFw' \in failed /\ pfClean' = FALSE
    BY <2>1, <2>2, <2>4
  <2> QED BY <2>1, <2>3, <2>4
<1>2. /\ pfRun' \in [pfRunners -> PfScripts] /\ pfRun'[r] = s
      /\ \A q \in pfRunners \ {r} : pfRun'[q] = pfRun[q]
  BY <1>1 DEF pfTyped
<1>3. pfTyped' /\ pfSaved'
  BY <1>1, <1>2 DEF pfTyped, pfSaved
<1>4. ASSUME pfClean' PROVE pfTogether'
  <2>1. pfClean /\ pfTogether /\ pfFw' = fw
    BY <1>1, <1>4
  <2>2. \A q \in pfRunners : pfFar(pfRun[q])'
    BY <1>2, <2>1 DEF pfFar
  <2>3. \A q, o \in pfRunners : pfRun'[q].at # "idle" /\ pfRun'[o].at # "idle" => pfRun'[q].of = pfRun'[o].of
    BY <1>2, <2>1 DEF pfTogether
  <2>4. ASSUME NEW q \in pfRunners, pfReads(q)' PROVE \E o \in pfRunners : pfCompletes(pfRun[o])'
    <3>1. pfRun'[q].of # pfNoHook /\ pfRun'[q].at # "idle"
      BY <2>2, <2>4 DEF pfFar, pfReads
    <3>2. pfRun[r].of # pfNoHook
      BY <1>2, <2>1, <3>1 DEF pfTogether
    <3>3. CASE pfCompletes(s)'
      BY <1>2, <3>3 DEF pfCompletes
    <3>4. ASSUME NEW o \in pfRunners \ {r}, pfCompletes(pfRun[o])' PROVE \E x \in pfRunners : pfCompletes(pfRun[x])'
      BY <3>4
    <3>5. ~(s.at = "idle" /\ \A x \in pfRunners \ {r} : pfRun[x].at = "idle")
      BY <1>2, <3>1
    <3> QED BY <2>1, <3>2, <3>3, <3>4, <3>5
  <2> QED BY <2>2, <2>3, <2>4 DEF pfTogether
<1>5. ASSUME pfClean', pfPanel \in {"idle", "runs"} PROVE pfSettled'
  <2>1. pfClean /\ pfTogether /\ pfFw' = fw /\ pfSettled
    BY <1>1, <1>5
  <2>2. pfRun[r].of = hookFor(pfMem) /\ (pfMem = {} <=> hookFor(pfMem) = pfNoHook) /\ (pfMem # {} => hookFor(pfMem) = pfMem)
    BY <2>1, PfAssumption DEF pfSettled, hookFor, pfNoHook, pfTyped
  <2>3. \A q \in pfRunners : pfRun'[q].at # "idle" => pfRun'[q].of = hookFor(pfMem)'
    BY <1>1, <1>2, <2>1, <2>2 DEF pfSettled, hookFor
  <2>4. ASSUME \A q \in pfRunners : pfRun'[q].at = "idle" PROVE fw.jump = (pfMem # {}) /\ fw.rules = pfMem
    <3>1. IF pfRun[r].of = pfNoHook THEN ~fw.jump /\ fw.rules = {} ELSE fw.jump /\ fw.rules = pfRun[r].of
      BY <1>2, <2>1, <2>4
    <3>2. fw.jump \in BOOLEAN
      BY DEF PfWalls
    <3> QED BY <2>2, <3>1, <3>2
  <2> QED BY <1>1, <2>1, <2>3, <2>4 DEF pfSettled
<1> QED BY <1>1, <1>3, <1>4, <1>5

\* The commands, one by one.
LEMMA pfScriptSteps ==
    ASSUME pfIInv, NEW r \in pfRunners, pfFlush(r) \/ pfJump(r) \/ pfFill(r) \/ cleanupRules(r)
    PROVE  pfIInv'
<1>1. PICK run : run = pfRun[r]
  OBVIOUS
<1>2. run \in PfScripts /\ pfFw \in PfWalls /\ pfStill \in PfScripts /\ pfStill.at = "idle"
  BY <1>1 DEF pfIInv, pfTyped, pfStill, PfScripts, PfAt, PfHooks
<1>3. /\ pfFw.jump \in BOOLEAN /\ pfFw.rules \in SUBSET PfRules
      /\ \A fw : fw \in PfWalls => {pfFw, fw} \in SUBSET PfWalls /\ {pfFw, fw, hooked(FALSE)} \in SUBSET PfWalls
  BY <1>2 DEF PfWalls, hooked
<1>4. ASSUME pfTogether
      PROVE  /\ pfFar(run) /\ \A q \in pfRunners \ {r} : pfFar(pfRun[q])
             /\ run.at # "idle" => \A q \in pfRunners \ {r} : pfRun[q].at # "idle" => pfRun[q].of = run.of
             /\ \A q \in pfRunners \ {r} : /\ pfRun[q].at \in PfAt
                                           /\ pfRun[q].at \in {"detach", "delete"} <=> pfRun[q].at # "idle" /\ pfRun[q].of = pfNoHook
             /\ pfReads(r) => \E q \in pfRunners : pfCompletes(pfRun[q])
  BY <1>1, <1>4 DEF pfTogether, pfFar, pfIInv, pfTyped, PfScripts, PfAt
<1>5. CASE pfFlush(r)
  <2>1. PICK fw, s : fw = flushed /\ s = [run EXCEPT !.at = "jump"]
    OBVIOUS
  <2>2. fw \in PfWalls /\ fw.rules = {} /\ fw.jump = pfFw.jump
    BY <1>2, <2>1 DEF PfWalls, flushed
  <2>3. s \in PfScripts /\ s.at = "jump" /\ s.todo = run.todo /\ s.of = run.of
    BY <1>2, <2>1 DEF PfScripts, PfAt
  <2>4. run.at = "flush" /\ pfStep(r, fw, {pfFw, fw}, s)
    BY <1>1, <1>5, <2>1 DEF pfFlush, pfGoes
  <2>5. ASSUME pfTogether, pfFw' = fw PROVE pfFar(s)' /\ pfCompletes(s)' /\ \A q \in pfRunners \ {r} : pfFar(pfRun[q])'
    <3>1. \A q \in pfRunners \ {r} : pfRun'[q] = pfRun[q]
      BY <2>4 DEF pfStep, pfIInv, pfTyped
    <3> QED BY <1>4, <2>2, <2>3, <2>4, <2>5, <3>1 DEF pfFar, pfCompletes
  <2> QED BY <1>1, <1>3, <2>2, <2>3, <2>4, <2>5, pfScriptStep
<1>6. CASE pfJump(r)
  <2>1. PICK fw, s : fw = hooked(TRUE) /\ s = [run EXCEPT !.at = "fill"]
    OBVIOUS
  <2>2. fw \in PfWalls /\ fw.jump /\ fw.rules = pfFw.rules
    BY <1>2, <2>1 DEF PfWalls, hooked
  <2>3. s \in PfScripts /\ s.at = "fill" /\ s.todo = run.todo /\ s.of = run.of
    BY <1>2, <2>1 DEF PfScripts, PfAt
  <2>4. run.at = "jump" /\ pfStep(r, fw, {pfFw, fw, hooked(FALSE)}, s)
    BY <1>1, <1>6, <2>1 DEF pfJump, pfGoes
  <2>5. ASSUME pfTogether, pfFw' = fw PROVE pfFar(s)' /\ pfCompletes(s)' /\ \A q \in pfRunners \ {r} : pfFar(pfRun[q])'
    <3>1. \A q \in pfRunners \ {r} : pfRun'[q] = pfRun[q]
      BY <2>4 DEF pfStep, pfIInv, pfTyped
    <3>2. \A q \in pfRunners \ {r} : pfRun[q].at # "delete"
      BY <1>4, <2>4, <2>5 DEF pfFar
    <3> QED BY <1>4, <2>2, <2>3, <2>4, <2>5, <3>1, <3>2 DEF pfFar, pfCompletes
  <2> QED BY <1>1, <1>3, <2>2, <2>3, <2>4, <2>5, pfScriptStep
<1>7. CASE pfFill(r)
  <2>1. run.at = "fill"
    BY <1>1, <1>7 DEF pfFill
  <2>2. ASSUME NEW k \in run.todo, NEW fw, fw = [pfFw EXCEPT !.rules = @ \cup {k}],
               pfStep(r, fw, {pfFw, fw}, [run EXCEPT !.todo = @ \ {k}])
        PROVE  pfIInv'
    <3>1. PICK s : s = [run EXCEPT !.todo = @ \ {k}]
      OBVIOUS
    <3>2. fw \in PfWalls /\ fw.jump = pfFw.jump /\ fw.rules = pfFw.rules \cup {k}
      BY <1>2, <2>2 DEF PfWalls, PfScripts
    <3>3. s \in PfScripts /\ s.at = "fill" /\ s.todo = run.todo \ {k} /\ s.of = run.of
      BY <1>2, <2>1, <3>1 DEF PfScripts
    <3>4. pfStep(r, fw, {pfFw, fw}, s) /\ \A q \in pfRunners \ {r} : pfRun'[q] = pfRun[q]
      BY <2>2, <3>1 DEF pfStep, pfIInv, pfTyped
    <3>5. ASSUME pfTogether, pfFw' = fw
          PROVE  pfFar(s)' /\ \A q \in pfRunners \ {r} : pfFar(pfRun[q])'
      BY <1>4, <2>1, <2>2, <3>2, <3>3, <3>4, <3>5 DEF pfFar
    <3>6. ASSUME pfTogether, pfFw' = fw
          PROVE  pfCompletes(s)' \/ \E o \in pfRunners \ {r} : pfCompletes(pfRun[o])'
      <4>1. PICK o \in pfRunners : pfCompletes(pfRun[o])
        BY <1>1, <1>4, <2>1, <3>6 DEF pfReads
      <4>2. CASE o = r
        BY <1>1, <2>1, <2>2, <3>2, <3>3, <3>6, <4>1, <4>2 DEF pfCompletes
      <4>3. CASE o # r
        BY <3>2, <3>4, <3>6, <4>1, <4>3 DEF pfCompletes
      <4> QED BY <4>2, <4>3
    <3> QED BY <1>1, <1>3, <2>1, <3>2, <3>3, <3>4, <3>5, <3>6, pfScriptStep
  <2>3. ASSUME run.todo = {}, pfStep(r, pfFw, {}, pfStill) PROVE pfIInv'
    <3>1. \A q \in pfRunners \ {r} : pfRun'[q] = pfRun[q]
      BY <2>3 DEF pfStep, pfIInv, pfTyped
    <3>2. ASSUME pfTogether, pfFw' = pfFw
          PROVE  pfFar(pfStill)' /\ \A q \in pfRunners \ {r} : pfFar(pfRun[q])'
      BY <1>2, <1>4, <3>1, <3>2 DEF pfFar
    <3>3. ASSUME pfTogether, pfFw' = pfFw
          PROVE  \/ \E o \in pfRunners \ {r} : pfCompletes(pfRun[o])'
                 \/ (\A q \in pfRunners \ {r} : pfRun[q].at = "idle") /\ pfFw.jump /\ pfFw.rules = run.of
      <4>1. PICK o \in pfRunners : pfCompletes(pfRun[o])
        BY <1>1, <1>4, <2>1, <3>3 DEF pfReads
      <4>2. CASE o # r
        BY <3>1, <3>3, <4>1, <4>2 DEF pfCompletes
      <4>3. CASE o = r
        <5>1. pfFw.jump /\ run.of \subseteq pfFw.rules /\ pfFw.rules \subseteq run.of /\ run.of # pfNoHook
          BY <1>1, <1>4, <2>1, <2>3, <3>3, <4>1, <4>3 DEF pfCompletes, pfFar
        <5>2. ASSUME NEW q \in pfRunners \ {r}, pfRun[q].at # "idle" PROVE pfCompletes(pfRun[q])'
          <6>1. pfRun[q].of = run.of /\ pfRun[q].at \in {"flush", "jump", "fill"}
            BY <1>4, <2>1, <3>3, <5>1, <5>2 DEF PfAt
          <6> QED BY <3>1, <3>3, <5>1, <6>1 DEF pfCompletes
        <5> QED BY <5>1, <5>2
      <4> QED BY <4>2, <4>3
    <3>4. pfTogether => run.of # pfNoHook
      BY <1>4, <2>1 DEF pfFar
    <3>5. {} \in SUBSET PfWalls
      OBVIOUS
    <3>6. pfTogether /\ pfFw' = pfFw =>
            \/ \E o \in pfRunners \ {r} : pfCompletes(pfRun[o])'
            \/ pfStill.at = "idle" /\ \A q \in pfRunners \ {r} : pfRun[q].at = "idle"
      BY <1>2, <3>3
    <3>7. pfTogether /\ pfFw' = pfFw =>
            ((\A q \in pfRunners \ {r} : pfRun[q].at = "idle") =>
                IF run.of = pfNoHook THEN ~pfFw.jump /\ pfFw.rules = {} ELSE pfFw.jump /\ pfFw.rules = run.of)
      BY <3>1, <3>3, <3>4 DEF pfCompletes
    <3> QED BY <1>1, <1>2, <2>1, <2>3, <3>2, <3>5, <3>6, <3>7, pfScriptStep
  <2> QED BY <1>1, <1>7, <2>2, <2>3 DEF pfFill
<1>8. CASE cleanupRules(r)
  <2>1. ASSUME run.at = "detach", pfStep(r, hooked(FALSE), {pfFw, hooked(FALSE)}, [run EXCEPT !.at = "delete"]) PROVE pfIInv'
    <3>1. PICK fw, s : fw = hooked(FALSE) /\ s = [run EXCEPT !.at = "delete"]
      OBVIOUS
    <3>2. fw \in PfWalls /\ fw.jump = FALSE /\ fw.rules = pfFw.rules
      BY <1>2, <3>1 DEF PfWalls, hooked
    <3>3. s \in PfScripts /\ s.at = "delete" /\ s.of = run.of
      BY <1>2, <3>1 DEF PfScripts, PfAt
    <3>4. pfStep(r, fw, {pfFw, fw}, s) /\ \A q \in pfRunners \ {r} : pfRun'[q] = pfRun[q]
      BY <2>1, <3>1 DEF pfStep, pfIInv, pfTyped
    <3>5. ASSUME pfTogether, pfFw' = fw
          PROVE  run.of = pfNoHook /\ pfFar(s)' /\ \A q \in pfRunners \ {r} : pfFar(pfRun[q])'
      BY <1>4, <2>1, <3>2, <3>3, <3>4, <3>5 DEF pfFar
    <3> QED BY <1>1, <1>3, <2>1, <3>2, <3>3, <3>4, <3>5, pfScriptStep
  <2>2. ASSUME run.at = "delete", pfStep(r, flushed, {pfFw, flushed}, pfStill) PROVE pfIInv'
    <3>1. PICK fw : fw = flushed
      OBVIOUS
    <3>2. fw \in PfWalls /\ fw.jump = pfFw.jump /\ fw.rules = {}
      BY <1>2, <3>1 DEF PfWalls, flushed
    <3>3. pfStep(r, fw, {pfFw, fw}, pfStill) /\ \A q \in pfRunners \ {r} : pfRun'[q] = pfRun[q]
      BY <2>2, <3>1 DEF pfStep, pfIInv, pfTyped
    <3>4. ASSUME pfTogether, pfFw' = fw
          PROVE  run.of = pfNoHook /\ ~fw.jump /\ pfFar(pfStill)' /\ \A q \in pfRunners \ {r} : pfFar(pfRun[q])'
      BY <1>2, <1>4, <2>2, <3>2, <3>3, <3>4 DEF pfFar
    <3> QED BY <1>1, <1>2, <1>3, <2>2, <3>2, <3>3, <3>4, pfScriptStep
  <2> QED BY <1>1, <1>8, <2>1, <2>2 DEF cleanupRules, pfGoes
<1> QED BY <1>5, <1>6, <1>7, <1>8

\* A script is killed.
LEMMA pfBreakStep == ASSUME pfIInv, NEW r \in pfRunners, pfBreaks(r) PROVE pfIInv'
<1>1. /\ pfRun' = [pfRun EXCEPT ![r] = pfStill] /\ pfClean' = FALSE
      /\ UNCHANGED <<pfMem, pfFile, pfHook, pfFw, pfPanel>>
  BY DEF pfBreaks
<1>2. pfStill \in PfScripts
  BY DEF pfStill, PfScripts, PfAt, PfHooks
<1> QED BY <1>1, <1>2 DEF pfIInv, pfTyped, pfSaved

\* The firewall is rebuilt.
LEMMA pfReloadStep == ASSUME pfIInv, pfReload PROVE pfIInv'
<1> USE DEF pfIInv
<1>1. PICK s : s = pfRuns
  OBVIOUS
<1>2. /\ s \in PfScripts /\ (s.at = "idle" => s = pfStill) /\ s.at \in {"idle", "flush"}
      /\ pfHook # pfNoHook => s.at = "flush" /\ s.todo = pfHook /\ s.of = pfHook
      /\ pfHook = pfNoHook => s.at = "idle"
  <2>1. CASE pfHook = pfNoHook
    BY <1>1, <2>1 DEF pfRuns, pfStill, PfScripts, PfAt, PfHooks
  <2>2. CASE pfHook # pfNoHook
    BY <1>1, <2>2 DEF pfRuns, PfScripts, PfAt, PfHooks, pfTyped
  <2> QED BY <2>1, <2>2
<1>3. PICK fw : fw = [jump |-> FALSE, rules |-> {}]
  OBVIOUS
<1>4. /\ pfFw' = fw /\ fw \in PfWalls /\ fw.jump = FALSE /\ fw.rules = {}
      /\ pfRun' = [pfRun EXCEPT !["platform"] = s]
      /\ pfClean' = IF pfAlone("platform") THEN pfMem = pfFile /\ pfHook = hookFor(pfMem)
                    ELSE pfClean /\ pfSameRules("platform", pfHook)
      /\ UNCHANGED <<pfMem, pfFile, pfHook, pfPanel>>
  BY <1>1, <1>3 DEF pfReload, pfBegins, PfWalls
<1>5. /\ pfRun' \in [pfRunners -> PfScripts] /\ pfRun'["platform"] = s /\ "platform" \in pfRunners
      /\ \A q \in pfRunners \ {"platform"} : pfRun'[q] = pfRun[q]
  BY <1>2, <1>4 DEF pfTyped, pfRunners
<1>6. pfTyped' /\ pfSaved'
  <2>1. pfClean' \in BOOLEAN
    BY <1>4 DEF pfTyped
  <2>2. \A r \in pfRunners : pfRun'[r].at = "idle" => pfRun'[r] = pfStill
    BY <1>2, <1>5 DEF pfTyped
  <2> QED BY <1>4, <1>5, <2>1, <2>2 DEF pfTyped, pfSaved
<1>7. ASSUME NEW q \in pfRunners \ {"platform"}, pfClean', pfRun[q].at # "idle"
      PROVE  pfClean /\ pfRun[q].of = pfHook
  <2>1. pfRun[q] # pfStill
    BY <1>7 DEF pfStill
  <2> QED BY <1>4, <1>7, <2>1 DEF pfAlone, pfSameRules
<1>8. ASSUME pfClean' PROVE pfTogether'
  <2>1. \A q \in pfRunners \ {"platform"} : pfFar(pfRun[q])'
    BY <1>4, <1>5, <1>7, <1>8 DEF pfFar, pfTogether
  <2>2. pfFar(s)'
    BY <1>2 DEF pfFar
  <2>3. \A r \in pfRunners : pfFar(pfRun[r])'
    BY <1>5, <2>1, <2>2 DEF pfFar
  <2>4. \A r, q \in pfRunners : pfRun'[r].at # "idle" /\ pfRun'[q].at # "idle" => pfRun'[r].of = pfRun'[q].of
    BY <1>2, <1>5, <1>7, <1>8
  <2>5. ASSUME NEW r \in pfRunners, pfReads(r)' PROVE \E q \in pfRunners : pfCompletes(pfRun[q])'
    <3>1. pfHook # pfNoHook
      <4>1. CASE r = "platform"
        BY <1>2, <1>5, <2>5, <4>1 DEF pfReads
      <4>2. CASE r # "platform"
        BY <1>5, <1>7, <1>8, <2>3, <2>5, <4>2 DEF pfReads, pfFar
      <4> QED BY <4>1, <4>2
    <3> QED BY <1>2, <1>5, <3>1 DEF pfCompletes
  <2> QED BY <2>3, <2>4, <2>5 DEF pfTogether
<1>9. ASSUME pfClean', pfPanel' \in {"idle", "runs"} PROVE pfSettled'
  <2>1. pfMem = pfFile /\ pfHook = hookFor(pfMem)
    <3>1. CASE pfAlone("platform")
      BY <1>4, <1>9, <3>1
    <3>2. CASE ~pfAlone("platform")
      <4>1. PICK q \in pfRunners \ {"platform"} : pfRun[q] # pfStill
        BY <3>2 DEF pfAlone
      <4>2. pfRun[q].at # "idle"
        BY <4>1 DEF pfTyped
      <4> QED BY <1>4, <1>7, <1>9, <4>2 DEF pfSettled
    <3> QED BY <3>1, <3>2
  <2>2. pfMem # {} => pfHook # pfNoHook
    BY <2>1, PfAssumption DEF hookFor, pfNoHook, pfTyped
  <2>3. \A r \in pfRunners : pfRun'[r].at # "idle" => pfRun'[r].of = hookFor(pfMem)
    BY <1>2, <1>5, <1>7, <1>9, <2>1
  <2>4. (\A r \in pfRunners : pfRun'[r].at = "idle") => pfMem = {}
    BY <1>2, <1>5, <2>2
  <2> QED BY <1>4, <2>1, <2>3, <2>4 DEF pfSettled, hookFor
<1> QED BY <1>6, <1>8, <1>9

\* The router or the panel starts again.
LEMMA pfRestartSteps == ASSUME pfIInv, pfReboot \/ pfCrash PROVE pfIInv'
<1> USE DEF pfIInv
<1>1. pfStill \in PfScripts /\ pfStill.at = "idle"
  BY DEF pfStill, PfScripts, PfAt, PfHooks
<1>2. CASE pfReboot
  <2>1. PICK s : s = pfRuns
    OBVIOUS
  <2>2. /\ s \in PfScripts /\ (s.at = "idle" => s = pfStill)
        /\ s.at \in {"idle", "flush"} /\ (s.at = "flush" => s.todo = s.of /\ s.of # pfNoHook)
    <3>1. CASE pfHook = pfNoHook
      BY <1>1, <2>1, <3>1 DEF pfRuns
    <3>2. CASE pfHook # pfNoHook
      BY <2>1, <3>2 DEF pfRuns, PfScripts, PfAt, PfHooks, pfTyped
    <3> QED BY <3>1, <3>2
  <2>3. /\ pfRun' = [r \in pfRunners |-> IF r = "platform" THEN s ELSE pfStill]
        /\ pfFw' \in PfWalls /\ pfMem' = pfFile /\ pfPanel' = "hook" /\ UNCHANGED <<pfFile, pfHook, pfClean>>
    BY <1>2, <2>1 DEF pfReboot, PfWalls
  <2>4. pfTyped' /\ pfSaved'
    BY <1>1, <2>2, <2>3 DEF pfTyped, pfSaved
  <2>5. pfTogether'
    BY <1>1, <2>2, <2>3 DEF pfTogether, pfFar, pfCompletes, pfReads
  <2> QED BY <2>3, <2>4, <2>5
<1>3. CASE pfCrash
  <2>1. /\ pfRun' = [pfRun EXCEPT !["panel"] = pfStill, !["orphan"] = pfRun["panel"]] /\ pfRun["orphan"] = pfStill
        /\ pfMem' = pfFile /\ pfPanel' = "hook" /\ UNCHANGED <<pfFile, pfHook, pfFw, pfClean>>
    BY <1>3 DEF pfCrash
  <2>2. /\ pfRun' \in [pfRunners -> PfScripts] /\ pfRun'["panel"] = pfStill /\ pfRun'["orphan"] = pfRun["panel"]
        /\ pfRun'["platform"] = pfRun["platform"]
        /\ pfRunners = {"panel", "platform", "orphan"}
    BY <1>1, <2>1 DEF pfTyped, pfRunners
  <2>3. pfTyped' /\ pfSaved'
    BY <1>1, <2>1, <2>2 DEF pfTyped, pfSaved
  <2>4. ASSUME pfTogether PROVE pfTogether'
    <3>1. \A r \in pfRunners : pfFar(pfRun[r])'
      BY <1>1, <2>1, <2>2, <2>4 DEF pfTogether, pfFar
    <3>2. \A r, q \in pfRunners : pfRun'[r].at # "idle" /\ pfRun'[q].at # "idle" => pfRun'[r].of = pfRun'[q].of
      BY <1>1, <2>2, <2>4 DEF pfTogether
    <3>3. ASSUME NEW r \in pfRunners, pfReads(r)' PROVE \E q \in pfRunners : pfCompletes(pfRun[q])'
      <4>1. PICK q \in pfRunners : pfCompletes(pfRun[q])
        <5>1. \E o \in pfRunners : pfReads(o)
          BY <1>1, <2>2, <3>3 DEF pfReads
        <5> QED BY <2>4, <5>1 DEF pfTogether
      <4>2. q # "orphan"
        BY <1>1, <2>1, <4>1 DEF pfCompletes
      <4> QED BY <2>1, <2>2, <4>1, <4>2 DEF pfCompletes
    <3> QED BY <3>1, <3>2, <3>3 DEF pfTogether
  <2> QED BY <2>1, <2>3, <2>4
<1> QED BY <1>2, <1>3

\* Every step keeps the invariant.
LEMMA pfTurn == pfIInv /\ [pfNext]_pfVars => pfIInv'
<1>1. ASSUME pfIInv, UNCHANGED pfVars PROVE pfIInv'
  BY <1>1 DEF pfVars, pfIInv, pfTyped, pfSaved, pfTogether, pfFar, pfReads, pfCompletes, pfSettled, hookFor
<1> QED BY <1>1, pfPanelSteps, pfRunStep, pfScriptSteps, pfBreakStep, pfReloadStep, pfRestartSteps DEF pfNext

\* The inductive invariant of the forwarding holds in every state.
THEOREM ForwardInvariance == pfSpec => []pfIInv
BY pfInitIInv, pfTurn, PTL DEF pfSpec

\* The invariant is what the run checks.
LEMMA ForwardIsSafe == pfIInv => PortsFollowRules
<1> SUFFICES ASSUME pfIInv, pfPanel = "idle", pfClean, \A r \in pfRunners : pfRun[r] = pfStill
             PROVE  pfFw = [jump |-> pfMem # {}, rules |-> pfMem] /\ pfMem = pfFile
  BY DEF PortsFollowRules
<1>1. pfFw.jump = (pfMem # {}) /\ pfFw.rules = pfMem /\ pfMem = pfFile
  BY DEF pfIInv, pfSettled, pfStill
<1>2. pfFw = [jump |-> pfFw.jump, rules |-> pfFw.rules]
  BY DEF pfIInv, pfTyped, PfWalls
<1> QED BY <1>1, <1>2

(***************************************************************************)
(* ArpIsolation                                                            *)
(***************************************************************************)
AiConfigs == [iso : BOOLEAN, local : BOOLEAN]
AiPlaces == {"idle", "status", "send", "verify", "save", "undo", "verifyUndo", "saveUndo"}
AiJobs == [at : AiPlaces, want : BOOLEAN, prev : BOOLEAN, view : AiConfigs]
AiWhats == {"none", "done", "restored", "refused", "unconfirmed"}
AiAnswers == [what : AiWhats, want : BOOLEAN, prev : BOOLEAN]
AiSinces == [sent : BOOLEAN, edited : BOOLEAN]

aiJobOK == aiJob \in AiJobs
aiDataOK ==
    /\ aiRun \in AiConfigs /\ aiSaved \in AiConfigs
    /\ aiAnswer \in AiAnswers /\ aiSince \in AiSinces
aiFlagOK == aiFresh \in BOOLEAN

\* Where a change knows what the segment is, unless somebody else has changed
\* it since: before its command, after the command was verified, and after the
\* rollback was.
SegmentIsKnown ==
    ~aiSince.edited =>
        /\ aiJob.at \in {"status", "send", "saveUndo"} => aiRun.iso = aiJob.prev
        /\ aiJob.at = "save" => aiRun.iso = aiJob.want

\* A change leaves no cached view while it is under way.
NoViewInChange == aiJob.at # "idle" => ~aiFresh

\* The inductive invariant.
aiIInv ==
    /\ aiJobOK /\ aiDataOK /\ aiFlagOK
    /\ AnswerIsTrue /\ RefusedIsUntouched /\ CacheKnowsCommands
    /\ SegmentIsKnown /\ NoViewInChange

-----------------------------------------------------------------------------
\* An untouched segment that nobody asked to change.
LEMMA aiInitIInv == aiInit => aiIInv
<1> SUFFICES ASSUME aiInit PROVE aiIInv
  OBVIOUS
<1> USE DEF aiInit
<1>1. aiFlagOK
  BY Zenon DEF aiFlagOK
<1>2. aiJobOK /\ aiDataOK
  BY DEF aiJobOK, aiDataOK, aiIdle, AiJobs, AiPlaces, AiConfigs, AiAnswers, AiWhats, AiSinces
<1>3. AnswerIsTrue /\ RefusedIsUntouched /\ CacheKnowsCommands /\ SegmentIsKnown /\ NoViewInChange
  BY DEF AnswerIsTrue, RefusedIsUntouched, CacheKnowsCommands, SegmentIsKnown, NoViewInChange, aiIdle
<1> QED BY <1>1, <1>2, <1>3 DEF aiIInv

\* What every step has to show, in the order the cases below show it.
LEMMA aiKept ==
    ASSUME aiJobOK', aiDataOK', aiFlagOK', AnswerIsTrue', RefusedIsUntouched', CacheKnowsCommands',
           SegmentIsKnown', NoViewInChange'
    PROVE  aiIInv'
BY DEF aiIInv

\* The records the steps are made of.
LEMMA IdleOK == aiIdle \in AiJobs
BY DEF aiIdle, AiJobs, AiPlaces, AiConfigs

\* The fields of a change have their types.
LEMMA JobFields ==
    ASSUME NEW j \in AiJobs
    PROVE  j.want \in BOOLEAN /\ j.prev \in BOOLEAN /\ j.view \in AiConfigs
BY DEF AiJobs

\* A change that goes on is a change,
LEMMA JobMoves ==
    ASSUME NEW j \in AiJobs, NEW at \in AiPlaces
    PROVE  [j EXCEPT !.at = at] \in AiJobs
BY DEF AiJobs

\* also with the configuration it has just read,
LEMMA JobSees ==
    ASSUME NEW j \in AiJobs, NEW at \in AiPlaces, NEW v \in AiConfigs
    PROVE  [j EXCEPT !.at = at, !.view = v] \in AiJobs
BY DEF AiJobs

\* and so is one that begins.
LEMMA JobBegins ==
    ASSUME NEW want \in BOOLEAN, NEW c \in AiConfigs
    PROVE  [at |-> "status", want |-> want, prev |-> c.iso, view |-> c] \in AiJobs
BY DEF AiJobs, AiPlaces, AiConfigs

\* A command sets the isolation of a segment and nothing else.
LEMMA ConfigSet ==
    ASSUME NEW c \in AiConfigs, NEW b \in BOOLEAN
    PROVE  [c EXCEPT !.iso = b] \in AiConfigs /\ c.iso \in BOOLEAN
BY DEF AiConfigs

\* Every outcome of a change is an answer.
LEMMA AnswerOK ==
    ASSUME NEW a \in AiWhats, NEW want \in BOOLEAN, NEW prev \in BOOLEAN
    PROVE  [what |-> a, want |-> want, prev |-> prev] \in AiAnswers
BY DEF AiAnswers

\* The history keeps its type.
LEMMA SinceSet ==
    ASSUME NEW s \in AiSinces, NEW b \in BOOLEAN
    PROVE  [s EXCEPT !.sent = b] \in AiSinces /\ [s EXCEPT !.edited = b] \in AiSinces
BY DEF AiSinces

\* A change that goes on or ends keeps the types of the change and the answer.
LEMMA aiGoesOK ==
    ASSUME aiJobOK, aiDataOK, NEW at \in AiPlaces, aiGoes(at)
    PROVE  aiJobOK' /\ aiAnswer' \in AiAnswers
BY JobMoves DEF aiJobOK, aiDataOK, aiGoes

\* So does a change that ends.
LEMMA aiEndsOK ==
    ASSUME aiJobOK, aiDataOK, NEW what \in AiWhats, aiEnds(what)
    PROVE  aiJobOK' /\ aiAnswer' \in AiAnswers
BY IdleOK, JobFields, AnswerOK DEF aiJobOK, aiDataOK, aiEnds

\* The steps keep the types.
LEMMA aiTypes ==
    ASSUME aiIInv, [aiNext]_aiVars
    PROVE  aiJobOK' /\ aiDataOK' /\ aiFlagOK'
<1> USE DEF aiIInv
<1>1. aiFlagOK'
  BY Zenon DEF aiFlagOK, aiNext, aiVars, aiShow, aiExpire, aiAsk, aiStatus, aiGone, aiSend, aiCheck, aiSave, aiUndo,
     aiCheckUndo, aiSaveUndo, aiEdited, aiCrash, aiCommand, aiVerify, finish, expired
<1>2. aiJobOK' /\ aiDataOK'
  <2> USE DEF AiPlaces, AiWhats
  <2>1. CASE aiShow \/ aiExpire \/ UNCHANGED aiVars
    BY <2>1, SinceSet DEF aiShow, aiExpire, aiVars, aiJobOK, aiDataOK
  <2>2. CASE aiGone
    BY <2>2, aiEndsOK DEF aiGone, aiDataOK
  <2>3. CASE aiCrash
    BY <2>3, IdleOK, AnswerOK DEF aiCrash, aiJobOK, aiDataOK
  <2>4. CASE aiAsk
    <3>1. aiRun.iso \in BOOLEAN
      BY ConfigSet DEF aiDataOK
    <3>2. PICK want \in BOOLEAN :
            \/ /\ aiJob' = [at |-> "status", want |-> want, prev |-> aiRun.iso, view |-> aiRun]
               /\ UNCHANGED aiAnswer
            \/ aiJob' = aiIdle /\ aiAnswer' = [what |-> "refused", want |-> want, prev |-> aiRun.iso]
      BY <2>4 DEF aiAsk
    <3>3. aiJob' \in AiJobs
      BY <3>2, JobBegins, IdleOK DEF aiDataOK
    <3>4. aiAnswer' \in AiAnswers
      BY <3>1, <3>2, AnswerOK DEF aiDataOK
    <3>5. aiSince' \in AiSinces /\ UNCHANGED <<aiRun, aiSaved>>
      BY <2>4, SinceSet DEF aiAsk, aiDataOK
    <3> QED BY <3>3, <3>4, <3>5 DEF aiJobOK, aiDataOK
  <2>5. CASE aiStatus
    <3>1. aiJobOK' /\ aiAnswer' \in AiAnswers
      BY <2>5, aiEndsOK, aiGoesOK DEF aiStatus, finish
    <3>2. aiSince' \in AiSinces /\ UNCHANGED <<aiRun, aiSaved>>
      BY <2>5, SinceSet DEF aiStatus, finish, aiDataOK
    <3> QED BY <3>1, <3>2 DEF aiDataOK
  <2>6. CASE aiSend \/ aiUndo
    <3>1. aiSince' \in AiSinces /\ UNCHANGED aiSaved
      BY <2>6, SinceSet DEF aiSend, aiUndo, aiCommand, aiDataOK
    <3>2. PICK iso \in BOOLEAN : aiRun' = [aiRun EXCEPT !.iso = iso]
      BY <2>6, JobFields, ConfigSet DEF aiSend, aiUndo, aiCommand, aiJobOK, aiDataOK
    <3>3. aiRun' \in AiConfigs
      BY <3>2, ConfigSet DEF aiDataOK
    <3>4. aiJobOK' /\ aiAnswer' \in AiAnswers
      BY <2>6, aiEndsOK, aiGoesOK DEF aiSend, aiUndo, aiCommand
    <3> QED BY <3>1, <3>3, <3>4 DEF aiDataOK
  <2>7. CASE aiCheck \/ aiCheckUndo
    <3>1. UNCHANGED <<aiRun, aiSaved, aiSince>>
      BY <2>7 DEF aiCheck, aiCheckUndo, aiVerify
    <3>2. \/ /\ \E at \in {"save", "saveUndo"} : aiJob' = [aiJob EXCEPT !.at = at, !.view = aiRun]
             /\ UNCHANGED aiAnswer
          \/ aiGoes("undo")
          \/ aiEnds("unconfirmed")
      BY <2>7 DEF aiCheck, aiCheckUndo, aiVerify
    <3>3. CASE /\ \E at \in {"save", "saveUndo"} : aiJob' = [aiJob EXCEPT !.at = at, !.view = aiRun]
               /\ UNCHANGED aiAnswer
      <4>1. PICK at \in AiPlaces : aiJob' = [aiJob EXCEPT !.at = at, !.view = aiRun]
        BY <3>3
      <4>2. aiJobOK'
        BY <4>1, JobSees DEF aiJobOK, aiDataOK
      <4> QED BY <3>1, <3>3, <4>2 DEF aiDataOK
    <3>4. CASE aiGoes("undo")
      BY <3>1, <3>4, aiGoesOK DEF aiDataOK
    <3>5. CASE aiEnds("unconfirmed")
      BY <3>1, <3>5, aiEndsOK DEF aiDataOK
    <3> QED BY <3>2, <3>3, <3>4, <3>5
  <2>8. CASE aiSave
    <3>1. aiJobOK' /\ aiAnswer' \in AiAnswers
      BY <2>8, aiEndsOK, aiGoesOK DEF aiSave, finish
    <3>2. aiSince' \in AiSinces /\ aiRun' = aiRun /\ aiSaved' \in AiConfigs
      BY <2>8, SinceSet DEF aiSave, finish, aiDataOK
    <3> QED BY <3>1, <3>2 DEF aiDataOK
  <2>9. CASE aiSaveUndo
    <3>1. aiJobOK' /\ aiAnswer' \in AiAnswers
      BY <2>9, aiEndsOK DEF aiSaveUndo, saveUndo
    <3>2. UNCHANGED <<aiSince, aiRun>> /\ aiSaved' \in AiConfigs
      BY <2>9 DEF aiSaveUndo, saveUndo, aiDataOK
    <3> QED BY <3>1, <3>2 DEF aiDataOK
  <2>10. CASE aiEdited
    <3>1. aiRun' \in AiConfigs /\ aiSaved' \in AiConfigs
      BY <2>10 DEF aiEdited, AiConfigs, aiDataOK
    <3>2. aiSince' \in AiSinces /\ aiJob' \in AiJobs /\ UNCHANGED aiAnswer
      BY <2>10, SinceSet, IdleOK DEF aiEdited, aiJobOK, aiDataOK
    <3> QED BY <3>1, <3>2 DEF aiJobOK, aiDataOK
  <2> QED BY <2>1, <2>2, <2>3, <2>4, <2>5, <2>6, <2>7, <2>8, <2>9, <2>10 DEF aiNext
<1> QED BY <1>1, <1>2

\* Steps outside a change: the view, its age, edits of others and a crash.
LEMMA aiAround ==
    ASSUME aiIInv, aiShow \/ aiExpire \/ aiEdited \/ aiCrash \/ UNCHANGED aiVars
    PROVE  AnswerIsTrue' /\ RefusedIsUntouched' /\ CacheKnowsCommands' /\ SegmentIsKnown' /\ NoViewInChange'
<1> USE DEF aiIInv, AnswerIsTrue, RefusedIsUntouched, CacheKnowsCommands, SegmentIsKnown, NoViewInChange, aiJobOK,
    aiDataOK, aiFlagOK, AiJobs, AiConfigs, AiAnswers, AiSinces, aiIdle
<1>1. CASE aiShow
  BY <1>1 DEF aiShow
<1>2. CASE aiExpire \/ UNCHANGED aiVars
  BY <1>2 DEF aiExpire, aiVars
<1>3. CASE aiEdited
  BY <1>3 DEF aiEdited
<1>4. CASE aiCrash
  BY <1>4 DEF aiCrash
<1> QED BY <1>1, <1>2, <1>3, <1>4

\* A change up to its command: refused, not needed, given up or sent.
LEMMA aiBefore ==
    ASSUME aiIInv, aiAsk \/ aiStatus \/ aiGone \/ aiSend
    PROVE  AnswerIsTrue' /\ RefusedIsUntouched' /\ CacheKnowsCommands' /\ SegmentIsKnown' /\ NoViewInChange'
<1> USE DEF aiIInv, AnswerIsTrue, RefusedIsUntouched, CacheKnowsCommands, SegmentIsKnown, NoViewInChange, aiJobOK,
    aiDataOK, aiFlagOK, AiJobs, AiConfigs, AiAnswers, AiSinces, aiIdle, aiEnds, aiGoes
<1>1. CASE aiAsk
  BY <1>1 DEF aiAsk, expired
<1>2. CASE aiStatus
  BY <1>2 DEF aiStatus, finish
<1>3. CASE aiGone
  BY <1>3 DEF aiGone, cancellable
<1>4. CASE aiSend
  BY <1>4 DEF aiSend, aiCommand
<1> QED BY <1>1, <1>2, <1>3, <1>4

\* A change from its command on: verified and saved, or taken back.
LEMMA aiAfter ==
    ASSUME aiIInv, aiCheck \/ aiSave \/ aiUndo \/ aiCheckUndo \/ aiSaveUndo
    PROVE  AnswerIsTrue' /\ RefusedIsUntouched' /\ CacheKnowsCommands' /\ SegmentIsKnown' /\ NoViewInChange'
<1> USE DEF aiIInv, AnswerIsTrue, RefusedIsUntouched, CacheKnowsCommands, SegmentIsKnown, NoViewInChange, aiJobOK,
    aiDataOK, aiFlagOK, AiJobs, AiConfigs, AiAnswers, AiSinces, aiIdle, aiEnds, aiGoes
<1>1. CASE aiCheck
  BY <1>1 DEF aiCheck, aiVerify
<1>2. CASE aiSave
  <2>1. CASE aiWorks /\ aiSaved' = aiRun /\ finish(aiJob.view)
    BY <1>2, <2>1 DEF aiSave, finish
  <2>2. CASE aiGoes("undo") /\ UNCHANGED <<aiCache, aiFresh, aiSince>>
    BY <1>2, <2>2 DEF aiSave
  <2> QED BY <1>2, <2>1, <2>2 DEF aiSave
<1>3. CASE aiUndo
  BY <1>3 DEF aiUndo, aiCommand
<1>4. CASE aiCheckUndo
  <2>1. aiRun' = aiRun /\ aiSince' = aiSince /\ aiFresh' = aiFresh /\ ~aiFresh
    BY <1>4 DEF aiCheckUndo, aiVerify
  <2>2. CASE aiRun.iso = aiJob.prev /\ aiJob' = [aiJob EXCEPT !.at = "saveUndo", !.view = aiRun]
    <3>1. aiJob'.at = "saveUndo" /\ aiJob'.prev = aiJob.prev
      BY <2>2
    <3> QED BY <2>1, <2>2, <3>1
  <2>3. CASE aiEnds("unconfirmed")
    BY <2>1, <2>3
  <2> QED BY <1>4, <2>2, <2>3 DEF aiCheckUndo, aiVerify
<1>5. CASE aiSaveUndo
  BY <1>5 DEF aiSaveUndo, saveUndo
<1> QED BY <1>1, <1>2, <1>3, <1>4, <1>5

\* Every step keeps the invariant.
LEMMA aiStep == aiIInv /\ [aiNext]_aiVars => aiIInv'
BY aiTypes, aiAround, aiBefore, aiAfter, aiKept DEF aiNext

\* Whatever fails and whoever else edits the router, the answer to the last
\* change is true of the segment, a refused change touched nothing, and no view
\* from before a command is shown.
THEOREM IsolationIsSafe == aiSpec => []IsolationSafe
<1>1. aiIInv => IsolationSafe
  BY DEF aiIInv, IsolationSafe
<1> QED BY <1>1, aiInitIInv, aiStep, PTL DEF aiSpec

(***************************************************************************)
(* MacSpoof                                                                *)
(***************************************************************************)
msSpec == msInit /\ [][msNext]_msVars

\* Addresses, and what the variables hold.
MsMacs == MsIfaces \cup MsFakes \cup {msNone}
MsMaps == [MsIfaces -> MsMacs]
MsConfigs == [on : BOOLEAN, mac : MsFakes \cup {msNone}, ifs : SUBSET MsIfaces]
MsJobs == [at : {"idle", "boot", "write", "undo", "close"}, loud : BOOLEAN, selected : SUBSET MsIfaces, want : MsMaps,
           todo : SUBSET MsIfaces, before : MsMaps, skew : SUBSET MsIfaces, changed : SUBSET MsIfaces,
           failed : BOOLEAN, lost : BOOLEAN]
msTyped ==
    /\ msCfg \in MsConfigs /\ msErr \in BOOLEAN /\ msOrig \in MsMaps
    /\ msDisk \in [cfg : MsConfigs, err : BOOLEAN, orig : MsMaps]
    /\ msAddr \in MsMaps /\ msSkew \in SUBSET MsIfaces /\ msHere \in SUBSET MsIfaces
    /\ msLoop \in BOOLEAN /\ msJob \in MsJobs /\ msUp \in BOOLEAN /\ msOp \in 0..MsOps /\ msFault \in 0..MsFaults

\* A bridge that is not as it was made.
msTurned(i) == msAddr[i] # msOwn(i) \/ i \in msSkew

\* A journal knows what each bridge was made with, the one on disk all that the one in memory knows, and both
\* know every bridge that is not as it was made.
msJournals ==
    /\ \A i \in MsIfaces : msOrig[i] \in {msNone, msOwn(i)} /\ msDisk.orig[i] \in {msNone, msOwn(i)}
    /\ msUp => \A i \in MsIfaces : msOrig[i] # msNone => msDisk.orig[i] = msOwn(i)
    /\ msUp => \A i \in msHere : msTurned(i) => msOrig[i] = msOwn(i)

\* A job selects what the configuration does.
msSelects ==
    msJob.at \in {"write", "undo", "close"} =>
        /\ ~msCfg.on => msJob.selected = {}
        /\ msCfg.on /\ msCfg.ifs # {} => msJob.selected = msCfg.ifs

\* A bridge that is not selected has its own address or is still to get it, or the job has failed.
msDue ==
    /\ msJob.at = "write" =>
        /\ \A i \in msHere \ msJob.selected : msTurned(i) => i \in msJob.todo
        /\ \A i \in msJob.todo \ msJob.selected : msJob.want[i] = msOwn(i)
    /\ msJob.at = "undo" => msJob.failed
    /\ msJob.at = "close" /\ ~msJob.failed => \A i \in msHere \ msJob.selected : ~msTurned(i)

\* What was not written, or was undone, is as the job found it, or new; what a command touches is in the journal.
msFound ==
    msJob.at \in {"write", "undo"} =>
        /\ \A i \in msJob.todo \cup msJob.changed : msOrig[i] = msOwn(i)
        /\ ~msJob.lost => \A i \in msHere \ msJob.changed :
                              msAddr[i] \in {msJob.before[i], msOwn(i)} /\ (i \in msSkew => i \in msJob.skew)

\* The loop runs while the service is on, but for an explicit job, which sees to it.
msLoops ==
    msUp /\ msCfg.on /\ (msJob.at = "idle" \/ (msJob.at # "boot" /\ ~msJob.loud)) => msLoop

\* The inductive invariant.
msIInv ==
    msTyped /\ msJournals /\ AddressJournalled /\ msSelects /\ msDue /\ msFound /\ msLoops /\ UnselectedIsRestored

\* The jobs that hold no mutex yet.
LEMMA MsIdles ==
    /\ msNobody \in MsMaps
    /\ msIdle \in MsJobs /\ msIdle.at = "idle" /\ msIdle.lost = FALSE /\ msIdle.failed = FALSE
    /\ [msIdle EXCEPT !.at = "boot"] \in MsJobs /\ [msIdle EXCEPT !.at = "boot"].at = "boot"
<1>1. msNobody \in MsMaps
  BY DEF msNobody, MsMaps, MsMacs
<1>2. FALSE \in BOOLEAN
  BY Zenon
<1>3. msIdle \in MsJobs /\ msIdle.at = "idle" /\ msIdle.lost = FALSE /\ msIdle.failed = FALSE
  BY <1>1, <1>2 DEF msIdle, MsJobs
<1>4. [msIdle EXCEPT !.at = "boot"] \in MsJobs /\ [msIdle EXCEPT !.at = "boot"].at = "boot"
  BY <1>3 DEF MsJobs
<1> QED BY <1>1, <1>3, <1>4

\* Nothing is turned at the start.
LEMMA msInitIInv == msInit => msIInv
<1> SUFFICES ASSUME msInit PROVE msIInv
  OBVIOUS
<1> USE MsAssumption DEF msInit
<1>1. FALSE \in BOOLEAN /\ TRUE \in BOOLEAN
  BY Zenon
<1>2. msOff \in MsConfigs
  BY <1>1 DEF msOff, MsConfigs
<1>3. [cfg |-> msOff, err |-> FALSE, orig |-> msOrig] \in [cfg : MsConfigs, err : BOOLEAN, orig : MsMaps]
  BY <1>1, <1>2, MsIdles
<1>4. msAddr \in MsMaps
  BY DEF MsMaps, MsMacs, msOwn
<1>5. msOp \in 0..MsOps /\ msFault \in 0..MsFaults
  OBVIOUS
<1>6. msTyped
  BY <1>1, <1>2, <1>3, <1>4, <1>5, MsIdles DEF msTyped
<1>7. \A i \in MsIfaces : msOrig[i] = msNone /\ msDisk.orig[i] = msNone /\ ~msTurned(i)
  BY DEF msNobody, msTurned
<1>8. msJournals /\ AddressJournalled /\ UnselectedIsRestored
  BY <1>7 DEF msJournals, AddressJournalled, UnselectedIsRestored, msTurned
<1>9. msSelects /\ msDue /\ msFound /\ msLoops
  BY MsIdles DEF msSelects, msDue, msFound, msLoops, msOff
<1> QED BY <1>6, <1>8, <1>9 DEF msIInv

\* A fault is counted.
LEMMA MsCounts ==
    ASSUME msTyped, msFails \/ msWorks
    PROVE  msFault' \in 0..MsFaults
  BY MsAssumption DEF msTyped, msFails, msWorks

-----------------------------------------------------------------------------
\* A job begins: it has refused or failed, or its journal is on disk before anything is written.
LEMMA MsBegin ==
    ASSUME msIInv, NEW c \in MsConfigs, NEW loud \in BOOLEAN, msBegin(c, loud), msUp,
           msOp' \in 0..MsOps, ~loud => c = msCfg /\ msCfg.on /\ msJob.at = "idle"
    PROVE  msIInv'
<1> USE MsAssumption
<1>1. PICK targets, orig, want, sel : targets = msTargets(c) /\ orig = journalled(c, targets)
        /\ want = desired(c, orig, targets) /\ sel = IF c.on THEN targets ELSE {}
  OBVIOUS
<1>2. PICK job : job = [msIdle EXCEPT !.loud = loud, !.selected = sel]
  OBVIOUS
<1>3. /\ msCfg' = c /\ UNCHANGED <<msErr, msAddr, msSkew, msHere, msLoop, msUp>>
      /\ \/ /\ msFails \/ msWorks
            /\ msJob' = [job EXCEPT !.at = "close", !.failed = TRUE] /\ UNCHANGED <<msOrig, msDisk>>
         \/ /\ ~refused(c, targets) /\ msWorks
            /\ msOrig' = orig
            /\ msDisk' = IF added(c, targets) = {} THEN msDisk ELSE [cfg |-> c, err |-> msErr, orig |-> orig]
            /\ msJob' = [job EXCEPT !.at = "write", !.want = want, !.todo = writes(want, loud),
                                    !.before = msAddr, !.skew = msSkew]
  BY <1>1, <1>2 DEF msBegin
<1> HIDE DEF msBegin
<1>4. msTyped /\ msAddr \in MsMaps /\ msOrig \in MsMaps /\ msHere \in SUBSET MsIfaces /\ msSkew \in SUBSET MsIfaces
      /\ msDisk \in [cfg : MsConfigs, err : BOOLEAN, orig : MsMaps] /\ msErr \in BOOLEAN
  BY DEF msIInv, msTyped
<1>5. msFault' \in 0..MsFaults
  BY <1>3, <1>4, MsCounts
<1>6. targets \subseteq MsIfaces /\ sel \subseteq MsIfaces
  BY <1>1, <1>4 DEF msTargets, MsConfigs
<1>7. (~c.on => sel = {}) /\ (c.on /\ c.ifs # {} => sel = c.ifs)
  BY <1>1 DEF msTargets
<1>8. job \in MsJobs /\ job.loud = loud /\ job.selected = sel /\ job.changed = {} /\ job.lost = FALSE /\ job.failed = FALSE
  BY <1>2, <1>6, MsIdles DEF MsJobs, msIdle
<1>9. \A i \in MsIfaces : msTurned(i)' <=> msTurned(i)
  BY <1>3 DEF msTurned
<1>10. \A i \in MsIfaces : msOrig[i] \in {msNone, msOwn(i)} /\ msDisk.orig[i] \in {msNone, msOwn(i)}
                          /\ (msOrig[i] # msNone => msDisk.orig[i] = msOwn(i))
  BY DEF msIInv, msJournals
<1>11. \A i \in msHere : msTurned(i) => msOrig[i] = msOwn(i) /\ msDisk.orig[i] = msOwn(i)
  BY DEF msIInv, msJournals, AddressJournalled, msTurned
<1>12. \A i \in MsIfaces : msOwn(i) # msNone /\ msOwn(i) \in MsMacs
  BY DEF msOwn, msNone, MsMacs
<1>13. msCfg' \in MsConfigs /\ msErr' \in BOOLEAN /\ msAddr' \in MsMaps /\ msSkew' \in SUBSET MsIfaces
       /\ msHere' \in SUBSET MsIfaces /\ msLoop' \in BOOLEAN /\ msUp' \in BOOLEAN
  BY <1>3, <1>4 DEF msTyped
<1>14. ASSUME msJob'.at \in {"write", "close"}, msJob'.loud = loud PROVE msLoops' /\ UnselectedIsRestored'
  <2>1. ~loud => msLoop
    BY DEF msIInv, msLoops
  <2>2. msLoops'
    BY <1>3, <1>14, <2>1 DEF msLoops
  <2> QED BY <1>14, <2>2 DEF UnselectedIsRestored
<1>15. CASE msJob' = [job EXCEPT !.at = "close", !.failed = TRUE] /\ UNCHANGED <<msOrig, msDisk>>
  <2>1. msJob' \in MsJobs /\ msJob'.at = "close" /\ msJob'.failed = TRUE /\ msJob'.loud = loud /\ msJob'.selected = sel
    BY <1>8, <1>15 DEF MsJobs
  <2>2. msTyped'
    BY <1>4, <1>5, <1>13, <1>15, <2>1 DEF msTyped
  <2>3. msJournals' /\ AddressJournalled'
    BY <1>3, <1>15 DEF msIInv, msJournals, AddressJournalled, msTurned
  <2>4. msSelects' /\ msDue' /\ msFound'
    BY <1>3, <1>7, <2>1 DEF msSelects, msDue, msFound
  <2> QED BY <1>14, <2>1, <2>2, <2>3, <2>4 DEF msIInv
<1>16. CASE /\ ~refused(c, targets)
            /\ msOrig' = orig
            /\ msDisk' = IF added(c, targets) = {} THEN msDisk ELSE [cfg |-> c, err |-> msErr, orig |-> orig]
            /\ msJob' = [job EXCEPT !.at = "write", !.want = want, !.todo = writes(want, loud),
                                    !.before = msAddr, !.skew = msSkew]
  <2>1. c.on => targets \subseteq msHere
    BY <1>16 DEF refused
  <2>2. orig = [i \in MsIfaces |-> IF i \in added(c, targets) THEN msAddr[i] ELSE msOrig[i]]
    BY <1>1 DEF journalled
  <2>3. \A i \in MsIfaces : i \in added(c, targets) => msOrig[i] = msNone /\ orig[i] = msOwn(i)
    <3> TAKE i \in MsIfaces
    <3> HAVE i \in added(c, targets)
    <3>1. i \in msHere /\ msOrig[i] = msNone
      BY <2>1 DEF added
    <3>2. msAddr[i] = msOwn(i)
      BY <1>11, <1>12, <3>1 DEF msTurned
    <3> QED BY <2>2, <3>1, <3>2
  <2>4. \A i \in MsIfaces : i \notin added(c, targets) => orig[i] = msOrig[i]
    BY <2>2
  <2>5. orig \in MsMaps
    BY <1>4, <2>2 DEF MsMaps
  <2>6. \A i \in MsIfaces : orig[i] \in {msNone, msOwn(i)} /\ (msOrig[i] # msNone => orig[i] = msOrig[i])
    BY <1>10, <2>3, <2>4
  <2>7. \A i \in sel : orig[i] = msOwn(i)
    <3> TAKE i \in sel
    <3>1. i \in MsIfaces /\ c.on /\ i \in targets
      BY <1>1, <1>6
    <3> QED BY <1>10, <2>3, <2>6, <3>1 DEF added
  <2>8. want \in MsMaps /\ \A i \in MsIfaces : i \notin sel => want[i] = orig[i]
    <3>1. want = [i \in MsIfaces |-> IF c.on /\ i \in targets THEN c.mac ELSE orig[i]]
      BY <1>1 DEF desired
    <3>2. c.mac \in MsMacs
      BY DEF MsConfigs, MsMacs
    <3> QED BY <1>1, <2>5, <3>1, <3>2 DEF MsMaps
  <2>9. msDisk' \in [cfg : MsConfigs, err : BOOLEAN, orig : MsMaps]
        /\ \A i \in MsIfaces : msDisk'.orig[i] \in {msNone, msOwn(i)} /\ (orig[i] # msNone => msDisk'.orig[i] = msOwn(i))
    <3>1. CASE added(c, targets) = {}
      BY <1>4, <1>10, <1>16, <2>4, <3>1
    <3>2. CASE added(c, targets) # {}
      <4>1. msDisk' = [cfg |-> c, err |-> msErr, orig |-> orig]
        BY <1>16, <3>2
      <4>2. msDisk'.orig = orig
        BY <4>1
      <4> QED BY <1>4, <2>5, <2>6, <4>1, <4>2
    <3> QED BY <3>1, <3>2
  <2>10. writes(want, loud) \subseteq msHere
    BY DEF writes
  <2>11. /\ msJob' \in MsJobs /\ msJob'.at = "write" /\ msJob'.loud = loud /\ msJob'.selected = sel
         /\ msJob'.want = want /\ msJob'.todo = writes(want, loud) /\ msJob'.before = msAddr /\ msJob'.skew = msSkew
         /\ msJob'.changed = {} /\ msJob'.lost = FALSE
    <3>1. PICK todo : todo = writes(want, loud)
      OBVIOUS
    <3>2. todo \in SUBSET MsIfaces
      BY <1>4, <2>10, <3>1
    <3>3. msJob' = [job EXCEPT !.at = "write", !.want = want, !.todo = todo, !.before = msAddr, !.skew = msSkew]
      BY <1>16, <3>1
    <3> QED BY <1>4, <1>8, <2>8, <3>1, <3>2, <3>3 DEF MsJobs
  <2>12. msTyped'
    BY <1>5, <1>13, <1>16, <2>5, <2>9, <2>11 DEF msTyped
  <2>13. \A i \in msHere : msTurned(i) => orig[i] = msOwn(i)
    BY <1>4, <1>11, <1>12, <2>6
  <2>14. msJournals'
    <3>1. \A i \in MsIfaces : msOrig'[i] \in {msNone, msOwn(i)} /\ msDisk'.orig[i] \in {msNone, msOwn(i)}
                              /\ (msOrig'[i] # msNone => msDisk'.orig[i] = msOwn(i))
      BY <1>16, <2>6, <2>9
    <3>2. \A i \in msHere' : msTurned(i)' => msOrig'[i] = msOwn(i)
      BY <1>3, <1>4, <1>9, <1>16, <2>13
    <3> QED BY <3>1, <3>2 DEF msJournals, msOwn, msNone
  <2>15. AddressJournalled'
    <3>1. \A i \in msHere : msTurned(i) => msDisk'.orig[i] = msOwn(i)
      BY <1>4, <1>12, <2>9, <2>13
    <3> QED BY <1>3, <3>1 DEF AddressJournalled, msTurned, msOwn
  <2>16. msSelects'
    BY <1>3, <1>7, <2>11 DEF msSelects
  <2>17. msDue'
    <3>1. \A i \in msHere \ sel : msTurned(i) => i \in writes(want, loud)
      <4> TAKE i \in msHere \ sel
      <4> HAVE msTurned(i)
      <4>1. want[i] = msOwn(i) /\ want[i] # msNone
        BY <1>4, <1>12, <2>8, <2>13
      <4> QED BY <4>1 DEF msTurned, writes
    <3>2. \A i \in writes(want, loud) \ sel : want[i] = msOwn(i)
      <4> TAKE i \in writes(want, loud) \ sel
      <4>1. i \in MsIfaces /\ want[i] # msNone /\ want[i] = orig[i]
        BY <1>4, <2>8 DEF writes
      <4> QED BY <2>6, <4>1
    <3>3. \A i \in msHere' \ msJob'.selected : msTurned(i)' => i \in msJob'.todo
      BY <1>3, <1>4, <1>9, <2>11, <3>1
    <3>4. \A i \in msJob'.todo \ msJob'.selected : msJob'.want[i] = msOwn(i)
      BY <2>11, <3>2
    <3> QED BY <2>11, <3>3, <3>4 DEF msDue, msOwn
  <2>18. msFound'
    <3>0. ASSUME NEW i \in writes(want, loud) PROVE orig[i] = msOwn(i)
      <4>1. i \in MsIfaces /\ want[i] # msNone
        BY <1>4, <2>10 DEF writes
      <4> QED BY <2>6, <2>7, <2>8, <4>1
    <3>1. \A i \in msJob'.todo \cup msJob'.changed : msOrig'[i] = msOwn(i)
      BY <1>16, <2>11, <3>0
    <3>2. \A i \in msHere' \ msJob'.changed :
             msAddr'[i] \in {msJob'.before[i], msOwn(i)} /\ (i \in msSkew' => i \in msJob'.skew)
      BY <1>3, <2>11
    <3> QED BY <3>1, <3>2 DEF msFound, msOwn
  <2> QED BY <1>14, <2>11, <2>12, <2>14, <2>15, <2>16, <2>17, <2>18 DEF msIInv
<1> QED BY <1>3, <1>15, <1>16

-----------------------------------------------------------------------------
\* A command touches one bridge; as that is in the journal, the journals stay right.
LEMMA MsCommand ==
    ASSUME msIInv, NEW i \in MsIfaces, NEW mac \in MsMacs, msSet(i, mac) \/ msSetFails(i, mac),
           msUp, msOrig[i] = msOwn(i), UNCHANGED <<msOrig, msDisk, msHere, msUp>>
    PROVE  /\ msAddr' \in MsMaps /\ msSkew' \in SUBSET MsIfaces /\ msFault' \in 0..MsFaults
           /\ \A j \in MsIfaces \ {i} : msAddr'[j] = msAddr[j] /\ (j \in msSkew' <=> j \in msSkew)
           /\ msSet(i, mac) => msAddr'[i] = mac /\ i \notin msSkew'
           /\ msJournals' /\ AddressJournalled'
<1> USE MsAssumption
<1>1. msTyped /\ msAddr \in MsMaps /\ msSkew \in SUBSET MsIfaces /\ msHere \in SUBSET MsIfaces
  BY DEF msIInv, msTyped
<1>2. msFault' \in 0..MsFaults
  BY <1>1, MsCounts DEF msSet, msSetFails
<1>3. PICK a \in MsMacs : msAddr' = [msAddr EXCEPT ![i] = a] /\ (msSet(i, mac) => a = mac)
  <2>1. msAddr[i] \in MsMacs /\ msAddr = [msAddr EXCEPT ![i] = msAddr[i]]
    BY <1>1 DEF MsMaps
  <2>2. CASE msSet(i, mac)
    BY <2>2 DEF msSet
  <2>3. CASE ~msSet(i, mac) /\ msSetFails(i, mac)
    BY <2>1, <2>3 DEF msSetFails
  <2> QED BY <2>2, <2>3
<1>4. msSkew' \in {msSkew, msSkew \ {i}, msSkew \cup {i}} /\ (msSet(i, mac) => msSkew' = msSkew \ {i})
  BY DEF msSet, msSetFails
<1>5. msAddr' \in MsMaps /\ msSkew' \in SUBSET MsIfaces
  BY <1>1, <1>3, <1>4 DEF MsMaps
<1>6. \A j \in MsIfaces \ {i} : msAddr'[j] = msAddr[j] /\ (j \in msSkew' <=> j \in msSkew)
  BY <1>1, <1>3, <1>4 DEF MsMaps
<1>7. msSet(i, mac) => msAddr'[i] = mac /\ i \notin msSkew'
  BY <1>1, <1>3, <1>4 DEF MsMaps
<1>8. msDisk.orig[i] = msOwn(i)
  BY DEF msIInv, msJournals, msOwn, msNone
<1>9. \A j \in msHere : msTurned(j)' => msOrig[j] = msOwn(j) /\ msDisk.orig[j] = msOwn(j)
  BY <1>1, <1>6, <1>8 DEF msIInv, msJournals, AddressJournalled, msTurned, msOwn
<1>10. msJournals' /\ AddressJournalled'
  BY <1>9 DEF msIInv, msJournals, AddressJournalled, msTurned, msOwn
<1> QED BY <1>2, <1>5, <1>6, <1>7, <1>10

\* A write puts a bridge right, or the job turns to its undo.
LEMMA MsWrites == ASSUME msIInv, msWrite PROVE msIInv'
<1> USE MsAssumption
<1>1. msUp /\ msJob.at = "write" /\ UNCHANGED <<msCfg, msErr, msOrig, msDisk, msHere, msLoop, msUp, msOp>>
  BY DEF msWrite
<1>2. PICK i \in msJob.todo :
        \/ /\ msSet(i, msJob.want[i])
           /\ msJob' = [msJob EXCEPT !.todo = @ \ {i}, !.changed = @ \cup {i}]
        \/ /\ msSetFails(i, msJob.want[i])
           /\ msJob' = [msJob EXCEPT !.at = "undo", !.todo = {}, !.failed = TRUE, !.changed = @ \cup {i}]
  BY DEF msWrite
<1>3. msTyped /\ msJob \in MsJobs /\ msHere \in SUBSET MsIfaces
  BY DEF msIInv, msTyped
<1>4. i \in MsIfaces /\ msJob.want[i] \in MsMacs /\ msOrig[i] = msOwn(i)
  BY <1>1, <1>2, <1>3 DEF MsJobs, MsMaps, msIInv, msFound
<1>5. /\ msAddr' \in MsMaps /\ msSkew' \in SUBSET MsIfaces /\ msFault' \in 0..MsFaults
      /\ \A j \in MsIfaces \ {i} : msAddr'[j] = msAddr[j] /\ (j \in msSkew' <=> j \in msSkew)
      /\ msSet(i, msJob.want[i]) => msAddr'[i] = msJob.want[i] /\ i \notin msSkew'
      /\ msJournals' /\ AddressJournalled'
  BY <1>1, <1>2, <1>4, MsCommand
<1>6. msJob' \in MsJobs /\ msJob'.at \in {"write", "undo"} /\ msJob'.loud = msJob.loud /\ msJob'.selected = msJob.selected
      /\ msJob'.want = msJob.want /\ msJob'.before = msJob.before /\ msJob'.skew = msJob.skew /\ msJob'.lost = msJob.lost
      /\ msJob'.changed = msJob.changed \cup {i} /\ msJob'.todo \in {{}, msJob.todo \ {i}}
      /\ (msJob'.at = "undo" => msJob'.failed)
      /\ (msJob'.at = "write" => msJob'.todo = msJob.todo \ {i} /\ msSet(i, msJob.want[i]))
  <2>1. CASE msSet(i, msJob.want[i]) /\ msJob' = [msJob EXCEPT !.todo = @ \ {i}, !.changed = @ \cup {i}]
    BY <1>1, <1>3, <1>4, <2>1 DEF MsJobs
  <2>2. CASE msJob' = [msJob EXCEPT !.at = "undo", !.todo = {}, !.failed = TRUE, !.changed = @ \cup {i}]
    <3>1. TRUE \in BOOLEAN
      BY Zenon
    <3>2. msJob'.failed = TRUE /\ msJob'.at = "undo" /\ msJob'.todo = {} /\ msJob'.changed = msJob.changed \cup {i}
      BY <1>3, <2>2 DEF MsJobs
    <3> QED BY <1>3, <1>4, <2>2, <3>1, <3>2 DEF MsJobs
  <2> QED BY <1>2, <2>1, <2>2
<1> HIDE DEF msWrite
<1>7. msTyped'
  BY <1>1, <1>3, <1>5, <1>6 DEF msTyped
<1>8. msSelects' /\ msLoops' /\ UnselectedIsRestored'
  BY <1>1, <1>6 DEF msIInv, msSelects, msLoops, UnselectedIsRestored
<1>9. msDue'
  <2>1. ASSUME msJob'.at = "write" PROVE \A j \in msHere \ msJob.selected : msTurned(j)' => j \in msJob.todo \ {i}
    <3>1. \A j \in msHere \ msJob.selected : msTurned(j) => j \in msJob.todo
      BY <1>1 DEF msIInv, msDue
    <3>2. i \notin msJob.selected => ~msTurned(i)'
      BY <1>1, <1>2, <1>5, <1>6, <2>1 DEF msIInv, msDue, msTurned, msOwn
    <3> QED BY <1>3, <1>5, <3>1, <3>2 DEF msTurned
  <2> QED BY <1>1, <1>6, <2>1 DEF msIInv, msDue, msTurned, msOwn
<1>10. msFound'
  BY <1>1, <1>2, <1>3, <1>5, <1>6 DEF msIInv, msFound, msOwn
<1> QED BY <1>5, <1>7, <1>8, <1>9, <1>10 DEF msIInv

\* An undo puts a bridge back as the job found it.
LEMMA MsUndoes == ASSUME msIInv, msUndo PROVE msIInv'
<1> USE MsAssumption
<1>1. msUp /\ msJob.at = "undo" /\ UNCHANGED <<msCfg, msErr, msOrig, msDisk, msHere, msLoop, msUp, msOp>>
  BY DEF msUndo
<1>2. msTyped /\ msJob \in MsJobs /\ msHere \in SUBSET MsIfaces /\ msJob.failed
  BY <1>1 DEF msIInv, msTyped, msDue
<1>3. CASE msJob' = [msJob EXCEPT !.at = "close"] /\ msWorks /\ UNCHANGED <<msAddr, msSkew>>
  <2>1. msJob' \in MsJobs /\ msJob'.at = "close" /\ msJob'.loud = msJob.loud /\ msJob'.selected = msJob.selected
        /\ msJob'.failed
    BY <1>2, <1>3 DEF MsJobs
  <2>2. msTyped'
    BY <1>1, <1>2, <1>3, <2>1 DEF msTyped, msWorks
  <2>3. msJournals' /\ AddressJournalled'
    BY <1>1, <1>3 DEF msIInv, msJournals, AddressJournalled, msTurned
  <2>4. msSelects' /\ msLoops' /\ UnselectedIsRestored' /\ msDue' /\ msFound'
    BY <1>1, <2>1 DEF msIInv, msSelects, msLoops, UnselectedIsRestored, msDue, msFound
  <2> QED BY <2>2, <2>3, <2>4 DEF msIInv
<1>4. CASE \E i \in msJob.changed :
             \/ msSet(i, msJob.before[i]) /\ msJob' = [msJob EXCEPT !.changed = @ \ {i}]
             \/ msSetFails(i, msJob.before[i]) /\ msJob' = [msJob EXCEPT !.changed = @ \ {i}, !.lost = TRUE]
  <2>1. PICK i \in msJob.changed :
             \/ msSet(i, msJob.before[i]) /\ msJob' = [msJob EXCEPT !.changed = @ \ {i}]
             \/ msSetFails(i, msJob.before[i]) /\ msJob' = [msJob EXCEPT !.changed = @ \ {i}, !.lost = TRUE]
    BY <1>4
  <2>2. i \in MsIfaces /\ msJob.before[i] \in MsMacs /\ msOrig[i] = msOwn(i)
    BY <1>1, <1>2 DEF MsJobs, MsMaps, msIInv, msFound
  <2>3. /\ msAddr' \in MsMaps /\ msSkew' \in SUBSET MsIfaces /\ msFault' \in 0..MsFaults
        /\ \A j \in MsIfaces \ {i} : msAddr'[j] = msAddr[j] /\ (j \in msSkew' <=> j \in msSkew)
        /\ msSet(i, msJob.before[i]) => msAddr'[i] = msJob.before[i] /\ i \notin msSkew'
        /\ msJournals' /\ AddressJournalled'
    BY <1>1, <2>1, <2>2, MsCommand
  <2>4. msJob' \in MsJobs /\ msJob'.at = "undo" /\ msJob'.loud = msJob.loud /\ msJob'.selected = msJob.selected
        /\ msJob'.before = msJob.before /\ msJob'.skew = msJob.skew /\ msJob'.failed = msJob.failed
        /\ msJob'.changed = msJob.changed \ {i} /\ msJob'.todo = msJob.todo
        /\ (~msJob'.lost => ~msJob.lost /\ msSet(i, msJob.before[i]))
    <3>1. TRUE \in BOOLEAN
      BY Zenon
    <3> QED BY <1>1, <1>2, <2>1, <3>1, ZenonT(60) DEF MsJobs
  <2>5. msTyped'
    BY <1>1, <1>2, <2>3, <2>4 DEF msTyped
  <2>6. msSelects' /\ msLoops' /\ UnselectedIsRestored' /\ msDue'
    BY <1>1, <1>2, <2>4 DEF msIInv, msSelects, msLoops, UnselectedIsRestored, msDue
  <2>7. msFound'
    BY <1>1, <1>2, <2>3, <2>4 DEF msIInv, msFound, msOwn
  <2> QED BY <2>3, <2>5, <2>6, <2>7 DEF msIInv
<1> QED BY <1>3, <1>4 DEF msUndo

\* What is forgotten has its own address.
LEMMA MsForgets == ASSUME msIInv, msForget PROVE msIInv'
<1> USE MsAssumption
<1>1. msUp /\ msJob.at = "write" /\ msJob.todo = {} /\ msOrig' = forgotten(msOrig, msJob.selected)
      /\ UNCHANGED <<msCfg, msErr, msAddr, msSkew, msHere, msLoop, msUp, msOp>>
  BY DEF msForget
<1>2. msTyped /\ msJob \in MsJobs /\ msHere \in SUBSET MsIfaces /\ msCfg \in MsConfigs /\ msErr \in BOOLEAN
      /\ msOrig \in MsMaps /\ msDisk \in [cfg : MsConfigs, err : BOOLEAN, orig : MsMaps]
  BY DEF msIInv, msTyped
<1>3. msFault' \in 0..MsFaults
  BY <1>2, MsCounts DEF msForget
<1>4. /\ msDisk' \in {msDisk, [cfg |-> msCfg, err |-> msErr, orig |-> msOrig']}
      /\ msJob' = [msJob EXCEPT !.at = "close"] \/ msJob' = [msJob EXCEPT !.at = "close", !.failed = TRUE]
  BY DEF msForget
<1> HIDE DEF msForget
<1>5. msJob' \in MsJobs /\ msJob'.at = "close" /\ msJob'.loud = msJob.loud /\ msJob'.selected = msJob.selected
  <2>1. TRUE \in BOOLEAN
    BY Zenon
  <2>2. CASE msJob' = [msJob EXCEPT !.at = "close"]
    BY <1>2, <2>2 DEF MsJobs
  <2>3. CASE msJob' = [msJob EXCEPT !.at = "close", !.failed = TRUE]
    BY <1>2, <2>1, <2>3 DEF MsJobs
  <2> QED BY <1>4, <2>2, <2>3
<1>6. msOrig' \in MsMaps /\ \A i \in MsIfaces : msOrig'[i] = IF i \in msJob.selected THEN msOrig[i] ELSE msNone
  <2>1. msOrig' = [i \in MsIfaces |-> IF i \in msJob.selected THEN msOrig[i] ELSE msNone]
    BY <1>1 DEF forgotten
  <2> QED BY <1>2, <2>1 DEF MsMaps, MsMacs
<1>7. msDisk' \in [cfg : MsConfigs, err : BOOLEAN, orig : MsMaps] /\ msDisk'.orig \in {msDisk.orig, msOrig'}
  BY <1>2, <1>4, <1>6
<1>8. msTyped'
  BY <1>1, <1>2, <1>3, <1>5, <1>6, <1>7 DEF msTyped
<1>9. \A i \in msHere : msTurned(i) => msOrig'[i] = msOwn(i)
  BY <1>1, <1>2, <1>6 DEF msIInv, msDue, msJournals
<1>10. \A i \in MsIfaces : msOrig[i] \in {msNone, msOwn(i)} /\ msDisk.orig[i] \in {msNone, msOwn(i)}
                          /\ (msOrig[i] # msNone => msDisk.orig[i] = msOwn(i)) /\ msOwn(i) # msNone
  BY <1>1 DEF msIInv, msJournals, msOwn, msNone
<1>11. \A i \in MsIfaces : msOrig'[i] \in {msNone, msOwn(i)} /\ msDisk'.orig[i] \in {msNone, msOwn(i)}
                          /\ (msOrig'[i] # msNone => msDisk'.orig[i] = msOwn(i))
  BY <1>6, <1>7, <1>10
<1>12. \A i \in msHere : msTurned(i) => msDisk'.orig[i] = msOwn(i)
  BY <1>2, <1>9, <1>10, <1>11
<1>13. msJournals' /\ AddressJournalled'
  BY <1>1, <1>9, <1>11, <1>12 DEF msJournals, AddressJournalled, msTurned, msOwn, msNone
<1>14. msSelects' /\ msLoops' /\ UnselectedIsRestored' /\ msFound'
  BY <1>1, <1>5 DEF msIInv, msSelects, msLoops, UnselectedIsRestored, msFound
<1>15. msDue'
  BY <1>1, <1>5 DEF msIInv, msDue, msTurned, msOwn
<1> QED BY <1>8, <1>13, <1>14, <1>15 DEF msIInv

\* A job that ends without an error has put back all that it does not select.
LEMMA MsCloses == ASSUME msIInv, msClose PROVE msIInv'
<1> USE MsAssumption
<1>1. msUp /\ msJob.at = "close" /\ msErr' = msJob.failed
      /\ msLoop' = (IF msJob.loud THEN looping(msCfg.on, msJob.failed) ELSE msLoop)
      /\ msJob' = msIdle /\ UNCHANGED <<msCfg, msOrig, msAddr, msSkew, msHere, msUp, msOp>>
  BY DEF msClose
<1>2. msTyped /\ msJob \in MsJobs /\ msHere \in SUBSET MsIfaces /\ msCfg \in MsConfigs /\ msErr' \in BOOLEAN
      /\ msLoop \in BOOLEAN /\ msOrig \in MsMaps /\ msDisk \in [cfg : MsConfigs, err : BOOLEAN, orig : MsMaps]
  BY <1>1 DEF msIInv, msTyped, MsJobs
<1>3. msFault' \in 0..MsFaults
  BY <1>2, MsCounts DEF msClose
<1>4. msDisk' \in {msDisk, [cfg |-> msCfg, err |-> msErr', orig |-> msOrig]}
  BY DEF msClose
<1> HIDE DEF msClose
<1>5. msDisk' \in [cfg : MsConfigs, err : BOOLEAN, orig : MsMaps] /\ msDisk'.orig \in {msDisk.orig, msOrig}
  BY <1>2, <1>4
<1>6. msLoop' \in BOOLEAN
  BY <1>1, <1>2 DEF looping, MsConfigs
<1>7. msTyped'
  BY <1>1, <1>2, <1>3, <1>5, <1>6, MsIdles DEF msTyped
<1>8. \A i \in MsIfaces : msOrig[i] \in {msNone, msOwn(i)} /\ msDisk'.orig[i] \in {msNone, msOwn(i)}
                          /\ (msOrig[i] # msNone => msDisk'.orig[i] = msOwn(i)) /\ msOwn(i) # msNone
  BY <1>1, <1>5 DEF msIInv, msJournals, msOwn, msNone
<1>9. \A i \in msHere : msTurned(i) => msOrig[i] = msOwn(i) /\ msDisk'.orig[i] = msOwn(i)
  BY <1>1, <1>2, <1>8 DEF msIInv, msJournals
<1>10. msJournals' /\ AddressJournalled'
  BY <1>1, <1>8, <1>9 DEF msJournals, AddressJournalled, msTurned, msOwn, msNone
<1>11. msSelects' /\ msDue' /\ msFound'
  BY <1>1, MsIdles DEF msSelects, msDue, msFound
<1>12. msLoops'
  BY <1>1, MsIdles DEF msIInv, msLoops, looping
<1>13. UnselectedIsRestored'
  BY <1>1 DEF msIInv, msSelects, msDue, UnselectedIsRestored, msTurned, msOwn
<1> QED BY <1>7, <1>10, <1>11, <1>12, <1>13 DEF msIInv

\* What a crash leaves is on disk.
LEMMA MsCrashes == ASSUME msIInv, msCrash PROVE msIInv'
<1> USE MsAssumption
<1>1. msUp' = FALSE /\ msJob' = msIdle /\ msLoop' = FALSE
      /\ UNCHANGED <<msCfg, msErr, msOrig, msDisk, msAddr, msSkew, msHere, msOp>>
  BY DEF msCrash
<1>2. msTyped
  BY DEF msIInv
<1>3. msFault' \in 0..MsFaults
  BY <1>2, MsCounts DEF msCrash
<1>4. FALSE \in BOOLEAN
  BY Zenon
<1>5. msTyped'
  BY <1>1, <1>2, <1>3, <1>4, MsIdles DEF msTyped
<1>6. msJournals' /\ AddressJournalled'
  BY <1>1 DEF msIInv, msJournals, AddressJournalled, msOwn
<1>7. msSelects' /\ msDue' /\ msFound' /\ msLoops' /\ UnselectedIsRestored'
  BY <1>1, MsIdles DEF msSelects, msDue, msFound, msLoops, UnselectedIsRestored
<1> QED BY <1>5, <1>6, <1>7 DEF msIInv

\* A start knows what the disk knows.
LEMMA MsBoots == ASSUME msIInv, msBoot PROVE msIInv'
<1> USE MsAssumption
<1>1. msUp' = TRUE /\ msCfg' = msDisk.cfg /\ msErr' = msDisk.err /\ msOrig' = msDisk.orig
      /\ msJob' = [msIdle EXCEPT !.at = "boot"] /\ UNCHANGED <<msDisk, msAddr, msSkew, msHere, msLoop, msOp>>
  BY DEF msBoot
<1>2. msTyped
  BY DEF msIInv
<1>3. msFault' \in 0..MsFaults
  BY <1>2, MsCounts DEF msBoot
<1>4. TRUE \in BOOLEAN
  BY Zenon
<1>5. msTyped'
  BY <1>1, <1>2, <1>3, <1>4, MsIdles DEF msTyped
<1>6. msJournals' /\ AddressJournalled'
  BY <1>1 DEF msIInv, msJournals, AddressJournalled, msTurned, msOwn, msNone
<1>7. msSelects' /\ msDue' /\ msFound' /\ msLoops' /\ UnselectedIsRestored'
  BY <1>1, MsIdles DEF msSelects, msDue, msFound, msLoops, UnselectedIsRestored
<1> QED BY <1>5, <1>6, <1>7 DEF msIInv

\* A bridge made anew is as it was made.
LEMMA MsComesAndGoesKeeps == ASSUME msIInv, msComesAndGoes PROVE msIInv'
<1> USE MsAssumption
<1>1. PICK i \in MsIfaces :
        /\ msFails
        /\ msHere' = (msHere \ {i}) \cup ({i} \ msHere)
        /\ msAddr' = [msAddr EXCEPT ![i] = IF i \in msHere THEN @ ELSE msOwn(i)]
        /\ msSkew' = msSkew \ {i}
        /\ UNCHANGED <<msCfg, msErr, msOrig, msDisk, msLoop, msJob, msUp, msOp>>
  BY DEF msComesAndGoes
<1>2. msTyped /\ msAddr \in MsMaps /\ msSkew \in SUBSET MsIfaces /\ msHere \in SUBSET MsIfaces
  BY DEF msIInv, msTyped
<1>3. msFault' \in 0..MsFaults
  BY <1>1, <1>2, MsCounts
<1>4. msAddr' \in MsMaps /\ msSkew' \in SUBSET MsIfaces /\ msHere' \in SUBSET MsIfaces
  BY <1>1, <1>2 DEF MsMaps, MsMacs, msOwn
<1>5. /\ \A j \in msHere' \ {i} : j \in msHere /\ msAddr'[j] = msAddr[j] /\ (j \in msSkew' <=> j \in msSkew)
      /\ i \in msHere' => msAddr'[i] = msOwn(i) /\ i \notin msSkew'
  BY <1>1, <1>2 DEF MsMaps
<1>6. msTyped'
  BY <1>1, <1>2, <1>3, <1>4 DEF msTyped
<1>7. \A j \in msHere' : msTurned(j)' => j \in msHere /\ msTurned(j)
  BY <1>5 DEF msTurned, msOwn
<1>8. msJournals'
  BY <1>1, <1>7 DEF msIInv, msJournals, msOwn
<1>9. AddressJournalled'
  BY <1>1, <1>7 DEF msIInv, AddressJournalled, msTurned, msOwn
<1>10. msSelects' /\ msLoops'
  BY <1>1 DEF msIInv, msSelects, msLoops
<1>11. msDue'
  BY <1>1, <1>7 DEF msIInv, msDue, msOwn
<1>12. UnselectedIsRestored'
  BY <1>1, <1>7 DEF msIInv, UnselectedIsRestored, msTurned, msOwn
<1>13. msFound'
  BY <1>1, <1>5 DEF msIInv, msFound, msOwn
<1> QED BY <1>6, <1>8, <1>9, <1>10, <1>11, <1>12, <1>13 DEF msIInv

\* What is asked for is a configuration.
LEMMA MsPrepares ==
    ASSUME NEW c \in MsConfigs PROVE prepared(c) \subseteq MsConfigs
<1>1. ASSUME NEW m \in MsFakes PROVE [c EXCEPT !.mac = m] \in MsConfigs
  BY DEF MsConfigs
<1> QED BY <1>1 DEF prepared

\* Every step keeps the invariant.
LEMMA msStep == ASSUME msIInv, [msNext]_msVars PROVE msIInv'
<1> USE MsAssumption
<1>1. msTyped /\ msCfg \in MsConfigs /\ TRUE \in BOOLEAN /\ FALSE \in BOOLEAN
  <2>1. TRUE \in BOOLEAN /\ FALSE \in BOOLEAN
    BY Zenon
  <2> QED BY <2>1 DEF msIInv, msTyped
<1>2. msRequest => msUp /\ msOp' \in 0..MsOps
  BY <1>1 DEF msRequest, msTyped
<1>3. UNCHANGED msOp => msOp' \in 0..MsOps
  BY <1>1 DEF msTyped
<1>4. ASSUME msSaveConfig PROVE msIInv'
  <2>1. PICK on \in BOOLEAN, m \in MsFakes \cup {msNone}, ifs \in {{}} \cup {{i} : i \in MsIfaces} :
            \E c \in prepared([on |-> on, mac |-> m, ifs |-> ifs]) : msRequest /\ msBegin(c, TRUE)
    BY <1>4 DEF msSaveConfig
  <2>2. PICK c \in prepared([on |-> on, mac |-> m, ifs |-> ifs]) : msRequest /\ msBegin(c, TRUE)
    BY <2>1
  <2>3. [on |-> on, mac |-> m, ifs |-> ifs] \in MsConfigs
    BY DEF MsConfigs
  <2>4. c \in MsConfigs
    BY <2>2, <2>3, MsPrepares
  <2> QED BY <1>1, <1>2, <2>2, <2>4, MsBegin
<1>5. ASSUME msSetEnabled PROVE msIInv'
  <2>1. PICK on \in BOOLEAN : \E c \in prepared([msCfg EXCEPT !.on = on]) : msRequest /\ msBegin(c, TRUE)
    BY <1>5 DEF msSetEnabled
  <2>2. PICK c \in prepared([msCfg EXCEPT !.on = on]) : msRequest /\ msBegin(c, TRUE)
    BY <2>1
  <2>3. [msCfg EXCEPT !.on = on] \in MsConfigs
    BY <1>1 DEF MsConfigs
  <2>4. c \in MsConfigs
    BY <2>2, <2>3, MsPrepares
  <2> QED BY <1>1, <1>2, <2>2, <2>4, MsBegin
<1>6. ASSUME msApply PROVE msIInv'
  <2>1. msUp /\ UNCHANGED msOp /\ \E c \in prepared(msCfg) : msBegin(c, TRUE)
    BY <1>6 DEF msApply
  <2>2. PICK c \in prepared(msCfg) : msBegin(c, TRUE)
    BY <2>1
  <2>3. c \in MsConfigs
    BY <1>1, <2>2, MsPrepares
  <2> QED BY <1>1, <1>3, <2>1, <2>2, <2>3, MsBegin
<1>7. ASSUME msRefresh PROVE msIInv'
  BY <1>1, <1>3, <1>7, MsBegin DEF msRefresh
<1>8. CASE UNCHANGED msVars
  <2>1. UNCHANGED <<msCfg, msErr, msOrig, msDisk, msAddr, msSkew, msHere, msLoop, msJob, msUp, msOp, msFault>>
    BY <1>8 DEF msVars
  <2>2. msTyped' /\ msJournals' /\ AddressJournalled'
    BY <2>1 DEF msIInv, msTyped, msJournals, AddressJournalled, msTurned, msOwn
  <2>3. msSelects' /\ msDue' /\ msFound' /\ msLoops' /\ UnselectedIsRestored'
    BY <2>1 DEF msIInv, msSelects, msDue, msFound, msLoops, UnselectedIsRestored, msTurned, msOwn
  <2> QED BY <2>2, <2>3 DEF msIInv
<1> QED BY <1>4, <1>5, <1>6, <1>7, <1>8, MsWrites, MsUndoes, MsForgets, MsCloses, MsCrashes, MsBoots,
           MsComesAndGoesKeeps DEF msNext

\* The invariant gives what the run checks.
LEMMA msIInvIsSafe == msIInv => AddressesSafe
<1> SUFFICES ASSUME msIInv PROVE AddressesSafe
  OBVIOUS
<1>1. AddressJournalled /\ UnselectedIsRestored
  BY DEF msIInv
<1>2. FailedIsUndone
  BY DEF msIInv, msFound, FailedIsUndone
<1>3. RefreshGoesOn
  BY DEF msIInv, msLoops, RefreshGoesOn
<1> QED BY <1>1, <1>2, <1>3 DEF AddressesSafe

\* Whatever command or save fails, wherever the process dies and whichever bridge comes or goes: a bridge that is not as
\* it was made is in the journal on disk, one the configuration does not select has its own address back once the panel
\* shows no error, a failed attempt that could be undone is undone, and the loop runs while the service is on.
THEOREM SpoofIsSafe == msSpec => []AddressesSafe
BY msInitIInv, msStep, msIInvIsSafe, PTL DEF msSpec

(***************************************************************************)
(* DnsBinding                                                              *)
(***************************************************************************)
dbSpec == dbInit /\ [][dbNext]_dbVars

\* Snapshots, and what the variables hold.
DbFiles == [exists : BOOLEAN, pending : BOOLEAN, endpoint : Endpoints \cup {""},
            original : Values, applied : Values, before : Values]
DbTxs == [stage : {"idle", "pending", "replace", "guard network", "commit network", "guard dhcp", "commit dhcp",
                   "reload", "verify", "finish", "rollback"},
          rolling : BOOLEAN, restore : BOOLEAN, todo : SUBSET Managed, deleted : BOOLEAN, count : Nat,
          current : Values, desired : Values, before : Values, next : DbFiles, previous : DbFiles]
DbLists == [Options -> Seq(Words \cup {"other"})]
dbTyped ==
  /\ committed \in DbLists /\ work \in DbLists /\ Owned(committed) \in Values /\ Owned(work) \in Values
  /\ dirty \subseteq Options /\ live \in Values /\ original \in Values /\ edited \in BOOLEAN
  /\ file \in DbFiles /\ tx \in DbTxs /\ budget \in [{"failures", "crashes", "losses", "edits"} -> Nat]

\* What is not staged is committed.
dbStaged == \A k \in Options \ dirty : work[k] = committed[k]

\* The snapshot an operation leaves behind, once it has written one.
dbRuns == tx.stage \notin {"idle", "pending"}
dbFiled ==
  /\ tx.stage = "idle" => tx = dbIdle
  /\ tx.stage = "pending" => file = tx.previous
  /\ dbRuns => file = tx.next
  /\ file.pending => file.exists
  /\ tx.deleted => tx.todo # {}

\* An operation knows the values from before, and what they are to become.
dbPlanned ==
  tx.stage # "idle" =>
    /\ tx.next.exists /\ tx.next.pending /\ tx.next.before = tx.before
    /\ tx.previous.pending => tx.previous.exists
    /\ tx.previous.exists => Explained(tx.before, tx.previous) /\ tx.next.original = tx.previous.original
    /\ ~tx.previous.exists => tx.next.original = tx.before
    /\ tx.restore => tx.next.applied = tx.next.original
    /\ tx.stage \in {"pending", "rollback"} => ~tx.rolling
    /\ tx.desired = IF tx.rolling THEN tx.before ELSE tx.next.applied
    /\ tx.stage = "pending" => tx.current = tx.before

\* The snapshots keep what the user had; one that is not pending is the whole truth.
dbTruth(f) == IF f.exists THEN f.applied ELSE original
dbKept ==
  /\ file.exists => file.original = original
  /\ tx.stage # "idle" => /\ tx.next.original = original
                          /\ tx.previous.exists => tx.previous.original = original
                          /\ ~tx.previous.pending => tx.before = dbTruth(tx.previous)

\* Without a pending snapshot everything is settled.
dbSettled ==
  ~file.pending =>
    /\ Owned(committed) = dbTruth(file) /\ Owned(work) = dbTruth(file) /\ live = dbTruth(file)
    /\ dirty \cap Managed = {}

\* How far the operation has come.
DbPartial(value, goal, n) == Len(value) = n /\ n <= Len(goal) /\ \A i \in 1..n : value[i] = goal[i]
dbProgress ==
  /\ tx.stage = "pending" => Owned(work) = tx.before
  /\ tx.stage = "replace" =>
       \A k \in Managed :
         /\ k \notin tx.todo => work[k] = tx.desired[k]
         /\ k \in tx.todo =>
              IF k = FirstKey(tx.todo) /\ tx.deleted THEN DbPartial(work[k], tx.desired[k], tx.count)
              ELSE work[k] = tx.current[k]
         /\ k \in tx.todo /\ ~tx.deleted => tx.count = 0
  /\ tx.stage \in {"guard network", "commit network", "guard dhcp", "commit dhcp", "reload", "verify", "finish"} =>
       Owned(work) = tx.desired
  /\ tx.stage \in {"guard dhcp", "commit dhcp"} => "network.dns" \notin dirty
  /\ tx.stage \in {"reload", "verify", "finish"} => dirty \cap Managed = {}
  /\ tx.stage \in {"verify", "finish"} => live = tx.desired

\* What an operation has left half done is explained by the snapshot.
dbExplained == file.exists /\ (tx.stage # "idle" \/ budget["losses"] = 0) => Explained(Owned(work), file)
dbCurrent == tx.stage = "replace" => Explained(tx.current, tx.next)

\* The inductive invariant.
dbIInv ==
  /\ dbTyped /\ dbStaged /\ dbFiled /\ dbPlanned
  /\ ~edited => dbKept /\ dbSettled /\ dbProgress /\ dbExplained /\ dbCurrent

-----------------------------------------------------------------------------
\* No value, and an idle transaction.
LEMMA DbIdles ==
  /\ Absent \in Seq(Words) /\ AllAbsent \in Values /\ NoFile \in DbFiles /\ ~NoFile.exists /\ ~NoFile.pending
  /\ dbIdle \in DbTxs /\ dbIdle.stage = "idle" /\ dbIdle.deleted = FALSE /\ dbIdle.rolling = FALSE
  /\ dbIdle.restore = FALSE
<1>1. Absent \in Seq(Words) /\ AllAbsent \in Values
  BY DEF Absent, AllAbsent, Values
<1>2. FALSE \in BOOLEAN
  BY Zenon
<1>3. NoFile \in DbFiles /\ NoFile.exists = FALSE /\ NoFile.pending = FALSE
  BY <1>1, <1>2 DEF NoFile, DbFiles
<1>4. dbIdle \in DbTxs /\ dbIdle.stage = "idle" /\ dbIdle.deleted = FALSE /\ dbIdle.rolling = FALSE
      /\ dbIdle.restore = FALSE
  BY <1>1, <1>2, <1>3 DEF dbIdle, DbTxs
<1> QED BY <1>1, <1>3, <1>4

\* A fault is counted.
LEMMA DbSpends ==
  ASSUME budget \in [{"failures", "crashes", "losses", "edits"} -> Nat],
         NEW what \in {"failures", "crashes", "losses", "edits"}, NEW limit, Spend(what, limit)
  PROVE  /\ budget' \in [{"failures", "crashes", "losses", "edits"} -> Nat]
         /\ budget'["losses"] = 0 => budget["losses"] = 0
         /\ what = "losses" => budget'["losses"] # 0
<1>1. budget' = [budget EXCEPT ![what] = budget[what] + 1] /\ budget[what] \in Nat
  BY DEF Spend
<1> QED BY <1>1

\* The owned options.
LEMMA DbOwns ==
  ASSUME NEW f
  PROVE  DOMAIN Owned(f) = Managed /\ \A k \in Managed : Owned(f)[k] = f[k]
  BY DEF Owned

\* What a prefix is, entry by entry.
LEMMA DbPrefixes ==
  ASSUME NEW S, NEW s \in Seq(S), NEW t \in Seq(S), Len(s) <= Len(t), \A i \in 1..Len(s) : s[i] = t[i]
  PROVE  IsPrefix(s, t)
<1>1. PICK n : n = Len(s)
  OBVIOUS
<1>2. n \in Nat /\ n <= Len(t)
  BY <1>1
<1>3. SubSeq(s, 1, n) = SubSeq(t, 1, n)
  <2>1. SubSeq(s, 1, n) = [i \in 1..n |-> s[i]]
    BY <1>1, <1>2 DEF SubSeq
  <2>2. SubSeq(t, 1, n) = [i \in 1..n |-> t[i]]
    BY <1>1, <1>2 DEF SubSeq
  <2> QED BY <1>1, <2>1, <2>2
<1> QED BY <1>1, <1>2, <1>3 DEF IsPrefix

\* The values Apply writes.
LEMMA DbBinds ==
  ASSUME NEW e \in Endpoints, NEW current \in Values
  PROVE  Bound(e, current) \in Values
<1>1. ASSUME NEW servers \in Seq(Words) PROVE Conditional(servers) \in Seq(Words)
  <2>1. PICK kept : kept = {i \in DOMAIN servers : servers[i] = "conditional"}
    OBVIOUS
  <2>2. DOMAIN servers = 1..Len(servers) /\ Len(servers) \in Nat
    OBVIOUS
  <2>3. IsFiniteSet(DOMAIN servers)
    BY <2>2, FS_Interval
  <2>4. Cardinality(kept) \in Nat
    BY <2>1, <2>3, FS_Subset, FS_CardinalityType
  <2>5. PICK m : m = Cardinality(kept)
    OBVIOUS
  <2>6. Conditional(servers) = [n \in 1..m |-> "conditional"]
    BY <2>1, <2>5 DEF Conditional
  <2>7. [n \in 1..m |-> "conditional"] \in Seq(Words)
    BY <2>4, <2>5, IsASeq DEF Words
  <2> QED BY <2>6, <2>7
<1>2. <<e>> \in Seq(Words)
  BY DEF Words
<1>3. Conditional(current["dhcp.server"]) \in Seq(Words)
  BY <1>1 DEF Values, Managed
<1>4. PICK kept : kept = Conditional(current["dhcp.server"])
  OBVIOUS
<1>5. <<e>> \o kept \in Seq(Words)
  BY <1>2, <1>3, <1>4
<1>6. \A k \in Managed : Bound(e, current)[k] \in Seq(Words)
  BY <1>2, <1>4, <1>5 DEF Bound, Managed
<1>7. Bound(e, current) = [k \in Managed |-> Bound(e, current)[k]]
  BY DEF Bound
<1> QED BY <1>6, <1>7 DEF Values

\* The options are as the user left them, and nothing is staged.
LEMMA dbInitIInv == dbInit => dbIInv
<1> SUFFICES ASSUME dbInit PROVE dbIInv
  OBVIOUS
<1> USE DbAssumption DEF dbInit
<1>1. original \in Values /\ \A k \in Managed : original[k] \in Seq(Words)
  BY DEF Values
<1>2. \A k \in Options : committed[k] = IF k = Other THEN Absent ELSE original[k]
  OBVIOUS
<1>3. committed \in DbLists
  <2>1. \A k \in Options : committed[k] \in Seq(Words \cup {"other"})
    <3> TAKE k \in Options
    <3>1. CASE k = Other
      BY <1>2, <3>1 DEF Absent
    <3>2. CASE k # Other
      <4>1. original[k] \in Seq(Words)
        BY <1>1, <3>2 DEF Options
      <4> QED BY <1>2, <3>2, <4>1
    <3> QED BY <3>1, <3>2
  <2> QED BY <2>1 DEF DbLists
<1>4. Owned(committed) = original
  BY <1>1, <1>2 DEF Owned, Values, Managed, Options, Other
<1>5. FALSE \in BOOLEAN
  BY Zenon
<1>6. budget \in [{"failures", "crashes", "losses", "edits"} -> Nat]
  OBVIOUS
<1>7. dbTyped
  BY <1>1, <1>3, <1>4, <1>5, <1>6, DbIdles DEF dbTyped
<1>8. dbStaged /\ dbFiled /\ dbPlanned
  BY DbIdles DEF dbStaged, dbFiled, dbPlanned, dbRuns
<1>9. dbKept /\ dbSettled /\ dbProgress /\ dbExplained /\ dbCurrent
  BY <1>4, DbIdles DEF dbKept, dbSettled, dbTruth, dbProgress, dbExplained, dbCurrent
<1> QED BY <1>7, <1>8, <1>9 DEF dbIInv

-----------------------------------------------------------------------------
\* The fields of a transaction that goes on to another stage.
LEMMA DbMoves ==
  ASSUME tx \in DbTxs,
         NEW st \in {"replace", "guard network", "commit network", "guard dhcp", "commit dhcp", "reload", "verify",
                     "finish", "rollback"},
         tx' = [tx EXCEPT !.stage = st]
  PROVE  /\ tx' \in DbTxs /\ tx'.stage = st /\ tx'.rolling = tx.rolling /\ tx'.restore = tx.restore
         /\ tx'.todo = tx.todo /\ tx'.deleted = tx.deleted /\ tx'.count = tx.count /\ tx'.current = tx.current
         /\ tx'.desired = tx.desired /\ tx'.before = tx.before /\ tx'.next = tx.next /\ tx'.previous = tx.previous
  BY DEF DbTxs

\* An operation ends with nothing done, at any point.
LEMMA DbStays ==
  ASSUME dbIInv, tx' = dbIdle, UNCHANGED <<uci, live, file, history>>,
         budget' \in [{"failures", "crashes", "losses", "edits"} -> Nat], budget'["losses"] = 0 => budget["losses"] = 0
  PROVE  dbIInv'
<1>1. UNCHANGED <<committed, work, dirty, live, file, original, edited>>
  BY DEF uci, history
<1>2. dbTyped'
  BY <1>1, DbIdles DEF dbIInv, dbTyped, Owned
<1>3. dbStaged'
  BY <1>1 DEF dbIInv, dbStaged
<1>4. dbFiled' /\ dbPlanned'
  BY <1>1, DbIdles DEF dbIInv, dbFiled, dbPlanned, dbRuns
<1>5. ASSUME ~edited PROVE dbKept' /\ dbSettled' /\ dbProgress' /\ dbExplained' /\ dbCurrent'
  <2>1. dbKept /\ dbSettled /\ dbExplained
    BY <1>5 DEF dbIInv
  <2>2. dbKept' /\ dbProgress' /\ dbCurrent'
    BY <1>1, <2>1, DbIdles DEF dbKept, dbProgress, dbCurrent
  <2>3. dbSettled'
    BY <1>1, <2>1 DEF dbSettled, dbTruth, Owned
  <2>4. dbExplained'
    BY <1>1, <2>1, DbIdles DEF dbExplained, Explained, Owned
  <2> QED BY <2>2, <2>3, <2>4
<1> QED BY <1>1, <1>2, <1>3, <1>4, <1>5 DEF dbIInv

\* A running operation has a snapshot that is marked pending.
LEMMA DbRunsPending ==
  ASSUME dbIInv, dbRuns
  PROVE  /\ file = tx.next /\ file.exists /\ file.pending /\ file.before = tx.before /\ tx.stage # "idle"
         /\ ~tx.rolling => tx.desired = file.applied
         /\ tx.rolling => tx.desired = file.before
  BY DEF dbIInv, dbFiled, dbPlanned, dbRuns

\* A running operation gives up and leaves what is half done, which the snapshot explains.
LEMMA DbGivesUp ==
  ASSUME dbIInv, dbRuns, tx' = dbIdle, UNCHANGED <<file, history>>, dbTyped', dbStaged',
         ~edited => Explained(Owned(work)', file)
  PROVE  dbIInv'
<1>1. UNCHANGED <<file, original, edited>> /\ file.pending /\ file.exists
  BY DbRunsPending DEF history
<1>2. dbFiled' /\ dbPlanned'
  BY <1>1, DbIdles DEF dbIInv, dbFiled, dbPlanned, dbRuns
<1>3. ASSUME ~edited PROVE dbKept' /\ dbSettled' /\ dbProgress' /\ dbExplained' /\ dbCurrent'
  <2>1. dbKept
    BY <1>3 DEF dbIInv
  <2>2. dbKept' /\ dbProgress' /\ dbCurrent' /\ dbSettled'
    BY <1>1, <2>1, DbIdles DEF dbKept, dbProgress, dbCurrent, dbSettled
  <2>3. dbExplained'
    BY <1>1, <1>3 DEF dbExplained, Explained, Owned
  <2> QED BY <2>2, <2>3
<1> QED BY <1>1, <1>2, <1>3 DEF dbIInv

\* A running operation goes on to another stage.
LEMMA DbAdvances ==
  ASSUME dbIInv, dbRuns,
         NEW st \in {"guard network", "commit network", "guard dhcp", "commit dhcp", "reload", "verify", "finish",
                     "rollback"},
         tx' = [tx EXCEPT !.stage = st], st = "rollback" => ~tx.rolling,
         UNCHANGED <<file, history>>, dbTyped', dbStaged',
         ~edited => dbProgress' /\ Explained(Owned(work)', file)
  PROVE  dbIInv'
<1>1. UNCHANGED <<file, original, edited>> /\ file.pending /\ file.exists /\ file = tx.next /\ tx.stage # "idle"
  BY DbRunsPending DEF history
<1>2. tx \in DbTxs
  BY DEF dbIInv, dbTyped
<1>3. /\ tx'.stage = st /\ tx'.rolling = tx.rolling /\ tx'.restore = tx.restore
      /\ tx'.todo = tx.todo /\ tx'.deleted = tx.deleted /\ tx'.count = tx.count /\ tx'.current = tx.current
      /\ tx'.desired = tx.desired /\ tx'.before = tx.before /\ tx'.next = tx.next /\ tx'.previous = tx.previous
  BY <1>2, DbMoves
<1>4. dbFiled'
  BY <1>1, <1>3 DEF dbIInv, dbFiled, dbRuns
<1>5. dbPlanned'
  <2>1. tx.previous.exists => Explained(tx.before, tx.previous)
    BY <1>1 DEF dbIInv, dbPlanned
  <2>2. tx.previous.exists => Explained(tx.before, tx.previous)'
    BY <1>3, <2>1 DEF Explained
  <2> QED BY <1>1, <1>3, <2>2 DEF dbIInv, dbPlanned
<1>6. ASSUME ~edited PROVE dbKept' /\ dbSettled' /\ dbExplained' /\ dbCurrent'
  <2>1. dbKept
    BY <1>6 DEF dbIInv
  <2>2. dbKept'
    BY <1>1, <1>3, <2>1 DEF dbKept, dbTruth
  <2>3. dbSettled' /\ dbCurrent'
    BY <1>1, <1>3 DEF dbSettled, dbCurrent
  <2>4. dbExplained'
    BY <1>1, <1>6 DEF dbExplained, Explained, Owned
  <2> QED BY <2>2, <2>3, <2>4
<1> QED BY <1>1, <1>4, <1>5, <1>6 DEF dbIInv

\* A step that fails, with or without its effect.
LEMMA DbFails ==
  ASSUME dbIInv, dbRuns, tx' = Fail(tx), UNCHANGED <<file, history>>,
         dbTyped', dbStaged', ~edited => Explained(Owned(work)', file)
  PROVE  dbIInv'
<1>1. CASE tx.rolling
  BY <1>1, DbGivesUp DEF Fail
<1>2. CASE ~tx.rolling
  <2>1. tx' = [tx EXCEPT !.stage = "rollback"] /\ tx \in DbTxs
    BY <1>2 DEF Fail, dbIInv, dbTyped
  <2>2. dbProgress'
    BY <2>1, DbMoves DEF dbProgress
  <2> QED BY <1>2, <2>1, <2>2, DbAdvances
<1> QED BY <1>1, <1>2

\* Where a step fails, the transaction is a transaction.
LEMMA DbFailTyped ==
  ASSUME tx \in DbTxs PROVE Fail(tx) \in DbTxs
  BY DbIdles DEF Fail, DbTxs

-----------------------------------------------------------------------------
\* An operation that has looked at everything and is to write its snapshot.
LEMMA DbInspects ==
  ASSUME dbIInv, tx.stage = "idle", tx' \in DbTxs, tx'.stage = "pending", ~tx'.rolling, ~tx'.deleted,
         tx'.current = Owned(work), tx'.before = Owned(work), tx'.previous = file,
         tx'.next.exists, tx'.next.pending, tx'.next.before = Owned(work), tx'.desired = tx'.next.applied,
         file.exists => Explained(Owned(work), file) /\ tx'.next.original = file.original,
         ~file.exists => tx'.next.original = Owned(work),
         tx'.restore => tx'.next.applied = tx'.next.original,
         UNCHANGED <<uci, live, file, history, budget>>
  PROVE  dbIInv'
<1>1. UNCHANGED <<committed, work, dirty, live, file, original, edited, budget>>
  BY DEF uci, history
<1>2. dbTyped' /\ dbStaged'
  BY <1>1 DEF dbIInv, dbTyped, dbStaged, Owned
<1>3. dbFiled'
  BY <1>1 DEF dbIInv, dbFiled, dbRuns
<1>4. dbPlanned'
  <2>1. tx'.previous.exists => Explained(tx.before, tx.previous)'
    BY DEF Explained
  <2>2. tx'.previous.pending => tx'.previous.exists
    BY DEF dbIInv, dbFiled
  <2> QED BY <2>1, <2>2 DEF dbPlanned
<1>5. ASSUME ~edited PROVE dbKept' /\ dbSettled' /\ dbProgress' /\ dbExplained' /\ dbCurrent'
  <2>1. dbKept /\ dbSettled /\ ~file.exists => ~file.pending
    BY <1>5 DEF dbIInv, dbFiled
  <2>2. ~file.pending => Owned(work) = dbTruth(file)
    BY <1>5 DEF dbIInv, dbSettled
  <2>3. dbKept'
    <3>1. file'.exists => file'.original = original'
      BY <1>1, <1>5 DEF dbIInv, dbKept
    <3>2. tx'.next.original = original'
      <4>1. CASE file.exists
        BY <1>1, <3>1, <4>1
      <4>2. CASE ~file.exists
        BY <1>1, <2>2, <4>2 DEF dbIInv, dbFiled, dbTruth
      <4> QED BY <4>1, <4>2
    <3>3. tx'.previous.exists => tx'.previous.original = original'
      BY <1>1, <3>1
    <3>4. ~tx'.previous.pending => tx'.before = dbTruth(tx.previous)'
      BY <1>1, <2>2 DEF dbTruth
    <3> QED BY <3>1, <3>2, <3>3, <3>4 DEF dbKept
  <2>4. dbSettled'
    BY <1>1, <1>5 DEF dbIInv, dbSettled, dbTruth, Owned
  <2>5. dbProgress' /\ dbCurrent'
    BY <1>1 DEF dbProgress, dbCurrent, Owned
  <2>6. dbExplained'
    BY <1>1 DEF dbExplained, Explained, Owned
  <2> QED BY <2>3, <2>4, <2>5, <2>6
<1> QED BY <1>1, <1>2, <1>3, <1>4, <1>5 DEF dbIInv

\* Apply, up to its snapshot.
LEMMA DbApplies == ASSUME dbIInv, NEW e \in Endpoints, ApplyInspect(e) PROVE dbIInv'
<1>1. PICK current, applied : current = Owned(work) /\ applied = Bound(e, current)
  OBVIOUS
<1>2. PICK next : next = [exists |-> TRUE, pending |-> TRUE, endpoint |-> e,
                          original |-> IF file.exists THEN file.original ELSE current,
                          applied |-> applied, before |-> current]
  OBVIOUS
<1>3. /\ tx.stage = "idle" /\ UNCHANGED <<uci, live, file, history, budget>>
      /\ file.exists => Explained(current, file)
      /\ tx' = [dbIdle EXCEPT !.stage = "pending", !.current = current, !.desired = applied, !.before = current,
                              !.next = next, !.previous = file]
  BY <1>1, <1>2 DEF ApplyInspect
<1>4. current \in Values /\ file \in DbFiles
  BY <1>1 DEF dbIInv, dbTyped
<1>5. applied \in Values
  BY <1>1, <1>4, DbBinds
<1>6. TRUE \in BOOLEAN
  BY Zenon
<1>7. next \in DbFiles /\ next.exists = TRUE /\ next.pending = TRUE /\ next.before = current /\ next.applied = applied
      /\ next.original = IF file.exists THEN file.original ELSE current
  BY <1>2, <1>4, <1>5, <1>6 DEF DbFiles
<1>8. /\ tx' \in DbTxs /\ tx'.stage = "pending" /\ tx'.rolling = FALSE /\ tx'.deleted = FALSE /\ tx'.restore = FALSE
      /\ tx'.current = current /\ tx'.before = current /\ tx'.previous = file /\ tx'.next = next /\ tx'.desired = applied
  BY <1>3, <1>4, <1>5, <1>7, DbIdles DEF DbTxs
<1> QED BY <1>1, <1>3, <1>7, <1>8, DbInspects

\* Restore, up to its snapshot.
LEMMA DbRestores == ASSUME dbIInv, RestoreInspect PROVE dbIInv'
<1>1. PICK current : current = Owned(work)
  OBVIOUS
<1>2. PICK next : next = [file EXCEPT !.pending = TRUE, !.before = current, !.applied = file.original]
  OBVIOUS
<1>3. /\ tx.stage = "idle" /\ UNCHANGED <<uci, live, file, history, budget>>
      /\ file.exists /\ Explained(current, file)
      /\ tx' = [dbIdle EXCEPT !.stage = "pending", !.restore = TRUE, !.current = current, !.desired = file.original,
                              !.before = current, !.next = next, !.previous = file]
  BY <1>1, <1>2 DEF RestoreInspect
<1>4. current \in Values /\ file \in DbFiles
  BY <1>1 DEF dbIInv, dbTyped
<1>5. TRUE \in BOOLEAN
  BY Zenon
<1>6. next \in DbFiles /\ next.exists = file.exists /\ next.pending = TRUE /\ next.before = current
      /\ next.applied = file.original /\ next.original = file.original
  BY <1>2, <1>4, <1>5 DEF DbFiles
<1>7. file.original \in Values
  BY <1>4 DEF DbFiles
<1>8. /\ tx' \in DbTxs /\ tx'.stage = "pending" /\ tx'.rolling = FALSE /\ tx'.deleted = FALSE
      /\ tx'.current = current /\ tx'.before = current /\ tx'.previous = file /\ tx'.next = next
      /\ tx'.desired = file.original
  BY <1>3, <1>4, <1>5, <1>6, <1>7, DbIdles DEF DbTxs
<1> QED BY <1>1, <1>3, <1>6, <1>8, DbInspects

\* The replacement begins: at the start of an operation and of its rollback.
LEMMA DbReplaces ==
  ASSUME dbIInv, tx.stage # "idle", tx' \in DbTxs, tx'.stage = "replace", tx'.todo = ChangedKeys(tx'.current, tx'.desired),
         ~tx'.deleted, tx'.count = 0, tx'.next = tx.next, tx'.previous = tx.previous, tx'.before = tx.before,
         tx'.restore = tx.restore, tx'.desired = (IF tx'.rolling THEN tx.before ELSE tx.next.applied),
         file' = tx.next, UNCHANGED <<uci, live, history>>, dbTyped',
         ~edited => tx'.current = Owned(work) /\ Explained(Owned(work), tx.next)
  PROVE  dbIInv'
<1>1. UNCHANGED <<committed, work, dirty, live, original, edited>>
  BY DEF uci, history
<1>2. tx.next.exists /\ tx.next.pending
  BY DEF dbIInv, dbPlanned
<1>3. dbStaged'
  BY <1>1 DEF dbIInv, dbStaged
<1>4. dbFiled'
  BY <1>2 DEF dbFiled, dbRuns
<1>5. dbPlanned'
  <2>1. tx.previous.exists => Explained(tx.before, tx.previous)
    BY DEF dbIInv, dbPlanned
  <2>2. tx'.previous.exists => Explained(tx.before, tx.previous)'
    BY <2>1 DEF Explained
  <2> QED BY <2>2 DEF dbIInv, dbPlanned
<1>6. ASSUME ~edited PROVE dbKept' /\ dbSettled' /\ dbProgress' /\ dbExplained' /\ dbCurrent'
  <2>1. dbKept
    BY <1>6 DEF dbIInv
  <2>2. dbKept'
    BY <1>1, <2>1 DEF dbKept, dbTruth
  <2>3. dbSettled'
    BY <1>2 DEF dbSettled
  <2>4. \A k \in Managed : (k \notin tx'.todo => work'[k] = tx'.desired[k]) /\ work'[k] = tx'.current[k]
    BY <1>1, <1>6 DEF ChangedKeys, Owned
  <2>5. dbProgress'
    BY <2>4 DEF dbProgress
  <2>6. dbExplained'
    BY <1>1, <1>6 DEF dbExplained, Explained, Owned
  <2>7. dbCurrent'
    BY <1>6 DEF dbCurrent, Explained
  <2> QED BY <2>2, <2>3, <2>5, <2>6, <2>7
<1> QED BY <1>1, <1>3, <1>4, <1>5, <1>6 DEF dbIInv

\* What a running operation has done so far is explained.
LEMMA DbRunsExplained ==
  ASSUME dbIInv, tx.stage # "idle", file.exists, ~edited PROVE Explained(Owned(work), file)
  BY DEF dbIInv, dbExplained

\* The snapshot is written, or nothing is done.
LEMMA DbWritesPending == ASSUME dbIInv, WritePending PROVE dbIInv'
<1>1. tx.stage = "pending" /\ UNCHANGED <<uci, live, history>>
  BY DEF WritePending
<1>2. UNCHANGED <<committed, work, dirty, live, original, edited>>
  BY <1>1 DEF uci, history
<1>3. dbTyped /\ tx \in DbTxs
  BY DEF dbIInv, dbTyped
<1>4. CASE file' = tx.next /\ tx' = Replace(tx) /\ UNCHANGED budget
  <2>1. PICK todo : todo = ChangedKeys(tx.current, tx.desired)
    OBVIOUS
  <2>2. tx' = [tx EXCEPT !.stage = "replace", !.todo = todo, !.deleted = FALSE, !.count = 0]
    BY <1>4, <2>1 DEF Replace
  <2>3. todo \in SUBSET Managed
    BY <2>1 DEF ChangedKeys
  <2>4. FALSE \in BOOLEAN
    BY Zenon
  <2>5. /\ tx' \in DbTxs /\ tx'.stage = "replace" /\ tx'.todo = todo /\ tx'.deleted = FALSE /\ tx'.count = 0
        /\ tx'.next = tx.next /\ tx'.previous = tx.previous /\ tx'.before = tx.before /\ tx'.restore = tx.restore
        /\ tx'.rolling = tx.rolling /\ tx'.desired = tx.desired /\ tx'.current = tx.current
    BY <1>3, <2>2, <2>3, <2>4 DEF DbTxs
  <2>6. ~tx.rolling /\ tx.desired = tx.next.applied /\ tx.current = tx.before /\ tx.next.pending
        /\ tx.next.before = tx.before
    BY <1>1 DEF dbIInv, dbPlanned
  <2>7. ~edited => tx.current = Owned(work) /\ Explained(Owned(work), tx.next)
    BY <1>1, <2>6 DEF dbIInv, dbProgress, Explained
  <2>8. file' \in DbFiles
    BY <1>3, <1>4 DEF DbTxs
  <2>9. dbTyped'
    BY <1>2, <1>3, <1>4, <2>5, <2>8 DEF dbTyped, Owned
  <2> QED BY <1>1, <1>4, <2>1, <2>5, <2>6, <2>7, <2>9, DbReplaces
<1>5. CASE UNCHANGED file /\ tx' = dbIdle /\ Spend("failures", MaxFailures)
  <2>1. /\ budget' \in [{"failures", "crashes", "losses", "edits"} -> Nat]
        /\ budget'["losses"] = 0 => budget["losses"] = 0
    BY <1>3, <1>5, DbSpends DEF dbTyped
  <2> QED BY <1>1, <1>5, <2>1, DbStays
<1> QED BY <1>4, <1>5 DEF WritePending

\* A rollback begins with what it finds, or gives up.
LEMMA DbRollsBack == ASSUME dbIInv, Rollback PROVE dbIInv'
<1>1. PICK recovery : recovery = [tx.next EXCEPT !.pending = TRUE, !.before = tx.before]
  OBVIOUS
<1>2. /\ tx.stage = "rollback" /\ UNCHANGED <<uci, live, file, history>>
      /\ \/ /\ UNCHANGED budget
            /\ tx' = IF Explained(Owned(work), recovery) /\ GuardChanges
                     THEN Replace([tx EXCEPT !.rolling = TRUE, !.current = Owned(work), !.desired = tx.before])
                     ELSE dbIdle
         \/ tx' = dbIdle /\ Spend("failures", MaxFailures)
  BY <1>1 DEF Rollback
<1>3. dbTyped /\ tx \in DbTxs /\ Owned(work) \in Values
  BY DEF dbIInv, dbTyped
<1>4. CASE tx' = dbIdle
  <2>1. /\ budget' \in [{"failures", "crashes", "losses", "edits"} -> Nat]
        /\ budget'["losses"] = 0 => budget["losses"] = 0
    BY <1>2, <1>3, DbSpends DEF dbTyped
  <2> QED BY <1>2, <1>4, <2>1, DbStays
<1>5. CASE /\ Explained(Owned(work), recovery) /\ UNCHANGED budget
           /\ tx' = Replace([tx EXCEPT !.rolling = TRUE, !.current = Owned(work), !.desired = tx.before])
  <2>1. PICK current, todo : current = Owned(work) /\ todo = ChangedKeys(current, tx.before)
    OBVIOUS
  <2>2. PICK t : t = [tx EXCEPT !.rolling = TRUE, !.current = current, !.desired = tx.before]
    OBVIOUS
  <2>3. TRUE \in BOOLEAN /\ FALSE \in BOOLEAN
    BY Zenon
  <2>4. /\ t \in DbTxs /\ t.rolling = TRUE /\ t.current = current /\ t.desired = tx.before /\ t.next = tx.next
        /\ t.previous = tx.previous /\ t.before = tx.before /\ t.restore = tx.restore
    BY <1>3, <2>1, <2>2, <2>3 DEF DbTxs
  <2>5. tx' = [t EXCEPT !.stage = "replace", !.todo = todo, !.deleted = FALSE, !.count = 0]
    BY <1>5, <2>1, <2>2, <2>4 DEF Replace
  <2>6. todo \in SUBSET Managed
    BY <2>1 DEF ChangedKeys
  <2>7. /\ tx' \in DbTxs /\ tx'.stage = "replace" /\ tx'.todo = todo /\ tx'.deleted = FALSE /\ tx'.count = 0
        /\ tx'.next = tx.next /\ tx'.previous = tx.previous /\ tx'.before = tx.before /\ tx'.restore = tx.restore
        /\ tx'.rolling = TRUE /\ tx'.desired = tx.before /\ tx'.current = current
    BY <2>3, <2>4, <2>5, <2>6 DEF DbTxs
  <2>8. dbRuns /\ tx.stage # "idle"
    BY <1>2 DEF dbRuns
  <2>9. file = tx.next /\ tx.next.pending /\ tx.next.before = tx.before
    BY <2>8, DbRunsPending DEF dbIInv, dbPlanned
  <2>10. tx.next \in DbFiles
    BY <1>3 DEF DbTxs
  <2>11. Explained(Owned(work), tx.next)
    <3>1. recovery.pending = TRUE /\ recovery.before = tx.next.before /\ recovery.applied = tx.next.applied
      BY <1>1, <2>9, <2>10 DEF DbFiles
    <3> QED BY <1>5, <2>9, <3>1 DEF Explained
  <2>12. UNCHANGED <<committed, work, dirty, live, original, edited, file>>
    BY <1>2 DEF uci, history
  <2>13. dbTyped'
    BY <1>3, <1>5, <2>7, <2>12 DEF dbTyped, Owned
  <2> QED BY <1>2, <2>1, <2>7, <2>8, <2>9, <2>11, <2>13, DbReplaces
<1> QED BY <1>2, <1>4, <1>5

\* The last write: whatever file it leaves tells what the values are.
LEMMA DbFinishes == ASSUME dbIInv, Finish PROVE dbIInv'
<1>1. tx.stage = "finish" /\ UNCHANGED <<uci, live, history>> /\ dbRuns
  BY DEF Finish, dbRuns
<1>2. UNCHANGED <<committed, work, dirty, live, original, edited>>
  BY <1>1 DEF uci, history
<1>3. dbTyped /\ tx \in DbTxs /\ tx.next \in DbFiles /\ tx.previous \in DbFiles
  BY DEF dbIInv, dbTyped, DbTxs
<1>4. CASE UNCHANGED file /\ tx' = Fail(tx) /\ Spend("failures", MaxFailures)
  <2>1. budget' \in [{"failures", "crashes", "losses", "edits"} -> Nat]
    BY <1>3, <1>4, DbSpends DEF dbTyped
  <2>2. dbTyped' /\ dbStaged'
    BY <1>2, <1>3, <1>4, <2>1, DbFailTyped DEF dbIInv, dbTyped, dbStaged, Owned
  <2>3. ~edited => Explained(Owned(work)', file)
    BY <1>1, <1>2, DbRunsPending, DbRunsExplained DEF Owned
  <2> QED BY <1>1, <1>4, <2>2, <2>3, DbFails
<1>5. CASE /\ tx' = dbIdle /\ UNCHANGED budget
           /\ file' = IF tx.rolling THEN tx.previous
                      ELSE IF tx.restore THEN NoFile
                      ELSE [tx.next EXCEPT !.pending = FALSE, !.before = AllAbsent]
  <2>1. PICK done : done = [tx.next EXCEPT !.pending = FALSE, !.before = AllAbsent]
    OBVIOUS
  <2>2. FALSE \in BOOLEAN
    BY Zenon
  <2>3. done \in DbFiles /\ done.exists = tx.next.exists /\ done.pending = FALSE /\ done.original = tx.next.original
        /\ done.applied = tx.next.applied
    BY <1>3, <2>1, <2>2, DbIdles DEF DbFiles
  <2>4. file' \in DbFiles
    BY <1>3, <1>5, <2>1, <2>3, DbIdles
  <2>5. dbTyped' /\ dbStaged'
    BY <1>2, <1>3, <1>5, <2>4, DbIdles DEF dbIInv, dbTyped, dbStaged, Owned
  <2>6. file'.pending => file'.exists
    BY <1>1, <1>5, <2>1, <2>3, DbIdles DEF dbIInv, dbPlanned, dbRuns
  <2>7. dbFiled' /\ dbPlanned'
    BY <1>5, <2>6, DbIdles DEF dbFiled, dbPlanned, dbRuns
  <2>8. ASSUME ~edited PROVE dbKept' /\ dbSettled' /\ dbProgress' /\ dbExplained' /\ dbCurrent'
    <3>1. Owned(work) = tx.desired /\ live = tx.desired /\ dirty \cap Managed = {}
      BY <1>1, <2>8 DEF dbIInv, dbProgress
    <3>2. Owned(committed) = tx.desired
      <4>1. \A k \in Managed : work[k] = committed[k]
        BY <3>1 DEF dbIInv, dbStaged, Options
      <4> QED BY <3>1, <4>1 DEF Owned
    <3>3. /\ tx.next.original = original /\ tx.next.exists
          /\ tx.previous.exists => tx.previous.original = original /\ Explained(tx.before, tx.previous)
          /\ ~tx.previous.pending => tx.before = dbTruth(tx.previous)
          /\ tx.restore => tx.next.applied = tx.next.original
          /\ tx.desired = IF tx.rolling THEN tx.before ELSE tx.next.applied
      BY <1>1, <2>8 DEF dbIInv, dbKept, dbPlanned, dbRuns
    <3>4. /\ file'.exists => file'.original = original /\ Explained(tx.desired, file')
          /\ ~file'.pending => tx.desired = IF file'.exists THEN file'.applied ELSE original
      <4>1. CASE tx.rolling
        BY <1>5, <3>3, <4>1 DEF dbTruth
      <4>2. CASE ~tx.rolling /\ tx.restore
        BY <1>5, <3>3, <4>2, DbIdles
      <4>3. CASE ~tx.rolling /\ ~tx.restore
        BY <1>5, <2>1, <2>3, <3>3, <4>3 DEF Explained
      <4> QED BY <4>1, <4>2, <4>3
    <3>5. dbKept' /\ dbProgress' /\ dbCurrent'
      BY <1>2, <1>5, <3>4, DbIdles DEF dbKept, dbProgress, dbCurrent
    <3>6. dbSettled'
      BY <1>2, <3>1, <3>2, <3>4 DEF dbSettled, dbTruth, Owned
    <3>7. dbExplained'
      <4>1. Owned(work)' = tx.desired
        BY <1>2, <3>1 DEF Owned
      <4> QED BY <3>4, <4>1 DEF dbExplained, Explained
    <3> QED BY <3>5, <3>6, <3>7
  <2> QED BY <1>2, <2>5, <2>7, <2>8 DEF dbIInv
<1> QED BY <1>4, <1>5 DEF Finish

-----------------------------------------------------------------------------
\* A command changes one option in the staging area.
LEMMA DbSets ==
  ASSUME dbTyped, dbStaged, NEW k \in Managed, NEW v \in Seq(Words), SetWork(k, v)
  PROVE  /\ committed' \in DbLists /\ work' \in DbLists /\ Owned(committed)' \in Values /\ Owned(work)' \in Values
         /\ dirty' \subseteq Options /\ live' = live /\ dbStaged'
         /\ work'[k] = v /\ \A j \in Managed \ {k} : work'[j] = work[j]
<1>1. work' = [work EXCEPT ![k] = v] /\ dirty' = dirty \cup {k} /\ UNCHANGED <<committed, live>> /\ k \in Options
  BY DEF SetWork, Options
<1>2. v \in Seq(Words \cup {"other"})
  OBVIOUS
<1>3. work \in [Options -> Seq(Words \cup {"other"})] /\ committed \in DbLists
  BY DEF dbTyped, DbLists
<1>4. work' \in DbLists /\ work'[k] = v /\ \A j \in Options \ {k} : work'[j] = work[j]
  BY <1>1, <1>2, <1>3 DEF DbLists
<1>5. \A j \in Managed : j \in Options /\ work[j] \in Seq(Words)
  BY DEF dbTyped, Owned, Values, Options
<1>6. \A j \in Managed : work'[j] \in Seq(Words)
  BY <1>4, <1>5
<1>7. Owned(work)' \in Values /\ Owned(committed)' \in Values
  BY <1>1, <1>6 DEF dbTyped, Owned, Values
<1>8. dbStaged' /\ dirty' \subseteq Options
  BY <1>1, <1>4 DEF dbStaged, dbTyped
<1> QED BY <1>1, <1>3, <1>4, <1>5, <1>7, <1>8

\* A command that writes a part of what is to be written leaves an explained value.
LEMMA DbPartlyExplained ==
  ASSUME dbIInv, dbRuns, ~edited, NEW k \in Managed, NEW v, work'[k] = v,
         \A j \in Managed \ {k} : work'[j] = work[j],
         v = Absent \/ IsPrefix(v, tx.desired[k])
  PROVE  Explained(Owned(work)', file)
<1>1. file.pending /\ (tx.desired = file.applied \/ tx.desired = file.before) /\ Explained(Owned(work), file)
  BY DbRunsPending, DbRunsExplained
<1>2. Owned(work)'[k] = v /\ \A j \in Managed \ {k} : Owned(work)'[j] = Owned(work)[j]
  BY DEF Owned
<1> QED BY <1>1, <1>2 DEF Explained

\* The first key is one of those that are to be replaced.
LEMMA DbFirst ==
  ASSUME NEW keys \in SUBSET Managed, keys # {} PROVE FirstKey(keys) \in keys
  BY DEF FirstKey, Managed

\* A command of the replacement that works.
LEMMA DbReplacesOne ==
  ASSUME dbIInv, tx.stage = "replace", tx.todo # {}, NEW k, k = FirstKey(tx.todo), NEW v \in Seq(Words), NEW n \in Nat,
         SetWork(k, v), UNCHANGED <<file, history, budget>>,
         \/ tx' = NextKey(tx) /\ (~edited => v = tx.desired[k])
         \/ tx' = [tx EXCEPT !.deleted = TRUE, !.count = n] /\ (~edited => DbPartial(v, tx.desired[k], n)),
         ~edited => v = Absent \/ IsPrefix(v, tx.desired[k])
  PROVE  dbIInv'
<1>1. dbTyped /\ dbStaged /\ tx \in DbTxs /\ tx.todo \in SUBSET Managed
  BY DEF dbIInv, dbTyped, DbTxs
<1>2. k \in tx.todo /\ k \in Managed
  BY <1>1, DbFirst
<1>3. /\ committed' \in DbLists /\ work' \in DbLists /\ Owned(committed)' \in Values /\ Owned(work)' \in Values
      /\ dirty' \subseteq Options /\ live' = live /\ dbStaged'
      /\ work'[k] = v /\ \A j \in Managed \ {k} : work'[j] = work[j]
  BY <1>1, <1>2, DbSets
<1>4. UNCHANGED <<file, original, edited, budget>>
  BY DEF history
<1>5. dbRuns
  BY DEF dbRuns
<1>6. file = tx.next /\ file.exists /\ file.pending
  BY <1>5, DbRunsPending
<1>7. TRUE \in BOOLEAN /\ FALSE \in BOOLEAN
  BY Zenon
<1>8. /\ tx' \in DbTxs /\ tx'.stage = "replace" /\ tx'.rolling = tx.rolling /\ tx'.restore = tx.restore
      /\ tx'.current = tx.current /\ tx'.desired = tx.desired /\ tx'.before = tx.before /\ tx'.next = tx.next
      /\ tx'.previous = tx.previous
      /\ \/ tx'.todo = tx.todo \ {k} /\ tx'.deleted = FALSE /\ tx'.count = 0 /\ (~edited => v = tx.desired[k])
         \/ tx'.todo = tx.todo /\ tx'.deleted = TRUE /\ tx'.count = n /\ (~edited => DbPartial(v, tx.desired[k], n))
  <2>1. CASE tx' = NextKey(tx) /\ (~edited => v = tx.desired[k])
    <3>1. PICK rest : rest = tx.todo \ {k}
      OBVIOUS
    <3>2. tx' = [tx EXCEPT !.todo = rest, !.deleted = FALSE, !.count = 0] /\ rest \in SUBSET Managed
      BY <1>1, <2>1, <3>1 DEF NextKey
    <3>3. tx' \in DbTxs
      BY <1>1, <1>7, <3>2 DEF DbTxs
    <3>4. /\ tx'.stage = tx.stage /\ tx'.rolling = tx.rolling /\ tx'.restore = tx.restore /\ tx'.current = tx.current
          /\ tx'.desired = tx.desired /\ tx'.before = tx.before /\ tx'.next = tx.next /\ tx'.previous = tx.previous
          /\ tx'.todo = rest /\ tx'.deleted = FALSE /\ tx'.count = 0
      BY <1>1, <3>2 DEF DbTxs
    <3> QED BY <2>1, <3>1, <3>3, <3>4
  <2>2. CASE tx' = [tx EXCEPT !.deleted = TRUE, !.count = n] /\ (~edited => DbPartial(v, tx.desired[k], n))
    BY <1>1, <1>7, <2>2 DEF DbTxs
  <2> QED BY <2>1, <2>2
<1>9. dbTyped'
  BY <1>1, <1>3, <1>4, <1>8 DEF dbTyped
<1>10. dbFiled'
  BY <1>2, <1>4, <1>6, <1>8 DEF dbFiled, dbRuns
<1>11. dbPlanned'
  <2>1. tx.previous.exists => Explained(tx.before, tx.previous)
    BY DEF dbIInv, dbPlanned
  <2>2. tx'.previous.exists => Explained(tx.before, tx.previous)'
    BY <1>8, <2>1 DEF Explained
  <2> QED BY <1>8, <2>2 DEF dbIInv, dbPlanned
<1>12. ASSUME ~edited PROVE dbKept' /\ dbSettled' /\ dbProgress' /\ dbExplained' /\ dbCurrent'
  <2>1. dbKept /\ dbProgress /\ dbCurrent
    BY <1>12 DEF dbIInv
  <2>2. dbKept'
    BY <1>4, <1>8, <2>1 DEF dbKept, dbTruth
  <2>3. dbSettled'
    BY <1>4, <1>6 DEF dbSettled
  <2>4. dbExplained'
    <3>1. Explained(Owned(work)', file)
      BY <1>2, <1>3, <1>5, <1>12, DbPartlyExplained
    <3> QED BY <1>4, <3>1 DEF dbExplained, Explained
  <2>5. dbCurrent'
    BY <1>8, <2>1 DEF dbCurrent, Explained
  <2>6. dbProgress'
    <3>1. ASSUME NEW j \in Managed
          PROVE  /\ j \notin tx'.todo => work'[j] = tx'.desired[j]
                 /\ j \in tx'.todo =>
                      IF j = FirstKey(tx'.todo) /\ tx'.deleted THEN DbPartial(work'[j], tx'.desired[j], tx'.count)
                      ELSE work'[j] = tx'.current[j]
                 /\ j \in tx'.todo /\ ~tx'.deleted => tx'.count = 0
      <4>1. CASE j = k
        BY <1>2, <1>3, <1>8, <1>12, <4>1
      <4>2. CASE j # k
        <5>1. /\ work'[j] = work[j] /\ (j \notin tx.todo => work[j] = tx.desired[j])
              /\ j \in tx.todo => work[j] = tx.current[j]
          BY <1>3, <2>1, <4>2 DEF dbProgress
        <5>2. tx'.deleted => j # FirstKey(tx'.todo)
          BY <1>8, <4>2
        <5>3. j \in tx'.todo <=> j \in tx.todo
          BY <1>8, <4>2
        <5>4. ~tx'.deleted => tx'.count = 0
          BY <1>8
        <5> QED BY <1>8, <5>1, <5>2, <5>3, <5>4
      <4> QED BY <4>1, <4>2
    <3> QED BY <1>8, <3>1 DEF dbProgress, DbPartial
  <2> QED BY <2>2, <2>3, <2>4, <2>5, <2>6
<1> QED BY <1>3, <1>4, <1>9, <1>10, <1>11, <1>12 DEF dbIInv

\* A command of the replacement that fails.
LEMMA DbReplaceFails ==
  ASSUME dbIInv, tx.stage = "replace", NEW k \in Managed, NEW v \in Seq(Words),
         tx' = Fail(tx), SetWork(k, v) \/ UNCHANGED <<uci, live>>, UNCHANGED <<file, history>>,
         budget' \in [{"failures", "crashes", "losses", "edits"} -> Nat],
         ~edited => v = Absent \/ IsPrefix(v, tx.desired[k])
  PROVE  dbIInv'
<1>1. dbTyped /\ dbStaged /\ tx \in DbTxs /\ dbRuns
  BY DEF dbIInv, dbTyped, dbRuns
<1>2. UNCHANGED <<file, original, edited>> /\ tx' \in DbTxs
  BY <1>1, DbFailTyped DEF history
<1>3. CASE SetWork(k, v)
  <2>1. /\ committed' \in DbLists /\ work' \in DbLists /\ Owned(committed)' \in Values /\ Owned(work)' \in Values
        /\ dirty' \subseteq Options /\ live' = live /\ dbStaged'
        /\ work'[k] = v /\ \A j \in Managed \ {k} : work'[j] = work[j]
    BY <1>1, <1>3, DbSets
  <2>2. dbTyped'
    BY <1>1, <1>2, <2>1 DEF dbTyped
  <2>3. ~edited => Explained(Owned(work)', file)
    BY <1>1, <2>1, DbPartlyExplained
  <2> QED BY <1>1, <2>1, <2>2, <2>3, DbFails
<1>4. CASE UNCHANGED <<uci, live>>
  <2>1. UNCHANGED <<committed, work, dirty, live>>
    BY <1>4 DEF uci
  <2>2. dbTyped' /\ dbStaged'
    BY <1>1, <1>2, <2>1 DEF dbTyped, dbStaged, Owned
  <2>3. ~edited => Explained(Owned(work)', file)
    BY <1>1, <2>1, DbRunsPending, DbRunsExplained DEF Owned
  <2> QED BY <1>1, <2>2, <2>3, DbFails
<1> QED BY <1>3, <1>4

\* An option is deleted: no value is explained.
LEMMA DbDeletes == ASSUME dbIInv, DeleteKey PROVE dbIInv'
<1>1. PICK k : k = FirstKey(tx.todo)
  OBVIOUS
<1>2. /\ tx.stage = "replace" /\ tx.todo # {} /\ ~tx.deleted /\ tx.current[k] # Absent /\ UNCHANGED <<file, history>>
      /\ IF work[k] = Absent
           THEN tx' = Fail(tx) /\ UNCHANGED <<uci, live, budget>>
           ELSE \/ /\ SetWork(k, Absent)
                   /\ tx' = IF tx.desired[k] = Absent THEN NextKey(tx) ELSE [tx EXCEPT !.deleted = TRUE]
                   /\ UNCHANGED budget
                \/ Failing(SetWork(k, Absent))
  BY <1>1 DEF DeleteKey
<1>3. dbTyped /\ tx \in DbTxs /\ tx.todo \in SUBSET Managed /\ tx.count \in Nat /\ tx.desired \in Values
  BY DEF dbIInv, dbTyped, DbTxs
<1>4. k \in tx.todo /\ k \in Managed /\ tx.desired[k] \in Seq(Words)
  BY <1>1, <1>2, <1>3, DbFirst DEF Values
<1>5. budget \in [{"failures", "crashes", "losses", "edits"} -> Nat] /\ Absent \in Seq(Words)
  BY <1>3, DbIdles DEF dbTyped
<1>6. CASE SetWork(k, Absent) /\ UNCHANGED budget
           /\ tx' = IF tx.desired[k] = Absent THEN NextKey(tx) ELSE [tx EXCEPT !.deleted = TRUE]
  <2>1. CASE tx.desired[k] = Absent
    BY <1>1, <1>2, <1>3, <1>5, <1>6, <2>1, DbReplacesOne
  <2>2. CASE tx.desired[k] # Absent
    <3>1. PICK n \in Nat : n = tx.count
      BY <1>3
    <3>2. tx' = [tx EXCEPT !.deleted = TRUE, !.count = n]
      BY <1>3, <1>6, <2>2, <3>1 DEF DbTxs
    <3>3. ~edited => n = 0
      BY <1>2, <1>4, <3>1 DEF dbIInv, dbProgress
    <3>4. ~edited => DbPartial(Absent, tx.desired[k], n)
      BY <1>4, <3>3 DEF DbPartial, Absent
    <3> QED BY <1>1, <1>2, <1>5, <1>6, <3>2, <3>4, DbReplacesOne
  <2> QED BY <2>1, <2>2
<1>7. CASE tx' = Fail(tx) /\ UNCHANGED <<uci, live, budget>>
  <2>1. budget' \in [{"failures", "crashes", "losses", "edits"} -> Nat]
    BY <1>5, <1>7
  <2> QED BY <1>2, <1>4, <1>5, <1>7, <2>1, DbReplaceFails
<1>8. CASE Failing(SetWork(k, Absent))
  <2>1. Spend("failures", MaxFailures) /\ tx' = Fail(tx) /\ (SetWork(k, Absent) \/ UNCHANGED <<uci, live>>)
    BY <1>8 DEF Failing
  <2>2. budget' \in [{"failures", "crashes", "losses", "edits"} -> Nat]
    BY <1>5, <2>1, DbSpends
  <2> QED BY <1>2, <1>4, <1>5, <2>1, <2>2, DbReplaceFails
<1> QED BY <1>2, <1>6, <1>7, <1>8

\* One more entry in its place.
LEMMA DbAppends ==
  ASSUME NEW s \in Seq(Words), NEW d \in Seq(Words), NEW n \in 1..Len(d), DbPartial(s, d, n - 1)
  PROVE  /\ Append(s, d[n]) \in Seq(Words) /\ DbPartial(Append(s, d[n]), d, n) /\ IsPrefix(Append(s, d[n]), d)
         /\ n = Len(d) => Append(s, d[n]) = d
<1>1. PICK a : a = Append(s, d[n])
  OBVIOUS
<1>2. a \in Seq(Words) /\ Len(a) = n /\ n \in Nat /\ Len(d) \in Nat /\ Len(s) = n - 1
  BY <1>1 DEF DbPartial
<1>3. \A i \in 1..n : a[i] = d[i]
  BY <1>1, <1>2 DEF DbPartial
<1>4. IsPrefix(a, d)
  BY <1>2, <1>3, DbPrefixes
<1>5. n = Len(d) => a = d
  BY <1>2, <1>3, SeqEqual
<1> QED BY <1>1, <1>2, <1>3, <1>4, <1>5 DEF DbPartial

\* An entry is added: a part of what is to be written is explained.
LEMMA DbAdds == ASSUME dbIInv, AddValue PROVE dbIInv'
<1>1. PICK k, n : k = FirstKey(tx.todo) /\ n = tx.count + 1
  OBVIOUS
<1>2. PICK v : v = Append(work[k], tx.desired[k][n])
  OBVIOUS
<1>3. /\ tx.stage = "replace" /\ tx.todo # {} /\ (tx.deleted \/ tx.current[k] = Absent) /\ n <= Len(tx.desired[k])
      /\ UNCHANGED <<file, history>>
      /\ \/ /\ SetWork(k, v) /\ UNCHANGED budget
            /\ tx' = IF n = Len(tx.desired[k]) THEN NextKey(tx) ELSE [tx EXCEPT !.deleted = TRUE, !.count = n]
         \/ Failing(SetWork(k, v))
  BY <1>1, <1>2 DEF AddValue
<1>4. dbTyped /\ tx \in DbTxs /\ tx.todo \in SUBSET Managed /\ tx.count \in Nat /\ tx.desired \in Values
  BY DEF dbIInv, dbTyped, DbTxs
<1>5. k \in tx.todo /\ k \in Managed /\ tx.desired[k] \in Seq(Words) /\ work[k] \in Seq(Words)
  <2>1. k \in tx.todo /\ k \in Managed
    BY <1>1, <1>3, <1>4, DbFirst
  <2> QED BY <1>4, <2>1 DEF dbTyped, Owned, Values
<1>6. n \in 1..Len(tx.desired[k]) /\ n \in Nat /\ n - 1 = tx.count
  BY <1>1, <1>3, <1>4, <1>5
<1>7. budget \in [{"failures", "crashes", "losses", "edits"} -> Nat]
  BY <1>4 DEF dbTyped
<1>8. v \in Seq(Words)
  BY <1>2, <1>5, <1>6
<1>9. ASSUME ~edited
      PROVE DbPartial(v, tx.desired[k], n) /\ IsPrefix(v, tx.desired[k]) /\ (n = Len(tx.desired[k]) => v = tx.desired[k])
  <2>1. DbPartial(work[k], tx.desired[k], n - 1)
    <3>1. CASE tx.deleted
      BY <1>1, <1>3, <1>5, <1>6, <1>9, <3>1 DEF dbIInv, dbProgress
    <3>2. CASE ~tx.deleted
      <4>1. work[k] = Absent /\ tx.count = 0
        BY <1>3, <1>5, <1>9, <3>2 DEF dbIInv, dbProgress
      <4> QED BY <1>5, <1>6, <4>1 DEF DbPartial, Absent
    <3> QED BY <3>1, <3>2
  <2> QED BY <1>2, <1>5, <1>6, <2>1, DbAppends
<1>10. CASE SetWork(k, v) /\ UNCHANGED budget
            /\ tx' = IF n = Len(tx.desired[k]) THEN NextKey(tx) ELSE [tx EXCEPT !.deleted = TRUE, !.count = n]
  BY <1>1, <1>3, <1>6, <1>8, <1>9, <1>10, DbReplacesOne
<1>11. CASE Failing(SetWork(k, v))
  <2>1. Spend("failures", MaxFailures) /\ tx' = Fail(tx) /\ (SetWork(k, v) \/ UNCHANGED <<uci, live>>)
    BY <1>11 DEF Failing
  <2>2. budget' \in [{"failures", "crashes", "losses", "edits"} -> Nat]
    BY <1>7, <2>1, DbSpends
  <2> QED BY <1>3, <1>5, <1>8, <1>9, <2>1, <2>2, DbReplaceFails
<1> QED BY <1>3, <1>10, <1>11

-----------------------------------------------------------------------------
\* A step that fails without an effect.
LEMMA DbFailsQuietly ==
  ASSUME dbIInv, dbRuns, tx' = Fail(tx), UNCHANGED <<uci, live, file, history>>,
         budget' \in [{"failures", "crashes", "losses", "edits"} -> Nat]
  PROVE  dbIInv'
<1>1. dbTyped /\ dbStaged /\ tx \in DbTxs
  BY DEF dbIInv, dbTyped
<1>2. UNCHANGED <<committed, work, dirty, live, file, original, edited>> /\ tx' \in DbTxs
  BY <1>1, DbFailTyped DEF uci, history
<1>3. dbTyped' /\ dbStaged'
  BY <1>1, <1>2 DEF dbTyped, dbStaged, Owned
<1>4. ~edited => Explained(Owned(work)', file)
  BY <1>2, DbRunsPending, DbRunsExplained DEF Owned
<1> QED BY <1>3, <1>4, DbFails

\* A check that goes well.
LEMMA DbChecks ==
  ASSUME dbIInv, dbRuns,
         NEW st \in {"guard network", "commit network", "guard dhcp", "commit dhcp", "reload", "verify", "finish"},
         tx' = [tx EXCEPT !.stage = st], UNCHANGED <<uci, live, file, history, budget>>, ~edited => dbProgress'
  PROVE  dbIInv'
<1>1. dbTyped /\ dbStaged /\ tx \in DbTxs
  BY DEF dbIInv, dbTyped
<1>2. UNCHANGED <<committed, work, dirty, live, file, original, edited, budget>>
  BY DEF uci, history
<1>3. tx' \in DbTxs
  BY <1>1, DbMoves
<1>4. dbTyped' /\ dbStaged'
  BY <1>1, <1>2, <1>3 DEF dbTyped, dbStaged, Owned
<1>5. ~edited => Explained(Owned(work)', file)
  BY <1>2, DbRunsPending, DbRunsExplained DEF Owned
<1> QED BY <1>4, <1>5, DbAdvances

\* Every option has its value.
LEMMA DbKeysDone == ASSUME dbIInv, KeysDone PROVE dbIInv'
<1>1. /\ tx.stage = "replace" /\ tx.todo = {} /\ tx' = [tx EXCEPT !.stage = "guard network"]
      /\ UNCHANGED <<uci, live, file, history, budget>>
  BY DEF KeysDone
<1>2. dbRuns /\ tx \in DbTxs
  BY <1>1 DEF dbRuns, dbIInv, dbTyped
<1>3. tx'.stage = "guard network" /\ tx'.desired = tx.desired
  BY <1>1, <1>2, DbMoves
<1>4. ASSUME ~edited PROVE dbProgress'
  <2>1. \A k \in Managed : work[k] = tx.desired[k]
    BY <1>1, <1>4 DEF dbIInv, dbProgress
  <2>2. Owned(work) = tx.desired
    BY <1>2, <2>1 DEF Owned, DbTxs, Values
  <2> QED BY <1>1, <1>3, <2>2 DEF dbProgress, Owned, uci
<1> QED BY <1>1, <1>2, <1>4, DbChecks

\* The staging area is checked.
LEMMA DbGuards == ASSUME dbIInv, Guard PROVE dbIInv'
<1>1. tx.stage \in {"guard network", "guard dhcp"} /\ UNCHANGED <<file, history>>
  BY DEF Guard
<1>2. dbRuns /\ tx \in DbTxs /\ budget \in [{"failures", "crashes", "losses", "edits"} -> Nat]
  BY <1>1 DEF dbRuns, dbIInv, dbTyped
<1>3. CASE /\ tx' = [tx EXCEPT !.stage = IF tx.stage = "guard network" THEN "commit network" ELSE "commit dhcp"]
           /\ UNCHANGED <<uci, live, budget>>
  <2>1. PICK st \in {"commit network", "commit dhcp"} :
            st = IF tx.stage = "guard network" THEN "commit network" ELSE "commit dhcp"
    OBVIOUS
  <2>2. tx' = [tx EXCEPT !.stage = st]
    BY <1>3, <2>1
  <2>3. tx'.stage = st /\ tx'.desired = tx.desired
    BY <1>2, <2>2, DbMoves
  <2>4. ~edited => dbProgress'
    BY <1>1, <1>3, <2>1, <2>3 DEF dbIInv, dbProgress, Owned, uci
  <2> QED BY <1>1, <1>2, <1>3, <2>2, <2>4, DbChecks
<1>4. CASE tx' = Fail(tx) /\ UNCHANGED <<uci, live>> /\ (UNCHANGED budget \/ Spend("failures", MaxFailures))
  <2>1. budget' \in [{"failures", "crashes", "losses", "edits"} -> Nat]
    BY <1>2, <1>4, DbSpends
  <2> QED BY <1>1, <1>2, <1>4, <2>1, DbFailsQuietly
<1> QED BY <1>3, <1>4 DEF Guard, Failing

\* The values are checked.
LEMMA DbVerifies == ASSUME dbIInv, Verify PROVE dbIInv'
<1>1. tx.stage = "verify" /\ UNCHANGED <<file, history>>
  BY DEF Verify
<1>2. dbRuns /\ tx \in DbTxs /\ budget \in [{"failures", "crashes", "losses", "edits"} -> Nat]
  BY <1>1 DEF dbRuns, dbIInv, dbTyped
<1>3. CASE tx' = [tx EXCEPT !.stage = "finish"] /\ UNCHANGED <<uci, live, budget>>
  <2>1. tx'.stage = "finish" /\ tx'.desired = tx.desired
    BY <1>2, <1>3, DbMoves
  <2>2. ~edited => dbProgress'
    BY <1>1, <1>3, <2>1 DEF dbIInv, dbProgress, Owned, uci
  <2> QED BY <1>1, <1>2, <1>3, <2>2, DbChecks
<1>4. CASE tx' = Fail(tx) /\ UNCHANGED <<uci, live>> /\ (UNCHANGED budget \/ Spend("failures", MaxFailures))
  <2>1. budget' \in [{"failures", "crashes", "losses", "edits"} -> Nat]
    BY <1>2, <1>4, DbSpends
  <2> QED BY <1>1, <1>2, <1>4, <2>1, DbFailsQuietly
<1> QED BY <1>3, <1>4 DEF Verify, Failing

\* A commit takes what is staged for its package.
LEMMA DbCommitsOne ==
  ASSUME dbTyped, dbStaged, NEW pkg \in SUBSET Options, CommitPackage(pkg)
  PROVE  /\ committed' \in DbLists /\ Owned(committed)' \in Values /\ work' = work /\ live' = live
         /\ dirty' = dirty \ pkg /\ dbStaged'
         /\ \A k \in Managed : committed'[k] \in {committed[k], work[k]}
<1>1. /\ committed' = [k \in Options |-> IF k \in pkg THEN work[k] ELSE committed[k]]
      /\ dirty' = dirty \ pkg /\ UNCHANGED <<work, live>>
  BY DEF CommitPackage
<1>2. \A k \in Options : committed'[k] = IF k \in pkg THEN work[k] ELSE committed[k]
  BY <1>1
<1>3. committed' \in DbLists
  BY <1>1 DEF dbTyped, DbLists
<1>4. \A k \in Managed : k \in Options /\ work[k] \in Seq(Words) /\ committed[k] \in Seq(Words)
  BY DEF dbTyped, Owned, Values, Options
<1>5. \A k \in Managed : committed'[k] \in {committed[k], work[k]} /\ committed'[k] \in Seq(Words)
  BY <1>2, <1>4
<1>6. Owned(committed)' \in Values
  BY <1>5 DEF Owned, Values
<1>7. dbStaged'
  BY <1>1, <1>2 DEF dbStaged
<1> QED BY <1>1, <1>3, <1>5, <1>6, <1>7

\* A commit, with or without its effect.
LEMMA DbCommits == ASSUME dbIInv, Commit PROVE dbIInv'
<1>1. PICK pkg : pkg = IF tx.stage = "commit network" THEN Network ELSE Dhcp
  OBVIOUS
<1>2. /\ tx.stage \in {"commit network", "commit dhcp"} /\ UNCHANGED <<file, history>>
      /\ \/ /\ CommitPackage(pkg) /\ UNCHANGED budget
            /\ tx' = [tx EXCEPT !.stage = IF pkg = Network THEN "guard dhcp" ELSE "reload"]
         \/ Failing(CommitPackage(pkg))
  BY <1>1 DEF Commit
<1>3. dbRuns /\ dbTyped /\ dbStaged /\ tx \in DbTxs /\ budget \in [{"failures", "crashes", "losses", "edits"} -> Nat]
  BY <1>2 DEF dbRuns, dbIInv, dbTyped
<1>4. pkg \in SUBSET Options
  BY <1>1 DEF Network, Dhcp, Options, Managed
<1>5. UNCHANGED <<file, original, edited>>
  BY <1>2 DEF history
<1>6. ~edited => Explained(Owned(work), file)
  BY <1>3, DbRunsPending, DbRunsExplained
<1>7. CASE CommitPackage(pkg)
  <2>1. /\ committed' \in DbLists /\ Owned(committed)' \in Values /\ work' = work /\ live' = live
        /\ dirty' = dirty \ pkg /\ dbStaged'
    BY <1>3, <1>4, <1>7, DbCommitsOne
  <2>2. ASSUME tx' \in DbTxs, budget' \in [{"failures", "crashes", "losses", "edits"} -> Nat] PROVE dbTyped'
    BY <1>3, <1>5, <2>1, <2>2 DEF dbTyped, Owned
  <2>3. ~edited => Explained(Owned(work)', file)
    BY <1>6, <2>1 DEF Owned
  <2>4. CASE UNCHANGED budget /\ tx' = [tx EXCEPT !.stage = IF pkg = Network THEN "guard dhcp" ELSE "reload"]
    <3>1. PICK st \in {"guard dhcp", "reload"} : st = IF pkg = Network THEN "guard dhcp" ELSE "reload"
      OBVIOUS
    <3>2. tx' = [tx EXCEPT !.stage = st]
      BY <2>4, <3>1
    <3>3. tx' \in DbTxs /\ tx'.stage = st /\ tx'.desired = tx.desired
      BY <1>3, <3>2, DbMoves
    <3>4. st = "reload" => pkg = Dhcp /\ tx.stage = "commit dhcp"
      BY <1>1, <1>2, <3>1 DEF Network, Dhcp
    <3>5. st = "guard dhcp" => pkg = Network
      BY <3>1
    <3>6. ASSUME ~edited PROVE dbProgress'
      <4>1. Owned(work) = tx.desired /\ (tx.stage = "commit dhcp" => "network.dns" \notin dirty)
        BY <1>2, <3>6 DEF dbIInv, dbProgress
      <4>2. st = "guard dhcp" => "network.dns" \notin dirty'
        BY <2>1, <3>5 DEF Network
      <4>3. st = "reload" => dirty' \cap Managed = {}
        BY <2>1, <3>4, <4>1 DEF Dhcp, Managed
      <4>4. Owned(work)' = tx'.desired
        BY <2>1, <3>3, <4>1 DEF Owned
      <4> QED BY <3>3, <4>2, <4>3, <4>4 DEF dbProgress
    <3>7. dbTyped'
      BY <1>3, <2>2, <2>4, <3>3
    <3> QED BY <1>2, <1>3, <2>1, <2>3, <3>2, <3>6, <3>7, DbAdvances
  <2>5. CASE tx' = Fail(tx) /\ Spend("failures", MaxFailures)
    <3>1. budget' \in [{"failures", "crashes", "losses", "edits"} -> Nat] /\ tx' \in DbTxs
      BY <1>3, <2>5, DbSpends, DbFailTyped
    <3> QED BY <1>2, <1>3, <2>1, <2>2, <2>3, <2>5, <3>1, DbFails
  <2> QED BY <1>2, <2>4, <2>5 DEF Failing
<1>8. CASE ~CommitPackage(pkg)
  <2>1. tx' = Fail(tx) /\ Spend("failures", MaxFailures) /\ UNCHANGED <<uci, live>>
    BY <1>2, <1>8 DEF Failing
  <2>2. budget' \in [{"failures", "crashes", "losses", "edits"} -> Nat]
    BY <1>3, <2>1, DbSpends
  <2> QED BY <1>2, <1>3, <2>1, <2>2, DbFailsQuietly
<1> QED BY <1>7, <1>8

\* The services load what is committed.
LEMMA DbReloads == ASSUME dbIInv, Reload PROVE dbIInv'
<1> DEFINE loaded(keys) == [k \in Managed |-> IF k \in keys THEN committed[k] ELSE live[k]]
<1>1. /\ tx.stage = "reload" /\ UNCHANGED <<file, history>>
      /\ \/ live' = loaded(Managed) /\ UNCHANGED <<uci, budget>> /\ tx' = [tx EXCEPT !.stage = "verify"]
         \/ /\ Spend("failures", MaxFailures) /\ tx' = Fail(tx)
            /\ \/ UNCHANGED <<uci, live>>
               \/ UNCHANGED uci /\ (live' = loaded(Network) \/ live' = loaded(Managed))
  BY DEF Reload, Failing
<1>2. dbRuns /\ dbTyped /\ dbStaged /\ tx \in DbTxs /\ budget \in [{"failures", "crashes", "losses", "edits"} -> Nat]
  BY <1>1 DEF dbRuns, dbIInv, dbTyped
<1>3. UNCHANGED <<file, original, edited>>
  BY <1>1 DEF history
<1>4. ~edited => Explained(Owned(work), file)
  BY <1>2, DbRunsPending, DbRunsExplained
<1>5. ASSUME NEW keys PROVE loaded(keys) \in Values
  <2>1. \A k \in Managed : committed[k] \in Seq(Words) /\ live[k] \in Seq(Words)
    BY <1>2 DEF dbTyped, Owned, Values
  <2> QED BY <2>1 DEF Values
<1>6. loaded(Managed) = Owned(committed)
  BY DEF Owned
<1> HIDE DEF loaded
<1>7. CASE live' = loaded(Managed) /\ UNCHANGED <<uci, budget>> /\ tx' = [tx EXCEPT !.stage = "verify"]
  <2>1. UNCHANGED <<committed, work, dirty>>
    BY <1>7 DEF uci
  <2>2. tx' \in DbTxs /\ tx'.stage = "verify" /\ tx'.desired = tx.desired
    BY <1>2, <1>7, DbMoves
  <2>3. live' \in Values
    BY <1>5, <1>7
  <2>4. dbTyped' /\ dbStaged'
    BY <1>2, <1>3, <1>7, <2>1, <2>2, <2>3 DEF dbTyped, dbStaged, Owned
  <2>5. ASSUME ~edited PROVE dbProgress' /\ Explained(Owned(work)', file)
    <3>1. Owned(work) = tx.desired /\ dirty \cap Managed = {}
      BY <1>1, <2>5 DEF dbIInv, dbProgress
    <3>2. Owned(committed) = tx.desired
      <4>1. \A k \in Managed : work[k] = committed[k]
        BY <1>2, <3>1 DEF dbStaged, Options
      <4> QED BY <3>1, <4>1 DEF Owned
    <3>3. live' = tx'.desired
      BY <1>6, <1>7, <2>2, <3>2
    <3>4. Owned(work)' = tx'.desired /\ Explained(Owned(work)', file)
      BY <1>4, <2>1, <2>2, <2>5, <3>1 DEF Owned
    <3> QED BY <2>1, <2>2, <3>1, <3>3, <3>4 DEF dbProgress
  <2> QED BY <1>1, <1>2, <1>7, <2>4, <2>5, DbAdvances
<1>8. CASE /\ tx' = Fail(tx) /\ Spend("failures", MaxFailures) /\ UNCHANGED uci
           /\ live' = live \/ \E keys : live' = loaded(keys)
  <2>1. budget' \in [{"failures", "crashes", "losses", "edits"} -> Nat] /\ tx' \in DbTxs
    BY <1>2, <1>8, DbSpends, DbFailTyped
  <2>2. UNCHANGED <<committed, work, dirty>> /\ live' \in Values
    BY <1>2, <1>5, <1>8 DEF uci, dbTyped
  <2>3. dbTyped' /\ dbStaged'
    BY <1>2, <1>3, <2>1, <2>2 DEF dbTyped, dbStaged, Owned
  <2>4. ~edited => Explained(Owned(work)', file)
    BY <1>4, <2>2 DEF Owned
  <2> QED BY <1>1, <1>2, <1>8, <2>3, <2>4, DbFails
<1> QED BY <1>1, <1>7, <1>8

-----------------------------------------------------------------------------
\* A crash leaves what is done.
LEMMA DbCrashes == ASSUME dbIInv, dbCrash PROVE dbIInv'
<1>1. Spend("crashes", MaxCrashes) /\ tx' = dbIdle /\ UNCHANGED <<uci, live, file, history>>
  BY DEF dbCrash
<1>2. /\ budget' \in [{"failures", "crashes", "losses", "edits"} -> Nat]
      /\ budget'["losses"] = 0 => budget["losses"] = 0
  BY <1>1, DbSpends DEF dbIInv, dbTyped
<1> QED BY <1>1, <1>2, DbStays

\* A reboot forgets what was staged, and loads what is committed.
LEMMA DbLosesPower == ASSUME dbIInv, PowerLoss PROVE dbIInv'
<1>1. /\ Spend("losses", MaxPowerLosses) /\ tx' = dbIdle /\ work' = committed /\ dirty' = {} /\ live' = Owned(committed)
      /\ UNCHANGED <<committed, file, original, edited>>
  BY DEF PowerLoss, history
<1>2. budget' \in [{"failures", "crashes", "losses", "edits"} -> Nat] /\ budget'["losses"] # 0
  BY <1>1, DbSpends DEF dbIInv, dbTyped
<1>3. dbTyped'
  BY <1>1, <1>2, DbIdles DEF dbIInv, dbTyped, Owned
<1>4. dbStaged' /\ dbFiled' /\ dbPlanned'
  BY <1>1, DbIdles DEF dbIInv, dbStaged, dbFiled, dbPlanned, dbRuns
<1>5. ASSUME ~edited PROVE dbKept' /\ dbSettled' /\ dbProgress' /\ dbExplained' /\ dbCurrent'
  <2>1. dbKept' /\ dbProgress' /\ dbCurrent' /\ dbExplained'
    BY <1>1, <1>2, <1>5, DbIdles DEF dbIInv, dbKept, dbProgress, dbCurrent, dbExplained
  <2>2. dbSettled'
    BY <1>1, <1>5 DEF dbIInv, dbSettled, dbTruth, Owned
  <2> QED BY <2>1, <2>2
<1> QED BY <1>1, <1>3, <1>4, <1>5 DEF dbIInv

\* Others leave our options as they are in the staging area, and commit at most what is staged.
LEMMA DbOthers ==
  ASSUME dbIInv, committed' \in DbLists, work' \in DbLists, dirty' \subseteq Options, dbStaged',
         \A k \in Managed : work'[k] = work[k] /\ committed'[k] \in {committed[k], work[k]},
         dirty' \cap Managed \subseteq dirty, UNCHANGED <<live, file, tx, history>>,
         budget' \in [{"failures", "crashes", "losses", "edits"} -> Nat], budget'["losses"] = 0 => budget["losses"] = 0
  PROVE  dbIInv'
<1>1. UNCHANGED <<live, file, tx, original, edited>>
  BY DEF history
<1>2. Owned(work)' = Owned(work)
  BY DEF Owned
<1>3. \A k \in Managed : committed[k] \in Seq(Words) /\ work[k] \in Seq(Words)
  BY DEF dbIInv, dbTyped, Owned, Values
<1>4. Owned(committed)' \in Values
  BY <1>3 DEF Owned, Values
<1>5. dbTyped'
  BY <1>1, <1>2, <1>4 DEF dbIInv, dbTyped
<1>6. dbFiled' /\ dbPlanned'
  BY <1>1 DEF dbIInv, dbFiled, dbPlanned, dbRuns, Explained
<1>7. ASSUME ~edited PROVE dbKept' /\ dbSettled' /\ dbProgress' /\ dbExplained' /\ dbCurrent'
  <2>1. dbKept' /\ dbCurrent'
    BY <1>1, <1>7 DEF dbIInv, dbKept, dbCurrent, dbTruth, Explained
  <2>2. dbSettled'
    <3>1. ASSUME ~file.pending
          PROVE  Owned(committed)' = dbTruth(file) /\ Owned(work)' = dbTruth(file) /\ live' = dbTruth(file)
                 /\ dirty' \cap Managed = {}
      <4>1. Owned(committed) = dbTruth(file) /\ Owned(work) = dbTruth(file) /\ live = dbTruth(file)
            /\ dirty \cap Managed = {}
        BY <1>7, <3>1 DEF dbIInv, dbSettled
      <4>2. \A k \in Managed : committed[k] = work[k]
        BY <4>1 DEF Owned
      <4>3. Owned(committed)' = Owned(committed)
        BY <4>2 DEF Owned
      <4> QED BY <1>1, <1>2, <4>1, <4>3
    <3> QED BY <1>1, <3>1 DEF dbSettled, dbTruth
  <2>3. dbProgress'
    <3>1. dbProgress
      BY <1>7 DEF dbIInv
    <3>2. ASSUME tx.stage = "replace", NEW k \in Managed
          PROVE  /\ k \notin tx'.todo => work'[k] = tx'.desired[k]
                 /\ k \in tx'.todo =>
                      IF k = FirstKey(tx'.todo) /\ tx'.deleted THEN DbPartial(work'[k], tx'.desired[k], tx'.count)
                      ELSE work'[k] = tx'.current[k]
                 /\ k \in tx'.todo /\ ~tx'.deleted => tx'.count = 0
      BY <1>1, <3>1, <3>2 DEF dbProgress
    <3>3. /\ tx.stage = "pending" => Owned(work)' = tx.before
          /\ tx.stage \in {"guard network", "commit network", "guard dhcp", "commit dhcp", "reload", "verify", "finish"}
                => Owned(work)' = tx.desired
          /\ tx.stage \in {"guard dhcp", "commit dhcp"} => "network.dns" \notin dirty'
          /\ tx.stage \in {"reload", "verify", "finish"} => dirty' \cap Managed = {}
          /\ tx.stage \in {"verify", "finish"} => live = tx.desired
      BY <1>2, <3>1 DEF dbProgress, Managed
    <3> QED BY <1>1, <3>2, <3>3 DEF dbProgress, DbPartial
  <2>4. dbExplained'
    <3>1. dbExplained
      BY <1>7 DEF dbIInv
    <3>2. file.exists /\ (tx.stage # "idle" \/ budget'["losses"] = 0) => Explained(Owned(work)', file)
      BY <1>2, <3>1 DEF dbExplained
    <3> QED BY <1>1, <3>2 DEF dbExplained, Explained
  <2> QED BY <2>1, <2>2, <2>3, <2>4
<1> QED BY <1>1, <1>5, <1>6, <1>7 DEF dbIInv

\* Another user of the staging area.
LEMMA DbOthersStep == ASSUME dbIInv, StageOther \/ RevertOther \/ CommitOther PROVE dbIInv'
<1>1. dbTyped /\ dbStaged /\ committed \in DbLists /\ work \in DbLists /\ dirty \subseteq Options
      /\ budget \in [{"failures", "crashes", "losses", "edits"} -> Nat]
  BY DEF dbIInv, dbTyped
<1>2. Other \in Options /\ Other \notin Managed /\ Managed \subseteq Options
  BY DEF Other, Options, Managed
<1>3. CASE StageOther
  <2>1. /\ work' = [work EXCEPT ![Other] = <<"other">>] /\ dirty' = dirty \cup {Other} /\ Spend("edits", MaxEdits)
        /\ UNCHANGED <<committed, live, file, tx, history>>
    BY <1>3 DEF StageOther
  <2>2. /\ budget' \in [{"failures", "crashes", "losses", "edits"} -> Nat]
        /\ budget'["losses"] = 0 => budget["losses"] = 0
    BY <1>1, <2>1, DbSpends
  <2>3. <<"other">> \in Seq(Words \cup {"other"})
    OBVIOUS
  <2>4. work' \in DbLists /\ \A k \in Options \ {Other} : work'[k] = work[k]
    BY <1>1, <2>1, <2>3 DEF DbLists
  <2>5. dbStaged' /\ dirty' \subseteq Options /\ dirty' \cap Managed \subseteq dirty
    BY <1>1, <1>2, <2>1, <2>4 DEF dbStaged
  <2>6. \A k \in Managed : work'[k] = work[k] /\ committed'[k] \in {committed[k], work[k]}
    BY <1>2, <2>1, <2>4
  <2> QED BY <1>1, <2>1, <2>2, <2>4, <2>5, <2>6, DbOthers
<1>4. CASE RevertOther
  <2>1. /\ work' = [work EXCEPT ![Other] = committed[Other]] /\ dirty' = dirty \ {Other}
        /\ UNCHANGED <<committed, live, file, tx, history, budget>>
    BY <1>4 DEF RevertOther
  <2>2. committed[Other] \in Seq(Words \cup {"other"})
    BY <1>1, <1>2 DEF DbLists
  <2>3. work' \in DbLists /\ work'[Other] = committed[Other] /\ \A k \in Options \ {Other} : work'[k] = work[k]
    BY <1>1, <1>2, <2>1, <2>2 DEF DbLists
  <2>4. dbStaged' /\ dirty' \subseteq Options /\ dirty' \cap Managed \subseteq dirty
    BY <1>1, <2>1, <2>3 DEF dbStaged
  <2>5. \A k \in Managed : work'[k] = work[k] /\ committed'[k] \in {committed[k], work[k]}
    BY <1>2, <2>1, <2>3
  <2> QED BY <1>1, <2>1, <2>3, <2>4, <2>5, DbOthers
<1>5. CASE CommitOther
  <2>1. CommitPackage(Dhcp) /\ UNCHANGED <<file, tx, history, budget>> /\ Dhcp \in SUBSET Options
    BY <1>5 DEF CommitOther, Dhcp, Options, Managed
  <2>2. /\ committed' \in DbLists /\ work' = work /\ live' = live /\ dirty' = dirty \ Dhcp /\ dbStaged'
        /\ \A k \in Managed : committed'[k] \in {committed[k], work[k]}
    BY <1>1, <2>1, DbCommitsOne
  <2> QED BY <1>1, <2>1, <2>2, DbOthers
<1> QED BY <1>3, <1>4, <1>5

\* An administrator's edit is a new original, or the end of what the panel answers for.
LEMMA DbEdits == ASSUME dbIInv, NEW k \in Managed, EditManaged(k) PROVE dbIInv'
<1>1. PICK fresh : fresh = (~file.exists /\ tx = dbIdle)
  OBVIOUS
<1>2. /\ k \notin dirty /\ Spend("edits", MaxEdits)
      /\ work' = [work EXCEPT ![k] = <<"foreign">>] /\ committed' = [committed EXCEPT ![k] = <<"foreign">>]
      /\ live' = [live EXCEPT ![k] = <<"foreign">>]
      /\ original' = (IF fresh THEN [original EXCEPT ![k] = <<"foreign">>] ELSE original)
      /\ edited' = (edited \/ ~fresh) /\ UNCHANGED <<dirty, file, tx>>
  BY <1>1 DEF EditManaged
<1>3. dbTyped /\ dbStaged /\ k \in Options
  BY DEF dbIInv, Options
<1>4. budget' \in [{"failures", "crashes", "losses", "edits"} -> Nat] /\ (budget'["losses"] = 0 => budget["losses"] = 0)
  BY <1>2, <1>3, DbSpends DEF dbTyped
<1>5. PICK v : v = <<"foreign">>
  OBVIOUS
<1>6. v \in Seq(Words) /\ v \in Seq(Words \cup {"other"})
  <2>1. "foreign" \in Words
    BY DEF Words
  <2> QED BY <1>5, <2>1
<1>7. /\ work' \in DbLists /\ work'[k] = v /\ \A j \in Options \ {k} : work'[j] = work[j]
      /\ committed' \in DbLists /\ committed'[k] = v /\ \A j \in Options \ {k} : committed'[j] = committed[j]
  BY <1>2, <1>3, <1>5, <1>6 DEF dbTyped, DbLists
<1>8. /\ live' \in Values /\ live'[k] = v /\ \A j \in Managed \ {k} : live'[j] = live[j]
      /\ original' \in Values /\ (fresh => original'[k] = v /\ \A j \in Managed \ {k} : original'[j] = original[j])
  BY <1>2, <1>3, <1>5, <1>6 DEF dbTyped, Values
<1>9. \A j \in Managed : work[j] \in Seq(Words) /\ committed[j] \in Seq(Words) /\ j \in Options
  BY <1>3 DEF dbTyped, Owned, Values, Options
<1>10. Owned(work)' \in Values /\ Owned(committed)' \in Values
  <2>1. \A j \in Managed : work'[j] \in Seq(Words) /\ committed'[j] \in Seq(Words)
    BY <1>6, <1>7, <1>9
  <2> QED BY <2>1 DEF Owned, Values
<1>11. edited' \in BOOLEAN
  BY <1>2, Zenon
<1>12. dbTyped'
  BY <1>2, <1>3, <1>4, <1>7, <1>8, <1>10, <1>11 DEF dbTyped
<1>13. dbStaged'
  BY <1>2, <1>3, <1>7 DEF dbStaged
<1>14. dbFiled' /\ dbPlanned'
  BY <1>2 DEF dbIInv, dbFiled, dbPlanned, dbRuns, Explained
<1>15. ASSUME ~edited' PROVE dbKept' /\ dbSettled' /\ dbProgress' /\ dbExplained' /\ dbCurrent'
  <2>1. fresh /\ ~edited /\ ~file.exists /\ tx.stage = "idle" /\ ~file.pending
    BY <1>1, <1>2, <1>15, DbIdles DEF dbIInv, dbFiled
  <2>2. dbKept' /\ dbProgress' /\ dbExplained' /\ dbCurrent'
    BY <1>2, <2>1 DEF dbKept, dbProgress, dbExplained, dbCurrent
  <2>3. Owned(committed) = original /\ Owned(work) = original /\ live = original /\ dirty \cap Managed = {}
    BY <2>1 DEF dbIInv, dbSettled, dbTruth
  <2>4. \A j \in Managed : work'[j] = original'[j] /\ committed'[j] = original'[j] /\ live'[j] = original'[j]
    BY <1>7, <1>8, <1>9, <2>1, <2>3 DEF Owned
  <2>5. Owned(work)' = original' /\ Owned(committed)' = original' /\ live' = original'
    BY <1>8, <2>4 DEF Owned, Values
  <2>6. dbSettled'
    BY <1>2, <2>1, <2>3, <2>5 DEF dbSettled, dbTruth
  <2> QED BY <2>2, <2>6
<1> QED BY <1>12, <1>13, <1>14, <1>15 DEF dbIInv

\* Every step keeps the invariant.
LEMMA dbStep == ASSUME dbIInv, [dbNext]_dbVars PROVE dbIInv'
<1>1. CASE UNCHANGED dbVars
  <2>1. UNCHANGED <<committed, work, dirty, live, file, tx, original, edited, budget>>
    BY <1>1 DEF dbVars, uci, history
  <2>2. \A k \in Managed : work'[k] = work[k] /\ committed'[k] \in {committed[k], work[k]}
    BY <2>1
  <2>3. dbStaged'
    BY <2>1 DEF dbIInv, dbStaged
  <2> QED BY <2>1, <2>2, <2>3, DbOthers DEF dbIInv, dbTyped, history
<1>2. CASE dbNext
  BY <1>2, DbApplies, DbRestores, DbWritesPending, DbDeletes, DbAdds, DbKeysDone, DbGuards, DbCommits, DbReloads,
     DbVerifies, DbFinishes, DbRollsBack, DbCrashes, DbLosesPower, DbOthersStep, DbEdits DEF dbNext
<1> QED BY <1>1, <1>2

\* The invariant gives what the run checks.
LEMMA dbIInvIsSafe == dbIInv => BindingSafe
<1> SUFFICES ASSUME dbIInv PROVE BindingSafe
  OBVIOUS
<1>1. dbTypeOK
  <2>1. file.original \in Values /\ file.applied \in Values
    BY DEF dbIInv, dbTyped, DbFiles
  <2> QED BY <2>1 DEF dbIInv, dbTyped, dbStaged, dbFiled, dbTypeOK
<1>2. OriginalKept
  BY DEF dbIInv, dbKept, dbSettled, dbFiled, dbTruth, OriginalKept
<1>3. Settled
  BY DEF dbIInv, dbSettled, dbTruth, Settled
<1>4. CrashRecoverable
  BY DEF dbIInv, dbExplained, CrashRecoverable, Recoverable
<1> QED BY <1>1, <1>2, <1>3, <1>4 DEF BindingSafe

\* Whatever command, save or reload fails, whenever the panel or the router dies and whatever others stage or commit:
\* the file keeps the user's settings, a binding that is not marked pending is whole, and a half-made one is explained.
THEOREM BindingIsSafe == dbSpec => []BindingSafe
BY dbInitIInv, dbStep, dbIInvIsSafe, PTL DEF dbSpec

(***************************************************************************)
(* BypassRules                                                             *)
(***************************************************************************)

bySpec == byInit /\ [][byNext]_byVars

ByPlaces == {"idle", "lock", "read", "stage", "fill", "live", "jump", "swap", "commit", "unused", "clean", "done"}
ByStages == {"idle", "restore", "resolve", "cache", "hooks", "init", "chains", "helper", "waits"}
\* A helper that works with what it has read, and one that has not changed anything of its own yet.
ByWorking == {"stage", "fill", "live", "jump", "swap", "commit"}
ByRunRec == [at : ByPlaces, read : 0..ByEdits, sets : BOOLEAN, swapped : BOOLEAN, staged : BOOLEAN,
             jump : BOOLEAN, ok : BOOLEAN, before : Nat]
ByFwRec == [jump : BOOLEAN, chain : (1..ByEdits) \cup {byNone, byBySet}, live : Nat, stage : Nat]
ByPanelRec == [at : ByStages, read : 0..ByEdits, chains : BOOLEAN]
byTyped ==
    /\ byList \in 1..ByEdits /\ byCache \in [v : 0..ByEdits, young : BOOLEAN]
    /\ byHooked \in [fw : BOOLEAN, init : BOOLEAN] /\ byFw \in ByFwRec
    /\ byLock \in {"free", "stale"} \cup byHelpers /\ byRun \in [byHelpers -> ByRunRec]
    /\ byDue \in BOOLEAN /\ byPanel \in ByPanelRec /\ byFault \in Nat
\* The cache only grows, and nobody works without one.
byCached ==
    /\ byCache.v <= byList
    /\ byPanel.at = "cache" => byPanel.read \in 1..byList /\ byCache.v <= byPanel.read
    /\ byDue \/ byHooked.fw \/ byHooked.init \/ byPanel.at \in {"hooks", "init", "chains", "helper", "waits"}
        => byCache.v # 0
    /\ \A p \in byHelpers : byRun[p].at # "idle" => byRun[p].read \in 1..byCache.v
byLocked == \A p \in byHelpers : byInside(p) => byLock = p
\* What a helper has staged, swapped and failed at.
byStaged ==
    \A p \in byHelpers :
        /\ byRun[p].at \in {"live", "swap"} => byRun[p].sets
        /\ byRun[p].at \in {"live", "jump", "swap"} /\ byRun[p].sets => byFw.stage = byRun[p].read
        /\ byRun[p].at = "commit" => byRun[p].swapped = byRun[p].sets
        /\ byRun[p].swapped => byRun[p].at \in {"commit", "clean"} /\ byFw.live = byRun[p].read
        /\ byRun[p].at = "unused" => byFw.chain # byBySet
        /\ byRun[p].at = "clean" /\ byRun[p].swapped => ~byRun[p].ok
        /\ ~byRun[p].ok => byFault # 0 /\ byRun[p].at \in {"idle", "clean", "done"}
\* What was matched before a helper began, and is again when it has failed and cleaned up.
byOld(p) == IF byFw.chain # byBySet THEN byFw.chain ELSE IF byRun[p].swapped THEN byFw.stage ELSE byFw.live
byKept ==
    \A p \in byHelpers :
        /\ byRun[p].at \in ByWorking \cup {"read"} \/ (byRun[p].at = "clean" /\ ~byRun[p].ok) => byRun[p].before = byOld(p)
        /\ byFw.chain # byNone /\ byRun[p].swapped => byOld(p) \in 1..byCache.v
        /\ byFw.chain # byNone /\ byRun[p].at \in ByWorking => content <= byRun[p].read
byPolicy == byFw.chain # byNone => content \in 1..byCache.v
\* The panel is going to run the helper; a helper is going to bring the jumps and the addresses up to date.
byWill == byPanel.at \in {"restore", "resolve", "cache", "hooks", "init", "chains", "helper"}
byFixes(p) ==
    \/ byRun[p].at \in {"lock", "read"}
    \/ byRun[p].at \in ByWorking /\ byRun[p].read = byCache.v
       /\ (byRun[p].at \in {"swap", "commit"} /\ byRun[p].jump => byFw.jump)
byBack ==
    byFault = 0 =>
        /\ byPanel.at = "init" => byHooked.fw
        /\ byPanel.at \in {"chains", "helper"} \/ (~byWill /\ byCache.v # 0) => byHooked.fw /\ byHooked.init
        /\ byCache.v # 0 /\ ~byWill /\ ~byDue =>
             \/ \E p \in byHelpers : byFixes(p)
             \/ byFw.jump /\ content = byCache.v /\ \A p \in byHelpers : byRun[p].at \notin ByWorking
byIInv == byTyped /\ byCached /\ byLocked /\ byStaged /\ byKept /\ byPolicy /\ byBack

LEMMA byConstants ==
    /\ 0 \in 0..ByEdits /\ byNone \in Nat /\ byPart \in Nat /\ byBySet \in Nat
    /\ byIdle \in ByRunRec /\ [byIdle EXCEPT !.ok = FALSE] \in ByRunRec
    /\ byNoPanel \in ByPanelRec /\ byApplying \in ByPanelRec /\ [byNoPanel EXCEPT !.at = "restore"] \in ByPanelRec
    /\ \A changed \in BOOLEAN : [at |-> "hooks", read |-> 0, chains |-> changed] \in ByPanelRec
    /\ 0 \notin {byNone, byBySet} /\ \A i \in 1..ByEdits : i \in Nat /\ i # byNone /\ i # byBySet /\ i \in 0..ByEdits
    /\ byNone # byBySet
<1>1. 0 \in 0..ByEdits /\ byNone \in Nat /\ byPart \in Nat /\ byBySet \in Nat
    BY ByAssumption DEF byNone, byPart, byBySet
<1>2. byIdle \in ByRunRec /\ [byIdle EXCEPT !.ok = FALSE] \in ByRunRec BY <1>1 DEF byIdle, ByRunRec, ByPlaces
<1>3. byNoPanel \in ByPanelRec /\ [byNoPanel EXCEPT !.at = "restore"] \in ByPanelRec /\ byApplying \in ByPanelRec
    BY <1>1 DEF byNoPanel, ByPanelRec, ByStages, byApplying
<1>4. \A changed \in BOOLEAN : [at |-> "hooks", read |-> 0, chains |-> changed] \in ByPanelRec
    BY <1>1 DEF ByPanelRec, ByStages
<1>5. /\ 0 \notin {byNone, byBySet} /\ \A i \in 1..ByEdits : i \in Nat /\ i # byNone /\ i # byBySet /\ i \in 0..ByEdits
      /\ byNone # byBySet
    BY ByAssumption DEF byNone, byBySet
<1> QED BY <1>1, <1>2, <1>3, <1>4, <1>5

LEMMA byContent == ASSUME byTyped PROVE content \in Nat
BY byConstants DEF byTyped, ByFwRec, content

LEMMA byTakeLockStep == ASSUME byIInv, NEW p \in byHelpers, byTakeLock(p) PROVE byIInv'
<1>1. byTyped'
    <2>1. byList' \in 1..ByEdits /\ byCache' \in [v : 0..ByEdits, young : BOOLEAN] /\ byHooked' \in [fw : BOOLEAN, init : BOOLEAN]
        BY ByAssumption, byConstants DEF byTakeLock, lockable, byIInv, byHelper, byFails, byHelpers, byTyped,
           byCached, ByPanelRec
    <2>2. byFw' \in ByFwRec
        BY ByAssumption, byConstants DEF byTakeLock, lockable, byIInv, byHelper, byFails, byHelpers, byTyped,
           ByFwRec, ByRunRec
    <2>3. byLock' \in {"free", "stale"} \cup byHelpers /\ byDue' \in BOOLEAN /\ byFault' \in Nat
        BY ByAssumption, byConstants DEF byTakeLock, lockable, byIInv, byHelper, byFails, byHelpers, byTyped
    <2>4. byRun' \in [byHelpers -> ByRunRec]
        <3>1. byRun[p] \in ByRunRec /\ byRun \in [byHelpers -> ByRunRec] BY DEF byIInv, byTyped
        <3>2. content \in Nat BY byContent DEF byIInv
        <3>3. \/ byRun' = [byRun EXCEPT ![p] = [byRun[p] EXCEPT !.at = "read", !.before = content]]
              \/ byRun' = [byRun EXCEPT ![p] = [byIdle EXCEPT !.ok = FALSE]]
            BY <3>1 DEF byTakeLock
        <3>4. [byRun[p] EXCEPT !.at = "read", !.before = content] \in ByRunRec BY <3>1, <3>2 DEF ByRunRec, ByPlaces
        <3> QED BY <3>1, <3>3, <3>4, byConstants
    <2>5. byPanel' \in ByPanelRec
        BY ByAssumption, byConstants DEF byTakeLock, lockable, byIInv, byHelper, byFails, byHelpers, byTyped,
           ByStages, ByPanelRec, byCached
    <2> QED BY <2>1, <2>2, <2>3, <2>4, <2>5 DEF byTyped
<1>2. byCached'
    BY ByAssumption DEF byTakeLock, lockable, byIInv, byHelper, byFails, byHelpers, byIdle, byTyped, byCached,
       ByPanelRec, ByFwRec, ByRunRec
<1>3. byLocked'
    BY ByAssumption DEF byTakeLock, lockable, byIInv, byHelper, byFails, byHelpers, byIdle, byTyped, byLocked,
       byInside, ByRunRec
<1>4. byStaged'
    BY ByAssumption DEF byTakeLock, lockable, byIInv, byHelper, byFails, byHelpers, byIdle, byTyped, byLocked,
       byStaged, byInside, ByFwRec, ByRunRec, ByPlaces, byNone, byBySet
<1>5. byKept'
    BY ByAssumption DEF byTakeLock, lockable, byIInv, byHelper, byFails, byHelpers, byIdle, byTyped, byLocked,
       byInside, byStaged, byCached, byPolicy, byKept, byOld, content, ByWorking, ByFwRec, ByRunRec, byNone,
       byBySet
<1>6. byPolicy'
    BY ByAssumption DEF byTakeLock, lockable, byIInv, byHelper, byFails, byHelpers, byIdle, byTyped, byCached,
       byPolicy, byStaged, byKept, byOld, content, ByFwRec, ByRunRec, byNone, byBySet, ByWorking
<1>7. byBack'
    BY ByAssumption DEF byTakeLock, lockable, byIInv, byHelper, byFails, byHelpers, byIdle, byTyped, byCached,
       byLocked, byInside, byStaged, byPolicy, byKept, byBack, byWill, byFixes, content, ByWorking, ByFwRec,
       ByRunRec, ByPanelRec, byNone, byBySet
<1> QED BY <1>1, <1>2, <1>3, <1>4, <1>5, <1>6, <1>7 DEF byIInv

LEMMA byReadStep == ASSUME byIInv, NEW p \in byHelpers, byRead(p) PROVE byIInv'
<1>1. byTyped'
    <2>1. byList' \in 1..ByEdits /\ byCache' \in [v : 0..ByEdits, young : BOOLEAN] /\ byHooked' \in [fw : BOOLEAN, init : BOOLEAN]
        BY ByAssumption, byConstants DEF byRead, addresses, byIInv, byHelper, byFails, byFail, byHelpers, byTyped,
           byCached, ByPanelRec
    <2>2. byFw' \in ByFwRec
        BY ByAssumption, byConstants DEF byRead, addresses, byIInv, byHelper, byFails, byFail, byHelpers, byTyped,
           ByFwRec, ByRunRec
    <2>3. byLock' \in {"free", "stale"} \cup byHelpers /\ byDue' \in BOOLEAN /\ byFault' \in Nat
        BY ByAssumption, byConstants DEF byRead, addresses, byIInv, byHelper, byFails, byFail, byHelpers, byTyped
    <2>4. byRun' \in [byHelpers -> ByRunRec]
        BY ByAssumption, byConstants, byContent DEF byRead, addresses, byIInv, byHelper, byFails, byFail,
           byHelpers, byTyped, ByRunRec, ByPlaces
    <2>5. byPanel' \in ByPanelRec
        BY ByAssumption, byConstants DEF byRead, addresses, byIInv, byHelper, byFails, byFail, byHelpers, byTyped,
           ByStages, ByPanelRec, byCached
    <2> QED BY <2>1, <2>2, <2>3, <2>4, <2>5 DEF byTyped
<1>2. byCached'
    BY ByAssumption DEF byRead, addresses, byIInv, byHelper, byFails, byFail, byHelpers, byTyped, byCached,
       ByPanelRec, ByFwRec, ByRunRec
<1>3. byLocked'
    BY ByAssumption DEF byRead, addresses, byIInv, byHelper, byFails, byFail, byHelpers, byTyped, byLocked,
       byInside, ByRunRec
<1>4. byStaged'
    BY ByAssumption DEF byRead, addresses, byIInv, byHelper, byFails, byFail, byHelpers, byTyped, byLocked,
       byStaged, byInside, ByFwRec, ByRunRec, ByPlaces, byNone, byBySet
<1>5. byKept'
    BY ByAssumption DEF byRead, addresses, byIInv, byHelper, byFails, byFail, byHelpers, byTyped, byLocked,
       byInside, byStaged, byCached, byPolicy, byKept, byOld, content, ByWorking, ByFwRec, ByRunRec, byNone,
       byBySet
<1>6. byPolicy'
    BY ByAssumption DEF byRead, addresses, byIInv, byHelper, byFails, byFail, byHelpers, byTyped, byCached,
       byPolicy, byStaged, byKept, byOld, content, ByFwRec, ByRunRec, byNone, byBySet, ByWorking
<1>7. byBack'
    BY ByAssumption DEF byRead, addresses, byIInv, byHelper, byFails, byFail, byHelpers, byTyped, byCached,
       byLocked, byInside, byStaged, byPolicy, byKept, byBack, byWill, byFixes, content, ByWorking, ByFwRec,
       ByRunRec, ByPanelRec, byNone, byBySet
<1> QED BY <1>1, <1>2, <1>3, <1>4, <1>5, <1>6, <1>7 DEF byIInv

LEMMA byStageStep == ASSUME byIInv, NEW p \in byHelpers, byStage(p) PROVE byIInv'
<1>1. byTyped'
    <2>1. byList' \in 1..ByEdits /\ byCache' \in [v : 0..ByEdits, young : BOOLEAN] /\ byHooked' \in [fw : BOOLEAN, init : BOOLEAN]
        BY ByAssumption, byConstants DEF byStage, byIInv, byHelper, byFails, byFail, byTo, byHelpers, byTyped,
           byCached, ByPanelRec
    <2>2. byFw' \in ByFwRec
        BY ByAssumption, byConstants DEF byStage, byIInv, byHelper, byFails, byFail, byTo, byHelpers, byTyped,
           ByFwRec, ByRunRec
    <2>3. byLock' \in {"free", "stale"} \cup byHelpers /\ byDue' \in BOOLEAN /\ byFault' \in Nat
        BY ByAssumption, byConstants DEF byStage, byIInv, byHelper, byFails, byFail, byTo, byHelpers, byTyped
    <2>4. byRun' \in [byHelpers -> ByRunRec]
        BY ByAssumption, byConstants, byContent DEF byStage, byIInv, byHelper, byFails, byFail, byTo, byHelpers,
           byTyped, ByRunRec, ByPlaces
    <2>5. byPanel' \in ByPanelRec
        BY ByAssumption, byConstants DEF byStage, byIInv, byHelper, byFails, byFail, byTo, byHelpers, byTyped,
           ByStages, ByPanelRec, byCached
    <2> QED BY <2>1, <2>2, <2>3, <2>4, <2>5 DEF byTyped
<1>2. byCached'
    BY ByAssumption DEF byStage, byIInv, byHelper, byFails, byFail, byTo, byHelpers, byTyped, byCached,
       ByPanelRec, ByFwRec, ByRunRec
<1>3. byLocked'
    BY ByAssumption DEF byStage, byIInv, byHelper, byFails, byFail, byTo, byHelpers, byTyped, byLocked, byInside,
       ByRunRec
<1>4. byStaged'
    BY ByAssumption DEF byStage, byIInv, byHelper, byFails, byFail, byTo, byHelpers, byTyped, byLocked, byStaged,
       byInside, ByFwRec, ByRunRec, ByPlaces, byNone, byBySet
<1>5. byKept'
    BY ByAssumption DEF byStage, byIInv, byHelper, byFails, byFail, byTo, byHelpers, byTyped, byLocked, byInside,
       byStaged, byCached, byPolicy, byKept, byOld, content, ByWorking, ByFwRec, ByRunRec, byNone, byBySet
<1>6. byPolicy'
    BY ByAssumption DEF byStage, byIInv, byHelper, byFails, byFail, byTo, byHelpers, byTyped, byCached, byPolicy,
       byStaged, byKept, byOld, content, ByFwRec, ByRunRec, byNone, byBySet, ByWorking
<1>7. byBack'
    BY ByAssumption DEF byStage, byIInv, byHelper, byFails, byFail, byTo, byHelpers, byTyped, byCached, byLocked,
       byInside, byStaged, byPolicy, byKept, byBack, byWill, byFixes, content, ByWorking, ByFwRec, ByRunRec,
       ByPanelRec, byNone, byBySet
<1> QED BY <1>1, <1>2, <1>3, <1>4, <1>5, <1>6, <1>7 DEF byIInv

LEMMA byFillStep == ASSUME byIInv, NEW p \in byHelpers, byFill(p) PROVE byIInv'
<1>1. byTyped'
    <2>1. byList' \in 1..ByEdits /\ byCache' \in [v : 0..ByEdits, young : BOOLEAN] /\ byHooked' \in [fw : BOOLEAN, init : BOOLEAN]
        BY ByAssumption, byConstants DEF byFill, filled, byIInv, byHelper, byFails, byFail, byTo, byHelpers,
           byTyped, byCached, ByPanelRec
    <2>2. byFw' \in ByFwRec
        BY ByAssumption, byConstants DEF byFill, filled, byIInv, byHelper, byFails, byFail, byTo, byHelpers,
           byTyped, ByFwRec, ByRunRec
    <2>3. byLock' \in {"free", "stale"} \cup byHelpers /\ byDue' \in BOOLEAN /\ byFault' \in Nat
        BY ByAssumption, byConstants DEF byFill, filled, byIInv, byHelper, byFails, byFail, byTo, byHelpers,
           byTyped
    <2>4. byRun' \in [byHelpers -> ByRunRec]
        BY ByAssumption, byConstants, byContent DEF byFill, filled, byIInv, byHelper, byFails, byFail, byTo,
           byHelpers, byTyped, ByRunRec, ByPlaces
    <2>5. byPanel' \in ByPanelRec
        BY ByAssumption, byConstants DEF byFill, filled, byIInv, byHelper, byFails, byFail, byTo, byHelpers,
           byTyped, ByStages, ByPanelRec, byCached
    <2> QED BY <2>1, <2>2, <2>3, <2>4, <2>5 DEF byTyped
<1>2. byCached'
    BY ByAssumption DEF byFill, filled, byIInv, byHelper, byFails, byFail, byTo, byHelpers, byTyped, byCached,
       ByPanelRec, ByFwRec, ByRunRec
<1>3. byLocked'
    BY ByAssumption DEF byFill, filled, byIInv, byHelper, byFails, byFail, byTo, byHelpers, byTyped, byLocked,
       byInside, ByRunRec
<1>4. byStaged'
    BY ByAssumption DEF byFill, filled, byIInv, byHelper, byFails, byFail, byTo, byHelpers, byTyped, byLocked,
       byStaged, byInside, ByFwRec, ByRunRec, ByPlaces, byNone, byBySet
<1>5. byKept'
    BY ByAssumption DEF byFill, filled, byIInv, byHelper, byFails, byFail, byTo, byHelpers, byTyped, byLocked,
       byInside, byStaged, byCached, byPolicy, byKept, byOld, content, ByWorking, ByFwRec, ByRunRec, byNone,
       byBySet
<1>6. byPolicy'
    BY ByAssumption DEF byFill, filled, byIInv, byHelper, byFails, byFail, byTo, byHelpers, byTyped, byCached,
       byPolicy, byStaged, byKept, byOld, content, ByFwRec, ByRunRec, byNone, byBySet, ByWorking
<1>7. byBack'
    BY ByAssumption DEF byFill, filled, byIInv, byHelper, byFails, byFail, byTo, byHelpers, byTyped, byCached,
       byLocked, byInside, byStaged, byPolicy, byKept, byBack, byWill, byFixes, content, ByWorking, ByFwRec,
       ByRunRec, ByPanelRec, byNone, byBySet
<1> QED BY <1>1, <1>2, <1>3, <1>4, <1>5, <1>6, <1>7 DEF byIInv

LEMMA byLiveStep == ASSUME byIInv, NEW p \in byHelpers, byLive(p) PROVE byIInv'
<1>1. byTyped'
    <2>1. byList' \in 1..ByEdits /\ byCache' \in [v : 0..ByEdits, young : BOOLEAN] /\ byHooked' \in [fw : BOOLEAN, init : BOOLEAN]
        BY ByAssumption, byConstants DEF byLive, byIInv, byHelper, byFails, byFail, byTo, byHelpers, byTyped,
           byCached, ByPanelRec
    <2>2. byFw' \in ByFwRec
        BY ByAssumption, byConstants DEF byLive, byIInv, byHelper, byFails, byFail, byTo, byHelpers, byTyped,
           ByFwRec, ByRunRec
    <2>3. byLock' \in {"free", "stale"} \cup byHelpers /\ byDue' \in BOOLEAN /\ byFault' \in Nat
        BY ByAssumption, byConstants DEF byLive, byIInv, byHelper, byFails, byFail, byTo, byHelpers, byTyped
    <2>4. byRun' \in [byHelpers -> ByRunRec]
        BY ByAssumption, byConstants, byContent DEF byLive, byIInv, byHelper, byFails, byFail, byTo, byHelpers,
           byTyped, ByRunRec, ByPlaces
    <2>5. byPanel' \in ByPanelRec
        BY ByAssumption, byConstants DEF byLive, byIInv, byHelper, byFails, byFail, byTo, byHelpers, byTyped,
           ByStages, ByPanelRec, byCached
    <2> QED BY <2>1, <2>2, <2>3, <2>4, <2>5 DEF byTyped
<1>2. byCached'
    BY ByAssumption DEF byLive, byIInv, byHelper, byFails, byFail, byTo, byHelpers, byTyped, byCached, ByPanelRec,
       ByFwRec, ByRunRec
<1>3. byLocked'
    BY ByAssumption DEF byLive, byIInv, byHelper, byFails, byFail, byTo, byHelpers, byTyped, byLocked, byInside,
       ByRunRec
<1>4. byStaged'
    BY ByAssumption DEF byLive, byIInv, byHelper, byFails, byFail, byTo, byHelpers, byTyped, byLocked, byStaged,
       byInside, ByFwRec, ByRunRec, ByPlaces, byNone, byBySet
<1>5. byKept'
    BY ByAssumption DEF byLive, byIInv, byHelper, byFails, byFail, byTo, byHelpers, byTyped, byLocked, byInside,
       byStaged, byCached, byPolicy, byKept, byOld, content, ByWorking, ByFwRec, ByRunRec, byNone, byBySet
<1>6. byPolicy'
    BY ByAssumption DEF byLive, byIInv, byHelper, byFails, byFail, byTo, byHelpers, byTyped, byCached, byPolicy,
       byStaged, byKept, byOld, content, ByFwRec, ByRunRec, byNone, byBySet, ByWorking
<1>7. byBack'
    BY ByAssumption DEF byLive, byIInv, byHelper, byFails, byFail, byTo, byHelpers, byTyped, byCached, byLocked,
       byInside, byStaged, byPolicy, byKept, byBack, byWill, byFixes, content, ByWorking, ByFwRec, ByRunRec,
       ByPanelRec, byNone, byBySet
<1> QED BY <1>1, <1>2, <1>3, <1>4, <1>5, <1>6, <1>7 DEF byIInv

LEMMA byJumpStep == ASSUME byIInv, NEW p \in byHelpers, byJump(p) PROVE byIInv'
<1>1. byTyped'
    <2>1. byList' \in 1..ByEdits /\ byCache' \in [v : 0..ByEdits, young : BOOLEAN] /\ byHooked' \in [fw : BOOLEAN, init : BOOLEAN]
        BY ByAssumption, byConstants DEF byJump, byIInv, byHelper, byHelpers, byTyped, byCached, ByPanelRec
    <2>2. byFw' \in ByFwRec
        BY ByAssumption, byConstants DEF byJump, byIInv, byHelper, byHelpers, byTyped, ByFwRec, ByRunRec
    <2>3. byLock' \in {"free", "stale"} \cup byHelpers /\ byDue' \in BOOLEAN /\ byFault' \in Nat
        BY ByAssumption, byConstants DEF byJump, byIInv, byHelper, byHelpers, byTyped
    <2>4. byRun' \in [byHelpers -> ByRunRec]
        BY ByAssumption, byConstants, byContent DEF byJump, byIInv, byHelper, byHelpers, byTyped, ByRunRec,
           ByPlaces
    <2>5. byPanel' \in ByPanelRec
        BY ByAssumption, byConstants DEF byJump, byIInv, byHelper, byHelpers, byTyped, ByStages, ByPanelRec,
           byCached
    <2> QED BY <2>1, <2>2, <2>3, <2>4, <2>5 DEF byTyped
<1>2. byCached'
    BY ByAssumption DEF byJump, byIInv, byHelper, byHelpers, byTyped, byCached, ByPanelRec, ByFwRec, ByRunRec
<1>3. byLocked' BY ByAssumption DEF byJump, byIInv, byHelper, byHelpers, byTyped, byLocked, byInside, ByRunRec
<1>4. byStaged'
    BY ByAssumption DEF byJump, byIInv, byHelper, byHelpers, byTyped, byLocked, byStaged, byInside, ByFwRec,
       ByRunRec, ByPlaces, byNone, byBySet
<1>5. byKept'
    BY ByAssumption DEF byJump, byIInv, byHelper, byHelpers, byTyped, byLocked, byInside, byStaged, byCached,
       byPolicy, byKept, byOld, content, ByWorking, ByFwRec, ByRunRec, byNone, byBySet
<1>6. byPolicy'
    BY ByAssumption DEF byJump, byIInv, byHelper, byHelpers, byTyped, byCached, byPolicy, byStaged, byKept, byOld,
       content, ByFwRec, ByRunRec, byNone, byBySet, ByWorking
<1>7. byBack'
    BY ByAssumption DEF byJump, byIInv, byHelper, byHelpers, byTyped, byCached, byLocked, byInside, byStaged,
       byPolicy, byKept, byBack, byWill, byFixes, content, ByWorking, ByFwRec, ByRunRec, ByPanelRec, byNone,
       byBySet
<1> QED BY <1>1, <1>2, <1>3, <1>4, <1>5, <1>6, <1>7 DEF byIInv

LEMMA bySwapStep == ASSUME byIInv, NEW p \in byHelpers, bySwap(p) PROVE byIInv'
<1>1. byTyped'
    <2>1. byList' \in 1..ByEdits /\ byCache' \in [v : 0..ByEdits, young : BOOLEAN] /\ byHooked' \in [fw : BOOLEAN, init : BOOLEAN]
        BY ByAssumption, byConstants DEF bySwap, swapNoted, byIInv, byHelper, byFails, byFail, byHelpers, byTyped,
           byCached, ByPanelRec
    <2>2. byFw' \in ByFwRec
        BY ByAssumption, byConstants DEF bySwap, swapNoted, byIInv, byHelper, byFails, byFail, byHelpers, byTyped,
           ByFwRec, ByRunRec
    <2>3. byLock' \in {"free", "stale"} \cup byHelpers /\ byDue' \in BOOLEAN /\ byFault' \in Nat
        BY ByAssumption, byConstants DEF bySwap, swapNoted, byIInv, byHelper, byFails, byFail, byHelpers, byTyped
    <2>4. byRun' \in [byHelpers -> ByRunRec]
        BY ByAssumption, byConstants, byContent DEF bySwap, swapNoted, byIInv, byHelper, byFails, byFail,
           byHelpers, byTyped, ByRunRec, ByPlaces
    <2>5. byPanel' \in ByPanelRec
        BY ByAssumption, byConstants DEF bySwap, swapNoted, byIInv, byHelper, byFails, byFail, byHelpers, byTyped,
           ByStages, ByPanelRec, byCached
    <2> QED BY <2>1, <2>2, <2>3, <2>4, <2>5 DEF byTyped
<1>2. byCached'
    BY ByAssumption DEF bySwap, swapNoted, byIInv, byHelper, byFails, byFail, byHelpers, byTyped, byCached,
       ByPanelRec, ByFwRec, ByRunRec
<1>3. byLocked'
    BY ByAssumption DEF bySwap, swapNoted, byIInv, byHelper, byFails, byFail, byHelpers, byTyped, byLocked,
       byInside, ByRunRec
<1>4. byStaged'
    BY ByAssumption DEF bySwap, swapNoted, byIInv, byHelper, byFails, byFail, byHelpers, byTyped, byLocked,
       byStaged, byInside, ByFwRec, ByRunRec, ByPlaces, byNone, byBySet
<1>5. byKept'
    BY ByAssumption DEF bySwap, swapNoted, byIInv, byHelper, byFails, byFail, byHelpers, byTyped, byLocked,
       byInside, byStaged, byCached, byPolicy, byKept, byOld, content, ByWorking, ByFwRec, ByRunRec, byNone,
       byBySet
<1>6. byPolicy'
    BY ByAssumption DEF bySwap, swapNoted, byIInv, byHelper, byFails, byFail, byHelpers, byTyped, byCached,
       byPolicy, byStaged, byKept, byOld, content, ByFwRec, ByRunRec, byNone, byBySet, ByWorking
<1>7. byBack'
    BY ByAssumption DEF bySwap, swapNoted, byIInv, byHelper, byFails, byFail, byHelpers, byTyped, byCached,
       byLocked, byInside, byStaged, byPolicy, byKept, byBack, byWill, byFixes, content, ByWorking, ByFwRec,
       ByRunRec, ByPanelRec, byNone, byBySet
<1> QED BY <1>1, <1>2, <1>3, <1>4, <1>5, <1>6, <1>7 DEF byIInv

LEMMA byCommitStep == ASSUME byIInv, NEW p \in byHelpers, byCommit(p) PROVE byIInv'
<1>a. /\ byRun[p].at = "commit" /\ byRun \in [byHelpers -> ByRunRec] /\ byFw \in ByFwRec /\ byFault \in Nat
      /\ UNCHANGED <<byList, byCache, byHooked, byDue, byPanel, byLock>>
      /\ byRun[p].read \in 1..byCache.v /\ byRun[p].read \in 1..ByEdits
    <2>1. byRun[p].at = "commit" /\ UNCHANGED <<byList, byCache, byHooked, byDue, byPanel, byLock>>
        BY DEF byCommit, byHelper
    <2>2. byRun \in [byHelpers -> ByRunRec] /\ byFw \in ByFwRec /\ byFault \in Nat /\ byCache.v \in 0..ByEdits
        BY DEF byIInv, byTyped
    <2>3. byRun[p].read \in 1..byCache.v BY <2>1 DEF byIInv, byCached
    <2> QED BY <2>1, <2>2, <2>3, ByAssumption
<1>b. \A q \in byHelpers : q # p => /\ byRun'[q] = byRun[q] /\ ~byRun[q].swapped
                                     /\ byRun[q].at \in {"idle", "lock", "done"}
    BY <1>a DEF byCommit, byFail, byIInv, byLocked, byInside, byStaged, ByRunRec
<1>c. PICK fw \in ByFwRec, v \in ByRunRec :
          /\ byFw' = fw /\ byRun' = [byRun EXCEPT ![p] = v]
          /\ v.read = byRun[p].read /\ v.sets = byRun[p].sets
          /\ fw.live = byFw.live /\ fw.stage = byFw.stage
          /\ \/ /\ fw.chain = (IF byRun[p].sets THEN byBySet ELSE byRun[p].read)
                /\ fw.jump = (byFw.jump \/ ~byRun[p].jump) /\ ~v.swapped
                /\ \/ /\ byFault' = byFault /\ v.at = (IF byRun[p].sets THEN "clean" ELSE "unused") /\ v.ok = byRun[p].ok
                   \/ byFault' = byFault + 1 /\ v.at = "clean" /\ ~v.ok /\ v.before = byRun[p].read
             \/ /\ fw = byFw /\ byFault' = byFault + 1 /\ v.at = "clean" /\ ~v.ok
                /\ v.swapped = byRun[p].swapped /\ v.before = byRun[p].before
    <2>1. byRun[p] \in ByRunRec /\ byRun[p].read \in Nat BY <1>a
    <2>2. \E fw \in ByFwRec : /\ byCommitted(byFw, p) = fw
                              /\ fw.chain = (IF byRun[p].sets THEN byBySet ELSE byRun[p].read)
                              /\ fw.jump = (byFw.jump \/ ~byRun[p].jump)
                              /\ fw.live = byFw.live /\ fw.stage = byFw.stage
        <3>1. (IF byRun[p].sets THEN byBySet ELSE byRun[p].read) \in (1..ByEdits) \cup {byNone, byBySet} BY <1>a
        <3>2. (byFw.jump \/ ~byRun[p].jump) \in BOOLEAN OBVIOUS
        <3> DEFINE fw == [byFw EXCEPT !.chain = IF byRun[p].sets THEN byBySet ELSE byRun[p].read,
                                      !.jump = (byFw.jump \/ ~byRun[p].jump)]
        <3>3. byCommitted(byFw, p) = fw BY <1>a DEF byCommitted, ByFwRec
        <3>4. fw \in ByFwRec BY <1>a, <3>1, <3>2 DEF ByFwRec
        <3>5. /\ fw.chain = (IF byRun[p].sets THEN byBySet ELSE byRun[p].read)
              /\ fw.jump = (byFw.jump \/ ~byRun[p].jump)
              /\ fw.live = byFw.live /\ fw.stage = byFw.stage
            BY <1>a DEF ByFwRec
        <3> HIDE DEF fw
        <3> QED BY <3>3, <3>4, <3>5
    <2>3. CASE byFw' = byCommitted(byFw, p) /\ UNCHANGED byFault
               /\ byRun' = [byRun EXCEPT ![p].at = IF byRun[p].sets THEN "clean" ELSE "unused", ![p].swapped = FALSE]
        <3> DEFINE v == [byRun[p] EXCEPT !.at = IF byRun[p].sets THEN "clean" ELSE "unused", !.swapped = FALSE]
        <3>1. byRun' = [byRun EXCEPT ![p] = v] BY <1>a, <2>3
        <3>2. v \in ByRunRec BY <2>1 DEF ByRunRec, ByPlaces
        <3>3. /\ v.read = byRun[p].read /\ v.sets = byRun[p].sets /\ ~v.swapped /\ v.ok = byRun[p].ok
              /\ v.at = (IF byRun[p].sets THEN "clean" ELSE "unused")
            BY <2>1 DEF ByRunRec
        <3> HIDE DEF v
        <3> QED BY <2>2, <2>3, <3>1, <3>2, <3>3
    <2>4. CASE byFw' = byFw /\ byFault' = byFault + 1 /\ byRun' = [byRun EXCEPT ![p].at = "clean", ![p].ok = FALSE]
        <3> DEFINE v == [byRun[p] EXCEPT !.at = "clean", !.ok = FALSE]
        <3>1. byRun' = [byRun EXCEPT ![p] = v] BY <1>a, <2>4
        <3>2. v \in ByRunRec BY <2>1 DEF ByRunRec, ByPlaces
        <3>3. /\ v.read = byRun[p].read /\ v.sets = byRun[p].sets /\ v.swapped = byRun[p].swapped /\ ~v.ok /\ v.at = "clean"
              /\ v.before = byRun[p].before
            BY <2>1 DEF ByRunRec
        <3> HIDE DEF v
        <3> QED BY <1>a, <2>4, <3>1, <3>2, <3>3
    <2>5. CASE byFw' = byCommitted(byFw, p) /\ byFault' = byFault + 1
               /\ byRun' = [byRun EXCEPT ![p].at = "clean", ![p].swapped = FALSE, ![p].ok = FALSE, ![p].before = byRun[p].read]
        <3> DEFINE v == [byRun[p] EXCEPT !.at = "clean", !.swapped = FALSE, !.ok = FALSE, !.before = byRun[p].read]
        <3>1. byRun' = [byRun EXCEPT ![p] = v] BY <1>a, <2>5
        <3>2. v \in ByRunRec BY <2>1 DEF ByRunRec, ByPlaces
        <3>3. /\ v.read = byRun[p].read /\ v.sets = byRun[p].sets /\ ~v.swapped /\ ~v.ok /\ v.at = "clean"
              /\ v.before = byRun[p].read
            BY <2>1 DEF ByRunRec
        <3> HIDE DEF v
        <3> QED BY <2>2, <2>5, <3>1, <3>2, <3>3
    <2> QED BY <2>3, <2>4, <2>5 DEF byCommit, byFail, byFails
<1>d. byRun'[p] = v BY <1>a, <1>c
<1>e. byRun[p].swapped = byRun[p].sets /\ byRun[p].ok /\ (byRun[p].sets => byFw.live = byRun[p].read)
    BY <1>a DEF byIInv, byStaged
<1>f. byRun[p].read # byBySet /\ byRun[p].read # byNone /\ byNone # byBySet BY <1>a, byConstants
<1>1. byTyped' BY <1>a, <1>c DEF byIInv, byTyped
<1>2. byCached' BY <1>a, <1>b, <1>c, <1>d DEF byIInv, byCached
<1>3. byLocked' BY <1>a, <1>b, <1>c, <1>d DEF byIInv, byLocked, byInside
<1>4. byStaged'
    <2>1. \A q \in byHelpers : q # p => /\ byRun'[q].at \in {"idle", "lock", "done"} /\ ~byRun'[q].swapped
                                         /\ (~byRun'[q].ok => byFault # 0 /\ byRun'[q].at \in {"idle", "clean", "done"})
        BY <1>b DEF byIInv, byStaged
    <2>2. byFault' # 0 \/ byFault' = byFault BY <1>a, <1>c
    <2>3. /\ v.at \in {"clean", "unused"} /\ (~v.ok => byFault' # 0 /\ v.at = "clean")
          /\ v.at = "unused" => fw.chain # byBySet /\ ~v.swapped
          /\ v.swapped => v.at = "clean" /\ fw.live = v.read /\ ~v.ok
        <3>1. byRun[p].swapped \in BOOLEAN /\ byRun[p].sets \in BOOLEAN /\ byRun[p].ok \in BOOLEAN
              /\ v.swapped \in BOOLEAN /\ v.ok \in BOOLEAN /\ byFault \in Nat BY <1>a, <1>c DEF ByRunRec
        <3>2. v.at \in {"clean", "unused"} BY <1>c
        <3>3. ~v.ok => byFault' # 0 /\ v.at = "clean"
            <4>1. byFault' = byFault => v.ok = byRun[p].ok BY <1>c, <3>1
            <4>2. byFault' = byFault => v.ok = TRUE BY <4>1, <1>e, <3>1
            <4>3. byFault' # byFault => byFault' = byFault + 1 /\ v.at = "clean" BY <1>c
            <4> QED BY <4>2, <4>3, <3>1
        <3>4. v.at = "unused" => fw.chain # byBySet /\ ~v.swapped BY <1>c, <1>f
        <3>5. v.swapped => v.at = "clean" /\ fw.live = v.read /\ ~v.ok BY <1>c, <1>e, <3>1
        <3> QED BY <3>2, <3>3, <3>4, <3>5
    <2> QED BY <1>c, <1>d, <2>1, <2>2, <2>3 DEF byStaged
<1>5. byKept'
    <2>1. byRun[p].before = byOld(p) BY <1>a DEF byIInv, byKept, ByWorking
    <2>2. byFw.chain # byNone /\ byRun[p].swapped => byOld(p) \in 1..byCache.v BY DEF byIInv, byKept
    <2> QED BY <1>a, <1>b, <1>c, <1>d, <1>e, <1>f, <2>1, <2>2, ZenonT(60) DEF byKept, byOld, ByWorking
<1>6. byPolicy' BY <1>a, <1>c, <1>e, <1>f DEF byIInv, byPolicy, content
<1>7. byBack'
    <2>1. SUFFICES ASSUME byFault' = 0 PROVE byBack' BY DEF byBack
    <2>2. byFault = 0 /\ byFw'.chain = (IF byRun[p].sets THEN byBySet ELSE byRun[p].read)
          /\ byFw'.jump = (byFw.jump \/ ~byRun[p].jump) /\ byFw'.live = byFw.live /\ v.at \in {"clean", "unused"}
        BY <1>a, <1>c, <2>1
    <2>3. content' = byRun[p].read BY <1>e, <1>f, <2>2 DEF content
    <2>4. \A q \in byHelpers : byRun'[q].at \notin ByWorking BY <1>b, <1>d, <2>2 DEF ByWorking
    <2>5. byFixes(p) => byFw'.jump /\ byRun[p].read = byCache.v BY <1>a, <2>2 DEF byFixes, ByWorking
    <2>6. \A q \in byHelpers : q # p /\ byFixes(q) => byRun'[q].at = "lock" BY <1>b DEF byFixes, ByWorking
    <2>7. byRun[p].at \in ByWorking BY <1>a DEF ByWorking
    <2> QED BY <1>a, <2>2, <2>3, <2>4, <2>5, <2>6, <2>7 DEF byIInv, byBack, byWill, byFixes
<1> QED BY <1>1, <1>2, <1>3, <1>4, <1>5, <1>6, <1>7 DEF byIInv

LEMMA byUnusedStep == ASSUME byIInv, NEW p \in byHelpers, byUnused(p) PROVE byIInv'
<1>1. byTyped'
    <2>1. byList' \in 1..ByEdits /\ byCache' \in [v : 0..ByEdits, young : BOOLEAN] /\ byHooked' \in [fw : BOOLEAN, init : BOOLEAN]
        BY ByAssumption, byConstants DEF byUnused, byIInv, byHelper, byTo, byHelpers, byTyped, byCached,
           ByPanelRec
    <2>2. byFw' \in ByFwRec
        BY ByAssumption, byConstants DEF byUnused, byIInv, byHelper, byTo, byHelpers, byTyped, ByFwRec, ByRunRec
    <2>3. byLock' \in {"free", "stale"} \cup byHelpers /\ byDue' \in BOOLEAN /\ byFault' \in Nat
        BY ByAssumption, byConstants DEF byUnused, byIInv, byHelper, byTo, byHelpers, byTyped
    <2>4. byRun' \in [byHelpers -> ByRunRec]
        BY ByAssumption, byConstants, byContent DEF byUnused, byIInv, byHelper, byTo, byHelpers, byTyped,
           ByRunRec, ByPlaces
    <2>5. byPanel' \in ByPanelRec
        BY ByAssumption, byConstants DEF byUnused, byIInv, byHelper, byTo, byHelpers, byTyped, ByStages,
           ByPanelRec, byCached
    <2> QED BY <2>1, <2>2, <2>3, <2>4, <2>5 DEF byTyped
<1>2. byCached'
    BY ByAssumption DEF byUnused, byIInv, byHelper, byTo, byHelpers, byTyped, byCached, ByPanelRec, ByFwRec,
       ByRunRec
<1>3. byLocked' BY ByAssumption DEF byUnused, byIInv, byHelper, byTo, byHelpers, byTyped, byLocked, byInside, ByRunRec
<1>4. byStaged'
    BY ByAssumption DEF byUnused, byIInv, byHelper, byTo, byHelpers, byTyped, byLocked, byStaged, byInside,
       ByFwRec, ByRunRec, ByPlaces, byNone, byBySet
<1>5. byKept'
    BY ByAssumption DEF byUnused, byIInv, byHelper, byTo, byHelpers, byTyped, byLocked, byInside, byStaged,
       byCached, byPolicy, byKept, byOld, content, ByWorking, ByFwRec, ByRunRec, byNone, byBySet
<1>6. byPolicy'
    BY ByAssumption DEF byUnused, byIInv, byHelper, byTo, byHelpers, byTyped, byCached, byPolicy, byStaged,
       byKept, byOld, content, ByFwRec, ByRunRec, byNone, byBySet, ByWorking
<1>7. byBack'
    BY ByAssumption DEF byUnused, byIInv, byHelper, byTo, byHelpers, byTyped, byCached, byLocked, byInside,
       byStaged, byPolicy, byKept, byBack, byWill, byFixes, content, ByWorking, ByFwRec, ByRunRec, ByPanelRec,
       byNone, byBySet
<1> QED BY <1>1, <1>2, <1>3, <1>4, <1>5, <1>6, <1>7 DEF byIInv

LEMMA byCleanStep == ASSUME byIInv, NEW p \in byHelpers, byClean(p) PROVE byIInv'
<1>1. byTyped'
    <2>1. byList' \in 1..ByEdits /\ byCache' \in [v : 0..ByEdits, young : BOOLEAN] /\ byHooked' \in [fw : BOOLEAN, init : BOOLEAN]
        BY ByAssumption, byConstants DEF byClean, byIInv, byHelper, byFails, byTo, byHelpers, byTyped, byCached,
           ByPanelRec
    <2>2. byFw' \in ByFwRec
        BY ByAssumption, byConstants, ZenonT(60) DEF byClean, byIInv, byHelper, byFails, byTo, byHelpers, byTyped, ByFwRec,
           ByRunRec
    <2>3. byLock' \in {"free", "stale"} \cup byHelpers /\ byDue' \in BOOLEAN /\ byFault' \in Nat
        BY ByAssumption, byConstants DEF byClean, byIInv, byHelper, byFails, byTo, byHelpers, byTyped
    <2>4. byRun' \in [byHelpers -> ByRunRec]
        <3>1. byRun[p] \in ByRunRec /\ byRun \in [byHelpers -> ByRunRec] BY DEF byIInv, byTyped
        <3>2. content \in Nat BY byContent DEF byIInv
        <3>3. \/ byRun' = [byRun EXCEPT ![p] = [byRun[p] EXCEPT !.swapped = FALSE]]
              \/ byRun' = [byRun EXCEPT ![p] = [byRun[p] EXCEPT !.swapped = FALSE, !.staged = FALSE, !.before = content]]
              \/ byRun' = [byRun EXCEPT ![p] = [byRun[p] EXCEPT !.at = "done"]]
            BY <3>1 DEF byClean, byTo
        <3>4. /\ [byRun[p] EXCEPT !.swapped = FALSE] \in ByRunRec
              /\ [byRun[p] EXCEPT !.swapped = FALSE, !.staged = FALSE, !.before = content] \in ByRunRec
              /\ [byRun[p] EXCEPT !.at = "done"] \in ByRunRec
            BY <3>1, <3>2 DEF ByRunRec, ByPlaces
        <3> QED BY <3>1, <3>3, <3>4
    <2>5. byPanel' \in ByPanelRec
        BY ByAssumption, byConstants DEF byClean, byIInv, byHelper, byFails, byTo, byHelpers, byTyped, ByStages,
           ByPanelRec, byCached
    <2> QED BY <2>1, <2>2, <2>3, <2>4, <2>5 DEF byTyped
<1>2. byCached'
    BY ByAssumption DEF byClean, byIInv, byHelper, byFails, byTo, byHelpers, byTyped, byCached, ByPanelRec,
       ByFwRec, ByRunRec
<1>3. byLocked'
    BY ByAssumption DEF byClean, byIInv, byHelper, byFails, byTo, byHelpers, byTyped, byLocked, byInside, ByRunRec
<1>4. byStaged'
    BY ByAssumption DEF byClean, byIInv, byHelper, byFails, byTo, byHelpers, byTyped, byLocked, byStaged,
       byInside, ByFwRec, ByRunRec, ByPlaces, byNone, byBySet
<1>5. byKept'
    <2>1. byRun \in [byHelpers -> ByRunRec] /\ byFw \in ByFwRec /\ byCache' = byCache
        BY DEF byIInv, byTyped, byClean, byHelper
    <2>2. \A q \in byHelpers : q # p => /\ byRun'[q] = byRun[q] /\ ~byRun[q].swapped
                                         /\ byRun[q].at \notin ByWorking \cup {"read", "clean"}
        BY <2>1 DEF byClean, byHelper, byTo, byIInv, byLocked, byInside, byStaged, ByWorking
    <2>3. CASE byFw' = [byFw EXCEPT !.live = byFw.stage, !.stage = byFw.live] /\ byRun[p].swapped
               /\ byRun' = [byRun EXCEPT ![p].swapped = FALSE]
        <3>1. byFw'.chain = byFw.chain /\ byFw'.live = byFw.stage BY <2>1, <2>3 DEF ByFwRec
        <3>2. byRun'[p].at = "clean" /\ ~byRun'[p].swapped /\ byRun'[p].ok = byRun[p].ok /\ byRun'[p].before = byRun[p].before
            BY <2>1, <2>3 DEF ByRunRec, byClean, byHelper
        <3>3. byRun[p].at = "clean" BY DEF byClean, byHelper
        <3> QED BY <2>1, <2>2, <2>3, <3>1, <3>2, <3>3 DEF byIInv, byKept, byOld, ByWorking
    <2>4. CASE byFw' = byFw /\ byRun' = [byRun EXCEPT ![p].swapped = FALSE, ![p].staged = FALSE, ![p].before = content]
        <3>1. byRun'[p].at = "clean" /\ ~byRun'[p].swapped /\ byRun'[p].before = content
            BY <2>1, <2>4 DEF ByRunRec, byClean, byHelper
        <3> QED BY <2>1, <2>2, <2>4, <3>1 DEF byIInv, byKept, byOld, ByWorking, content
    <2>5. CASE byRun' = [byRun EXCEPT ![p].at = "done"] /\ ~byRun[p].swapped
               /\ byFw' = [byFw EXCEPT !.stage = IF byRun[p].staged THEN byNone ELSE @]
        <3>1. byFw'.chain = byFw.chain /\ byFw'.live = byFw.live BY <2>1, <2>5 DEF ByFwRec
        <3>2. byRun'[p].at = "done" /\ ~byRun'[p].swapped BY <2>1, <2>5 DEF ByRunRec
        <3> QED BY <2>1, <2>2, <3>1, <3>2 DEF byIInv, byKept, byOld, ByWorking
    <2> QED BY <2>3, <2>4, <2>5 DEF byClean, byTo
<1>6. byPolicy'
    BY ByAssumption, ZenonT(60) DEF byClean, byIInv, byHelper, byFails, byTo, byHelpers, byTyped, byCached, byPolicy,
       byStaged, byKept, byOld, content, ByFwRec, ByRunRec, byNone, byBySet, ByWorking
<1>7. byBack'
    BY ByAssumption DEF byClean, byIInv, byHelper, byFails, byTo, byHelpers, byTyped, byCached, byLocked,
       byInside, byStaged, byPolicy, byKept, byBack, byWill, byFixes, content, ByWorking, ByFwRec, ByRunRec,
       ByPanelRec, byNone, byBySet
<1> QED BY <1>1, <1>2, <1>3, <1>4, <1>5, <1>6, <1>7 DEF byIInv

LEMMA byKillStep == ASSUME byIInv, NEW p \in byHelpers, byKill(p) PROVE byIInv'
<1>1. byTyped'
    <2>1. byList' \in 1..ByEdits /\ byCache' \in [v : 0..ByEdits, young : BOOLEAN] /\ byHooked' \in [fw : BOOLEAN, init : BOOLEAN]
        BY ByAssumption, byConstants DEF byKill, byIInv, byFails, byHelpers, byTyped, byCached, ByPanelRec
    <2>2. byFw' \in ByFwRec
        BY ByAssumption, byConstants DEF byKill, byIInv, byFails, byHelpers, byTyped, ByFwRec, ByRunRec
    <2>3. byLock' \in {"free", "stale"} \cup byHelpers /\ byDue' \in BOOLEAN /\ byFault' \in Nat
        BY ByAssumption, byConstants DEF byKill, byIInv, byFails, byHelpers, byTyped
    <2>4. byRun' \in [byHelpers -> ByRunRec]
        BY ByAssumption, byConstants, byContent DEF byKill, byIInv, byFails, byHelpers, byTyped, ByRunRec,
           ByPlaces
    <2>5. byPanel' \in ByPanelRec
        BY ByAssumption, byConstants DEF byKill, byIInv, byFails, byHelpers, byTyped, ByStages, ByPanelRec,
           byCached
    <2> QED BY <2>1, <2>2, <2>3, <2>4, <2>5 DEF byTyped
<1>2. byCached'
    BY ByAssumption DEF byKill, byIInv, byFails, byHelpers, byIdle, byTyped, byCached, ByPanelRec, ByFwRec,
       ByRunRec
<1>3. byLocked' BY ByAssumption DEF byKill, byIInv, byFails, byHelpers, byIdle, byTyped, byLocked, byInside, ByRunRec
<1>4. byStaged'
    <2>1. /\ byFw' = byFw /\ byFault' = byFault + 1 /\ byFault \in Nat
          /\ byRun' = [byRun EXCEPT ![p] = [byIdle EXCEPT !.ok = FALSE]]
        BY DEF byKill, byFails, byIInv, byTyped
    <2>2. byRun'[p] = [byIdle EXCEPT !.ok = FALSE] /\ \A q \in byHelpers : q # p => byRun'[q] = byRun[q]
        BY <2>1 DEF byIInv, byTyped
    <2>3. /\ byRun'[p].at = "idle" /\ ~byRun'[p].swapped /\ ~byRun'[p].sets
        BY <2>2 DEF byIdle
    <2>4. byFault' # 0 BY <2>1
    <2> QED BY <2>1, <2>2, <2>3, <2>4 DEF byIInv, byStaged
<1>5. byKept'
    BY ByAssumption DEF byKill, byIInv, byFails, byHelpers, byIdle, byTyped, byLocked, byInside, byStaged,
       byCached, byPolicy, byKept, byOld, content, ByWorking, ByFwRec, ByRunRec, byNone, byBySet
<1>6. byPolicy'
    BY ByAssumption DEF byKill, byIInv, byFails, byHelpers, byIdle, byTyped, byCached, byPolicy, byStaged, byKept,
       byOld, content, ByFwRec, ByRunRec, byNone, byBySet, ByWorking
<1>7. byBack'
    BY ByAssumption DEF byKill, byIInv, byFails, byHelpers, byIdle, byTyped, byCached, byLocked, byInside,
       byStaged, byPolicy, byKept, byBack, byWill, byFixes, content, ByWorking, ByFwRec, ByRunRec, ByPanelRec,
       byNone, byBySet
<1> QED BY <1>1, <1>2, <1>3, <1>4, <1>5, <1>6, <1>7 DEF byIInv

LEMMA byHookStartsStep == ASSUME byIInv, byHookStarts PROVE byIInv'
<1>1. byTyped'
    <2>1. byList' \in 1..ByEdits /\ byCache' \in [v : 0..ByEdits, young : BOOLEAN] /\ byHooked' \in [fw : BOOLEAN, init : BOOLEAN]
        BY ByAssumption, byConstants DEF byHookStarts, byIInv, byHelpers, byTyped, byCached, ByPanelRec
    <2>2. byFw' \in ByFwRec
        BY ByAssumption, byConstants DEF byHookStarts, byIInv, byHelpers, byTyped, ByFwRec, ByRunRec
    <2>3. byLock' \in {"free", "stale"} \cup byHelpers /\ byDue' \in BOOLEAN /\ byFault' \in Nat
        BY ByAssumption, byConstants DEF byHookStarts, byIInv, byHelpers, byTyped
    <2>4. byRun' \in [byHelpers -> ByRunRec]
        BY ByAssumption, byConstants, byContent DEF byHookStarts, byIInv, byHelpers, byTyped, ByRunRec, ByPlaces
    <2>5. byPanel' \in ByPanelRec
        BY ByAssumption, byConstants DEF byHookStarts, byIInv, byHelpers, byTyped, ByStages, ByPanelRec, byCached
    <2> QED BY <2>1, <2>2, <2>3, <2>4, <2>5 DEF byTyped
<1>2. byCached'
    BY ByAssumption DEF byHookStarts, byIInv, byHelpers, byIdle, byTyped, byCached, ByPanelRec, ByFwRec, ByRunRec
<1>3. byLocked' BY ByAssumption DEF byHookStarts, byIInv, byHelpers, byIdle, byTyped, byLocked, byInside, ByRunRec
<1>4. byStaged'
    BY ByAssumption DEF byHookStarts, byIInv, byHelpers, byIdle, byTyped, byLocked, byStaged, byInside, ByFwRec,
       ByRunRec, ByPlaces, byNone, byBySet
<1>5. byKept'
    BY ByAssumption DEF byHookStarts, byIInv, byHelpers, byIdle, byTyped, byLocked, byInside, byStaged, byCached,
       byPolicy, byKept, byOld, content, ByWorking, ByFwRec, ByRunRec, byNone, byBySet
<1>6. byPolicy'
    BY ByAssumption DEF byHookStarts, byIInv, byHelpers, byIdle, byTyped, byCached, byPolicy, byStaged, byKept,
       byOld, content, ByFwRec, ByRunRec, byNone, byBySet, ByWorking
<1>7. byBack'
    BY ByAssumption DEF byHookStarts, byIInv, byHelpers, byIdle, byTyped, byCached, byLocked, byInside, byStaged,
       byPolicy, byKept, byBack, byWill, byFixes, content, ByWorking, ByFwRec, ByRunRec, ByPanelRec, byNone,
       byBySet
<1> QED BY <1>1, <1>2, <1>3, <1>4, <1>5, <1>6, <1>7 DEF byIInv

LEMMA byHookEndsStep == ASSUME byIInv, byHookEnds PROVE byIInv'
<1>1. byTyped'
    <2>1. byList' \in 1..ByEdits /\ byCache' \in [v : 0..ByEdits, young : BOOLEAN] /\ byHooked' \in [fw : BOOLEAN, init : BOOLEAN]
        BY ByAssumption, byConstants DEF byHookEnds, byIInv, byHelpers, byTyped, byCached, ByPanelRec
    <2>2. byFw' \in ByFwRec BY ByAssumption, byConstants DEF byHookEnds, byIInv, byHelpers, byTyped, ByFwRec, ByRunRec
    <2>3. byLock' \in {"free", "stale"} \cup byHelpers /\ byDue' \in BOOLEAN /\ byFault' \in Nat
        BY ByAssumption, byConstants DEF byHookEnds, byIInv, byHelpers, byTyped
    <2>4. byRun' \in [byHelpers -> ByRunRec]
        BY ByAssumption, byConstants, byContent DEF byHookEnds, byIInv, byHelpers, byTyped, ByRunRec, ByPlaces
    <2>5. byPanel' \in ByPanelRec
        BY ByAssumption, byConstants DEF byHookEnds, byIInv, byHelpers, byTyped, ByStages, ByPanelRec, byCached
    <2> QED BY <2>1, <2>2, <2>3, <2>4, <2>5 DEF byTyped
<1>2. byCached'
    BY ByAssumption DEF byHookEnds, byIInv, byHelpers, byIdle, byTyped, byCached, ByPanelRec, ByFwRec, ByRunRec
<1>3. byLocked' BY ByAssumption DEF byHookEnds, byIInv, byHelpers, byIdle, byTyped, byLocked, byInside, ByRunRec
<1>4. byStaged'
    BY ByAssumption DEF byHookEnds, byIInv, byHelpers, byIdle, byTyped, byLocked, byStaged, byInside, ByFwRec,
       ByRunRec, ByPlaces, byNone, byBySet
<1>5. byKept'
    BY ByAssumption DEF byHookEnds, byIInv, byHelpers, byIdle, byTyped, byLocked, byInside, byStaged, byCached,
       byPolicy, byKept, byOld, content, ByWorking, ByFwRec, ByRunRec, byNone, byBySet
<1>6. byPolicy'
    BY ByAssumption DEF byHookEnds, byIInv, byHelpers, byIdle, byTyped, byCached, byPolicy, byStaged, byKept,
       byOld, content, ByFwRec, ByRunRec, byNone, byBySet, ByWorking
<1>7. byBack'
    BY ByAssumption DEF byHookEnds, byIInv, byHelpers, byIdle, byTyped, byCached, byLocked, byInside, byStaged,
       byPolicy, byKept, byBack, byWill, byFixes, content, ByWorking, ByFwRec, ByRunRec, ByPanelRec, byNone,
       byBySet
<1> QED BY <1>1, <1>2, <1>3, <1>4, <1>5, <1>6, <1>7 DEF byIInv

LEMMA byReloadStep == ASSUME byIInv, byReload PROVE byIInv'
<1>1. byTyped'
    <2>1. byList' \in 1..ByEdits /\ byCache' \in [v : 0..ByEdits, young : BOOLEAN] /\ byHooked' \in [fw : BOOLEAN, init : BOOLEAN]
        BY ByAssumption, byConstants DEF byReload, byRebuilt, byIInv, byHelpers, byTyped, byCached, ByPanelRec
    <2>2. byFw' \in ByFwRec
        BY ByAssumption, byConstants DEF byReload, byRebuilt, byIInv, byHelpers, byTyped, ByFwRec, ByRunRec
    <2>3. byLock' \in {"free", "stale"} \cup byHelpers /\ byDue' \in BOOLEAN /\ byFault' \in Nat
        BY ByAssumption, byConstants DEF byReload, byRebuilt, byIInv, byHelpers, byTyped
    <2>4. byRun' \in [byHelpers -> ByRunRec]
        BY ByAssumption, byConstants, byContent DEF byReload, byRebuilt, byIInv, byHelpers, byTyped, ByRunRec,
           ByPlaces
    <2>5. byPanel' \in ByPanelRec
        BY ByAssumption, byConstants DEF byReload, byRebuilt, byIInv, byHelpers, byTyped, ByStages, ByPanelRec,
           byCached
    <2> QED BY <2>1, <2>2, <2>3, <2>4, <2>5 DEF byTyped
<1>2. byCached'
    BY ByAssumption DEF byReload, byRebuilt, byIInv, byHelpers, byTyped, byCached, ByPanelRec, ByFwRec, ByRunRec
<1>3. byLocked' BY ByAssumption DEF byReload, byRebuilt, byIInv, byHelpers, byTyped, byLocked, byInside, ByRunRec
<1>4. byStaged'
    BY ByAssumption DEF byReload, byRebuilt, byIInv, byHelpers, byTyped, byLocked, byStaged, byInside, ByFwRec,
       ByRunRec, ByPlaces, byNone, byBySet
<1>5. byKept'
    BY ByAssumption DEF byReload, byRebuilt, byIInv, byHelpers, byTyped, byLocked, byInside, byStaged, byCached,
       byPolicy, byKept, byOld, content, ByWorking, ByFwRec, ByRunRec, byNone, byBySet
<1>6. byPolicy'
    BY ByAssumption DEF byReload, byRebuilt, byIInv, byHelpers, byTyped, byCached, byPolicy, byStaged, byKept,
       byOld, content, ByFwRec, ByRunRec, byNone, byBySet, ByWorking
<1>7. byBack'
    BY ByAssumption DEF byReload, byRebuilt, byIInv, byHelpers, byTyped, byCached, byLocked, byInside, byStaged,
       byPolicy, byKept, byBack, byWill, byFixes, content, ByWorking, ByFwRec, ByRunRec, ByPanelRec, byNone,
       byBySet
<1> QED BY <1>1, <1>2, <1>3, <1>4, <1>5, <1>6, <1>7 DEF byIInv

LEMMA UpdateStep == ASSUME byIInv, Update PROVE byIInv'
<1>1. byTyped'
    <2>1. byList' \in 1..ByEdits /\ byCache' \in [v : 0..ByEdits, young : BOOLEAN] /\ byHooked' \in [fw : BOOLEAN, init : BOOLEAN]
        BY ByAssumption, byConstants DEF Update, byRebuilt, reapplies, byIInv, byHelpers, byTyped, byCached,
           ByPanelRec
    <2>2. byFw' \in ByFwRec
        BY ByAssumption, byConstants DEF Update, byRebuilt, reapplies, byIInv, byHelpers, byTyped, ByFwRec,
           ByRunRec
    <2>3. byLock' \in {"free", "stale"} \cup byHelpers /\ byDue' \in BOOLEAN /\ byFault' \in Nat
        BY ByAssumption, byConstants DEF Update, byRebuilt, reapplies, byIInv, byHelpers, byTyped
    <2>4. byRun' \in [byHelpers -> ByRunRec]
        BY ByAssumption, byConstants, byContent DEF Update, byRebuilt, reapplies, byIInv, byHelpers, byTyped,
           ByRunRec, ByPlaces
    <2>5. byPanel' \in ByPanelRec
        BY ByAssumption, byConstants DEF Update, byRebuilt, reapplies, byIInv, byHelpers, byTyped, ByStages,
           ByPanelRec, byCached
    <2> QED BY <2>1, <2>2, <2>3, <2>4, <2>5 DEF byTyped
<1>2. byCached'
    BY ByAssumption DEF Update, byRebuilt, reapplies, byIInv, byHelpers, byApplying, byTyped, byCached,
       ByPanelRec, ByFwRec, ByRunRec
<1>3. byLocked'
    BY ByAssumption DEF Update, byRebuilt, reapplies, byIInv, byHelpers, byApplying, byTyped, byLocked, byInside,
       ByRunRec
<1>4. byStaged'
    BY ByAssumption DEF Update, byRebuilt, reapplies, byIInv, byHelpers, byApplying, byTyped, byLocked, byStaged,
       byInside, ByFwRec, ByRunRec, ByPlaces, byNone, byBySet
<1>5. byKept'
    BY ByAssumption DEF Update, byRebuilt, reapplies, byIInv, byHelpers, byApplying, byTyped, byLocked, byInside,
       byStaged, byCached, byPolicy, byKept, byOld, content, ByWorking, ByFwRec, ByRunRec, byNone, byBySet
<1>6. byPolicy'
    BY ByAssumption DEF Update, byRebuilt, reapplies, byIInv, byHelpers, byApplying, byTyped, byCached, byPolicy,
       byStaged, byKept, byOld, content, ByFwRec, ByRunRec, byNone, byBySet, ByWorking
<1>7. byBack'
    BY ByAssumption DEF Update, byRebuilt, reapplies, byIInv, byHelpers, byApplying, byTyped, byCached, byLocked,
       byInside, byStaged, byPolicy, byKept, byBack, byWill, byFixes, content, ByWorking, ByFwRec, ByRunRec,
       ByPanelRec, byNone, byBySet
<1> QED BY <1>1, <1>2, <1>3, <1>4, <1>5, <1>6, <1>7 DEF byIInv

LEMMA byRebootStep == ASSUME byIInv, byReboot PROVE byIInv'
<1>1. byTyped'
    <2>1. byList' \in 1..ByEdits /\ byCache' \in [v : 0..ByEdits, young : BOOLEAN] /\ byHooked' \in [fw : BOOLEAN, init : BOOLEAN]
        BY ByAssumption, byConstants DEF byReboot, byIInv, byHelpers, byTyped, byCached, ByPanelRec
    <2>2. byFw' \in ByFwRec BY ByAssumption, byConstants DEF byReboot, byIInv, byHelpers, byTyped, ByFwRec, ByRunRec
    <2>3. byLock' \in {"free", "stale"} \cup byHelpers /\ byDue' \in BOOLEAN /\ byFault' \in Nat
        BY ByAssumption, byConstants DEF byReboot, byIInv, byHelpers, byTyped
    <2>4. byRun' \in [byHelpers -> ByRunRec]
        BY ByAssumption, byConstants, byContent DEF byReboot, byIInv, byHelpers, byTyped, ByRunRec, ByPlaces
    <2>5. byPanel' \in ByPanelRec
        BY ByAssumption, byConstants DEF byReboot, byIInv, byHelpers, byTyped, ByStages, ByPanelRec, byCached
    <2> QED BY <2>1, <2>2, <2>3, <2>4, <2>5 DEF byTyped
<1>2. byCached'
    BY ByAssumption DEF byReboot, byIInv, byHelpers, byIdle, byNoPanel, byTyped, byCached, ByPanelRec, ByFwRec,
       ByRunRec
<1>3. byLocked'
    BY ByAssumption DEF byReboot, byIInv, byHelpers, byIdle, byNoPanel, byTyped, byLocked, byInside, ByRunRec
<1>4. byStaged'
    BY ByAssumption DEF byReboot, byIInv, byHelpers, byIdle, byNoPanel, byTyped, byLocked, byStaged, byInside,
       ByFwRec, ByRunRec, ByPlaces, byNone, byBySet
<1>5. byKept'
    BY ByAssumption DEF byReboot, byIInv, byHelpers, byIdle, byNoPanel, byTyped, byLocked, byInside, byStaged,
       byCached, byPolicy, byKept, byOld, content, ByWorking, ByFwRec, ByRunRec, byNone, byBySet
<1>6. byPolicy'
    BY ByAssumption DEF byReboot, byIInv, byHelpers, byIdle, byNoPanel, byTyped, byCached, byPolicy, byStaged,
       byKept, byOld, content, ByFwRec, ByRunRec, byNone, byBySet, ByWorking
<1>7. byBack'
    BY ByAssumption DEF byReboot, byIInv, byHelpers, byIdle, byNoPanel, byTyped, byCached, byLocked, byInside,
       byStaged, byPolicy, byKept, byBack, byWill, byFixes, content, ByWorking, ByFwRec, ByRunRec, ByPanelRec,
       byNone, byBySet
<1> QED BY <1>1, <1>2, <1>3, <1>4, <1>5, <1>6, <1>7 DEF byIInv

LEMMA bySaveListStep == ASSUME byIInv, bySaveList PROVE byIInv'
<1>1. byTyped'
    <2>1. byList' \in 1..ByEdits /\ byCache' \in [v : 0..ByEdits, young : BOOLEAN] /\ byHooked' \in [fw : BOOLEAN, init : BOOLEAN]
        <3>1. byList \in 1..ByEdits /\ byList < ByEdits /\ byList' = byList + 1 /\ byHooked' = byHooked
            BY DEF bySaveList, byIInv, byTyped
        <3>2. byList + 1 \in 1..ByEdits BY <3>1, ByAssumption
        <3>3. byCache' \in [v : 0..ByEdits, young : BOOLEAN] BY DEF bySaveList, byIInv, byTyped
        <3> QED BY <3>1, <3>2, <3>3 DEF byIInv, byTyped
    <2>2. byFw' \in ByFwRec BY ByAssumption, byConstants DEF bySaveList, byIInv, byHelpers, byTyped, ByFwRec, ByRunRec
    <2>3. byLock' \in {"free", "stale"} \cup byHelpers /\ byDue' \in BOOLEAN /\ byFault' \in Nat
        BY ByAssumption, byConstants DEF bySaveList, byIInv, byHelpers, byTyped
    <2>4. byRun' \in [byHelpers -> ByRunRec]
        BY ByAssumption, byConstants, byContent DEF bySaveList, byIInv, byHelpers, byTyped, ByRunRec, ByPlaces
    <2>5. byPanel' \in ByPanelRec
        BY ByAssumption, byConstants DEF bySaveList, byIInv, byHelpers, byTyped, ByStages, ByPanelRec, byCached
    <2> QED BY <2>1, <2>2, <2>3, <2>4, <2>5 DEF byTyped
<1>2. byCached' BY ByAssumption DEF bySaveList, byIInv, byHelpers, byTyped, byCached, ByPanelRec, ByFwRec, ByRunRec
<1>3. byLocked' BY ByAssumption DEF bySaveList, byIInv, byHelpers, byTyped, byLocked, byInside, ByRunRec
<1>4. byStaged'
    BY ByAssumption DEF bySaveList, byIInv, byHelpers, byTyped, byLocked, byStaged, byInside, ByFwRec, ByRunRec,
       ByPlaces, byNone, byBySet
<1>5. byKept'
    BY ByAssumption DEF bySaveList, byIInv, byHelpers, byTyped, byLocked, byInside, byStaged, byCached, byPolicy,
       byKept, byOld, content, ByWorking, ByFwRec, ByRunRec, byNone, byBySet
<1>6. byPolicy'
    BY ByAssumption DEF bySaveList, byIInv, byHelpers, byTyped, byCached, byPolicy, byStaged, byKept, byOld,
       content, ByFwRec, ByRunRec, byNone, byBySet, ByWorking
<1>7. byBack'
    BY ByAssumption DEF bySaveList, byIInv, byHelpers, byTyped, byCached, byLocked, byInside, byStaged, byPolicy,
       byKept, byBack, byWill, byFixes, content, ByWorking, ByFwRec, ByRunRec, ByPanelRec, byNone, byBySet
<1> QED BY <1>1, <1>2, <1>3, <1>4, <1>5, <1>6, <1>7 DEF byIInv

LEMMA ApplyBypassStep == ASSUME byIInv, ApplyBypass PROVE byIInv'
<1>1. byTyped'
    <2>1. byList' \in 1..ByEdits /\ byCache' \in [v : 0..ByEdits, young : BOOLEAN] /\ byHooked' \in [fw : BOOLEAN, init : BOOLEAN]
        BY ByAssumption, byConstants DEF ApplyBypass, byIInv, byHelpers, byPanelAt, byTyped, byCached, ByPanelRec
    <2>2. byFw' \in ByFwRec
        BY ByAssumption, byConstants DEF ApplyBypass, byIInv, byHelpers, byPanelAt, byTyped, ByFwRec, ByRunRec
    <2>3. byLock' \in {"free", "stale"} \cup byHelpers /\ byDue' \in BOOLEAN /\ byFault' \in Nat
        BY ByAssumption, byConstants DEF ApplyBypass, byIInv, byHelpers, byPanelAt, byTyped
    <2>4. byRun' \in [byHelpers -> ByRunRec]
        BY ByAssumption, byConstants, byContent DEF ApplyBypass, byIInv, byHelpers, byPanelAt, byTyped, ByRunRec,
           ByPlaces
    <2>5. byPanel' \in ByPanelRec
        BY ByAssumption, byConstants DEF ApplyBypass, byIInv, byHelpers, byPanelAt, byTyped, ByStages, ByPanelRec,
           byCached
    <2> QED BY <2>1, <2>2, <2>3, <2>4, <2>5 DEF byTyped
<1>2. byCached'
    BY ByAssumption DEF ApplyBypass, byIInv, byHelpers, byPanelAt, byApplying, byTyped, byCached, ByPanelRec,
       ByFwRec, ByRunRec
<1>3. byLocked'
    BY ByAssumption DEF ApplyBypass, byIInv, byHelpers, byPanelAt, byApplying, byTyped, byLocked, byInside,
       ByRunRec
<1>4. byStaged'
    BY ByAssumption DEF ApplyBypass, byIInv, byHelpers, byPanelAt, byApplying, byTyped, byLocked, byStaged,
       byInside, ByFwRec, ByRunRec, ByPlaces, byNone, byBySet
<1>5. byKept'
    BY ByAssumption DEF ApplyBypass, byIInv, byHelpers, byPanelAt, byApplying, byTyped, byLocked, byInside,
       byStaged, byCached, byPolicy, byKept, byOld, content, ByWorking, ByFwRec, ByRunRec, byNone, byBySet
<1>6. byPolicy'
    BY ByAssumption DEF ApplyBypass, byIInv, byHelpers, byPanelAt, byApplying, byTyped, byCached, byPolicy,
       byStaged, byKept, byOld, content, ByFwRec, ByRunRec, byNone, byBySet, ByWorking
<1>7. byBack'
    BY ByAssumption DEF ApplyBypass, byIInv, byHelpers, byPanelAt, byApplying, byTyped, byCached, byLocked,
       byInside, byStaged, byPolicy, byKept, byBack, byWill, byFixes, content, ByWorking, ByFwRec, ByRunRec,
       ByPanelRec, byNone, byBySet
<1> QED BY <1>1, <1>2, <1>3, <1>4, <1>5, <1>6, <1>7 DEF byIInv

LEMMA RestoreBypassStep == ASSUME byIInv, RestoreBypass PROVE byIInv'
<1>1. byTyped'
    <2>1. byList' \in 1..ByEdits /\ byCache' \in [v : 0..ByEdits, young : BOOLEAN] /\ byHooked' \in [fw : BOOLEAN, init : BOOLEAN]
        BY ByAssumption, byConstants DEF RestoreBypass, reusable, PrepareWANInterfaces, byIInv, byHelpers,
           byPanelAt, byTyped, byCached, ByPanelRec
    <2>2. byFw' \in ByFwRec
        BY ByAssumption, byConstants DEF RestoreBypass, reusable, PrepareWANInterfaces, byIInv, byHelpers,
           byPanelAt, byTyped, ByFwRec, ByRunRec
    <2>3. byLock' \in {"free", "stale"} \cup byHelpers /\ byDue' \in BOOLEAN /\ byFault' \in Nat
        BY ByAssumption, byConstants DEF RestoreBypass, reusable, PrepareWANInterfaces, byIInv, byHelpers,
           byPanelAt, byTyped
    <2>4. byRun' \in [byHelpers -> ByRunRec]
        BY ByAssumption, byConstants, byContent DEF RestoreBypass, reusable, PrepareWANInterfaces, byIInv,
           byHelpers, byPanelAt, byTyped, ByRunRec, ByPlaces
    <2>5. byPanel' \in ByPanelRec
        BY ByAssumption, byConstants DEF RestoreBypass, reusable, PrepareWANInterfaces, byIInv, byHelpers,
           byPanelAt, byTyped, ByStages, ByPanelRec, byCached
    <2> QED BY <2>1, <2>2, <2>3, <2>4, <2>5 DEF byTyped
<1>2. byCached'
    BY ByAssumption DEF RestoreBypass, reusable, PrepareWANInterfaces, byIInv, byHelpers, byPanelAt, byApplying,
       byTyped, byCached, ByPanelRec, ByFwRec, ByRunRec
<1>3. byLocked'
    BY ByAssumption DEF RestoreBypass, reusable, PrepareWANInterfaces, byIInv, byHelpers, byPanelAt, byApplying,
       byTyped, byLocked, byInside, ByRunRec
<1>4. byStaged'
    BY ByAssumption DEF RestoreBypass, reusable, PrepareWANInterfaces, byIInv, byHelpers, byPanelAt, byApplying,
       byTyped, byLocked, byStaged, byInside, ByFwRec, ByRunRec, ByPlaces, byNone, byBySet
<1>5. byKept'
    BY ByAssumption DEF RestoreBypass, reusable, PrepareWANInterfaces, byIInv, byHelpers, byPanelAt, byApplying,
       byTyped, byLocked, byInside, byStaged, byCached, byPolicy, byKept, byOld, content, ByWorking, ByFwRec,
       ByRunRec, byNone, byBySet
<1>6. byPolicy'
    BY ByAssumption DEF RestoreBypass, reusable, PrepareWANInterfaces, byIInv, byHelpers, byPanelAt, byApplying,
       byTyped, byCached, byPolicy, byStaged, byKept, byOld, content, ByFwRec, ByRunRec, byNone, byBySet,
       ByWorking
<1>7. byBack'
    BY ByAssumption DEF RestoreBypass, reusable, PrepareWANInterfaces, byIInv, byHelpers, byPanelAt, byApplying,
       byTyped, byCached, byLocked, byInside, byStaged, byPolicy, byKept, byBack, byWill, byFixes, content,
       ByWorking, ByFwRec, ByRunRec, ByPanelRec, byNone, byBySet
<1> QED BY <1>1, <1>2, <1>3, <1>4, <1>5, <1>6, <1>7 DEF byIInv

LEMMA byResolveStep == ASSUME byIInv, byResolve PROVE byIInv'
<1>a. /\ byPanel.at = "resolve" /\ UNCHANGED <<byList, byCache, byHooked, byFw, byRun, byDue, byLock>>
      /\ \/ byPanel' = [byPanel EXCEPT !.at = "cache", !.read = byList] /\ UNCHANGED byFault
         \/ byFault' = byFault + 1 /\ byPanel' = byNoPanel
    BY DEF byResolve, byPanelAt, byFails
<1>b. \/ byPanel'.at = "cache" /\ byPanel'.read = byList /\ byFault' = byFault
      \/ byPanel'.at = "idle" /\ byFault' # 0
    <2>1. byFault \in Nat /\ byPanel \in ByPanelRec BY DEF byIInv, byTyped
    <2>2. CASE byPanel' = [byPanel EXCEPT !.at = "cache", !.read = byList] /\ UNCHANGED byFault
        BY <2>1, <2>2 DEF ByPanelRec
    <2>3. CASE byFault' = byFault + 1 /\ byPanel' = byNoPanel BY <2>1, <2>3 DEF byNoPanel
    <2> QED BY <1>a, <2>2, <2>3
<1>1. byTyped'
    <2>1. byList' \in 1..ByEdits /\ byCache' \in [v : 0..ByEdits, young : BOOLEAN] /\ byHooked' \in [fw : BOOLEAN, init : BOOLEAN]
        BY ByAssumption, byConstants DEF byResolve, byIInv, byFails, byHelpers, byPanelAt, byTyped, byCached,
           ByPanelRec
    <2>2. byFw' \in ByFwRec
        BY ByAssumption, byConstants DEF byResolve, byIInv, byFails, byHelpers, byPanelAt, byTyped, ByFwRec,
           ByRunRec
    <2>3. byLock' \in {"free", "stale"} \cup byHelpers /\ byDue' \in BOOLEAN /\ byFault' \in Nat
        BY ByAssumption, byConstants DEF byResolve, byIInv, byFails, byHelpers, byPanelAt, byTyped
    <2>4. byRun' \in [byHelpers -> ByRunRec]
        BY ByAssumption, byConstants, byContent DEF byResolve, byIInv, byFails, byHelpers, byPanelAt, byTyped,
           ByRunRec, ByPlaces
    <2>5. byPanel' \in ByPanelRec
        BY ByAssumption, byConstants, ZenonT(60) DEF byResolve, byIInv, byFails, byHelpers, byPanelAt, byTyped, ByStages,
           ByPanelRec, byCached
    <2> QED BY <2>1, <2>2, <2>3, <2>4, <2>5 DEF byTyped
<1>2. byCached' BY <1>a, <1>b DEF byIInv, byTyped, byCached
<1>3. byLocked'
    BY ByAssumption DEF byResolve, byIInv, byFails, byHelpers, byPanelAt, byNoPanel, byTyped, byLocked, byInside,
       ByRunRec
<1>4. byStaged'
    BY ByAssumption DEF byResolve, byIInv, byFails, byHelpers, byPanelAt, byNoPanel, byTyped, byLocked, byStaged,
       byInside, ByFwRec, ByRunRec, ByPlaces, byNone, byBySet
<1>5. byKept'
    BY ByAssumption DEF byResolve, byIInv, byFails, byHelpers, byPanelAt, byNoPanel, byTyped, byLocked, byInside,
       byStaged, byCached, byPolicy, byKept, byOld, content, ByWorking, ByFwRec, ByRunRec, byNone, byBySet
<1>6. byPolicy'
    BY ByAssumption DEF byResolve, byIInv, byFails, byHelpers, byPanelAt, byNoPanel, byTyped, byCached, byPolicy,
       byStaged, byKept, byOld, content, ByFwRec, ByRunRec, byNone, byBySet, ByWorking
<1>7. byBack' BY <1>a, <1>b DEF byIInv, byBack, byWill, byFixes, content
<1> QED BY <1>1, <1>2, <1>3, <1>4, <1>5, <1>6, <1>7 DEF byIInv

LEMMA writeBypassResolvedStep == ASSUME byIInv, writeBypassResolved PROVE byIInv'
<1>1. byTyped'
    <2>1. byList' \in 1..ByEdits /\ byCache' \in [v : 0..ByEdits, young : BOOLEAN] /\ byHooked' \in [fw : BOOLEAN, init : BOOLEAN]
        <3>1. byPanel.at = "cache" /\ UNCHANGED <<byList, byHooked>>
              /\ (byCache' = byCache \/ byCache' = [v |-> byPanel.read, young |-> TRUE])
            BY DEF writeBypassResolved, byPanelAt
        <3>2. byPanel.read \in 0..ByEdits BY DEF byIInv, byTyped, ByPanelRec
        <3>3. [v |-> byPanel.read, young |-> TRUE] \in [v : 0..ByEdits, young : BOOLEAN] BY <3>2
        <3>4. byCache' \in [v : 0..ByEdits, young : BOOLEAN] BY <3>1, <3>3 DEF byIInv, byTyped
        <3> QED BY <3>1, <3>4 DEF byIInv, byTyped
    <2>2. byFw' \in ByFwRec
        BY ByAssumption, byConstants DEF writeBypassResolved, byIInv, byFails, byHelpers, byPanelAt, byTyped,
           ByFwRec, ByRunRec
    <2>3. byLock' \in {"free", "stale"} \cup byHelpers /\ byDue' \in BOOLEAN /\ byFault' \in Nat
        BY ByAssumption, byConstants DEF writeBypassResolved, byIInv, byFails, byHelpers, byPanelAt, byTyped
    <2>4. byRun' \in [byHelpers -> ByRunRec]
        BY ByAssumption, byConstants, byContent DEF writeBypassResolved, byIInv, byFails, byHelpers, byPanelAt,
           byTyped, ByRunRec, ByPlaces
    <2>5. byPanel' \in ByPanelRec
        BY ByAssumption, byConstants DEF writeBypassResolved, byIInv, byFails, byHelpers, byPanelAt, byTyped,
           ByStages, ByPanelRec, byCached
    <2> QED BY <2>1, <2>2, <2>3, <2>4, <2>5 DEF byTyped
<1>2. byCached'
    BY ByAssumption DEF writeBypassResolved, byIInv, byFails, byHelpers, byPanelAt, byNoPanel, byTyped, byCached,
       ByPanelRec, ByFwRec, ByRunRec
<1>3. byLocked'
    BY ByAssumption DEF writeBypassResolved, byIInv, byFails, byHelpers, byPanelAt, byNoPanel, byTyped, byLocked,
       byInside, ByRunRec
<1>4. byStaged'
    BY ByAssumption DEF writeBypassResolved, byIInv, byFails, byHelpers, byPanelAt, byNoPanel, byTyped, byLocked,
       byStaged, byInside, ByFwRec, ByRunRec, ByPlaces, byNone, byBySet
<1>5. byKept'
    BY ByAssumption DEF writeBypassResolved, byIInv, byFails, byHelpers, byPanelAt, byNoPanel, byTyped, byLocked,
       byInside, byStaged, byCached, byPolicy, byKept, byOld, content, ByWorking, ByFwRec, ByRunRec, byNone,
       byBySet
<1>6. byPolicy'
    BY ByAssumption DEF writeBypassResolved, byIInv, byFails, byHelpers, byPanelAt, byNoPanel, byTyped, byCached,
       byPolicy, byStaged, byKept, byOld, content, ByFwRec, ByRunRec, byNone, byBySet, ByWorking
<1>7. byBack'
    BY ByAssumption DEF writeBypassResolved, byIInv, byFails, byHelpers, byPanelAt, byNoPanel, byTyped, byCached,
       byLocked, byInside, byStaged, byPolicy, byKept, byBack, byWill, byFixes, content, ByWorking, ByFwRec,
       ByRunRec, ByPanelRec, byNone, byBySet
<1> QED BY <1>1, <1>2, <1>3, <1>4, <1>5, <1>6, <1>7 DEF byIInv

LEMMA ensureBypassPersistenceStep == ASSUME byIInv, ensureBypassPersistence PROVE byIInv'
<1>1. byTyped'
    <2>1. byList' \in 1..ByEdits /\ byCache' \in [v : 0..ByEdits, young : BOOLEAN] /\ byHooked' \in [fw : BOOLEAN, init : BOOLEAN]
        BY ByAssumption, byConstants DEF ensureBypassPersistence, byIInv, byFails, byHelpers, byPanelAt, byTyped,
           byCached, ByPanelRec
    <2>2. byFw' \in ByFwRec
        BY ByAssumption, byConstants DEF ensureBypassPersistence, byIInv, byFails, byHelpers, byPanelAt, byTyped,
           ByFwRec, ByRunRec
    <2>3. byLock' \in {"free", "stale"} \cup byHelpers /\ byDue' \in BOOLEAN /\ byFault' \in Nat
        BY ByAssumption, byConstants DEF ensureBypassPersistence, byIInv, byFails, byHelpers, byPanelAt, byTyped
    <2>4. byRun' \in [byHelpers -> ByRunRec]
        BY ByAssumption, byConstants, byContent DEF ensureBypassPersistence, byIInv, byFails, byHelpers,
           byPanelAt, byTyped, ByRunRec, ByPlaces
    <2>5. byPanel' \in ByPanelRec
        BY ByAssumption, byConstants DEF ensureBypassPersistence, byIInv, byFails, byHelpers, byPanelAt, byTyped,
           ByStages, ByPanelRec, byCached
    <2> QED BY <2>1, <2>2, <2>3, <2>4, <2>5 DEF byTyped
<1>2. byCached'
    BY ByAssumption DEF ensureBypassPersistence, byIInv, byFails, byHelpers, byPanelAt, byNoPanel, byTyped,
       byCached, ByPanelRec, ByFwRec, ByRunRec
<1>3. byLocked'
    BY ByAssumption DEF ensureBypassPersistence, byIInv, byFails, byHelpers, byPanelAt, byNoPanel, byTyped,
       byLocked, byInside, ByRunRec
<1>4. byStaged'
    BY ByAssumption DEF ensureBypassPersistence, byIInv, byFails, byHelpers, byPanelAt, byNoPanel, byTyped,
       byLocked, byStaged, byInside, ByFwRec, ByRunRec, ByPlaces, byNone, byBySet
<1>5. byKept'
    BY ByAssumption DEF ensureBypassPersistence, byIInv, byFails, byHelpers, byPanelAt, byNoPanel, byTyped,
       byLocked, byInside, byStaged, byCached, byPolicy, byKept, byOld, content, ByWorking, ByFwRec, ByRunRec,
       byNone, byBySet
<1>6. byPolicy'
    BY ByAssumption DEF ensureBypassPersistence, byIInv, byFails, byHelpers, byPanelAt, byNoPanel, byTyped,
       byCached, byPolicy, byStaged, byKept, byOld, content, ByFwRec, ByRunRec, byNone, byBySet, ByWorking
<1>7. byBack'
    BY ByAssumption DEF ensureBypassPersistence, byIInv, byFails, byHelpers, byPanelAt, byNoPanel, byTyped,
       byCached, byLocked, byInside, byStaged, byPolicy, byKept, byBack, byWill, byFixes, content, ByWorking,
       ByFwRec, ByRunRec, ByPanelRec, byNone, byBySet
<1> QED BY <1>1, <1>2, <1>3, <1>4, <1>5, <1>6, <1>7 DEF byIInv

LEMMA ensureBypassInitHookStep == ASSUME byIInv, ensureBypassInitHook PROVE byIInv'
<1>1. byTyped'
    <2>1. byList' \in 1..ByEdits /\ byCache' \in [v : 0..ByEdits, young : BOOLEAN] /\ byHooked' \in [fw : BOOLEAN, init : BOOLEAN]
        BY ByAssumption, byConstants DEF ensureBypassInitHook, byIInv, byFails, byHelpers, byPanelAt, byTyped,
           byCached, ByPanelRec
    <2>2. byFw' \in ByFwRec
        BY ByAssumption, byConstants DEF ensureBypassInitHook, byIInv, byFails, byHelpers, byPanelAt, byTyped,
           ByFwRec, ByRunRec
    <2>3. byLock' \in {"free", "stale"} \cup byHelpers /\ byDue' \in BOOLEAN /\ byFault' \in Nat
        BY ByAssumption, byConstants DEF ensureBypassInitHook, byIInv, byFails, byHelpers, byPanelAt, byTyped
    <2>4. byRun' \in [byHelpers -> ByRunRec]
        BY ByAssumption, byConstants, byContent DEF ensureBypassInitHook, byIInv, byFails, byHelpers, byPanelAt,
           byTyped, ByRunRec, ByPlaces
    <2>5. byPanel' \in ByPanelRec
        BY ByAssumption, byConstants DEF ensureBypassInitHook, byIInv, byFails, byHelpers, byPanelAt, byTyped,
           ByStages, ByPanelRec, byCached
    <2> QED BY <2>1, <2>2, <2>3, <2>4, <2>5 DEF byTyped
<1>2. byCached'
    BY ByAssumption DEF ensureBypassInitHook, byIInv, byFails, byHelpers, byPanelAt, byNoPanel, byTyped, byCached,
       ByPanelRec, ByFwRec, ByRunRec
<1>3. byLocked'
    BY ByAssumption DEF ensureBypassInitHook, byIInv, byFails, byHelpers, byPanelAt, byNoPanel, byTyped, byLocked,
       byInside, ByRunRec
<1>4. byStaged'
    BY ByAssumption DEF ensureBypassInitHook, byIInv, byFails, byHelpers, byPanelAt, byNoPanel, byTyped, byLocked,
       byStaged, byInside, ByFwRec, ByRunRec, ByPlaces, byNone, byBySet
<1>5. byKept'
    BY ByAssumption DEF ensureBypassInitHook, byIInv, byFails, byHelpers, byPanelAt, byNoPanel, byTyped, byLocked,
       byInside, byStaged, byCached, byPolicy, byKept, byOld, content, ByWorking, ByFwRec, ByRunRec, byNone,
       byBySet
<1>6. byPolicy'
    BY ByAssumption DEF ensureBypassInitHook, byIInv, byFails, byHelpers, byPanelAt, byNoPanel, byTyped, byCached,
       byPolicy, byStaged, byKept, byOld, content, ByFwRec, ByRunRec, byNone, byBySet, ByWorking
<1>7. byBack'
    BY ByAssumption DEF ensureBypassInitHook, byIInv, byFails, byHelpers, byPanelAt, byNoPanel, byTyped, byCached,
       byLocked, byInside, byStaged, byPolicy, byKept, byBack, byWill, byFixes, content, ByWorking, ByFwRec,
       ByRunRec, ByPanelRec, byNone, byBySet
<1> QED BY <1>1, <1>2, <1>3, <1>4, <1>5, <1>6, <1>7 DEF byIInv

LEMMA byChainsStep == ASSUME byIInv, byChains PROVE byIInv'
<1>1. byTyped'
    <2>1. byList' \in 1..ByEdits /\ byCache' \in [v : 0..ByEdits, young : BOOLEAN] /\ byHooked' \in [fw : BOOLEAN, init : BOOLEAN]
        BY ByAssumption, byConstants DEF byChains, byIInv, byFails, byHelpers, byPanelAt, byTyped, byCached,
           ByPanelRec
    <2>2. byFw' \in ByFwRec
        BY ByAssumption, byConstants DEF byChains, byIInv, byFails, byHelpers, byPanelAt, byTyped, ByFwRec,
           ByRunRec
    <2>3. byLock' \in {"free", "stale"} \cup byHelpers /\ byDue' \in BOOLEAN /\ byFault' \in Nat
        BY ByAssumption, byConstants DEF byChains, byIInv, byFails, byHelpers, byPanelAt, byTyped
    <2>4. byRun' \in [byHelpers -> ByRunRec]
        BY ByAssumption, byConstants, byContent DEF byChains, byIInv, byFails, byHelpers, byPanelAt, byTyped,
           ByRunRec, ByPlaces
    <2>5. byPanel' \in ByPanelRec
        BY ByAssumption, byConstants DEF byChains, byIInv, byFails, byHelpers, byPanelAt, byTyped, ByStages,
           ByPanelRec, byCached
    <2> QED BY <2>1, <2>2, <2>3, <2>4, <2>5 DEF byTyped
<1>2. byCached'
    BY ByAssumption DEF byChains, byIInv, byFails, byHelpers, byPanelAt, byNoPanel, byTyped, byCached, ByPanelRec,
       ByFwRec, ByRunRec
<1>3. byLocked'
    BY ByAssumption DEF byChains, byIInv, byFails, byHelpers, byPanelAt, byNoPanel, byTyped, byLocked, byInside,
       ByRunRec
<1>4. byStaged'
    BY ByAssumption DEF byChains, byIInv, byFails, byHelpers, byPanelAt, byNoPanel, byTyped, byLocked, byStaged,
       byInside, ByFwRec, ByRunRec, ByPlaces, byNone, byBySet
<1>5. byKept'
    BY ByAssumption DEF byChains, byIInv, byFails, byHelpers, byPanelAt, byNoPanel, byTyped, byLocked, byInside,
       byStaged, byCached, byPolicy, byKept, byOld, content, ByWorking, ByFwRec, ByRunRec, byNone, byBySet
<1>6. byPolicy'
    BY ByAssumption DEF byChains, byIInv, byFails, byHelpers, byPanelAt, byNoPanel, byTyped, byCached, byPolicy,
       byStaged, byKept, byOld, content, ByFwRec, ByRunRec, byNone, byBySet, ByWorking
<1>7. byBack'
    BY ByAssumption DEF byChains, byIInv, byFails, byHelpers, byPanelAt, byNoPanel, byTyped, byCached, byLocked,
       byInside, byStaged, byPolicy, byKept, byBack, byWill, byFixes, content, ByWorking, ByFwRec, ByRunRec,
       ByPanelRec, byNone, byBySet
<1> QED BY <1>1, <1>2, <1>3, <1>4, <1>5, <1>6, <1>7 DEF byIInv

LEMMA byPanelHelperStep == ASSUME byIInv, byPanelHelper PROVE byIInv'
<1>1. byTyped'
    <2>1. byList' \in 1..ByEdits /\ byCache' \in [v : 0..ByEdits, young : BOOLEAN] /\ byHooked' \in [fw : BOOLEAN, init : BOOLEAN]
        BY ByAssumption, byConstants DEF byPanelHelper, byIInv, byHelpers, byPanelAt, byTyped, byCached,
           ByPanelRec
    <2>2. byFw' \in ByFwRec
        BY ByAssumption, byConstants DEF byPanelHelper, byIInv, byHelpers, byPanelAt, byTyped, ByFwRec, ByRunRec
    <2>3. byLock' \in {"free", "stale"} \cup byHelpers /\ byDue' \in BOOLEAN /\ byFault' \in Nat
        BY ByAssumption, byConstants DEF byPanelHelper, byIInv, byHelpers, byPanelAt, byTyped
    <2>4. byRun' \in [byHelpers -> ByRunRec]
        BY ByAssumption, byConstants, byContent DEF byPanelHelper, byIInv, byHelpers, byPanelAt, byTyped,
           ByRunRec, ByPlaces
    <2>5. byPanel' \in ByPanelRec
        BY ByAssumption, byConstants DEF byPanelHelper, byIInv, byHelpers, byPanelAt, byTyped, ByStages,
           ByPanelRec, byCached
    <2> QED BY <2>1, <2>2, <2>3, <2>4, <2>5 DEF byTyped
<1>2. byCached'
    BY ByAssumption DEF byPanelHelper, byIInv, byHelpers, byPanelAt, byIdle, byTyped, byCached, ByPanelRec,
       ByFwRec, ByRunRec
<1>3. byLocked'
    BY ByAssumption DEF byPanelHelper, byIInv, byHelpers, byPanelAt, byIdle, byTyped, byLocked, byInside, ByRunRec
<1>4. byStaged'
    BY ByAssumption DEF byPanelHelper, byIInv, byHelpers, byPanelAt, byIdle, byTyped, byLocked, byStaged,
       byInside, ByFwRec, ByRunRec, ByPlaces, byNone, byBySet
<1>5. byKept'
    BY ByAssumption DEF byPanelHelper, byIInv, byHelpers, byPanelAt, byIdle, byTyped, byLocked, byInside,
       byStaged, byCached, byPolicy, byKept, byOld, content, ByWorking, ByFwRec, ByRunRec, byNone, byBySet
<1>6. byPolicy'
    BY ByAssumption DEF byPanelHelper, byIInv, byHelpers, byPanelAt, byIdle, byTyped, byCached, byPolicy,
       byStaged, byKept, byOld, content, ByFwRec, ByRunRec, byNone, byBySet, ByWorking
<1>7. byBack'
    BY ByAssumption DEF byPanelHelper, byIInv, byHelpers, byPanelAt, byIdle, byTyped, byCached, byLocked,
       byInside, byStaged, byPolicy, byKept, byBack, byWill, byFixes, content, ByWorking, ByFwRec, ByRunRec,
       ByPanelRec, byNone, byBySet
<1> QED BY <1>1, <1>2, <1>3, <1>4, <1>5, <1>6, <1>7 DEF byIInv

LEMMA byPanelEndsStep == ASSUME byIInv, byPanelEnds PROVE byIInv'
<1>1. byTyped'
    <2>1. byList' \in 1..ByEdits /\ byCache' \in [v : 0..ByEdits, young : BOOLEAN] /\ byHooked' \in [fw : BOOLEAN, init : BOOLEAN]
        BY ByAssumption, byConstants DEF byPanelEnds, byIInv, byHelpers, byPanelAt, byTyped, byCached, ByPanelRec
    <2>2. byFw' \in ByFwRec
        BY ByAssumption, byConstants DEF byPanelEnds, byIInv, byHelpers, byPanelAt, byTyped, ByFwRec, ByRunRec
    <2>3. byLock' \in {"free", "stale"} \cup byHelpers /\ byDue' \in BOOLEAN /\ byFault' \in Nat
        BY ByAssumption, byConstants DEF byPanelEnds, byIInv, byHelpers, byPanelAt, byTyped
    <2>4. byRun' \in [byHelpers -> ByRunRec]
        BY ByAssumption, byConstants, byContent DEF byPanelEnds, byIInv, byHelpers, byPanelAt, byTyped, ByRunRec,
           ByPlaces
    <2>5. byPanel' \in ByPanelRec
        BY ByAssumption, byConstants DEF byPanelEnds, byIInv, byHelpers, byPanelAt, byTyped, ByStages, ByPanelRec,
           byCached
    <2> QED BY <2>1, <2>2, <2>3, <2>4, <2>5 DEF byTyped
<1>2. byCached'
    BY ByAssumption DEF byPanelEnds, byIInv, byHelpers, byPanelAt, byIdle, byNoPanel, byTyped, byCached,
       ByPanelRec, ByFwRec, ByRunRec
<1>3. byLocked'
    BY ByAssumption DEF byPanelEnds, byIInv, byHelpers, byPanelAt, byIdle, byNoPanel, byTyped, byLocked, byInside,
       ByRunRec
<1>4. byStaged'
    BY ByAssumption DEF byPanelEnds, byIInv, byHelpers, byPanelAt, byIdle, byNoPanel, byTyped, byLocked, byStaged,
       byInside, ByFwRec, ByRunRec, ByPlaces, byNone, byBySet
<1>5. byKept'
    BY ByAssumption DEF byPanelEnds, byIInv, byHelpers, byPanelAt, byIdle, byNoPanel, byTyped, byLocked, byInside,
       byStaged, byCached, byPolicy, byKept, byOld, content, ByWorking, ByFwRec, ByRunRec, byNone, byBySet
<1>6. byPolicy'
    BY ByAssumption DEF byPanelEnds, byIInv, byHelpers, byPanelAt, byIdle, byNoPanel, byTyped, byCached, byPolicy,
       byStaged, byKept, byOld, content, ByFwRec, ByRunRec, byNone, byBySet, ByWorking
<1>7. byBack'
    BY ByAssumption DEF byPanelEnds, byIInv, byHelpers, byPanelAt, byIdle, byNoPanel, byTyped, byCached, byLocked,
       byInside, byStaged, byPolicy, byKept, byBack, byWill, byFixes, content, ByWorking, ByFwRec, ByRunRec,
       ByPanelRec, byNone, byBySet
<1> QED BY <1>1, <1>2, <1>3, <1>4, <1>5, <1>6, <1>7 DEF byIInv

LEMMA byInitially == byInit => byIInv
<1> SUFFICES ASSUME byInit PROVE byIInv OBVIOUS
<1>1. byFw \in ByFwRec BY byConstants DEF byInit, ByFwRec
<1>2. byTyped
    <2>1. 1 \in 1..ByEdits /\ 0 \in 0..ByEdits BY ByAssumption
    <2> QED BY <1>1, <2>1, byConstants DEF byInit, byTyped
<1>3. \A p \in byHelpers : byRun[p] = byIdle BY DEF byInit
<1>4. byCached BY <1>3 DEF byInit, byCached, byIdle, byNoPanel
<1>5. byLocked BY <1>3 DEF byLocked, byInside, byIdle
<1>6. byStaged BY <1>3 DEF byStaged, byIdle
<1>7. byKept /\ byPolicy BY <1>3 DEF byInit, byKept, byPolicy, byIdle, ByWorking
<1>8. byBack BY DEF byInit, byBack, byNoPanel, byWill
<1> QED BY <1>2, <1>4, <1>5, <1>6, <1>7, <1>8 DEF byIInv

LEMMA byInductive == byIInv /\ [byNext]_byVars => byIInv'
<1> SUFFICES ASSUME byIInv, [byNext]_byVars PROVE byIInv' OBVIOUS
<1>1. CASE UNCHANGED byVars
    BY <1>1 DEF byVars, byIInv, byTyped, byCached, byLocked, byInside, byStaged, byKept, byOld, content, byPolicy, byBack,
       byWill, byFixes
<1>2. ASSUME NEW p \in byHelpers,
             \/ byTakeLock(p) \/ byRead(p) \/ byStage(p) \/ byFill(p) \/ byLive(p) \/ byJump(p) \/ bySwap(p)
             \/ byCommit(p) \/ byUnused(p) \/ byClean(p) \/ byKill(p)
      PROVE byIInv'
    BY <1>2, byTakeLockStep, byReadStep, byStageStep, byFillStep, byLiveStep, byJumpStep,
       bySwapStep, byCommitStep, byUnusedStep, byCleanStep, byKillStep
<1>3. CASE byHookStarts BY <1>3, byHookStartsStep
<1>4. CASE byHookEnds BY <1>4, byHookEndsStep
<1>5. CASE byReload BY <1>5, byReloadStep
<1>6. CASE Update BY <1>6, UpdateStep
<1>7. CASE byReboot BY <1>7, byRebootStep
<1>8. CASE bySaveList BY <1>8, bySaveListStep
<1>9. CASE ApplyBypass BY <1>9, ApplyBypassStep
<1>10. CASE RestoreBypass BY <1>10, RestoreBypassStep
<1>11. CASE byResolve BY <1>11, byResolveStep
<1>12. CASE writeBypassResolved BY <1>12, writeBypassResolvedStep
<1>13. CASE ensureBypassPersistence BY <1>13, ensureBypassPersistenceStep
<1>14. CASE ensureBypassInitHook BY <1>14, ensureBypassInitHookStep
<1>15. CASE byChains BY <1>15, byChainsStep
<1>16. CASE byPanelHelper BY <1>16, byPanelHelperStep
<1>17. CASE byPanelEnds BY <1>17, byPanelEndsStep
<1> QED BY <1>1, <1>2, <1>3, <1>4, <1>5, <1>6, <1>7, <1>8, <1>9, <1>10, <1>11, <1>12, <1>13, <1>14, <1>15, <1>16, <1>17 DEF byNext

LEMMA byImplies == ASSUME byIInv PROVE OneHelper /\ PolicyIsWhole /\ BypassComesBack
<1>1. OneHelper BY DEF byIInv, byLocked, OneHelper
<1>2. PolicyIsWhole BY ByAssumption DEF byIInv, byPolicy, byTyped, PolicyIsWhole
<1>3. BypassComesBack BY DEF byIInv, byBack, byWill, byFixes, ByWorking, BypassComesBack
<1> QED BY <1>1, <1>2, <1>3

\* Only the swap, the chain that is committed, the way back of a helper that failed and a restart change what is matched.
LEMMA byNoOlder ==
    ASSUME byIInv, [byNext]_byVars, byFw.chain # byNone, byFw'.chain # byNone, content' < content
    PROVE  \E p \in byHelpers : byRun[p].at = "clean" /\ ~byRun[p].ok
<1> USE DEF content
<1>0. /\ byFw \in ByFwRec /\ byFw.chain \in Nat /\ byFw.live \in Nat /\ byNone \in Nat /\ byBySet \in Nat
      /\ byRun \in [byHelpers -> ByRunRec] /\ byNone # byBySet
    BY byConstants DEF byIInv, byTyped, ByFwRec
<1>1. content \in Nat BY <1>0
<1>2. byFw' # byFw BY <1>1
<1>3. PICK p \in byHelpers : \/ byStage(p) \/ byFill(p) \/ byLive(p) \/ byJump(p) \/ bySwap(p) \/ byCommit(p)
                             \/ byUnused(p) \/ byClean(p)
    <2>1. ASSUME NEW q \in byHelpers, byTakeLock(q) \/ byRead(q) \/ byKill(q) PROVE FALSE
        BY <1>2, <2>1 DEF byTakeLock, byRead, byKill
    <2>2. ASSUME byReload \/ Update \/ byChains PROVE FALSE
        <3>1. byFw' = byFw \/ byFw' = [byFw EXCEPT !.jump = FALSE] BY <2>2 DEF byReload, Update, byChains, byRebuilt
        <3> QED BY <1>0, <1>1, <3>1 DEF ByFwRec
    <2>3. ~byReboot BY DEF byReboot
    <2>4. ASSUME \/ byHookStarts \/ byHookEnds \/ bySaveList \/ ApplyBypass \/ RestoreBypass \/ byResolve
                 \/ writeBypassResolved \/ ensureBypassPersistence \/ ensureBypassInitHook \/ byPanelHelper \/ byPanelEnds
          PROVE FALSE
        BY <1>2, <2>4 DEF byHookStarts, byHookEnds, bySaveList, ApplyBypass, RestoreBypass, byResolve, writeBypassResolved,
           ensureBypassPersistence, ensureBypassInitHook, byPanelHelper, byPanelEnds
    <2> QED BY <1>2, <2>1, <2>2, <2>3, <2>4 DEF byNext, byVars
<1>4. byFw'.chain \in Nat /\ byRun[p] \in ByRunRec
    BY <1>0, byInductive, byConstants DEF byIInv, byTyped, ByFwRec
<1>5. CASE byStage(p) \/ byFill(p) \/ byJump(p)
    BY <1>0, <1>5 DEF byStage, byFill, filled, byJump, ByFwRec
<1>6. CASE byLive(p)
    <2>1. content # byNone BY ByAssumption DEF byIInv, byPolicy, byTyped, byNone
    <2> QED BY <1>0, <1>6, <2>1 DEF byLive, ByFwRec
<1>7. CASE bySwap(p)
    <2>1. byRun[p].at = "swap" BY <1>7 DEF bySwap, byHelper
    <2>2. byFw.stage = byRun[p].read /\ content <= byRun[p].read BY <2>1 DEF byIInv, byStaged, byKept, ByWorking
    <2>3. byFw' = byFw \/ byFw' = [byFw EXCEPT !.live = byFw.stage, !.stage = byFw.live] BY <1>7 DEF bySwap
    <2>4. byRun[p].read \in Nat BY <1>4, ByAssumption DEF ByRunRec
    <2>5. byFw'.chain = byFw.chain /\ byFw'.live = byFw.stage BY <1>0, <1>2, <2>3 DEF ByFwRec
    <2>6. content' = byRun[p].read \/ content' = content BY <2>2, <2>5
    <2> QED BY <1>1, <2>2, <2>4, <2>6
<1>8. CASE byCommit(p)
    <2>1. byRun[p].at = "commit" BY <1>8 DEF byCommit, byHelper
    <2>2. /\ content <= byRun[p].read /\ (byRun[p].sets => byFw.live = byRun[p].read)
        BY <1>4, <2>1 DEF byIInv, byStaged, byKept, ByWorking, ByRunRec
    <2>3. byFw' = byFw \/ byFw' = byCommitted(byFw, p) BY <1>8 DEF byCommit
    <2>4. byRun[p].read \in 0..ByEdits /\ byRun[p].read # byBySet BY <1>4, byConstants, ByAssumption DEF ByRunRec, byBySet
    <2>5. CASE byFw' = byCommitted(byFw, p)
        <3>1. byFw'.live = byFw.live /\ byFw'.chain = (IF byRun[p].sets THEN byBySet ELSE byRun[p].read)
            BY <1>0, <2>5 DEF byCommitted, ByFwRec
        <3>2. content' = byRun[p].read BY <2>2, <2>4, <3>1
        <3> QED BY <1>1, <2>2, <2>4, <3>2
    <2> QED BY <1>2, <2>3, <2>5
<1>9. CASE byUnused(p)
    <2>1. byFw.chain # byBySet BY <1>9 DEF byUnused, byHelper, byIInv, byStaged
    <2>2. byFw' = [byFw EXCEPT !.live = byNone] BY <1>9 DEF byUnused
    <2> QED BY <1>0, <1>1, <2>1, <2>2 DEF ByFwRec
<1>10. CASE byClean(p)
    <2>1. byRun[p].at = "clean" BY <1>10 DEF byClean, byHelper
    <2>2. CASE byRun[p].swapped BY <2>1, <2>2 DEF byIInv, byStaged
    <2>3. CASE ~byRun[p].swapped
        <3>1. byFw'.live = byFw.live /\ byFw'.chain = byFw.chain BY <1>0, <1>10, <2>3 DEF byClean, ByFwRec
        <3> QED BY <1>1, <3>1
    <2> QED BY <2>2, <2>3
<1> QED BY <1>3, <1>5, <1>6, <1>7, <1>8, <1>9, <1>10

\* A helper that failed ends only once it has taken its set back, with what was matched before it.
LEMMA byFailedKeeps ==
    ASSUME byIInv, [byNext]_byVars, NEW p \in byHelpers,
           byRun[p].at = "clean", byRun'[p].at = "done", ~byRun[p].ok
    PROVE  content' = byRun[p].before
<1>1. byRun \in [byHelpers -> ByRunRec] /\ byFw \in ByFwRec BY DEF byIInv, byTyped
<1>2. byRun' # byRun OBVIOUS
<1>3. byClean(p)
    <2>1. ASSUME NEW q \in byHelpers,
                 \/ byTakeLock(q) \/ byRead(q) \/ byStage(q) \/ byFill(q) \/ byLive(q) \/ byJump(q) \/ bySwap(q)
                 \/ byCommit(q) \/ byUnused(q) \/ byKill(q)
          PROVE FALSE
        <3>1. CASE q = p
            BY <1>1, <2>1, <3>1 DEF byTakeLock, byRead, byStage, byFill, byLive, byJump, bySwap, byCommit, byUnused, byKill,
               byHelper, byIdle
        <3>2. CASE q # p
            BY <1>1, <2>1, <3>2 DEF byTakeLock, byRead, byStage, byFill, byLive, byJump, bySwap, byCommit, byUnused, byKill,
               byTo, byFail
        <3> QED BY <3>1, <3>2
    <2>2. ASSUME NEW q \in byHelpers, q # p, byClean(q) PROVE FALSE BY <1>1, <2>2 DEF byClean, byTo
    <2>3. ASSUME byHookStarts \/ byHookEnds \/ byReboot \/ byPanelHelper \/ byPanelEnds PROVE FALSE
        BY <1>1, <2>3 DEF byHookStarts, byHookEnds, byReboot, byPanelHelper, byPanelEnds, byIdle, byHelpers
    <2>4. ASSUME \/ byReload \/ Update \/ bySaveList \/ ApplyBypass \/ RestoreBypass \/ byResolve
                 \/ writeBypassResolved \/ ensureBypassPersistence \/ ensureBypassInitHook \/ byChains
          PROVE FALSE
        BY <1>2, <2>4 DEF byReload, Update, bySaveList, ApplyBypass, RestoreBypass, byResolve, writeBypassResolved,
           ensureBypassPersistence, ensureBypassInitHook, byChains
    <2> QED BY <1>2, <2>1, <2>2, <2>3, <2>4 DEF byNext, byVars
<1>4. ~byRun[p].swapped
    <2>1. CASE byRun[p].swapped
        <3>1. \/ byRun' = [byRun EXCEPT ![p].swapped = FALSE]
              \/ byRun' = [byRun EXCEPT ![p].swapped = FALSE, ![p].staged = FALSE, ![p].before = content]
            BY <1>3, <2>1 DEF byClean
        <3>2. byRun[p] \in ByRunRec BY <1>1
        <3> QED BY <1>1, <3>1, <3>2 DEF ByRunRec
    <2> QED BY <2>1
<1>5. byFw'.live = byFw.live /\ byFw'.chain = byFw.chain BY <1>1, <1>3, <1>4 DEF byClean, ByFwRec
<1>6. byRun[p].before = byOld(p) BY DEF byIInv, byKept
<1> QED BY <1>4, <1>5, <1>6 DEF content, byOld

\* Whatever commands fail and wherever a helper is ended, the bypass is one whole policy, never an older one, and
\* comes back after a rebuild once nothing failed.
THEOREM BypassIsSafe == bySpec => BypassSafe
<1>1. byIInv /\ [byNext]_byVars =>
        [byFw.chain # byNone /\ byFw'.chain # byNone /\ content' < content
            => \E p \in byHelpers : byRun[p].at = "clean" /\ ~byRun[p].ok]_byVars
    BY byNoOlder
<1>2. byIInv /\ [byNext]_byVars =>
        [\A p \in byHelpers : byRun[p].at = "clean" /\ byRun'[p].at = "done" /\ ~byRun[p].ok
            => content' = byRun[p].before]_byVars
    BY byFailedKeeps
<1>3. byIInv => OneHelper /\ PolicyIsWhole /\ BypassComesBack BY byImplies
<1> QED BY byInitially, byInductive, <1>1, <1>2, <1>3, PTL DEF bySpec, BypassSafe, NoOlderPolicy, FailedKeepsPolicy

(***************************************************************************)
(* The components side by side                                             *)
(***************************************************************************)

\* The invariants of the components.
panelIInv == ppIInv /\ suIInv /\ pfIInv /\ aiIInv /\ msIInv /\ dbIInv

\* All of the components start where they start alone, and a step is one of a component or leaves it as it is.
LEMMA SideBySide ==
    /\ Init => ppInit /\ suInit /\ pfInit /\ aiInit /\ msInit /\ dbInit /\ byInit
    /\ [Next]_<<scope, sxVars, byVars, ppVars, suVars, pfVars, msVars, aiVars, dbVars>>
        => [ppNext]_ppVars /\ [suNext]_suVars /\ [pfNext]_pfVars /\ [aiNext]_aiVars /\ [msNext]_msVars
           /\ [dbNext]_dbVars /\ [byNext]_byVars
<1>1. Init => ppInit /\ suInit /\ pfInit /\ aiInit /\ msInit /\ dbInit /\ byInit
  BY DEF Init
<1>2. ASSUME Next PROVE [ppNext]_ppVars /\ [suNext]_suVars /\ [pfNext]_pfVars /\ [aiNext]_aiVars /\ [msNext]_msVars
           /\ [dbNext]_dbVars /\ [byNext]_byVars
  BY <1>2 DEF Next
<1> QED BY <1>1, <1>2

\* Whatever else the panel does beside it: the port, the update and the forwarded ports are safe, and so is what the
\* isolation of a segment answers, what the bridges are put back to, what the binding of dnsmasq leaves and what the
\* bypass lets past the queue.
THEOREM PanelIsSafe == Spec => [](PanelSafe /\ IsolationSafe /\ AddressesSafe /\ BindingSafe) /\ BypassSafe
<1>1. Init => panelIInv
  BY SideBySide, ppInitIInv, suInitIInv, pfInitIInv, aiInitIInv, msInitIInv, dbInitIInv DEF panelIInv
<1>2. panelIInv /\ [Next]_<<scope, sxVars, byVars, ppVars, suVars, pfVars, msVars, aiVars, dbVars>> => panelIInv'
  BY SideBySide, ppStep, suStep, pfTurn, aiStep, msStep, dbStep DEF panelIInv
<1>3. panelIInv => PanelSafe /\ IsolationSafe /\ AddressesSafe /\ BindingSafe
  BY PortIsSafe, UpdateIsSafe, ForwardIsSafe, msIInvIsSafe, dbIInvIsSafe DEF panelIInv, PanelSafe, IsolationSafe, aiIInv
<1>4. Spec => bySpec BY SideBySide, PTL DEF Spec, bySpec
<1> QED BY <1>1, <1>2, <1>3, <1>4, BypassIsSafe, PTL DEF Spec
=============================================================================
