------------------------------ MODULE DnsProofs ------------------------------
(***************************************************************************)
(* What the DNS server answers by itself: the cache of the addresses of    *)
(* providers (FastDns) and the block lists (DnsFilters), proved for any    *)
(* workers, requests, lists and downloads.                                 *)
(***************************************************************************)
EXTENDS MCDns, FiniteSetTheorems, TLAPS

-----------------------------------------------------------------------------
(* The cache of addresses. *)

FdEntries == [id : Nat, flight : 0..FdFlights, ips : {"none", "fresh", "stale"}, later : BOOLEAN]
FdStates == [at : {"free", "queued", "running", "closed"}, fg : BOOLEAN, closed : Nat]
FdHands == [at : {"look", "sleep", "run", "gone"}, key : FdKeys \cup {"none"}, id : Nat, flight : 0..FdFlights]
FdTable == [FdKeys -> FdEntries]
FdBoard == [1..FdFlights -> FdStates]
FdCrew == [FdWorkers -> FdHands]
fdTyped ==
    /\ fdEntry \in FdTable /\ fdFlight \in FdBoard /\ fdWorker \in FdCrew
    /\ fdWake \in 0..Cardinality(FdWorkers)
    /\ fdWait \in [FdCallers -> 0..FdFlights]
    /\ fdAllowed \in SUBSET FdKeys /\ fdPrune \in BOOLEAN /\ fdLife \in BOOLEAN
    /\ fdIds \in Nat /\ fdUsed \in 0..FdFlights /\ fdEdits \in Nat

\* A flight is closed once, by whoever ends it, and flights are numbered as they start.
fdCloses(fl, used) ==
    \A f \in 1..FdFlights : /\ fl[f].closed = IF fl[f].at = "closed" THEN 1 ELSE 0
                            /\ f > used => fl[f].at = "free"
\* A flight that started is over, queued in an entry or run by a worker.
fdFound(e, fl, wk, used) ==
    \A f \in 1..used : \/ fl[f].at = "closed"
                       \/ fl[f].at = "queued" /\ \E k \in FdKeys : e[k].flight = f
                       \/ \E w \in FdWorkers : wk[w].at = "run" /\ wk[w].flight = f
\* An entry has a flight of its own, which is not over while the resolver is open.
fdHolds(e, fl, ids, used, life) ==
    \A k \in FdKeys :
        /\ e[k].id <= ids /\ e[k].flight <= used /\ (e[k].id = 0 => e[k].flight = 0)
        /\ life /\ e[k].flight # 0 => fl[e[k].flight].at \in {"queued", "running"}
        /\ \A j \in FdKeys : e[j].flight = e[k].flight => j = k \/ e[j].flight = 0
\* A worker runs a flight of its own, that of the entry it took if that is still there.
fdWorks(e, fl, wk, ids, used) ==
    \A w \in FdWorkers : wk[w].at = "run" =>
        /\ wk[w].key \in FdKeys /\ wk[w].id \in 1..ids /\ wk[w].flight \in 1..used
        /\ fl[wk[w].flight].at = "running"
        /\ \A k \in FdKeys : e[k].flight = wk[w].flight <=> k = wk[w].key /\ e[k].id = wk[w].id
        /\ \A v \in FdWorkers : wk[v].at = "run" /\ wk[v].flight = wk[w].flight => v = w
FdGood(e, fl, wk, ids, used, life) ==
    fdCloses(fl, used) /\ fdFound(e, fl, wk, used) /\ fdHolds(e, fl, ids, used, life) /\ fdWorks(e, fl, wk, ids, used)

\* The inductive invariant.
fdIInv ==
    /\ fdTyped /\ FdGood(fdEntry, fdFlight, fdWorker, fdIds, fdUsed, fdLife)
    /\ \A c \in FdCallers : fdWait[c] <= fdUsed
    /\ QueueIsWorked

LEMMA FdCrewSize == Cardinality(FdWorkers) \in Nat /\ Cardinality(FdWorkers) >= 1
<1>1. Cardinality(FdWorkers) \in Nat
  BY FdAssumption, FS_CardinalityType
<1>2. Cardinality(FdWorkers) # 0
  BY FdAssumption, FS_EmptySet
<1> QED BY <1>1, <1>2

LEMMA fdInitIInv == fdInit => fdIInv
<1> SUFFICES ASSUME fdInit PROVE fdIInv
  OBVIOUS
<1> USE FdAssumption DEF fdInit
<1>1. fdNoEntry \in FdEntries /\ fdNoEntry.id = 0 /\ fdNoEntry.flight = 0
  BY DEF fdNoEntry, FdEntries
<1>2. fdLook \in FdHands /\ fdLook.at = "look"
  BY DEF fdLook, FdHands
<1>3. \A k \in FdKeys : fdEntry[k] = fdNoEntry
  OBVIOUS
<1>4. \A w \in FdWorkers : fdWorker[w] = fdLook
  OBVIOUS
<1>5. fdTyped
  <2>1. fdEntry \in FdTable
    BY <1>1 DEF FdTable
  <2>2. fdWorker \in FdCrew
    BY <1>2 DEF FdCrew
  <2>3. fdFlight \in FdBoard
    BY DEF FdBoard, FdStates
  <2>4. fdPrune \in BOOLEAN /\ fdLife \in BOOLEAN
    BY Zenon
  <2>5. fdWake \in 0..Cardinality(FdWorkers) /\ fdUsed \in 0..FdFlights
    BY FdCrewSize
  <2>6. fdWait \in [FdCallers -> 0..FdFlights]
    OBVIOUS
  <2> QED BY <2>1, <2>2, <2>3, <2>4, <2>5, <2>6 DEF fdTyped
<1>6. fdCloses(fdFlight, fdUsed)
  BY DEF fdCloses
<1>7. fdFound(fdEntry, fdFlight, fdWorker, fdUsed)
  BY DEF fdFound
<1>8. fdHolds(fdEntry, fdFlight, fdIds, fdUsed, fdLife)
  BY <1>1, <1>3 DEF fdHolds
<1>9. fdWorks(fdEntry, fdFlight, fdWorker, fdIds, fdUsed)
  BY <1>2, <1>4 DEF fdWorks
<1>10. fdQueued = {}
  BY <1>1, <1>3 DEF fdQueued
<1>11. QueueIsWorked
  BY <1>10 DEF QueueIsWorked
<1>12. \A c \in FdCallers : fdWait[c] <= fdUsed
  OBVIOUS
<1> QED BY <1>5, <1>6, <1>7, <1>8, <1>9, <1>11, <1>12 DEF fdIInv, FdGood

-----------------------------------------------------------------------------
\* An entry that makes room, if any, is not being looked up; the new one has an identity of its own.
LEMMA FdMade ==
    ASSUME fdIInv, fdLife, NEW k \in FdKeys, NEW fg \in BOOLEAN, NEW m \in Made(k, fg),
           NEW ids, ids = IF fdHas(k) THEN fdIds ELSE fdIds + 1
    PROVE  /\ m[1] \in FdTable /\ m[2] \in FdBoard /\ ids \in Nat
           /\ FdGood(m[1], m[2], fdWorker, ids, fdUsed, fdLife) /\ m[1][k].id # 0
           /\ \A j \in FdKeys : m[1][j].flight # 0 /\ m[2][m[1][j].flight].at = "queued" => j \in fdQueued
<1> USE FdAssumption
<1>1. PICK fresh : fresh = [fdNoEntry EXCEPT !.id = fdIds + 1]
  OBVIOUS
<1>2. fdIds \in Nat /\ fdEntry \in FdTable /\ fdFlight \in FdBoard /\ fdWorker \in FdCrew /\ fdUsed \in 0..FdFlights
  BY DEF fdIInv, fdTyped
<1>3. fresh \in FdEntries /\ fresh.id = fdIds + 1 /\ fresh.flight = 0
  <2>1. PICK n : n = fdIds + 1
    OBVIOUS
  <2>2. fresh = [fdNoEntry EXCEPT !.id = n] /\ n \in Nat
    BY <1>1, <1>2, <2>1
  <2>3. fresh = [id |-> n, flight |-> 0, ips |-> "none", later |-> FALSE]
    BY <2>2 DEF fdNoEntry
  <2>4. [id |-> n, flight |-> 0, ips |-> "none", later |-> FALSE] \in FdEntries
    BY <2>2 DEF FdEntries
  <2>5. fresh.id = n /\ fresh.flight = 0
    BY <2>3
  <2> QED BY <2>1, <2>3, <2>4, <2>5
<1>4. fdNoEntry \in FdEntries /\ fdNoEntry.id = 0 /\ fdNoEntry.flight = 0
  BY DEF fdNoEntry, FdEntries
<1>5. fdCloses(fdFlight, fdUsed) /\ fdFound(fdEntry, fdFlight, fdWorker, fdUsed)
      /\ fdHolds(fdEntry, fdFlight, fdIds, fdUsed, fdLife) /\ fdWorks(fdEntry, fdFlight, fdWorker, fdIds, fdUsed)
  BY DEF fdIInv, FdGood
<1>6. CASE fdHas(k)
  <2>1. m = <<fdEntry, fdFlight>> /\ ids = fdIds
    BY <1>6 DEF Made
  <2>2. m[1] = fdEntry /\ m[2] = fdFlight
    BY <2>1
  <2>3. fdEntry[k].id # 0
    BY <1>6 DEF fdHas
  <2> QED BY <1>2, <1>5, <2>1, <2>2, <2>3 DEF FdGood, fdQueued
<1>7. CASE ~fdHas(k)
  <2>1. ids = fdIds + 1 /\ fdEntry[k].id = 0 /\ fdEntry[k].flight = 0
    BY <1>5, <1>7 DEF fdHas, fdHolds
  <2>2. CASE m[1] = [fdEntry EXCEPT ![k] = fresh] /\ m[2] = fdFlight
    <3>1. m[1][k] = fresh /\ \A j \in FdKeys \ {k} : m[1][j] = fdEntry[j]
      BY <1>2, <2>2 DEF FdTable
    <3>2. m[1] \in FdTable /\ \A j \in FdKeys : m[1][j].flight = fdEntry[j].flight
      BY <1>2, <1>3, <2>1, <2>2, <3>1 DEF FdTable
    <3>3. fdFound(m[1], m[2], fdWorker, fdUsed)
      BY <1>5, <2>2, <3>2 DEF fdFound
    <3>4. fdHolds(m[1], m[2], ids, fdUsed, fdLife)
      <4>1. \A j \in FdKeys : m[1][j].id <= ids /\ (m[1][j].id = 0 => m[1][j].flight = 0)
        BY <1>2, <1>3, <1>5, <2>1, <3>1 DEF fdHolds, FdTable, FdEntries
      <4> QED BY <1>5, <2>2, <3>2, <4>1 DEF fdHolds
    <3>5. fdWorks(m[1], m[2], fdWorker, ids, fdUsed)
      <4>1. ASSUME NEW w \in FdWorkers, fdWorker[w].at = "run", NEW j \in FdKeys
            PROVE  m[1][j].flight = fdWorker[w].flight <=> j = fdWorker[w].key /\ m[1][j].id = fdWorker[w].id
        BY <1>2, <1>3, <1>5, <2>1, <3>1, <4>1 DEF fdWorks
      <4> QED BY <1>2, <1>5, <2>1, <2>2, <4>1 DEF fdWorks
    <3>6. \A j \in FdKeys : m[1][j].flight # 0 /\ m[2][m[1][j].flight].at = "queued" => j \in fdQueued
      BY <2>2, <3>2 DEF fdQueued
    <3>7. ids \in Nat /\ m[1][k].id # 0
      BY <1>2, <1>3, <2>1, <3>1
    <3> QED BY <1>2, <1>5, <2>2, <3>2, <3>3, <3>4, <3>5, <3>6, <3>7 DEF FdGood
  <2>3. ASSUME NEW v \in fdVictims, m[1] = [fdEntry EXCEPT ![v] = fdNoEntry, ![k] = fresh],
               m[2] = IF fdEntry[v].flight = 0 THEN fdFlight ELSE closedFlight(fdFlight, fdEntry[v].flight)
        PROVE  /\ m[1] \in FdTable /\ m[2] \in FdBoard /\ ids \in Nat
               /\ FdGood(m[1], m[2], fdWorker, ids, fdUsed, fdLife) /\ m[1][k].id # 0
               /\ \A j \in FdKeys : m[1][j].flight # 0 /\ m[2][m[1][j].flight].at = "queued" => j \in fdQueued
    <3>1. v \in FdKeys /\ v # k /\ fdHas(v) /\ ~fdBusy(v)
      BY <1>7 DEF fdVictims
    <3>2. /\ m[1][k] = fresh /\ m[1][v] = fdNoEntry
          /\ \A j \in FdKeys \ {k, v} : m[1][j] = fdEntry[j]
      BY <1>2, <2>3, <3>1 DEF FdTable
    <3>3. m[1] \in FdTable
      <4>1. m[1] = [j \in FdKeys |-> m[1][j]]
        BY <1>2, <2>3 DEF FdTable
      <4>2. \A j \in FdKeys : m[1][j] \in FdEntries
        BY <1>2, <1>3, <1>4, <3>1, <3>2 DEF FdTable
      <4> QED BY <4>1, <4>2 DEF FdTable
    <3>4. \A j \in FdKeys : m[1][j].flight = IF j = v THEN 0 ELSE fdEntry[j].flight
      BY <1>3, <1>4, <2>1, <3>1, <3>2
    <3>5. PICK f : f = fdEntry[v].flight
      OBVIOUS
    <3>6. f \in 0..fdUsed /\ (f # 0 => f \in 1..FdFlights /\ fdFlight[f].at = "queued" /\ fdFlight[f].closed = 0)
      <4>1. f \in 0..FdFlights /\ f <= fdUsed
        BY <1>2, <1>5, <3>1, <3>5 DEF FdTable, FdEntries, fdHolds
      <4>2. ASSUME f # 0 PROVE fdFlight[f].at = "queued"
        <5>1. fdFlight[f].at \in {"queued", "running"}
          BY <1>5, <3>1, <3>5, <4>2 DEF fdHolds
        <5>2. fdFlight[f].at # "running"
          BY <3>1, <3>5, <4>2 DEF fdBusy
        <5> QED BY <5>1, <5>2
      <4>3. f # 0 => fdFlight[f].closed = 0
        BY <1>2, <1>5, <4>1, <4>2 DEF fdCloses
      <4> QED BY <1>2, <4>1, <4>2, <4>3
    <3>7. m[2] \in FdBoard /\ (f # 0 => m[2][f].at = "closed" /\ m[2][f].closed = 1)
          /\ \A g \in 1..FdFlights : g # f => m[2][g] = fdFlight[g]
      <4>1. CASE f = 0
        BY <1>2, <2>3, <3>5, <4>1
      <4>2. CASE f # 0
        <5>1. m[2] = [fdFlight EXCEPT ![f].closed = @ + 1, ![f].at = "closed"]
          BY <2>3, <3>5, <4>2 DEF closedFlight
        <5> QED BY <1>2, <3>6, <4>2, <5>1 DEF FdBoard, FdStates
      <4> QED BY <4>1, <4>2
    <3>8. fdCloses(m[2], fdUsed)
      BY <1>2, <1>5, <3>6, <3>7 DEF fdCloses
    <3>9. fdFound(m[1], m[2], fdWorker, fdUsed)
      <4> SUFFICES ASSUME NEW g \in 1..fdUsed
                   PROVE  \/ m[2][g].at = "closed"
                          \/ m[2][g].at = "queued" /\ \E j \in FdKeys : m[1][j].flight = g
                          \/ \E w \in FdWorkers : fdWorker[w].at = "run" /\ fdWorker[w].flight = g
        BY DEF fdFound
      <4>1. CASE g = f
        BY <3>7, <4>1
      <4>2. CASE g # f
        <5>1. m[2][g] = fdFlight[g] /\ g # 0
          BY <1>2, <3>7, <4>2
        <5>2. \A j \in FdKeys : fdEntry[j].flight = g => m[1][j].flight = g
          BY <3>4, <3>5, <4>2
        <5> QED BY <1>5, <5>1, <5>2 DEF fdFound
      <4> QED BY <4>1, <4>2
    <3>10. fdHolds(m[1], m[2], ids, fdUsed, fdLife)
      <4> SUFFICES ASSUME NEW j \in FdKeys
                   PROVE  /\ m[1][j].id <= ids /\ m[1][j].flight <= fdUsed /\ (m[1][j].id = 0 => m[1][j].flight = 0)
                          /\ fdLife /\ m[1][j].flight # 0 => m[2][m[1][j].flight].at \in {"queued", "running"}
                          /\ \A i \in FdKeys : m[1][i].flight = m[1][j].flight => i = j \/ m[1][i].flight = 0
        BY DEF fdHolds
      <4>1. m[1][j].id <= ids /\ (m[1][j].id = 0 => m[1][j].flight = 0)
        BY <1>2, <1>3, <1>4, <1>5, <2>1, <3>1, <3>2 DEF fdHolds, FdTable, FdEntries
      <4>2. m[1][j].flight <= fdUsed
        BY <1>2, <1>5, <3>4 DEF fdHolds
      <4>3. ASSUME m[1][j].flight # 0 PROVE m[2][m[1][j].flight].at \in {"queued", "running"}
        <5>1. j # v /\ m[1][j].flight = fdEntry[j].flight /\ fdEntry[j].flight # 0
          BY <3>4, <4>3
        <5>2. fdEntry[j].flight # f
          BY <1>5, <3>1, <3>5, <5>1 DEF fdHolds
        <5>3. fdEntry[j].flight \in 1..FdFlights
          BY <1>2, <5>1 DEF FdTable, FdEntries
        <5> QED BY <1>5, <3>7, <5>1, <5>2, <5>3 DEF fdHolds
      <4>4. \A i \in FdKeys : m[1][i].flight = m[1][j].flight => i = j \/ m[1][i].flight = 0
        BY <1>5, <3>4 DEF fdHolds
      <4> QED BY <4>1, <4>2, <4>3, <4>4
    <3>11. fdWorks(m[1], m[2], fdWorker, ids, fdUsed)
      <4> SUFFICES ASSUME NEW w \in FdWorkers, fdWorker[w].at = "run"
                   PROVE  /\ fdWorker[w].key \in FdKeys /\ fdWorker[w].id \in 1..ids /\ fdWorker[w].flight \in 1..fdUsed
                          /\ m[2][fdWorker[w].flight].at = "running"
                          /\ \A j \in FdKeys : m[1][j].flight = fdWorker[w].flight
                                <=> j = fdWorker[w].key /\ m[1][j].id = fdWorker[w].id
                          /\ \A u \in FdWorkers : fdWorker[u].at = "run" /\ fdWorker[u].flight = fdWorker[w].flight => u = w
        BY DEF fdWorks
      <4>1. /\ fdWorker[w].key \in FdKeys /\ fdWorker[w].id \in 1..fdIds /\ fdWorker[w].flight \in 1..fdUsed
            /\ fdFlight[fdWorker[w].flight].at = "running"
            /\ \A j \in FdKeys : fdEntry[j].flight = fdWorker[w].flight
                  <=> j = fdWorker[w].key /\ fdEntry[j].id = fdWorker[w].id
            /\ \A u \in FdWorkers : fdWorker[u].at = "run" /\ fdWorker[u].flight = fdWorker[w].flight => u = w
        BY <1>5 DEF fdWorks
      <4>2. fdWorker[w].flight # f /\ fdWorker[w].flight \in 1..FdFlights
        BY <1>2, <3>6, <4>1
      <4>3. ASSUME NEW j \in FdKeys
            PROVE  m[1][j].flight = fdWorker[w].flight <=> j = fdWorker[w].key /\ m[1][j].id = fdWorker[w].id
        <5>1. CASE j = k
          BY <1>2, <1>3, <3>2, <4>1, <5>1
        <5>2. CASE j = v
          BY <1>2, <1>4, <3>2, <4>1, <5>2
        <5>3. CASE j # k /\ j # v
          BY <3>2, <4>1, <5>3
        <5> QED BY <5>1, <5>2, <5>3
      <4>4. m[2][fdWorker[w].flight].at = "running"
        BY <3>7, <4>1, <4>2
      <4> QED BY <1>2, <2>1, <4>1, <4>3, <4>4
    <3>12. \A j \in FdKeys : m[1][j].flight # 0 /\ m[2][m[1][j].flight].at = "queued" => j \in fdQueued
      <4> SUFFICES ASSUME NEW j \in FdKeys, m[1][j].flight # 0, m[2][m[1][j].flight].at = "queued"
                   PROVE  j \in fdQueued
        OBVIOUS
      <4>1. j # v /\ m[1][j].flight = fdEntry[j].flight /\ fdEntry[j].flight # 0
        BY <3>4
      <4>2. fdEntry[j].flight # f
        BY <1>5, <3>1, <3>5, <4>1 DEF fdHolds
      <4>3. fdEntry[j].flight \in 1..FdFlights
        BY <1>2, <4>1 DEF FdTable, FdEntries
      <4> QED BY <3>7, <4>1, <4>2, <4>3 DEF fdQueued
    <3>13. ids \in Nat /\ m[1][k].id # 0
      BY <1>2, <1>3, <2>1, <3>2
    <3> QED BY <3>3, <3>7, <3>8, <3>9, <3>10, <3>11, <3>12, <3>13 DEF FdGood
  <2>4. \/ m = <<[fdEntry EXCEPT ![k] = fresh], fdFlight>>
        \/ \E v \in fdVictims :
             m = <<[fdEntry EXCEPT ![v] = fdNoEntry, ![k] = fresh],
                   IF fdEntry[v].flight = 0 THEN fdFlight ELSE closedFlight(fdFlight, fdEntry[v].flight)>>
    BY <1>1, <1>7 DEF Made
  <2>5. CASE m = <<[fdEntry EXCEPT ![k] = fresh], fdFlight>>
    <3>1. m[1] = [fdEntry EXCEPT ![k] = fresh] /\ m[2] = fdFlight
      BY <2>5
    <3> QED BY <2>2, <3>1
  <2>6. ASSUME NEW v \in fdVictims,
               m = <<[fdEntry EXCEPT ![v] = fdNoEntry, ![k] = fresh],
                     IF fdEntry[v].flight = 0 THEN fdFlight ELSE closedFlight(fdFlight, fdEntry[v].flight)>>
        PROVE  /\ m[1] = [fdEntry EXCEPT ![v] = fdNoEntry, ![k] = fresh]
               /\ m[2] = IF fdEntry[v].flight = 0 THEN fdFlight ELSE closedFlight(fdFlight, fdEntry[v].flight)
    BY <2>6
  <2> QED BY <2>3, <2>4, <2>5, <2>6
<1> QED BY <1>6, <1>7

\* A new flight for an entry that has none.
LEMMA FdScheduled ==
    ASSUME fdIInv, NEW e \in FdTable, NEW fl \in FdBoard, NEW ids \in Nat, NEW k \in FdKeys, NEW fg \in BOOLEAN,
           FdGood(e, fl, fdWorker, ids, fdUsed, fdLife), e[k].flight = 0, e[k].id # 0,
           scheduled(e, fl, k, fg)
    PROVE  /\ fdEntry' \in FdTable /\ fdFlight' \in FdBoard /\ fdWake' \in 1..Cardinality(FdWorkers)
           /\ fdUsed' = fdUsed + 1 /\ fdUsed' \in 0..FdFlights
           /\ FdGood(fdEntry', fdFlight', fdWorker, ids, fdUsed', fdLife)
<1> USE FdAssumption
<1>1. PICK f : f = fdUsed + 1
  OBVIOUS
<1>2. fdUsed \in 0..FdFlights /\ fdWake \in 0..Cardinality(FdWorkers) /\ fdWorker \in FdCrew
  BY DEF fdIInv, fdTyped
<1>3. fdUsed' = f /\ f \in 1..FdFlights /\ f = fdUsed + 1
  BY <1>1, <1>2 DEF scheduled
<1>4. PICK new : new = [at |-> "queued", fg |-> fg, closed |-> 0]
  OBVIOUS
<1>5. fdEntry' = [e EXCEPT ![k].flight = f] /\ fdFlight' = [fl EXCEPT ![f] = new]
  BY <1>3, <1>4 DEF scheduled
<1>6. new \in FdStates /\ new.at = "queued" /\ new.closed = 0
  BY <1>4 DEF FdStates
<1>7. fdWake' \in 1..Cardinality(FdWorkers)
  BY <1>2, FdCrewSize DEF scheduled, fdWakes
<1> HIDE DEF scheduled
<1>8. fdFlight' \in FdBoard /\ fdFlight'[f] = new /\ \A g \in 1..FdFlights : g # f => fdFlight'[g] = fl[g]
  BY <1>3, <1>5, <1>6 DEF FdBoard
<1>9. fdEntry' \in FdTable /\ fdEntry'[k].flight = f /\ fdEntry'[k].id = e[k].id
      /\ \A j \in FdKeys : j # k => fdEntry'[j] = e[j]
  BY <1>3, <1>5 DEF FdTable, FdEntries
<1>10. fdCloses(fl, fdUsed) /\ fdFound(e, fl, fdWorker, fdUsed)
       /\ fdHolds(e, fl, ids, fdUsed, fdLife) /\ fdWorks(e, fl, fdWorker, ids, fdUsed)
  BY DEF FdGood
<1>11. fdCloses(fdFlight', fdUsed')
  BY <1>2, <1>3, <1>6, <1>8, <1>10 DEF fdCloses
<1>12. fdFound(fdEntry', fdFlight', fdWorker, fdUsed')
  <2> SUFFICES ASSUME NEW g \in 1..f
               PROVE  \/ fdFlight'[g].at = "closed"
                      \/ fdFlight'[g].at = "queued" /\ \E j \in FdKeys : fdEntry'[j].flight = g
                      \/ \E w \in FdWorkers : fdWorker[w].at = "run" /\ fdWorker[w].flight = g
    BY <1>3 DEF fdFound
  <2>1. CASE g = f
    BY <1>6, <1>8, <1>9, <2>1
  <2>2. CASE g # f
    <3>1. g \in 1..fdUsed /\ g \in 1..FdFlights /\ g # 0
      BY <1>2, <1>3, <2>2
    <3>2. \A j \in FdKeys : e[j].flight = g => fdEntry'[j].flight = g
      BY <1>9, <3>1
    <3>3. fdFlight'[g] = fl[g]
      BY <1>8, <2>2, <3>1
    <3> QED BY <1>10, <3>1, <3>2, <3>3 DEF fdFound
  <2> QED BY <2>1, <2>2
<1>13. fdHolds(fdEntry', fdFlight', ids, fdUsed', fdLife)
  <2> SUFFICES ASSUME NEW j \in FdKeys
               PROVE  /\ fdEntry'[j].id <= ids /\ fdEntry'[j].flight <= f
                      /\ fdEntry'[j].id = 0 => fdEntry'[j].flight = 0
                      /\ fdLife /\ fdEntry'[j].flight # 0 => fdFlight'[fdEntry'[j].flight].at \in {"queued", "running"}
                      /\ \A i \in FdKeys : fdEntry'[i].flight = fdEntry'[j].flight => i = j \/ fdEntry'[i].flight = 0
    BY <1>3 DEF fdHolds
  <2>1. \A i \in FdKeys : e[i].flight \in 0..FdFlights /\ e[i].flight <= fdUsed /\ e[i].id <= ids /\ e[i].id \in Nat
    BY <1>10 DEF fdHolds, FdTable, FdEntries
  <2>2. \A i \in FdKeys : i # k => e[i].flight # f
    BY <1>2, <1>3, <2>1
  <2>3. CASE j = k
    BY <1>3, <1>6, <1>8, <1>9, <2>1, <2>2, <2>3
  <2>4. CASE j # k
    <3>1. fdEntry'[j] = e[j] /\ e[j].flight # f
      BY <1>9, <2>2, <2>4
    <3>2. e[j].flight # 0 => fdFlight'[e[j].flight] = fl[e[j].flight]
      BY <1>8, <2>1, <3>1
    <3>3. \A i \in FdKeys : fdEntry'[i].flight = e[j].flight => i = j \/ fdEntry'[i].flight = 0
      BY <1>9, <1>10, <3>1 DEF fdHolds
    <3>4. e[j].flight <= f
      BY <1>2, <1>3, <2>1
    <3>5. fdLife /\ e[j].flight # 0 => fl[e[j].flight].at \in {"queued", "running"}
      BY <1>10 DEF fdHolds
    <3>6. e[j].id = 0 => e[j].flight = 0
      BY <1>10 DEF fdHolds
    <3> QED BY <2>1, <3>1, <3>2, <3>3, <3>4, <3>5, <3>6
  <2> QED BY <2>3, <2>4
<1>14. fdWorks(fdEntry', fdFlight', fdWorker, ids, fdUsed')
  <2> SUFFICES ASSUME NEW w \in FdWorkers, fdWorker[w].at = "run"
               PROVE  /\ fdWorker[w].key \in FdKeys /\ fdWorker[w].id \in 1..ids /\ fdWorker[w].flight \in 1..f
                      /\ fdFlight'[fdWorker[w].flight].at = "running"
                      /\ \A j \in FdKeys : fdEntry'[j].flight = fdWorker[w].flight
                            <=> j = fdWorker[w].key /\ fdEntry'[j].id = fdWorker[w].id
                      /\ \A v \in FdWorkers : fdWorker[v].at = "run" /\ fdWorker[v].flight = fdWorker[w].flight => v = w
    BY <1>3 DEF fdWorks
  <2>1. /\ fdWorker[w].key \in FdKeys /\ fdWorker[w].id \in 1..ids /\ fdWorker[w].flight \in 1..fdUsed
        /\ fl[fdWorker[w].flight].at = "running"
        /\ \A j \in FdKeys : e[j].flight = fdWorker[w].flight <=> j = fdWorker[w].key /\ e[j].id = fdWorker[w].id
        /\ \A v \in FdWorkers : fdWorker[v].at = "run" /\ fdWorker[v].flight = fdWorker[w].flight => v = w
    BY <1>10 DEF fdWorks
  <2>2. fdWorker[w].flight # f /\ fdWorker[w].flight \in 1..FdFlights /\ fdWorker[w].flight \in 1..f
    BY <1>2, <1>3, <2>1
  <2>3. \A j \in FdKeys : fdEntry'[j].flight = fdWorker[w].flight
            <=> j = fdWorker[w].key /\ fdEntry'[j].id = fdWorker[w].id
    BY <1>9, <2>1, <2>2
  <2>4. fdFlight'[fdWorker[w].flight].at = "running"
    BY <1>8, <2>1, <2>2
  <2> QED BY <2>1, <2>2, <2>3, <2>4
<1> QED BY <1>3, <1>7, <1>8, <1>9, <1>11, <1>12, <1>13, <1>14 DEF FdGood

\* A request waits for a flight that is under way: that is urgent now.
LEMMA FdUrgent ==
    ASSUME fdIInv, NEW e \in FdTable, NEW fl \in FdBoard, NEW ids \in Nat, NEW f \in 1..FdFlights,
           FdGood(e, fl, fdWorker, ids, fdUsed, fdLife)
    PROVE  /\ [fl EXCEPT ![f].fg = TRUE] \in FdBoard
           /\ \A g \in 1..FdFlights : [fl EXCEPT ![f].fg = TRUE][g].at = fl[g].at
           /\ FdGood(e, [fl EXCEPT ![f].fg = TRUE], fdWorker, ids, fdUsed, fdLife)
<1> USE FdAssumption
<1>1. PICK new : new = [fl EXCEPT ![f].fg = TRUE]
  OBVIOUS
<1>2. new \in FdBoard /\ \A g \in 1..FdFlights : new[g].at = fl[g].at /\ new[g].closed = fl[g].closed
  BY <1>1 DEF FdBoard, FdStates
<1>3. fdUsed \in 0..FdFlights /\ 1..fdUsed \subseteq 1..FdFlights
  BY DEF fdIInv, fdTyped
<1>4. fdCloses(fl, fdUsed) /\ fdFound(e, fl, fdWorker, fdUsed)
      /\ fdHolds(e, fl, ids, fdUsed, fdLife) /\ fdWorks(e, fl, fdWorker, ids, fdUsed)
  BY DEF FdGood
<1>5. fdCloses(new, fdUsed) /\ fdFound(e, new, fdWorker, fdUsed)
  BY <1>2, <1>3, <1>4 DEF fdCloses, fdFound
<1>6. fdHolds(e, new, ids, fdUsed, fdLife)
  <2>1. \A k \in FdKeys : e[k].flight # 0 => e[k].flight \in 1..FdFlights
    BY DEF FdTable, FdEntries
  <2> QED BY <1>2, <1>4, <2>1 DEF fdHolds
<1>7. fdWorks(e, new, fdWorker, ids, fdUsed)
  BY <1>2, <1>3, <1>4 DEF fdWorks
<1> QED BY <1>1, <1>2, <1>5, <1>6, <1>7 DEF FdGood

\* Nothing new in the queue, or a token for it: the queue is worked.
LEMMA FdStillWorked ==
    ASSUME fdIInv, UNCHANGED <<fdWorker, fdLife>>,
           \/ fdWake' > 0
           \/ fdWake' = fdWake /\ (fdLife => fdQueued' \subseteq fdQueued)
    PROVE  QueueIsWorked'
<1>1. QueueIsWorked
  BY DEF fdIInv
<1>2. CASE fdWake' > 0
  BY <1>2 DEF QueueIsWorked
<1>3. CASE fdWake' = fdWake /\ (fdLife => fdQueued' \subseteq fdQueued)
  <2>1. fdLife /\ fdQueued' # {} => fdQueued # {}
    BY <1>3
  <2> QED BY <1>1, <1>3, <2>1 DEF QueueIsWorked
<1> QED BY <1>2, <1>3

-----------------------------------------------------------------------------
\* A request finds an entry or makes one, and waits for its flight if there is nothing to answer.
LEMMA FdLookup ==
    ASSUME fdIInv, NEW c \in FdCallers, NEW k \in FdKeys, Lookup(c, k)
    PROVE  fdIInv'
<1> USE FdAssumption
<1>1. PICK ids : ids = IF fdHas(k) THEN fdIds ELSE fdIds + 1
  OBVIOUS
<1>2. fdIds' = ids /\ fdLife /\ fdWait[c] = 0 /\ UNCHANGED <<fdWorker, fdAllowed, fdPrune, fdLife, fdEdits>>
  BY <1>1 DEF Lookup, fdId
<1>3. PICK m \in Made(k, TRUE) :
        LET e == m[1]
            usable == e[k].ips # "none"
        IN \/ /\ e[k].ips = "fresh"
              /\ fdEntry' = e /\ fdFlight' = m[2] /\ UNCHANGED <<fdWake, fdUsed, fdWait>>
           \/ /\ e[k].ips # "fresh" /\ e[k].flight = 0 /\ ~e[k].later
              /\ scheduled(e, m[2], k, ~usable)
              /\ fdWait' = [fdWait EXCEPT ![c] = IF usable THEN 0 ELSE fdUsed']
           \/ /\ e[k].ips # "fresh" /\ e[k].flight # 0
              /\ fdEntry' = e
              /\ fdFlight' = IF usable THEN m[2] ELSE [m[2] EXCEPT ![e[k].flight].fg = TRUE]
              /\ fdWait' = [fdWait EXCEPT ![c] = IF usable THEN 0 ELSE e[k].flight]
              /\ UNCHANGED <<fdWake, fdUsed>>
           \/ /\ e[k].ips # "fresh" /\ e[k].flight = 0 /\ e[k].later
              /\ fdEntry' = e /\ fdFlight' = m[2] /\ UNCHANGED <<fdWake, fdUsed, fdWait>>
  BY DEF Lookup
<1> HIDE DEF Lookup
<1>4. PICK e, fl, fg : e = m[1] /\ fl = m[2] /\ fg = (e[k].ips = "none")
  OBVIOUS
<1>5. /\ e \in FdTable /\ fl \in FdBoard /\ ids \in Nat
      /\ FdGood(e, fl, fdWorker, ids, fdUsed, fdLife) /\ e[k].id # 0
      /\ \A j \in FdKeys : e[j].flight # 0 /\ fl[e[j].flight].at = "queued" => j \in fdQueued
  BY <1>1, <1>2, <1>4, FdMade
<1>6. fdTyped /\ fdUsed \in 0..FdFlights /\ fdWait \in [FdCallers -> 0..FdFlights]
      /\ \A d \in FdCallers : fdWait[d] <= fdUsed
  BY DEF fdIInv, fdTyped
<1>7. ASSUME fdEntry' \in FdTable, fdFlight' \in FdBoard, fdWake' \in 0..Cardinality(FdWorkers), fdUsed' \in 0..FdFlights,
             FdGood(fdEntry', fdFlight', fdWorker, ids, fdUsed', fdLife), fdUsed <= fdUsed',
             NEW n \in 0..fdUsed', fdWait' = fdWait \/ fdWait' = [fdWait EXCEPT ![c] = n],
             QueueIsWorked'
      PROVE  fdIInv'
  <2>1. fdWait' \in [FdCallers -> 0..FdFlights] /\ \A d \in FdCallers : fdWait'[d] <= fdUsed'
    BY <1>6, <1>7
  <2>2. fdTyped'
    BY <1>2, <1>5, <1>6, <1>7, <2>1 DEF fdTyped
  <2> QED BY <1>2, <1>7, <2>1, <2>2 DEF fdIInv
<1>8. CASE fdEntry' = e /\ fdFlight' = fl /\ UNCHANGED <<fdWake, fdUsed>>
           /\ (fdWait' = fdWait \/ fdWait' = [fdWait EXCEPT ![c] = 0])
  <2>1. fdQueued' \subseteq fdQueued
    BY <1>5, <1>8 DEF fdQueued
  <2>2. QueueIsWorked'
    BY <1>2, <1>8, <2>1, FdStillWorked
  <2>3. 0 \in 0..fdUsed'
    BY <1>6, <1>8
  <2> QED BY <1>5, <1>6, <1>7, <1>8, <2>2, <2>3 DEF fdTyped
<1>9. CASE e[k].flight = 0 /\ scheduled(e, fl, k, fg)
           /\ fdWait' = [fdWait EXCEPT ![c] = IF ~fg THEN 0 ELSE fdUsed']
  <2>1. fg \in BOOLEAN
    BY <1>4
  <2>2. /\ fdEntry' \in FdTable /\ fdFlight' \in FdBoard /\ fdWake' \in 1..Cardinality(FdWorkers)
        /\ fdUsed' = fdUsed + 1 /\ fdUsed' \in 0..FdFlights
        /\ FdGood(fdEntry', fdFlight', fdWorker, ids, fdUsed', fdLife)
    BY <1>5, <1>9, <2>1, FdScheduled
  <2>3. fdWake' > 0 /\ fdWake' \in 0..Cardinality(FdWorkers)
    BY <2>2, FdCrewSize
  <2>4. QueueIsWorked'
    BY <1>2, <2>3, FdStillWorked
  <2>5. PICK n : n = IF ~fg THEN 0 ELSE fdUsed'
    OBVIOUS
  <2>6. n \in 0..fdUsed' /\ fdWait' = [fdWait EXCEPT ![c] = n]
    BY <1>9, <2>2, <2>5
  <2>7. fdUsed <= fdUsed'
    BY <1>6, <2>2
  <2> QED BY <1>7, <2>2, <2>3, <2>4, <2>6, <2>7
<1>10. CASE e[k].flight # 0 /\ fdEntry' = e /\ fdFlight' = [fl EXCEPT ![e[k].flight].fg = TRUE]
            /\ fdWait' = [fdWait EXCEPT ![c] = e[k].flight] /\ UNCHANGED <<fdWake, fdUsed>>
  <2>1. PICK f : f = e[k].flight
    OBVIOUS
  <2>2. f \in 1..FdFlights /\ f <= fdUsed
    BY <1>5, <1>10, <2>1 DEF FdTable, FdEntries, FdGood, fdHolds
  <2>3. fdFlight' = [fl EXCEPT ![f].fg = TRUE]
    BY <1>10, <2>1
  <2> DEFINE new == [fl EXCEPT ![f].fg = TRUE]
  <2>9. new \in FdBoard /\ (\A g \in 1..FdFlights : new[g].at = fl[g].at)
        /\ FdGood(e, new, fdWorker, ids, fdUsed, fdLife)
    BY <1>5, <2>2, FdUrgent
  <2> HIDE DEF new
  <2>10. fdFlight' = new
    BY <2>3 DEF new
  <2>4. fdFlight' \in FdBoard /\ (\A g \in 1..FdFlights : fdFlight'[g].at = fl[g].at)
        /\ FdGood(e, fdFlight', fdWorker, ids, fdUsed, fdLife)
    BY <2>9, <2>10
  <2>5. \A j \in FdKeys : e[j].flight # 0 => e[j].flight \in 1..FdFlights
    BY <1>5 DEF FdTable, FdEntries
  <2>6. fdQueued' \subseteq fdQueued
    BY <1>5, <1>10, <2>4, <2>5 DEF fdQueued
  <2>7. QueueIsWorked'
    BY <1>2, <1>10, <2>6, FdStillWorked
  <2>8. f \in 0..fdUsed' /\ fdWait' = [fdWait EXCEPT ![c] = f]
    BY <1>6, <1>10, <2>1, <2>2
  <2>11. fdUsed' = fdUsed /\ fdWake' \in 0..Cardinality(FdWorkers) /\ fdUsed <= fdUsed'
    BY <1>6, <1>10 DEF fdTyped
  <2> QED BY <1>5, <1>6, <1>7, <1>10, <2>4, <2>7, <2>8, <2>11
<1>12. CASE e[k].ips = "fresh" /\ fdEntry' = e /\ fdFlight' = fl /\ UNCHANGED <<fdWake, fdUsed, fdWait>>
  BY <1>8, <1>12
<1>13. CASE e[k].ips # "fresh" /\ e[k].flight = 0 /\ ~e[k].later /\ scheduled(e, fl, k, ~(e[k].ips # "none"))
            /\ fdWait' = [fdWait EXCEPT ![c] = IF e[k].ips # "none" THEN 0 ELSE fdUsed']
  <2>1. (~(e[k].ips # "none")) = fg
    BY <1>4
  <2>2. scheduled(e, fl, k, fg)
    BY <1>13, <2>1
  <2>3. fdWait' = [fdWait EXCEPT ![c] = IF ~fg THEN 0 ELSE fdUsed']
    BY <1>4, <1>13
  <2> QED BY <1>9, <1>13, <2>2, <2>3
<1>14. CASE /\ e[k].ips # "fresh" /\ e[k].flight # 0 /\ fdEntry' = e
            /\ fdFlight' = IF e[k].ips # "none" THEN fl ELSE [fl EXCEPT ![e[k].flight].fg = TRUE]
            /\ fdWait' = [fdWait EXCEPT ![c] = IF e[k].ips # "none" THEN 0 ELSE e[k].flight]
            /\ UNCHANGED <<fdWake, fdUsed>>
  <2>1. CASE e[k].ips # "none"
    BY <1>8, <1>14, <2>1
  <2>2. CASE e[k].ips = "none"
    BY <1>10, <1>14, <2>2
  <2> QED BY <2>1, <2>2
<1>15. CASE e[k].ips # "fresh" /\ e[k].flight = 0 /\ e[k].later /\ fdEntry' = e /\ fdFlight' = fl
            /\ UNCHANGED <<fdWake, fdUsed, fdWait>>
  BY <1>8, <1>15
<1> QED BY <1>3, <1>4, <1>12, <1>13, <1>14, <1>15

LEMMA FdMaintain ==
    ASSUME fdIInv, NEW k \in FdKeys, maintain(k)
    PROVE  fdIInv'
<1> USE FdAssumption
<1>1. PICK ids : ids = IF fdHas(k) THEN fdIds ELSE fdIds + 1
  OBVIOUS
<1>2. fdIds' = ids /\ fdLife /\ UNCHANGED <<fdWorker, fdWait, fdAllowed, fdPrune, fdLife, fdEdits>>
  BY <1>1 DEF maintain, fdId
<1>3. PICK m \in Made(k, FALSE) : m[1][k].flight = 0 /\ scheduled(m[1], m[2], k, FALSE)
  BY DEF maintain
<1> HIDE DEF maintain
<1>4. PICK e, fl : e = m[1] /\ fl = m[2]
  OBVIOUS
<1>5. /\ e \in FdTable /\ fl \in FdBoard /\ ids \in Nat
      /\ FdGood(e, fl, fdWorker, ids, fdUsed, fdLife) /\ e[k].id # 0
  BY <1>1, <1>2, <1>4, FdMade
<1>6. /\ fdEntry' \in FdTable /\ fdFlight' \in FdBoard /\ fdWake' \in 1..Cardinality(FdWorkers)
      /\ fdUsed' = fdUsed + 1 /\ fdUsed' \in 0..FdFlights
      /\ FdGood(fdEntry', fdFlight', fdWorker, ids, fdUsed', fdLife)
  BY <1>3, <1>4, <1>5, FdScheduled
<1>7. fdWake' > 0 /\ fdWake' \in 0..Cardinality(FdWorkers)
  BY <1>6, FdCrewSize
<1>8. QueueIsWorked'
  BY <1>2, <1>7, FdStillWorked
<1>9. fdTyped'
  BY <1>2, <1>5, <1>6, <1>7 DEF fdIInv, fdTyped
<1>10. \A c \in FdCallers : fdWait'[c] <= fdUsed'
  BY <1>2, <1>6 DEF fdIInv, fdTyped
<1> QED BY <1>2, <1>6, <1>8, <1>9, <1>10 DEF fdIInv

-----------------------------------------------------------------------------
\* A worker takes a queued flight: it has the entry's identity and flight.
LEMMA FdTakes ==
    ASSUME fdIInv, NEW w \in FdWorkers, NEW k \in FdKeys, workerTakes(w, k)
    PROVE  fdIInv'
<1> USE FdAssumption
<1>1. PICK f, hand : f = fdEntry[k].flight
        /\ hand = [at |-> "run", key |-> k, id |-> fdEntry[k].id, flight |-> f]
  OBVIOUS
<1>2. /\ fdLife /\ fdWorker[w].at = "look" /\ k \in fdQueued
      /\ fdFlight' = [fdFlight EXCEPT ![f].at = "running"] /\ fdWorker' = [fdWorker EXCEPT ![w] = hand]
      /\ UNCHANGED <<fdEntry, fdWake, fdWait, fdAllowed, fdPrune, fdLife, fdIds, fdUsed, fdEdits>>
  BY <1>1 DEF workerTakes
<1> HIDE DEF workerTakes
<1>3. fdTyped /\ fdEntry \in FdTable /\ fdFlight \in FdBoard /\ fdWorker \in FdCrew /\ fdUsed \in 0..FdFlights /\ fdIds \in Nat
  BY DEF fdIInv, fdTyped
<1>4. fdCloses(fdFlight, fdUsed) /\ fdFound(fdEntry, fdFlight, fdWorker, fdUsed)
      /\ fdHolds(fdEntry, fdFlight, fdIds, fdUsed, fdLife) /\ fdWorks(fdEntry, fdFlight, fdWorker, fdIds, fdUsed)
  BY DEF fdIInv, FdGood
<1>5. f \in 1..fdUsed /\ f \in 1..FdFlights /\ fdFlight[f].at = "queued" /\ fdEntry[k].flight = f
  BY <1>1, <1>2, <1>3, <1>4 DEF fdQueued, FdTable, FdEntries, fdHolds
<1>6. fdEntry[k].id \in 1..fdIds
  BY <1>3, <1>4, <1>5 DEF FdTable, FdEntries, fdHolds
<1>7. hand \in FdHands /\ hand.at = "run" /\ hand.key = k /\ hand.id = fdEntry[k].id /\ hand.flight = f
  BY <1>1, <1>3, <1>5, <1>6 DEF FdHands
<1>8. fdFlight' \in FdBoard /\ fdFlight'[f].at = "running" /\ fdFlight'[f].closed = fdFlight[f].closed
      /\ \A g \in 1..FdFlights : g # f => fdFlight'[g] = fdFlight[g]
  BY <1>2, <1>3, <1>5 DEF FdBoard, FdStates
<1>9. fdWorker' \in FdCrew /\ fdWorker'[w] = hand /\ \A v \in FdWorkers : v # w => fdWorker'[v] = fdWorker[v]
  BY <1>2, <1>3, <1>7 DEF FdCrew
<1>10. fdCloses(fdFlight', fdUsed)
  BY <1>3, <1>4, <1>5, <1>8 DEF fdCloses
<1>11. fdFound(fdEntry, fdFlight', fdWorker', fdUsed)
  <2> SUFFICES ASSUME NEW g \in 1..fdUsed
               PROVE  \/ fdFlight'[g].at = "closed"
                      \/ fdFlight'[g].at = "queued" /\ \E j \in FdKeys : fdEntry[j].flight = g
                      \/ \E v \in FdWorkers : fdWorker'[v].at = "run" /\ fdWorker'[v].flight = g
    BY DEF fdFound
  <2>1. CASE g = f
    BY <1>7, <1>9, <2>1
  <2>2. CASE g # f
    <3>1. fdFlight'[g] = fdFlight[g]
      BY <1>3, <1>8, <2>2
    <3>2. \A v \in FdWorkers : fdWorker[v].at = "run" => fdWorker'[v] = fdWorker[v]
      BY <1>2, <1>9
    <3> QED BY <1>4, <3>1, <3>2 DEF fdFound
  <2> QED BY <2>1, <2>2
<1>12. fdHolds(fdEntry, fdFlight', fdIds, fdUsed, fdLife)
  <2>1. \A j \in FdKeys : fdEntry[j].flight # 0 => fdEntry[j].flight \in 1..FdFlights
    BY <1>3 DEF FdTable, FdEntries
  <2>2. \A g \in 1..FdFlights : fdFlight[g].at \in {"queued", "running"} => fdFlight'[g].at \in {"queued", "running"}
    BY <1>8
  <2> QED BY <1>4, <2>1, <2>2 DEF fdHolds
<1>13. fdWorks(fdEntry, fdFlight', fdWorker', fdIds, fdUsed)
  <2> SUFFICES ASSUME NEW v \in FdWorkers, fdWorker'[v].at = "run"
               PROVE  /\ fdWorker'[v].key \in FdKeys /\ fdWorker'[v].id \in 1..fdIds /\ fdWorker'[v].flight \in 1..fdUsed
                      /\ fdFlight'[fdWorker'[v].flight].at = "running"
                      /\ \A j \in FdKeys : fdEntry[j].flight = fdWorker'[v].flight
                            <=> j = fdWorker'[v].key /\ fdEntry[j].id = fdWorker'[v].id
                      /\ \A u \in FdWorkers : fdWorker'[u].at = "run" /\ fdWorker'[u].flight = fdWorker'[v].flight => u = v
    BY DEF fdWorks
  <2>1. \A u \in FdWorkers : u # w /\ fdWorker[u].at = "run" => fdWorker[u].flight # f /\ fdWorker[u].flight \in 1..FdFlights
    BY <1>3, <1>4, <1>5 DEF fdWorks
  <2>2. CASE v = w
    <3>1. \A j \in FdKeys : fdEntry[j].flight = f <=> j = k /\ fdEntry[j].id = fdEntry[k].id
      BY <1>3, <1>4, <1>5 DEF fdHolds
    <3>2. \A u \in FdWorkers : fdWorker'[u].at = "run" /\ fdWorker'[u].flight = f => u = w
      BY <1>9, <2>1
    <3> QED BY <1>5, <1>6, <1>7, <1>8, <1>9, <2>2, <3>1, <3>2
  <2>3. CASE v # w
    <3>1. fdWorker'[v] = fdWorker[v] /\ fdWorker[v].at = "run" /\ fdWorker[v].flight # f
      BY <1>9, <2>1, <2>3
    <3>2. fdFlight'[fdWorker[v].flight].at = "running"
      BY <1>4, <1>8, <2>1, <2>3, <3>1 DEF fdWorks
    <3>3. \A u \in FdWorkers : fdWorker'[u].at = "run" /\ fdWorker'[u].flight = fdWorker[v].flight => u = v
      <4> SUFFICES ASSUME NEW u \in FdWorkers, fdWorker'[u].at = "run", fdWorker'[u].flight = fdWorker[v].flight
                   PROVE  u = v
        OBVIOUS
      <4>1. u # w
        BY <1>7, <1>9, <3>1
      <4> QED BY <1>4, <1>9, <3>1, <4>1 DEF fdWorks
    <3>4. \A j \in FdKeys : fdEntry[j].flight = fdWorker[v].flight <=> j = fdWorker[v].key /\ fdEntry[j].id = fdWorker[v].id
      BY <1>4, <3>1 DEF fdWorks
    <3>5. fdWorker[v].key \in FdKeys /\ fdWorker[v].id \in 1..fdIds /\ fdWorker[v].flight \in 1..fdUsed
      BY <1>4, <3>1 DEF fdWorks
    <3> QED BY <3>1, <3>2, <3>3, <3>4, <3>5
  <2> QED BY <2>2, <2>3
<1>14. QueueIsWorked'
  BY <1>7, <1>9 DEF QueueIsWorked
<1>15. fdTyped'
  BY <1>2, <1>3, <1>8, <1>9 DEF fdTyped
<1>16. \A c \in FdCallers : fdWait'[c] <= fdUsed'
  BY <1>2 DEF fdIInv
<1> QED BY <1>2, <1>10, <1>11, <1>12, <1>13, <1>14, <1>15, <1>16 DEF fdIInv, FdGood

\* A worker that runs nothing goes to sleep or wakes up.
LEMMA FdIdles ==
    ASSUME fdIInv, NEW w \in FdWorkers, workerSleeps(w) \/ workerWakes(w)
    PROVE  fdIInv'
<1> USE FdAssumption
<1>1. fdTyped /\ fdEntry \in FdTable /\ fdFlight \in FdBoard /\ fdWorker \in FdCrew /\ fdUsed \in 0..FdFlights /\ fdIds \in Nat
      /\ fdWake \in 0..Cardinality(FdWorkers)
  BY DEF fdIInv, fdTyped
<1>2. PICK hand : hand = IF workerSleeps(w) THEN [fdWorker[w] EXCEPT !.at = "sleep"] ELSE fdLook
  OBVIOUS
<1>3. /\ fdWorker' = [fdWorker EXCEPT ![w] = hand] /\ fdWorker[w].at # "run"
      /\ UNCHANGED <<fdEntry, fdFlight, fdWait, fdAllowed, fdPrune, fdLife, fdIds, fdUsed, fdEdits>>
  <2>1. CASE workerSleeps(w)
    <3>1. fdWorker' = [fdWorker EXCEPT ![w].at = "sleep"]
      BY <2>1 DEF workerSleeps
    <3>2. fdWorker' = [fdWorker EXCEPT ![w] = hand]
      BY <1>2, <2>1, <3>1
    <3> QED BY <2>1, <3>2 DEF workerSleeps
  <2>2. CASE ~workerSleeps(w) /\ workerWakes(w)
    BY <1>2, <2>2 DEF workerWakes
  <2> QED BY <2>1, <2>2
<1>4. hand \in FdHands /\ hand.at # "run" /\ hand.at = IF workerSleeps(w) THEN "sleep" ELSE "look"
  <2>1. CASE workerSleeps(w)
    BY <1>1, <1>2, <2>1 DEF FdHands, FdCrew
  <2>2. CASE ~workerSleeps(w)
    BY <1>2, <2>2 DEF FdHands, fdLook
  <2> QED BY <2>1, <2>2
<1>5. fdWorker' \in FdCrew /\ fdWorker'[w] = hand /\ \A v \in FdWorkers : v # w => fdWorker'[v] = fdWorker[v]
  BY <1>1, <1>3, <1>4 DEF FdCrew
<1>6. \A v \in FdWorkers : (fdWorker'[v].at = "run" <=> fdWorker[v].at = "run")
                           /\ (fdWorker[v].at = "run" => fdWorker'[v] = fdWorker[v])
  BY <1>3, <1>4, <1>5
<1>7. fdCloses(fdFlight, fdUsed) /\ fdFound(fdEntry, fdFlight, fdWorker, fdUsed)
      /\ fdHolds(fdEntry, fdFlight, fdIds, fdUsed, fdLife) /\ fdWorks(fdEntry, fdFlight, fdWorker, fdIds, fdUsed)
  BY DEF fdIInv, FdGood
<1>8. fdFound(fdEntry, fdFlight, fdWorker', fdUsed)
  BY <1>6, <1>7 DEF fdFound
<1>9. fdWorks(fdEntry, fdFlight, fdWorker', fdIds, fdUsed)
  BY <1>6, <1>7 DEF fdWorks
<1>10. fdQueued' = fdQueued
  BY <1>3 DEF fdQueued
<1>11. fdWake' \in 0..Cardinality(FdWorkers) /\ QueueIsWorked'
  <2>1. CASE workerSleeps(w)
    <3>1. fdQueued = {} /\ fdWake' = fdWake
      BY <2>1 DEF workerSleeps
    <3> QED BY <1>1, <1>10, <3>1 DEF QueueIsWorked
  <2>2. CASE ~workerSleeps(w) /\ workerWakes(w)
    <3>1. fdWake > 0 /\ fdWake' = fdWake - 1
      BY <2>2 DEF workerWakes
    <3>2. fdWorker'[w].at = "look"
      BY <1>4, <1>5, <2>2
    <3>3. fdWake' \in 0..Cardinality(FdWorkers)
      BY <1>1, <3>1, FdCrewSize
    <3> QED BY <3>2, <3>3 DEF QueueIsWorked
  <2> QED BY <2>1, <2>2
<1>12. fdTyped'
  BY <1>1, <1>3, <1>5, <1>11 DEF fdTyped
<1>13. \A c \in FdCallers : fdWait'[c] <= fdUsed'
  BY <1>3 DEF fdIInv
<1> QED BY <1>3, <1>7, <1>8, <1>9, <1>11, <1>12, <1>13 DEF fdIInv, FdGood

\* A worker ends its flight; the entry it took, if still there, has none then.
LEMMA FdEnds ==
    ASSUME fdIInv, NEW w \in FdWorkers, NEW ok \in BOOLEAN, workerEnds(w, ok)
    PROVE  fdIInv'
<1> USE FdAssumption
<1>1. fdTyped /\ fdEntry \in FdTable /\ fdFlight \in FdBoard /\ fdWorker \in FdCrew /\ fdUsed \in 0..FdFlights /\ fdIds \in Nat
  BY DEF fdIInv, fdTyped
<1>2. fdCloses(fdFlight, fdUsed) /\ fdFound(fdEntry, fdFlight, fdWorker, fdUsed)
      /\ fdHolds(fdEntry, fdFlight, fdIds, fdUsed, fdLife) /\ fdWorks(fdEntry, fdFlight, fdWorker, fdIds, fdUsed)
  BY DEF fdIInv, FdGood
<1>3. PICK f, k, hand : f = fdWorker[w].flight /\ k = fdWorker[w].key
        /\ hand = IF fdLife \/ ~sameEntry(w) THEN fdLook ELSE [fdLook EXCEPT !.at = "gone"]
  OBVIOUS
<1>4. /\ fdWorker[w].at = "run" /\ fdFlight' = closedFlight(fdFlight, f)
      /\ fdEntry' = IF sameEntry(w) /\ fdLife
                    THEN [fdEntry EXCEPT ![k].flight = 0, ![k].later = TRUE, ![k].ips = IF ok THEN "fresh" ELSE @]
                    ELSE fdEntry
      /\ fdWorker' = [fdWorker EXCEPT ![w] = hand]
      /\ UNCHANGED <<fdWake, fdWait, fdAllowed, fdPrune, fdLife, fdIds, fdUsed, fdEdits>>
  BY <1>3 DEF workerEnds
<1> HIDE DEF workerEnds
<1>5. /\ f \in 1..fdUsed /\ f \in 1..FdFlights /\ k \in FdKeys /\ fdFlight[f].at = "running" /\ fdFlight[f].closed = 0
      /\ \A j \in FdKeys : fdEntry[j].flight = f <=> j = k /\ sameEntry(w)
  <2>1. /\ f \in 1..fdUsed /\ k \in FdKeys /\ fdFlight[f].at = "running"
        /\ \A j \in FdKeys : fdEntry[j].flight = f <=> j = k /\ fdEntry[j].id = fdWorker[w].id
    BY <1>2, <1>3, <1>4 DEF fdWorks
  <2>2. f \in 1..FdFlights
    BY <1>1, <2>1
  <2>3. fdFlight[f].closed = 0
    BY <1>2, <2>1, <2>2 DEF fdCloses
  <2> QED BY <1>3, <2>1, <2>2, <2>3 DEF sameEntry
<1>6. hand \in FdHands /\ hand.at \in {"look", "gone"} /\ (fdLife => hand.at = "look")
  BY <1>3 DEF fdLook, FdHands
<1>7. fdWorker' \in FdCrew /\ fdWorker'[w] = hand /\ \A v \in FdWorkers : v # w => fdWorker'[v] = fdWorker[v]
  BY <1>1, <1>4, <1>6 DEF FdCrew
<1>8. fdFlight' \in FdBoard /\ fdFlight'[f].at = "closed" /\ fdFlight'[f].closed = 1
      /\ \A g \in 1..FdFlights : g # f => fdFlight'[g] = fdFlight[g]
  BY <1>1, <1>4, <1>5 DEF closedFlight, FdBoard, FdStates
<1>9. /\ fdEntry' \in FdTable /\ \A j \in FdKeys : fdEntry'[j].id = fdEntry[j].id
      /\ \A j \in FdKeys : fdEntry'[j].flight = IF fdLife /\ fdEntry[j].flight = f THEN 0 ELSE fdEntry[j].flight
  <2>1. CASE sameEntry(w) /\ fdLife
    <3>1. fdEntry' = [fdEntry EXCEPT ![k].flight = 0, ![k].later = TRUE, ![k].ips = IF ok THEN "fresh" ELSE @]
      BY <1>4, <2>1
    <3>2. \A j \in FdKeys : j # k => fdEntry'[j] = fdEntry[j]
      BY <1>1, <3>1 DEF FdTable
    <3>3. fdEntry' \in FdTable /\ fdEntry'[k].id = fdEntry[k].id /\ fdEntry'[k].flight = 0
      <4>1. PICK new : new = [id |-> fdEntry[k].id, flight |-> 0,
                              ips |-> IF ok THEN "fresh" ELSE fdEntry[k].ips, later |-> TRUE]
        OBVIOUS
      <4>2. fdEntry[k] \in FdEntries
        BY <1>1, <1>5 DEF FdTable
      <4>3. new \in FdEntries
        BY <4>1, <4>2 DEF FdEntries
      <4>4. fdEntry'[k] = new
        BY <1>1, <1>5, <3>1, <4>1, <4>2 DEF FdTable, FdEntries
      <4>5. fdEntry' = [j \in FdKeys |-> fdEntry'[j]]
        BY <1>1, <3>1 DEF FdTable
      <4>6. \A j \in FdKeys : fdEntry'[j] \in FdEntries
        BY <1>1, <3>2, <4>3, <4>4 DEF FdTable
      <4>7. new.id = fdEntry[k].id /\ new.flight = 0
        BY <4>1
      <4>8. fdEntry' \in FdTable
        BY <4>5, <4>6 DEF FdTable
      <4> QED BY <4>4, <4>7, <4>8
    <3> QED BY <1>5, <2>1, <3>2, <3>3
  <2>2. CASE ~(sameEntry(w) /\ fdLife)
    BY <1>1, <1>4, <1>5, <2>2
  <2> QED BY <2>1, <2>2
<1>10. fdCloses(fdFlight', fdUsed)
  BY <1>1, <1>2, <1>5, <1>8 DEF fdCloses
<1>11. fdFound(fdEntry', fdFlight', fdWorker', fdUsed)
  <2> SUFFICES ASSUME NEW g \in 1..fdUsed
               PROVE  \/ fdFlight'[g].at = "closed"
                      \/ fdFlight'[g].at = "queued" /\ \E j \in FdKeys : fdEntry'[j].flight = g
                      \/ \E v \in FdWorkers : fdWorker'[v].at = "run" /\ fdWorker'[v].flight = g
    BY DEF fdFound
  <2>1. CASE g = f
    BY <1>8, <2>1
  <2>2. CASE g # f
    <3>1. fdFlight'[g] = fdFlight[g]
      BY <1>1, <1>8, <2>2
    <3>2. \A v \in FdWorkers : fdWorker[v].at = "run" /\ fdWorker[v].flight = g => fdWorker'[v] = fdWorker[v]
      BY <1>3, <1>7, <2>2
    <3>3. \A j \in FdKeys : fdEntry[j].flight = g => fdEntry'[j].flight = g
      BY <1>9, <2>2
    <3> QED BY <1>2, <3>1, <3>2, <3>3 DEF fdFound
  <2> QED BY <2>1, <2>2
<1>12. fdHolds(fdEntry', fdFlight', fdIds, fdUsed, fdLife)
  <2> SUFFICES ASSUME NEW j \in FdKeys
               PROVE  /\ fdEntry'[j].id <= fdIds /\ fdEntry'[j].flight <= fdUsed /\ (fdEntry'[j].id = 0 => fdEntry'[j].flight = 0)
                      /\ fdLife /\ fdEntry'[j].flight # 0 => fdFlight'[fdEntry'[j].flight].at \in {"queued", "running"}
                      /\ \A i \in FdKeys : fdEntry'[i].flight = fdEntry'[j].flight => i = j \/ fdEntry'[i].flight = 0
    BY DEF fdHolds
  <2>1. fdEntry'[j].id <= fdIds /\ fdEntry'[j].flight <= fdUsed /\ (fdEntry'[j].id = 0 => fdEntry'[j].flight = 0)
    BY <1>1, <1>2, <1>9 DEF fdHolds
  <2>2. ASSUME fdLife, fdEntry'[j].flight # 0 PROVE fdFlight'[fdEntry'[j].flight].at \in {"queued", "running"}
    <3>1. fdEntry[j].flight # f /\ fdEntry'[j].flight = fdEntry[j].flight /\ fdEntry[j].flight # 0
      BY <1>9, <2>2
    <3>2. fdEntry[j].flight \in 1..FdFlights
      BY <1>1, <3>1 DEF FdTable, FdEntries
    <3>3. fdFlight'[fdEntry[j].flight] = fdFlight[fdEntry[j].flight]
      BY <1>8, <3>1, <3>2
    <3> QED BY <1>2, <2>2, <3>1, <3>3 DEF fdHolds
  <2>3. \A i \in FdKeys : fdEntry'[i].flight = fdEntry'[j].flight => i = j \/ fdEntry'[i].flight = 0
    BY <1>2, <1>9 DEF fdHolds
  <2> QED BY <2>1, <2>2, <2>3
<1>13. fdWorks(fdEntry', fdFlight', fdWorker', fdIds, fdUsed)
  <2> SUFFICES ASSUME NEW v \in FdWorkers, fdWorker'[v].at = "run"
               PROVE  /\ fdWorker'[v].key \in FdKeys /\ fdWorker'[v].id \in 1..fdIds /\ fdWorker'[v].flight \in 1..fdUsed
                      /\ fdFlight'[fdWorker'[v].flight].at = "running"
                      /\ \A j \in FdKeys : fdEntry'[j].flight = fdWorker'[v].flight
                            <=> j = fdWorker'[v].key /\ fdEntry'[j].id = fdWorker'[v].id
                      /\ \A u \in FdWorkers : fdWorker'[u].at = "run" /\ fdWorker'[u].flight = fdWorker'[v].flight => u = v
    BY DEF fdWorks
  <2>1. v # w /\ fdWorker'[v] = fdWorker[v]
    BY <1>6, <1>7
  <2>2. /\ fdWorker[v].key \in FdKeys /\ fdWorker[v].id \in 1..fdIds /\ fdWorker[v].flight \in 1..fdUsed
        /\ fdFlight[fdWorker[v].flight].at = "running"
        /\ \A j \in FdKeys : fdEntry[j].flight = fdWorker[v].flight <=> j = fdWorker[v].key /\ fdEntry[j].id = fdWorker[v].id
        /\ \A u \in FdWorkers : fdWorker[u].at = "run" /\ fdWorker[u].flight = fdWorker[v].flight => u = v
    BY <1>2, <2>1 DEF fdWorks
  <2>3. fdWorker[v].flight # f /\ fdWorker[v].flight \in 1..FdFlights /\ fdWorker[v].flight # 0
    BY <1>1, <1>3, <1>4, <2>1, <2>2
  <2>4. fdFlight'[fdWorker[v].flight].at = "running"
    BY <1>8, <2>2, <2>3
  <2>5. \A u \in FdWorkers : fdWorker'[u].at = "run" /\ fdWorker'[u].flight = fdWorker[v].flight => u = v
    BY <1>6, <1>7, <2>2
  <2>6. \A j \in FdKeys : fdEntry'[j].flight = fdWorker[v].flight <=> j = fdWorker[v].key /\ fdEntry'[j].id = fdWorker[v].id
    BY <1>9, <2>2, <2>3
  <2> QED BY <2>1, <2>2, <2>4, <2>5, <2>6
<1>14. QueueIsWorked'
  BY <1>4, <1>6, <1>7 DEF QueueIsWorked
<1>15. fdTyped'
  BY <1>1, <1>4, <1>7, <1>8, <1>9 DEF fdTyped
<1>16. \A c \in FdCallers : fdWait'[c] <= fdUsed'
  BY <1>4 DEF fdIInv
<1> QED BY <1>4, <1>10, <1>11, <1>12, <1>13, <1>14, <1>15, <1>16 DEF fdIInv, FdGood

\* Time passes: identities and flights stay.
LEMMA FdTicks ==
    ASSUME fdIInv, NEW k \in FdKeys, fdAges(k) \/ fdRetry(k)
    PROVE  fdIInv'
<1> USE FdAssumption
<1>1. fdTyped /\ fdEntry \in FdTable /\ fdUsed \in 0..FdFlights /\ fdIds \in Nat
  BY DEF fdIInv, fdTyped
<1>2. UNCHANGED <<fdFlight, fdWake, fdWorker, fdWait, fdAllowed, fdPrune, fdLife, fdIds, fdUsed, fdEdits>>
  BY DEF fdAges, fdRetry
<1>3. fdEntry' \in FdTable /\ \A j \in FdKeys : fdEntry'[j].id = fdEntry[j].id /\ fdEntry'[j].flight = fdEntry[j].flight
  <2>1. CASE fdAges(k)
    <3>1. PICK ips : ips = IF fdEntry[k].ips = "fresh" THEN "stale" ELSE "none"
      OBVIOUS
    <3>2. fdEntry' = [fdEntry EXCEPT ![k].ips = ips, ![k].later = FALSE]
      BY <2>1, <3>1 DEF fdAges
    <3>3. ips \in {"none", "fresh", "stale"}
      BY <3>1
    <3> QED BY <1>1, <3>2, <3>3 DEF FdTable, FdEntries
  <2>2. CASE fdRetry(k)
    <3>1. fdEntry' = [fdEntry EXCEPT ![k].later = FALSE]
      BY <2>2 DEF fdRetry
    <3> QED BY <1>1, <3>1 DEF FdTable, FdEntries
  <2> QED BY <2>1, <2>2
<1>4. fdCloses(fdFlight, fdUsed) /\ fdFound(fdEntry, fdFlight, fdWorker, fdUsed)
      /\ fdHolds(fdEntry, fdFlight, fdIds, fdUsed, fdLife) /\ fdWorks(fdEntry, fdFlight, fdWorker, fdIds, fdUsed)
  BY DEF fdIInv, FdGood
<1>5. fdFound(fdEntry', fdFlight, fdWorker, fdUsed)
  BY <1>3, <1>4 DEF fdFound
<1>6. fdHolds(fdEntry', fdFlight, fdIds, fdUsed, fdLife)
  BY <1>3, <1>4 DEF fdHolds
<1>7. fdWorks(fdEntry', fdFlight, fdWorker, fdIds, fdUsed)
  BY <1>3, <1>4 DEF fdWorks
<1>8. fdQueued' = fdQueued
  BY <1>2, <1>3 DEF fdQueued
<1>9. QueueIsWorked'
  BY <1>2, <1>8 DEF fdIInv, QueueIsWorked
<1>10. fdTyped'
  BY <1>1, <1>2, <1>3 DEF fdTyped
<1>11. \A c \in FdCallers : fdWait'[c] <= fdUsed'
  BY <1>2 DEF fdIInv
<1> QED BY <1>2, <1>4, <1>5, <1>6, <1>7, <1>9, <1>10, <1>11 DEF fdIInv, FdGood

\* The wait of a request ends, the switch moves, the resolver closes: the table stays.
LEMMA FdAside ==
    ASSUME fdIInv, (\E c \in FdCallers : lookupEnds(c)) \/ (\E k \in FdKeys : fdSwitch(k)) \/ fdClose
    PROVE  fdIInv'
<1> USE FdAssumption
<1>1. fdTyped /\ fdUsed \in 0..FdFlights /\ fdWait \in [FdCallers -> 0..FdFlights] /\ fdEdits \in Nat
      /\ \A c \in FdCallers : fdWait[c] <= fdUsed
  BY DEF fdIInv, fdTyped
<1>2. UNCHANGED <<fdEntry, fdFlight, fdWake, fdWorker, fdIds, fdUsed>> /\ (fdLife' => fdLife)
  BY DEF lookupEnds, fdSwitch, fdClose
<1>3. fdWait' = fdWait \/ \E c \in FdCallers : fdWait' = [fdWait EXCEPT ![c] = 0]
  BY DEF lookupEnds, fdSwitch, fdClose
<1>4. fdWait' \in [FdCallers -> 0..FdFlights] /\ \A c \in FdCallers : fdWait'[c] <= fdUsed
  BY <1>1, <1>3
<1>5. fdAllowed' \in SUBSET FdKeys /\ fdPrune' \in BOOLEAN /\ fdLife' \in BOOLEAN /\ fdEdits' \in Nat
  <2>1. CASE \E c \in FdCallers : lookupEnds(c)
    BY <1>1, <2>1 DEF lookupEnds, fdTyped
  <2>2. ASSUME NEW k \in FdKeys, fdSwitch(k)
        PROVE  fdAllowed' \in SUBSET FdKeys /\ fdPrune' \in BOOLEAN /\ fdLife' \in BOOLEAN /\ fdEdits' \in Nat
    <3>1. fdPrune' = TRUE /\ fdLife' = fdLife /\ fdEdits' = fdEdits + 1
      BY <2>2 DEF fdSwitch
    <3>2. fdAllowed' \in SUBSET FdKeys
      BY <1>1, <2>2 DEF fdSwitch, fdTyped
    <3> QED BY <1>1, <3>1, <3>2 DEF fdTyped
  <2>3. CASE fdClose
    BY <1>1, <2>3 DEF fdClose, fdTyped
  <2> QED BY <2>1, <2>2, <2>3
<1>6. fdTyped'
  BY <1>1, <1>2, <1>4, <1>5 DEF fdTyped
<1>7. FdGood(fdEntry, fdFlight, fdWorker, fdIds, fdUsed, fdLife')
  BY <1>2 DEF fdIInv, FdGood, fdHolds
<1>8. QueueIsWorked'
  <2>1. fdQueued' = fdQueued
    BY <1>2 DEF fdQueued
  <2> QED BY <1>2, <2>1 DEF fdIInv, QueueIsWorked
<1> QED BY <1>2, <1>4, <1>6, <1>7, <1>8 DEF fdIInv

\* Entries of hosts that are not used any more go; what was queued for them is over.
LEMMA FdPrune ==
    ASSUME fdIInv, pruneDisallowed
    PROVE  fdIInv'
<1> USE FdAssumption
<1>1. fdTyped /\ fdEntry \in FdTable /\ fdFlight \in FdBoard /\ fdWorker \in FdCrew /\ fdUsed \in 0..FdFlights /\ fdIds \in Nat
  BY DEF fdIInv, fdTyped
<1>2. fdCloses(fdFlight, fdUsed) /\ fdFound(fdEntry, fdFlight, fdWorker, fdUsed)
      /\ fdHolds(fdEntry, fdFlight, fdIds, fdUsed, fdLife) /\ fdWorks(fdEntry, fdFlight, fdWorker, fdIds, fdUsed)
  BY DEF fdIInv, FdGood
<1>3. PICK gone : gone = {k \in FdKeys : fdHas(k) /\ k \notin fdAllowed}
  OBVIOUS
<1>4. PICK cut : cut = {f \in 1..FdFlights : (\E k \in gone : fdEntry[k].flight = f) /\ fdFlight[f].at = "queued"}
  OBVIOUS
<1>5. /\ fdPrune' = FALSE
      /\ fdEntry' = [k \in FdKeys |-> IF k \in gone THEN fdNoEntry ELSE fdEntry[k]]
      /\ fdFlight' = [f \in 1..FdFlights |->
             IF (\E k \in gone : fdEntry[k].flight = f) /\ pruneCloses(f)
             THEN [fdFlight[f] EXCEPT !.at = "closed", !.closed = @ + 1] ELSE fdFlight[f]]
      /\ UNCHANGED <<fdWake, fdWorker, fdWait, fdAllowed, fdLife, fdIds, fdUsed, fdEdits>>
  BY <1>3 DEF pruneDisallowed
<1>6. fdNoEntry \in FdEntries /\ fdNoEntry.id = 0 /\ fdNoEntry.flight = 0
  BY DEF fdNoEntry, FdEntries
<1>7. fdEntry' \in FdTable /\ \A k \in FdKeys : fdEntry'[k] = IF k \in gone THEN fdNoEntry ELSE fdEntry[k]
  BY <1>1, <1>5, <1>6 DEF FdTable
<1>8. \A f \in 1..FdFlights : fdFlight'[f] = IF f \in cut THEN [fdFlight[f] EXCEPT !.at = "closed", !.closed = @ + 1]
                                             ELSE fdFlight[f]
  BY <1>4, <1>5 DEF pruneCloses
<1>9. \A f \in 1..FdFlights : f \in cut => fdFlight[f].at = "queued" /\ fdFlight[f].closed = 0
  BY <1>2, <1>4 DEF fdCloses
<1>10. \A f \in 1..FdFlights : fdFlight'[f] \in FdStates
                               /\ (f \in cut => fdFlight'[f].at = "closed" /\ fdFlight'[f].closed = 1)
                               /\ (f \notin cut => fdFlight'[f] = fdFlight[f])
  <2> TAKE f \in 1..FdFlights
  <2>1. fdFlight[f] \in FdStates
    BY <1>1 DEF FdBoard
  <2>2. CASE f \in cut
    <3>1. fdFlight'[f] = [fdFlight[f] EXCEPT !.at = "closed", !.closed = @ + 1] /\ fdFlight[f].closed = 0
      BY <1>8, <1>9, <2>2
    <3>2. PICK old, new : old = fdFlight[f] /\ new = fdFlight'[f]
      OBVIOUS
    <3>3. new = [old EXCEPT !.at = "closed", !.closed = 0 + 1] /\ old \in FdStates
      BY <2>1, <3>1, <3>2
    <3>4. new \in FdStates /\ new.at = "closed" /\ new.closed = 1
      <4>1. new = [old EXCEPT !.at = "closed", !.closed = 1]
        BY <3>3
      <4>2. old.fg \in BOOLEAN
        BY <3>3 DEF FdStates
      <4>3. new.at = "closed" /\ new.closed = 1 /\ new.fg = old.fg
        BY <3>3, <4>1 DEF FdStates
      <4>4. new = [at |-> "closed", fg |-> old.fg, closed |-> 1]
        BY <3>3, <4>1 DEF FdStates
      <4>5. new \in FdStates
        BY <4>2, <4>4 DEF FdStates
      <4> QED BY <4>3, <4>5
    <3> QED BY <2>2, <3>2, <3>4
  <2>3. CASE f \notin cut
    BY <1>8, <2>1, <2>3
  <2> QED BY <2>2, <2>3
<1>11. fdFlight' \in FdBoard
  BY <1>5, <1>10 DEF FdBoard
<1>12. \A f \in 1..FdFlights : fdFlight[f].at = "running" => fdFlight'[f] = fdFlight[f]
  BY <1>9, <1>10
<1>13. fdCloses(fdFlight', fdUsed)
  BY <1>2, <1>9, <1>10 DEF fdCloses
<1>14. fdFound(fdEntry', fdFlight', fdWorker, fdUsed)
  <2> SUFFICES ASSUME NEW f \in 1..fdUsed
               PROVE  \/ fdFlight'[f].at = "closed"
                      \/ fdFlight'[f].at = "queued" /\ \E k \in FdKeys : fdEntry'[k].flight = f
                      \/ \E w \in FdWorkers : fdWorker[w].at = "run" /\ fdWorker[w].flight = f
    BY DEF fdFound
  <2>1. f \in 1..FdFlights
    BY <1>1
  <2>2. CASE f \in cut
    BY <1>10, <2>1, <2>2
  <2>3. CASE f \notin cut
    <3>1. fdFlight'[f] = fdFlight[f]
      BY <1>10, <2>1, <2>3
    <3>2. \A k \in FdKeys : fdFlight[f].at = "queued" /\ fdEntry[k].flight = f => fdEntry'[k].flight = f
      BY <1>4, <1>7, <2>1, <2>3
    <3> QED BY <1>2, <3>1, <3>2 DEF fdFound
  <2> QED BY <2>2, <2>3
<1>15. fdHolds(fdEntry', fdFlight', fdIds, fdUsed, fdLife)
  <2> SUFFICES ASSUME NEW k \in FdKeys
               PROVE  /\ fdEntry'[k].id <= fdIds /\ fdEntry'[k].flight <= fdUsed /\ (fdEntry'[k].id = 0 => fdEntry'[k].flight = 0)
                      /\ fdLife /\ fdEntry'[k].flight # 0 => fdFlight'[fdEntry'[k].flight].at \in {"queued", "running"}
                      /\ \A j \in FdKeys : fdEntry'[j].flight = fdEntry'[k].flight => j = k \/ fdEntry'[j].flight = 0
    BY DEF fdHolds
  <2>1. \A j \in FdKeys : fdEntry'[j].flight = fdEntry'[k].flight => j = k \/ fdEntry'[j].flight = 0
    BY <1>2, <1>6, <1>7 DEF fdHolds
  <2>2. CASE k \in gone
    <3>1. fdEntry'[k].id = 0 /\ fdEntry'[k].flight = 0
      BY <1>6, <1>7, <2>2
    <3> QED BY <1>1, <2>1, <3>1
  <2>3. CASE k \notin gone
    <3>1. fdEntry'[k] = fdEntry[k]
      BY <1>7, <2>3
    <3>2. ASSUME fdLife, fdEntry[k].flight # 0 PROVE fdFlight'[fdEntry[k].flight].at \in {"queued", "running"}
      <4>1. fdEntry[k].flight \in 1..FdFlights
        BY <1>1, <3>2 DEF FdTable, FdEntries
      <4>2. fdEntry[k].flight \notin cut
        BY <1>2, <1>3, <1>4, <2>3, <3>2 DEF fdHolds
      <4>3. fdFlight'[fdEntry[k].flight] = fdFlight[fdEntry[k].flight]
        BY <1>10, <4>1, <4>2
      <4> QED BY <1>2, <3>2, <4>3 DEF fdHolds
    <3>3. fdEntry[k].id <= fdIds /\ fdEntry[k].flight <= fdUsed /\ (fdEntry[k].id = 0 => fdEntry[k].flight = 0)
      BY <1>2 DEF fdHolds
    <3> QED BY <2>1, <3>1, <3>2, <3>3
  <2> QED BY <2>2, <2>3
<1>16. fdWorks(fdEntry', fdFlight', fdWorker, fdIds, fdUsed)
  <2> SUFFICES ASSUME NEW w \in FdWorkers, fdWorker[w].at = "run"
               PROVE  /\ fdWorker[w].key \in FdKeys /\ fdWorker[w].id \in 1..fdIds /\ fdWorker[w].flight \in 1..fdUsed
                      /\ fdFlight'[fdWorker[w].flight].at = "running"
                      /\ \A k \in FdKeys : fdEntry'[k].flight = fdWorker[w].flight
                            <=> k = fdWorker[w].key /\ fdEntry'[k].id = fdWorker[w].id
                      /\ \A v \in FdWorkers : fdWorker[v].at = "run" /\ fdWorker[v].flight = fdWorker[w].flight => v = w
    BY DEF fdWorks
  <2>1. /\ fdWorker[w].key \in FdKeys /\ fdWorker[w].id \in 1..fdIds /\ fdWorker[w].flight \in 1..fdUsed
        /\ fdFlight[fdWorker[w].flight].at = "running"
        /\ \A k \in FdKeys : fdEntry[k].flight = fdWorker[w].flight <=> k = fdWorker[w].key /\ fdEntry[k].id = fdWorker[w].id
        /\ \A v \in FdWorkers : fdWorker[v].at = "run" /\ fdWorker[v].flight = fdWorker[w].flight => v = w
    BY <1>2 DEF fdWorks
  <2>2. fdWorker[w].flight \in 1..FdFlights /\ fdWorker[w].flight # 0 /\ fdWorker[w].id # 0
    BY <1>1, <2>1
  <2>3. fdFlight'[fdWorker[w].flight].at = "running"
    BY <1>12, <2>1, <2>2
  <2>4. \A k \in FdKeys : fdEntry'[k].flight = fdWorker[w].flight <=> k = fdWorker[w].key /\ fdEntry'[k].id = fdWorker[w].id
    BY <1>6, <1>7, <2>1, <2>2
  <2> QED BY <2>1, <2>3, <2>4
<1>17. fdQueued' \subseteq fdQueued
  <2> SUFFICES ASSUME NEW k \in FdKeys, fdEntry'[k].flight # 0, fdFlight'[fdEntry'[k].flight].at = "queued"
               PROVE  k \in fdQueued
    BY DEF fdQueued
  <2>1. fdEntry'[k].flight = fdEntry[k].flight /\ fdEntry[k].flight # 0
    BY <1>6, <1>7
  <2>2. fdEntry[k].flight \in 1..FdFlights
    BY <1>1, <2>1 DEF FdTable, FdEntries
  <2>3. fdFlight[fdEntry[k].flight].at = "queued"
    BY <1>10, <2>1, <2>2
  <2> QED BY <2>1, <2>3 DEF fdQueued
<1>18. QueueIsWorked'
  BY <1>5, <1>17, FdStillWorked
<1>19. fdTyped'
  BY <1>1, <1>5, <1>7, <1>11 DEF fdTyped
<1>20. \A c \in FdCallers : fdWait'[c] <= fdUsed'
  BY <1>5 DEF fdIInv
<1> QED BY <1>5, <1>13, <1>14, <1>15, <1>16, <1>18, <1>19, <1>20 DEF fdIInv, FdGood

LEMMA fdStep == fdIInv /\ [fdNext]_fdVars => fdIInv'
<1> SUFFICES ASSUME fdIInv, [fdNext]_fdVars PROVE fdIInv'
  OBVIOUS
<1>1. CASE \E c \in FdCallers, k \in FdKeys : Lookup(c, k)
  BY <1>1, FdLookup
<1>2. CASE \E k \in FdKeys : maintain(k)
  BY <1>2, FdMaintain
<1>3. CASE \E k \in FdKeys : fdAges(k) \/ fdRetry(k)
  BY <1>3, FdTicks
<1>4. CASE (\E c \in FdCallers : lookupEnds(c)) \/ (\E k \in FdKeys : fdSwitch(k)) \/ fdClose
  BY <1>4, FdAside
<1>5. CASE \E w \in FdWorkers : workerSleeps(w) \/ workerWakes(w)
  BY <1>5, FdIdles
<1>6. CASE \E w \in FdWorkers, k \in FdKeys : workerTakes(w, k)
  BY <1>6, FdTakes
<1>7. CASE \E w \in FdWorkers, ok \in BOOLEAN : workerEnds(w, ok)
  BY <1>7, FdEnds
<1>8. CASE pruneDisallowed
  BY <1>8, FdPrune
<1>9. CASE UNCHANGED fdVars
  <2>1. UNCHANGED <<fdEntry, fdFlight, fdWake, fdWorker, fdWait, fdAllowed, fdPrune, fdLife, fdIds, fdUsed, fdEdits>>
    BY <1>9 DEF fdVars
  <2> QED BY <2>1 DEF fdIInv, fdTyped, QueueIsWorked, fdQueued
<1> QED BY <1>1, <1>2, <1>3, <1>4, <1>5, <1>6, <1>7, <1>8, <1>9 DEF fdNext

\* What a request waits for is over, queued or under way; no channel is closed twice.
LEMMA FastIsSafe == fdIInv => FastSafe
<1> SUFFICES ASSUME fdIInv PROVE FastSafe
  OBVIOUS
<1>1. fdFlight \in FdBoard /\ fdUsed \in 0..FdFlights /\ fdWait \in [FdCallers -> 0..FdFlights]
      /\ \A c \in FdCallers : fdWait[c] <= fdUsed
  BY DEF fdIInv, fdTyped
<1>2. fdCloses(fdFlight, fdUsed) /\ fdFound(fdEntry, fdFlight, fdWorker, fdUsed)
  BY DEF fdIInv, FdGood
<1>3. ClosedOnce
  BY <1>2 DEF ClosedOnce, fdCloses
<1>4. WaitHasWorker
  <2> SUFFICES ASSUME NEW c \in FdCallers, fdWait[c] # 0
               PROVE  \/ fdFlight[fdWait[c]].at = "closed"
                      \/ \E k \in fdQueued : fdEntry[k].flight = fdWait[c]
                      \/ \E w \in FdWorkers : fdWorker[w].at = "run" /\ fdWorker[w].flight = fdWait[c]
    BY DEF WaitHasWorker
  <2>1. fdWait[c] \in 1..fdUsed
    BY <1>1, FdAssumption
  <2> QED BY <1>2, <2>1 DEF fdFound, fdQueued
<1> QED BY <1>3, <1>4 DEF fdIInv, FastSafe

-----------------------------------------------------------------------------
(* The block lists. *)

FmAts == {"none", "next", "fetched", "write", "publish", "give", "done"}
FmInstalling == {"write", "publish", "give"}
FmFiles == [FmLists -> Nat]
FmUps == [at : FmAts, todo : SUBSET FmLists, rev : Nat, res : 0..FmResolvers, id : Nat,
          list : FmLists \cup {"none"}, version : Nat, cut : BOOLEAN]
fmTyped ==
    /\ fmCfg \in SUBSET FmLists /\ fmRev \in Nat /\ fmMatch \in FmFiles /\ fmDisk \in FmFiles
    /\ fmNow \in 1..FmResolvers /\ fmGiven \in [1..FmResolvers -> FmFiles] /\ fmStarted \in 1..FmResolvers
    /\ fmUpdating \in BOOLEAN /\ fmId \in Nat /\ fmUp \in [1..FmUpdates -> FmUps] /\ fmLock \in 0..FmUpdates

\* opMu is held by the download that installs.
fmHeld == \A u \in 1..FmUpdates : fmUp[u].at \in FmInstalling <=> fmLock = u

\* Revisions and numbers of downloads are not used twice.
fmNumbered ==
    /\ \A u \in 1..FmUpdates : fmUp[u].rev <= fmRev /\ fmUp[u].id <= fmId
    /\ \A u, v \in 1..FmUpdates : u # v /\ fmUp[u].at # "none" /\ fmUp[v].at # "none" => fmUp[u].id # fmUp[v].id

\* A download of the revision in force is of the lists that are selected.
fmWanted ==
    \A u \in 1..FmUpdates : fmUp[u].at \notin {"none", "done"} /\ fmUp[u].rev = fmRev =>
        /\ fmUp[u].todo \subseteq fmCfg
        /\ fmUp[u].at # "next" => fmUp[u].list \in fmCfg

\* Only the last resolver lives, and downloads are for those that were started.
fmLast ==
    /\ fmStarted <= fmNow /\ (fmNow \in fmDead => fmNow < FmResolvers)
    /\ \A r \in 1..FmResolvers : (r < fmNow => r \in fmDead) /\ (r > fmNow => r \notin fmDead)
    /\ \A u \in 1..FmUpdates : fmUp[u].at # "none" => fmUp[u].res # 0 /\ fmUp[u].res <= fmStarted

\* What is installed is of the revision in force, and for the resolver that runs if that has been started.
fmInstalls ==
    \A u \in 1..FmUpdates : fmUp[u].at \in FmInstalling =>
        /\ fmUp[u].rev = fmRev
        /\ fmStarted = fmNow /\ fmNow \notin fmDead => fmUp[u].res = fmNow
        /\ fmUp[u].at = "publish" => fmDisk[fmUp[u].list] = fmUp[u].version

\* The matcher is behind the files only between the write and the publication.
fmMatches == (\A u \in 1..FmUpdates : fmUp[u].at # "publish") => fmMatch = built(fmCfg, fmDisk)
\* The resolver that runs is behind the matcher only until it is given.
fmGives ==
    (\A u \in 1..FmUpdates : fmUp[u].at \notin {"publish", "give"}) /\ ~fmPending /\ fmStarted = fmNow /\ fmNow \notin fmDead
        => fmGiven[fmNow] = fmMatch

\* The inductive invariant.
fmIInv ==
    fmTyped /\ fmHeld /\ fmNumbered /\ fmWanted /\ fmLast /\ fmInstalls /\ fmMatches /\ fmGives /\ UpdatingIsOwned

\* The files of the selected lists.
LEMMA FmBuilt == ASSUME NEW lists, NEW disk \in FmFiles PROVE built(lists, disk) \in FmFiles
  BY DEF built, FmFiles

\* No list is selected at first, and nothing is under way.
LEMMA fmInitIInv == fmInit => fmIInv
<1> SUFFICES ASSUME fmInit PROVE fmIInv
  OBVIOUS
<1> USE FmAssumption DEF fmInit
<1>1. fmNoUp \in FmUps /\ fmNoUp.at = "none" /\ fmNoUp.rev = 0 /\ fmNoUp.id = 0
  BY DEF fmNoUp, FmUps, FmAts
<1>2. \A u \in 1..FmUpdates : fmUp[u] = fmNoUp
  OBVIOUS
<1>3. fmEmpty \in FmFiles /\ fmEmpty = built({}, fmEmpty)
  BY DEF fmEmpty, FmFiles, built
<1>4. fmTyped
  <2>1. fmUpdating \in BOOLEAN
    BY Zenon
  <2>2. fmUp \in [1..FmUpdates -> FmUps] /\ fmGiven \in [1..FmResolvers -> FmFiles]
    BY <1>1, <1>3
  <2>3. fmNow \in 1..FmResolvers /\ fmStarted \in 1..FmResolvers /\ fmLock \in 0..FmUpdates
    OBVIOUS
  <2> QED BY <1>3, <2>1, <2>2, <2>3 DEF fmTyped
<1>5. fmHeld /\ fmNumbered /\ fmWanted /\ fmInstalls
  BY <1>1, <1>2 DEF fmHeld, fmNumbered, fmWanted, fmInstalls, FmInstalling
<1>6. fmLast
  BY <1>1, <1>2 DEF fmLast
<1>7. fmMatches /\ fmGives
  BY <1>3 DEF fmMatches, fmGives
<1>8. UpdatingIsOwned
  BY <1>1, <1>2 DEF UpdatingIsOwned
<1> QED BY <1>4, <1>5, <1>6, <1>7, <1>8 DEF fmIInv

\* A step of one download.
LEMMA FmOne ==
    ASSUME fmIInv, NEW u \in 1..FmUpdates, NEW rec \in FmUps, fmUp' = [fmUp EXCEPT ![u] = rec],
           fmUp[u].at \notin {"none", "done"}, rec.at # "none",
           rec.id = fmUp[u].id, rec.rev = fmUp[u].rev, rec.res = fmUp[u].res, rec.todo \subseteq fmUp[u].todo,
           UNCHANGED <<fmCfg, fmRev, fmNow, fmDead, fmStarted, fmPending, fmId>>,
           fmMatch' \in FmFiles, fmDisk' \in FmFiles, fmGiven' \in [1..FmResolvers -> FmFiles],
           rec.at \notin {"next", "done"} /\ rec.rev = fmRev => rec.list \in fmCfg,
           fmLock' \in 0..FmUpdates, rec.at \in FmInstalling <=> fmLock' = u,
           \A v \in (1..FmUpdates) \ {u} : fmLock' = v <=> fmLock = v,
           rec.at \in FmInstalling => rec.rev = fmRev /\ (fmStarted = fmNow /\ fmNow \notin fmDead => rec.res = fmNow),
           rec.at = "publish" => fmDisk'[rec.list] = rec.version,
           fmDisk' = fmDisk \/ fmLock = u,
           fmUpdating' = (fmUpdating /\ ~(rec.at = "done" /\ rec.id = fmId)),
           fmMatches', fmGives'
    PROVE  fmIInv'
<1>1. fmUp'[u] = rec /\ \A v \in (1..FmUpdates) \ {u} : fmUp'[v] = fmUp[v]
  BY DEF fmIInv, fmTyped
<1>2. fmTyped'
  <2>1. fmUpdating' \in BOOLEAN
    BY Zenon
  <2>2. fmUp' \in [1..FmUpdates -> FmUps]
    BY DEF fmIInv, fmTyped
  <2> QED BY <2>1, <2>2 DEF fmIInv, fmTyped
<1>3. fmHeld'
  BY <1>1 DEF fmIInv, fmHeld
<1>4. fmNumbered'
  BY <1>1 DEF fmIInv, fmNumbered
<1>5. fmWanted'
  <2>1. ASSUME NEW v \in 1..FmUpdates, fmUp'[v].at \notin {"none", "done"}, fmUp'[v].rev = fmRev
        PROVE  fmUp'[v].todo \subseteq fmCfg /\ (fmUp'[v].at # "next" => fmUp'[v].list \in fmCfg)
    <3>1. CASE v = u
      BY <1>1, <2>1, <3>1 DEF fmIInv, fmWanted
    <3>2. CASE v # u
      BY <1>1, <2>1, <3>2 DEF fmIInv, fmWanted
    <3> QED BY <3>1, <3>2
  <2> QED BY <2>1 DEF fmWanted
<1>6. fmLast'
  BY <1>1 DEF fmIInv, fmLast
<1>7. fmInstalls'
  <2>1. ASSUME NEW v \in 1..FmUpdates, fmUp'[v].at \in FmInstalling
        PROVE  /\ fmUp'[v].rev = fmRev
               /\ fmStarted = fmNow /\ fmNow \notin fmDead => fmUp'[v].res = fmNow
               /\ fmUp'[v].at = "publish" => fmDisk'[fmUp'[v].list] = fmUp'[v].version
    <3>1. CASE v = u
      BY <1>1, <2>1, <3>1
    <3>2. CASE v # u
      <4>1. fmUp'[v] = fmUp[v] /\ fmLock = v
        BY <1>1, <2>1, <3>2 DEF fmIInv, fmHeld
      <4>2. fmDisk' = fmDisk
        BY <3>2, <4>1
      <4> QED BY <2>1, <4>1, <4>2 DEF fmIInv, fmInstalls
    <3> QED BY <3>1, <3>2
  <2> QED BY <2>1 DEF fmInstalls
<1>8. UpdatingIsOwned'
  <2>1. ASSUME rec.at # "done" PROVE UpdatingIsOwned'
    <3>1. \A v \in 1..FmUpdates : /\ fmUp'[v].id = fmUp[v].id
                                  /\ (fmUp'[v].at \notin {"none", "done"} <=> fmUp[v].at \notin {"none", "done"})
      BY <1>1, <2>1
    <3>2. fmUpdating' <=> fmUpdating
      BY <2>1
    <3> QED BY <3>1, <3>2 DEF fmIInv, UpdatingIsOwned
  <2>2. ASSUME rec.at = "done", rec.id = fmId PROVE UpdatingIsOwned'
    <3>1. ~fmUpdating'
      BY <2>2
    <3>2. \A v \in 1..FmUpdates : fmUp'[v].id = fmId => fmUp'[v].at \in {"none", "done"}
      BY <1>1, <2>2, ZenonT(60) DEF fmIInv, fmNumbered
    <3> QED BY <3>1, <3>2 DEF UpdatingIsOwned
  <2>3. ASSUME rec.at = "done", rec.id # fmId PROVE UpdatingIsOwned'
    <3>1. fmUpdating' <=> fmUpdating
      BY <2>3
    <3>2. \A v \in 1..FmUpdates : fmUp'[v].id = fmId =>
            (fmUp'[v].at \notin {"none", "done"} <=> fmUp[v].at \notin {"none", "done"}) /\ fmUp[v].id = fmId
      BY <1>1, <2>3
    <3>3. \A v \in 1..FmUpdates : fmUp[v].id = fmId => fmUp'[v].id = fmId
      BY <1>1, <2>3
    <3> QED BY <3>1, <3>2, <3>3 DEF fmIInv, UpdatingIsOwned
  <2> QED BY <2>1, <2>2, <2>3
<1> QED BY <1>2, <1>3, <1>4, <1>5, <1>6, <1>7, <1>8 DEF fmIInv

\* What a cancellation leaves of the downloads, all but the mark of one.
LEMMA FmCut ==
    ASSUME fmTyped, fmUp' = fmCuts
    PROVE  /\ fmUp' \in [1..FmUpdates -> FmUps]
           /\ \A u \in 1..FmUpdates :
                /\ fmUp'[u].at = fmUp[u].at /\ fmUp'[u].todo = fmUp[u].todo /\ fmUp'[u].rev = fmUp[u].rev
                /\ fmUp'[u].res = fmUp[u].res /\ fmUp'[u].id = fmUp[u].id /\ fmUp'[u].list = fmUp[u].list
                /\ fmUp'[u].version = fmUp[u].version
<1>1. ASSUME NEW u \in 1..FmUpdates
      PROVE  /\ fmUp'[u] \in FmUps
             /\ fmUp'[u].at = fmUp[u].at /\ fmUp'[u].todo = fmUp[u].todo /\ fmUp'[u].rev = fmUp[u].rev
             /\ fmUp'[u].res = fmUp[u].res /\ fmUp'[u].id = fmUp[u].id /\ fmUp'[u].list = fmUp[u].list
             /\ fmUp'[u].version = fmUp[u].version
  <2>1. PICK c : c = (fmUp[u].cut \/ (fmUp[u].id = fmId /\ fmUpdating))
    OBVIOUS
  <2>2. fmUp'[u] = [fmUp[u] EXCEPT !.cut = c]
    BY <2>1 DEF fmCuts
  <2>3. c \in BOOLEAN
    BY <2>1, Zenon
  <2>4. fmUp[u] \in FmUps
    BY DEF fmTyped
  <2> QED BY <2>2, <2>3, <2>4 DEF FmUps
<1>2. fmUp' = [u \in 1..FmUpdates |-> fmUp'[u]]
  BY DEF fmCuts
<1> QED BY <1>1, <1>2

\* The configuration changes: older downloads are of an older revision.
LEMMA fmConfigureStep == ASSUME fmIInv, NEW lists \in SUBSET FmLists, ConfigureFilters(lists) PROVE fmIInv'
<1> USE DEF ConfigureFilters
<1>1. fmTyped
  BY DEF fmIInv
<1>2. /\ fmUp' \in [1..FmUpdates -> FmUps]
      /\ \A u \in 1..FmUpdates :
           /\ fmUp'[u].at = fmUp[u].at /\ fmUp'[u].todo = fmUp[u].todo /\ fmUp'[u].rev = fmUp[u].rev
           /\ fmUp'[u].res = fmUp[u].res /\ fmUp'[u].id = fmUp[u].id /\ fmUp'[u].list = fmUp[u].list
           /\ fmUp'[u].version = fmUp[u].version
  BY <1>1, FmCut
<1>3. \A u \in 1..FmUpdates : fmUp[u].at \notin FmInstalling /\ fmUp[u].rev <= fmRev /\ fmUp[u].id <= fmId
  BY DEF fmIInv, fmHeld, fmNumbered
<1>4. \A u \in 1..FmUpdates : fmUp[u].rev \in Nat /\ fmUp[u].id \in Nat
  BY <1>1 DEF fmTyped, FmUps
<1>5. fmRev' = fmRev + 1 /\ fmId' = fmId + 1 /\ fmRev \in Nat /\ fmId \in Nat /\ ~fmUpdating' /\ fmPending'
  BY <1>1 DEF fmTyped
<1>6. \A u \in 1..FmUpdates : /\ fmUp'[u].rev # fmRev' /\ fmUp'[u].rev <= fmRev'
                              /\ fmUp'[u].id # fmId' /\ fmUp'[u].id <= fmId'
  BY <1>2, <1>3, <1>4, <1>5
<1>7. fmTyped'
  <2>1. fmUpdating' \in BOOLEAN
    BY Zenon
  <2>2. fmMatch' \in FmFiles
    BY <1>1, FmBuilt DEF fmTyped
  <2> QED BY <1>1, <1>2, <1>5, <2>1, <2>2 DEF fmTyped
<1>8. fmHeld' /\ fmInstalls'
  BY <1>2, <1>3 DEF fmIInv, fmHeld, fmInstalls
<1>9. fmNumbered' /\ fmWanted'
  BY <1>2, <1>6 DEF fmIInv, fmNumbered, fmWanted
<1>10. fmLast'
  BY <1>2 DEF fmIInv, fmLast
<1>11. fmMatches' /\ fmGives'
  BY <1>5 DEF fmMatches, fmGives
<1>12. UpdatingIsOwned'
  BY <1>5, <1>6 DEF UpdatingIsOwned
<1> QED BY <1>7, <1>8, <1>9, <1>10, <1>11, <1>12 DEF fmIInv

\* The resolver is closed, and the next one made with the matcher of the moment.
LEMMA fmResolverSteps == fmIInv /\ (fmStop \/ fmNewResolver) => fmIInv'
<1>1. ASSUME fmIInv, fmStop PROVE fmIInv'
  <2>1. /\ fmDead' = fmDead \cup {fmNow} /\ fmNow < FmResolvers
        /\ UNCHANGED <<fmCfg, fmRev, fmMatch, fmDisk, fmNow, fmGiven, fmStarted, fmPending, fmUpdating, fmId, fmUp, fmLock>>
    BY <1>1 DEF fmStop
  <2>2. fmTyped' /\ fmHeld' /\ fmNumbered' /\ fmWanted' /\ UpdatingIsOwned'
    BY <1>1, <2>1 DEF fmIInv, fmTyped, fmHeld, fmNumbered, fmWanted, UpdatingIsOwned
  <2>3. fmLast' /\ fmInstalls' /\ fmGives'
    BY <1>1, <2>1 DEF fmIInv, fmTyped, fmLast, fmInstalls, fmGives
  <2>4. fmMatches'
    BY <1>1, <2>1 DEF fmIInv, fmMatches, built
  <2> QED BY <2>2, <2>3, <2>4 DEF fmIInv
<1>2. ASSUME fmIInv, fmNewResolver PROVE fmIInv'
  <2>1. /\ fmNow \in fmDead /\ fmNow' = fmNow + 1 /\ fmGiven' = [fmGiven EXCEPT ![fmNow'] = fmMatch]
        /\ UNCHANGED <<fmCfg, fmRev, fmMatch, fmDisk, fmDead, fmStarted, fmPending, fmUpdating, fmId, fmUp, fmLock>>
    BY <1>2 DEF fmNewResolver
  <2>2. fmNow' \in 1..FmResolvers /\ fmStarted < fmNow' /\ fmNow \in Nat
    <3>1. fmNow < FmResolvers
      BY <1>2, <2>1 DEF fmIInv, fmLast
    <3> QED BY <1>2, <2>1, <3>1, FmAssumption DEF fmIInv, fmTyped, fmLast
  <2>3. fmGiven' \in [1..FmResolvers -> FmFiles]
    BY <1>2, <2>1 DEF fmIInv, fmTyped
  <2>4. fmTyped' /\ fmHeld' /\ fmNumbered' /\ fmWanted' /\ UpdatingIsOwned'
    BY <1>2, <2>1, <2>2, <2>3 DEF fmIInv, fmTyped, fmHeld, fmNumbered, fmWanted, UpdatingIsOwned
  <2>5. fmLast'
    <3>1. fmNow' \notin fmDead /\ fmStarted <= fmNow'
      BY <1>2, <2>1, <2>2 DEF fmIInv, fmTyped, fmLast
    <3>2. ASSUME NEW r \in 1..FmResolvers PROVE (r < fmNow' => r \in fmDead) /\ (r > fmNow' => r \notin fmDead)
      BY <1>2, <2>1, <2>2 DEF fmIInv, fmLast
    <3> QED BY <1>2, <2>1, <3>1, <3>2 DEF fmIInv, fmLast
  <2>6. fmInstalls' /\ fmGives'
    BY <1>2, <2>1, <2>2 DEF fmIInv, fmTyped, fmInstalls, fmGives
  <2>7. fmMatches'
    BY <1>2, <2>1 DEF fmIInv, fmMatches, built
  <2> QED BY <2>4, <2>5, <2>6, <2>7 DEF fmIInv
<1> QED BY <1>1, <1>2

\* The start of a resolver, which is given the matcher once more.
LEMMA fmStartStep == fmIInv /\ FilterStart => fmIInv'
<1> SUFFICES ASSUME fmIInv, FilterStart PROVE fmIInv'
  OBVIOUS
<1> USE DEF FilterStart
<1>1. fmTyped
  BY DEF fmIInv
<1>2. /\ fmUp' \in [1..FmUpdates -> FmUps]
      /\ \A u \in 1..FmUpdates :
           /\ fmUp'[u].at = fmUp[u].at /\ fmUp'[u].todo = fmUp[u].todo /\ fmUp'[u].rev = fmUp[u].rev
           /\ fmUp'[u].res = fmUp[u].res /\ fmUp'[u].id = fmUp[u].id /\ fmUp'[u].list = fmUp[u].list
           /\ fmUp'[u].version = fmUp[u].version
  BY <1>1, FmCut
<1>3. \A u \in 1..FmUpdates : fmUp[u].at \notin FmInstalling /\ fmUp[u].id <= fmId /\ fmUp[u].id \in Nat
  BY <1>1 DEF fmIInv, fmHeld, fmNumbered, fmTyped, FmUps
<1>4. fmId' = fmId + 1 /\ fmId \in Nat /\ ~fmUpdating' /\ fmStarted' = fmNow /\ fmStarted <= fmNow
  BY <1>1 DEF fmTyped, fmIInv, fmLast
<1>5. \A u \in 1..FmUpdates : fmUp'[u].id # fmId' /\ fmUp'[u].id <= fmId'
  BY <1>2, <1>3, <1>4
<1>6. /\ fmGiven' \in [1..FmResolvers -> FmFiles] /\ fmGiven'[fmNow] = fmMatch
      /\ UNCHANGED <<fmCfg, fmRev, fmMatch, fmDisk, fmNow, fmDead, fmLock>>
  BY <1>1 DEF startGives, fmTyped
<1>7. fmTyped'
  <2>1. fmUpdating' \in BOOLEAN
    BY Zenon
  <2> QED BY <1>1, <1>2, <1>4, <1>6, <2>1 DEF fmTyped
<1>8. fmHeld' /\ fmInstalls'
  BY <1>2, <1>3 DEF fmIInv, fmHeld, fmInstalls
<1>9. fmNumbered' /\ fmWanted'
  BY <1>2, <1>5 DEF fmIInv, fmNumbered, fmWanted
<1>10. fmLast'
  <2>1. \A u \in 1..FmUpdates :
          fmUp'[u].at # "none" => fmUp'[u].res # 0 /\ fmUp'[u].res <= fmStarted /\ fmUp'[u].res \in Nat
    BY <1>1, <1>2 DEF fmIInv, fmLast, fmTyped, FmUps
  <2>2. \A u \in 1..FmUpdates : fmUp'[u].at # "none" => fmUp'[u].res <= fmNow
    BY <1>1, <1>4, <2>1 DEF fmTyped
  <2> QED BY <1>1, <1>4, <1>6, <2>1, <2>2 DEF fmIInv, fmLast, fmTyped
<1>11. fmMatches' /\ fmGives'
  BY <1>2, <1>6 DEF fmIInv, fmMatches, fmGives, built
<1>12. UpdatingIsOwned'
  BY <1>4, <1>5 DEF UpdatingIsOwned
<1> QED BY <1>7, <1>8, <1>9, <1>10, <1>11, <1>12 DEF fmIInv

\* A download begins, with a number of its own.
LEMMA fmTriggerStep ==
    ASSUME fmIInv, NEW u \in 1..FmUpdates, NEW r \in 1..FmResolvers, Trigger(u, r) PROVE fmIInv'
<1> USE DEF Trigger
<1>1. fmTyped /\ fmId' = fmId + 1 /\ fmId \in Nat
  BY DEF fmIInv, fmTyped
<1>2. PICK rec : rec = [at |-> "next", todo |-> fmCfg, rev |-> fmRev, res |-> r,
                        id |-> fmId', list |-> "none", version |-> 0, cut |-> FALSE]
  OBVIOUS
<1>3. /\ rec \in FmUps /\ rec.at = "next" /\ rec.todo = fmCfg /\ rec.rev = fmRev /\ rec.res = r /\ rec.id = fmId'
  BY <1>1, <1>2 DEF FmUps, FmAts, fmTyped
<1>4. /\ fmUp' \in [1..FmUpdates -> FmUps] /\ fmUp'[u] = rec
      /\ \A v \in (1..FmUpdates) \ {u} : fmUp'[v] = fmUp[v]
  BY <1>1, <1>2, <1>3 DEF fmTyped
<1>5. /\ UNCHANGED <<fmCfg, fmRev, fmMatch, fmDisk, fmNow, fmGiven, fmDead, fmStarted, fmPending, fmLock>>
      /\ ~fmUpdating /\ fmUpdating' /\ fmUp[u].at = "none" /\ r <= fmStarted
  BY DEF fmMay
<1>6. \A v \in 1..FmUpdates : fmUp[v].id \in Nat /\ fmUp[v].id <= fmId /\ fmUp[v].id < fmId'
  BY <1>1 DEF fmIInv, fmNumbered, fmTyped, FmUps
<1>7. fmTyped'
  <2>1. fmUpdating' \in BOOLEAN
    BY Zenon
  <2> QED BY <1>1, <1>4, <1>5, <2>1 DEF fmTyped
<1>8. fmHeld'
  BY <1>3, <1>4, <1>5 DEF fmIInv, fmHeld, FmInstalling
<1>9. fmNumbered'
  <2>1. \A v \in 1..FmUpdates : fmUp'[v].rev <= fmRev' /\ fmUp'[v].id <= fmId'
    BY <1>1, <1>3, <1>4, <1>5, <1>6 DEF fmIInv, fmNumbered, fmTyped
  <2>2. \A v, w \in 1..FmUpdates : v # w /\ fmUp'[v].at # "none" /\ fmUp'[w].at # "none" => fmUp'[v].id # fmUp'[w].id
    BY <1>1, <1>3, <1>4, <1>6 DEF fmIInv, fmNumbered
  <2> QED BY <2>1, <2>2 DEF fmNumbered
<1>10. fmWanted' /\ fmInstalls'
  BY <1>3, <1>4, <1>5 DEF fmIInv, fmWanted, fmInstalls, FmInstalling
<1>11. fmLast'
  BY <1>3, <1>4, <1>5 DEF fmIInv, fmLast
<1>12. fmMatches' /\ fmGives'
  BY <1>3, <1>4, <1>5 DEF fmIInv, fmMatches, fmGives, built
<1>13. UpdatingIsOwned'
  BY <1>3, <1>4, <1>5 DEF UpdatingIsOwned
<1> QED BY <1>7, <1>8, <1>9, <1>10, <1>11, <1>12, <1>13 DEF fmIInv

\* The matcher and what was given stay as they are.
LEMMA FmStays ==
    ASSUME fmIInv, NEW u \in 1..FmUpdates, NEW rec \in FmUps, fmUp' = [fmUp EXCEPT ![u] = rec],
           fmUp[u].at \notin {"publish", "give"}, rec.at \notin {"publish", "give"},
           UNCHANGED <<fmCfg, fmMatch, fmDisk, fmNow, fmGiven, fmDead, fmStarted, fmPending>>
    PROVE  fmMatches' /\ fmGives'
<1>1. fmUp'[u] = rec /\ \A v \in (1..FmUpdates) \ {u} : fmUp'[v] = fmUp[v]
  BY DEF fmIInv, fmTyped
<1> QED BY <1>1 DEF fmIInv, fmMatches, fmGives, built

\* A download fetches, finds out whether it may install, or ends.
LEMMA fmOutsideSteps ==
    ASSUME fmIInv, NEW u \in 1..FmUpdates,
           installLock(u) \/ updateEnds(u) \/ (\E l \in FmLists : FetchFilteringSource(u, l))
    PROVE  fmIInv'
<1> USE DEF fmUpdate
<1>1. fmUp[u] \in FmUps /\ fmTyped
  BY DEF fmIInv, fmTyped
<1>2. ASSUME NEW l \in FmLists, FetchFilteringSource(u, l) PROVE fmIInv'
  <2>1. /\ fmUp[u].at = "next" /\ l \in fmUp[u].todo
        /\ UNCHANGED <<fmCfg, fmRev, fmMatch, fmDisk, fmNow, fmGiven, fmDead, fmStarted, fmPending, fmUpdating, fmId, fmLock>>
    BY <1>2 DEF FetchFilteringSource
  <2>2. PICK rec \in {[fmUp[u] EXCEPT !.todo = @ \ {l}],
                      [fmUp[u] EXCEPT !.todo = @ \ {l}, !.at = "fetched", !.list = l, !.version = fmDisk[l] + 1]} :
          fmUp' = [fmUp EXCEPT ![u] = rec]
    BY <1>2 DEF FetchFilteringSource
  <2>3. /\ rec \in FmUps /\ rec.todo = fmUp[u].todo \ {l} /\ rec.id = fmUp[u].id /\ rec.rev = fmUp[u].rev
        /\ rec.res = fmUp[u].res /\ (rec.at = "next" \/ (rec.at = "fetched" /\ rec.list = l))
    <3>1. fmDisk[l] + 1 \in Nat
      BY <1>1 DEF fmTyped, FmFiles
    <3>2. CASE rec = [fmUp[u] EXCEPT !.todo = @ \ {l}]
      BY <1>1, <2>1, <3>2 DEF FmUps
    <3>3. CASE rec = [fmUp[u] EXCEPT !.todo = @ \ {l}, !.at = "fetched", !.list = l, !.version = fmDisk[l] + 1]
      <4>1. PICK v \in Nat : v = fmDisk[l] + 1
        BY <3>1
      <4> QED BY <1>1, <2>1, <3>3, <4>1 DEF FmUps, FmAts
    <3> QED BY <2>2, <3>2, <3>3
  <2>4. fmMatches' /\ fmGives'
    BY <2>1, <2>2, <2>3, FmStays
  <2>5. rec.at = "fetched" /\ rec.rev = fmRev => rec.list \in fmCfg
    BY <2>1, <2>3 DEF fmIInv, fmWanted
  <2>6. rec.at \notin FmInstalling /\ fmLock # u /\ fmLock \in 0..FmUpdates
    BY <1>1, <2>1, <2>3 DEF fmIInv, fmHeld, FmInstalling, fmTyped
  <2>7. fmMatch \in FmFiles /\ fmDisk \in FmFiles /\ fmGiven \in [1..FmResolvers -> FmFiles]
    BY <1>1 DEF fmTyped
  <2>8. fmUpdating' = (fmUpdating /\ ~(rec.at = "done" /\ rec.id = fmId))
    BY <1>1, <2>1, <2>3 DEF fmTyped
  <2> QED BY <2>1, <2>2, <2>3, <2>4, <2>5, <2>6, <2>7, <2>8, FmOne
<1>3. ASSUME updateEnds(u) PROVE fmIInv'
  <2>1. PICK rec : rec = [fmUp[u] EXCEPT !.at = "done"]
    OBVIOUS
  <2>2. /\ rec \in FmUps /\ rec.at = "done" /\ rec.id = fmUp[u].id /\ rec.rev = fmUp[u].rev
        /\ rec.res = fmUp[u].res /\ rec.todo = fmUp[u].todo
    BY <1>1, <2>1 DEF FmUps, FmAts
  <2>3. /\ fmUp[u].at = "next" /\ fmUp' = [fmUp EXCEPT ![u] = rec] /\ fmUpdating' = (fmUpdating /\ ~(rec.id = fmId))
        /\ UNCHANGED <<fmCfg, fmRev, fmMatch, fmDisk, fmNow, fmGiven, fmDead, fmStarted, fmPending, fmId, fmLock>>
    BY <1>3, <2>1, <2>2 DEF updateEnds, endsUpdate
  <2>4. fmMatches' /\ fmGives'
    BY <2>2, <2>3, FmStays
  <2>5. rec.at \notin FmInstalling /\ fmLock # u /\ fmLock \in 0..FmUpdates
    BY <1>1, <2>2, <2>3 DEF fmIInv, fmHeld, FmInstalling, fmTyped
  <2>6. fmMatch \in FmFiles /\ fmDisk \in FmFiles /\ fmGiven \in [1..FmResolvers -> FmFiles]
    BY <1>1 DEF fmTyped
  <2>7. fmUpdating' = (fmUpdating /\ ~(rec.at = "done" /\ rec.id = fmId))
    BY <2>2, <2>3
  <2> QED BY <2>2, <2>3, <2>4, <2>5, <2>6, <2>7, FmOne
<1>4. ASSUME installLock(u) PROVE fmIInv'
  <2>1. /\ fmUp[u].at = "fetched" /\ fmLock = 0
        /\ UNCHANGED <<fmCfg, fmRev, fmMatch, fmDisk, fmNow, fmGiven, fmDead, fmStarted, fmPending, fmUpdating, fmId>>
    BY <1>4 DEF installLock
  <2>2. PICK t : t = IF installs(u) THEN fmUp[u].todo ELSE {}
    OBVIOUS
  <2>3. PICK rec : rec = IF installs(u) /\ fmUp[u].res \notin fmDead THEN [fmUp[u] EXCEPT !.at = "write"]
                         ELSE [fmUp[u] EXCEPT !.at = "next", !.todo = t]
    OBVIOUS
  <2>4. fmUp' = [fmUp EXCEPT ![u] = rec] /\ fmLock' = IF installs(u) /\ fmUp[u].res \notin fmDead THEN u ELSE 0
    BY <1>4, <2>1, <2>2, <2>3 DEF installLock
  <2>5. /\ rec \in FmUps /\ rec.id = fmUp[u].id /\ rec.rev = fmUp[u].rev /\ rec.res = fmUp[u].res
        /\ rec.list = fmUp[u].list /\ rec.todo \subseteq fmUp[u].todo
        /\ rec.at = (IF installs(u) /\ fmUp[u].res \notin fmDead THEN "write" ELSE "next")
    <3>1. t \subseteq fmUp[u].todo
      BY <2>2
    <3>2. CASE installs(u) /\ fmUp[u].res \notin fmDead
      BY <1>1, <2>3, <3>2 DEF FmUps, FmAts
    <3>3. CASE ~(installs(u) /\ fmUp[u].res \notin fmDead)
      BY <1>1, <2>3, <3>1, <3>3 DEF FmUps, FmAts
    <3> QED BY <3>2, <3>3
  <2>6. fmMatches' /\ fmGives'
    BY <2>1, <2>4, <2>5, FmStays
  <2>7. rec.at # "next" => rec.rev = fmRev /\ rec.list \in fmCfg
    BY <2>1, <2>5 DEF installs, fmIInv, fmWanted
  <2>8. rec.at # "next" => (fmStarted = fmNow /\ fmNow \notin fmDead => rec.res = fmNow)
    <3>1. fmUp[u].res <= fmStarted /\ \A r \in 1..FmResolvers : r < fmNow => r \in fmDead
      BY <2>1 DEF fmIInv, fmLast
    <3>2. ASSUME rec.at # "next", fmStarted = fmNow, fmUp[u].res # 0 PROVE rec.res = fmNow
      <4>1. fmUp[u].res \in 1..FmResolvers /\ fmNow \in Nat /\ fmUp[u].res \notin fmDead
        BY <1>1, <2>5, <3>2 DEF FmUps, fmTyped
      <4> QED BY <2>5, <3>1, <3>2, <4>1
    <3>3. fmUp[u].res # 0
      BY <2>1 DEF fmIInv, fmLast
    <3> QED BY <3>2, <3>3
  <2>9. (rec.at \in FmInstalling <=> fmLock' = u) /\ fmLock' \in 0..FmUpdates /\ u # 0
    <3>1. CASE installs(u) /\ fmUp[u].res \notin fmDead
      BY <2>4, <2>5, <3>1, FmAssumption DEF FmInstalling
    <3>2. CASE ~(installs(u) /\ fmUp[u].res \notin fmDead)
      <4>1. rec.at = "next" /\ fmLock' = 0 /\ u # 0
        BY <2>4, <2>5, <3>2
      <4> QED BY <4>1, FmAssumption DEF FmInstalling
    <3> QED BY <3>1, <3>2
  <2>10. \A v \in (1..FmUpdates) \ {u} : fmLock' = v <=> fmLock = v
    BY <2>1, <2>4
  <2>11. fmMatch \in FmFiles /\ fmDisk \in FmFiles /\ fmGiven \in [1..FmResolvers -> FmFiles]
    BY <1>1 DEF fmTyped
  <2>12. fmUpdating' = (fmUpdating /\ ~(rec.at = "done" /\ rec.id = fmId))
    BY <1>1, <2>1, <2>5 DEF fmTyped
  <2> QED BY <2>1, <2>4, <2>5, <2>6, <2>7, <2>8, <2>9, <2>10, <2>11, <2>12, FmOne DEF FmInstalling
<1> QED BY <1>2, <1>3, <1>4

\* The steps of an install, under opMu.
LEMMA fmInstallSteps ==
    ASSUME fmIInv, NEW u \in 1..FmUpdates, installWrite(u) \/ installPublish(u) \/ installGive(u)
    PROVE  fmIInv'
<1> USE DEF fmUpdate
<1>1. fmUp[u] \in FmUps /\ fmTyped
  BY DEF fmIInv, fmTyped
<1>2. fmUp[u].at \in FmInstalling
  BY DEF installWrite, installPublish, installGive, FmInstalling
<1>3. /\ fmLock = u /\ fmUp[u].rev = fmRev /\ fmUp[u].list \in fmCfg /\ u # 0
      /\ (fmStarted = fmNow /\ fmNow \notin fmDead => fmUp[u].res = fmNow)
      /\ \A v \in (1..FmUpdates) \ {u} : fmUp[v].at \notin FmInstalling
  BY <1>2 DEF fmIInv, fmHeld, fmInstalls, fmWanted, FmInstalling
<1>4. fmMatch \in FmFiles /\ fmDisk \in FmFiles /\ fmGiven \in [1..FmResolvers -> FmFiles] /\ fmCfg \subseteq FmLists
  BY <1>1 DEF fmTyped
<1>5. \A v \in (1..FmUpdates) \ {u} : fmUp[v].at \notin {"publish", "give"}
  BY <1>3 DEF FmInstalling
<1>6. ASSUME NEW step \in {"next", "publish", "give"},
             fmUp' = [fmUp EXCEPT ![u] = [fmUp[u] EXCEPT !.at = step]],
             fmLock' = (IF step = "next" THEN 0 ELSE u),
             UNCHANGED <<fmCfg, fmRev, fmNow, fmDead, fmStarted, fmPending, fmId, fmUpdating>>,
             fmMatch' \in FmFiles, fmDisk' \in FmFiles, fmGiven' \in [1..FmResolvers -> FmFiles],
             step = "publish" => fmDisk'[fmUp[u].list] = fmUp[u].version,
             step # "publish" => fmMatch' = built(fmCfg, fmDisk'),
             step = "next" /\ ~fmPending /\ fmStarted = fmNow /\ fmNow \notin fmDead => fmGiven'[fmNow] = fmMatch'
      PROVE  fmIInv'
  <2>1. PICK rec : rec = [fmUp[u] EXCEPT !.at = step]
    OBVIOUS
  <2>2. /\ rec \in FmUps /\ rec.at = step /\ rec.id = fmUp[u].id /\ rec.rev = fmUp[u].rev /\ rec.res = fmUp[u].res
        /\ rec.todo = fmUp[u].todo /\ rec.list = fmUp[u].list /\ rec.version = fmUp[u].version
    BY <1>1, <2>1 DEF FmUps, FmAts
  <2>3. fmUp' = [fmUp EXCEPT ![u] = rec]
    BY <1>6, <2>1
  <2>4. fmUp'[u].at = step /\ \A v \in (1..FmUpdates) \ {u} : fmUp'[v] = fmUp[v]
    BY <1>1, <2>2, <2>3 DEF fmTyped
  <2>5. fmMatches'
    BY <1>6, <2>4 DEF fmMatches, built
  <2>6. fmGives'
    BY <1>6, <2>4 DEF fmGives
  <2>7. fmLock' \in 0..FmUpdates /\ (rec.at \in FmInstalling <=> fmLock' = u)
    <3>1. CASE step = "next"
      BY <1>3, <1>6, <2>2, <3>1, FmAssumption DEF FmInstalling
    <3>2. CASE step # "next"
      BY <1>6, <2>2, <3>2, FmAssumption DEF FmInstalling
    <3> QED BY <3>1, <3>2
  <2>8. \A v \in (1..FmUpdates) \ {u} : fmLock' = v <=> fmLock = v
    BY <1>3, <1>6
  <2>9. fmUpdating' = (fmUpdating /\ ~(rec.at = "done" /\ rec.id = fmId))
    BY <1>1, <1>6, <2>2 DEF fmTyped
  <2>10. fmUp[u].at \notin {"none", "done"} /\ rec.at # "none"
    BY <1>2, <2>2 DEF FmInstalling
  <2>11. rec.at = "publish" => fmDisk'[rec.list] = rec.version
    BY <1>6, <2>2
  <2> QED BY <1>3, <1>6, <2>2, <2>3, <2>5, <2>6, <2>7, <2>8, <2>9, <2>10, <2>11, FmOne
<1>7. ASSUME installWrite(u) PROVE fmIInv'
  <2>1. /\ fmUp[u].at = "write"
        /\ UNCHANGED <<fmCfg, fmRev, fmMatch, fmNow, fmGiven, fmDead, fmStarted, fmPending, fmUpdating, fmId>>
    BY <1>7 DEF installWrite
  <2>2. CASE fmDisk' = [fmDisk EXCEPT ![fmUp[u].list] = fmUp[u].version] /\ fmUpdate(u, [fmUp[u] EXCEPT !.at = "publish"])
             /\ UNCHANGED fmLock
    <3>1. fmDisk' \in FmFiles /\ fmDisk'[fmUp[u].list] = fmUp[u].version
      BY <1>1, <1>3, <1>4, <2>2 DEF FmFiles, FmUps
    <3> QED BY <1>3, <1>4, <1>6, <2>1, <2>2, <3>1
  <2>3. CASE writeFails(u)
    <3>1. fmMatch = built(fmCfg, fmDisk)
      BY <1>5, <2>1 DEF fmIInv, fmMatches
    <3>2. ~fmPending /\ fmStarted = fmNow /\ fmNow \notin fmDead => fmGiven[fmNow] = fmMatch
      BY <1>5, <2>1 DEF fmIInv, fmGives
    <3>3. fmLock' = 0 /\ fmUp' = [fmUp EXCEPT ![u] = [fmUp[u] EXCEPT !.at = "next"]] /\ fmDisk' = fmDisk
      BY <2>3 DEF writeFails
    <3>4. fmMatch' = built(fmCfg, fmDisk') /\ fmMatch' = fmMatch /\ fmGiven' = fmGiven
      BY <2>1, <3>1, <3>3
    <3> QED BY <1>4, <1>6, <2>1, <3>2, <3>3, <3>4
  <2> QED BY <1>7, <2>2, <2>3 DEF installWrite
<1>8. ASSUME installPublish(u) PROVE fmIInv'
  <2>1. /\ fmUp[u].at = "publish" /\ fmMatch' = [built(fmCfg, fmDisk) EXCEPT ![fmUp[u].list] = fmUp[u].version]
        /\ fmUp' = [fmUp EXCEPT ![u] = [fmUp[u] EXCEPT !.at = "give"]]
        /\ UNCHANGED <<fmCfg, fmRev, fmDisk, fmNow, fmGiven, fmDead, fmStarted, fmPending, fmUpdating, fmId, fmLock>>
    BY <1>8 DEF installPublish
  <2>2. fmDisk[fmUp[u].list] = fmUp[u].version
    BY <2>1 DEF fmIInv, fmInstalls, FmInstalling
  <2>3. fmMatch' = built(fmCfg, fmDisk)
    BY <1>3, <1>4, <2>1, <2>2 DEF built
  <2>4. fmMatch' \in FmFiles /\ fmMatch' = built(fmCfg, fmDisk')
    BY <1>4, <2>1, <2>3, FmBuilt
  <2> QED BY <1>3, <1>4, <1>6, <2>1, <2>4
<1>9. ASSUME installGive(u) PROVE fmIInv'
  <2>1. /\ fmUp[u].at = "give" /\ fmGiven' = [fmGiven EXCEPT ![fmUp[u].res] = fmMatch]
        /\ fmUp' = [fmUp EXCEPT ![u] = [fmUp[u] EXCEPT !.at = "next"]] /\ fmLock' = 0
        /\ UNCHANGED <<fmCfg, fmRev, fmMatch, fmDisk, fmNow, fmDead, fmStarted, fmPending, fmUpdating, fmId>>
    BY <1>9 DEF installGive
  <2>2. fmGiven' \in [1..FmResolvers -> FmFiles]
    BY <1>4, <2>1
  <2>3. fmMatch = built(fmCfg, fmDisk)
    BY <1>5, <2>1 DEF fmIInv, fmMatches
  <2>4. fmStarted = fmNow /\ fmNow \notin fmDead => fmGiven'[fmNow] = fmMatch
    BY <1>1, <1>3, <1>4, <2>1 DEF fmTyped
  <2>5. fmMatch' = built(fmCfg, fmDisk')
    BY <2>1, <2>3
  <2> QED BY <1>4, <1>6, <2>1, <2>2, <2>4, <2>5
<1> QED BY <1>7, <1>8, <1>9

\* Every step keeps the invariant.
LEMMA fmStep == fmIInv /\ [fmNext]_fmVars => fmIInv'
<1>1. ASSUME fmIInv, UNCHANGED fmVars PROVE fmIInv'
  BY <1>1 DEF fmVars, fmIInv, fmTyped, fmHeld, fmNumbered, fmWanted, fmLast, fmInstalls, fmMatches, fmGives,
              UpdatingIsOwned, built
<1> QED BY <1>1, fmConfigureStep, fmResolverSteps, fmStartStep, fmTriggerStep, fmOutsideSteps, fmInstallSteps DEF fmNext

\* The invariant is what the run checks.
LEMMA FiltersAreSafe == fmIInv => FiltersSafe
<1> SUFFICES ASSUME fmIInv PROVE FiltersSafe
  OBVIOUS
<1>1. ASSUME fmLock = 0, NEW u \in 1..FmUpdates PROVE fmUp[u].at \notin {"publish", "give"}
  <2>1. fmUp[u].at \notin FmInstalling
    BY <1>1 DEF fmIInv, fmHeld
  <2> QED BY <2>1 DEF FmInstalling
<1>2. MatcherIsOnDisk /\ ResolverIsCurrent
  BY <1>1 DEF fmIInv, fmMatches, fmGives, MatcherIsOnDisk, ResolverIsCurrent
<1> QED BY <1>2 DEF fmIInv, FiltersSafe

-----------------------------------------------------------------------------
(* Side by side: a component that is not in scope stays as it started. *)

\* A behaviour moves one component, and that keeps its own invariant.
LEMMA LocalInvariance == Spec => [](fdIInv /\ fmIInv)
<1>1. Init => fdIInv /\ fmIInv
  BY fdInitIInv, fmInitIInv DEF Init
<1>2. ASSUME fdIInv /\ fmIInv, [Next]_<<scope, dsVars, dlVars, drVars, sfVars, fdVars, fmVars, daVars, rfVars>>
      PROVE  fdIInv' /\ fmIInv'
  <2>1. [fdNext]_fdVars
    BY <1>2 DEF Next
  <2>2. [fmNext]_fmVars
    BY <1>2 DEF Next
  <2> QED BY <1>2, <2>1, <2>2, fdStep, fmStep
<1> QED BY <1>1, <1>2, PTL DEF Spec

\* FastDns and DnsFilters: no request waits for work that nobody does, no channel is closed twice
\* and no wake-up is lost; what blocks is what is selected and on disk.
THEOREM LocalAnswersAreSafe == Spec => []LocalAnswersSafe
<1>1. fdIInv /\ fmIInv => LocalAnswersSafe
  BY FastIsSafe, FiltersAreSafe DEF LocalAnswersSafe
<1> QED BY <1>1, LocalInvariance, PTL
=============================================================================
