--------------------------- MODULE DnsServerProofs ---------------------------
(***************************************************************************)
(* The DNS server, proved for any ports, requests, connections, datagrams, *)
(* callers, runs and failures: the life of its configuration, its run, its *)
(* supervisor and the binding of dnsmasq (DnsServer, first part), the      *)
(* listeners of a run (second part), the shared flights and the cache of   *)
(* its resolver (ResolverFlights), the race of the pairs for one query     *)
(* (DnsRace) and the routed sockets (DnsAdapter), each with its inductive  *)
(* invariant; then the specification the run checks, where they stand      *)
(* side by side.                                                           *)
(***************************************************************************)
EXTENDS MCDns, FiniteSetTheorems, SequenceTheorems, TLAPS

-----------------------------------------------------------------------------
(* The life of the server: its configuration, its run, its supervisor and the binding of dnsmasq. *)

dsSpec == dsInit /\ [][dsNext]_dsVars

\* Where the holder of opMu is, and which steps may follow each other.
dsAhead(s) == IF s = <<>> THEN "end" ELSE Head(s)
dsHas(s, a) == \E i \in 1..Len(s) : s[i] = a
dsPc == dsAhead(dsOp.todo)
DsApiSteps == {"boot", "reconcile", "reconcileBoot", "save", "halt", "drain", "adopt", "control",
               "reconcileRun", "listen", "prepare", "publish", "spawn"}
DsSupSteps == {"stopRun", "drain", "reconcileRun", "listen", "prepare", "publish"}
DsStart == {"reconcileRun", "listen", "prepare", "publish"}
dsFollows(by, a) ==
    CASE a = "reconcile" -> {"save"} [] a = "save" -> {"halt"} [] a \in {"halt", "stopRun"} -> {"drain"}
      [] a = "drain" -> IF by = "api" THEN {"adopt"} ELSE {"reconcileRun"}
      [] a = "adopt" -> {"control"} [] a = "control" -> {"reconcileRun"} [] a = "reconcileRun" -> {"listen"}
      [] a = "listen" -> {"prepare"} [] a = "prepare" -> {"publish"} [] a = "publish" -> {"spawn"}
      [] OTHER -> {}
DsMayEnd == {"boot", "reconcileBoot", "drain", "adopt", "publish", "spawn"}
dsPlan(by, s) ==
    /\ s \in Seq(IF by = "api" THEN DsApiSteps ELSE DsSupSteps)
    /\ by = "none" => s = <<>>
    /\ \A i \in 1..Len(s) : IF i = Len(s) THEN s[i] \in DsMayEnd ELSE s[i + 1] \in dsFollows(by, s[i])

dsRunning(r) == dsLst[r] \in {"open", "failing", "failed"}
DsSupervisors == [at : {"gone", "read", "wait", "lock"}, of : 0..DsRuns, cause : BOOLEAN]
dsTypes ==
    /\ dsFile \in DsConfigs /\ dsCfg \in DsConfigs /\ dsEdited \in BOOLEAN /\ dsErr \in BOOLEAN
    /\ dsBound \in {0} \cup DsPorts
    /\ dsCrash \in Nat /\ dsMade \in 0..DsRuns /\ dsGens \in 0..DsRuns /\ dsCtl \in 0..dsGens /\ dsActive \in 0..dsMade
    /\ dsSup \in [1..DsRuns -> DsSupervisors]
    /\ dsLst \in [1..DsRuns -> {"none", "open", "failing", "failed", "closed"}]
    /\ dsTold \in SUBSET (1..DsRuns)
    /\ dsOp \in [by : {"none", "api", "supervisor"}, todo : Seq(DsApiSteps \cup DsSupSteps),
                 cfg : DsConfigs, run : 0..DsRuns]
    /\ dsPlan(dsOp.by, dsOp.todo)

\* What is not there yet: runs that were not made, supervisors that were not started.
dsFresh ==
    /\ \A r \in 1..DsRuns : r > dsMade => dsLst[r] = "none"
    /\ \A g \in 1..DsRuns : g > dsGens => dsSup[g].at = "gone"
    /\ \A r \in dsTold : dsLst[r] \in {"failed", "closed"}
\* The run that is active or being started has the listeners, and the firewall follows it.
dsWhole ==
    /\ \A r \in 1..DsRuns : dsRunning(r) => r = dsActive \/ (dsPc \in {"prepare", "publish"} /\ r = dsOp.run)
    /\ dsActive # 0 => dsRunning(dsActive) /\ dsCtl # 0
    /\ dsFw = dsActive \/ dsPc = "drain" \/ (dsPc = "publish" /\ dsFw = dsOp.run)
    /\ dsPc \in {"drain", "adopt", "control", "boot", "reconcileBoot"} \cup DsStart => dsActive = 0
    /\ dsPc \in {"prepare", "publish"} => dsOp.run \in 1..dsMade /\ dsRunning(dsOp.run)
    /\ dsPc = "publish" => dsFw = dsOp.run
\* What runs is enabled in the configuration that is saved, but between a save and the stop after it.
dsEnabled ==
    /\ dsCtl # 0 => dsCfg.on /\ (dsCfg = dsFile \/ (dsPc = "halt" /\ dsHas(dsOp.todo, "adopt")))
    /\ dsPc \in {"adopt", "control", "boot", "reconcileBoot"} => dsCtl = 0
    /\ dsPc = "drain" /\ dsOp.by = "api" => dsCtl = 0
    /\ dsPc \in DsStart \cup {"spawn"} => dsCtl # 0
    /\ dsPc = "control" => dsCfg.on
    /\ dsPc \in {"control", "boot", "reconcileBoot"} => dsCfg = dsFile
    /\ dsPc \in {"reconcile", "save"} => dsHas(dsOp.todo, "adopt")
    /\ dsHas(dsOp.todo, "adopt") /\ dsHas(dsOp.todo, "control") => dsOp.cfg.on
    /\ dsHas(dsOp.todo, "adopt") /\ dsPc \notin {"reconcile", "save"} => dsFile = dsOp.cfg
\* A binding that the saved configuration does not serve is one that nobody has compared with it yet.
dsBinding ==
    /\ dsBound # 0 => \/ dsFile.on /\ dsFile.port = dsBound
                      \/ /\ dsEdited
                         /\ dsErr \/ dsPc \in {"boot", "reconcileBoot", "control", "reconcileRun"}
    /\ dsHas(dsOp.todo, "adopt") /\ dsPc # "reconcile" => Served(dsOp.cfg)
    /\ dsPc \in {"listen", "prepare", "publish"} => Served(dsFile)
\* The supervisor of the current generation reads, or holds the lock, or waits for the run that is
\* active; what it has been told is that this run failed.
dsWatch ==
    /\ dsOp.by = "supervisor" => dsCtl # 0 /\ dsSup[dsCtl].at = "read"
    /\ dsOp.by = "api" /\ dsPc \in DsStart \cup {"spawn"} => dsSup[dsCtl].at = "gone"
    /\ dsCtl # 0 /\ dsSup[dsCtl].at \in {"wait", "lock"} =>
           /\ dsSup[dsCtl].of = dsActive
           /\ dsSup[dsCtl].at = "lock" /\ dsSup[dsCtl].cause => dsActive # 0 /\ dsLst[dsActive] = "failed"
    /\ dsPc = "stopRun" => dsOp.by = "supervisor" /\ dsActive # 0 /\ dsLst[dsActive] = "failed"
dsIInv == dsTypes /\ StatsOfCurrent /\ dsFresh /\ dsWhole /\ dsEnabled /\ dsBinding /\ dsWatch

\* What a list of steps tells of its tail.
LEMMA dsTails ==
    ASSUME NEW by, NEW s, dsPlan(by, s), s # <<>>
    PROVE  /\ dsPlan(by, Tail(s)) /\ Head(s) \in (IF by = "api" THEN DsApiSteps ELSE DsSupSteps)
           /\ Tail(s) = <<>> => Head(s) \in DsMayEnd
           /\ Tail(s) # <<>> => Head(Tail(s)) \in dsFollows(by, Head(s))
           /\ \A b : dsHas(Tail(s), b) => dsHas(s, b)
           /\ \A b : b # Head(s) /\ dsHas(s, b) => dsHas(Tail(s), b)
<1> DEFINE t == Tail(s)
           S == IF by = "api" THEN DsApiSteps ELSE DsSupSteps
<1>1. s \in Seq(S) /\ by # "none" BY DEF dsPlan
<1> HIDE DEF S
<1>2. /\ Head(s) = s[1] /\ Len(s) \in Nat \ {0} /\ t \in Seq(S) /\ Len(t) = Len(s) - 1
      /\ \A i \in 1..Len(t) : t[i] = s[i + 1]
    BY <1>1, HeadTailProperties, EmptySeq
<1>3. t = <<>> <=> Len(s) = 1
    <2>1. PICK u : u = t OBVIOUS
    <2>2. u \in Seq(S) /\ Len(u) = Len(s) - 1 BY <1>2, <2>1
    <2>3. u = <<>> <=> Len(u) = 0 BY <2>2, EmptySeq
    <2> QED BY <1>2, <2>1, <2>2, <2>3
<1>4. t # <<>> => Head(t) = s[2] /\ 2 \in 1..Len(s) BY <1>2, <1>3
<1>5. \A i \in 1..Len(t) : i \in 1..Len(s) /\ i + 1 \in 1..Len(s) BY <1>2
<1>6. \A i \in 1..Len(s) : IF i = Len(s) THEN s[i] \in DsMayEnd ELSE s[i + 1] \in dsFollows(by, s[i])
    BY DEF dsPlan
<1>7. 1 \in 1..Len(s) /\ s[1] \in S BY <1>1, <1>2
<1> HIDE DEF t
<1>8. ASSUME NEW i \in 1..Len(t) PROVE IF i = Len(t) THEN t[i] \in DsMayEnd ELSE t[i + 1] \in dsFollows(by, t[i])
    <2>1. PICK j \in 1..Len(s) : j = i + 1 BY <1>5
    <2>2. i \in Nat /\ t[i] = s[j] /\ (j = Len(s) <=> i = Len(t)) BY <1>2, <2>1
    <2>3. i # Len(t) => i + 1 \in 1..Len(t) /\ (i + 1) + 1 = j + 1 BY <1>2, <2>1
    <2>4. i # Len(t) => t[i + 1] = s[j + 1] BY <1>2, <2>3
    <2>5. IF j = Len(s) THEN s[j] \in DsMayEnd ELSE s[j + 1] \in dsFollows(by, s[j]) BY <1>6
    <2> QED BY <2>2, <2>4, <2>5
<1>9. dsPlan(by, t) BY <1>1, <1>2, <1>8 DEF dsPlan, S
<1>10. t = <<>> => s[1] \in DsMayEnd BY <1>3, <1>6, <1>7
<1>11. t # <<>> => s[2] \in dsFollows(by, s[1])
    <2>1. PICK j \in 1..Len(s) : j = 1 BY <1>7
    <2>2. t # <<>> => j # Len(s) /\ j + 1 = 2 BY <1>2, <1>3, <2>1
    <2> QED BY <1>6, <2>1, <2>2
<1>12. \A b : dsHas(t, b) => dsHas(s, b) BY <1>2, <1>5 DEF dsHas
<1>13. ASSUME NEW b, b # Head(s), dsHas(s, b) PROVE dsHas(t, b)
    <2>1. PICK i \in 1..Len(s) : s[i] = b BY <1>13 DEF dsHas
    <2>2. i # 1 BY <1>2, <1>13, <2>1
    <2>3. i - 1 \in 1..Len(t) /\ (i - 1) + 1 = i BY <1>2, <2>2
    <2>4. t[i - 1] = b BY <1>2, <2>1, <2>3
    <2> QED BY <2>3, <2>4 DEF dsHas
<1>14. Head(s) \in S BY <1>2, <1>7
<1> QED BY <1>2, <1>4, <1>9, <1>10, <1>11, <1>12, <1>13, <1>14 DEF t, S

\* The lists that operations are given.
LEMMA dsNothing == /\ \A by : dsPlan(by, <<>>)
                   /\ \A a : ~dsHas(<<>>, a)
                   /\ dsAhead(<<>>) = "end"
<1>1. \A S : <<>> \in Seq(S) OBVIOUS
<1>2. Len(<<>>) = 0 OBVIOUS
<1> QED BY <1>1, <1>2 DEF dsPlan, dsHas, dsAhead
LEMMA dsOnes ==
    ASSUME NEW by \in {"api", "supervisor"}, NEW a \in DsMayEnd, a \in (IF by = "api" THEN DsApiSteps ELSE DsSupSteps)
    PROVE  dsPlan(by, <<a>>) /\ (\A b : dsHas(<<a>>, b) => b = a) /\ dsAhead(<<a>>) = a
<1>1. PICK s : s = <<a>> OBVIOUS
<1> DEFINE S == IF by = "api" THEN DsApiSteps ELSE DsSupSteps
<1>0. a \in S OBVIOUS
<1> HIDE DEF S
<1>2. s \in Seq(S) /\ Len(s) = 1 /\ s[1] = a /\ s # <<>> /\ Head(s) = a BY <1>0, <1>1
<1>3. \A i \in 1..Len(s) : i = 1 BY <1>2
<1>4. dsPlan(by, s) BY <1>2, <1>3 DEF dsPlan, S
<1> QED BY <1>1, <1>2, <1>3, <1>4 DEF dsHas, dsAhead
LEMMA dsCloseList ==
    /\ dsPlan("api", <<"halt", "drain">>) /\ dsAhead(<<"halt", "drain">>) = "halt"
    /\ \A b : dsHas(<<"halt", "drain">>, b) => b \in {"halt", "drain"}
<1>1. PICK s : s = <<"halt", "drain">> OBVIOUS
<1>2. s \in Seq(DsApiSteps) /\ Len(s) = 2 /\ s[1] = "halt" /\ s[2] = "drain" /\ s # <<>> /\ Head(s) = "halt"
    BY <1>1 DEF DsApiSteps
<1>3. \A i \in 1..Len(s) : i = 1 \/ i = 2 BY <1>2
<1>4. dsPlan("api", s) BY <1>2, <1>3 DEF dsPlan, dsFollows, DsMayEnd
<1> QED BY <1>1, <1>2, <1>3, <1>4 DEF dsHas, dsAhead
LEMMA dsStartList ==
    /\ dsPlan("supervisor", StartSteps) /\ dsAhead(StartSteps) = "reconcileRun"
    /\ \A b : dsHas(StartSteps, b) => b \in DsStart
<1>1. PICK s : s = StartSteps OBVIOUS
<1>2. /\ s \in Seq(DsSupSteps) /\ Len(s) = 4 /\ s # <<>> /\ Head(s) = "reconcileRun"
      /\ s[1] = "reconcileRun" /\ s[2] = "listen" /\ s[3] = "prepare" /\ s[4] = "publish"
    BY <1>1 DEF DsSupSteps, StartSteps
<1>3. \A i \in 1..Len(s) : i = 1 \/ i = 2 \/ i = 3 \/ i = 4 BY <1>2
<1>4. dsPlan("supervisor", s) BY <1>2, <1>3 DEF dsPlan, dsFollows, DsMayEnd
<1>5. \A b : dsHas(s, b) => b \in DsStart BY <1>2, <1>3 DEF dsHas, DsStart
<1> QED BY <1>1, <1>2, <1>4, <1>5 DEF dsAhead
LEMMA dsRetryList ==
    /\ dsPlan("supervisor", RetrySteps) /\ dsAhead(RetrySteps) = "stopRun"
    /\ ~dsHas(RetrySteps, "adopt") /\ ~dsHas(RetrySteps, "control")
<1>1. PICK s : s = RetrySteps OBVIOUS
<1>2. /\ s \in Seq(DsSupSteps) /\ Len(s) = 6 /\ s # <<>> /\ Head(s) = "stopRun"
      /\ s[1] = "stopRun" /\ s[2] = "drain" /\ s[3] = "reconcileRun" /\ s[4] = "listen"
      /\ s[5] = "prepare" /\ s[6] = "publish"
    BY <1>1 DEF DsSupSteps, RetrySteps
<1>3. \A i \in 1..Len(s) : i = 1 \/ i = 2 \/ i = 3 \/ i = 4 \/ i = 5 \/ i = 6 BY <1>2
<1>4. dsPlan("supervisor", s) BY <1>2, <1>3 DEF dsPlan, dsFollows, DsMayEnd
<1>5. ~dsHas(s, "adopt") /\ ~dsHas(s, "control") BY <1>2, <1>3 DEF dsHas
<1> QED BY <1>1, <1>2, <1>4, <1>5 DEF dsAhead
LEMMA dsControlList ==
    /\ dsPlan("api", ControlSteps) /\ dsAhead(ControlSteps) = "control" /\ ~dsHas(ControlSteps, "adopt")
<1>1. PICK s : s = ControlSteps OBVIOUS
<1>2. /\ s \in Seq(DsApiSteps) /\ Len(s) = 6 /\ s # <<>> /\ Head(s) = "control"
      /\ s[1] = "control" /\ s[2] = "reconcileRun" /\ s[3] = "listen" /\ s[4] = "prepare"
      /\ s[5] = "publish" /\ s[6] = "spawn"
    BY <1>1 DEF DsApiSteps, ControlSteps
<1>3. \A i \in 1..Len(s) : i = 1 \/ i = 2 \/ i = 3 \/ i = 4 \/ i = 5 \/ i = 6 BY <1>2
<1>4. dsPlan("api", s) BY <1>2, <1>3 DEF dsPlan, dsFollows, DsMayEnd
<1>5. ~dsHas(s, "adopt") BY <1>2, <1>3 DEF dsHas
<1> QED BY <1>1, <1>2, <1>4, <1>5 DEF dsAhead
LEMMA dsSetConfigList ==
    ASSUME NEW cfg
    PROVE  /\ dsPlan("api", SetConfigSteps(cfg)) /\ dsAhead(SetConfigSteps(cfg)) = "reconcile"
           /\ dsHas(SetConfigSteps(cfg), "adopt") /\ (dsHas(SetConfigSteps(cfg), "control") => cfg.on)
<1>1. PICK s : s = SetConfigSteps(cfg) OBVIOUS
<1>2. CASE cfg.on
    <2>1. /\ s \in Seq(DsApiSteps) /\ Len(s) = 11 /\ s # <<>> /\ Head(s) = "reconcile"
          /\ s[1] = "reconcile" /\ s[2] = "save" /\ s[3] = "halt" /\ s[4] = "drain" /\ s[5] = "adopt"
          /\ s[6] = "control" /\ s[7] = "reconcileRun" /\ s[8] = "listen" /\ s[9] = "prepare"
          /\ s[10] = "publish" /\ s[11] = "spawn"
        BY <1>1, <1>2 DEF DsApiSteps, SetConfigSteps
    <2>2. \A i \in 1..Len(s) : \/ i = 1 \/ i = 2 \/ i = 3 \/ i = 4 \/ i = 5 \/ i = 6
                               \/ i = 7 \/ i = 8 \/ i = 9 \/ i = 10 \/ i = 11
        BY <2>1
    <2>3. dsPlan("api", s) BY <2>1, <2>2 DEF dsPlan, dsFollows, DsMayEnd
    <2>4. dsHas(s, "adopt") BY <2>1 DEF dsHas
    <2> QED BY <1>1, <1>2, <2>1, <2>3, <2>4 DEF dsAhead
<1>3. CASE ~cfg.on
    <2>1. /\ s \in Seq(DsApiSteps) /\ Len(s) = 5 /\ s # <<>> /\ Head(s) = "reconcile"
          /\ s[1] = "reconcile" /\ s[2] = "save" /\ s[3] = "halt" /\ s[4] = "drain" /\ s[5] = "adopt"
        BY <1>1, <1>3 DEF DsApiSteps, SetConfigSteps
    <2>2. \A i \in 1..Len(s) : i = 1 \/ i = 2 \/ i = 3 \/ i = 4 \/ i = 5 BY <2>1
    <2>3. dsPlan("api", s) BY <2>1, <2>2 DEF dsPlan, dsFollows, DsMayEnd
    <2>4. dsHas(s, "adopt") /\ ~dsHas(s, "control") BY <2>1, <2>2 DEF dsHas
    <2> QED BY <1>1, <2>1, <2>3, <2>4 DEF dsAhead
<1> QED BY <1>2, <1>3

-----------------------------------------------------------------------------
\* The holder of the lock takes its next step, or is given other steps.
dsGoesOn(a) ==
    /\ dsOp.todo # <<>> /\ dsAhead(dsOp.todo) = a
    /\ dsOp.by \in {"api", "supervisor"} /\ a \in (IF dsOp.by = "api" THEN DsApiSteps ELSE DsSupSteps)
    /\ dsOp'.by = dsOp.by /\ dsOp'.cfg = dsOp.cfg
    /\ dsPlan(dsOp.by, dsOp'.todo)
    /\ dsAhead(dsOp'.todo) \in dsFollows(dsOp.by, a) \cup (IF a \in DsMayEnd THEN {"end"} ELSE {})
    /\ \A b : dsHas(dsOp'.todo, b) => dsHas(dsOp.todo, b)
    /\ \A b : b # a /\ dsHas(dsOp.todo, b) => dsHas(dsOp'.todo, b)
    /\ \A b : dsAhead(dsOp'.todo) = b /\ b # "end" => dsHas(dsOp'.todo, b)

LEMMA dsHeads ==
    ASSUME NEW by, NEW s, dsPlan(by, s), s # <<>>
    PROVE  dsHas(s, Head(s)) /\ Head(s) # "end"
<1>1. s \in Seq(IF by = "api" THEN DsApiSteps ELSE DsSupSteps) BY DEF dsPlan
<1>2. 1 \in 1..Len(s) /\ Head(s) = s[1] BY <1>1, HeadTailProperties, EmptySeq
<1>3. s[1] \in (IF by = "api" THEN DsApiSteps ELSE DsSupSteps) BY <1>1, <1>2
<1> QED BY <1>2, <1>3 DEF dsHas, DsApiSteps, DsSupSteps
LEMMA dsContinued ==
    ASSUME dsTypes, NEW a, dsStep(a), NEW r \in 0..DsRuns,
           dsOp' = [by |-> dsOp.by, todo |-> Tail(dsOp.todo), cfg |-> dsOp.cfg, run |-> r]
    PROVE  dsGoesOn(a) /\ dsOp'.run = r
<1>1. dsPlan(dsOp.by, dsOp.todo) /\ dsOp.todo # <<>> /\ Head(dsOp.todo) = a /\ dsOp.by \in {"api", "supervisor"}
    BY DEF dsTypes, dsStep, dsPlan
<1>2. PICK t : t = Tail(dsOp.todo) OBVIOUS
<1>3. dsOp'.todo = t /\ dsOp'.by = dsOp.by /\ dsOp'.cfg = dsOp.cfg /\ dsOp'.run = r BY <1>2
<1>4. /\ a \in (IF dsOp.by = "api" THEN DsApiSteps ELSE DsSupSteps)
      /\ dsPlan(dsOp.by, t) /\ (t = <<>> => a \in DsMayEnd) /\ (t # <<>> => Head(t) \in dsFollows(dsOp.by, a))
      /\ \A b : dsHas(t, b) => dsHas(dsOp.todo, b)
      /\ \A b : b # a /\ dsHas(dsOp.todo, b) => dsHas(t, b)
    BY <1>1, <1>2, dsTails
<1>5. t # <<>> => dsHas(t, Head(t)) /\ Head(t) # "end" BY <1>4, dsHeads
<1> QED BY <1>1, <1>3, <1>4, <1>5 DEF dsGoesOn, dsAhead

-----------------------------------------------------------------------------
LEMMA dsImplies == dsIInv => BindingServed /\ StatsOfCurrent /\ RunIsWhole
<1> SUFFICES ASSUME dsIInv PROVE BindingServed /\ StatsOfCurrent /\ RunIsWhole
    OBVIOUS
<1> USE DEF dsIInv
<1>1. dsIdle => dsOp.todo = <<>> BY DEF dsTypes, dsPlan, dsIdle
<1>2. dsIdle => dsPc = "end" BY <1>1 DEF dsPc, dsAhead
<1>3. BindingServed BY <1>2 DEF dsBinding, BindingServed
<1>4. RunIsWhole
    <2> SUFFICES ASSUME dsIdle
                 PROVE /\ dsFw = dsActive
                       /\ \A r \in 1..DsRuns : dsLst[r] \in {"open", "failing", "failed"} => r = dsActive
                       /\ dsActive # 0 => dsCfg.on /\ dsCtl # 0 /\ dsCfg = dsFile
        BY DEF RunIsWhole
    <2> QED BY <1>2 DEF dsWhole, dsEnabled, dsRunning
<1> QED BY <1>3, <1>4

LEMMA dsInitially == dsInit => dsIInv
<1> SUFFICES ASSUME dsInit PROVE dsIInv
    OBVIOUS
<1>0. dsFile \in DsConfigs /\ dsFile.on = FALSE
    <2>1. (CHOOSE p \in DsPorts : TRUE) \in DsPorts BY DsAssumption
    <2> QED BY <2>1 DEF dsInit, DsConfigs
<1>1. /\ dsCfg = dsFile /\ dsEdited = FALSE /\ dsBound = 0 /\ dsErr = FALSE
      /\ dsCtl = 0 /\ dsActive = 0 /\ dsTold = {} /\ dsFw = 0 /\ dsStat = {} /\ dsMade = 0 /\ dsGens = 0 /\ dsCrash = 0
    BY DEF dsInit
<1>2. \A g \in 1..DsRuns : dsSup[g].at = "gone" /\ dsLst[g] = "none" BY DEF dsInit, dsGone
<1>3. dsOp = [by |-> "none", todo |-> <<>>, cfg |-> dsCfg, run |-> 0] BY DEF dsInit, dsFree
<1>4. dsPlan("none", <<>>) /\ (\A a : ~dsHas(<<>>, a)) /\ dsAhead(<<>>) = "end" BY dsNothing
<1>5. dsOp.by = "none" /\ dsOp.todo = <<>> BY <1>3
<1>6. dsTypes
    <2>1. dsSup \in [1..DsRuns -> DsSupervisors] /\ dsLst \in [1..DsRuns -> {"none", "open", "failing", "failed", "closed"}]
        BY DsAssumption DEF dsInit, dsGone, DsSupervisors
    <2>2. 0 \in 0..DsRuns BY DsAssumption
    <2>3. dsOp \in [by : {"none", "api", "supervisor"}, todo : Seq(DsApiSteps \cup DsSupSteps), cfg : DsConfigs, run : 0..DsRuns]
        <3>1. <<>> \in Seq(DsApiSteps \cup DsSupSteps) OBVIOUS
        <3> QED BY <1>0, <1>1, <1>3, <2>2, <3>1
    <2>5. dsTold \in SUBSET (1..DsRuns) BY <1>1
    <2>7. dsEdited \in BOOLEAN /\ dsErr \in BOOLEAN BY <1>1
    <2>8. dsCtl \in 0..dsGens /\ dsActive \in 0..dsMade BY <1>1
    <2>6. dsPlan(dsOp.by, dsOp.todo) BY <1>4, <1>5
    <2> QED BY <1>0, <1>1, <2>1, <2>2, <2>3, <2>5, <2>6, <2>7, <2>8 DEF dsTypes
<1>7. StatsOfCurrent /\ dsFresh BY <1>1, <1>2 DEF StatsOfCurrent, dsFresh
<1>8. dsPc = "end" BY <1>4, <1>5 DEF dsPc
<1>9. dsWhole /\ dsEnabled /\ dsBinding /\ dsWatch
    BY <1>1, <1>2, <1>4, <1>5, <1>8 DEF dsWhole, dsRunning, dsEnabled, dsBinding, dsWatch, DsStart
<1> QED BY <1>6, <1>7, <1>9 DEF dsIInv

LEMMA dsNumbers ==
    ASSUME dsTypes
    PROVE  /\ DsRuns \in Nat /\ dsMade \in Nat /\ dsGens \in Nat /\ dsMade <= DsRuns /\ dsGens <= DsRuns
           /\ dsActive \in 0..DsRuns /\ dsCtl \in 0..DsRuns /\ dsActive <= dsMade /\ dsCtl <= dsGens
BY DsAssumption DEF dsTypes
\* Listeners of a run are closed, and those of no other run.
LEMMA dsCloses ==
    ASSUME dsTypes, NEW a \in 0..DsRuns, dsLst' = IF a = 0 THEN dsLst ELSE closedOf(a)
    PROVE  /\ dsLst' \in [1..DsRuns -> {"none", "open", "failing", "failed", "closed"}]
           /\ \A r \in 1..DsRuns : dsLst'[r] = IF r = a THEN "closed" ELSE dsLst[r]
<1>1. CASE a = 0 BY <1>1 DEF dsTypes
<1>2. CASE a # 0
    <2>1. dsLst' = [dsLst EXCEPT ![a] = "closed"] BY <1>2 DEF closedOf
    <2> QED BY <2>1 DEF dsTypes
<1> QED BY <1>1, <1>2

\* What the holder of the lock has to do is typed.
LEMMA dsOpTyped ==
    ASSUME dsTypes, NEW by \in {"none", "api", "supervisor"}, NEW s, NEW cfg \in DsConfigs, NEW r \in 0..DsRuns,
           dsPlan(by, s), dsOp' = [by |-> by, todo |-> s, cfg |-> cfg, run |-> r]
    PROVE  /\ dsOp' \in [by : {"none", "api", "supervisor"}, todo : Seq(DsApiSteps \cup DsSupSteps),
                         cfg : DsConfigs, run : 0..DsRuns]
           /\ dsPlan(dsOp'.by, dsOp'.todo) /\ dsOp'.by = by /\ dsOp'.todo = s /\ dsOp'.cfg = cfg /\ dsOp'.run = r
<1>1. s \in Seq(DsApiSteps \cup DsSupSteps)
    <2>1. s \in Seq(DsApiSteps) \/ s \in Seq(DsSupSteps) BY DEF dsPlan
    <2>2. Seq(DsApiSteps) \subseteq Seq(DsApiSteps \cup DsSupSteps) /\ Seq(DsSupSteps) \subseteq Seq(DsApiSteps \cup DsSupSteps)
        OBVIOUS
    <2> QED BY <2>1, <2>2
<1> QED BY <1>1

\* The holder of the lock goes on: where it is then, and what is typed.
LEMMA dsSteps ==
    ASSUME dsTypes, NEW a, dsStep(a), NEW r \in 0..DsRuns, dsOp' = [dsAfter EXCEPT !.run = r]
    PROVE  /\ dsGoesOn(a) /\ dsOp'.run = r
           /\ dsOp' \in [by : {"none", "api", "supervisor"}, todo : Seq(DsApiSteps \cup DsSupSteps),
                         cfg : DsConfigs, run : 0..DsRuns]
           /\ dsPlan(dsOp'.by, dsOp'.todo)
<1>1. dsOp' = [by |-> dsOp.by, todo |-> Tail(dsOp.todo), cfg |-> dsOp.cfg, run |-> r] BY DEF dsTypes, dsAfter
<1>2. dsGoesOn(a) /\ dsOp'.run = r BY <1>1, dsContinued
<1>3. PICK s : s = Tail(dsOp.todo) OBVIOUS
<1>4. dsOp' = [by |-> dsOp.by, todo |-> s, cfg |-> dsOp.cfg, run |-> r] BY <1>1, <1>3
<1>5. dsPlan(dsOp.by, s)
    <2>1. dsOp'.todo = s BY <1>4
    <2> QED BY <1>2, <2>1 DEF dsGoesOn
<1>6. dsOp.by \in {"none", "api", "supervisor"} /\ dsOp.cfg \in DsConfigs BY DEF dsTypes
<1> QED BY <1>2, <1>4, <1>5, <1>6, dsOpTyped
LEMMA dsStepsOn ==
    ASSUME dsTypes, NEW a, dsStep(a), dsOp' = dsAfter
    PROVE  /\ dsGoesOn(a) /\ dsOp'.run = dsOp.run
           /\ dsOp' \in [by : {"none", "api", "supervisor"}, todo : Seq(DsApiSteps \cup DsSupSteps),
                         cfg : DsConfigs, run : 0..DsRuns]
           /\ dsPlan(dsOp'.by, dsOp'.todo)
<1>1. dsOp' = [dsAfter EXCEPT !.run = dsOp.run] /\ dsOp.run \in 0..DsRuns BY DEF dsTypes, dsAfter
<1> QED BY <1>1, dsSteps

\* A start that fails leaves at most the supervisor to be started.
LEMMA dsGivesUp ==
    ASSUME dsTypes, NEW a \in DsStart, dsStep(a), startFailed
    PROVE  /\ dsErr' = TRUE /\ dsAhead(dsOp.todo) = a
           /\ dsOp'.by = dsOp.by /\ dsOp'.cfg = dsOp.cfg /\ dsOp'.run = dsOp.run
           /\ dsAhead(dsOp'.todo) = "end" \/ (dsAhead(dsOp'.todo) = "spawn" /\ dsOp.by = "api")
           /\ dsOp' \in [by : {"none", "api", "supervisor"}, todo : Seq(DsApiSteps \cup DsSupSteps),
                         cfg : DsConfigs, run : 0..DsRuns]
           /\ dsPlan(dsOp'.by, dsOp'.todo) /\ \A b : dsHas(dsOp'.todo, b) => b = "spawn"
<1>1. PICK s : s = IF dsHas(dsOp.todo, "spawn") THEN <<"spawn">> ELSE <<>> OBVIOUS
<1>2. dsOp' = [by |-> dsOp.by, todo |-> s, cfg |-> dsOp.cfg, run |-> dsOp.run] /\ dsErr' = TRUE
    BY <1>1 DEF startFailed, dsWill, dsHas, dsTypes
<1>3. dsOp.by \in {"api", "supervisor"} /\ dsPlan(dsOp.by, dsOp.todo) /\ dsAhead(dsOp.todo) = a
    BY DEF dsTypes, dsStep, dsPlan, dsAhead
<1>4. dsHas(dsOp.todo, "spawn") => dsOp.by = "api"
    <2> SUFFICES ASSUME dsHas(dsOp.todo, "spawn"), dsOp.by # "api" PROVE FALSE
        OBVIOUS
    <2>1. dsOp.todo \in Seq(DsSupSteps) BY DEF dsPlan, dsTypes
    <2> QED BY <2>1 DEF dsHas, DsSupSteps
<1>5. /\ dsPlan(dsOp.by, s) /\ \A b : dsHas(s, b) => b = "spawn"
      /\ dsAhead(s) = "end" \/ (dsAhead(s) = "spawn" /\ dsOp.by = "api")
    <2>1. CASE dsHas(dsOp.todo, "spawn")
        <3>1. s = <<"spawn">> /\ dsOp.by = "api" BY <1>1, <1>4, <2>1
        <3>2. "spawn" \in DsMayEnd /\ "spawn" \in DsApiSteps BY DEF DsMayEnd, DsApiSteps
        <3> QED BY <3>1, <3>2, dsOnes
    <2>2. CASE ~dsHas(dsOp.todo, "spawn")
        <3>1. s = <<>> BY <1>1, <2>2
        <3> QED BY <3>1, dsNothing
    <2> QED BY <2>1, <2>2
<1>6. dsOp.cfg \in DsConfigs /\ dsOp.run \in 0..DsRuns BY DEF dsTypes
<1> QED BY <1>2, <1>3, <1>5, <1>6, dsOpTyped

-----------------------------------------------------------------------------
\* Stopping the server withdraws the run and closes its listeners; the firewall is closed next.
LEMMA dsHalts ==
    ASSUME dsIInv, stopLocked
    PROVE  dsIInv'
<1> USE DEF dsIInv
<1>1. /\ dsStep("halt") /\ dsOp' = [dsAfter EXCEPT !.run = dsActive]
      /\ dsCtl' = 0 /\ dsActive' = 0 /\ dsLst' = IF dsActive = 0 THEN dsLst ELSE closedOf(dsActive)
      /\ dsFile' = dsFile /\ dsCfg' = dsCfg /\ dsEdited' = dsEdited /\ dsBound' = dsBound
      /\ dsErr' = dsErr /\ dsSup' = dsSup /\ dsTold' = dsTold /\ dsFw' = dsFw /\ dsStat' = dsStat
      /\ dsMade' = dsMade /\ dsGens' = dsGens /\ dsCrash' = dsCrash
    BY DEF stopLocked
<1>2. /\ dsAhead(dsOp.todo) = "halt" /\ dsOp.by = "api" /\ dsOp'.by = dsOp.by /\ dsOp'.cfg = dsOp.cfg /\ dsOp'.run = dsActive
      /\ dsAhead(dsOp'.todo) = "drain"
      /\ dsOp' \in [by : {"none", "api", "supervisor"}, todo : Seq(DsApiSteps \cup DsSupSteps),
                  cfg : DsConfigs, run : 0..DsRuns]
      /\ dsPlan(dsOp'.by, dsOp'.todo)
      /\ \A b : dsHas(dsOp'.todo, b) => dsHas(dsOp.todo, b)
      /\ \A b : b # "halt" /\ dsHas(dsOp.todo, b) => dsHas(dsOp'.todo, b)
      /\ \A b : dsAhead(dsOp'.todo) = b /\ b # "end" => dsHas(dsOp'.todo, b)
    <2>1. dsActive \in 0..DsRuns BY <1>1, dsNumbers
    <2> QED BY <1>1, <2>1, dsSteps DEF dsGoesOn, dsFollows, DsMayEnd, DsApiSteps, DsSupSteps
<1>3. /\ dsLst' \in [1..DsRuns -> {"none", "open", "failing", "failed", "closed"}]
      /\ \A r \in 1..DsRuns : dsLst'[r] = IF r = dsActive THEN "closed" ELSE dsLst[r]
    BY <1>1, dsNumbers, dsCloses
<1>20. dsTypes' BY <1>1, <1>2, <1>3 DEF dsTypes
<1>21. StatsOfCurrent' /\ dsFresh' BY <1>1, <1>2, <1>3 DEF StatsOfCurrent, dsFresh, dsTypes, dsWhole, dsRunning
<1>22. dsWhole' BY <1>1, <1>2, <1>3 DEF dsWhole, dsRunning, dsPc, DsStart, dsTypes
<1>23. dsEnabled' BY <1>1, <1>2 DEF dsEnabled, dsPc, DsStart, dsTypes
<1>24. dsBinding' BY <1>1, <1>2 DEF dsBinding, dsPc, Served
<1>25. dsWatch' BY <1>1, <1>2 DEF dsWatch, dsPc, DsStart, dsTypes
<1> QED BY <1>20, <1>21, <1>22, <1>23, <1>24, <1>25
\* The supervisor stops the run that failed.
LEMMA dsStopsRun ==
    ASSUME dsIInv, stopRunLocked
    PROVE  dsIInv'
<1> USE DEF dsIInv
<1>1. /\ dsStep("stopRun") /\ dsOp' = [dsAfter EXCEPT !.run = dsActive]
      /\ dsErr' = TRUE /\ dsActive' = 0 /\ dsLst' = IF dsActive = 0 THEN dsLst ELSE closedOf(dsActive)
      /\ dsFile' = dsFile /\ dsCfg' = dsCfg /\ dsEdited' = dsEdited /\ dsBound' = dsBound
      /\ dsCtl' = dsCtl /\ dsSup' = dsSup /\ dsTold' = dsTold /\ dsFw' = dsFw /\ dsStat' = dsStat
      /\ dsMade' = dsMade /\ dsGens' = dsGens /\ dsCrash' = dsCrash
    BY DEF stopRunLocked
<1>2. /\ dsAhead(dsOp.todo) = "stopRun" /\ dsOp.by = "supervisor" /\ dsOp'.by = dsOp.by /\ dsOp'.cfg = dsOp.cfg /\ dsOp'.run = dsActive
      /\ dsAhead(dsOp'.todo) = "drain"
      /\ dsOp' \in [by : {"none", "api", "supervisor"}, todo : Seq(DsApiSteps \cup DsSupSteps),
                  cfg : DsConfigs, run : 0..DsRuns]
      /\ dsPlan(dsOp'.by, dsOp'.todo)
      /\ \A b : dsHas(dsOp'.todo, b) => dsHas(dsOp.todo, b)
      /\ \A b : b # "stopRun" /\ dsHas(dsOp.todo, b) => dsHas(dsOp'.todo, b)
      /\ \A b : dsAhead(dsOp'.todo) = b /\ b # "end" => dsHas(dsOp'.todo, b)
    <2>1. dsActive \in 0..DsRuns BY <1>1, dsNumbers
    <2> QED BY <1>1, <2>1, dsSteps DEF dsGoesOn, dsFollows, DsMayEnd, DsApiSteps, DsSupSteps
<1>3. /\ dsLst' \in [1..DsRuns -> {"none", "open", "failing", "failed", "closed"}]
      /\ \A r \in 1..DsRuns : dsLst'[r] = IF r = dsActive THEN "closed" ELSE dsLst[r]
    BY <1>1, dsNumbers, dsCloses
<1>20. dsTypes' BY <1>1, <1>2, <1>3 DEF dsTypes
<1>21. StatsOfCurrent' /\ dsFresh' BY <1>1, <1>2, <1>3 DEF StatsOfCurrent, dsFresh, dsTypes, dsWhole, dsRunning
<1>22. dsWhole' BY <1>1, <1>2, <1>3 DEF dsWhole, dsRunning, dsPc, DsStart, dsTypes
<1>23. dsEnabled' BY <1>1, <1>2 DEF dsEnabled, dsPc, DsStart, dsTypes
<1>24. dsBinding' BY <1>1, <1>2 DEF dsBinding, dsPc, Served
<1>25. dsWatch' BY <1>1, <1>2 DEF dsWatch, dsPc, DsStart, dsTypes
<1> QED BY <1>20, <1>21, <1>22, <1>23, <1>24, <1>25
\* The requests of the run have ended, and the firewall is closed.
LEMMA dsDrains ==
    ASSUME dsIInv, drainRun
    PROVE  dsIInv'
<1> USE DEF dsIInv
<1>1. /\ dsStep("drain") /\ dsOp' = dsAfter
      /\ dsFw' = 0
      /\ dsFile' = dsFile /\ dsCfg' = dsCfg /\ dsEdited' = dsEdited /\ dsBound' = dsBound
      /\ dsErr' = dsErr /\ dsCtl' = dsCtl /\ dsSup' = dsSup /\ dsActive' = dsActive
      /\ dsLst' = dsLst /\ dsTold' = dsTold /\ dsStat' = dsStat /\ dsMade' = dsMade
      /\ dsGens' = dsGens /\ dsCrash' = dsCrash
    BY DEF drainRun
<1>2. /\ dsAhead(dsOp.todo) = "drain" /\ dsOp'.by = dsOp.by /\ dsOp'.cfg = dsOp.cfg /\ dsOp'.run = dsOp.run
      /\ (dsAhead(dsOp'.todo) = "adopt" /\ dsOp.by = "api") \/ (dsAhead(dsOp'.todo) = "reconcileRun" /\ dsOp.by = "supervisor") \/ dsAhead(dsOp'.todo) = "end"
      /\ dsOp' \in [by : {"none", "api", "supervisor"}, todo : Seq(DsApiSteps \cup DsSupSteps),
                  cfg : DsConfigs, run : 0..DsRuns]
      /\ dsPlan(dsOp'.by, dsOp'.todo)
      /\ \A b : dsHas(dsOp'.todo, b) => dsHas(dsOp.todo, b)
      /\ \A b : b # "drain" /\ dsHas(dsOp.todo, b) => dsHas(dsOp'.todo, b)
      /\ \A b : dsAhead(dsOp'.todo) = b /\ b # "end" => dsHas(dsOp'.todo, b)
    BY <1>1, dsStepsOn DEF dsGoesOn, dsFollows, DsMayEnd, DsApiSteps, DsSupSteps
<1>20. dsTypes' BY <1>1, <1>2 DEF dsTypes
<1>21. StatsOfCurrent' /\ dsFresh' BY <1>1, <1>2 DEF StatsOfCurrent, dsFresh
<1>22. dsWhole' BY <1>1, <1>2 DEF dsWhole, dsRunning, dsPc, DsStart
<1>23. dsEnabled' BY <1>1, <1>2 DEF dsEnabled, dsPc, DsStart, dsTypes, dsWatch
<1>24. dsBinding' BY <1>1, <1>2 DEF dsBinding, dsPc, Served
<1>25. dsWatch' BY <1>1, <1>2 DEF dsWatch, dsPc, DsStart
<1> QED BY <1>20, <1>21, <1>22, <1>23, <1>24, <1>25
\* The saved configuration is taken over while nothing runs.
LEMMA dsAdopts ==
    ASSUME dsIInv, adoptConfig
    PROVE  dsIInv'
<1> USE DEF dsIInv
<1>1. /\ dsStep("adopt") /\ dsOp' = dsAfter
      /\ dsCfg' = dsOp.cfg /\ dsErr' = FALSE
      /\ dsFile' = dsFile /\ dsEdited' = dsEdited /\ dsBound' = dsBound /\ dsCtl' = dsCtl
      /\ dsSup' = dsSup /\ dsActive' = dsActive /\ dsLst' = dsLst /\ dsTold' = dsTold
      /\ dsFw' = dsFw /\ dsStat' = dsStat /\ dsMade' = dsMade /\ dsGens' = dsGens
      /\ dsCrash' = dsCrash
    BY DEF adoptConfig
<1>2. /\ dsAhead(dsOp.todo) = "adopt" /\ dsOp.by = "api" /\ dsOp'.by = dsOp.by /\ dsOp'.cfg = dsOp.cfg /\ dsOp'.run = dsOp.run
      /\ dsAhead(dsOp'.todo) = "control" \/ dsAhead(dsOp'.todo) = "end"
      /\ dsOp' \in [by : {"none", "api", "supervisor"}, todo : Seq(DsApiSteps \cup DsSupSteps),
                  cfg : DsConfigs, run : 0..DsRuns]
      /\ dsPlan(dsOp'.by, dsOp'.todo)
      /\ \A b : dsHas(dsOp'.todo, b) => dsHas(dsOp.todo, b)
      /\ \A b : b # "adopt" /\ dsHas(dsOp.todo, b) => dsHas(dsOp'.todo, b)
      /\ \A b : dsAhead(dsOp'.todo) = b /\ b # "end" => dsHas(dsOp'.todo, b)
    BY <1>1, dsStepsOn DEF dsGoesOn, dsFollows, DsMayEnd, DsApiSteps, DsSupSteps
<1>3. dsHas(dsOp.todo, "adopt")
    <2>1. dsOp.todo # <<>> /\ dsPlan(dsOp.by, dsOp.todo) /\ Head(dsOp.todo) = "adopt" BY <1>1 DEF dsTypes, dsStep
    <2> QED BY <2>1, dsHeads
<1>4. dsFile = dsOp.cfg BY <1>2, <1>3 DEF dsEnabled, dsPc
<1>20. dsTypes' BY <1>1, <1>2 DEF dsTypes
<1>21. StatsOfCurrent' /\ dsFresh' BY <1>1, <1>2 DEF StatsOfCurrent, dsFresh
<1>22. dsWhole' BY <1>1, <1>2 DEF dsWhole, dsRunning, dsPc, DsStart
<1>23. dsEnabled' BY <1>1, <1>2, <1>3, <1>4 DEF dsEnabled, dsPc, DsStart, dsTypes
<1>24. dsBinding' BY <1>1, <1>2, <1>3, <1>4 DEF dsBinding, dsPc, Served
<1>25. dsWatch' BY <1>1, <1>2 DEF dsWatch, dsPc, DsStart
<1> QED BY <1>20, <1>21, <1>22, <1>23, <1>24, <1>25
\* The lock is given back by who has nothing left to do, or fails before it has changed the run.
LEMMA dsGivesBack ==
    ASSUME dsIInv, dsPc \in {"end", "reconcile", "save", "reconcileBoot"}, dsErr' = dsErr \/ dsErr' = TRUE,
           dsPc = "reconcileBoot" => dsErr' = TRUE,
           UNCHANGED <<dsFile, dsCfg, dsEdited, dsBound, dsCtl, dsSup, dsActive, dsLst, dsTold, dsFw, dsStat, dsMade, dsGens, dsCrash>>,
           dsOp' = dsFree
    PROVE  dsIInv'
<1> USE DEF dsIInv
<1>1. /\ dsOp' = [by |-> "none", todo |-> <<>>, cfg |-> dsCfg, run |-> 0]
      /\ dsFile' = dsFile /\ dsCfg' = dsCfg /\ dsEdited' = dsEdited /\ dsBound' = dsBound
      /\ dsCtl' = dsCtl /\ dsSup' = dsSup /\ dsActive' = dsActive /\ dsLst' = dsLst
      /\ dsTold' = dsTold /\ dsFw' = dsFw /\ dsStat' = dsStat /\ dsMade' = dsMade
      /\ dsGens' = dsGens /\ dsCrash' = dsCrash
    BY DEF dsFree, dsWorld
<1>2. /\ dsOp'.by = "none" /\ dsOp'.todo = <<>> /\ dsAhead(dsOp'.todo) = "end"
      /\ (\A b : ~dsHas(dsOp'.todo, b)) /\ dsPlan(dsOp'.by, dsOp'.todo)
      /\ dsOp' \in [by : {"none", "api", "supervisor"}, todo : Seq(DsApiSteps \cup DsSupSteps),
                  cfg : DsConfigs, run : 0..DsRuns]
    <2>1. dsPlan("none", <<>>) /\ 0 \in 0..DsRuns /\ dsCfg \in DsConfigs BY dsNothing, dsNumbers DEF dsTypes
    <2>2. PICK s : s = <<>> OBVIOUS
    <2>3. dsOp' = [by |-> "none", todo |-> s, cfg |-> dsCfg, run |-> 0] /\ dsPlan("none", s) BY <1>1, <2>1, <2>2
    <2> QED BY <2>1, <2>2, <2>3, dsOpTyped, dsNothing
<1>20. dsTypes' BY <1>1, <1>2 DEF dsTypes
<1>21. StatsOfCurrent' /\ dsFresh' BY <1>1, <1>2 DEF StatsOfCurrent, dsFresh
<1>22. dsWhole' BY <1>1, <1>2 DEF dsWhole, dsRunning, dsPc, DsStart
<1>23. dsEnabled' BY <1>1, <1>2 DEF dsEnabled, dsPc, DsStart, dsTypes
<1>24. dsBinding' BY <1>1, <1>2 DEF dsBinding, dsPc, Served
<1>25. dsWatch' BY <1>1, <1>2 DEF dsWatch, dsPc, DsStart
<1> QED BY <1>20, <1>21, <1>22, <1>23, <1>24, <1>25
\* The configuration is written: the binding was compared with it before.
LEMMA dsSaves ==
    ASSUME dsIInv, dsFile' = dsOp.cfg, dsEdited' = FALSE,
           UNCHANGED <<dsCfg, dsBound, dsErr, dsCtl, dsSup, dsActive, dsLst, dsTold, dsFw, dsStat, dsMade, dsGens, dsCrash>>,
           dsStep("save"), dsOp' = dsAfter
    PROVE  dsIInv'
<1> USE DEF dsIInv
<1>1. /\ dsStep("save") /\ dsOp' = dsAfter
      /\ dsFile' = dsOp.cfg /\ dsEdited' = FALSE
      /\ dsCfg' = dsCfg /\ dsBound' = dsBound /\ dsErr' = dsErr /\ dsCtl' = dsCtl
      /\ dsSup' = dsSup /\ dsActive' = dsActive /\ dsLst' = dsLst /\ dsTold' = dsTold
      /\ dsFw' = dsFw /\ dsStat' = dsStat /\ dsMade' = dsMade /\ dsGens' = dsGens
      /\ dsCrash' = dsCrash
    BY DEF dsAfter
<1>2. /\ dsAhead(dsOp.todo) = "save" /\ dsOp.by = "api" /\ dsOp'.by = dsOp.by /\ dsOp'.cfg = dsOp.cfg /\ dsOp'.run = dsOp.run
      /\ dsAhead(dsOp'.todo) = "halt"
      /\ dsOp' \in [by : {"none", "api", "supervisor"}, todo : Seq(DsApiSteps \cup DsSupSteps),
                  cfg : DsConfigs, run : 0..DsRuns]
      /\ dsPlan(dsOp'.by, dsOp'.todo)
      /\ \A b : dsHas(dsOp'.todo, b) => dsHas(dsOp.todo, b)
      /\ \A b : b # "save" /\ dsHas(dsOp.todo, b) => dsHas(dsOp'.todo, b)
      /\ \A b : dsAhead(dsOp'.todo) = b /\ b # "end" => dsHas(dsOp'.todo, b)
    BY <1>1, dsStepsOn DEF dsGoesOn, dsFollows, DsMayEnd, DsApiSteps, DsSupSteps
<1>20. dsTypes' BY <1>1, <1>2 DEF dsTypes, dsTypes
<1>21. StatsOfCurrent' /\ dsFresh' BY <1>1, <1>2 DEF StatsOfCurrent, dsFresh
<1>22. dsWhole' BY <1>1, <1>2 DEF dsWhole, dsRunning, dsPc, DsStart
<1>23. dsEnabled' BY <1>1, <1>2 DEF dsEnabled, dsPc, DsStart, dsTypes
<1>24. dsBinding' BY <1>1, <1>2 DEF dsBinding, dsPc, Served, dsEnabled
<1>25. dsWatch' BY <1>1, <1>2 DEF dsWatch, dsPc, DsStart
<1> QED BY <1>20, <1>21, <1>22, <1>23, <1>24, <1>25
\* The binding is compared with the configuration that is about to be saved.
LEMMA dsReconciles ==
    ASSUME dsIInv, dsOp' = dsAfter, dsEdited' = (dsEdited /\ dsOp.cfg # dsFile),
           dsBound' = IF Served(dsOp.cfg) THEN dsBound ELSE 0,
           UNCHANGED <<dsFile, dsCfg, dsErr, dsCtl, dsSup, dsActive, dsLst, dsTold, dsFw, dsStat, dsMade, dsGens, dsCrash>>,
           dsStep("reconcile")
    PROVE  dsIInv'
<1> USE DEF dsIInv
<1>1. /\ dsStep("reconcile") /\ dsOp' = dsAfter
      /\ dsEdited' = (dsEdited /\ dsOp.cfg # dsFile)
      /\ dsBound' = 0 \/ (dsBound' = dsBound /\ Served(dsOp.cfg))
      /\ dsFile' = dsFile /\ dsCfg' = dsCfg /\ dsErr' = dsErr /\ dsCtl' = dsCtl /\ dsSup' = dsSup
      /\ dsActive' = dsActive /\ dsLst' = dsLst /\ dsTold' = dsTold /\ dsFw' = dsFw
      /\ dsStat' = dsStat /\ dsMade' = dsMade /\ dsGens' = dsGens /\ dsCrash' = dsCrash
    BY DEF Served, dsAfter
<1>2. /\ dsAhead(dsOp.todo) = "reconcile" /\ dsOp.by = "api" /\ dsOp'.by = dsOp.by /\ dsOp'.cfg = dsOp.cfg /\ dsOp'.run = dsOp.run
      /\ dsAhead(dsOp'.todo) = "save"
      /\ dsOp' \in [by : {"none", "api", "supervisor"}, todo : Seq(DsApiSteps \cup DsSupSteps),
                  cfg : DsConfigs, run : 0..DsRuns]
      /\ dsPlan(dsOp'.by, dsOp'.todo)
      /\ \A b : dsHas(dsOp'.todo, b) => dsHas(dsOp.todo, b)
      /\ \A b : b # "reconcile" /\ dsHas(dsOp.todo, b) => dsHas(dsOp'.todo, b)
      /\ \A b : dsAhead(dsOp'.todo) = b /\ b # "end" => dsHas(dsOp'.todo, b)
    BY <1>1, dsStepsOn DEF dsGoesOn, dsFollows, DsMayEnd, DsApiSteps, DsSupSteps
<1>3. dsEdited' \in BOOLEAN BY <1>1
<1>4. dsBound' \in {0} \cup DsPorts BY <1>1 DEF dsTypes
<1>20. dsTypes' BY <1>1, <1>2, <1>3, <1>4 DEF dsTypes
<1>21. StatsOfCurrent' /\ dsFresh' BY <1>1, <1>2 DEF StatsOfCurrent, dsFresh
<1>22. dsWhole' BY <1>1, <1>2 DEF dsWhole, dsRunning, dsPc, DsStart
<1>23. dsEnabled' BY <1>1, <1>2 DEF dsEnabled, dsPc, DsStart, dsTypes
<1>24. dsBinding' BY <1>1, <1>2 DEF dsBinding, dsPc, Served, dsTypes
<1>25. dsWatch' BY <1>1, <1>2 DEF dsWatch, dsPc, DsStart
<1> QED BY <1>20, <1>21, <1>22, <1>23, <1>24, <1>25
\* The binding is compared with a configuration that starts switched off.
LEMMA dsReconcilesAtBoot ==
    ASSUME dsIInv, dsOp' = dsAfter, dsEdited' = (dsEdited /\ dsCfg # dsFile),
           dsBound' = IF Served(dsCfg) THEN dsBound ELSE 0,
           UNCHANGED <<dsFile, dsCfg, dsErr, dsCtl, dsSup, dsActive, dsLst, dsTold, dsFw, dsStat, dsMade, dsGens, dsCrash>>,
           dsStep("reconcileBoot")
    PROVE  dsIInv'
<1> USE DEF dsIInv
<1>1. /\ dsStep("reconcileBoot") /\ dsOp' = dsAfter
      /\ dsEdited' = (dsEdited /\ dsCfg # dsFile)
      /\ dsBound' = 0 \/ (dsBound' = dsBound /\ Served(dsCfg))
      /\ dsFile' = dsFile /\ dsCfg' = dsCfg /\ dsErr' = dsErr /\ dsCtl' = dsCtl /\ dsSup' = dsSup
      /\ dsActive' = dsActive /\ dsLst' = dsLst /\ dsTold' = dsTold /\ dsFw' = dsFw
      /\ dsStat' = dsStat /\ dsMade' = dsMade /\ dsGens' = dsGens /\ dsCrash' = dsCrash
    BY DEF Served, dsAfter
<1>2. /\ dsAhead(dsOp.todo) = "reconcileBoot" /\ dsOp.by = "api" /\ dsOp'.by = dsOp.by /\ dsOp'.cfg = dsOp.cfg /\ dsOp'.run = dsOp.run
      /\ dsAhead(dsOp'.todo) = "end"
      /\ dsOp' \in [by : {"none", "api", "supervisor"}, todo : Seq(DsApiSteps \cup DsSupSteps),
                  cfg : DsConfigs, run : 0..DsRuns]
      /\ dsPlan(dsOp'.by, dsOp'.todo)
      /\ \A b : dsHas(dsOp'.todo, b) => dsHas(dsOp.todo, b)
      /\ \A b : b # "reconcileBoot" /\ dsHas(dsOp.todo, b) => dsHas(dsOp'.todo, b)
      /\ \A b : dsAhead(dsOp'.todo) = b /\ b # "end" => dsHas(dsOp'.todo, b)
    BY <1>1, dsStepsOn DEF dsGoesOn, dsFollows, DsMayEnd, DsApiSteps, DsSupSteps
<1>3. dsEdited' \in BOOLEAN BY <1>1
<1>4. dsBound' \in {0} \cup DsPorts BY <1>1 DEF dsTypes
<1>20. dsTypes' BY <1>1, <1>2, <1>3, <1>4 DEF dsTypes
<1>21. StatsOfCurrent' /\ dsFresh' BY <1>1, <1>2 DEF StatsOfCurrent, dsFresh
<1>22. dsWhole' BY <1>1, <1>2 DEF dsWhole, dsRunning, dsPc, DsStart
<1>23. dsEnabled' BY <1>1, <1>2 DEF dsEnabled, dsPc, DsStart, dsTypes
<1>24. dsBinding' BY <1>1, <1>2 DEF dsBinding, dsPc, Served, dsTypes, dsEnabled
<1>25. dsWatch' BY <1>1, <1>2 DEF dsWatch, dsPc, DsStart
<1> QED BY <1>20, <1>21, <1>22, <1>23, <1>24, <1>25
\* The binding is compared with the configuration that a run starts with.
LEMMA dsReconcilesRun ==
    ASSUME dsIInv, dsOp' = dsAfter, dsEdited' = (dsEdited /\ dsCfg # dsFile),
           dsBound' = IF Served(dsCfg) THEN dsBound ELSE 0,
           UNCHANGED <<dsFile, dsCfg, dsErr, dsCtl, dsSup, dsActive, dsLst, dsTold, dsFw, dsStat, dsMade, dsGens, dsCrash>>,
           dsStep("reconcileRun")
    PROVE  dsIInv'
<1> USE DEF dsIInv
<1>1. /\ dsStep("reconcileRun") /\ dsOp' = dsAfter
      /\ dsEdited' = (dsEdited /\ dsCfg # dsFile)
      /\ dsBound' = 0 \/ (dsBound' = dsBound /\ Served(dsCfg))
      /\ dsFile' = dsFile /\ dsCfg' = dsCfg /\ dsErr' = dsErr /\ dsCtl' = dsCtl /\ dsSup' = dsSup
      /\ dsActive' = dsActive /\ dsLst' = dsLst /\ dsTold' = dsTold /\ dsFw' = dsFw
      /\ dsStat' = dsStat /\ dsMade' = dsMade /\ dsGens' = dsGens /\ dsCrash' = dsCrash
    BY DEF Served, dsAfter
<1>2. /\ dsAhead(dsOp.todo) = "reconcileRun" /\ dsOp'.by = dsOp.by /\ dsOp'.cfg = dsOp.cfg /\ dsOp'.run = dsOp.run
      /\ dsAhead(dsOp'.todo) = "listen"
      /\ dsOp' \in [by : {"none", "api", "supervisor"}, todo : Seq(DsApiSteps \cup DsSupSteps),
                  cfg : DsConfigs, run : 0..DsRuns]
      /\ dsPlan(dsOp'.by, dsOp'.todo)
      /\ \A b : dsHas(dsOp'.todo, b) => dsHas(dsOp.todo, b)
      /\ \A b : b # "reconcileRun" /\ dsHas(dsOp.todo, b) => dsHas(dsOp'.todo, b)
      /\ \A b : dsAhead(dsOp'.todo) = b /\ b # "end" => dsHas(dsOp'.todo, b)
    BY <1>1, dsStepsOn DEF dsGoesOn, dsFollows, DsMayEnd, DsApiSteps, DsSupSteps
<1>3. dsEdited' \in BOOLEAN BY <1>1
<1>4. dsBound' \in {0} \cup DsPorts BY <1>1 DEF dsTypes
<1>20. dsTypes' BY <1>1, <1>2, <1>3, <1>4 DEF dsTypes
<1>21. StatsOfCurrent' /\ dsFresh' BY <1>1, <1>2 DEF StatsOfCurrent, dsFresh
<1>22. dsWhole' BY <1>1, <1>2 DEF dsWhole, dsRunning, dsPc, DsStart
<1>23. dsEnabled' BY <1>1, <1>2 DEF dsEnabled, dsPc, DsStart, dsTypes
<1>24. dsBinding' BY <1>1, <1>2 DEF dsBinding, dsPc, Served, dsTypes, dsEnabled, DsStart
<1>25. dsWatch' BY <1>1, <1>2 DEF dsWatch, dsPc, DsStart
<1> QED BY <1>20, <1>21, <1>22, <1>23, <1>24, <1>25
\* A generation is started: it has no supervisor yet.
LEMMA dsStartsControl ==
    ASSUME dsIInv, startControlLocked
    PROVE  dsIInv'
<1> USE DEF dsIInv
<1>1. /\ dsStep("control") /\ dsOp' = dsAfter
      /\ dsGens < DsRuns /\ dsGens' = dsGens + 1 /\ dsCtl' = dsGens + 1
      /\ dsFile' = dsFile /\ dsCfg' = dsCfg /\ dsEdited' = dsEdited /\ dsBound' = dsBound
      /\ dsErr' = dsErr /\ dsSup' = dsSup /\ dsActive' = dsActive /\ dsLst' = dsLst
      /\ dsTold' = dsTold /\ dsFw' = dsFw /\ dsStat' = dsStat /\ dsMade' = dsMade
      /\ dsCrash' = dsCrash
    BY DEF startControlLocked
<1>2. /\ dsAhead(dsOp.todo) = "control" /\ dsOp.by = "api" /\ dsOp'.by = dsOp.by /\ dsOp'.cfg = dsOp.cfg /\ dsOp'.run = dsOp.run
      /\ dsAhead(dsOp'.todo) = "reconcileRun"
      /\ dsOp' \in [by : {"none", "api", "supervisor"}, todo : Seq(DsApiSteps \cup DsSupSteps),
                  cfg : DsConfigs, run : 0..DsRuns]
      /\ dsPlan(dsOp'.by, dsOp'.todo)
      /\ \A b : dsHas(dsOp'.todo, b) => dsHas(dsOp.todo, b)
      /\ \A b : b # "control" /\ dsHas(dsOp.todo, b) => dsHas(dsOp'.todo, b)
      /\ \A b : dsAhead(dsOp'.todo) = b /\ b # "end" => dsHas(dsOp'.todo, b)
    BY <1>1, dsStepsOn DEF dsGoesOn, dsFollows, DsMayEnd, DsApiSteps, DsSupSteps
<1>3. dsGens + 1 \in 1..DsRuns /\ dsGens \in Nat BY <1>1, dsNumbers
<1>4. dsSup[dsGens + 1].at = "gone" BY <1>3 DEF dsFresh
<1>20. dsTypes' BY <1>1, <1>2, <1>3 DEF dsTypes, dsTypes
<1>21. StatsOfCurrent' /\ dsFresh' BY <1>1, <1>2, <1>3 DEF StatsOfCurrent, dsFresh, dsTypes
<1>22. dsWhole' BY <1>1, <1>2, <1>3 DEF dsWhole, dsRunning, dsPc, DsStart
<1>23. dsEnabled' BY <1>1, <1>2, <1>3 DEF dsEnabled, dsPc, DsStart, dsTypes
<1>24. dsBinding' BY <1>1, <1>2 DEF dsBinding, dsPc, Served
<1>25. dsWatch' BY <1>1, <1>2, <1>3, <1>4 DEF dsWatch, dsPc, DsStart
<1> QED BY <1>20, <1>21, <1>22, <1>23, <1>24, <1>25
\* The supervisor of the generation is started last.
LEMMA dsSpawns ==
    ASSUME dsIInv, spawnSupervisor
    PROVE  dsIInv'
<1> USE DEF dsIInv
<1>1. /\ dsStep("spawn") /\ dsOp' = dsAfter
      /\ dsSup' = [dsSup EXCEPT ![dsCtl].at = "read"]
      /\ dsFile' = dsFile /\ dsCfg' = dsCfg /\ dsEdited' = dsEdited /\ dsBound' = dsBound
      /\ dsErr' = dsErr /\ dsCtl' = dsCtl /\ dsActive' = dsActive /\ dsLst' = dsLst
      /\ dsTold' = dsTold /\ dsFw' = dsFw /\ dsStat' = dsStat /\ dsMade' = dsMade
      /\ dsGens' = dsGens /\ dsCrash' = dsCrash
    BY DEF spawnSupervisor, dsWorld
<1>2. /\ dsAhead(dsOp.todo) = "spawn" /\ dsOp.by = "api" /\ dsOp'.by = dsOp.by /\ dsOp'.cfg = dsOp.cfg /\ dsOp'.run = dsOp.run
      /\ dsAhead(dsOp'.todo) = "end"
      /\ dsOp' \in [by : {"none", "api", "supervisor"}, todo : Seq(DsApiSteps \cup DsSupSteps),
                  cfg : DsConfigs, run : 0..DsRuns]
      /\ dsPlan(dsOp'.by, dsOp'.todo)
      /\ \A b : dsHas(dsOp'.todo, b) => dsHas(dsOp.todo, b)
      /\ \A b : b # "spawn" /\ dsHas(dsOp.todo, b) => dsHas(dsOp'.todo, b)
      /\ \A b : dsAhead(dsOp'.todo) = b /\ b # "end" => dsHas(dsOp'.todo, b)
    BY <1>1, dsStepsOn DEF dsGoesOn, dsFollows, DsMayEnd, DsApiSteps, DsSupSteps
<1>3. dsCtl \in 1..DsRuns /\ dsCtl <= dsGens /\ dsGens \in Nat BY <1>2, dsNumbers DEF dsEnabled, dsPc
<1>4. /\ dsSup' \in [1..DsRuns -> DsSupervisors] /\ dsSup'[dsCtl].at = "read"
      /\ \A g \in 1..DsRuns : g # dsCtl => dsSup'[g] = dsSup[g]
    BY <1>1, <1>3 DEF dsTypes, DsSupervisors
<1>20. dsTypes' BY <1>1, <1>2, <1>4 DEF dsTypes, dsTypes
<1>21. StatsOfCurrent' /\ dsFresh' BY <1>1, <1>2, <1>3, <1>4 DEF StatsOfCurrent, dsFresh
<1>22. dsWhole' BY <1>1, <1>2 DEF dsWhole, dsRunning, dsPc, DsStart
<1>23. dsEnabled' BY <1>1, <1>2 DEF dsEnabled, dsPc, DsStart
<1>24. dsBinding' BY <1>1, <1>2 DEF dsBinding, dsPc, Served
<1>25. dsWatch' BY <1>1, <1>2, <1>3, <1>4 DEF dsWatch, dsPc, DsStart
<1> QED BY <1>20, <1>21, <1>22, <1>23, <1>24, <1>25
\* The listeners of a new run.
LEMMA dsListens ==
    ASSUME dsIInv, dsMade < DsRuns, dsMade' = dsMade + 1, dsLst' = [dsLst EXCEPT ![dsMade'] = "open"],
           UNCHANGED <<dsFile, dsCfg, dsEdited, dsBound, dsErr, dsCtl, dsSup, dsActive, dsTold, dsFw, dsStat, dsGens, dsCrash>>,
           dsStep("listen"), dsOp' = [dsAfter EXCEPT !.run = dsMade']
    PROVE  dsIInv'
<1> USE DEF dsIInv
<1>1. /\ dsStep("listen") /\ dsOp' = [dsAfter EXCEPT !.run = dsMade + 1]
      /\ dsMade < DsRuns /\ dsMade' = dsMade + 1 /\ dsLst' = [dsLst EXCEPT ![dsMade + 1] = "open"]
      /\ dsFile' = dsFile /\ dsCfg' = dsCfg /\ dsEdited' = dsEdited /\ dsBound' = dsBound
      /\ dsErr' = dsErr /\ dsCtl' = dsCtl /\ dsSup' = dsSup /\ dsActive' = dsActive
      /\ dsTold' = dsTold /\ dsFw' = dsFw /\ dsStat' = dsStat /\ dsGens' = dsGens
      /\ dsCrash' = dsCrash
    BY DEF dsAfter
<1>2. /\ dsAhead(dsOp.todo) = "listen" /\ dsOp'.by = dsOp.by /\ dsOp'.cfg = dsOp.cfg /\ dsOp'.run = dsMade + 1
      /\ dsAhead(dsOp'.todo) = "prepare"
      /\ dsOp' \in [by : {"none", "api", "supervisor"}, todo : Seq(DsApiSteps \cup DsSupSteps),
                  cfg : DsConfigs, run : 0..DsRuns]
      /\ dsPlan(dsOp'.by, dsOp'.todo)
      /\ \A b : dsHas(dsOp'.todo, b) => dsHas(dsOp.todo, b)
      /\ \A b : b # "listen" /\ dsHas(dsOp.todo, b) => dsHas(dsOp'.todo, b)
      /\ \A b : dsAhead(dsOp'.todo) = b /\ b # "end" => dsHas(dsOp'.todo, b)
    <2>1. dsMade + 1 \in 0..DsRuns BY <1>1, dsNumbers
    <2> QED BY <1>1, <2>1, dsSteps DEF dsGoesOn, dsFollows, DsMayEnd, DsApiSteps, DsSupSteps
<1>3. dsMade + 1 \in 1..DsRuns /\ dsMade \in Nat BY <1>1, dsNumbers
<1>4. /\ dsLst' \in [1..DsRuns -> {"none", "open", "failing", "failed", "closed"}]
      /\ \A r \in 1..DsRuns : dsLst'[r] = IF r = dsMade + 1 THEN "open" ELSE dsLst[r]
    BY <1>1, <1>3 DEF dsTypes
<1>5. dsActive # dsMade + 1 /\ dsLst[dsMade + 1] = "none" BY <1>3, dsNumbers DEF dsFresh
<1>20. dsTypes' BY <1>1, <1>2, <1>3, <1>4 DEF dsTypes, dsTypes
<1>21. StatsOfCurrent' /\ dsFresh' BY <1>1, <1>2, <1>3, <1>4, <1>5 DEF StatsOfCurrent, dsFresh, dsTypes
<1>22. dsWhole' BY <1>1, <1>2, <1>3, <1>4, <1>5 DEF dsWhole, dsRunning, dsPc, DsStart, dsTypes
<1>23. dsEnabled' BY <1>1, <1>2 DEF dsEnabled, dsPc, DsStart
<1>24. dsBinding' BY <1>1, <1>2 DEF dsBinding, dsPc, Served
<1>25. dsWatch' BY <1>1, <1>2, <1>3, <1>4, <1>5 DEF dsWatch, dsPc, DsStart, dsTypes
<1> QED BY <1>20, <1>21, <1>22, <1>23, <1>24, <1>25
\* The firewall is opened for the run before it is published.
LEMMA dsPrepares ==
    ASSUME dsIInv, dsFw' = dsOp.run,
           UNCHANGED <<dsFile, dsCfg, dsEdited, dsBound, dsErr, dsCtl, dsSup, dsActive, dsLst, dsTold, dsStat, dsMade, dsGens, dsCrash>>,
           dsStep("prepare"), dsOp' = dsAfter
    PROVE  dsIInv'
<1> USE DEF dsIInv
<1>1. /\ dsStep("prepare") /\ dsOp' = dsAfter
      /\ dsFw' = dsOp.run
      /\ dsFile' = dsFile /\ dsCfg' = dsCfg /\ dsEdited' = dsEdited /\ dsBound' = dsBound
      /\ dsErr' = dsErr /\ dsCtl' = dsCtl /\ dsSup' = dsSup /\ dsActive' = dsActive
      /\ dsLst' = dsLst /\ dsTold' = dsTold /\ dsStat' = dsStat /\ dsMade' = dsMade
      /\ dsGens' = dsGens /\ dsCrash' = dsCrash
    BY DEF dsAfter
<1>2. /\ dsAhead(dsOp.todo) = "prepare" /\ dsOp'.by = dsOp.by /\ dsOp'.cfg = dsOp.cfg /\ dsOp'.run = dsOp.run
      /\ dsAhead(dsOp'.todo) = "publish"
      /\ dsOp' \in [by : {"none", "api", "supervisor"}, todo : Seq(DsApiSteps \cup DsSupSteps),
                  cfg : DsConfigs, run : 0..DsRuns]
      /\ dsPlan(dsOp'.by, dsOp'.todo)
      /\ \A b : dsHas(dsOp'.todo, b) => dsHas(dsOp.todo, b)
      /\ \A b : b # "prepare" /\ dsHas(dsOp.todo, b) => dsHas(dsOp'.todo, b)
      /\ \A b : dsAhead(dsOp'.todo) = b /\ b # "end" => dsHas(dsOp'.todo, b)
    BY <1>1, dsStepsOn DEF dsGoesOn, dsFollows, DsMayEnd, DsApiSteps, DsSupSteps
<1>20. dsTypes' BY <1>1, <1>2 DEF dsTypes
<1>21. StatsOfCurrent' /\ dsFresh' BY <1>1, <1>2 DEF StatsOfCurrent, dsFresh
<1>22. dsWhole' BY <1>1, <1>2 DEF dsWhole, dsRunning, dsPc, DsStart
<1>23. dsEnabled' BY <1>1, <1>2 DEF dsEnabled, dsPc, DsStart
<1>24. dsBinding' BY <1>1, <1>2 DEF dsBinding, dsPc, Served
<1>25. dsWatch' BY <1>1, <1>2 DEF dsWatch, dsPc, DsStart
<1> QED BY <1>20, <1>21, <1>22, <1>23, <1>24, <1>25
\* The run is the active one now, and nothing is counted for it.
LEMMA dsPublishes ==
    ASSUME dsIInv, publishRun
    PROVE  dsIInv'
<1> USE DEF dsIInv
<1>1. /\ dsStep("publish") /\ dsOp' = dsAfter
      /\ dsActive' = dsOp.run /\ dsErr' = FALSE /\ dsStat' = {}
      /\ dsFile' = dsFile /\ dsCfg' = dsCfg /\ dsEdited' = dsEdited /\ dsBound' = dsBound
      /\ dsCtl' = dsCtl /\ dsSup' = dsSup /\ dsLst' = dsLst /\ dsTold' = dsTold /\ dsFw' = dsFw
      /\ dsMade' = dsMade /\ dsGens' = dsGens /\ dsCrash' = dsCrash
    BY DEF publishRun
<1>2. /\ dsAhead(dsOp.todo) = "publish" /\ dsOp'.by = dsOp.by /\ dsOp'.cfg = dsOp.cfg /\ dsOp'.run = dsOp.run
      /\ dsAhead(dsOp'.todo) = "spawn" \/ dsAhead(dsOp'.todo) = "end"
      /\ dsOp' \in [by : {"none", "api", "supervisor"}, todo : Seq(DsApiSteps \cup DsSupSteps),
                  cfg : DsConfigs, run : 0..DsRuns]
      /\ dsPlan(dsOp'.by, dsOp'.todo)
      /\ \A b : dsHas(dsOp'.todo, b) => dsHas(dsOp.todo, b)
      /\ \A b : b # "publish" /\ dsHas(dsOp.todo, b) => dsHas(dsOp'.todo, b)
      /\ \A b : dsAhead(dsOp'.todo) = b /\ b # "end" => dsHas(dsOp'.todo, b)
    BY <1>1, dsStepsOn DEF dsGoesOn, dsFollows, DsMayEnd, DsApiSteps, DsSupSteps
<1>3. dsOp.by \in {"api", "supervisor"} BY <1>1, dsStepsOn DEF dsGoesOn
<1>4. dsCtl # 0 BY <1>2 DEF dsEnabled, dsPc, DsStart
<1>6. dsOp.run \in 1..dsMade BY <1>2 DEF dsWhole, dsPc
<1>7. dsErr' \in BOOLEAN BY <1>1
<1>8. dsActive' \in 0..dsMade BY <1>1, <1>6
<1>5. dsSup[dsCtl].at \notin {"wait", "lock"} BY <1>2, <1>3, <1>4 DEF dsWatch, dsPc, DsStart
<1>20. dsTypes' BY <1>1, <1>2, <1>7, <1>8 DEF dsTypes, dsTypes
<1>21. StatsOfCurrent' /\ dsFresh' BY <1>1, <1>2 DEF StatsOfCurrent, dsFresh, dsTypes
<1>22. dsWhole' BY <1>1, <1>2, <1>4 DEF dsWhole, dsRunning, dsPc, DsStart
<1>23. dsEnabled' BY <1>1, <1>2 DEF dsEnabled, dsPc, DsStart, dsTypes
<1>24. dsBinding' BY <1>1, <1>2 DEF dsBinding, dsPc, Served, dsEnabled
<1>25. dsWatch' BY <1>1, <1>2, <1>3, <1>4, <1>5 DEF dsWatch, dsPc, DsStart
<1> QED BY <1>20, <1>21, <1>22, <1>23, <1>24, <1>25
\* A start that fails leaves neither listeners nor an open firewall.
LEMMA dsFailsToStart ==
    ASSUME dsIInv, NEW a \in {"reconcileRun", "listen", "prepare"},
           dsFw' = dsFw \/ dsFw' = 0, a = "prepare" => dsLst' = closedOf(dsOp.run), a # "prepare" => dsLst' = dsLst,
           UNCHANGED <<dsFile, dsCfg, dsEdited, dsBound, dsCtl, dsSup, dsActive, dsTold, dsStat, dsMade, dsGens, dsCrash>>,
           dsStep(a), startFailed
    PROVE  dsIInv'
<1> USE DEF dsIInv
<1>1. /\ dsFw' = dsFw \/ dsFw' = 0
      /\ dsLst' = dsLst \/ (a = "prepare" /\ dsLst' = closedOf(dsOp.run))
      /\ dsFile' = dsFile /\ dsCfg' = dsCfg /\ dsEdited' = dsEdited /\ dsBound' = dsBound
      /\ dsCtl' = dsCtl /\ dsSup' = dsSup /\ dsActive' = dsActive /\ dsTold' = dsTold
      /\ dsStat' = dsStat /\ dsMade' = dsMade /\ dsGens' = dsGens /\ dsCrash' = dsCrash
    BY DEF dsStep
<1>2. /\ dsErr' = TRUE /\ dsAhead(dsOp.todo) = a
      /\ dsOp'.by = dsOp.by /\ dsOp'.cfg = dsOp.cfg /\ dsOp'.run = dsOp.run
      /\ dsAhead(dsOp'.todo) = "end" \/ (dsAhead(dsOp'.todo) = "spawn" /\ dsOp.by = "api")
      /\ dsOp' \in [by : {"none", "api", "supervisor"}, todo : Seq(DsApiSteps \cup DsSupSteps),
                  cfg : DsConfigs, run : 0..DsRuns]
      /\ dsPlan(dsOp'.by, dsOp'.todo) /\ \A b : dsHas(dsOp'.todo, b) => b = "spawn"
    BY dsGivesUp DEF DsStart
<1>3. /\ dsActive = 0 /\ dsCtl # 0 /\ dsFw' = 0 /\ (dsOp.by = "api" => dsSup[dsCtl].at = "gone")
      /\ a = "prepare" => dsOp.run \in 1..dsMade
    BY <1>1, <1>2 DEF dsWhole, dsEnabled, dsWatch, dsPc, DsStart
<1>4. /\ dsLst' \in [1..DsRuns -> {"none", "open", "failing", "failed", "closed"}]
      /\ \A r \in 1..DsRuns : dsLst'[r] = IF a = "prepare" /\ r = dsOp.run /\ dsLst' # dsLst THEN "closed" ELSE dsLst[r]
    <2>1. CASE dsLst' = dsLst BY <2>1 DEF dsTypes
    <2>2. CASE a = "prepare" /\ dsLst' # dsLst /\ dsLst' = closedOf(dsOp.run)
        <3>1. dsOp.run \in 0..DsRuns /\ dsOp.run # 0 BY <1>3, <2>2, dsNumbers
        <3> QED BY <2>2, <3>1, dsCloses
    <2> QED BY <1>1, <2>1, <2>2
<1>5. \A r \in 1..DsRuns : ~dsRunning(r)'
    <2>1. CASE a = "prepare"
        <3>1. dsLst' = closedOf(dsOp.run) BY <2>1
        <3>2. dsOp.run \in 0..DsRuns /\ dsOp.run # 0 BY <1>3, <2>1, dsNumbers
        <3>3. dsLst'[dsOp.run] = "closed" /\ \A r \in 1..DsRuns : r # dsOp.run => dsLst'[r] = dsLst[r]
            BY <3>1, <3>2, dsCloses
        <3> QED BY <1>2, <1>3, <2>1, <3>3 DEF dsWhole, dsPc, dsRunning
    <2>2. CASE a # "prepare"
        <3>1. dsLst' = dsLst BY <1>1, <2>2
        <3> QED BY <1>2, <1>3, <2>2, <3>1 DEF dsWhole, dsPc, dsRunning
    <2> QED BY <2>1, <2>2
<1>20. dsTypes' BY <1>1, <1>2, <1>3, <1>4 DEF dsTypes, dsTypes
<1>21. StatsOfCurrent' /\ dsFresh' BY <1>1, <1>2, <1>3, <1>4 DEF StatsOfCurrent, dsFresh, dsTypes
<1>22. dsWhole' BY <1>1, <1>2, <1>3, <1>4, <1>5 DEF dsWhole, dsRunning, dsPc, DsStart
<1>23. dsEnabled' BY <1>1, <1>2, <1>3 DEF dsEnabled, dsPc, DsStart
<1>24. dsBinding' BY <1>1, <1>2, <1>3 DEF dsBinding, dsPc, Served
<1>25. dsWatch' BY <1>1, <1>2, <1>3, <1>4 DEF dsWatch, dsPc, DsStart
<1> QED BY <1>20, <1>21, <1>22, <1>23, <1>24, <1>25
\* A change of the configuration takes the lock.
LEMMA dsSetsConfig ==
    ASSUME dsIInv, NEW cfg \in DsConfigs, dsSetConfig(cfg)
    PROVE  dsIInv'
<1> USE DEF dsIInv
<1>1. /\ dsIdle /\ dsOp' = [by |-> "api", todo |-> SetConfigSteps(cfg), cfg |-> cfg, run |-> 0]
      /\ dsFile' = dsFile /\ dsCfg' = dsCfg /\ dsEdited' = dsEdited /\ dsBound' = dsBound
      /\ dsErr' = dsErr /\ dsCtl' = dsCtl /\ dsSup' = dsSup /\ dsActive' = dsActive
      /\ dsLst' = dsLst /\ dsTold' = dsTold /\ dsFw' = dsFw /\ dsStat' = dsStat
      /\ dsMade' = dsMade /\ dsGens' = dsGens /\ dsCrash' = dsCrash
    BY DEF dsSetConfig, dsTake, dsWorld
<1>2. /\ dsOp'.by = "api" /\ dsOp'.cfg = cfg /\ dsOp'.todo = SetConfigSteps(cfg) /\ dsOp'.run = 0
      /\ dsAhead(dsOp'.todo) = "reconcile" /\ dsHas(dsOp'.todo, "adopt") /\ (dsHas(dsOp'.todo, "control") => cfg.on)
      /\ dsOp' \in [by : {"none", "api", "supervisor"}, todo : Seq(DsApiSteps \cup DsSupSteps),
                  cfg : DsConfigs, run : 0..DsRuns]
      /\ dsPlan(dsOp'.by, dsOp'.todo)
    <2>1. PICK s : s = SetConfigSteps(cfg) OBVIOUS
    <2>2. dsOp' = [by |-> "api", todo |-> s, cfg |-> cfg, run |-> 0] BY <1>1, <2>1
    <2>3. cfg \in DsConfigs /\ 0 \in 0..DsRuns BY dsNumbers DEF dsTypes
    <2>4. dsPlan("api", s) BY <2>1, dsSetConfigList
    <2> QED BY <2>1, <2>2, <2>3, <2>4, dsOpTyped, dsSetConfigList
<1>3. dsOp.by = "none" /\ dsOp.todo = <<>> /\ dsAhead(dsOp.todo) = "end" /\ \A b : ~dsHas(dsOp.todo, b)
    <2>1. dsOp.by = "none" /\ dsOp.todo = <<>> BY <1>1 DEF dsIdle, dsTypes, dsPlan
    <2> QED BY <2>1, dsNothing
<1>20. dsTypes' BY <1>1, <1>2, <1>3 DEF dsTypes, dsTypes
<1>21. StatsOfCurrent' /\ dsFresh' BY <1>1, <1>2, <1>3 DEF StatsOfCurrent, dsFresh
<1>22. dsWhole' BY <1>1, <1>2, <1>3 DEF dsWhole, dsRunning, dsPc, DsStart
<1>23. dsEnabled' BY <1>1, <1>2, <1>3 DEF dsEnabled, dsPc, DsStart, dsTypes
<1>24. dsBinding' BY <1>1, <1>2, <1>3 DEF dsBinding, dsPc, Served
<1>25. dsWatch' BY <1>1, <1>2, <1>3 DEF dsWatch, dsPc, DsStart
<1> QED BY <1>20, <1>21, <1>22, <1>23, <1>24, <1>25
\* Close takes the lock.
LEMMA dsClosing ==
    ASSUME dsIInv, dsClose
    PROVE  dsIInv'
<1> USE DEF dsIInv
<1>1. /\ dsIdle /\ dsOp' = [by |-> "api", todo |-> <<"halt", "drain">>, cfg |-> dsCfg, run |-> 0]
      /\ dsFile' = dsFile /\ dsCfg' = dsCfg /\ dsEdited' = dsEdited /\ dsBound' = dsBound
      /\ dsErr' = dsErr /\ dsCtl' = dsCtl /\ dsSup' = dsSup /\ dsActive' = dsActive
      /\ dsLst' = dsLst /\ dsTold' = dsTold /\ dsFw' = dsFw /\ dsStat' = dsStat
      /\ dsMade' = dsMade /\ dsGens' = dsGens /\ dsCrash' = dsCrash
    BY DEF dsClose, dsTake, dsWorld
<1>2. /\ dsOp'.by = "api" /\ dsOp'.cfg = dsCfg /\ dsOp'.todo = <<"halt", "drain">> /\ dsOp'.run = 0
      /\ dsAhead(dsOp'.todo) = "halt" /\ \A b : dsHas(dsOp'.todo, b) => b \in {"halt", "drain"}
      /\ dsOp' \in [by : {"none", "api", "supervisor"}, todo : Seq(DsApiSteps \cup DsSupSteps),
                  cfg : DsConfigs, run : 0..DsRuns]
      /\ dsPlan(dsOp'.by, dsOp'.todo)
    <2>1. PICK s : s = <<"halt", "drain">> OBVIOUS
    <2>2. dsOp' = [by |-> "api", todo |-> s, cfg |-> dsCfg, run |-> 0] BY <1>1, <2>1
    <2>3. dsCfg \in DsConfigs /\ 0 \in 0..DsRuns BY dsNumbers DEF dsTypes
    <2>4. dsPlan("api", s) BY <2>1, dsCloseList
    <2> QED BY <2>1, <2>2, <2>3, <2>4, dsOpTyped, dsCloseList
<1>3. dsOp.by = "none" /\ dsOp.todo = <<>> /\ dsAhead(dsOp.todo) = "end" /\ \A b : ~dsHas(dsOp.todo, b)
    <2>1. dsOp.by = "none" /\ dsOp.todo = <<>> BY <1>1 DEF dsIdle, dsTypes, dsPlan
    <2> QED BY <2>1, dsNothing
<1>20. dsTypes' BY <1>1, <1>2, <1>3 DEF dsTypes, dsTypes
<1>21. StatsOfCurrent' /\ dsFresh' BY <1>1, <1>2, <1>3 DEF StatsOfCurrent, dsFresh
<1>22. dsWhole' BY <1>1, <1>2, <1>3 DEF dsWhole, dsRunning, dsPc, DsStart
<1>23. dsEnabled' BY <1>1, <1>2, <1>3 DEF dsEnabled, dsPc, DsStart, dsTypes
<1>24. dsBinding' BY <1>1, <1>2, <1>3 DEF dsBinding, dsPc, Served
<1>25. dsWatch' BY <1>1, <1>2, <1>3 DEF dsWatch, dsPc, DsStart
<1> QED BY <1>20, <1>21, <1>22, <1>23, <1>24, <1>25
\* The process starts again with what is on disk: only the binding is still there.
LEMMA dsRestarts ==
    ASSUME dsIInv, NEW cfg \in DsConfigs, dsRestart(cfg)
    PROVE  dsIInv'
<1> USE DEF dsIInv
<1>1. /\ dsCrash' = dsCrash + 1 /\ dsFile' = cfg /\ dsCfg' = cfg /\ dsEdited' = (dsEdited \/ cfg # dsFile)
      /\ dsErr' = FALSE /\ dsCtl' = 0 /\ dsActive' = 0 /\ dsTold' = {} /\ dsFw' = 0 /\ dsStat' = {}
      /\ dsSup' = [g \in 1..DsRuns |-> dsGone]
      /\ dsLst' = [r \in 1..DsRuns |-> IF dsLst[r] = "none" THEN "none" ELSE "closed"]
      /\ dsOp' = [by |-> "api", todo |-> <<"boot">>, cfg |-> cfg, run |-> 0]
      /\ dsBound' = dsBound /\ dsMade' = dsMade /\ dsGens' = dsGens
    BY DEF dsRestart
<1>2. /\ dsOp'.by = "api" /\ dsOp'.cfg = cfg /\ dsOp'.todo = <<"boot">> /\ dsOp'.run = 0
      /\ dsAhead(dsOp'.todo) = "boot" /\ \A b : dsHas(dsOp'.todo, b) => b = "boot"
      /\ dsOp' \in [by : {"none", "api", "supervisor"}, todo : Seq(DsApiSteps \cup DsSupSteps),
                  cfg : DsConfigs, run : 0..DsRuns]
      /\ dsPlan(dsOp'.by, dsOp'.todo)
    <2>1. PICK s : s = <<"boot">> OBVIOUS
    <2>2. dsOp' = [by |-> "api", todo |-> s, cfg |-> cfg, run |-> 0] BY <1>1, <2>1
    <2>3. cfg \in DsConfigs /\ 0 \in 0..DsRuns BY dsNumbers DEF dsTypes
    <2>4. dsPlan("api", s) BY <2>1, dsOnes DEF DsMayEnd, DsApiSteps
    <2> QED BY <2>1, <2>2, <2>3, <2>4, dsOpTyped, dsOnes DEF DsMayEnd, DsApiSteps
<1>3. /\ dsLst' \in [1..DsRuns -> {"none", "open", "failing", "failed", "closed"}]
      /\ \A r \in 1..DsRuns : dsLst'[r] = IF dsLst[r] = "none" THEN "none" ELSE "closed"
    BY <1>1
<1>4. dsSup' \in [1..DsRuns -> DsSupervisors] /\ \A g \in 1..DsRuns : dsSup'[g].at = "gone"
    BY <1>1, dsNumbers DEF dsGone, DsSupervisors
<1>5. dsEdited' \in BOOLEAN /\ dsErr' \in BOOLEAN BY <1>1 DEF dsTypes
<1>6. dsTold' \in SUBSET (1..DsRuns) /\ dsCtl' \in 0..dsGens /\ dsActive' \in 0..dsMade BY <1>1, dsNumbers
<1>20. dsTypes' BY <1>1, <1>2, <1>3, <1>4, <1>5, <1>6 DEF dsTypes, dsTypes
<1>21. StatsOfCurrent' /\ dsFresh' BY <1>1, <1>2, <1>3, <1>4 DEF StatsOfCurrent, dsFresh
<1>22. dsWhole' BY <1>1, <1>2, <1>3 DEF dsWhole, dsRunning, dsPc, DsStart
<1>23. dsEnabled' BY <1>1, <1>2 DEF dsEnabled, dsPc, DsStart
<1>24. dsBinding' BY <1>1, <1>2 DEF dsBinding, dsPc, Served
<1>25. dsWatch' BY <1>1, <1>2, <1>4 DEF dsWatch, dsPc, DsStart
<1> QED BY <1>20, <1>21, <1>22, <1>23, <1>24, <1>25
\* A supervisor reads the active run.
LEMMA dsReads ==
    ASSUME dsIInv, NEW g \in 1..DsRuns, superviseRead(g)
    PROVE  dsIInv'
<1> USE DEF dsIInv
<1>1. /\ dsOp' = dsOp /\ dsSup[g].at = "read" /\ (dsOp.by = "supervisor" => g # dsCtl)
      /\ dsSup' = [dsSup EXCEPT ![g] = [at |-> "wait", of |-> dsActive, cause |-> FALSE]]
      /\ dsFile' = dsFile /\ dsCfg' = dsCfg /\ dsEdited' = dsEdited /\ dsBound' = dsBound
      /\ dsErr' = dsErr /\ dsCtl' = dsCtl /\ dsActive' = dsActive /\ dsLst' = dsLst
      /\ dsTold' = dsTold /\ dsFw' = dsFw /\ dsStat' = dsStat /\ dsMade' = dsMade
      /\ dsGens' = dsGens /\ dsCrash' = dsCrash
    BY DEF superviseRead, supSet, dsWorld
<1>2. dsOp' = dsOp BY <1>1
<1>3. /\ dsSup' \in [1..DsRuns -> DsSupervisors] /\ dsSup'[g] = [at |-> "wait", of |-> dsActive, cause |-> FALSE]
      /\ \A h \in 1..DsRuns : h # g => dsSup'[h] = dsSup[h]
    <2>1. [at |-> "wait", of |-> dsActive, cause |-> FALSE] \in DsSupervisors BY <1>1, dsNumbers DEF dsTypes, DsSupervisors, dsGone
    <2> QED BY <1>1, <2>1 DEF dsTypes
<1>4. g <= dsGens BY <1>1, dsNumbers DEF dsFresh
<1>20. dsTypes' BY <1>1, <1>2, <1>3 DEF dsTypes, dsTypes
<1>21. StatsOfCurrent' /\ dsFresh' BY <1>1, <1>2, <1>3, <1>4 DEF StatsOfCurrent, dsFresh
<1>22. dsWhole' BY <1>1, <1>2 DEF dsWhole, dsRunning, dsPc, DsStart
<1>23. dsEnabled' BY <1>1, <1>2 DEF dsEnabled, dsPc, DsStart
<1>24. dsBinding' BY <1>1, <1>2 DEF dsBinding, dsPc, Served
<1>25. dsWatch' BY <1>1, <1>2, <1>3, <1>4, dsNumbers DEF dsWatch, dsPc, DsStart
<1> QED BY <1>20, <1>21, <1>22, <1>23, <1>24, <1>25
\* A supervisor whose generation was cancelled ends.
LEMMA dsEndsCancelled ==
    ASSUME dsIInv, NEW g \in 1..DsRuns, g # dsCtl, dsSup' = [dsSup EXCEPT ![g] = dsGone],
           UNCHANGED <<dsWorld, dsLst, dsOp, dsTold>>, dsSup[g].at \in {"wait", "lock"}
    PROVE  dsIInv'
<1> USE DEF dsIInv
<1>1. /\ dsOp' = dsOp /\ dsSup[g].at \in {"wait", "lock"} /\ g # dsCtl
      /\ dsSup' = [dsSup EXCEPT ![g] = dsGone]
      /\ dsFile' = dsFile /\ dsCfg' = dsCfg /\ dsEdited' = dsEdited /\ dsBound' = dsBound
      /\ dsErr' = dsErr /\ dsCtl' = dsCtl /\ dsActive' = dsActive /\ dsLst' = dsLst
      /\ dsTold' = dsTold /\ dsFw' = dsFw /\ dsStat' = dsStat /\ dsMade' = dsMade
      /\ dsGens' = dsGens /\ dsCrash' = dsCrash
    BY DEF dsWorld
<1>2. dsOp' = dsOp BY <1>1
<1>3. /\ dsSup' \in [1..DsRuns -> DsSupervisors] /\ dsSup'[g] = dsGone
      /\ \A h \in 1..DsRuns : h # g => dsSup'[h] = dsSup[h]
    <2>1. dsGone \in DsSupervisors BY <1>1, dsNumbers DEF dsTypes, DsSupervisors, dsGone
    <2> QED BY <1>1, <2>1 DEF dsTypes
<1>4. g <= dsGens BY <1>1, dsNumbers DEF dsFresh
<1>20. dsTypes' BY <1>1, <1>2, <1>3 DEF dsTypes, dsTypes
<1>21. StatsOfCurrent' /\ dsFresh' BY <1>1, <1>2, <1>3, <1>4 DEF StatsOfCurrent, dsFresh
<1>22. dsWhole' BY <1>1, <1>2 DEF dsWhole, dsRunning, dsPc, DsStart
<1>23. dsEnabled' BY <1>1, <1>2 DEF dsEnabled, dsPc, DsStart
<1>24. dsBinding' BY <1>1, <1>2 DEF dsBinding, dsPc, Served
<1>25. dsWatch' BY <1>1, <1>2, <1>3, <1>4, dsNumbers DEF dsWatch, dsPc, DsStart
<1> QED BY <1>20, <1>21, <1>22, <1>23, <1>24, <1>25
\* A supervisor learns that the run it watches has failed.
LEMMA dsWakesTold ==
    ASSUME dsIInv, NEW g \in 1..DsRuns, dsSup[g].at = "wait", dsTold' = dsTold \ {dsSup[g].of},
           supSet(g, "lock", dsSup[g].of, TRUE), UNCHANGED <<dsWorld, dsLst, dsOp>>, dsSup[g].of \in dsTold
    PROVE  dsIInv'
<1> USE DEF dsIInv
<1>1. /\ dsOp' = dsOp /\ dsSup[g].at = "wait" /\ dsSup[g].of \in dsTold /\ dsTold' = dsTold \ {dsSup[g].of}
      /\ dsSup' = [dsSup EXCEPT ![g] = [at |-> "lock", of |-> dsSup[g].of, cause |-> TRUE]]
      /\ dsFile' = dsFile /\ dsCfg' = dsCfg /\ dsEdited' = dsEdited /\ dsBound' = dsBound
      /\ dsErr' = dsErr /\ dsCtl' = dsCtl /\ dsActive' = dsActive /\ dsLst' = dsLst
      /\ dsFw' = dsFw /\ dsStat' = dsStat /\ dsMade' = dsMade /\ dsGens' = dsGens
      /\ dsCrash' = dsCrash
    BY DEF supSet, dsWorld
<1>2. dsOp' = dsOp BY <1>1
<1>3. /\ dsSup' \in [1..DsRuns -> DsSupervisors] /\ dsSup'[g] = [at |-> "lock", of |-> dsSup[g].of, cause |-> TRUE]
      /\ \A h \in 1..DsRuns : h # g => dsSup'[h] = dsSup[h]
    <2>1. [at |-> "lock", of |-> dsSup[g].of, cause |-> TRUE] \in DsSupervisors BY <1>1, dsNumbers DEF dsTypes, DsSupervisors, dsGone
    <2> QED BY <1>1, <2>1 DEF dsTypes
<1>4. g <= dsGens BY <1>1, dsNumbers DEF dsFresh
<1>5. g = dsCtl => dsSup[g].of = dsActive /\ dsActive # 0 /\ dsLst[dsActive] = "failed"
    <2>1. dsSup[g].of \in 1..DsRuns /\ dsLst[dsSup[g].of] \in {"failed", "closed"} BY <1>1 DEF dsTypes, dsFresh
    <2>2. g = dsCtl => dsSup[g].of = dsActive BY <1>1, dsNumbers DEF dsWatch
    <2>3. dsActive # 0 => dsLst[dsActive] \in {"open", "failing", "failed"} BY DEF dsWhole, dsRunning
    <2> QED BY <2>1, <2>2, <2>3, dsNumbers
<1>20. dsTypes' BY <1>1, <1>2, <1>3 DEF dsTypes, dsTypes
<1>21. StatsOfCurrent' /\ dsFresh' BY <1>1, <1>2, <1>3, <1>4 DEF StatsOfCurrent, dsFresh
<1>22. dsWhole' BY <1>1, <1>2 DEF dsWhole, dsRunning, dsPc, DsStart
<1>23. dsEnabled' BY <1>1, <1>2 DEF dsEnabled, dsPc, DsStart
<1>24. dsBinding' BY <1>1, <1>2 DEF dsBinding, dsPc, Served
<1>25. dsWatch' BY <1>1, <1>2, <1>3, <1>4, <1>5, dsNumbers DEF dsWatch, dsPc, DsStart
<1> QED BY <1>20, <1>21, <1>22, <1>23, <1>24, <1>25
\* A supervisor finds that nothing runs.
LEMMA dsWakesIdle ==
    ASSUME dsIInv, NEW g \in 1..DsRuns, dsSup[g].at = "wait", supSet(g, "lock", 0, FALSE),
           UNCHANGED <<dsWorld, dsLst, dsOp, dsTold>>, dsActive = 0
    PROVE  dsIInv'
<1> USE DEF dsIInv
<1>1. /\ dsOp' = dsOp /\ dsSup[g].at = "wait" /\ dsActive = 0
      /\ dsSup' = [dsSup EXCEPT ![g] = [at |-> "lock", of |-> 0, cause |-> FALSE]]
      /\ dsFile' = dsFile /\ dsCfg' = dsCfg /\ dsEdited' = dsEdited /\ dsBound' = dsBound
      /\ dsErr' = dsErr /\ dsCtl' = dsCtl /\ dsActive' = dsActive /\ dsLst' = dsLst
      /\ dsTold' = dsTold /\ dsFw' = dsFw /\ dsStat' = dsStat /\ dsMade' = dsMade
      /\ dsGens' = dsGens /\ dsCrash' = dsCrash
    BY DEF supSet, dsWorld
<1>2. dsOp' = dsOp BY <1>1
<1>3. /\ dsSup' \in [1..DsRuns -> DsSupervisors] /\ dsSup'[g] = [at |-> "lock", of |-> 0, cause |-> FALSE]
      /\ \A h \in 1..DsRuns : h # g => dsSup'[h] = dsSup[h]
    <2>1. [at |-> "lock", of |-> 0, cause |-> FALSE] \in DsSupervisors BY <1>1, dsNumbers DEF dsTypes, DsSupervisors, dsGone
    <2> QED BY <1>1, <2>1 DEF dsTypes
<1>4. g <= dsGens BY <1>1, dsNumbers DEF dsFresh
<1>20. dsTypes' BY <1>1, <1>2, <1>3 DEF dsTypes, dsTypes
<1>21. StatsOfCurrent' /\ dsFresh' BY <1>1, <1>2, <1>3, <1>4 DEF StatsOfCurrent, dsFresh
<1>22. dsWhole' BY <1>1, <1>2 DEF dsWhole, dsRunning, dsPc, DsStart
<1>23. dsEnabled' BY <1>1, <1>2 DEF dsEnabled, dsPc, DsStart
<1>24. dsBinding' BY <1>1, <1>2 DEF dsBinding, dsPc, Served
<1>25. dsWatch' BY <1>1, <1>2, <1>3, <1>4, dsNumbers DEF dsWatch, dsPc, DsStart
<1> QED BY <1>20, <1>21, <1>22, <1>23, <1>24, <1>25
\* A supervisor of the current generation takes the lock.
LEMMA dsLocks ==
    ASSUME dsIInv, NEW g \in 1..DsRuns, superviseLock(g), g = dsCtl
    PROVE  dsIInv'
<1> USE DEF dsIInv
<1>1. /\ dsSup[g].at = "lock" /\ dsIdle
      /\ dsSup' = [dsSup EXCEPT ![g] = [at |-> "read", of |-> 0, cause |-> FALSE]]
      /\ dsOp' = [by |-> "supervisor", todo |-> IF dsSup[g].cause THEN RetrySteps ELSE IF dsActive = 0 THEN StartSteps ELSE <<>>,
                 cfg |-> dsCfg, run |-> 0]
      /\ dsFile' = dsFile /\ dsCfg' = dsCfg /\ dsEdited' = dsEdited /\ dsBound' = dsBound
      /\ dsErr' = dsErr /\ dsCtl' = dsCtl /\ dsActive' = dsActive /\ dsLst' = dsLst
      /\ dsTold' = dsTold /\ dsFw' = dsFw /\ dsStat' = dsStat /\ dsMade' = dsMade
      /\ dsGens' = dsGens /\ dsCrash' = dsCrash
    BY DEF superviseLock, supLive, supSet, dsTake, dsWorld
<1>2. PICK s : s = IF dsSup[g].cause THEN RetrySteps ELSE IF dsActive = 0 THEN StartSteps ELSE <<>> OBVIOUS
<1>3. /\ dsPlan("supervisor", s) /\ ~dsHas(s, "adopt") /\ ~dsHas(s, "control")
      /\ \/ dsAhead(s) = "stopRun" /\ dsSup[g].cause
         \/ dsAhead(s) = "reconcileRun" /\ dsActive = 0
         \/ dsAhead(s) = "end"
    <2>1. CASE dsSup[g].cause
        <3>1. s = RetrySteps BY <1>2, <2>1
        <3> QED BY <2>1, <3>1, dsRetryList
    <2>2. CASE ~dsSup[g].cause /\ dsActive = 0
        <3>1. s = StartSteps BY <1>2, <2>2
        <3> QED BY <2>2, <3>1, dsStartList DEF DsStart
    <2>3. CASE ~dsSup[g].cause /\ dsActive # 0
        <3>1. s = <<>> BY <1>2, <2>3
        <3> QED BY <3>1, dsNothing
    <2> QED BY <2>1, <2>2, <2>3
<1>4. /\ dsOp'.by = "supervisor" /\ dsOp'.todo = s /\ dsOp'.cfg = dsCfg
      /\ dsOp' \in [by : {"none", "api", "supervisor"}, todo : Seq(DsApiSteps \cup DsSupSteps),
                  cfg : DsConfigs, run : 0..DsRuns]
      /\ dsPlan(dsOp'.by, dsOp'.todo)
    <2>1. dsOp' = [by |-> "supervisor", todo |-> s, cfg |-> dsCfg, run |-> 0] BY <1>1, <1>2
    <2>2. dsCfg \in DsConfigs /\ 0 \in 0..DsRuns BY dsNumbers DEF dsTypes
    <2> QED BY <1>3, <2>1, <2>2, dsOpTyped
<1>5. dsOp.by = "none" /\ dsOp.todo = <<>> /\ dsAhead(dsOp.todo) = "end" /\ \A b : ~dsHas(dsOp.todo, b)
    <2>1. dsOp.by = "none" /\ dsOp.todo = <<>> BY <1>1 DEF dsIdle, dsTypes, dsPlan
    <2> QED BY <2>1, dsNothing
<1>6. /\ dsSup' \in [1..DsRuns -> DsSupervisors] /\ dsSup'[g].at = "read"
      /\ \A h \in 1..DsRuns : h # g => dsSup'[h] = dsSup[h]
    <2>1. [at |-> "read", of |-> 0, cause |-> FALSE] \in DsSupervisors BY dsNumbers DEF DsSupervisors
    <2> QED BY <1>1, <2>1 DEF dsTypes
<1>7. g <= dsGens /\ dsCtl # 0 BY <1>1, dsNumbers DEF dsFresh
<1>8. dsSup[g].cause => dsActive # 0 /\ dsLst[dsActive] = "failed" BY <1>1, <1>7 DEF dsWatch
<1>20. dsTypes' BY <1>1, <1>2, <1>3, <1>4, <1>6 DEF dsTypes, dsTypes
<1>21. StatsOfCurrent' /\ dsFresh' BY <1>1, <1>2, <1>4, <1>6, <1>7 DEF StatsOfCurrent, dsFresh
<1>22. dsWhole' BY <1>1, <1>2, <1>3, <1>4, <1>5 DEF dsWhole, dsRunning, dsPc, DsStart
<1>23. dsEnabled' BY <1>1, <1>2, <1>3, <1>4, <1>5, <1>7 DEF dsEnabled, dsPc, DsStart
<1>24. dsBinding' BY <1>1, <1>2, <1>3, <1>4, <1>5 DEF dsBinding, dsPc, Served
<1>25. dsWatch' BY <1>1, <1>2, <1>3, <1>4, <1>6, <1>7, <1>8 DEF dsWatch, dsPc, DsStart
<1> QED BY <1>20, <1>21, <1>22, <1>23, <1>24, <1>25
\* The listeners of a run close themselves.
LEMMA dsFails ==
    ASSUME dsIInv, NEW r \in 1..DsRuns, listenerFailed(r)
    PROVE  dsIInv'
<1> USE DEF dsIInv
<1>1. /\ dsOp' = dsOp /\ dsLst[r] = "open" /\ dsLst' = [dsLst EXCEPT ![r] = "failing"]
      /\ dsFile' = dsFile /\ dsCfg' = dsCfg /\ dsEdited' = dsEdited /\ dsBound' = dsBound
      /\ dsErr' = dsErr /\ dsCtl' = dsCtl /\ dsSup' = dsSup /\ dsActive' = dsActive
      /\ dsTold' = dsTold /\ dsFw' = dsFw /\ dsStat' = dsStat /\ dsMade' = dsMade
      /\ dsGens' = dsGens /\ dsCrash' = dsCrash
    BY DEF listenerFailed, dsWorld
<1>2. dsOp' = dsOp BY <1>1
<1>3. /\ dsLst' \in [1..DsRuns -> {"none", "open", "failing", "failed", "closed"}] /\ dsLst'[r] = "failing"
      /\ \A x \in 1..DsRuns : x # r => dsLst'[x] = dsLst[x]
    BY <1>1 DEF dsTypes
<1>4. r <= dsMade BY <1>1, dsNumbers DEF dsFresh
<1>20. dsTypes' BY <1>1, <1>2, <1>3 DEF dsTypes, dsTypes
<1>21. StatsOfCurrent' /\ dsFresh' BY <1>1, <1>2, <1>3, <1>4 DEF StatsOfCurrent, dsFresh
<1>22. dsWhole' BY <1>1, <1>2, <1>3, dsNumbers DEF dsWhole, dsRunning, dsPc, DsStart
<1>23. dsEnabled' BY <1>1, <1>2 DEF dsEnabled, dsPc, DsStart
<1>24. dsBinding' BY <1>1, <1>2 DEF dsBinding, dsPc, Served
<1>25. dsWatch' BY <1>1, <1>2, <1>3, dsNumbers DEF dsWatch, dsPc, DsStart
<1> QED BY <1>20, <1>21, <1>22, <1>23, <1>24, <1>25
\* They report it to the run.
LEMMA dsTells ==
    ASSUME dsIInv, NEW r \in 1..DsRuns, OnError(r)
    PROVE  dsIInv'
<1> USE DEF dsIInv
<1>1. /\ dsOp' = dsOp /\ dsLst[r] = "failing" /\ dsLst' = [dsLst EXCEPT ![r] = "failed"]
      /\ dsTold' = dsTold \cup {r}
      /\ dsFile' = dsFile /\ dsCfg' = dsCfg /\ dsEdited' = dsEdited /\ dsBound' = dsBound
      /\ dsErr' = dsErr /\ dsCtl' = dsCtl /\ dsSup' = dsSup /\ dsActive' = dsActive
      /\ dsFw' = dsFw /\ dsStat' = dsStat /\ dsMade' = dsMade /\ dsGens' = dsGens
      /\ dsCrash' = dsCrash
    BY DEF OnError, dsWorld
<1>2. dsOp' = dsOp BY <1>1
<1>3. /\ dsLst' \in [1..DsRuns -> {"none", "open", "failing", "failed", "closed"}] /\ dsLst'[r] = "failed"
      /\ \A x \in 1..DsRuns : x # r => dsLst'[x] = dsLst[x]
    BY <1>1 DEF dsTypes
<1>4. r <= dsMade BY <1>1, dsNumbers DEF dsFresh
<1>20. dsTypes' BY <1>1, <1>2, <1>3 DEF dsTypes, dsTypes
<1>21. StatsOfCurrent' /\ dsFresh' BY <1>1, <1>2, <1>3, <1>4 DEF StatsOfCurrent, dsFresh
<1>22. dsWhole' BY <1>1, <1>2, <1>3, dsNumbers DEF dsWhole, dsRunning, dsPc, DsStart
<1>23. dsEnabled' BY <1>1, <1>2 DEF dsEnabled, dsPc, DsStart
<1>24. dsBinding' BY <1>1, <1>2 DEF dsBinding, dsPc, Served
<1>25. dsWatch' BY <1>1, <1>2, <1>3, dsNumbers DEF dsWatch, dsPc, DsStart
<1> QED BY <1>20, <1>21, <1>22, <1>23, <1>24, <1>25
\* Requests and tests come and end; what has ended is counted for the active run only.
LEMMA dsRequested ==
    ASSUME dsIInv, dsOp' = dsOp, dsActive # 0 => dsStat' \subseteq dsStat \cup {dsActive},
           UNCHANGED <<dsFile, dsCfg, dsEdited, dsBound, dsErr, dsCtl, dsSup, dsActive, dsLst, dsTold, dsFw, dsMade, dsGens, dsCrash>>
    PROVE  dsIInv'
<1> USE DEF dsIInv
<1>1. /\ dsOp' = dsOp
      /\ dsActive # 0 => dsStat' \subseteq dsStat \cup {dsActive}
      /\ dsFile' = dsFile /\ dsCfg' = dsCfg /\ dsEdited' = dsEdited /\ dsBound' = dsBound
      /\ dsErr' = dsErr /\ dsCtl' = dsCtl /\ dsSup' = dsSup /\ dsActive' = dsActive
      /\ dsLst' = dsLst /\ dsTold' = dsTold /\ dsFw' = dsFw /\ dsMade' = dsMade
      /\ dsGens' = dsGens /\ dsCrash' = dsCrash
    BY DEF dsWorld
<1>2. dsOp' = dsOp BY <1>1
<1>20. dsTypes' BY <1>1, <1>2 DEF dsTypes
<1>21. StatsOfCurrent' /\ dsFresh' BY <1>1, <1>2 DEF StatsOfCurrent, dsFresh
<1>22. dsWhole' BY <1>1, <1>2 DEF dsWhole, dsRunning, dsPc, DsStart
<1>23. dsEnabled' BY <1>1, <1>2 DEF dsEnabled, dsPc, DsStart
<1>24. dsBinding' BY <1>1, <1>2 DEF dsBinding, dsPc, Served
<1>25. dsWatch' BY <1>1, <1>2 DEF dsWatch, dsPc, DsStart
<1> QED BY <1>20, <1>21, <1>22, <1>23, <1>24, <1>25
\* dnsmasq is made to forward to the port that the active run serves.
LEMMA dsApplies ==
    ASSUME dsIInv, ApplyOpenWrtDNS
    PROVE  dsIInv'
<1> USE DEF dsIInv
<1>1. /\ dsOp' = dsOp /\ dsIdle /\ dsActive # 0 /\ dsBound' = dsCfg.port
      /\ dsFile' = dsFile /\ dsCfg' = dsCfg /\ dsEdited' = dsEdited /\ dsErr' = dsErr
      /\ dsCtl' = dsCtl /\ dsSup' = dsSup /\ dsActive' = dsActive /\ dsLst' = dsLst
      /\ dsTold' = dsTold /\ dsFw' = dsFw /\ dsStat' = dsStat /\ dsMade' = dsMade
      /\ dsGens' = dsGens /\ dsCrash' = dsCrash
    BY DEF ApplyOpenWrtDNS, listenerAnswers
<1>2. dsOp' = dsOp BY <1>1
<1>3. dsOp.todo = <<>> /\ dsAhead(dsOp.todo) = "end" /\ \A b : ~dsHas(dsOp.todo, b)
    <2>1. dsOp.todo = <<>> BY <1>1 DEF dsIdle, dsTypes, dsPlan
    <2> QED BY <2>1, dsNothing
<1>4. dsCfg.on /\ dsCfg = dsFile BY <1>1, <1>3 DEF dsWhole, dsEnabled, dsPc
<1>20. dsTypes' BY <1>1, <1>2 DEF dsTypes, dsTypes, DsConfigs
<1>21. StatsOfCurrent' /\ dsFresh' BY <1>1, <1>2 DEF StatsOfCurrent, dsFresh
<1>22. dsWhole' BY <1>1, <1>2 DEF dsWhole, dsRunning, dsPc, DsStart
<1>23. dsEnabled' BY <1>1, <1>2 DEF dsEnabled, dsPc, DsStart
<1>24. dsBinding' BY <1>1, <1>2, <1>3, <1>4 DEF dsBinding, dsPc, Served
<1>25. dsWatch' BY <1>1, <1>2 DEF dsWatch, dsPc, DsStart
<1> QED BY <1>20, <1>21, <1>22, <1>23, <1>24, <1>25
\* The binding is taken back.
LEMMA dsRestores ==
    ASSUME dsIInv, RestoreOpenWrtDNS
    PROVE  dsIInv'
<1> USE DEF dsIInv
<1>1. /\ dsOp' = dsOp /\ dsIdle /\ dsBound' = 0
      /\ dsFile' = dsFile /\ dsCfg' = dsCfg /\ dsEdited' = dsEdited /\ dsErr' = dsErr
      /\ dsCtl' = dsCtl /\ dsSup' = dsSup /\ dsActive' = dsActive /\ dsLst' = dsLst
      /\ dsTold' = dsTold /\ dsFw' = dsFw /\ dsStat' = dsStat /\ dsMade' = dsMade
      /\ dsGens' = dsGens /\ dsCrash' = dsCrash
    BY DEF RestoreOpenWrtDNS
<1>2. dsOp' = dsOp BY <1>1
<1>20. dsTypes' BY <1>1, <1>2 DEF dsTypes
<1>21. StatsOfCurrent' /\ dsFresh' BY <1>1, <1>2 DEF StatsOfCurrent, dsFresh
<1>22. dsWhole' BY <1>1, <1>2 DEF dsWhole, dsRunning, dsPc, DsStart
<1>23. dsEnabled' BY <1>1, <1>2 DEF dsEnabled, dsPc, DsStart
<1>24. dsBinding' BY <1>1, <1>2 DEF dsBinding, dsPc, Served
<1>25. dsWatch' BY <1>1, <1>2 DEF dsWatch, dsPc, DsStart
<1> QED BY <1>20, <1>21, <1>22, <1>23, <1>24, <1>25
\* The program starts the server if it is enabled, and otherwise looks after the binding.
LEMMA dsBoots ==
    ASSUME dsIInv, StartEnabled
    PROVE  dsIInv'
<1> USE DEF dsIInv
<1>1. /\ dsStep("boot") /\ dsOp' = [dsOp EXCEPT !.todo = IF ~dsCfg.on THEN <<"reconcileBoot">> ELSE IF dsCtl = 0 THEN ControlSteps ELSE <<>>]
      /\ dsFile' = dsFile /\ dsCfg' = dsCfg /\ dsEdited' = dsEdited /\ dsBound' = dsBound
      /\ dsErr' = dsErr /\ dsCtl' = dsCtl /\ dsSup' = dsSup /\ dsActive' = dsActive
      /\ dsLst' = dsLst /\ dsTold' = dsTold /\ dsFw' = dsFw /\ dsStat' = dsStat
      /\ dsMade' = dsMade /\ dsGens' = dsGens /\ dsCrash' = dsCrash
    BY DEF StartEnabled, dsWorld
<1>2. dsOp.by = "api" /\ dsAhead(dsOp.todo) = "boot" /\ dsCtl = 0 /\ dsActive = 0 /\ dsCfg = dsFile
    <2>1. /\ dsPlan(dsOp.by, dsOp.todo) /\ dsOp.todo # <<>> /\ Head(dsOp.todo) = "boot"
          /\ dsOp.by \in {"none", "api", "supervisor"}
        BY <1>1 DEF dsStep, dsTypes
    <2>2. "boot" \in (IF dsOp.by = "api" THEN DsApiSteps ELSE DsSupSteps) BY <2>1, dsTails
    <2> QED BY <2>1, <2>2 DEF DsSupSteps, dsEnabled, dsWhole, dsPc, dsAhead
<1>3. PICK s : s = IF ~dsCfg.on THEN <<"reconcileBoot">> ELSE ControlSteps OBVIOUS
<1>4. /\ dsPlan("api", s) /\ ~dsHas(s, "adopt")
      /\ dsAhead(s) = IF dsCfg.on THEN "control" ELSE "reconcileBoot"
    <2>1. CASE dsCfg.on
        <3>1. s = ControlSteps BY <1>3, <2>1
        <3> QED BY <2>1, <3>1, dsControlList
    <2>2. CASE ~dsCfg.on
        <3>1. s = <<"reconcileBoot">> BY <1>3, <2>2
        <3>2. "reconcileBoot" \in DsMayEnd /\ "reconcileBoot" \in DsApiSteps BY DEF DsMayEnd, DsApiSteps
        <3> QED BY <2>2, <3>1, <3>2, dsOnes
    <2> QED BY <2>1, <2>2
<1>5. /\ dsOp'.by = "api" /\ dsOp'.todo = s /\ dsOp'.cfg = dsOp.cfg
      /\ dsOp' \in [by : {"none", "api", "supervisor"}, todo : Seq(DsApiSteps \cup DsSupSteps),
                  cfg : DsConfigs, run : 0..DsRuns]
      /\ dsPlan(dsOp'.by, dsOp'.todo)
    <2>1. dsOp' = [by |-> "api", todo |-> s, cfg |-> dsOp.cfg, run |-> dsOp.run] BY <1>1, <1>2, <1>3 DEF dsTypes
    <2>2. dsOp.cfg \in DsConfigs /\ dsOp.run \in 0..DsRuns BY DEF dsTypes
    <2> QED BY <1>4, <2>1, <2>2, dsOpTyped
<1>20. dsTypes' BY <1>1, <1>2, <1>4, <1>5 DEF dsTypes, dsTypes
<1>21. StatsOfCurrent' /\ dsFresh' BY <1>1, <1>2, <1>4, <1>5 DEF StatsOfCurrent, dsFresh
<1>22. dsWhole' BY <1>1, <1>2, <1>4, <1>5 DEF dsWhole, dsRunning, dsPc, DsStart
<1>23. dsEnabled' BY <1>1, <1>2, <1>4, <1>5 DEF dsEnabled, dsPc, DsStart
<1>24. dsBinding' BY <1>1, <1>2, <1>4, <1>5 DEF dsBinding, dsPc, Served
<1>25. dsWatch' BY <1>1, <1>2, <1>4, <1>5 DEF dsWatch, dsPc, DsStart
<1> QED BY <1>20, <1>21, <1>22, <1>23, <1>24, <1>25

-----------------------------------------------------------------------------
\* Every step keeps the invariant, and the supervisor stops a run whose listener failed.
LEMMA dsOperates == ASSUME dsIInv, dsOperation PROVE dsIInv'
<1>1. CASE StartEnabled BY <1>1, dsBoots
<1>2. CASE reconcileOpenWrtDNSLocked
    <2>0. /\ dsStep("reconcile") /\ dsPc = "reconcile"
          /\ UNCHANGED <<dsFile, dsCfg, dsCtl, dsSup, dsActive, dsLst, dsTold, dsFw, dsStat, dsMade, dsGens, dsCrash>>
        BY <1>2 DEF reconcileOpenWrtDNSLocked, dsStep, dsPc, dsAhead
    <2>1. CASE Reconcile(dsOp.cfg) BY <2>0, <2>1, dsReconciles DEF Reconcile
    <2>2. CASE ReconcileFails /\ dsAbort /\ UNCHANGED dsErr
        BY <2>0, <2>2, dsGivesBack DEF ReconcileFails, dsAbort
    <2> QED BY <1>2, <2>1, <2>2 DEF reconcileOpenWrtDNSLocked
<1>3. CASE reconcileAtBoot
    <2>0. /\ dsStep("reconcileBoot") /\ dsPc = "reconcileBoot"
          /\ UNCHANGED <<dsFile, dsCfg, dsCtl, dsSup, dsActive, dsLst, dsTold, dsFw, dsStat, dsMade, dsGens, dsCrash>>
        BY <1>3 DEF reconcileAtBoot, dsStep, dsPc, dsAhead
    <2>1. CASE Reconcile(dsCfg) BY <2>0, <2>1, dsReconcilesAtBoot DEF Reconcile
    <2>2. CASE ReconcileFails /\ dsAbort /\ dsErr' = TRUE
        BY <2>0, <2>2, dsGivesBack DEF ReconcileFails, dsAbort
    <2> QED BY <1>3, <2>1, <2>2 DEF reconcileAtBoot
<1>4. CASE ConfigurePersist
    <2>0. /\ dsStep("save") /\ dsPc = "save"
          /\ UNCHANGED <<dsCfg, dsBound, dsErr, dsCtl, dsSup, dsActive, dsLst, dsTold, dsFw, dsStat, dsMade, dsGens, dsCrash>>
        BY <1>4 DEF ConfigurePersist, dsStep, dsPc, dsAhead
    <2>1. CASE dsFile' = dsOp.cfg /\ dsEdited' = FALSE /\ dsOp' = dsAfter BY <2>0, <2>1, dsSaves
    <2>2. CASE UNCHANGED <<dsFile, dsEdited>> /\ dsAbort BY <2>0, <2>2, dsGivesBack DEF dsAbort
    <2> QED BY <1>4, <2>1, <2>2 DEF ConfigurePersist
<1>5. CASE stopLocked BY <1>5, dsHalts
<1>6. CASE stopRunLocked BY <1>6, dsStopsRun
<1>7. CASE drainRun BY <1>7, dsDrains
<1>8. CASE adoptConfig BY <1>8, dsAdopts
<1>9. CASE startControlLocked BY <1>9, dsStartsControl
<1>10. CASE spawnSupervisor BY <1>10, dsSpawns
<1>11. CASE reconcileRun
    <2>0. /\ dsStep("reconcileRun")
          /\ UNCHANGED <<dsFile, dsCfg, dsCtl, dsSup, dsActive, dsLst, dsTold, dsFw, dsStat, dsMade, dsGens, dsCrash>>
        BY <1>11 DEF reconcileRun
    <2>1. CASE Reconcile(dsCfg) BY <2>0, <2>1, dsReconcilesRun DEF Reconcile
    <2>2. CASE ReconcileFails /\ startFailed
        <3>1. PICK a \in {"reconcileRun", "listen", "prepare"} : a = "reconcileRun" OBVIOUS
        <3>2. dsStep(a) /\ a # "prepare" BY <2>0, <3>1
        <3> QED BY <2>0, <2>2, <3>2, dsFailsToStart DEF ReconcileFails
    <2> QED BY <1>11, <2>1, <2>2 DEF reconcileRun
<1>12. CASE listenRun
    <2>0. /\ dsStep("listen") /\ dsMade < DsRuns
          /\ UNCHANGED <<dsFile, dsCfg, dsEdited, dsBound, dsCtl, dsSup, dsActive, dsTold, dsStat, dsGens, dsCrash>>
        BY <1>12 DEF listenRun
    <2>1. CASE /\ dsMade' = dsMade + 1 /\ dsLst' = [dsLst EXCEPT ![dsMade'] = "open"]
               /\ dsOp' = [dsAfter EXCEPT !.run = dsMade'] /\ UNCHANGED <<dsErr, dsFw>>
        BY <2>0, <2>1, dsListens
    <2>2. CASE startFailed /\ dsFw' = 0 /\ UNCHANGED <<dsMade, dsLst>>
        <3>1. PICK a \in {"reconcileRun", "listen", "prepare"} : a = "listen" OBVIOUS
        <3>2. dsStep(a) /\ a # "prepare" BY <2>0, <3>1
        <3> QED BY <2>0, <2>2, <3>2, dsFailsToStart
    <2> QED BY <1>12, <2>1, <2>2 DEF listenRun
<1>13. CASE prepareRun
    <2>0. /\ dsStep("prepare")
          /\ UNCHANGED <<dsFile, dsCfg, dsEdited, dsBound, dsCtl, dsSup, dsActive, dsTold, dsStat, dsMade, dsGens, dsCrash>>
        BY <1>13 DEF prepareRun
    <2>1. CASE dsFw' = dsOp.run /\ dsOp' = dsAfter /\ UNCHANGED <<dsErr, dsLst>> BY <2>0, <2>1, dsPrepares
    <2>2. CASE startFailed /\ dsFw' = 0 /\ dsLst' = closedOf(dsOp.run)
        <3>1. PICK a \in {"reconcileRun", "listen", "prepare"} : a = "prepare" OBVIOUS
        <3>2. dsStep(a) /\ a = "prepare" BY <2>0, <3>1
        <3> QED BY <2>0, <2>2, <3>2, dsFailsToStart
    <2> QED BY <1>13, <2>1, <2>2 DEF prepareRun, prepareFailed
<1>14. CASE publishRun BY <1>14, dsPublishes
<1>15. CASE dsEnd
    <2>1. dsPc = "end" /\ dsOp' = dsFree BY <1>15 DEF dsEnd, dsPc, dsAhead
    <2>2. UNCHANGED <<dsFile, dsCfg, dsEdited, dsBound, dsErr, dsCtl, dsSup, dsActive, dsLst, dsTold, dsFw, dsStat, dsMade, dsGens, dsCrash>>
        BY <1>15 DEF dsEnd, dsWorld
    <2> QED BY <2>1, <2>2, dsGivesBack
<1> QED BY <1>1, <1>2, <1>3, <1>4, <1>5, <1>6, <1>7, <1>8, <1>9, <1>10, <1>11, <1>12, <1>13, <1>14, <1>15
        DEF dsOperation
LEMMA dsSupervises == ASSUME dsIInv, NEW g \in 1..DsRuns, superviseRead(g) \/ superviseWake(g) \/ superviseLock(g) PROVE dsIInv'
<1>1. CASE superviseRead(g) BY <1>1, dsReads
<1>2. CASE superviseWake(g)
    <2>0. dsSup[g].at = "wait" /\ UNCHANGED <<dsWorld, dsLst, dsOp>> BY <1>2 DEF superviseWake
    <2>1. CASE g # dsCtl /\ dsSup' = [dsSup EXCEPT ![g] = dsGone] /\ UNCHANGED dsTold
        BY <2>0, <2>1, dsEndsCancelled
    <2>2. CASE /\ dsSup[g].of \in dsTold /\ dsTold' = dsTold \ {dsSup[g].of}
               /\ supSet(g, "lock", dsSup[g].of, TRUE)
        BY <2>0, <2>2, dsWakesTold
    <2>3. CASE dsActive = 0 /\ supSet(g, "lock", 0, FALSE) /\ UNCHANGED dsTold BY <2>0, <2>3, dsWakesIdle
    <2> QED BY <1>2, <2>1, <2>2, <2>3 DEF superviseWake
<1>3. CASE superviseLock(g)
    <2>1. CASE g = dsCtl BY <1>3, <2>1, dsLocks
    <2>2. CASE g # dsCtl
        <3>1. /\ dsSup[g].at \in {"wait", "lock"} /\ dsSup' = [dsSup EXCEPT ![g] = dsGone]
              /\ UNCHANGED <<dsWorld, dsLst, dsOp, dsTold>>
            BY <1>3, <2>2 DEF superviseLock, supLive
        <3> QED BY <2>2, <3>1, dsEndsCancelled
    <2> QED BY <2>1, <2>2
<1> QED BY <1>1, <1>2, <1>3
LEMMA dsServes ==
    ASSUME dsIInv, NEW q \in DsRequests, exchange(q) \/ Test(q) \/ \E r \in 1..DsRuns : takeRequest(q, r)
    PROVE  dsIInv'
<1>1. CASE exchange(q)
    <2>1. /\ UNCHANGED <<dsFile, dsCfg, dsEdited, dsBound, dsErr, dsCtl, dsSup, dsActive, dsLst, dsTold, dsFw, dsMade, dsGens, dsCrash>>
          /\ dsOp' = dsOp
        BY <1>1 DEF exchange
    <2>2. dsStat' \subseteq dsStat \cup {dsActive} BY <1>1 DEF exchange, counts
    <2> QED BY <2>1, <2>2, dsRequested
<1>2. CASE Test(q) \/ \E r \in 1..DsRuns : takeRequest(q, r)
    <2>1. UNCHANGED <<dsWorld, dsSup, dsLst, dsTold, dsOp>> BY <1>2 DEF Test, takeRequest
    <2> QED BY <2>1, dsRequested DEF dsWorld
<1> QED BY <1>1, <1>2
LEMMA dsInductive == dsIInv /\ [dsNext]_dsVars => dsIInv'
<1> SUFFICES ASSUME dsIInv, [dsNext]_dsVars PROVE dsIInv'
    OBVIOUS
<1>1. CASE dsOperation BY <1>1, dsOperates
<1>2. CASE \E cfg \in DsConfigs : dsSetConfig(cfg) \/ dsRestart(cfg) BY <1>2, dsSetsConfig, dsRestarts
<1>3. CASE dsClose \/ ApplyOpenWrtDNS \/ RestoreOpenWrtDNS BY <1>3, dsClosing, dsApplies, dsRestores
<1>4. CASE \E g \in 1..DsRuns : superviseRead(g) \/ superviseWake(g) \/ superviseLock(g) BY <1>4, dsSupervises
<1>5. CASE \E r \in 1..DsRuns : listenerFailed(r) \/ OnError(r) BY <1>5, dsFails, dsTells
<1>6. CASE \E q \in DsRequests : exchange(q) \/ Test(q) \/ \E r \in 1..DsRuns : takeRequest(q, r) BY <1>6, dsServes
<1>7. CASE UNCHANGED dsVars
    <2>1. UNCHANGED <<dsFile, dsCfg, dsEdited, dsBound, dsErr, dsCtl, dsSup, dsActive, dsLst, dsTold, dsFw, dsOp, dsStat, dsMade, dsGens, dsCrash>>
        BY <1>7 DEF dsVars
    <2> QED BY <2>1, dsRequested
<1> QED BY <1>1, <1>2, <1>3, <1>4, <1>5, <1>6, <1>7 DEF dsNext

\* A run is withdrawn by an operation of the supervisor only in the step that stops a failed run.
LEMMA dsForeign ==
    ASSUME dsIInv, dsNext, dsOp.by = "supervisor", dsActive # 0, dsActive' = 0, dsCrash' = dsCrash
    PROVE  dsLst[dsActive] = "failed"
<1>1. dsPc = "stopRun" => dsLst[dsActive] = "failed" BY DEF dsIInv, dsWatch
<1>2. CASE stopRunLocked
    <2>1. dsPc = "stopRun" BY <1>2 DEF stopRunLocked, dsStep, dsPc, dsAhead
    <2> QED BY <1>1, <2>1
<1>3. CASE stopLocked
    <2>1. dsPlan(dsOp.by, dsOp.todo) /\ dsOp.todo # <<>> /\ Head(dsOp.todo) = "halt"
        BY <1>3 DEF dsIInv, dsTypes, stopLocked, dsStep
    <2>2. "halt" \in (IF dsOp.by = "api" THEN DsApiSteps ELSE DsSupSteps) BY <2>1, dsTails
    <2> QED BY <2>2 DEF DsSupSteps
<1>4. CASE publishRun
    <2>1. dsPc = "publish" BY <1>4 DEF publishRun, dsStep, dsPc, dsAhead
    <2>2. dsActive = 0 BY <2>1 DEF dsIInv, dsWhole, DsStart
    <2> QED BY <2>2
<1>5. CASE dsOperation /\ ~stopRunLocked /\ ~stopLocked /\ ~publishRun
    <2>1. dsActive' = dsActive
        BY <1>5 DEF dsOperation, StartEnabled, reconcileOpenWrtDNSLocked, reconcileAtBoot, ConfigurePersist, drainRun,
                    adoptConfig, startControlLocked, spawnSupervisor, reconcileRun, listenRun, prepareRun, dsEnd, dsWorld
    <2> QED BY <2>1
<1>6. CASE \E cfg \in DsConfigs : dsSetConfig(cfg) \/ dsRestart(cfg)
    <2>1. ~\E cfg \in DsConfigs : dsRestart(cfg) BY DEF dsRestart, dsIInv, dsTypes
    <2> QED BY <1>6, <2>1 DEF dsSetConfig, dsWorld, dsRestart
<1>7. CASE \/ dsClose \/ ApplyOpenWrtDNS \/ RestoreOpenWrtDNS
           \/ \E g \in 1..DsRuns : superviseRead(g) \/ superviseWake(g) \/ superviseLock(g)
           \/ \E r \in 1..DsRuns : listenerFailed(r) \/ OnError(r)
           \/ \E q \in DsRequests : exchange(q) \/ Test(q) \/ \E r \in 1..DsRuns : takeRequest(q, r)
    <2>1. dsActive' = dsActive
        BY <1>7 DEF dsClose, ApplyOpenWrtDNS, RestoreOpenWrtDNS, superviseRead, superviseWake, superviseLock,
                    listenerFailed, OnError, exchange, Test, takeRequest, dsWorld
    <2> QED BY <2>1
<1> QED BY <1>2, <1>3, <1>4, <1>5, <1>6, <1>7 DEF dsNext

\* ServerSafe for any ports, requests, runs, failures and crashes.
THEOREM ServerIsSafe == dsSpec => ServerSafe
<1>1. dsIInv /\ [dsNext]_dsVars =>
          [dsOp.by = "supervisor" /\ dsActive # 0 /\ dsActive' = 0 /\ dsCrash' = dsCrash =>
               dsLst[dsActive] \in {"failing", "failed"}]_dsVars
    BY dsForeign
<1> QED BY <1>1, dsInitially, dsInductive, dsImplies, PTL DEF dsSpec, ServerSafe, NoForeignStop

-----------------------------------------------------------------------------
(* The listeners of a run. *)

dlSpec == dlInit /\ [][dlNext]_dlVars

DlConnStates == {"out", "accepted", "read", "exchange"}
DlUdpStates == {"out", "start", "exchange", "reply"}
dlTyped ==
    /\ dlConn \in [DlConns -> DlConnStates] /\ dlUdp \in [DlDatagrams -> DlUdpStates]
    /\ dlOpen \in SUBSET DlConns /\ dlMap \in SUBSET DlConns
    /\ dlCtx \in BOOLEAN /\ dlSock \in SUBSET {"tcp", "udp"} /\ dlLoops \in SUBSET {"tcp", "udp"}
    /\ dlClosing \in {"no", "sockets", "sweep", "wait", "done"}
\* A tracked connection is registered; one that is being accepted is open, alone, and the work
\* of a loop that runs.
dlTracked ==
    \A c \in DlConns :
        /\ dlConn[c] = "out" => c \notin dlOpen /\ c \notin dlMap
        /\ dlConn[c] = "accepted" => c \in dlOpen /\ c \notin dlMap /\ "tcp" \in dlLoops
        /\ dlConn[c] \in {"read", "exchange"} => c \in dlMap
        /\ \A d \in DlConns : dlConn[c] = "accepted" /\ dlConn[d] = "accepted" => c = d
\* How far Close has come.
dlClosed ==
    /\ dlClosing # "no" => ~dlCtx
    /\ dlClosing \in {"sweep", "wait", "done"} => dlSock = {}
    /\ dlClosing = "done" => /\ dlLoops = {} /\ \A c \in DlConns : dlConn[c] = "out"
                             /\ \A d \in DlDatagrams : dlUdp[d] = "out"
dlIInv == dlTyped /\ DnsSlotsBalanced /\ dlTracked /\ SweptIsClosed /\ dlClosed

\* How the counts change when a member of the family changes its place.
dlMoved(f, g, x, s) ==
    /\ f[x] \in s /\ g[x] \in s => inState(g, s) = inState(f, s)
    /\ f[x] \notin s /\ g[x] \notin s => inState(g, s) = inState(f, s)
    /\ f[x] \notin s /\ g[x] \in s => inState(g, s) = inState(f, s) + 1
    /\ f[x] \in s /\ g[x] \notin s => inState(g, s) = inState(f, s) - 1

\* What is counted: moving one member of a finite family changes a count by what it leaves and enters.
LEMMA dlCount ==
    ASSUME NEW D, IsFiniteSet(D), NEW S, NEW f \in [D -> S], NEW s
    PROVE  inState(f, s) \in Nat
<1>1. {x \in DOMAIN f : f[x] \in s} \in SUBSET D OBVIOUS
<1>2. IsFiniteSet({x \in DOMAIN f : f[x] \in s}) BY <1>1, FS_Subset
<1> QED BY <1>2, FS_CardinalityType DEF inState
LEMMA dlCountMoves ==
    ASSUME NEW D, IsFiniteSet(D), NEW S, NEW f \in [D -> S], NEW x \in D,
           NEW g \in [D -> S], \A y \in D : y # x => g[y] = f[y], NEW s
    PROVE  dlMoved(f, g, x, s)
<1> DEFINE A == {y \in DOMAIN f : f[y] \in s}
           B == {y \in DOMAIN g : g[y] \in s}
<1>1. A \in SUBSET D OBVIOUS
<1>2. IsFiniteSet(A) BY <1>1, FS_Subset
<1>3. inState(f, s) = Cardinality(A) /\ inState(g, s) = Cardinality(B) BY DEF inState
<1>4. f[x] \in s /\ g[x] \in s => B = A OBVIOUS
<1>5. f[x] \notin s /\ g[x] \notin s => B = A OBVIOUS
<1>6. f[x] \notin s /\ g[x] \in s => B = A \cup {x} /\ x \notin A OBVIOUS
<1>7. f[x] \in s /\ g[x] \notin s => B = A \ {x} /\ x \in A OBVIOUS
<1> HIDE DEF A, B
<1>8. f[x] \notin s /\ g[x] \in s => Cardinality(B) = Cardinality(A) + 1 BY <1>2, <1>6, FS_AddElement
<1>9. f[x] \in s /\ g[x] \notin s => Cardinality(B) = Cardinality(A) - 1 BY <1>2, <1>7, FS_RemoveElement
<1> QED BY <1>3, <1>4, <1>5, <1>8, <1>9 DEF dlMoved

-----------------------------------------------------------------------------
DlConnBusy == {"accepted", "read", "exchange"}
DlUdpBusy == {"start", "exchange", "reply"}
LEMMA dlConnCounts ==
    ASSUME dlTyped PROVE inState(dlConn, DlConnBusy) \in Nat /\ inState(dlConn, {"exchange"}) \in Nat
BY dlCount, DlAssumption DEF dlTyped
LEMMA dlUdpCounts ==
    ASSUME dlTyped PROVE inState(dlUdp, DlUdpBusy) \in Nat /\ inState(dlUdp, {"exchange"}) \in Nat
BY dlCount, DlAssumption DEF dlTyped
LEMMA dlConnMoves ==
    ASSUME dlTyped, NEW c \in DlConns, NEW g \in [DlConns -> DlConnStates], \A x \in DlConns : x # c => g[x] = dlConn[x], NEW s
    PROVE  dlMoved(dlConn, g, c, s)
<1>1. dlConn \in [DlConns -> DlConnStates] BY DEF dlTyped
<1>2. IsFiniteSet(DlConns) BY DlAssumption
<1> QED BY <1>1, <1>2, dlCountMoves
LEMMA dlUdpMoves ==
    ASSUME dlTyped, NEW d \in DlDatagrams, NEW g \in [DlDatagrams -> DlUdpStates], \A x \in DlDatagrams : x # d => g[x] = dlUdp[x], NEW s
    PROVE  dlMoved(dlUdp, g, d, s)
<1>1. dlUdp \in [DlDatagrams -> DlUdpStates] BY DEF dlTyped
<1>2. IsFiniteSet(DlDatagrams) BY DlAssumption
<1> QED BY <1>1, <1>2, dlCountMoves

LEMMA dlInitially == dlInit => dlIInv
<1> SUFFICES ASSUME dlInit PROVE dlIInv
    OBVIOUS
<1>1. dlTyped BY DEF dlInit, dlTyped, DlConnStates, DlUdpStates
<1>2. DnsSlotsBalanced
    <2>1. \A s : "out" \notin s => {x \in DOMAIN dlConn : dlConn[x] \in s} = {} BY DEF dlInit
    <2>2. \A s : "out" \notin s => {x \in DOMAIN dlUdp : dlUdp[x] \in s} = {} BY DEF dlInit
    <2>3. \A s : "out" \notin s => inState(dlConn, s) = 0 /\ inState(dlUdp, s) = 0
        BY <2>1, <2>2, FS_EmptySet DEF inState
    <2>4. /\ inState(dlConn, {"accepted", "read", "exchange"}) = 0 /\ inState(dlUdp, {"start", "exchange", "reply"}) = 0
          /\ inState(dlConn, {"exchange"}) = 0 /\ inState(dlUdp, {"exchange"}) = 0
        BY <2>3
    <2> QED BY <2>4 DEF DnsSlotsBalanced, dlInit
<1>3. dlTracked BY DEF dlInit, dlTracked
<1>4. SweptIsClosed /\ dlClosed BY DEF dlInit, SweptIsClosed, dlClosed
<1> QED BY <1>1, <1>2, <1>3, <1>4 DEF dlIInv

LEMMA dlImplies == dlIInv => ListenersSafe
<1> SUFFICES ASSUME dlIInv PROVE ListenersSafe
    OBVIOUS
<1>1. ClosedIsQuiet
    <2> SUFFICES ASSUME dlClosing = "done"
                 PROVE /\ dlMap = {} /\ dlQuerySlots = 0 /\ dlReqSlots = 0
                       /\ \A c \in DlConns : dlConn[c] = "out"
        BY DEF ClosedIsQuiet
    <2>1. /\ (\A c \in DlConns : dlConn[c] = "out") /\ \A d \in DlDatagrams : dlUdp[d] = "out"
          /\ dlConn \in [DlConns -> DlConnStates] /\ dlUdp \in [DlDatagrams -> DlUdpStates]
        BY DEF dlIInv, dlClosed, dlTyped
    <2>2. dlMap = {} BY <2>1 DEF dlIInv, dlTracked, dlTyped
    <2>3. \A s : "out" \notin s => {x \in DOMAIN dlConn : dlConn[x] \in s} = {} BY <2>1
    <2>4. \A s : "out" \notin s => {x \in DOMAIN dlUdp : dlUdp[x] \in s} = {}
        <3>1. \A d \in DOMAIN dlUdp : dlUdp[d] = "out" BY <2>1
        <3> QED BY <3>1
    <2>5. \A s : "out" \notin s => inState(dlConn, s) = 0 /\ inState(dlUdp, s) = 0
        BY <2>3, <2>4, FS_EmptySet DEF inState
    <2>6. /\ inState(dlUdp, {"start", "exchange", "reply"}) = 0
          /\ inState(dlConn, {"exchange"}) = 0 /\ inState(dlUdp, {"exchange"}) = 0
        BY <2>5
    <2> QED BY <2>1, <2>2, <2>6 DEF dlIInv, DnsSlotsBalanced
<1> QED BY <1>1 DEF dlIInv, ListenersSafe

\* The steps of one connection.
LEMMA dlConnStep ==
    ASSUME dlIInv, NEW c \in DlConns,
           acceptSlot(c) \/ acceptTracks(c) \/ serveTCP(c) \/ answersTCP(c) \/ peerLeaves(c) \/ trackedClose(c)
    PROVE  dlIInv'
<1> USE DEF dlIInv, DlConnBusy, DlUdpBusy
<1>0. /\ inState(dlConn, {"accepted", "read", "exchange"}) \in Nat /\ inState(dlConn, {"exchange"}) \in Nat
      /\ inState(dlUdp, {"start", "exchange", "reply"}) \in Nat /\ inState(dlUdp, {"exchange"}) \in Nat
    BY dlConnCounts, dlUdpCounts
<1>1. CASE acceptSlot(c)
    <2>1. /\ "tcp" \in dlSock \cap dlLoops /\ dlConn[c] = "out" /\ \A d \in DlConns : dlConn[d] # "accepted"
          /\ dlConnSlots' = dlConnSlots + 1 /\ dlConn' = [dlConn EXCEPT ![c] = "accepted"]
          /\ dlOpen' = dlOpen \cup {c}
          /\ UNCHANGED <<dlCtx, dlSock, dlLoops, dlClosing, dlMap, dlUdp, dlReqSlots, dlQuerySlots>>
        BY <1>1 DEF acceptSlot, dlRun
    <2>2. "accepted" \in DlConnStates BY DEF DlConnStates
    <2>3. /\ dlConn' \in [DlConns -> DlConnStates] /\ dlConn'[c] = "accepted"
          /\ \A d \in DlConns : d # c => dlConn'[d] = dlConn[d]
        BY <2>1, <2>2 DEF dlTyped
    <2>8. /\ dlMoved(dlConn, dlConn', c, {"accepted", "read", "exchange"})
          /\ dlMoved(dlConn, dlConn', c, {"exchange"})
        BY <2>3, dlConnMoves
    <2>9. /\ inState(dlConn', {"accepted", "read", "exchange"}) = inState(dlConn, {"accepted", "read", "exchange"}) + 1
          /\ inState(dlConn', {"exchange"}) = inState(dlConn, {"exchange"})
        BY <2>1, <2>3, <2>8 DEF dlMoved
    <2>4. dlTyped' BY <2>1, <2>3 DEF dlTyped
    <2>5. DnsSlotsBalanced' BY <1>0, <2>1, <2>3, <2>9 DEF DnsSlotsBalanced
    <2>6. dlTracked' BY <2>1, <2>3 DEF dlTracked
    <2>7. SweptIsClosed' /\ dlClosed' BY <2>1, <2>3 DEF SweptIsClosed, dlClosed, dlTyped
    <2> QED BY <2>4, <2>5, <2>6, <2>7
<1>2. CASE acceptTracks(c) /\ dlCtx
    <2>1. /\ dlConn[c] = "accepted" /\ dlMap' = dlMap \cup {c} /\ dlConn' = [dlConn EXCEPT ![c] = "read"]
          /\ UNCHANGED <<dlCtx, dlSock, dlLoops, dlClosing, dlOpen, dlUdp, dlConnSlots, dlReqSlots, dlQuerySlots>>
        BY <1>2 DEF acceptTracks, accepts
    <2>2. "read" \in DlConnStates BY DEF DlConnStates
    <2>3. /\ dlConn' \in [DlConns -> DlConnStates] /\ dlConn'[c] = "read"
          /\ \A d \in DlConns : d # c => dlConn'[d] = dlConn[d]
        BY <2>1, <2>2 DEF dlTyped
    <2>8. /\ dlMoved(dlConn, dlConn', c, {"accepted", "read", "exchange"})
          /\ dlMoved(dlConn, dlConn', c, {"exchange"})
        BY <2>3, dlConnMoves
    <2>9. /\ inState(dlConn', {"accepted", "read", "exchange"}) = inState(dlConn, {"accepted", "read", "exchange"})
          /\ inState(dlConn', {"exchange"}) = inState(dlConn, {"exchange"})
        BY <2>1, <2>3, <2>8 DEF dlMoved
    <2>4. dlTyped' BY <2>1, <2>3 DEF dlTyped
    <2>5. DnsSlotsBalanced' BY <1>0, <2>1, <2>3, <2>9 DEF DnsSlotsBalanced
    <2>6. dlTracked' BY <2>1, <2>3 DEF dlTracked
    <2>7. SweptIsClosed' /\ dlClosed' BY <1>2, <2>1, <2>3 DEF SweptIsClosed, dlClosed, dlTyped
    <2> QED BY <2>4, <2>5, <2>6, <2>7
<1>3. CASE acceptTracks(c) /\ ~dlCtx
    <2>1. /\ dlConn[c] = "accepted" /\ dlOpen' = dlOpen \ {c} /\ dlConn' = [dlConn EXCEPT ![c] = "out"]
          /\ dlConnSlots' = dlConnSlots - 1 /\ dlLoops' = dlLoops \ {"tcp"}
          /\ UNCHANGED <<dlCtx, dlSock, dlClosing, dlMap, dlUdp, dlReqSlots, dlQuerySlots>>
        BY <1>3 DEF acceptTracks, accepts
    <2>2. "out" \in DlConnStates BY DEF DlConnStates
    <2>3. /\ dlConn' \in [DlConns -> DlConnStates] /\ dlConn'[c] = "out"
          /\ \A d \in DlConns : d # c => dlConn'[d] = dlConn[d]
        BY <2>1, <2>2 DEF dlTyped
    <2>8. /\ dlMoved(dlConn, dlConn', c, {"accepted", "read", "exchange"})
          /\ dlMoved(dlConn, dlConn', c, {"exchange"})
        BY <2>3, dlConnMoves
    <2>9. /\ inState(dlConn', {"accepted", "read", "exchange"}) = inState(dlConn, {"accepted", "read", "exchange"}) - 1
          /\ inState(dlConn', {"exchange"}) = inState(dlConn, {"exchange"})
        BY <2>1, <2>3, <2>8 DEF dlMoved
    <2>4. dlTyped' BY <2>1, <2>3 DEF dlTyped
    <2>5. DnsSlotsBalanced' BY <1>0, <2>1, <2>3, <2>9 DEF DnsSlotsBalanced
    <2>6. dlTracked'
        <3>1. \A d \in DlConns : d # c => dlConn'[d] # "accepted" BY <2>1, <2>3 DEF dlTracked
        <3> QED BY <2>1, <2>3, <3>1 DEF dlTracked
    <2>7. SweptIsClosed' /\ dlClosed' BY <2>1, <2>3 DEF SweptIsClosed, dlClosed, dlTyped
    <2> QED BY <2>4, <2>5, <2>6, <2>7
<1>4. CASE serveTCP(c) /\ takeQuery
    <2>1. \/ UNCHANGED dlVars
          \/ /\ dlConn[c] = "read" /\ c \in dlOpen /\ dlQuerySlots' = dlQuerySlots + 1
             /\ dlConn' = [dlConn EXCEPT ![c] = "exchange"]
             /\ UNCHANGED <<dlCtx, dlSock, dlLoops, dlClosing, dlOpen, dlMap, dlUdp, dlConnSlots, dlReqSlots>>
        BY <1>4 DEF serveTCP, dlRun, takeQuery, busyQuery, dlVars
    <2>2. CASE UNCHANGED dlVars
        BY <2>2 DEF dlTyped, DnsSlotsBalanced, dlTracked, SweptIsClosed, dlClosed, dlVars
    <2>3. CASE /\ dlConn[c] = "read" /\ c \in dlOpen /\ dlQuerySlots' = dlQuerySlots + 1
               /\ dlConn' = [dlConn EXCEPT ![c] = "exchange"]
               /\ UNCHANGED <<dlCtx, dlSock, dlLoops, dlClosing, dlOpen, dlMap, dlUdp, dlConnSlots, dlReqSlots>>
        <3>2. "exchange" \in DlConnStates BY DEF DlConnStates
        <3>3. /\ dlConn' \in [DlConns -> DlConnStates] /\ dlConn'[c] = "exchange"
              /\ \A d \in DlConns : d # c => dlConn'[d] = dlConn[d]
            BY <2>3, <3>2 DEF dlTyped
        <3>8. /\ dlMoved(dlConn, dlConn', c, {"accepted", "read", "exchange"})
              /\ dlMoved(dlConn, dlConn', c, {"exchange"})
            BY <3>3, dlConnMoves
        <3>9. /\ inState(dlConn', {"accepted", "read", "exchange"}) = inState(dlConn, {"accepted", "read", "exchange"})
              /\ inState(dlConn', {"exchange"}) = inState(dlConn, {"exchange"}) + 1
            BY <2>3, <3>3, <3>8 DEF dlMoved
        <3>4. dlTyped' BY <2>3, <3>3 DEF dlTyped
        <3>5. DnsSlotsBalanced' BY <1>0, <2>3, <3>3, <3>9 DEF DnsSlotsBalanced
        <3>6. dlTracked' BY <2>3, <3>3 DEF dlTracked
        <3>7. SweptIsClosed' /\ dlClosed' BY <2>3, <3>3 DEF SweptIsClosed, dlClosed, dlTyped
        <3> QED BY <3>4, <3>5, <3>6, <3>7
    <2> QED BY <2>1, <2>2, <2>3
<1>5. CASE serveTCP(c) /\ ~takeQuery
    <2>1. UNCHANGED dlVars BY <1>5 DEF serveTCP, dlRun, busyQuery, dlVars
    <2> QED BY <2>1 DEF dlTyped, DnsSlotsBalanced, dlTracked, SweptIsClosed, dlClosed, dlVars
<1>6. CASE answersTCP(c)
    <2>1. /\ dlConn[c] = "exchange" /\ dlQuerySlots' = dlQuerySlots - 1 /\ dlConn' = [dlConn EXCEPT ![c] = "read"]
          /\ UNCHANGED <<dlCtx, dlSock, dlLoops, dlClosing, dlOpen, dlMap, dlUdp, dlConnSlots, dlReqSlots>>
        BY <1>6 DEF answersTCP, dlRun
    <2>2. "read" \in DlConnStates BY DEF DlConnStates
    <2>3. /\ dlConn' \in [DlConns -> DlConnStates] /\ dlConn'[c] = "read"
          /\ \A d \in DlConns : d # c => dlConn'[d] = dlConn[d]
        BY <2>1, <2>2 DEF dlTyped
    <2>8. /\ dlMoved(dlConn, dlConn', c, {"accepted", "read", "exchange"})
          /\ dlMoved(dlConn, dlConn', c, {"exchange"})
        BY <2>3, dlConnMoves
    <2>9. /\ inState(dlConn', {"accepted", "read", "exchange"}) = inState(dlConn, {"accepted", "read", "exchange"})
          /\ inState(dlConn', {"exchange"}) = inState(dlConn, {"exchange"}) - 1
        BY <2>1, <2>3, <2>8 DEF dlMoved
    <2>4. dlTyped' BY <2>1, <2>3 DEF dlTyped
    <2>5. DnsSlotsBalanced' BY <1>0, <2>1, <2>3, <2>9 DEF DnsSlotsBalanced
    <2>6. dlTracked' BY <2>1, <2>3 DEF dlTracked
    <2>7. SweptIsClosed' /\ dlClosed' BY <2>1, <2>3 DEF SweptIsClosed, dlClosed, dlTyped
    <2> QED BY <2>4, <2>5, <2>6, <2>7
<1>7. CASE peerLeaves(c)
    <2>1. /\ c \in dlOpen /\ dlConn[c] # "accepted" /\ dlOpen' = dlOpen \ {c}
          /\ UNCHANGED <<dlCtx, dlSock, dlLoops, dlClosing, dlConn, dlMap, dlUdp, dlConnSlots, dlReqSlots, dlQuerySlots>>
        BY <1>7 DEF peerLeaves, dlRun
    <2>2. dlTyped' /\ DnsSlotsBalanced' BY <2>1 DEF dlTyped, DnsSlotsBalanced
    <2>3. dlTracked' BY <2>1 DEF dlTracked
    <2>4. SweptIsClosed' /\ dlClosed' BY <2>1 DEF SweptIsClosed, dlClosed
    <2> QED BY <2>2, <2>3, <2>4
<1>8. CASE trackedClose(c)
    <2>1. /\ dlConn[c] = "read" /\ c \notin dlOpen /\ dlConn' = [dlConn EXCEPT ![c] = "out"]
          /\ dlMap' = dlMap \ {c} /\ dlConnSlots' = dlConnSlots - 1
          /\ UNCHANGED <<dlCtx, dlSock, dlLoops, dlClosing, dlOpen, dlUdp, dlReqSlots, dlQuerySlots>>
        BY <1>8 DEF trackedClose, releaseConn, dlRun
    <2>2. "out" \in DlConnStates BY DEF DlConnStates
    <2>3. /\ dlConn' \in [DlConns -> DlConnStates] /\ dlConn'[c] = "out"
          /\ \A d \in DlConns : d # c => dlConn'[d] = dlConn[d]
        BY <2>1, <2>2 DEF dlTyped
    <2>8. /\ dlMoved(dlConn, dlConn', c, {"accepted", "read", "exchange"})
          /\ dlMoved(dlConn, dlConn', c, {"exchange"})
        BY <2>3, dlConnMoves
    <2>9. /\ inState(dlConn', {"accepted", "read", "exchange"}) = inState(dlConn, {"accepted", "read", "exchange"}) - 1
          /\ inState(dlConn', {"exchange"}) = inState(dlConn, {"exchange"})
        BY <2>1, <2>3, <2>8 DEF dlMoved
    <2>4. dlTyped' BY <2>1, <2>3 DEF dlTyped
    <2>5. DnsSlotsBalanced' BY <1>0, <2>1, <2>3, <2>9 DEF DnsSlotsBalanced
    <2>6. dlTracked' BY <2>1, <2>3 DEF dlTracked
    <2>7. SweptIsClosed' /\ dlClosed' BY <2>1, <2>3 DEF SweptIsClosed, dlClosed, dlTyped
    <2> QED BY <2>4, <2>5, <2>6, <2>7
<1> QED BY <1>1, <1>2, <1>3, <1>4, <1>5, <1>6, <1>7, <1>8

\* The steps of one datagram.
LEMMA dlUdpStep ==
    ASSUME dlIInv, NEW d \in DlDatagrams, serveUDP(d) \/ queryUDP(d) \/ answersUDP(d) \/ repliesUDP(d)
    PROVE  dlIInv'
<1> USE DEF dlIInv, DlConnBusy, DlUdpBusy
<1>0. /\ inState(dlConn, {"accepted", "read", "exchange"}) \in Nat /\ inState(dlConn, {"exchange"}) \in Nat
      /\ inState(dlUdp, {"start", "exchange", "reply"}) \in Nat /\ inState(dlUdp, {"exchange"}) \in Nat
    BY dlConnCounts, dlUdpCounts
<1>1. PICK u \in DlUdpStates, dq \in {-1, 0, 1}, dr \in {-1, 0, 1} :
        /\ dlUdp' = [dlUdp EXCEPT ![d] = u] /\ dlQuerySlots' = dlQuerySlots + dq /\ dlReqSlots' = dlReqSlots + dr
        /\ \/ dlUdp[d] = "out" /\ u = "start" /\ dq = 0 /\ dr = 1 /\ "udp" \in dlLoops
           \/ dlUdp[d] = "start" /\ u = "exchange" /\ dq = 1 /\ dr = 0
           \/ dlUdp[d] = "start" /\ u = "reply" /\ dq = 0 /\ dr = 0
           \/ dlUdp[d] = "exchange" /\ u = "reply" /\ dq = -1 /\ dr = 0
           \/ dlUdp[d] = "reply" /\ u = "out" /\ dq = 0 /\ dr = -1
    <2>0. dlQuerySlots \in Int /\ dlReqSlots \in Int BY <1>0 DEF DnsSlotsBalanced
    <2>1. CASE serveUDP(d) BY <2>0, <2>1 DEF serveUDP, DlUdpStates
    <2>2. CASE queryUDP(d) BY <2>0, <2>2 DEF queryUDP, takeQuery, busyQuery, DlUdpStates
    <2>3. CASE answersUDP(d) BY <2>0, <2>3 DEF answersUDP, DlUdpStates
    <2>4. CASE repliesUDP(d) BY <2>0, <2>4 DEF repliesUDP, DlUdpStates
    <2> QED BY <2>1, <2>2, <2>3, <2>4
<1>2. UNCHANGED <<dlCtx, dlSock, dlLoops, dlClosing, dlConn, dlOpen, dlMap, dlConnSlots>>
    BY DEF serveUDP, queryUDP, answersUDP, repliesUDP, dlRun
<1>3. /\ dlUdp' \in [DlDatagrams -> DlUdpStates] /\ dlUdp'[d] = u
      /\ \A x \in DlDatagrams : x # d => dlUdp'[x] = dlUdp[x]
    BY <1>1 DEF dlTyped
<1>4. inState(dlUdp', {"start", "exchange", "reply"}) = inState(dlUdp, {"start", "exchange", "reply"}) + dr
    <2>1. dlMoved(dlUdp, dlUdp', d, {"start", "exchange", "reply"}) BY <1>3, dlUdpMoves
    <2> QED BY <1>0, <1>1, <1>3, <2>1 DEF dlMoved
<1>5. inState(dlUdp', {"exchange"}) = inState(dlUdp, {"exchange"}) + dq
    <2>1. dlMoved(dlUdp, dlUdp', d, {"exchange"}) BY <1>3, dlUdpMoves
    <2> QED BY <1>0, <1>1, <1>3, <2>1 DEF dlMoved
<1>6. dlTyped' BY <1>2, <1>3 DEF dlTyped
<1>7. DnsSlotsBalanced' BY <1>0, <1>1, <1>2, <1>4, <1>5 DEF DnsSlotsBalanced
<1>8. dlTracked' /\ SweptIsClosed' BY <1>2 DEF dlTracked, SweptIsClosed
<1>9. dlClosed' 
    <2>1. dlClosing # "done" BY <1>1 DEF dlClosed
    <2> QED BY <1>2, <2>1 DEF dlClosed
<1> QED BY <1>6, <1>7, <1>8, <1>9

\* The steps of the loops and of Close.
LEMMA dlRunStep ==
    ASSUME dlIInv, (\E l \in {"tcp", "udp"} : loopEnds(l)) \/ closeCancel \/ closeSockets \/ closeSweep \/ listenersWait
    PROVE  dlIInv'
<1> USE DEF dlIInv
<1>1. UNCHANGED <<dlConn, dlMap, dlUdp, dlConnSlots, dlReqSlots, dlQuerySlots>>
    BY DEF loopEnds, closeCancel, closeSockets, closeSweep, listenersWait
<1>2. DnsSlotsBalanced' BY <1>1 DEF DnsSlotsBalanced
<1>3. ASSUME NEW l \in {"tcp", "udp"}, loopEnds(l) PROVE dlIInv'
    <2>1. /\ l = "tcp" => \A c \in DlConns : dlConn[c] # "accepted"
          /\ dlLoops' = dlLoops \ {l} /\ dlCtx' = (dlCtx /\ l \notin dlSock)
          /\ UNCHANGED <<dlOpen, dlSock, dlClosing>>
        BY <1>3 DEF loopEnds
    <2>2. dlCtx' \in BOOLEAN BY <2>1
    <2>3. dlTyped' BY <1>1, <2>1, <2>2 DEF dlTyped
    <2>4. dlTracked' BY <1>1, <2>1 DEF dlTracked
    <2>5. SweptIsClosed' /\ dlClosed' BY <1>1, <2>1 DEF SweptIsClosed, dlClosed
    <2> QED BY <1>2, <2>3, <2>4, <2>5
<1>4. CASE closeCancel
    <2>1. dlTyped' /\ dlTracked' BY <1>1, <1>4 DEF closeCancel, dlTyped, dlTracked
    <2>2. SweptIsClosed' /\ dlClosed' BY <1>1, <1>4 DEF closeCancel, SweptIsClosed, dlClosed
    <2> QED BY <1>2, <2>1, <2>2
<1>5. CASE closeSockets
    <2>1. dlTyped' /\ dlTracked' BY <1>1, <1>5 DEF closeSockets, dlTyped, dlTracked
    <2>2. SweptIsClosed' /\ dlClosed' BY <1>1, <1>5 DEF closeSockets, SweptIsClosed, dlClosed
    <2> QED BY <1>2, <2>1, <2>2
<1>6. CASE closeSweep
    <2>1. /\ dlClosing = "sweep" /\ dlClosing' = "wait" /\ dlOpen' = dlOpen \ dlMap
          /\ UNCHANGED <<dlCtx, dlSock, dlLoops>>
        BY <1>6 DEF closeSweep
    <2>2. dlTyped' BY <1>1, <2>1 DEF dlTyped
    <2>3. dlTracked' BY <1>1, <2>1 DEF dlTracked
    <2>4. SweptIsClosed'
        <3> SUFFICES ASSUME NEW c \in dlOpen' PROVE dlConn'[c] = "accepted"
            BY DEF SweptIsClosed
        <3>1. c \in DlConns /\ c \in dlOpen /\ c \notin dlMap BY <2>1 DEF dlTyped
        <3>2. dlConn[c] \in DlConnStates BY <3>1 DEF dlTyped
        <3> QED BY <1>1, <3>1, <3>2 DEF dlTracked, DlConnStates
    <2>5. dlClosed' BY <1>1, <2>1 DEF dlClosed
    <2> QED BY <1>2, <2>2, <2>3, <2>4, <2>5
<1>7. CASE listenersWait
    <2>1. /\ dlClosing = "wait" /\ dlClosing' = "done" /\ dlLoops = {}
          /\ (\A c \in DlConns : dlConn[c] \in {"out", "accepted"}) /\ \A d \in DlDatagrams : dlUdp[d] = "out"
          /\ UNCHANGED <<dlOpen, dlCtx, dlSock, dlLoops>>
        BY <1>7 DEF listenersWait, waitGroup
    <2>2. \A c \in DlConns : dlConn[c] = "out" BY <2>1 DEF dlTracked
    <2>3. dlTyped' /\ dlTracked' BY <1>1, <2>1 DEF dlTyped, dlTracked
    <2>4. SweptIsClosed'
        <3>1. dlOpen = {} BY <2>1, <2>2 DEF SweptIsClosed, dlTyped
        <3> QED BY <2>1, <3>1 DEF SweptIsClosed
    <2>5. dlSock = {} /\ ~dlCtx BY <2>1 DEF dlClosed
    <2>6. (dlClosing # "no" => ~dlCtx)' /\ (dlClosing \in {"sweep", "wait", "done"} => dlSock = {})'
        BY <2>1, <2>5
    <2>7. (\A c \in DlConns : dlConn[c] = "out")' BY <1>1, <2>2
    <2>8. \A d \in DlDatagrams : dlUdp'[d] = "out" BY <1>1, <2>1
    <2>10. dlLoops' = {} BY <2>1
    <2>9. dlClosed' BY <2>6, <2>7, <2>8, <2>10 DEF dlClosed
    <2> QED BY <1>2, <2>3, <2>4, <2>9
<1> QED BY <1>3, <1>4, <1>5, <1>6, <1>7

LEMMA dlStep == dlIInv /\ [dlNext]_dlVars => dlIInv'
<1> SUFFICES ASSUME dlIInv, [dlNext]_dlVars PROVE dlIInv'
    OBVIOUS
<1>1. CASE UNCHANGED dlVars
    BY <1>1 DEF dlIInv, dlTyped, DnsSlotsBalanced, dlTracked, SweptIsClosed, dlClosed, dlVars
<1>2. CASE dlNext BY <1>2, dlConnStep, dlUdpStep, dlRunStep DEF dlNext
<1> QED BY <1>1, <1>2

\* ListenersSafe for any number of connections and datagrams and any capacities.
THEOREM ListenersAreSafe == dlSpec => []ListenersSafe
BY dlInitially, dlStep, dlImplies, PTL DEF dlSpec

\* A change, a failure or a crash leaves the server whole or gone and dnsmasq with a port that is
\* served, and the listeners give back every slot and close every socket.
THEOREM DnsServiceIsSafe == dsSpec /\ dlSpec => DnsServiceSafe
BY ServerIsSafe, ListenersAreSafe, PTL DEF DnsServiceSafe

-----------------------------------------------------------------------------
(* The shared flights of the resolver and its cache. *)

rfSpec == rfInit /\ [][rfNext]_rfVars

\* The flight table: what the flights count and own, and what the map holds.
rfTable ==
    /\ WaitersCounted /\ OwnedByWaiters /\ Deduplicated
    /\ InflightLen <= MaxFlights /\ \A f \in Flights : flight[f].waiters <= MaxWaiters
rfStore == CacheIsFresh /\ Cardinality(Stored) <= CacheSize
\* A caller holds a flight from joining it to releasing it, and it is the flight of its question.
rfHeld ==
    \A c \in Callers :
        /\ waitsFor[c] # NoFlight <=> at[c] \in {"wait", "release"}
        /\ waitsFor[c] # NoFlight => /\ flight[waitsFor[c]].state # "free"
                                     /\ flight[waitsFor[c]].query = question[c]
                                     /\ flight[waitsFor[c]].generation = started[c]
\* What a caller has got is not older than its start, and nothing is younger than the cache.
rfAsked ==
    \A c \in Callers :
        at[c] # "idle" => /\ question[c] \in Questions
                          /\ started[c] <= got[c] /\ got[c] <= cacheGeneration
\* A flight that is not free was started for a question, in the generation of its key or later.
rfFlown ==
    \A f \in Flights :
        flight[f].state # "free" => /\ flight[f].query \in Questions
                                    /\ flight[f].generation <= flight[f].origin
                                    /\ flight[f].origin <= cacheGeneration
rfIInv == rfTypeOK /\ rfTable /\ rfStore /\ rfHeld /\ rfAsked /\ rfFlown
rfSafe == rfTypeOK /\ WaitersCounted /\ OwnedByWaiters /\ Deduplicated /\ CacheIsFresh /\ AnswerIsFresh /\ Bounded /\ FlightGoesOn

\* The invariant contains what the run checks.
LEMMA rfImplies == rfIInv => rfSafe
<1> SUFFICES ASSUME rfIInv PROVE rfSafe
    OBVIOUS
<1>1. AnswerIsFresh
    <2> SUFFICES ASSUME NEW c \in Callers, at[c] = "done" PROVE got[c] >= started[c]
        BY DEF AnswerIsFresh
    <2>1. started[c] <= got[c] BY DEF rfIInv, rfAsked
    <2> QED BY <2>1 DEF rfIInv, rfTypeOK, Generations
<1>2. Bounded BY DEF rfIInv, rfTable, rfStore, Bounded
<1>3. FlightGoesOn
    <2> SUFFICES ASSUME NEW c \in Callers, at[c] = "wait"
                 PROVE /\ waitsFor[c] \in Flights
                       /\ closed \/ Unfinished(waitsFor[c]) \/ flight[waitsFor[c]].state = "finished"
        BY DEF FlightGoesOn
    <2>1. waitsFor[c] \in Flights /\ flight[waitsFor[c]].state # "free"
        BY DEF rfIInv, rfHeld, rfTypeOK
    <2>2. flight[waitsFor[c]].state \in FlightStates
        BY <2>1 DEF rfIInv, rfTypeOK, Flight
    <2> QED BY <2>1, <2>2 DEF Unfinished, FlightStates
<1> QED BY <1>1, <1>2, <1>3 DEF rfIInv, rfSafe, rfTable, rfStore

\* Callers and questions are finitely many, so what is counted can be counted.
LEMMA rfFinite ==
    ASSUME NEW S \in SUBSET Callers
    PROVE  IsFiniteSet(S) /\ Cardinality(S) \in Nat /\ (Cardinality(S) = 0 <=> S = {})
<1>1. IsFiniteSet(S) BY FS_Subset, FlightsAssumption
<1> QED BY <1>1, FS_CardinalityType, FS_EmptySet
LEMMA rfFiniteKeys ==
    ASSUME NEW S \in SUBSET (Questions \X Generations)
    PROVE  IsFiniteSet(S) /\ Cardinality(S) \in Nat
<1>1. IsFiniteSet(Generations) BY FS_Interval, FlightsAssumption DEF Generations
<1>2. IsFiniteSet(Questions \X Generations) BY <1>1, FS_Product, FlightsAssumption
<1>3. IsFiniteSet(S) BY <1>2, FS_Subset
<1> QED BY <1>3, FS_CardinalityType
LEMMA rfFiniteQuestions ==
    ASSUME NEW S \in SUBSET Questions
    PROVE  IsFiniteSet(S) /\ Cardinality(S) \in Nat
<1>1. IsFiniteSet(S) BY FS_Subset, FlightsAssumption
<1> QED BY <1>1, FS_CardinalityType

LEMMA rfInitially == rfInit => rfIInv
<1> SUFFICES ASSUME rfInit PROVE rfIInv
    OBVIOUS
<1> USE FlightsAssumption
<1>1. 0 \in Generations /\ 0 \in Nat BY DEF Generations
<1>2. NoEntry \in Entry BY <1>1 DEF NoEntry, Entry
<1>3. FreeFlight \in Flight
    <2>1. FALSE \in BOOLEAN OBVIOUS
    <2>2. "free" \in FlightStates BY DEF FlightStates
    <2> QED BY <1>1, <2>1, <2>2 DEF FreeFlight, Flight
<1>4. rfTypeOK
    <2>1. at \in [Callers -> CallerPCs] BY DEF rfInit, CallerPCs
    <2>2. closed \in BOOLEAN BY DEF rfInit
    <2> QED BY <1>1, <1>2, <1>3, <2>1, <2>2 DEF rfInit, rfTypeOK
<1>5. \A f \in Flights : flight[f] = FreeFlight /\ flight[f].waiters = 0 /\ flight[f].state = "free"
    BY DEF rfInit, FreeFlight
<1>6. \A f \in Flights : Waiters(f) = {}
    BY DEF rfInit, Waiters
<1>7. \A i \in Questions \X Generations : inflight[i] = NoFlight
    BY DEF rfInit
<1>8. rfTable
    <2>1. WaitersCounted BY <1>5, <1>6, FS_EmptySet DEF WaitersCounted
    <2>2. OwnedByWaiters BY <1>5 DEF OwnedByWaiters, Unfinished
    <2>3. Deduplicated BY <1>5, <1>6, <1>7 DEF Deduplicated, Unfinished
    <2>4. {i \in Questions \X Generations : inflight[i] # NoFlight} = {} BY <1>7
    <2>5. InflightLen <= MaxFlights BY <2>4, FS_EmptySet DEF InflightLen
    <2>6. \A f \in Flights : flight[f].waiters <= MaxWaiters BY <1>5
    <2> QED BY <2>1, <2>2, <2>3, <2>5, <2>6 DEF rfTable
<1>9. rfStore
    <2>1. Stored = {} BY DEF rfInit, Stored, NoEntry
    <2> QED BY <2>1, FS_EmptySet DEF rfStore, CacheIsFresh
<1>10. rfHeld BY DEF rfInit, rfHeld
<1>11. rfAsked BY DEF rfInit, rfAsked
<1>12. rfFlown BY <1>5 DEF rfFlown
<1> QED BY <1>4, <1>8, <1>9, <1>10, <1>11, <1>12 DEF rfIInv

-----------------------------------------------------------------------------
\* A step that touches neither flights nor their callers leaves the table alone.
LEMMA rfTableKept ==
    ASSUME rfTable, UNCHANGED <<closed, inflight, flight, waitsFor>>
    PROVE  rfTable'
BY DEF rfTable, WaitersCounted, OwnedByWaiters, Deduplicated, InflightLen, Unfinished, Waiters

LEMMA rfStoreKept == ASSUME rfStore, UNCHANGED <<cache, cacheGeneration>> PROVE rfStore'
BY DEF rfStore, CacheIsFresh, Stored
LEMMA rfFlownKept == ASSUME rfFlown, UNCHANGED <<flight, cacheGeneration>> PROVE rfFlown'
BY DEF rfFlown

\* A put keeps the cache fresh and within its size: what it writes was resolved
\* in this generation, and a new key in a full cache takes the place of another.
LEMMA rfPut ==
    ASSUME rfTypeOK, rfStore, NEW k \in Questions, NEW g \in Generations, NEW o \in Generations,
           g <= o, o <= cacheGeneration, CachePut(k, g, o), cacheGeneration' = cacheGeneration
    PROVE  /\ cache' \in [Questions -> Entry] /\ rfStore'
           /\ closed => UNCHANGED cache
<1> USE FlightsAssumption
<1>1. CASE g # cacheGeneration \/ closed \/ CacheSize = 0
    <2>1. UNCHANGED cache BY <1>1 DEF CachePut
    <2> QED BY <2>1, rfStoreKept DEF rfTypeOK
<1>2. CASE ~(g # cacheGeneration \/ closed \/ CacheSize = 0)
    <2>1. o = cacheGeneration BY <1>2 DEF rfTypeOK, Generations
    <2> DEFINE full == Cardinality(Live \cup {k}) > CacheSize
    <2>2. PICK victim \in IF full THEN Live \ {k} ELSE {k} :
            cache' = [x \in Questions |->
                       IF x = k THEN [state |-> "live", origin |-> o]
                       ELSE IF x \in Live \ {victim} THEN cache[x]
                       ELSE NoEntry]
        BY <1>2 DEF CachePut
    <2>3. [state |-> "live", origin |-> o] \in Entry BY DEF Entry
    <2>4. NoEntry \in Entry BY DEF NoEntry, Entry, Generations
    <2>5. cache' \in [Questions -> Entry] BY <2>2, <2>3, <2>4 DEF rfTypeOK
    <2>6. Stored' = (Live \ {victim}) \cup {k}
        BY <2>2 DEF Stored, Live, NoEntry
    <2>7. CacheIsFresh'
        BY <2>1, <2>2, <2>6 DEF rfStore, CacheIsFresh, Stored, Live
    <2>8. /\ IsFiniteSet(Live) /\ Cardinality(Live) \in Nat
          /\ IsFiniteSet(Live \cup {k}) /\ Cardinality(Live \cup {k}) \in Nat
          /\ IsFiniteSet(Stored) /\ Cardinality(Stored) \in Nat
        <3>1. Live \in SUBSET Questions /\ Live \cup {k} \in SUBSET Questions /\ Stored \in SUBSET Questions
            BY DEF Live, Stored
        <3> QED BY <3>1, rfFiniteQuestions
    <2>9. Cardinality(Live) <= CacheSize
        <3>1. Live \in SUBSET Stored BY DEF Live, Stored
        <3>2. Cardinality(Live) <= Cardinality(Stored) BY <3>1, <2>8, FS_Subset
        <3> QED BY <3>2, <2>8 DEF rfStore
    <2>10. Cardinality(Stored') <= CacheSize
        <3>1. CASE full
            <4>1. victim \in Live /\ victim # k BY <3>1, <2>2
            <4>2. Stored' = (Live \cup {k}) \ {victim} BY <2>6, <4>1
            <4>3. Cardinality(Stored') = Cardinality(Live \cup {k}) - 1
                BY <4>1, <4>2, <2>8, FS_RemoveElement
            <4>4. Cardinality(Live \cup {k}) <= Cardinality(Live) + 1 BY <2>8, FS_AddElement
            <4> QED BY <4>3, <4>4, <2>8, <2>9
        <3>2. CASE ~full
            <4>1. victim = k BY <3>2, <2>2
            <4>2. Stored' = Live \cup {k} BY <4>1, <2>6
            <4> QED BY <3>2, <4>2, <2>8
        <3> QED BY <3>1, <3>2
    <2> QED BY <1>2, <2>5, <2>7, <2>10 DEF rfStore
<1> QED BY <1>1, <1>2

\* Entries that go keep it too.
LEMMA rfForget ==
    ASSUME rfTypeOK, rfStore, cacheGeneration' = cacheGeneration,
           cache' \in [Questions -> Entry],
           \A k \in Questions : cache'[k] = cache[k] \/ cache'[k].state = "none"
                                \/ (cache[k].state # "none" /\ cache'[k].origin = cache[k].origin)
    PROVE  rfStore'
<1>1. Stored' \in SUBSET Stored BY DEF Stored
<1>2. IsFiniteSet(Stored) /\ Cardinality(Stored) \in Nat
    <2>1. Stored \in SUBSET Questions BY DEF Stored
    <2> QED BY <2>1, rfFiniteQuestions
<1>3. Cardinality(Stored') <= Cardinality(Stored) BY <1>1, <1>2, FS_Subset
<1>4. Cardinality(Stored') \in Nat
    <2>1. Stored' \in SUBSET Questions BY DEF Stored
    <2> QED BY <2>1, rfFiniteQuestions
<1>5. CacheIsFresh'
    BY DEF rfStore, CacheIsFresh, Stored
<1> QED BY <1>2, <1>3, <1>4, <1>5, FlightsAssumption DEF rfStore

\* A step of one caller that leaves the flights alone keeps the invariant when what
\* it notes for the caller is right.
LEMMA rfLocal ==
    ASSUME rfIInv, NEW c \in Callers, UNCHANGED <<closed, cacheGeneration, inflight, flight, waitsFor>>,
           cache' \in [Questions -> Entry], rfStore',
           NEW l \in CallerPCs, at' = [at EXCEPT ![c] = l],
           l \in {"wait", "release"} <=> at[c] \in {"wait", "release"},
           NEW q \in Questions \cup {NoKey}, question' = [question EXCEPT ![c] = q],
           NEW s \in Generations, started' = [started EXCEPT ![c] = s],
           NEW g \in Generations, got' = [got EXCEPT ![c] = g],
           waitsFor[c] # NoFlight => q = question[c] /\ s = started[c],
           l # "idle" => q \in Questions /\ s <= g /\ g <= cacheGeneration
    PROVE  rfIInv'
<1>1. rfTypeOK' BY DEF rfIInv, rfTypeOK
<1>2. rfTable' BY rfTableKept DEF rfIInv
<1>3. rfFlown' BY rfFlownKept DEF rfIInv
<1>4. rfHeld' BY DEF rfIInv, rfHeld, rfTypeOK
<1>5. rfAsked' BY DEF rfIInv, rfAsked, rfTypeOK
<1> QED BY <1>1, <1>2, <1>3, <1>4, <1>5 DEF rfIInv

\* What the types and the invariant say of one caller.
LEMMA rfCallerFacts ==
    ASSUME rfIInv, NEW c \in Callers
    PROVE  /\ at[c] \in CallerPCs /\ question[c] \in Questions \cup {NoKey}
           /\ started[c] \in Generations /\ got[c] \in Generations /\ cacheGeneration \in Generations
           /\ waitsFor[c] \in Flights \cup {NoFlight}
           /\ question = [question EXCEPT ![c] = question[c]]
           /\ started = [started EXCEPT ![c] = started[c]]
           /\ got = [got EXCEPT ![c] = got[c]]
           /\ waitsFor[c] # NoFlight <=> at[c] \in {"wait", "release"}
           /\ at[c] # "idle" => question[c] \in Questions /\ started[c] <= got[c] /\ got[c] <= cacheGeneration
           /\ at[c] # "idle" => started[c] <= cacheGeneration
<1>1. /\ at[c] \in CallerPCs /\ question[c] \in Questions \cup {NoKey}
      /\ started[c] \in Generations /\ got[c] \in Generations /\ cacheGeneration \in Generations
      /\ waitsFor[c] \in Flights \cup {NoFlight}
      /\ question = [question EXCEPT ![c] = question[c]]
      /\ started = [started EXCEPT ![c] = started[c]]
      /\ got = [got EXCEPT ![c] = got[c]]
    BY DEF rfIInv, rfTypeOK
<1>2. waitsFor[c] # NoFlight <=> at[c] \in {"wait", "release"} BY DEF rfIInv, rfHeld
<1>3. at[c] # "idle" => question[c] \in Questions /\ started[c] <= got[c] /\ got[c] <= cacheGeneration
    BY DEF rfIInv, rfAsked
<1>4. at[c] # "idle" => started[c] <= cacheGeneration
    BY <1>1, <1>3, FlightsAssumption DEF Generations
<1> QED BY <1>1, <1>2, <1>3, <1>4

\* What the cache serves was resolved in this generation.
LEMMA rfLiveIsFresh ==
    ASSUME rfIInv, NEW k \in Live
    PROVE  k \in Questions /\ cache[k].origin = cacheGeneration /\ cache[k].origin \in Generations
<1>1. k \in Stored BY DEF Live, Stored
<1> QED BY <1>1 DEF rfIInv, rfStore, CacheIsFresh, rfTypeOK, Stored

LEMMA rfKeepsBegin == ASSUME rfIInv, NEW c \in Callers, NEW k \in Questions, rfBegin(c, k) PROVE rfIInv'
<1> USE rfCallerFacts, FlightsAssumption
<1>1. "open" \in CallerPCs BY DEF CallerPCs
<1>2. rfStore' /\ cache' \in [Questions -> Entry]
    BY rfStoreKept DEF rfIInv, rfTypeOK, rfBegin
<1>3. cacheGeneration <= cacheGeneration BY DEF Generations
<1>4. waitsFor[c] = NoFlight BY DEF rfBegin
<1>5. /\ at' = [at EXCEPT ![c] = "open"] /\ question' = [question EXCEPT ![c] = k]
      /\ started' = [started EXCEPT ![c] = cacheGeneration]
      /\ got' = [got EXCEPT ![c] = cacheGeneration]
      /\ UNCHANGED <<closed, cacheGeneration, inflight, flight, waitsFor>>
      /\ at[c] = "idle"
    BY DEF rfBegin, rfGoto, Take
<1>6. k \in Questions \cup {NoKey} OBVIOUS
<1> QED BY <1>1, <1>2, <1>3, <1>4, <1>5, <1>6, rfLocal

LEMMA rfKeepsOpen == ASSUME rfIInv, NEW c \in Callers, CheckOpen(c) PROVE rfIInv'
<1> USE rfCallerFacts
<1>1. PICK l \in {"done", "lookup"} : at' = [at EXCEPT ![c] = l] BY DEF CheckOpen, rfGoto
<1>2. l \in CallerPCs BY DEF CallerPCs
<1>3. rfStore' /\ cache' \in [Questions -> Entry] BY rfStoreKept DEF rfIInv, rfTypeOK, CheckOpen
<1>4. /\ UNCHANGED <<closed, cacheGeneration, inflight, flight, waitsFor>> /\ at[c] = "open"
      /\ question' = question /\ started' = started /\ got' = got
    BY DEF CheckOpen, caller
<1> QED BY <1>1, <1>2, <1>3, <1>4, rfLocal

LEMMA rfKeepsGet == ASSUME rfIInv, NEW c \in Callers, CacheGet(c) PROVE rfIInv'
<1> USE rfCallerFacts
<1>0. question[c] \in Questions /\ at[c] = "lookup" BY DEF CacheGet
<1>1. /\ UNCHANGED <<closed, cacheGeneration, inflight, flight, waitsFor>>
      /\ question' = question /\ started' = started
    BY DEF CacheGet, caller
<1>2. "done" \in CallerPCs /\ "shared" \in CallerPCs BY DEF CallerPCs
<1>3. CASE question[c] \in Live
    <2>1. /\ at' = [at EXCEPT ![c] = "done"] /\ UNCHANGED cache
          /\ got' = [got EXCEPT ![c] = cache[question[c]].origin]
        BY <1>3 DEF CacheGet, rfGoto, Take
    <2>2. rfStore' /\ cache' \in [Questions -> Entry] BY <1>1, <2>1, rfStoreKept DEF rfIInv, rfTypeOK
    <2>3. cache[question[c]].origin = cacheGeneration BY <1>3, rfLiveIsFresh
    <2>4. got' = [got EXCEPT ![c] = cacheGeneration] /\ cacheGeneration <= cacheGeneration
        BY <2>1, <2>3, FlightsAssumption DEF Generations
    <2> QED BY <1>0, <1>1, <1>2, <2>1, <2>2, <2>4, rfLocal
<1>4. CASE question[c] \notin Live
    <2>1. /\ at' = [at EXCEPT ![c] = "shared"] /\ got' = got
          /\ cache' = [cache EXCEPT ![question[c]] = NoEntry]
        BY <1>4 DEF CacheGet, rfGoto
    <2>2. NoEntry \in Entry /\ NoEntry.state = "none" BY FlightsAssumption DEF NoEntry, Entry, Generations
    <2>3. cache' \in [Questions -> Entry] BY <2>1, <2>2 DEF rfIInv, rfTypeOK
    <2>4. rfStore' 
        <3>1. \A k \in Questions : cache'[k] = cache[k] \/ cache'[k].state = "none"
            BY <2>1, <2>2 DEF rfIInv, rfTypeOK
        <3> QED BY <1>1, <2>3, <3>1, rfForget DEF rfIInv
    <2> QED BY <1>0, <1>1, <1>2, <2>1, <2>3, <2>4, rfLocal
<1> QED BY <1>3, <1>4

LEMMA rfKeepsCancelled == ASSUME rfIInv, NEW c \in Callers, CallerCancelled(c) PROVE rfIInv'
<1> USE rfCallerFacts
<1>1. PICK l \in {"release", "done"} : /\ at' = [at EXCEPT ![c] = l]
                                       /\ l = IF at[c] = "wait" THEN "release" ELSE "done"
    BY DEF CallerCancelled, rfGoto
<1>2. l \in CallerPCs BY DEF CallerPCs
<1>3. rfStore' /\ cache' \in [Questions -> Entry] BY rfStoreKept DEF rfIInv, rfTypeOK, CallerCancelled
<1>4. /\ UNCHANGED <<closed, cacheGeneration, inflight, flight, waitsFor>> /\ at[c] \in {"shared", "wait", "direct"}
      /\ question' = question /\ started' = started /\ got' = got
    BY DEF CallerCancelled, caller
<1> QED BY <1>1, <1>2, <1>3, <1>4, rfLocal

LEMMA rfKeepsShared == ASSUME rfIInv, NEW c \in Callers, SharedReturns(c) PROVE rfIInv'
<1> USE rfCallerFacts
<1>1. /\ UNCHANGED <<closed, cacheGeneration, inflight, flight, waitsFor>> /\ at[c] = "shared"
      /\ question' = question /\ started' = started /\ UNCHANGED cache
      /\ at' = [at EXCEPT ![c] = "done"]
    BY DEF SharedReturns, caller, rfGoto
<1>2. "done" \in CallerPCs BY DEF CallerPCs
<1>3. rfStore' /\ cache' \in [Questions -> Entry] BY <1>1, rfStoreKept DEF rfIInv, rfTypeOK
<1>4. CASE closed
    <2>1. got' = got BY <1>4 DEF SharedReturns
    <2> QED BY <1>1, <1>2, <1>3, <2>1, rfLocal
<1>5. CASE ~closed
    <2>1. question[c] \in Live /\ got' = [got EXCEPT ![c] = cache[question[c]].origin]
        BY <1>5 DEF SharedReturns, Hit, Take
    <2>2. cache[question[c]].origin = cacheGeneration BY <2>1, rfLiveIsFresh
    <2>3. got' = [got EXCEPT ![c] = cacheGeneration] /\ cacheGeneration <= cacheGeneration
        BY <2>1, <2>2, FlightsAssumption DEF Generations
    <2> QED BY <1>1, <1>2, <1>3, <2>3, rfLocal
<1> QED BY <1>4, <1>5

LEMMA rfKeepsDirect == ASSUME rfIInv, NEW c \in Callers, ResolveDirect(c) PROVE rfIInv'
<1> USE rfCallerFacts
<1>1. /\ UNCHANGED <<closed, cacheGeneration, inflight, flight, waitsFor>> /\ at[c] = "shared"
      /\ question' = question /\ started' = started /\ UNCHANGED cache
      /\ at' = [at EXCEPT ![c] = "direct"] /\ got' = [got EXCEPT ![c] = cacheGeneration]
    BY DEF ResolveDirect, caller, rfGoto, Take
<1>2. "direct" \in CallerPCs BY DEF CallerPCs
<1>3. rfStore' /\ cache' \in [Questions -> Entry] BY <1>1, rfStoreKept DEF rfIInv, rfTypeOK
<1>4. cacheGeneration <= cacheGeneration BY FlightsAssumption DEF Generations
<1> QED BY <1>1, <1>2, <1>3, <1>4, rfLocal

LEMMA rfKeepsResolved ==
    ASSUME rfIInv, NEW c \in Callers, NEW b \in BOOLEAN, DirectResolved(c, b) PROVE rfIInv'
<1> USE rfCallerFacts
<1>1. PICK l \in {"put", "done"} : at' = [at EXCEPT ![c] = l] BY DEF DirectResolved, rfGoto
<1>2. l \in CallerPCs BY DEF CallerPCs
<1>3. rfStore' /\ cache' \in [Questions -> Entry] BY rfStoreKept DEF rfIInv, rfTypeOK, DirectResolved
<1>4. /\ UNCHANGED <<closed, cacheGeneration, inflight, flight, waitsFor>> /\ at[c] = "direct"
      /\ question' = question /\ started' = started /\ got' = got
    BY DEF DirectResolved, caller
<1> QED BY <1>1, <1>2, <1>3, <1>4, rfLocal

LEMMA rfKeepsDirectPut == ASSUME rfIInv, NEW c \in Callers, DirectPut(c) PROVE rfIInv' /\ (closed => UNCHANGED cache)
<1> USE rfCallerFacts
<1>1. /\ UNCHANGED <<closed, cacheGeneration, inflight, flight, waitsFor>> /\ at[c] = "put"
      /\ question' = question /\ started' = started /\ got' = got
      /\ at' = [at EXCEPT ![c] = "done"] /\ CachePut(question[c], started[c], got[c])
    BY DEF DirectPut, caller, rfGoto
<1>2. "done" \in CallerPCs BY DEF CallerPCs
<1>3. rfStore' /\ cache' \in [Questions -> Entry] /\ (closed => UNCHANGED cache)
    BY <1>1, rfPut DEF rfIInv
<1> QED BY <1>1, <1>2, <1>3, rfLocal

LEMMA rfKeepsReturn == ASSUME rfIInv, NEW c \in Callers, rfReturn(c) PROVE rfIInv'
<1> USE rfCallerFacts
<1>1. /\ UNCHANGED <<closed, cacheGeneration, inflight, flight, waitsFor, cache>> /\ at[c] = "done"
      /\ at' = [at EXCEPT ![c] = "idle"] /\ question' = [question EXCEPT ![c] = NoKey]
      /\ started' = [started EXCEPT ![c] = 0] /\ got' = [got EXCEPT ![c] = 0]
    BY DEF rfReturn
<1>2. "idle" \in CallerPCs /\ NoKey \in Questions \cup {NoKey} /\ 0 \in Generations
    BY FlightsAssumption DEF CallerPCs, Generations
<1>3. rfStore' /\ cache' \in [Questions -> Entry] BY <1>1, rfStoreKept DEF rfIInv, rfTypeOK
<1>4. waitsFor[c] = NoFlight BY <1>1
<1> QED BY <1>1, <1>2, <1>3, <1>4, rfLocal

LEMMA rfKeepsWaitEnds == ASSUME rfIInv, NEW c \in Callers, WaitEnds(c) PROVE rfIInv'
<1> USE rfCallerFacts
<1>1. /\ UNCHANGED <<closed, cacheGeneration, inflight, flight, waitsFor, cache>> /\ at[c] = "wait"
      /\ at' = [at EXCEPT ![c] = "release"] /\ question' = question /\ started' = started
    BY DEF WaitEnds, caller, rfGoto
<1>2. "release" \in CallerPCs BY DEF CallerPCs
<1>3. rfStore' /\ cache' \in [Questions -> Entry] BY <1>1, rfStoreKept DEF rfIInv, rfTypeOK
<1>4. got' = got \/ got' = [got EXCEPT ![c] = flight[waitsFor[c]].origin] BY DEF WaitEnds, Take
<1>5. CASE got' = got BY <1>1, <1>2, <1>3, <1>5, rfLocal
<1>6. CASE got' = [got EXCEPT ![c] = flight[waitsFor[c]].origin]
    <2> DEFINE o == flight[waitsFor[c]].origin
    <2>1. waitsFor[c] \in Flights BY <1>1
    <2>2. /\ flight[waitsFor[c]].state # "free" /\ flight[waitsFor[c]].generation = started[c]
        BY <1>1 DEF rfIInv, rfHeld
    <2>3. o \in Generations BY <2>1 DEF rfIInv, rfTypeOK, Flight
    <2>4. started[c] <= o /\ o <= cacheGeneration BY <2>1, <2>2 DEF rfIInv, rfFlown
    <2> HIDE DEF o
    <2>5. got' = [got EXCEPT ![c] = o] BY <1>6 DEF o
    <2> QED BY <1>1, <1>2, <1>3, <2>3, <2>4, <2>5, rfLocal
<1> QED BY <1>4, <1>5, <1>6

-----------------------------------------------------------------------------
\* What the invariant says of one flight.
LEMMA rfFlightFacts ==
    ASSUME rfIInv, NEW f \in Flights
    PROVE  /\ flight[f] \in Flight /\ flight[f].waiters \in Nat /\ flight[f].state \in FlightStates
           /\ flight[f].waiters = Cardinality(Waiters(f)) /\ flight[f].waiters <= MaxWaiters
           /\ flight[f].generation \in Generations /\ flight[f].query \in Questions \cup {NoKey}
           /\ flight[f].cancelled \in BOOLEAN
           /\ flight[f].waiters = 0 <=> Waiters(f) = {}
           /\ flight[f].state = "free" => Waiters(f) = {}
           /\ flight[f].state # "free" =>
                <<flight[f].query, flight[f].generation>> \in Questions \X Generations
<1>1. flight[f] \in Flight BY DEF rfIInv, rfTypeOK
<1>2. /\ flight[f].waiters \in Nat /\ flight[f].state \in FlightStates
      /\ flight[f].generation \in Generations /\ flight[f].query \in Questions \cup {NoKey}
    BY <1>1 DEF Flight
<1>3. flight[f].waiters = Cardinality(Waiters(f)) /\ flight[f].waiters <= MaxWaiters
    BY DEF rfIInv, rfTable, WaitersCounted
<1>4. Waiters(f) \in SUBSET Callers BY DEF Waiters
<1>5. flight[f].waiters = 0 <=> Waiters(f) = {} BY <1>3, <1>4, rfFinite
<1>6. flight[f].state = "free" => Waiters(f) = {}
    BY FlightsAssumption DEF rfIInv, rfHeld, Waiters
<1>7. flight[f].state # "free" => <<flight[f].query, flight[f].generation>> \in Questions \X Generations
    BY <1>2 DEF rfIInv, rfFlown
<1>8. flight[f].cancelled \in BOOLEAN BY <1>1, Zenon DEF Flight
<1> QED BY <1>1, <1>2, <1>3, <1>5, <1>6, <1>7, <1>8

\* A caller that takes or gives back a flight changes the number of its waiters by one.
LEMMA rfOneMore ==
    ASSUME rfTypeOK, NEW c \in Callers, NEW f \in Flights, waitsFor[c] = NoFlight,
           waitsFor' = [waitsFor EXCEPT ![c] = f]
    PROVE  /\ Waiters(f)' = Waiters(f) \cup {c} /\ Waiters(f)' # {}
           /\ Cardinality(Waiters(f)') = Cardinality(Waiters(f)) + 1
           /\ \A g \in Flights \ {f} : Waiters(g)' = Waiters(g)
<1>1. Waiters(f)' = Waiters(f) \cup {c} /\ c \notin Waiters(f)
    BY FlightsAssumption DEF Waiters, rfTypeOK
<1>2. Waiters(f) \in SUBSET Callers BY DEF Waiters
<1>3. Cardinality(Waiters(f)') = Cardinality(Waiters(f)) + 1
    BY <1>1, <1>2, rfFinite, FS_AddElement
<1>4. \A g \in Flights \ {f} : Waiters(g)' = Waiters(g)
    BY FlightsAssumption DEF Waiters, rfTypeOK
<1> QED BY <1>1, <1>3, <1>4
LEMMA rfOneLess ==
    ASSUME rfTypeOK, NEW c \in Callers, NEW f \in Flights, waitsFor[c] = f,
           waitsFor' = [waitsFor EXCEPT ![c] = NoFlight]
    PROVE  /\ Cardinality(Waiters(f)') = Cardinality(Waiters(f)) - 1
           /\ Cardinality(Waiters(f)') \in Nat
           /\ Cardinality(Waiters(f)') = 0 <=> Waiters(f)' = {}
           /\ \A g \in Flights \ {f} : Waiters(g)' = Waiters(g)
<1>1. Waiters(f)' = Waiters(f) \ {c} /\ c \in Waiters(f)
    BY FlightsAssumption DEF Waiters, rfTypeOK
<1>2. Waiters(f) \in SUBSET Callers BY DEF Waiters
<1>3. Cardinality(Waiters(f)') = Cardinality(Waiters(f)) - 1
    BY <1>1, <1>2, rfFinite, FS_RemoveElement
<1>4. \A g \in Flights \ {f} : Waiters(g)' = Waiters(g)
    BY FlightsAssumption DEF Waiters, rfTypeOK
<1>5. Waiters(f)' \in SUBSET Callers BY <1>1, <1>2
<1> QED BY <1>3, <1>4, <1>5, rfFinite

\* An entry more or less in the map.
rfMapped == {i \in Questions \X Generations : inflight[i] # NoFlight}
LEMMA rfMapGrows ==
    ASSUME rfTypeOK, NEW i \in Questions \X Generations, NEW f \in Flights, InflightLen < MaxFlights,
           inflight' = [inflight EXCEPT ![i] = f]
    PROVE  InflightLen' <= MaxFlights
<1>1. rfMapped \in SUBSET (Questions \X Generations) BY DEF rfMapped
<1>2. rfMapped' = rfMapped \cup {i} BY FlightsAssumption DEF rfMapped, rfTypeOK
<1>3. IsFiniteSet(rfMapped) /\ Cardinality(rfMapped) \in Nat BY <1>1, rfFiniteKeys
<1>4. /\ Cardinality(rfMapped \cup {i}) <= Cardinality(rfMapped) + 1
      /\ Cardinality(rfMapped \cup {i}) \in Nat
    <2>1. Cardinality(rfMapped \cup {i}) = IF i \in rfMapped THEN Cardinality(rfMapped) ELSE Cardinality(rfMapped) + 1
        BY <1>3, FS_AddElement
    <2> QED BY <1>3, <2>1
<1>5. Cardinality(rfMapped') <= Cardinality(rfMapped) + 1 /\ Cardinality(rfMapped') \in Nat BY <1>2, <1>4
<1>6. InflightLen = Cardinality(rfMapped) /\ InflightLen' = Cardinality(rfMapped')
    BY DEF InflightLen, rfMapped
<1> QED BY <1>3, <1>4, <1>5, <1>6, FlightsAssumption
LEMMA rfMapShrinks ==
    ASSUME rfTypeOK, InflightLen <= MaxFlights,
           inflight' \in [Questions \X Generations -> Flights \cup {NoFlight}],
           \A i \in Questions \X Generations : inflight'[i] # NoFlight => inflight'[i] = inflight[i]
    PROVE  InflightLen' <= MaxFlights
<1>1. rfMapped \in SUBSET (Questions \X Generations) BY DEF rfMapped
<1>2. rfMapped' \in SUBSET rfMapped BY DEF rfMapped
<1>3. IsFiniteSet(rfMapped) /\ Cardinality(rfMapped) \in Nat BY <1>1, rfFiniteKeys
<1>4. Cardinality(rfMapped') <= Cardinality(rfMapped) BY <1>2, <1>3, FS_Subset
<1>5. rfMapped' \in SUBSET (Questions \X Generations) BY <1>1, <1>2
<1>6. Cardinality(rfMapped') \in Nat BY <1>5, rfFiniteKeys
<1>7. InflightLen = Cardinality(rfMapped) /\ InflightLen' = Cardinality(rfMapped')
    BY DEF InflightLen, rfMapped
<1> QED BY <1>3, <1>4, <1>6, <1>7, FlightsAssumption

LEMMA rfKeepsJoin == ASSUME rfIInv, NEW c \in Callers, JoinFlight(c) PROVE rfIInv'
<1> USE rfCallerFacts, FlightsAssumption
<1> DEFINE i == <<question[c], started[c]>>
<1>1. PICK f : f = inflight[i] OBVIOUS
<1>2. /\ at[c] = "shared" /\ ~closed /\ f # NoFlight /\ ~(flight[f].waiters >= MaxWaiters)
      /\ flight' = [flight EXCEPT ![f].waiters = @ + 1]
      /\ waitsFor' = [waitsFor EXCEPT ![c] = f]
      /\ at' = [at EXCEPT ![c] = "wait"]
      /\ UNCHANGED <<closed, cacheGeneration, cache, inflight, question, started, got>>
    BY <1>1 DEF JoinFlight, FlightKey, Overflow, rfGoto, caller
<1>3. i \in Questions \X Generations BY <1>2
<1>4. f \in Flights BY <1>1, <1>2, <1>3 DEF rfIInv, rfTypeOK
<1>5. /\ Unfinished(f) /\ Waiters(f) # {} /\ i = <<flight[f].query, flight[f].generation>>
    BY <1>1, <1>2, <1>3 DEF rfIInv, rfTable, Deduplicated
<1>6. flight[f].query = question[c] /\ flight[f].generation = started[c] BY <1>5
<1>7. flight[f] \in Flight /\ flight[f].waiters \in Nat /\ flight[f].waiters < MaxWaiters
    <2>1. flight[f] \in Flight /\ flight[f].waiters \in Nat BY <1>4, rfFlightFacts
    <2> QED BY <1>2, <2>1
<1>8. flight'[f] \in Flight
    <2>1. flight'[f] = [flight[f] EXCEPT !.waiters = flight[f].waiters + 1]
        BY <1>2, <1>4 DEF rfIInv, rfTypeOK
    <2> QED BY <1>7, <2>1 DEF Flight
<1>9. /\ flight'[f].waiters = flight[f].waiters + 1
      /\ \A g \in Flights :
            /\ flight'[g].state = flight[g].state /\ flight'[g].query = flight[g].query
            /\ flight'[g].generation = flight[g].generation
            /\ flight'[g].cancelled = flight[g].cancelled
            /\ flight'[g].origin = flight[g].origin
            /\ g # f => flight'[g] = flight[g]
    BY <1>2, <1>4, <1>7 DEF rfIInv, rfTypeOK, Flight
<1>10. waitsFor[c] = NoFlight BY <1>2
<1>11. /\ Waiters(f)' # {} /\ Cardinality(Waiters(f)') = Cardinality(Waiters(f)) + 1
       /\ \A g \in Flights \ {f} : Waiters(g)' = Waiters(g)
    BY <1>2, <1>4, <1>10, rfOneMore DEF rfIInv
<1>12. rfTypeOK'
    <2>1. "wait" \in CallerPCs BY DEF CallerPCs
    <2>2. flight' \in [Flights -> Flight] BY <1>2, <1>8, <1>9 DEF rfIInv, rfTypeOK
    <2> QED BY <1>2, <1>4, <2>1, <2>2 DEF rfIInv, rfTypeOK
<1>13. rfTable'
    <2>1. WaitersCounted'
        <3> SUFFICES ASSUME NEW g \in Flights PROVE flight'[g].waiters = Cardinality(Waiters(g)')
            BY DEF WaitersCounted
        <3>1. flight[g].waiters = Cardinality(Waiters(g)) BY rfFlightFacts
        <3> QED BY <1>4, <1>9, <1>11, <3>1
    <2>2. OwnedByWaiters'
        <3> SUFFICES ASSUME NEW g \in Flights, Unfinished(g)'
                     PROVE  flight'[g].cancelled <=> (Waiters(g)' = {} \/ closed')
            BY DEF OwnedByWaiters
        <3>1. Unfinished(g) BY <1>9 DEF Unfinished
        <3>2. flight[g].cancelled <=> (Waiters(g) = {} \/ closed) BY <3>1 DEF rfIInv, rfTable, OwnedByWaiters
        <3> QED BY <1>2, <1>5, <1>9, <1>11, <3>2
    <2>3. Deduplicated'
        <3>1. ASSUME NEW g \in Flights, Unfinished(g)', Waiters(g)' # {}
              PROVE  inflight'[<<flight'[g].query, flight'[g].generation>>] = g
            <4>1. Unfinished(g) BY <1>9, <3>1 DEF Unfinished
            <4>2. Waiters(g) # {} BY <1>5, <1>11, <3>1
            <4> QED BY <1>2, <1>9, <4>1, <4>2 DEF rfIInv, rfTable, Deduplicated
        <3>2. ASSUME NEW j \in Questions \X Generations, inflight'[j] # NoFlight
              PROVE  /\ Unfinished(inflight[j])' /\ Waiters(inflight[j])' # {}
                     /\ j = <<flight'[inflight'[j]].query, flight'[inflight'[j]].generation>>
            <4>1. PICK g \in Flights : g = inflight[j] BY <1>2, <3>2 DEF rfIInv, rfTypeOK
            <4>2. /\ Unfinished(g) /\ Waiters(g) # {} /\ j = <<flight[g].query, flight[g].generation>>
                BY <1>2, <3>2, <4>1 DEF rfIInv, rfTable, Deduplicated
            <4>3. Waiters(g)' # {} BY <1>11, <4>2
            <4>4. inflight'[j] = g BY <1>2, <4>1
            <4>5. flight'[g].state \in {"running", "put", "publish"} BY <1>9, <4>2 DEF Unfinished
            <4>6. {x \in Callers : waitsFor'[x] = g} # {} BY <4>3 DEF Waiters
            <4>7. j = <<flight'[g].query, flight'[g].generation>> BY <1>9, <4>2
            <4> QED BY <4>4, <4>5, <4>6, <4>7 DEF Unfinished, Waiters
        <3> QED BY <1>2, <3>1, <3>2 DEF Deduplicated, Unfinished, Waiters
    <2>4. InflightLen' <= MaxFlights BY <1>2 DEF rfIInv, rfTable, InflightLen
    <2>5. \A g \in Flights : flight'[g].waiters <= MaxWaiters
        <3> SUFFICES ASSUME NEW g \in Flights PROVE flight'[g].waiters <= MaxWaiters
            OBVIOUS
        <3>1. flight[g].waiters <= MaxWaiters BY rfFlightFacts
        <3> QED BY <1>7, <1>9, <3>1
    <2> QED BY <2>1, <2>2, <2>3, <2>4, <2>5 DEF rfTable
<1>14. rfStore' BY <1>2, rfStoreKept DEF rfIInv
<1>15. rfHeld'
    <2> SUFFICES ASSUME NEW x \in Callers
                 PROVE /\ waitsFor'[x] # NoFlight <=> at'[x] \in {"wait", "release"}
                       /\ waitsFor'[x] # NoFlight => /\ flight'[waitsFor'[x]].state # "free"
                                                     /\ flight'[waitsFor'[x]].query = question'[x]
                                                     /\ flight'[waitsFor'[x]].generation = started'[x]
        BY DEF rfHeld
    <2>1. CASE x = c
        <3>1. waitsFor'[x] = f /\ at'[x] = "wait" BY <2>1, <1>2 DEF rfIInv, rfTypeOK
        <3> QED BY <1>2, <1>4, <1>5, <1>6, <1>9, <2>1, <3>1 DEF Unfinished
    <2>2. CASE x # c
        <3>1. waitsFor'[x] = waitsFor[x] /\ at'[x] = at[x] BY <2>2, <1>2 DEF rfIInv, rfTypeOK
        <3>2. waitsFor[x] \in Flights \cup {NoFlight} OBVIOUS
        <3> QED BY <1>2, <1>9, <3>1, <3>2 DEF rfIInv, rfHeld
    <2> QED BY <2>1, <2>2
<1>16. rfAsked' BY <1>2 DEF rfIInv, rfAsked, rfTypeOK
<1>17. rfFlown' BY <1>2, <1>9 DEF rfIInv, rfFlown
<1> QED BY <1>12, <1>13, <1>14, <1>15, <1>16, <1>17 DEF rfIInv

\* The table in terms of its next values: what a step that changes it has to show.
LEMMA rfTableNext ==
    ASSUME \A g \in Flights : flight'[g].waiters = Cardinality({x \in Callers : waitsFor'[x] = g}),
           \A g \in Flights : flight'[g].state \in {"running", "put", "publish"} =>
               (flight'[g].cancelled <=> ({x \in Callers : waitsFor'[x] = g} = {} \/ closed')),
           \A g \in Flights :
               /\ flight'[g].state \in {"running", "put", "publish"}
               /\ {x \in Callers : waitsFor'[x] = g} # {}
               => inflight'[<<flight'[g].query, flight'[g].generation>>] = g,
           \A j \in Questions \X Generations : inflight'[j] # NoFlight =>
               \E g \in Flights : /\ inflight'[j] = g /\ flight'[g].state \in {"running", "put", "publish"}
                                  /\ {x \in Callers : waitsFor'[x] = g} # {}
                                  /\ j = <<flight'[g].query, flight'[g].generation>>,
           InflightLen' <= MaxFlights,
           \A g \in Flights : flight'[g].waiters <= MaxWaiters
    PROVE  rfTable'
<1>1. WaitersCounted' BY DEF WaitersCounted, Waiters
<1>2. OwnedByWaiters' BY DEF OwnedByWaiters, Waiters, Unfinished
<1>3. Deduplicated' BY DEF Deduplicated, Waiters, Unfinished
<1> QED BY <1>1, <1>2, <1>3 DEF rfTable

\* The same of its present values.
LEMMA rfTableNow ==
    ASSUME rfIInv
    PROVE  /\ \A g \in Flights : Unfinished(g) => (flight[g].cancelled <=> (Waiters(g) = {} \/ closed))
           /\ \A g \in Flights :
                Unfinished(g) /\ Waiters(g) # {} => inflight[<<flight[g].query, flight[g].generation>>] = g
           /\ \A j \in Questions \X Generations : inflight[j] # NoFlight =>
                /\ inflight[j] \in Flights /\ Unfinished(inflight[j]) /\ Waiters(inflight[j]) # {}
                /\ j = <<flight[inflight[j]].query, flight[inflight[j]].generation>>
<1>1. \A j \in Questions \X Generations : inflight[j] \in Flights \cup {NoFlight} BY DEF rfIInv, rfTypeOK
<1> QED BY <1>1 DEF rfIInv, rfTable, OwnedByWaiters, Deduplicated

LEMMA rfKeepsStart ==
    ASSUME rfIInv, NEW c \in Callers, NEW f \in Flights, StartFlight(c, f) PROVE rfIInv'
<1> USE FlightsAssumption
<1> DEFINE i == <<question[c], started[c]>>
           new == [state |-> "running", query |-> question[c], generation |-> started[c],
                   waiters |-> 1, cancelled |-> FALSE, ok |-> FALSE, origin |-> cacheGeneration]
<1>1. /\ at[c] = "shared" /\ ~closed /\ ~(InflightLen >= MaxFlights) /\ inflight[i] = NoFlight
      /\ flight[f].state = "free"
      /\ inflight' = [inflight EXCEPT ![i] = f]
      /\ flight' = [flight EXCEPT ![f] = new]
      /\ waitsFor' = [waitsFor EXCEPT ![c] = f]
      /\ at' = [at EXCEPT ![c] = "wait"]
      /\ UNCHANGED <<closed, cacheGeneration, cache, question, started, got>>
    BY DEF StartFlight, FlightKey, Overflow, rfGoto, caller
<1>2. /\ question[c] \in Questions /\ started[c] \in Generations /\ waitsFor[c] = NoFlight
      /\ started[c] <= cacheGeneration /\ cacheGeneration \in Generations
    BY <1>1, rfCallerFacts
<1>3. i \in Questions \X Generations BY <1>2
<1>4. new \in Flight
    <2>1. FALSE \in BOOLEAN OBVIOUS
    <2>2. "running" \in FlightStates BY DEF FlightStates
    <2> QED BY <1>2, <2>1, <2>2 DEF Flight
<1>5. /\ flight'[f] = new /\ inflight'[i] = f
      /\ \A g \in Flights : g # f => flight'[g] = flight[g]
      /\ \A j \in Questions \X Generations : j # i => inflight'[j] = inflight[j]
    BY <1>1, <1>3 DEF rfIInv, rfTypeOK
<1>6. Waiters(f) = {} BY <1>1, rfFlightFacts
<1>7. /\ Waiters(f)' = {c} /\ \A g \in Flights \ {f} : Waiters(g)' = Waiters(g)
    BY <1>1, <1>2, <1>6, rfOneMore DEF rfIInv
<1>8. /\ {x \in Callers : waitsFor'[x] = f} = {c}
      /\ \A g \in Flights \ {f} : {x \in Callers : waitsFor'[x] = g} = Waiters(g)
    BY <1>7 DEF Waiters
<1>9. Cardinality({c}) = 1 BY FS_Singleton
<1>10. rfTypeOK'
    <2>1. "wait" \in CallerPCs BY DEF CallerPCs
    <2>2. flight' \in [Flights -> Flight] BY <1>1, <1>4 DEF rfIInv, rfTypeOK
    <2>3. inflight' \in [Questions \X Generations -> Flights \cup {NoFlight}] BY <1>1 DEF rfIInv, rfTypeOK
    <2>4. UNCHANGED <<closed, cacheGeneration, cache, question, started, got>> BY <1>1
    <2>5. at' \in [Callers -> CallerPCs] /\ waitsFor' \in [Callers -> Flights \cup {NoFlight}]
        BY <1>1, <2>1 DEF rfIInv, rfTypeOK
    <2> QED BY <2>2, <2>3, <2>4, <2>5 DEF rfIInv, rfTypeOK
<1> DEFINE key(g) == <<flight[g].query, flight[g].generation>>
<1>11. rfTable'
    <2>1. \A g \in Flights : flight'[g].waiters = Cardinality({x \in Callers : waitsFor'[x] = g})
        <3> SUFFICES ASSUME NEW g \in Flights
                     PROVE  flight'[g].waiters = Cardinality({x \in Callers : waitsFor'[x] = g})
            OBVIOUS
        <3>1. flight[g].waiters = Cardinality(Waiters(g)) BY rfFlightFacts
        <3>2. CASE g = f BY <1>5, <1>8, <1>9, <3>2, SMTT(60)
        <3>3. CASE g # f BY <1>5, <1>8, <3>1, <3>3
        <3> QED BY <3>2, <3>3
    <2>2. \A g \in Flights : flight'[g].state \in {"running", "put", "publish"} =>
               (flight'[g].cancelled <=> ({x \in Callers : waitsFor'[x] = g} = {} \/ closed'))
        <3> SUFFICES ASSUME NEW g \in Flights, flight'[g].state \in {"running", "put", "publish"}
                     PROVE  flight'[g].cancelled <=> ({x \in Callers : waitsFor'[x] = g} = {} \/ closed')
            OBVIOUS
        <3>1. CASE g = f BY <1>1, <1>5, <1>8, <3>1
        <3>2. CASE g # f
            <4>1. Unfinished(g) /\ flight'[g] = flight[g] BY <1>5, <3>2 DEF Unfinished
            <4>2. flight[g].cancelled <=> (Waiters(g) = {} \/ closed) BY <4>1, rfTableNow
            <4> QED BY <1>1, <1>8, <3>2, <4>1, <4>2
        <3> QED BY <3>1, <3>2
    <2>3. \A g \in Flights :
               /\ flight'[g].state \in {"running", "put", "publish"}
               /\ {x \in Callers : waitsFor'[x] = g} # {}
               => inflight'[<<flight'[g].query, flight'[g].generation>>] = g
        <3> SUFFICES ASSUME NEW g \in Flights, flight'[g].state \in {"running", "put", "publish"},
                            {x \in Callers : waitsFor'[x] = g} # {}
                     PROVE  inflight'[<<flight'[g].query, flight'[g].generation>>] = g
            OBVIOUS
        <3>1. CASE g = f BY <1>5, <3>1
        <3>2. CASE g # f
            <4>1. Unfinished(g) /\ flight'[g] = flight[g] /\ Waiters(g) # {}
                BY <1>5, <1>8, <3>2 DEF Unfinished
            <4>2. inflight[key(g)] = g BY <4>1, rfTableNow
            <4>3. key(g) \in Questions \X Generations BY <4>1, rfFlightFacts DEF Unfinished
            <4>4. key(g) # i BY <1>1, <4>2
            <4> QED BY <1>5, <4>1, <4>2, <4>3, <4>4
        <3> QED BY <3>1, <3>2
    <2>4. \A j \in Questions \X Generations : inflight'[j] # NoFlight =>
               \E g \in Flights : /\ inflight'[j] = g /\ flight'[g].state \in {"running", "put", "publish"}
                                  /\ {x \in Callers : waitsFor'[x] = g} # {}
                                  /\ j = <<flight'[g].query, flight'[g].generation>>
        <3> SUFFICES ASSUME NEW j \in Questions \X Generations, inflight'[j] # NoFlight
                     PROVE  \E g \in Flights : /\ inflight'[j] = g
                                               /\ flight'[g].state \in {"running", "put", "publish"}
                                               /\ {x \in Callers : waitsFor'[x] = g} # {}
                                               /\ j = <<flight'[g].query, flight'[g].generation>>
            OBVIOUS
        <3>1. CASE j = i BY <1>5, <1>8, <3>1
        <3>2. CASE j # i
            <4>1. PICK g : g = inflight[j] OBVIOUS
            <4>2. /\ g \in Flights /\ Unfinished(g) /\ Waiters(g) # {} /\ j = key(g) /\ inflight'[j] = g
                BY <1>5, <3>2, <4>1, rfTableNow
            <4>3. g # f BY <1>1, <4>2 DEF Unfinished
            <4> QED BY <1>5, <1>8, <4>2, <4>3 DEF Unfinished
        <3> QED BY <3>1, <3>2
    <2>5. InflightLen' <= MaxFlights
        <3>1. rfMapped \in SUBSET (Questions \X Generations) /\ InflightLen = Cardinality(rfMapped)
            BY DEF rfMapped, InflightLen
        <3>2. InflightLen < MaxFlights BY <1>1, <3>1, rfFiniteKeys
        <3> QED BY <1>1, <1>3, <3>2, rfMapGrows DEF rfIInv
    <2>6. \A g \in Flights : flight'[g].waiters <= MaxWaiters
        <3> SUFFICES ASSUME NEW g \in Flights PROVE flight'[g].waiters <= MaxWaiters
            OBVIOUS
        <3>1. flight[g].waiters <= MaxWaiters BY rfFlightFacts
        <3> QED BY <1>5, <3>1
    <2> HIDE DEF key, i, new
    <2> QED BY <2>1, <2>2, <2>3, <2>4, <2>5, <2>6, rfTableNext
<1>12. rfStore' BY <1>1, rfStoreKept DEF rfIInv
<1>13. rfHeld'
    <2> SUFFICES ASSUME NEW x \in Callers
                 PROVE /\ waitsFor'[x] # NoFlight <=> at'[x] \in {"wait", "release"}
                       /\ waitsFor'[x] # NoFlight => /\ flight'[waitsFor'[x]].state # "free"
                                                     /\ flight'[waitsFor'[x]].query = question'[x]
                                                     /\ flight'[waitsFor'[x]].generation = started'[x]
        BY DEF rfHeld
    <2>1. CASE x = c
        <3>1. waitsFor'[x] = f /\ at'[x] = "wait" BY <2>1, <1>1 DEF rfIInv, rfTypeOK
        <3> QED BY <1>1, <1>5, <2>1, <3>1
    <2>2. CASE x # c
        <3>1. waitsFor'[x] = waitsFor[x] /\ at'[x] = at[x] BY <2>2, <1>1 DEF rfIInv, rfTypeOK
        <3>2. waitsFor[x] \in Flights \cup {NoFlight} BY rfCallerFacts
        <3>3. waitsFor[x] # f BY <1>6 DEF Waiters
        <3> QED BY <1>1, <1>5, <3>1, <3>2, <3>3 DEF rfIInv, rfHeld
    <2> QED BY <2>1, <2>2
<1>14. rfAsked' BY <1>1 DEF rfIInv, rfAsked, rfTypeOK
<1>15. rfFlown'
    <2> SUFFICES ASSUME NEW g \in Flights, flight'[g].state # "free"
                 PROVE /\ flight'[g].query \in Questions
                       /\ flight'[g].generation <= flight'[g].origin
                       /\ flight'[g].origin <= cacheGeneration'
        BY DEF rfFlown
    <2>1. CASE g = f
        <3>1. cacheGeneration <= cacheGeneration BY <1>2 DEF Generations
        <3> QED BY <1>1, <1>2, <1>5, <2>1, <3>1
    <2>2. CASE g # f BY <1>1, <1>5, <2>2 DEF rfIInv, rfFlown
    <2> QED BY <2>1, <2>2
<1> QED BY <1>10, <1>11, <1>12, <1>13, <1>14, <1>15 DEF rfIInv

\* The last waiter of an unfinished flight cancels it and takes it out of the map;
\* any other departure only counts down, and a finished flight goes with its last waiter.
LEMMA rfKeepsRelease == ASSUME rfIInv, NEW c \in Callers, ReleaseFlight(c) PROVE rfIInv'
<1> USE FlightsAssumption
<1>1. PICK f : f = waitsFor[c] OBVIOUS
<1>2. PICK n : n = flight[f].waiters - 1 OBVIOUS
<1> DEFINE key(g) == <<flight[g].query, flight[g].generation>>
           left == [flight[f] EXCEPT !.waiters = n]
           last == n = 0 /\ flight[f].state # "finished"
           next == IF last THEN [left EXCEPT !.cancelled = TRUE]
                   ELSE IF flight[f].state = "finished" /\ n = 0 THEN FreeFlight ELSE left
<1>3. at[c] = "release" BY DEF ReleaseFlight
<1>4. f \in Flights /\ flight[f].state # "free" BY <1>1, <1>3, rfCallerFacts DEF rfIInv, rfHeld
<1>5. flight[f] \in Flight BY <1>4, rfFlightFacts
<1>6. left.waiters = n /\ left.state = flight[f].state BY <1>5 DEF Flight
<1>7. /\ flight' = [flight EXCEPT ![f] = next]
      /\ inflight' = IF last /\ inflight[key(f)] = f
                      THEN [inflight EXCEPT ![key(f)] = NoFlight] ELSE inflight
      /\ waitsFor' = [waitsFor EXCEPT ![c] = NoFlight]
      /\ at' = [at EXCEPT ![c] = "done"]
      /\ UNCHANGED <<closed, cacheGeneration, cache, question, started, got>>
    BY <1>1, <1>2, <1>6 DEF ReleaseFlight, rfGoto, caller, Collected
<1>8. /\ flight[f].waiters = Cardinality(Waiters(f)) /\ flight[f].waiters \in Nat
      /\ flight[f].waiters <= MaxWaiters /\ key(f) \in Questions \X Generations
      /\ flight[f].cancelled \in BOOLEAN /\ flight[f].state \in FlightStates
    BY <1>4, rfFlightFacts
<1>9. /\ Cardinality(Waiters(f)') = n /\ n \in Nat /\ (n = 0 <=> Waiters(f)' = {})
      /\ \A g \in Flights \ {f} : Waiters(g)' = Waiters(g)
    <2>1. /\ Cardinality(Waiters(f)') = Cardinality(Waiters(f)) - 1
          /\ Cardinality(Waiters(f)') \in Nat
          /\ Cardinality(Waiters(f)') = 0 <=> Waiters(f)' = {}
          /\ \A g \in Flights \ {f} : Waiters(g)' = Waiters(g)
        BY <1>1, <1>4, <1>7, rfOneLess DEF rfIInv
    <2>2. Cardinality(Waiters(f)') = n BY <1>2, <1>8, <2>1
    <2> QED BY <2>1, <2>2
<1>10. /\ Cardinality({x \in Callers : waitsFor'[x] = f}) = n
       /\ n = 0 <=> {x \in Callers : waitsFor'[x] = f} = {}
       /\ \A g \in Flights \ {f} : {x \in Callers : waitsFor'[x] = g} = Waiters(g)
    BY <1>9 DEF Waiters
<1>11. /\ flight'[f] = next /\ \A g \in Flights : g # f => flight'[g] = flight[g]
    BY <1>4, <1>7 DEF rfIInv, rfTypeOK
<1>12. left \in Flight BY <1>5, <1>9 DEF Flight
<1>13. next \in Flight
    <2>1. [left EXCEPT !.cancelled = TRUE] \in Flight BY <1>12 DEF Flight
    <2>2. FreeFlight \in Flight
        <3>1. FALSE \in BOOLEAN /\ 0 \in Generations BY DEF Generations
        <3>2. "free" \in FlightStates BY DEF FlightStates
        <3> QED BY <3>1, <3>2 DEF FreeFlight, Flight
    <2> HIDE DEF left
    <2> QED BY <1>12, <2>1, <2>2
<1>14. /\ next.waiters = n
       /\ next.state = flight[f].state \/ (next.state = "free" /\ flight[f].state = "finished" /\ n = 0)
       /\ next.state # "free" => /\ next.query = flight[f].query /\ next.generation = flight[f].generation
                                /\ next.origin = flight[f].origin
       /\ last => next.cancelled
       /\ ~last /\ next.state # "free" => next.cancelled = flight[f].cancelled
    <2>1. CASE last BY <1>5, <2>1 DEF Flight
    <2>2. CASE ~last /\ flight[f].state = "finished" /\ n = 0 BY <2>2 DEF FreeFlight
    <2>3. CASE ~last /\ ~(flight[f].state = "finished" /\ n = 0) BY <1>5, <2>3 DEF Flight
    <2> QED BY <2>1, <2>2, <2>3
<1>15. rfTypeOK'
    <2>1. "done" \in CallerPCs BY DEF CallerPCs
    <2> HIDE DEF next
    <2>2. flight' \in [Flights -> Flight] BY <1>7, <1>13 DEF rfIInv, rfTypeOK
    <2>3. inflight' \in [Questions \X Generations -> Flights \cup {NoFlight}] BY <1>7 DEF rfIInv, rfTypeOK
    <2>4. at' \in [Callers -> CallerPCs] /\ waitsFor' \in [Callers -> Flights \cup {NoFlight}]
        BY <1>7, <2>1 DEF rfIInv, rfTypeOK
    <2>5. UNCHANGED <<closed, cacheGeneration, cache, question, started, got>> BY <1>7
    <2> QED BY <2>2, <2>3, <2>4, <2>5 DEF rfIInv, rfTypeOK
<1>16. rfTable'
    <2> HIDE DEF next
    <2>1. \A g \in Flights : flight'[g].waiters = Cardinality({x \in Callers : waitsFor'[x] = g})
        <3> SUFFICES ASSUME NEW g \in Flights
                     PROVE  flight'[g].waiters = Cardinality({x \in Callers : waitsFor'[x] = g})
            OBVIOUS
        <3>1. flight[g].waiters = Cardinality(Waiters(g)) BY rfFlightFacts
        <3>2. CASE g = f BY <1>10, <1>11, <1>14, <3>2
        <3>3. CASE g # f BY <1>10, <1>11, <3>1, <3>3
        <3> QED BY <3>2, <3>3
    <2>2. \A g \in Flights : flight'[g].state \in {"running", "put", "publish"} =>
               (flight'[g].cancelled <=> ({x \in Callers : waitsFor'[x] = g} = {} \/ closed'))
        <3> SUFFICES ASSUME NEW g \in Flights, flight'[g].state \in {"running", "put", "publish"}
                     PROVE  flight'[g].cancelled <=> ({x \in Callers : waitsFor'[x] = g} = {} \/ closed')
            OBVIOUS
        <3>1. CASE g = f
            <4>1. Unfinished(f) BY <1>11, <1>14, <3>1 DEF Unfinished
            <4>2. flight[f].cancelled <=> (Waiters(f) = {} \/ closed) BY <1>4, <4>1, rfTableNow
            <4>3. Waiters(f) # {} BY <1>1 DEF Waiters
            <4>4. CASE last BY <1>10, <1>11, <1>14, <3>1, <4>4
            <4>5. CASE ~last
                <5>1. n # 0 BY <4>1, <4>5 DEF Unfinished
                <5>2. flight'[f].cancelled = flight[f].cancelled BY <1>11, <1>14, <3>1, <4>5
                <5>3. closed' = closed BY <1>7
                <5> QED BY <1>10, <3>1, <4>2, <4>3, <5>1, <5>2, <5>3
            <4> QED BY <4>4, <4>5
        <3>2. CASE g # f
            <4>1. Unfinished(g) /\ flight'[g] = flight[g] BY <1>11, <3>2 DEF Unfinished
            <4>2. flight[g].cancelled <=> (Waiters(g) = {} \/ closed) BY <4>1, rfTableNow
            <4>3. closed' = closed BY <1>7
            <4> QED BY <1>10, <3>2, <4>1, <4>2, <4>3
        <3> QED BY <3>1, <3>2
    <2>3. \A g \in Flights :
               /\ flight'[g].state \in {"running", "put", "publish"}
               /\ {x \in Callers : waitsFor'[x] = g} # {}
               => inflight'[<<flight'[g].query, flight'[g].generation>>] = g
        <3> SUFFICES ASSUME NEW g \in Flights, flight'[g].state \in {"running", "put", "publish"},
                            {x \in Callers : waitsFor'[x] = g} # {}
                     PROVE  inflight'[<<flight'[g].query, flight'[g].generation>>] = g
            OBVIOUS
        <3>1. CASE g = f
            <4>1. Unfinished(f) /\ Waiters(f) # {} BY <1>1, <1>11, <1>14, <3>1 DEF Unfinished, Waiters
            <4>2. inflight[key(f)] = f BY <1>4, <4>1, rfTableNow
            <4>3. ~last BY <1>10, <3>1
            <4>4. <<flight'[g].query, flight'[g].generation>> = key(f) BY <1>11, <1>14, <3>1
            <4>5. inflight' = inflight BY <1>7, <4>3
            <4> QED BY <3>1, <4>2, <4>4, <4>5
        <3>2. CASE g # f
            <4>1. Unfinished(g) /\ flight'[g] = flight[g] /\ Waiters(g) # {}
                BY <1>10, <1>11, <3>2 DEF Unfinished
            <4>2. inflight[key(g)] = g BY <4>1, rfTableNow
            <4>3. key(g) \in Questions \X Generations BY <4>1, rfFlightFacts DEF Unfinished
            <4>4. inflight'[key(g)] = inflight[key(g)]
                <5>1. CASE last /\ inflight[key(f)] = f
                    <6>1. key(g) # key(f) BY <3>2, <4>2, <5>1
                    <6>2. inflight' = [inflight EXCEPT ![key(f)] = NoFlight] BY <1>7, <5>1
                    <6> HIDE DEF key
                    <6> QED BY <4>3, <6>1, <6>2 DEF rfIInv, rfTypeOK
                <5>2. CASE ~(last /\ inflight[key(f)] = f) BY <1>7, <5>2
                <5> QED BY <5>1, <5>2
            <4>5. <<flight'[g].query, flight'[g].generation>> = key(g) BY <4>1
            <4> QED BY <4>2, <4>4, <4>5
        <3> QED BY <3>1, <3>2
    <2>4. \A j \in Questions \X Generations : inflight'[j] # NoFlight => inflight'[j] = inflight[j]
        <3>1. CASE last /\ inflight[key(f)] = f
            <4>1. inflight' = [inflight EXCEPT ![key(f)] = NoFlight] BY <1>7, <3>1
            <4> HIDE DEF key
            <4> QED BY <4>1 DEF rfIInv, rfTypeOK
        <3>2. CASE ~(last /\ inflight[key(f)] = f) BY <1>7, <3>2
        <3> QED BY <3>1, <3>2
    <2>5. \A j \in Questions \X Generations : inflight'[j] # NoFlight =>
               \E g \in Flights : /\ inflight'[j] = g /\ flight'[g].state \in {"running", "put", "publish"}
                                  /\ {x \in Callers : waitsFor'[x] = g} # {}
                                  /\ j = <<flight'[g].query, flight'[g].generation>>
        <3> SUFFICES ASSUME NEW j \in Questions \X Generations, inflight'[j] # NoFlight
                     PROVE  \E g \in Flights : /\ inflight'[j] = g
                                               /\ flight'[g].state \in {"running", "put", "publish"}
                                               /\ {x \in Callers : waitsFor'[x] = g} # {}
                                               /\ j = <<flight'[g].query, flight'[g].generation>>
            OBVIOUS
        <3>1. PICK g : g = inflight[j] OBVIOUS
        <3>2. inflight'[j] = g BY <2>4, <3>1
        <3>3. /\ g \in Flights /\ Unfinished(g) /\ Waiters(g) # {} /\ j = key(g)
            BY <3>1, <3>2, rfTableNow
        <3>4. CASE g = f
            <4>1. ~last
                <5> SUFFICES ASSUME last PROVE FALSE
                    OBVIOUS
                <5>1. inflight' = [inflight EXCEPT ![key(f)] = NoFlight] BY <1>7, <3>1, <3>3, <3>4
                <5>2. inflight'[key(f)] = NoFlight
                    <6>1. key(f) \in Questions \X Generations BY <1>8
                    <6> HIDE DEF key
                    <6> QED BY <5>1, <6>1 DEF rfIInv, rfTypeOK
                <5> QED BY <3>3, <3>4, <5>2
            <4>2. n # 0 /\ flight[f].state # "finished" BY <3>3, <3>4, <4>1 DEF Unfinished
            <4>3. flight'[f].state = flight[f].state /\ flight[f].state # "free" BY <1>4, <1>11, <1>14, <4>2
            <4>4. j = <<flight'[f].query, flight'[f].generation>> BY <1>11, <1>14, <3>3, <3>4, <4>3
            <4>5. {x \in Callers : waitsFor'[x] = f} # {} BY <1>10, <4>2
            <4>6. flight'[f].state \in {"running", "put", "publish"} BY <3>3, <3>4, <4>3 DEF Unfinished
            <4> QED BY <1>4, <3>2, <3>4, <4>4, <4>5, <4>6
        <3>5. CASE g # f
            <4>1. flight'[g] = flight[g] BY <1>11, <3>3, <3>5
            <4>2. {x \in Callers : waitsFor'[x] = g} # {} BY <1>10, <3>3, <3>5
            <4>3. flight'[g].state \in {"running", "put", "publish"} BY <3>3, <4>1 DEF Unfinished
            <4> QED BY <3>2, <3>3, <4>1, <4>2, <4>3
        <3> QED BY <3>4, <3>5
    <2>6. InflightLen' <= MaxFlights
        <3>1. inflight' \in [Questions \X Generations -> Flights \cup {NoFlight}] BY <1>15 DEF rfTypeOK
        <3> QED BY <2>4, <3>1, rfMapShrinks DEF rfIInv, rfTable
    <2>7. \A g \in Flights : flight'[g].waiters <= MaxWaiters
        <3> SUFFICES ASSUME NEW g \in Flights PROVE flight'[g].waiters <= MaxWaiters
            OBVIOUS
        <3>1. flight[g].waiters <= MaxWaiters BY rfFlightFacts
        <3>2. n <= MaxWaiters BY <1>2, <1>8
        <3> QED BY <1>11, <1>14, <3>1, <3>2
    <2> HIDE DEF key, left, last
    <2> QED BY <2>1, <2>2, <2>3, <2>5, <2>6, <2>7, rfTableNext
<1>17. rfStore' BY <1>7, rfStoreKept DEF rfIInv
<1>18. rfHeld'
    <2> SUFFICES ASSUME NEW x \in Callers
                 PROVE /\ waitsFor'[x] # NoFlight <=> at'[x] \in {"wait", "release"}
                       /\ waitsFor'[x] # NoFlight => /\ flight'[waitsFor'[x]].state # "free"
                                                     /\ flight'[waitsFor'[x]].query = question'[x]
                                                     /\ flight'[waitsFor'[x]].generation = started'[x]
        BY DEF rfHeld
    <2> HIDE DEF next, last, left, key
    <2>1. CASE x = c
        <3>1. waitsFor'[x] = NoFlight /\ at'[x] = "done" BY <2>1, <1>7 DEF rfIInv, rfTypeOK
        <3> QED BY <3>1
    <2>2. CASE x # c
        <3>1. waitsFor'[x] = waitsFor[x] /\ at'[x] = at[x] BY <2>2, <1>7 DEF rfIInv, rfTypeOK
        <3>2. waitsFor[x] \in Flights \cup {NoFlight} BY rfCallerFacts
        <3>3. question'[x] = question[x] /\ started'[x] = started[x] BY <1>7
        <3>4. /\ waitsFor[x] # NoFlight <=> at[x] \in {"wait", "release"}
              /\ waitsFor[x] # NoFlight => /\ flight[waitsFor[x]].state # "free"
                                           /\ flight[waitsFor[x]].query = question[x]
                                           /\ flight[waitsFor[x]].generation = started[x]
            BY DEF rfIInv, rfHeld
        <3>5. CASE waitsFor[x] = f
            <4>1. x \in {y \in Callers : waitsFor'[y] = f} BY <3>1, <3>5
            <4>2. n # 0 BY <1>10, <4>1
            <4>3. next.state # "free" BY <1>4, <1>14, <4>2
            <4> QED BY <1>11, <1>14, <3>1, <3>3, <3>4, <3>5, <4>3
        <3>6. CASE waitsFor[x] # f BY <1>11, <3>1, <3>2, <3>3, <3>4, <3>6
        <3> QED BY <3>5, <3>6
    <2> QED BY <2>1, <2>2
<1>19. rfAsked'
    <2> SUFFICES ASSUME NEW x \in Callers, at'[x] # "idle"
                 PROVE /\ question'[x] \in Questions
                       /\ started'[x] <= got'[x] /\ got'[x] <= cacheGeneration'
        BY DEF rfAsked
    <2>1. UNCHANGED <<cacheGeneration, question, started, got>> BY <1>7
    <2>2. at'[x] = at[x] \/ x = c BY <1>7 DEF rfIInv, rfTypeOK
    <2>3. at[x] # "idle" BY <1>3, <2>2
    <2> QED BY <2>1, <2>3 DEF rfIInv, rfAsked
<1>20. rfFlown'
    <2> HIDE DEF next, last, left, key
    <2> SUFFICES ASSUME NEW g \in Flights, flight'[g].state # "free"
                 PROVE /\ flight'[g].query \in Questions
                       /\ flight'[g].generation <= flight'[g].origin
                       /\ flight'[g].origin <= cacheGeneration'
        BY DEF rfFlown
    <2>1. cacheGeneration' = cacheGeneration BY <1>7
    <2>2. CASE g = f
        <3>1. next.state # "free" BY <1>11, <2>2
        <3> QED BY <1>4, <1>11, <1>14, <2>1, <2>2, <3>1 DEF rfIInv, rfFlown
    <2>3. CASE g # f BY <1>11, <2>1, <2>3 DEF rfIInv, rfFlown
    <2> QED BY <2>2, <2>3
<1> QED BY <1>15, <1>16, <1>17, <1>18, <1>19, <1>20 DEF rfIInv

-----------------------------------------------------------------------------
\* A flight that goes on within its unfinished states changes nothing its waiters see.
LEMMA rfAdvances ==
    ASSUME rfIInv, flight' \in [Flights -> Flight],
           \A g \in Flights :
               /\ flight'[g].query = flight[g].query /\ flight'[g].generation = flight[g].generation
               /\ flight'[g].waiters = flight[g].waiters /\ flight'[g].cancelled = flight[g].cancelled
               /\ flight'[g].origin = flight[g].origin
               /\ flight[g].state \in {"running", "put", "publish"} <=>
                      flight'[g].state \in {"running", "put", "publish"}
               /\ flight'[g].state = "free" <=> flight[g].state = "free",
           UNCHANGED <<closed, cacheGeneration, inflight, at, question, started, waitsFor, got>>,
           cache' \in [Questions -> Entry], rfStore'
    PROVE  rfIInv'
<1>6. \A g \in Flights :
        /\ flight'[g].query = flight[g].query /\ flight'[g].generation = flight[g].generation
        /\ flight'[g].waiters = flight[g].waiters /\ flight'[g].cancelled = flight[g].cancelled
        /\ flight'[g].origin = flight[g].origin
        /\ Unfinished(g) <=> flight'[g].state \in {"running", "put", "publish"}
        /\ flight'[g].state = "free" <=> flight[g].state = "free"
    BY DEF Unfinished
<1>7. rfTypeOK' BY DEF rfIInv, rfTypeOK
<1>8. rfTable'
    <2>1. \A g \in Flights : {x \in Callers : waitsFor'[x] = g} = Waiters(g) BY DEF Waiters
    <2>2. \A g \in Flights : flight[g].waiters = Cardinality(Waiters(g)) /\ flight[g].waiters <= MaxWaiters
        BY rfFlightFacts
    <2>3. InflightLen' <= MaxFlights BY DEF rfIInv, rfTable, InflightLen
    <2>4. \A j \in Questions \X Generations : inflight'[j] # NoFlight =>
               \E g \in Flights : /\ inflight'[j] = g /\ flight'[g].state \in {"running", "put", "publish"}
                                  /\ {x \in Callers : waitsFor'[x] = g} # {}
                                  /\ j = <<flight'[g].query, flight'[g].generation>>
        <3> SUFFICES ASSUME NEW j \in Questions \X Generations, inflight'[j] # NoFlight
                     PROVE  \E g \in Flights : /\ inflight'[j] = g
                                               /\ flight'[g].state \in {"running", "put", "publish"}
                                               /\ {x \in Callers : waitsFor'[x] = g} # {}
                                               /\ j = <<flight'[g].query, flight'[g].generation>>
            OBVIOUS
        <3>1. PICK g : g = inflight[j] OBVIOUS
        <3>2. /\ g \in Flights /\ Unfinished(g) /\ Waiters(g) # {} /\ inflight'[j] = g
              /\ j = <<flight[g].query, flight[g].generation>>
            BY <3>1, rfTableNow
        <3> QED BY <1>6, <2>1, <3>2
    <2>5. \A g \in Flights : flight'[g].waiters = Cardinality({x \in Callers : waitsFor'[x] = g})
        BY <1>6, <2>1, <2>2
    <2>6. \A g \in Flights : flight'[g].waiters <= MaxWaiters BY <1>6, <2>2
    <2>7. \A g \in Flights : flight'[g].state \in {"running", "put", "publish"} =>
               (flight'[g].cancelled <=> ({x \in Callers : waitsFor'[x] = g} = {} \/ closed'))
        <3> SUFFICES ASSUME NEW g \in Flights, flight'[g].state \in {"running", "put", "publish"}
                     PROVE  flight'[g].cancelled <=> ({x \in Callers : waitsFor'[x] = g} = {} \/ closed')
            OBVIOUS
        <3>1. Unfinished(g) /\ flight'[g].cancelled = flight[g].cancelled BY <1>6
        <3>2. flight[g].cancelled <=> (Waiters(g) = {} \/ closed) BY <3>1, rfTableNow
        <3> QED BY <2>1, <3>1, <3>2
    <2>8. \A g \in Flights :
               /\ flight'[g].state \in {"running", "put", "publish"}
               /\ {x \in Callers : waitsFor'[x] = g} # {}
               => inflight'[<<flight'[g].query, flight'[g].generation>>] = g
        <3> SUFFICES ASSUME NEW g \in Flights, flight'[g].state \in {"running", "put", "publish"},
                            {x \in Callers : waitsFor'[x] = g} # {}
                     PROVE  inflight'[<<flight'[g].query, flight'[g].generation>>] = g
            OBVIOUS
        <3>1. Unfinished(g) /\ Waiters(g) # {} BY <1>6, <2>1
        <3>2. inflight[<<flight[g].query, flight[g].generation>>] = g BY <3>1, rfTableNow
        <3> QED BY <1>6, <3>2
    <2> QED BY <2>3, <2>4, <2>5, <2>6, <2>7, <2>8, rfTableNext
<1>9. rfHeld'
    <2> SUFFICES ASSUME NEW x \in Callers
                 PROVE /\ waitsFor[x] # NoFlight <=> at[x] \in {"wait", "release"}
                       /\ waitsFor[x] # NoFlight => /\ flight'[waitsFor[x]].state # "free"
                                                    /\ flight'[waitsFor[x]].query = question[x]
                                                    /\ flight'[waitsFor[x]].generation = started[x]
        BY DEF rfHeld
    <2>1. waitsFor[x] \in Flights \cup {NoFlight} BY rfCallerFacts
    <2> QED BY <1>6, <2>1 DEF rfIInv, rfHeld
<1>10. rfAsked' BY DEF rfIInv, rfAsked
<1>11. rfFlown' BY <1>6 DEF rfIInv, rfFlown
<1> QED BY <1>7, <1>8, <1>9, <1>10, <1>11 DEF rfIInv

\* A step of one flight within its unfinished states.
LEMMA rfOneAdvances ==
    ASSUME rfIInv, NEW f \in Flights, Unfinished(f), NEW r \in Flight,
           flight' = [flight EXCEPT ![f] = r],
           r.state \in {"put", "publish"},
           r.query = flight[f].query, r.generation = flight[f].generation, r.waiters = flight[f].waiters,
           r.cancelled = flight[f].cancelled, r.origin = flight[f].origin,
           UNCHANGED <<closed, cacheGeneration, inflight, at, question, started, waitsFor, got>>,
           cache' \in [Questions -> Entry], rfStore'
    PROVE  rfIInv'
<1>1. flight' \in [Flights -> Flight] BY DEF rfIInv, rfTypeOK
<1>2. flight'[f] = r /\ \A g \in Flights : g # f => flight'[g] = flight[g] BY DEF rfIInv, rfTypeOK
<1>3. \A g \in Flights :
        /\ flight'[g].query = flight[g].query /\ flight'[g].generation = flight[g].generation
        /\ flight'[g].waiters = flight[g].waiters /\ flight'[g].cancelled = flight[g].cancelled
        /\ flight'[g].origin = flight[g].origin
        /\ flight[g].state \in {"running", "put", "publish"} <=>
               flight'[g].state \in {"running", "put", "publish"}
        /\ flight'[g].state = "free" <=> flight[g].state = "free"
    BY <1>2 DEF Unfinished
<1> QED BY <1>1, <1>3, rfAdvances

LEMMA rfKeepsFlightResolved ==
    ASSUME rfIInv, NEW f \in Flights, NEW ok \in BOOLEAN, NEW cacheable \in BOOLEAN,
           FlightResolved(f, ok, cacheable)
    PROVE  rfIInv'
<1>1. PICK st \in {"put", "publish"} :
        flight' = [flight EXCEPT ![f] = [[flight[f] EXCEPT !.state = st] EXCEPT !.ok = ok]]
    <2>1. PICK st \in {"put", "publish"} : flight' = [flight EXCEPT ![f].state = st, ![f].ok = ok]
        BY DEF FlightResolved
    <2>2. [flight EXCEPT ![f].state = st, ![f].ok = ok] =
              [flight EXCEPT ![f] = [[flight[f] EXCEPT !.state = st] EXCEPT !.ok = ok]]
        BY DEF rfIInv, rfTypeOK
    <2> QED BY <2>1, <2>2
<1>2. /\ UNCHANGED <<closed, cacheGeneration, inflight, at, question, started, waitsFor, got>>
      /\ UNCHANGED cache /\ Unfinished(f)
    BY DEF FlightResolved, caller, Unfinished
<1>3. rfStore' /\ cache' \in [Questions -> Entry] BY <1>2, rfStoreKept DEF rfIInv, rfTypeOK
<1>4. flight[f] \in Flight BY rfFlightFacts
<1>5. PICK q : q = [flight[f] EXCEPT !.state = st] OBVIOUS
<1>6. /\ q \in Flight /\ q.state = st
      /\ q.query = flight[f].query /\ q.generation = flight[f].generation /\ q.waiters = flight[f].waiters
      /\ q.cancelled = flight[f].cancelled /\ q.origin = flight[f].origin
    BY <1>4, <1>5 DEF Flight, FlightStates
<1>7. PICK r : r = [q EXCEPT !.ok = ok] OBVIOUS
<1>8. /\ r \in Flight /\ r.state = st
      /\ r.query = q.query /\ r.generation = q.generation /\ r.waiters = q.waiters
      /\ r.cancelled = q.cancelled /\ r.origin = q.origin
    <2>1. CASE ok = TRUE
        <3>1. r = [q EXCEPT !.ok = TRUE] BY <1>7, <2>1
        <3> QED BY <1>6, <3>1 DEF Flight
    <2>2. CASE ok = FALSE
        <3>1. r = [q EXCEPT !.ok = FALSE] BY <1>7, <2>2
        <3> QED BY <1>6, <3>1 DEF Flight
    <2> QED BY <2>1, <2>2
<1>9. flight' = [flight EXCEPT ![f] = r] BY <1>1, <1>5, <1>7
<1> QED BY <1>2, <1>3, <1>6, <1>8, <1>9, rfOneAdvances

LEMMA rfKeepsFlightPut ==
    ASSUME rfIInv, NEW f \in Flights, FlightPut(f) PROVE rfIInv' /\ (closed => UNCHANGED cache)
<1>1. /\ UNCHANGED <<closed, cacheGeneration, inflight, at, question, started, waitsFor, got>>
      /\ Unfinished(f) /\ flight[f].state # "free"
      /\ flight' = [flight EXCEPT ![f] = [flight[f] EXCEPT !.state = "publish"]]
      /\ CachePut(flight[f].query, flight[f].generation, flight[f].origin)
    BY DEF FlightPut, caller, Unfinished
<1>2. /\ flight[f].query \in Questions /\ flight[f].generation <= flight[f].origin
      /\ flight[f].origin <= cacheGeneration
    BY <1>1 DEF rfIInv, rfFlown
<1>3. flight[f] \in Flight BY rfFlightFacts
<1>4. flight[f].generation \in Generations /\ flight[f].origin \in Generations BY <1>3 DEF Flight
<1>5. rfStore' /\ cache' \in [Questions -> Entry] /\ (closed => UNCHANGED cache)
    BY <1>1, <1>2, <1>4, rfPut DEF rfIInv
<1>6. PICK r : r = [flight[f] EXCEPT !.state = "publish"] OBVIOUS
<1>7. /\ r \in Flight /\ r.state = "publish"
      /\ r.query = flight[f].query /\ r.generation = flight[f].generation /\ r.waiters = flight[f].waiters
      /\ r.cancelled = flight[f].cancelled /\ r.origin = flight[f].origin
    BY <1>3, <1>6 DEF Flight, FlightStates
<1> QED BY <1>1, <1>5, <1>6, <1>7, rfOneAdvances

\* A flight that finishes leaves the map; its waiters still hold it, unless nobody does.
LEMMA rfKeepsPublish == ASSUME rfIInv, NEW f \in Flights, FlightPublish(f) PROVE rfIInv'
<1> USE FlightsAssumption
<1> DEFINE key(g) == <<flight[g].query, flight[g].generation>>
           over == [flight[f] EXCEPT !.state = "finished"]
           next == IF flight[f].waiters = 0 THEN FreeFlight ELSE over
<1>1. flight[f] \in Flight /\ flight[f].waiters = Cardinality(Waiters(f)) /\ flight[f].waiters <= MaxWaiters
      /\ (flight[f].waiters = 0 <=> Waiters(f) = {})
    BY rfFlightFacts
<1>2. over.state = "finished" /\ over.waiters = flight[f].waiters /\ over \in Flight
    BY <1>1 DEF Flight, FlightStates
<1>3. /\ flight[f].state = "publish"
      /\ flight' = [flight EXCEPT ![f] = next]
      /\ inflight' = IF inflight[key(f)] = f THEN [inflight EXCEPT ![key(f)] = NoFlight] ELSE inflight
      /\ UNCHANGED <<closed, cacheGeneration, cache, at, question, started, waitsFor, got>>
    BY <1>2 DEF FlightPublish, Collected, caller
<1>4. next \in Flight
    <2>1. FreeFlight \in Flight
        <3>1. FALSE \in BOOLEAN /\ 0 \in Generations BY DEF Generations
        <3>2. "free" \in FlightStates BY DEF FlightStates
        <3> QED BY <3>1, <3>2 DEF FreeFlight, Flight
    <2> HIDE DEF over
    <2> QED BY <1>2, <2>1
<1>5. /\ next.waiters = flight[f].waiters
      /\ next.state \in {"free", "finished"}
      /\ next.state # "free" => /\ next.query = flight[f].query /\ next.generation = flight[f].generation
                                /\ next.origin = flight[f].origin
      /\ next.state = "free" => Waiters(f) = {}
    <2>1. CASE flight[f].waiters = 0 BY <1>1, <2>1 DEF FreeFlight
    <2>2. CASE flight[f].waiters # 0 BY <1>1, <2>2 DEF Flight
    <2> QED BY <2>1, <2>2
<1> HIDE DEF next, over
<1>6. /\ flight'[f] = next /\ \A g \in Flights : g # f => flight'[g] = flight[g]
    BY <1>3 DEF rfIInv, rfTypeOK
<1>7. key(f) \in Questions \X Generations BY <1>3, rfFlightFacts
<1>8. rfTypeOK'
    <2>1. flight' \in [Flights -> Flight] BY <1>3, <1>4 DEF rfIInv, rfTypeOK
    <2>2. inflight' \in [Questions \X Generations -> Flights \cup {NoFlight}] BY <1>3 DEF rfIInv, rfTypeOK
    <2>3. UNCHANGED <<closed, cacheGeneration, cache, at, question, started, waitsFor, got>> BY <1>3
    <2> QED BY <2>1, <2>2, <2>3 DEF rfIInv, rfTypeOK
<1>9. /\ \A j \in Questions \X Generations : inflight'[j] # NoFlight => inflight'[j] = inflight[j]
      /\ inflight'[key(f)] # f
      /\ \A j \in Questions \X Generations : j # key(f) => inflight'[j] = inflight[j]
    <2>1. CASE inflight[key(f)] = f
        <3>1. inflight' = [inflight EXCEPT ![key(f)] = NoFlight] BY <1>3, <2>1
        <3> HIDE DEF key
        <3> QED BY <1>7, <3>1 DEF rfIInv, rfTypeOK
    <2>2. CASE inflight[key(f)] # f BY <1>3, <2>2
    <2> QED BY <2>1, <2>2
<1>10. \A g \in Flights : {x \in Callers : waitsFor'[x] = g} = Waiters(g) BY <1>3 DEF Waiters
<1>11. rfTable'
    <2>1. \A g \in Flights : /\ flight'[g].waiters = Cardinality({x \in Callers : waitsFor'[x] = g})
                             /\ flight'[g].waiters <= MaxWaiters
        <3> SUFFICES ASSUME NEW g \in Flights
                     PROVE  /\ flight'[g].waiters = Cardinality({x \in Callers : waitsFor'[x] = g})
                            /\ flight'[g].waiters <= MaxWaiters
            OBVIOUS
        <3>1. flight[g].waiters = Cardinality(Waiters(g)) /\ flight[g].waiters <= MaxWaiters BY rfFlightFacts
        <3> QED BY <1>5, <1>6, <1>10, <3>1
    <2>2. \A g \in Flights : flight'[g].state \in {"running", "put", "publish"} =>
               (flight'[g].cancelled <=> ({x \in Callers : waitsFor'[x] = g} = {} \/ closed'))
        <3> SUFFICES ASSUME NEW g \in Flights, flight'[g].state \in {"running", "put", "publish"}
                     PROVE  flight'[g].cancelled <=> ({x \in Callers : waitsFor'[x] = g} = {} \/ closed')
            OBVIOUS
        <3>1. g # f BY <1>5, <1>6
        <3>2. Unfinished(g) /\ flight'[g] = flight[g] BY <1>6, <3>1 DEF Unfinished
        <3>3. flight[g].cancelled <=> (Waiters(g) = {} \/ closed) BY <3>2, rfTableNow
        <3>4. closed' = closed BY <1>3
        <3> QED BY <1>10, <3>2, <3>3, <3>4
    <2>3. \A g \in Flights :
               /\ flight'[g].state \in {"running", "put", "publish"}
               /\ {x \in Callers : waitsFor'[x] = g} # {}
               => inflight'[<<flight'[g].query, flight'[g].generation>>] = g
        <3> SUFFICES ASSUME NEW g \in Flights, flight'[g].state \in {"running", "put", "publish"},
                            {x \in Callers : waitsFor'[x] = g} # {}
                     PROVE  inflight'[<<flight'[g].query, flight'[g].generation>>] = g
            OBVIOUS
        <3>1. g # f BY <1>5, <1>6
        <3>2. Unfinished(g) /\ flight'[g] = flight[g] /\ Waiters(g) # {} BY <1>6, <1>10, <3>1 DEF Unfinished
        <3>3. inflight[key(g)] = g BY <3>2, rfTableNow
        <3>4. key(g) \in Questions \X Generations BY <3>2, rfFlightFacts DEF Unfinished
        <3>5. inflight'[key(g)] = g
            <4>1. CASE key(g) = key(f)
                <5>1. inflight[key(f)] # f BY <3>1, <3>3, <4>1
                <5>2. inflight' = inflight BY <1>3, <5>1
                <5> QED BY <3>3, <5>2
            <4>2. CASE key(g) # key(f) BY <1>9, <3>3, <3>4, <4>2
            <4> QED BY <4>1, <4>2
        <3> QED BY <3>2, <3>5
    <2>4. \A j \in Questions \X Generations : inflight'[j] # NoFlight =>
               \E g \in Flights : /\ inflight'[j] = g /\ flight'[g].state \in {"running", "put", "publish"}
                                  /\ {x \in Callers : waitsFor'[x] = g} # {}
                                  /\ j = <<flight'[g].query, flight'[g].generation>>
        <3> SUFFICES ASSUME NEW j \in Questions \X Generations, inflight'[j] # NoFlight
                     PROVE  \E g \in Flights : /\ inflight'[j] = g
                                               /\ flight'[g].state \in {"running", "put", "publish"}
                                               /\ {x \in Callers : waitsFor'[x] = g} # {}
                                               /\ j = <<flight'[g].query, flight'[g].generation>>
            OBVIOUS
        <3>1. PICK g : g = inflight[j] OBVIOUS
        <3>2. inflight'[j] = g BY <1>9, <3>1
        <3>3. /\ g \in Flights /\ Unfinished(g) /\ Waiters(g) # {} /\ j = key(g)
            BY <3>1, <3>2, rfTableNow
        <3>4. g # f BY <1>9, <3>2, <3>3
        <3>5. flight'[g] = flight[g] BY <1>6, <3>3, <3>4
        <3>6. flight'[g].state \in {"running", "put", "publish"} BY <3>3, <3>5 DEF Unfinished
        <3>7. {x \in Callers : waitsFor'[x] = g} # {} BY <1>10, <3>3
        <3> QED BY <3>2, <3>3, <3>5, <3>6, <3>7
    <2>5. InflightLen' <= MaxFlights
        <3>1. inflight' \in [Questions \X Generations -> Flights \cup {NoFlight}] BY <1>8 DEF rfTypeOK
        <3> QED BY <1>9, <3>1, rfMapShrinks DEF rfIInv, rfTable
    <2> QED BY <2>1, <2>2, <2>3, <2>4, <2>5, rfTableNext
<1>12. rfStore' BY <1>3, rfStoreKept DEF rfIInv
<1>13. rfHeld'
    <2> SUFFICES ASSUME NEW x \in Callers
                 PROVE /\ waitsFor'[x] # NoFlight <=> at'[x] \in {"wait", "release"}
                       /\ waitsFor'[x] # NoFlight => /\ flight'[waitsFor'[x]].state # "free"
                                                     /\ flight'[waitsFor'[x]].query = question'[x]
                                                     /\ flight'[waitsFor'[x]].generation = started'[x]
        BY DEF rfHeld
    <2>1. UNCHANGED <<at, question, started, waitsFor>> BY <1>3
    <2>2. waitsFor[x] \in Flights \cup {NoFlight} BY rfCallerFacts
    <2>3. /\ waitsFor[x] # NoFlight <=> at[x] \in {"wait", "release"}
          /\ waitsFor[x] # NoFlight => /\ flight[waitsFor[x]].state # "free"
                                       /\ flight[waitsFor[x]].query = question[x]
                                       /\ flight[waitsFor[x]].generation = started[x]
        BY DEF rfIInv, rfHeld
    <2>4. CASE waitsFor[x] = f
        <3>1. Waiters(f) # {} BY <2>4 DEF Waiters
        <3>2. next.state # "free" BY <1>5, <3>1
        <3> QED BY <1>5, <1>6, <2>1, <2>3, <2>4, <3>2
    <2>5. CASE waitsFor[x] # f BY <1>6, <2>1, <2>2, <2>3, <2>5
    <2> QED BY <2>4, <2>5
<1>14. rfAsked'
    <2>1. UNCHANGED <<cacheGeneration, at, question, started, got>> BY <1>3
    <2> QED BY <2>1 DEF rfIInv, rfAsked
<1>15. rfFlown'
    <2> SUFFICES ASSUME NEW g \in Flights, flight'[g].state # "free"
                 PROVE /\ flight'[g].query \in Questions
                       /\ flight'[g].generation <= flight'[g].origin
                       /\ flight'[g].origin <= cacheGeneration'
        BY DEF rfFlown
    <2>1. cacheGeneration' = cacheGeneration BY <1>3
    <2>2. CASE g = f BY <1>3, <1>5, <1>6, <2>1, <2>2 DEF rfIInv, rfFlown
    <2>3. CASE g # f BY <1>6, <2>1, <2>3 DEF rfIInv, rfFlown
    <2> QED BY <2>2, <2>3
<1> QED BY <1>8, <1>11, <1>12, <1>13, <1>14, <1>15 DEF rfIInv

\* Steps of the cache alone.
LEMMA rfCacheOnly ==
    ASSUME rfIInv, UNCHANGED <<closed, cacheGeneration, inflight, flight, at, question, started, waitsFor, got>>,
           cache' \in [Questions -> Entry], rfStore'
    PROVE  rfIInv'
<1>1. rfTypeOK' BY DEF rfIInv, rfTypeOK
<1>2. rfTable' BY rfTableKept DEF rfIInv
<1>3. rfHeld' BY DEF rfIInv, rfHeld
<1>4. rfAsked' BY DEF rfIInv, rfAsked
<1>5. rfFlown' BY rfFlownKept DEF rfIInv
<1> QED BY <1>1, <1>2, <1>3, <1>4, <1>5 DEF rfIInv

LEMMA rfKeepsExpire == ASSUME rfIInv, NEW k \in Questions, Expire(k) PROVE rfIInv' 
<1>1. /\ UNCHANGED <<closed, cacheGeneration, inflight, flight, at, question, started, waitsFor, got>>
      /\ cache' = [cache EXCEPT ![k] = [cache[k] EXCEPT !.state = "stale"]] /\ cache[k].state = "live"
    BY DEF Expire, caller
<1>2. cache[k] \in Entry BY DEF rfIInv, rfTypeOK
<1>3. PICK e : e = [cache[k] EXCEPT !.state = "stale"] OBVIOUS
<1>4. e \in Entry /\ e.origin = cache[k].origin BY <1>2, <1>3 DEF Entry
<1>5. cache' = [cache EXCEPT ![k] = e] BY <1>1, <1>3
<1>6. cache' \in [Questions -> Entry] BY <1>4, <1>5 DEF rfIInv, rfTypeOK
<1>7. \A q \in Questions : cache'[q] = cache[q] \/ (cache[q].state # "none" /\ cache'[q].origin = cache[q].origin)
    BY <1>1, <1>4, <1>5 DEF rfIInv, rfTypeOK
<1>8. rfStore' BY <1>1, <1>6, <1>7, rfForget DEF rfIInv
<1> QED BY <1>1, <1>6, <1>8, rfCacheOnly

LEMMA rfKeepsStatus == ASSUME rfIInv, CacheStatus PROVE rfIInv'
<1>1. /\ UNCHANGED <<closed, cacheGeneration, inflight, flight, at, question, started, waitsFor, got>>
      /\ cache' = [k \in Questions |-> IF k \in Live THEN cache[k] ELSE NoEntry]
    BY DEF CacheStatus, caller
<1>2. NoEntry \in Entry /\ NoEntry.state = "none" BY FlightsAssumption DEF NoEntry, Entry, Generations
<1>3. cache' \in [Questions -> Entry] BY <1>1, <1>2 DEF rfIInv, rfTypeOK
<1>4. \A q \in Questions : cache'[q] = cache[q] \/ cache'[q].state = "none" BY <1>1, <1>2
<1>5. rfStore' BY <1>1, <1>3, <1>4, rfForget DEF rfIInv
<1> QED BY <1>1, <1>3, <1>5, rfCacheOnly

LEMMA rfKeepsClear == ASSUME rfIInv, ClearCache PROVE rfIInv'
<1> USE FlightsAssumption
<1>1. /\ UNCHANGED <<closed, inflight, flight, at, question, started, waitsFor, got>>
      /\ cache' = [k \in Questions |-> NoEntry] /\ cacheGeneration' = cacheGeneration + 1
      /\ cacheGeneration < MaxClears
    BY DEF ClearCache, caller
<1>2. NoEntry \in Entry /\ NoEntry.state = "none" BY DEF NoEntry, Entry, Generations
<1>3. cacheGeneration' \in Generations /\ cacheGeneration \in Nat BY <1>1 DEF rfIInv, rfTypeOK, Generations
<1>4. rfTypeOK' BY <1>1, <1>2, <1>3 DEF rfIInv, rfTypeOK
<1>5. rfTable' BY <1>1, rfTableKept DEF rfIInv
<1>6. rfStore'
    <2>1. Stored' = {} BY <1>1, <1>2 DEF Stored
    <2> QED BY <2>1, FS_EmptySet DEF rfStore, CacheIsFresh
<1>7. rfHeld' BY <1>1 DEF rfIInv, rfHeld
<1>8. rfAsked'
    <2> SUFFICES ASSUME NEW c \in Callers, at'[c] # "idle"
                 PROVE /\ question'[c] \in Questions
                       /\ started'[c] <= got'[c] /\ got'[c] <= cacheGeneration'
        BY DEF rfAsked
    <2>1. got[c] \in Nat BY DEF rfIInv, rfTypeOK, Generations
    <2> QED BY <1>1, <1>3, <2>1 DEF rfIInv, rfAsked
<1>9. rfFlown'
    <2> SUFFICES ASSUME NEW g \in Flights, flight'[g].state # "free"
                 PROVE /\ flight'[g].query \in Questions
                       /\ flight'[g].generation <= flight'[g].origin
                       /\ flight'[g].origin <= cacheGeneration'
        BY DEF rfFlown
    <2>1. flight[g] \in Flight BY rfFlightFacts
    <2>2. flight[g].origin \in Nat BY <2>1 DEF Flight, Generations
    <2> QED BY <1>1, <1>3, <2>2 DEF rfIInv, rfFlown
<1> QED BY <1>4, <1>5, <1>6, <1>7, <1>8, <1>9 DEF rfIInv

LEMMA rfKeepsClose == ASSUME rfIInv, rfClose PROVE rfIInv'
<1>1. /\ UNCHANGED <<cacheGeneration, cache, inflight, at, question, started, waitsFor, got>>
      /\ closed' = TRUE
      /\ flight' = [f \in Flights |-> IF flight[f].state = "free" THEN flight[f]
                                      ELSE [flight[f] EXCEPT !.cancelled = TRUE]]
    BY DEF rfClose, caller
<1>2. \A f \in Flights :
        /\ flight'[f] \in Flight /\ flight'[f].waiters = flight[f].waiters /\ flight'[f].query = flight[f].query
        /\ flight'[f].state = flight[f].state /\ flight'[f].generation = flight[f].generation
        /\ flight'[f].origin = flight[f].origin /\ (flight[f].state # "free" => flight'[f].cancelled)
    <2> SUFFICES ASSUME NEW f \in Flights
                 PROVE  /\ flight'[f] \in Flight /\ flight'[f].waiters = flight[f].waiters
                        /\ flight'[f].query = flight[f].query
                        /\ flight'[f].state = flight[f].state /\ flight'[f].generation = flight[f].generation
                        /\ flight'[f].origin = flight[f].origin /\ (flight[f].state # "free" => flight'[f].cancelled)
        OBVIOUS
    <2>1. flight[f] \in Flight BY rfFlightFacts
    <2>2. CASE flight[f].state = "free" BY <1>1, <2>1, <2>2
    <2>3. CASE flight[f].state # "free"
        <3>1. flight'[f] = [flight[f] EXCEPT !.cancelled = TRUE] BY <1>1, <2>3
        <3> QED BY <2>1, <3>1 DEF Flight
    <2> QED BY <2>2, <2>3
<1>3. rfTypeOK'
    <2>1. flight' \in [Flights -> Flight] BY <1>1, <1>2
    <2>2. closed' \in BOOLEAN BY <1>1
    <2> QED BY <1>1, <2>1, <2>2 DEF rfIInv, rfTypeOK
<1>4. rfTable'
    <2>1. \A g \in Flights : {x \in Callers : waitsFor'[x] = g} = Waiters(g) BY <1>1 DEF Waiters
    <2>2. \A g \in Flights : flight[g].waiters = Cardinality(Waiters(g)) /\ flight[g].waiters <= MaxWaiters
        BY rfFlightFacts
    <2>3. InflightLen' <= MaxFlights BY <1>1 DEF rfIInv, rfTable, InflightLen
    <2>4. \A j \in Questions \X Generations : inflight'[j] # NoFlight =>
               \E g \in Flights : /\ inflight'[j] = g /\ flight'[g].state \in {"running", "put", "publish"}
                                  /\ {x \in Callers : waitsFor'[x] = g} # {}
                                  /\ j = <<flight'[g].query, flight'[g].generation>>
        <3> SUFFICES ASSUME NEW j \in Questions \X Generations, inflight'[j] # NoFlight
                     PROVE  \E g \in Flights : /\ inflight'[j] = g
                                               /\ flight'[g].state \in {"running", "put", "publish"}
                                               /\ {x \in Callers : waitsFor'[x] = g} # {}
                                               /\ j = <<flight'[g].query, flight'[g].generation>>
            OBVIOUS
        <3>1. PICK g : g = inflight[j] OBVIOUS
        <3>2. inflight'[j] = g BY <1>1, <3>1
        <3>3. /\ g \in Flights /\ Unfinished(g) /\ Waiters(g) # {}
              /\ j = <<flight[g].query, flight[g].generation>>
            BY <3>1, <3>2, rfTableNow
        <3> QED BY <1>2, <2>1, <3>2, <3>3 DEF Unfinished
    <2>5. \A g \in Flights : flight'[g].waiters = Cardinality({x \in Callers : waitsFor'[x] = g})
        BY <1>2, <2>1, <2>2
    <2>6. \A g \in Flights : flight'[g].waiters <= MaxWaiters BY <1>2, <2>2
    <2>7. \A g \in Flights : flight'[g].state \in {"running", "put", "publish"} =>
               (flight'[g].cancelled <=> ({x \in Callers : waitsFor'[x] = g} = {} \/ closed'))
        BY <1>1, <1>2
    <2>8. \A g \in Flights :
               /\ flight'[g].state \in {"running", "put", "publish"}
               /\ {x \in Callers : waitsFor'[x] = g} # {}
               => inflight'[<<flight'[g].query, flight'[g].generation>>] = g
        <3> SUFFICES ASSUME NEW g \in Flights, flight'[g].state \in {"running", "put", "publish"},
                            {x \in Callers : waitsFor'[x] = g} # {}
                     PROVE  inflight'[<<flight'[g].query, flight'[g].generation>>] = g
            OBVIOUS
        <3>1. Unfinished(g) /\ Waiters(g) # {} BY <1>2, <2>1 DEF Unfinished
        <3>2. inflight[<<flight[g].query, flight[g].generation>>] = g BY <3>1, rfTableNow
        <3>3. inflight' = inflight BY <1>1
        <3> QED BY <1>2, <3>2, <3>3
    <2> QED BY <2>3, <2>4, <2>5, <2>6, <2>7, <2>8, rfTableNext
<1>5. rfStore' BY <1>1, rfStoreKept DEF rfIInv
<1>6. rfHeld'
    <2> SUFFICES ASSUME NEW x \in Callers
                 PROVE /\ waitsFor'[x] # NoFlight <=> at'[x] \in {"wait", "release"}
                       /\ waitsFor'[x] # NoFlight => /\ flight'[waitsFor'[x]].state # "free"
                                                     /\ flight'[waitsFor'[x]].query = question'[x]
                                                     /\ flight'[waitsFor'[x]].generation = started'[x]
        BY DEF rfHeld
    <2>1. UNCHANGED <<at, question, started, waitsFor>> BY <1>1
    <2>2. waitsFor[x] \in Flights \cup {NoFlight} BY rfCallerFacts
    <2> QED BY <1>2, <2>1, <2>2 DEF rfIInv, rfHeld
<1>7. rfAsked'
    <2>1. UNCHANGED <<cacheGeneration, at, question, started, got>> BY <1>1
    <2> QED BY <2>1 DEF rfIInv, rfAsked
<1>8. rfFlown'
    <2>1. UNCHANGED cacheGeneration BY <1>1
    <2> QED BY <1>2, <2>1 DEF rfIInv, rfFlown
<1> QED BY <1>3, <1>4, <1>5, <1>6, <1>7, <1>8 DEF rfIInv

-----------------------------------------------------------------------------
\* Every step keeps the invariant and, once the resolver is closed, its cache from anything new.
rfFrozen == closed => \A k \in Questions : cache'[k] # cache[k] => cache'[k].state # "live"
LEMMA rfStep == ASSUME rfIInv, rfNext PROVE rfIInv' /\ rfFrozen
<1>1. ASSUME NEW c \in Callers, CallerStep(c) \/ CallerCancelled(c) \/ \E k \in Questions : rfBegin(c, k)
      PROVE  rfIInv' /\ rfFrozen
    <2>1. CASE CheckOpen(c) BY <2>1, rfKeepsOpen DEF CheckOpen, rfFrozen
    <2>2. CASE CacheGet(c)
        <3>1. \A k \in Questions : cache'[k] # cache[k] => cache'[k].state # "live"
            BY <2>2 DEF CacheGet, NoEntry, rfIInv, rfTypeOK
        <3> QED BY <2>2, <3>1, rfKeepsGet DEF rfFrozen
    <2>3. CASE SharedReturns(c) BY <2>3, rfKeepsShared DEF SharedReturns, rfFrozen
    <2>4. CASE ResolveDirect(c) BY <2>4, rfKeepsDirect DEF ResolveDirect, rfFrozen
    <2>5. CASE JoinFlight(c) BY <2>5, rfKeepsJoin DEF JoinFlight, rfFrozen
    <2>6. CASE WaitEnds(c) BY <2>6, rfKeepsWaitEnds DEF WaitEnds, rfFrozen
    <2>7. CASE ReleaseFlight(c) BY <2>7, rfKeepsRelease DEF ReleaseFlight, rfFrozen
    <2>8. CASE DirectPut(c) BY <2>8, rfKeepsDirectPut DEF rfFrozen
    <2>9. CASE rfReturn(c) BY <2>9, rfKeepsReturn DEF rfReturn, rfFrozen
    <2>10. ASSUME NEW f \in Flights, StartFlight(c, f) PROVE rfIInv' /\ rfFrozen
        BY <2>10, rfKeepsStart DEF StartFlight, rfFrozen
    <2>11. ASSUME NEW b \in BOOLEAN, DirectResolved(c, b) PROVE rfIInv' /\ rfFrozen
        BY <2>11, rfKeepsResolved DEF DirectResolved, rfFrozen
    <2>12. CASE CallerCancelled(c) BY <2>12, rfKeepsCancelled DEF CallerCancelled, rfFrozen
    <2>13. ASSUME NEW k \in Questions, rfBegin(c, k) PROVE rfIInv' /\ rfFrozen
        BY <2>13, rfKeepsBegin DEF rfBegin, rfFrozen
    <2> QED BY <1>1, <2>1, <2>2, <2>3, <2>4, <2>5, <2>6, <2>7, <2>8, <2>9, <2>10, <2>11, <2>12, <2>13
            DEF CallerStep
<1>2. ASSUME NEW f \in Flights, FlightStep(f) PROVE rfIInv' /\ rfFrozen
    <2>1. CASE FlightPut(f) BY <2>1, rfKeepsFlightPut DEF rfFrozen
    <2>2. CASE FlightPublish(f) BY <2>2, rfKeepsPublish DEF FlightPublish, rfFrozen
    <2>3. ASSUME NEW ok \in BOOLEAN, NEW cacheable \in BOOLEAN, FlightResolved(f, ok, cacheable)
          PROVE  rfIInv' /\ rfFrozen
        BY <2>3, rfKeepsFlightResolved DEF FlightResolved, rfFrozen
    <2> QED BY <1>2, <2>1, <2>2, <2>3 DEF FlightStep
<1>3. ASSUME NEW k \in Questions, Expire(k) PROVE rfIInv' /\ rfFrozen
    <2>1. cache[k] \in Entry BY DEF rfIInv, rfTypeOK
    <2>2. \A q \in Questions : cache'[q] # cache[q] => cache'[q].state # "live"
        BY <1>3, <2>1 DEF Expire, Entry, rfIInv, rfTypeOK
    <2> QED BY <1>3, <2>2, rfKeepsExpire DEF rfFrozen
<1>4. CASE CacheStatus
    <2>1. \A q \in Questions : cache'[q] # cache[q] => cache'[q].state # "live"
        BY <1>4 DEF CacheStatus, NoEntry
    <2> QED BY <1>4, <2>1, rfKeepsStatus DEF rfFrozen
<1>5. CASE ClearCache
    <2>1. \A q \in Questions : cache'[q].state # "live" BY <1>5 DEF ClearCache, NoEntry
    <2> QED BY <1>5, <2>1, rfKeepsClear DEF rfFrozen
<1>6. CASE rfClose BY <1>6, rfKeepsClose DEF rfClose, rfFrozen
<1> QED BY <1>1, <1>2, <1>3, <1>4, <1>5, <1>6 DEF rfNext

LEMMA rfStutter == ASSUME rfIInv, UNCHANGED rfVars PROVE rfIInv' /\ rfFrozen
<1>1. rfTypeOK' /\ rfTable' /\ rfStore' /\ rfFlown'
    BY rfTableKept, rfStoreKept, rfFlownKept DEF rfIInv, rfTypeOK, rfVars
<1>2. rfHeld' /\ rfAsked' BY DEF rfIInv, rfHeld, rfAsked, rfVars
<1>3. rfFrozen BY DEF rfFrozen, rfVars
<1> QED BY <1>1, <1>2, <1>3 DEF rfIInv

\* FlightsSafe for any number of callers, questions and flights and for any limits.
THEOREM FlightsAreSafe == rfSpec => FlightsSafe
<1>1. rfInit => rfIInv BY rfInitially
<1>2. rfIInv /\ [rfNext]_rfVars => rfIInv' BY rfStep, rfStutter
<1>3. rfIInv /\ [rfNext]_rfVars => (closed => \A k \in Questions : cache'[k] # cache[k] => cache'[k].state # "live")
    BY rfStep, rfStutter DEF rfFrozen
<1>4. rfIInv => rfTypeOK /\ WaitersCounted /\ OwnedByWaiters /\ Deduplicated /\ CacheIsFresh
                /\ AnswerIsFresh /\ Bounded /\ FlightGoesOn
    BY rfImplies DEF rfSafe
<1> QED BY <1>1, <1>2, <1>3, <1>4, PTL DEF rfSpec, FlightsSafe, ClosedIsFrozen

-----------------------------------------------------------------------------
(* The races of the pairs of provider and route for a query. *)

drSpec == drInit /\ [][drNext]_drVars

DrAts == {"idle", "race", "won", "lost", "timeout"}
DrPlaces == {"none", "queued", "begun", "exchange", "ended", "told"}
drTypes ==
    /\ drLife \in DrResolvers /\ drUsed \in [DrResolvers -> Nat]
    /\ drQuery \in [DrQueries -> [at : DrAts, of : {0, 1, 2}, todo : Seq(DrPairs)]]
    /\ drHeld \subseteq DrQueries
    /\ drWork \in [DrQueries -> [DrPairs -> [at : DrPlaces, res : {"none", "ok", "err", "off", "cut"}]]]
    /\ drTable \subseteq DrPairs
    /\ drLease \in [key : DrPairs \cup {DrNone}, token : Nat]
    /\ drProbe \in [DrResolvers -> [at : {"idle", "slot", "exchange"}, pair : DrPairs \cup {DrNone},
                                    token : Nat, cut : BOOLEAN]]
\* The pairs a dispatcher still has are distinct and wait; it holds a slot only for the next of them.
drQueues ==
    \A q \in DrQueries :
        /\ drQuery[q].at = "idle" => drQuery[q].todo = <<>> /\ \A p \in DrPairs : drWork[q][p].at = "none"
        /\ drQuery[q].at # "idle" => drQuery[q].of \in DrResolvers
        /\ q \in drHeld => drQuery[q].todo # <<>>
        /\ \A i \in 1..Len(drQuery[q].todo) :
             /\ drWork[q][drQuery[q].todo[i]].at = "queued"
             /\ \A j \in 1..Len(drQuery[q].todo) : drQuery[q].todo[i] = drQuery[q].todo[j] => i = j
\* A worker is cancelled by its switch from the moment it has begun, also when that is moved back.
drSwitched ==
    \A q \in DrQueries, p \in DrPairs :
        /\ drRunning(q, p) /\ (p \in drOff \/ <<q, p>> \in drMoved) => <<q, p>> \in drCut
        /\ <<q, p>> \in drMoved => drRunning(q, p)
drEnded ==
    \A q \in DrQueries, p \in DrPairs :
        /\ drWork[q][p].at = "exchange" => drWork[q][p].res = "none"
        /\ drWork[q][p].at = "ended" /\ drWork[q][p].res = "cut" => drDone(q)
        /\ drWork[q][p].at = "ended" => drWork[q][p].res # "none"
\* The lease is that of the one probe under way.
drLeased ==
    /\ \A r \in DrResolvers : drProbe[r].at = "exchange" =>
           /\ drProbe[r].pair \in DrPairs /\ drLease.key = drProbe[r].pair /\ drLease.token = drProbe[r].token
           /\ \A s \in DrResolvers : drProbe[s].at = "exchange" => s = r
    /\ drLease.key # DrNone => \E r \in DrResolvers : drProbe[r].at = "exchange"

\* What the slots of a resolver are counted by.
drHolders(h, q, r) == {x \in h : q[x].of = r}
drWorkers(w, q, r) ==
    {x \in DrQueries \X DrPairs : w[x[1]][x[2]].at \in {"begun", "exchange", "ended"} /\ q[x[1]].of = r}
drProbing(p, r) == IF p[r].at = "idle" THEN 0 ELSE 1
drTotal(h, w, q, p, r) ==
    Cardinality(drHolders(h, q, r)) + Cardinality(drWorkers(w, q, r)) + drProbing(p, r)
drCounted ==
    \A r \in DrResolvers :
        drUsed[r] = drTotal(drHeld, drWork, drQuery, drProbe, r) /\ drUsed[r] <= DrSlots

drIInv ==
    /\ drTypes /\ drQueues /\ drSwitched /\ drEnded /\ drLeased /\ drCounted
    /\ CanceledIsNeutral /\ ProbedIsTracked /\ FailsOnlyWhenAllFailed

DrQueryRec == [at : DrAts, of : {0, 1, 2}, todo : Seq(DrPairs)]
DrWorkRec == [at : DrPlaces, res : {"none", "ok", "err", "off", "cut"}]

LEMMA drFinite ==
    ASSUME drTypes, NEW r \in DrResolvers
    PROVE  /\ IsFiniteSet(drHolders(drHeld, drQuery, r)) /\ Cardinality(drHolders(drHeld, drQuery, r)) \in Nat
           /\ IsFiniteSet(drWorkers(drWork, drQuery, r)) /\ Cardinality(drWorkers(drWork, drQuery, r)) \in Nat
<1>1. IsFiniteSet(DrQueries) /\ IsFiniteSet(DrQueries \X DrPairs) BY DrAssumption, FS_Product
<1>2. drHolders(drHeld, drQuery, r) \subseteq DrQueries BY DEF drTypes, drHolders
<1>3. drWorkers(drWork, drQuery, r) \subseteq DrQueries \X DrPairs BY DEF drWorkers
<1> QED BY <1>1, <1>2, <1>3, FS_Subset, FS_CardinalityType

\* A touched table has the pair, keeps the one that is probed and stays within its limit.
LEMMA drTouched ==
    ASSUME drTypes, ProbedIsTracked, NEW p \in DrPairs, drTouch(p)
    PROVE  /\ drTable' \subseteq DrPairs /\ p \in drTable' /\ Cardinality(drTable') <= DrTable
           /\ drLease.key # DrNone => drLease.key \in drTable'
<1>1. PICK t : t \in SUBSET DrPairs /\ touched(p, t) /\ drTable' = t BY DEF drTouch
<1>2. IsFiniteSet(drTable) /\ Cardinality(drTable) \in Nat BY DrAssumption, FS_Subset, FS_CardinalityType DEF drTypes
<1>3. CASE p \in drTable BY <1>1, <1>3 DEF touched, ProbedIsTracked
<1>4. CASE p \notin drTable /\ Cardinality(drTable) < DrTable
    <2>1. drTable' = drTable \cup {p} BY <1>1, <1>4 DEF touched
    <2>2. Cardinality(drTable') = Cardinality(drTable) + 1 BY <1>2, <1>4, <2>1, FS_AddElement
    <2> QED BY <1>1, <1>2, <1>4, <2>1, <2>2, DrAssumption DEF ProbedIsTracked
<1>5. CASE p \notin drTable /\ ~(Cardinality(drTable) < DrTable)
    <2>1. Evictable # {}
        <3>1. SUFFICES ASSUME Evictable = {} PROVE FALSE OBVIOUS
        <3>2. drTable \subseteq {drLease.key} BY <3>1 DEF Evictable
        <3>3. IsFiniteSet({drLease.key}) /\ Cardinality({drLease.key}) = 1 BY FS_Singleton
        <3>4. Cardinality(drTable) <= 1 BY <3>2, <3>3, FS_Subset
        <3> QED BY <1>2, <1>5, <3>4, DrAssumption
    <2>2. PICK old \in Evictable : drTable' = (drTable \ {old}) \cup {p} BY <1>1, <1>5, <2>1 DEF touched
    <2>3. old \in drTable /\ old # drLease.key BY <2>2 DEF Evictable
    <2>4. IsFiniteSet(drTable \ {old}) /\ Cardinality(drTable \ {old}) = Cardinality(drTable) - 1
        BY <1>2, <2>3, FS_RemoveElement
    <2>a. p \notin drTable \ {old} BY <1>5
    <2>b. Cardinality((drTable \ {old}) \cup {p}) = Cardinality(drTable \ {old}) + 1 BY <2>4, <2>a, FS_AddElement
    <2>5. Cardinality(drTable') = Cardinality(drTable) BY <1>2, <2>2, <2>4, <2>b
    <2> QED BY <1>1, <1>5, <2>2, <2>3, <2>5 DEF ProbedIsTracked
<1> QED BY <1>3, <1>4, <1>5

\* One query or one worker changes and the others stay.
LEMMA drQueryPut ==
    ASSUME drTypes, NEW q \in DrQueries, NEW v \in DrQueryRec, drQuery' = [drQuery EXCEPT ![q] = v]
    PROVE  /\ drQuery' \in [DrQueries -> DrQueryRec] /\ drQuery'[q] = v
           /\ \A x \in DrQueries : x # q => drQuery'[x] = drQuery[x]
BY DEF drTypes, DrQueryRec

LEMMA drWorkPut ==
    ASSUME drTypes, NEW q \in DrQueries, NEW p \in DrPairs, NEW v \in DrWorkRec, drWork' = [drWork EXCEPT ![q][p] = v]
    PROVE  /\ drWork' \in [DrQueries -> [DrPairs -> DrWorkRec]] /\ drWork'[q][p] = v
           /\ \A x \in DrQueries, y \in DrPairs : x # q \/ y # p => drWork'[x][y] = drWork[x][y]
<1>1. drWork \in [DrQueries -> [DrPairs -> DrWorkRec]] BY DEF drTypes, DrWorkRec
<1>2. drWork[q] \in [DrPairs -> DrWorkRec] /\ drWork'[q] = [drWork[q] EXCEPT ![p] = v] BY <1>1
<1>3. drWork'[q] \in [DrPairs -> DrWorkRec] BY <1>2
<1>4. \A x \in DrQueries : x # q => drWork'[x] = drWork[x] BY <1>1
<1>5. drWork' \in [DrQueries -> [DrPairs -> DrWorkRec]] BY <1>1, <1>3
<1> QED BY <1>2, <1>3, <1>4, <1>5

\* Nothing the slots are counted by changes.
LEMMA drRecounted ==
    ASSUME drIInv, drUsed' = drUsed,
           \A r \in DrResolvers : /\ drHolders(drHeld', drQuery', r) = drHolders(drHeld, drQuery, r)
                                  /\ drWorkers(drWork', drQuery', r) = drWorkers(drWork, drQuery, r)
                                  /\ drProbing(drProbe', r) = drProbing(drProbe, r)
    PROVE  drCounted'
BY DEF drIInv, drCounted, drTotal

\* One resolver has taken or given one slot.
LEMMA drTookOne ==
    ASSUME drIInv, NEW r \in DrResolvers, drTakeSlot(r),
           drTotal(drHeld', drWork', drQuery', drProbe', r) = drTotal(drHeld, drWork, drQuery, drProbe, r) + 1,
           \A s \in DrResolvers : s # r => drTotal(drHeld', drWork', drQuery', drProbe', s)
                                           = drTotal(drHeld, drWork, drQuery, drProbe, s)
    PROVE  drCounted' /\ drUsed' \in [DrResolvers -> Nat]
<1>1. drUsed \in [DrResolvers -> Nat] /\ drUsed' = [drUsed EXCEPT ![r] = drUsed[r] + 1] /\ drUsed[r] < DrSlots
    BY DEF drIInv, drTypes, drTakeSlot
<1>2. drUsed' \in [DrResolvers -> Nat] /\ drUsed'[r] = drUsed[r] + 1 BY <1>1
<1>3. \A s \in DrResolvers : s # r => drUsed'[s] = drUsed[s] BY <1>1
<1> QED BY <1>1, <1>2, <1>3, DrAssumption DEF drIInv, drCounted

LEMMA drGaveOne ==
    ASSUME drIInv, NEW r \in DrResolvers, drGiveSlot(r),
           drTotal(drHeld', drWork', drQuery', drProbe', r) = drTotal(drHeld, drWork, drQuery, drProbe, r) - 1,
           drTotal(drHeld', drWork', drQuery', drProbe', r) \in Nat,
           \A s \in DrResolvers : s # r => drTotal(drHeld', drWork', drQuery', drProbe', s)
                                           = drTotal(drHeld, drWork, drQuery, drProbe, s)
    PROVE  drCounted' /\ drUsed' \in [DrResolvers -> Nat]
<1>1. drUsed \in [DrResolvers -> Nat] /\ drUsed' = [drUsed EXCEPT ![r] = drUsed[r] - 1]
    BY DEF drIInv, drTypes, drGiveSlot
<1>2. drUsed[r] = drTotal(drHeld, drWork, drQuery, drProbe, r) /\ drUsed[r] <= DrSlots BY DEF drIInv, drCounted
<1>3. drUsed[r] - 1 \in Nat /\ drUsed[r] - 1 <= DrSlots BY <1>1, <1>2, DrAssumption
<1>4. drUsed' \in [DrResolvers -> Nat] /\ drUsed'[r] = drUsed[r] - 1 BY <1>1, <1>3
<1>5. \A s \in DrResolvers : s # r => drUsed'[s] = drUsed[s] BY <1>1
<1> QED BY <1>1, <1>2, <1>3, <1>4, <1>5 DEF drIInv, drCounted

LEMMA DrIsSeq == ASSUME NEW S, NEW n \in Nat, NEW f \in [1..n -> S] PROVE f \in Seq(S) /\ Len(f) = n
OBVIOUS

LEMMA drTotals ==
    ASSUME NEW h, NEW w, NEW q, NEW p, NEW r,
           Cardinality(drHolders(h, q, r)) \in Nat, Cardinality(drWorkers(w, q, r)) \in Nat
    PROVE  drTotal(h, w, q, p, r) \in Nat
BY DEF drTotal, drProbing

\* A query takes the enabled pairs in the order of their scores.
LEMMA drResolveStep ==
    ASSUME drIInv, NEW q \in DrQueries, NEW todo \in SetToSeqs(DrPool \ drOff), resolveConfigured(q, todo)
    PROVE  drIInv'
<1>1. /\ todo \in Seq(DrPairs) /\ \A i, j \in 1..Len(todo) : todo[i] = todo[j] => i = j
      /\ \A i \in 1..Len(todo) : todo[i] \in Range(todo)
    <2>1. IsFiniteSet(DrPool \ drOff) BY DrAssumption, FS_Subset
    <2>2. Cardinality(DrPool \ drOff) \in Nat BY <2>1, FS_CardinalityType
    <2>3. /\ todo \in [1..Cardinality(DrPool \ drOff) -> DrPool \ drOff]
          /\ \A i, j \in 1..Cardinality(DrPool \ drOff) : i # j => todo[i] # todo[j]
        BY DEF SetToSeqs
    <2>4. todo \in [1..Cardinality(DrPool \ drOff) -> DrPairs] BY <2>3, DrAssumption
    <2>5. todo \in Seq(DrPairs) /\ Len(todo) = Cardinality(DrPool \ drOff) BY <2>2, <2>4, DrIsSeq
    <2> QED BY <2>3, <2>5, <2>2 DEF Range
<1>2. /\ drQuery[q].at = "idle" /\ drQuery' = [drQuery EXCEPT ![q] = [at |-> "race", of |-> drLife, todo |-> todo]]
      /\ drWork' = [drWork EXCEPT ![q] = [p \in DrPairs |->
                     [at |-> IF p \in Range(todo) THEN "queued" ELSE "none", res |-> "none"]]]
      /\ UNCHANGED <<drLife, drUsed, drOff, drHeld, drCut, drTable, drLease, drProbe, drBlame, drMoved, drEdits>>
    BY DEF resolveConfigured
<1>3. [at |-> "race", of |-> drLife, todo |-> todo] \in DrQueryRec
    BY <1>1 DEF drIInv, drTypes, DrQueryRec, DrAts, DrResolvers
<1>4. /\ drQuery' \in [DrQueries -> DrQueryRec] /\ drQuery'[q] = [at |-> "race", of |-> drLife, todo |-> todo]
      /\ \A x \in DrQueries : x # q => drQuery'[x] = drQuery[x]
    BY <1>2, <1>3, drQueryPut DEF drIInv
<1>5. /\ drWork' \in [DrQueries -> [DrPairs -> DrWorkRec]]
      /\ \A p \in DrPairs : /\ drWork'[q][p].at = (IF p \in Range(todo) THEN "queued" ELSE "none")
                            /\ drWork'[q][p].res = "none"
      /\ \A x \in DrQueries : x # q => drWork'[x] = drWork[x]
    BY <1>2 DEF drIInv, drTypes, DrWorkRec, DrPlaces
<1>6. q \notin drHeld /\ \A p \in DrPairs : drWork[q][p].at = "none" BY <1>2 DEF drIInv, drQueues
<1>7. drTypes' BY <1>2, <1>4, <1>5 DEF drIInv, drTypes, DrQueryRec, DrWorkRec
<1>8. drQueues'
    <2>1. \A x \in DrQueries : x # q => drQuery'[x] = drQuery[x] /\ drWork'[x] = drWork[x] BY <1>4, <1>5
    <2>2. drLife \in DrResolvers /\ \A i \in 1..Len(todo) : todo[i] \in DrPairs BY <1>1 DEF drIInv, drTypes
    <2>3. \A i \in 1..Len(todo) : drWork'[q][todo[i]].at = "queued" BY <1>1, <1>5, <2>2
    <2> QED BY <1>1, <1>2, <1>4, <1>6, <2>1, <2>2, <2>3 DEF drIInv, drQueues
<1>9. drSwitched' BY <1>2, <1>5, <1>6 DEF drIInv, drSwitched, drRunning
<1>10. drEnded' BY <1>2, <1>4, <1>5, <1>6 DEF drIInv, drEnded, drDone, drDead
<1>11. drLeased' /\ CanceledIsNeutral' /\ ProbedIsTracked'
    BY <1>2 DEF drIInv, drLeased, CanceledIsNeutral, ProbedIsTracked
<1>12. drCounted'
    <2>1. \A r \in DrResolvers : drHolders(drHeld', drQuery', r) = drHolders(drHeld, drQuery, r)
        BY <1>2, <1>4, <1>6 DEF drHolders, drIInv, drTypes
    <2>2. \A r \in DrResolvers : drWorkers(drWork', drQuery', r) = drWorkers(drWork, drQuery, r)
        BY <1>4, <1>5, <1>6 DEF drWorkers
    <2> QED BY <1>2, <2>1, <2>2, drRecounted
<1>13. FailsOnlyWhenAllFailed' BY <1>2, <1>4, <1>5 DEF drIInv, FailsOnlyWhenAllFailed
<1> QED BY <1>7, <1>8, <1>9, <1>10, <1>11, <1>12, <1>13 DEF drIInv

\* The dispatcher takes a slot.
LEMMA drSlotStep == ASSUME drIInv, NEW q \in DrQueries, dispatchSlot(q) PROVE drIInv'
<1>1. /\ drQuery[q].todo # <<>> /\ q \notin drHeld /\ drTakeSlot(drQuery[q].of) /\ drHeld' = drHeld \cup {q}
      /\ UNCHANGED <<drLife, drOff, drQuery, drWork, drCut, drTable, drLease, drProbe, drBlame, drMoved, drEdits>>
    BY DEF dispatchSlot
<1> DEFINE r == drQuery[q].of
<1>2. r \in DrResolvers BY <1>1 DEF drIInv, drQueues, drTypes
<1>3. \A s \in DrResolvers : s # r => drHolders(drHeld', drQuery', s) = drHolders(drHeld, drQuery, s)
    BY <1>1 DEF drHolders
<1>4. drHolders(drHeld', drQuery', r) = drHolders(drHeld, drQuery, r) \cup {q} /\ q \notin drHolders(drHeld, drQuery, r)
    BY <1>1 DEF drHolders
<1>5. Cardinality(drHolders(drHeld', drQuery', r)) = Cardinality(drHolders(drHeld, drQuery, r)) + 1
    BY <1>2, <1>4, drFinite, FS_AddElement DEF drIInv
<1>6. drTotal(drHeld', drWork', drQuery', drProbe', r) = drTotal(drHeld, drWork, drQuery, drProbe, r) + 1
    BY <1>1, <1>2, <1>5, drFinite DEF drTotal, drProbing, drIInv
<1>7. \A s \in DrResolvers : s # r => drTotal(drHeld', drWork', drQuery', drProbe', s)
                                      = drTotal(drHeld, drWork, drQuery, drProbe, s)
    BY <1>1, <1>3 DEF drTotal
<1>8. drCounted' /\ drUsed' \in [DrResolvers -> Nat] BY <1>1, <1>2, <1>6, <1>7, drTookOne
<1>9. drTypes' BY <1>1, <1>8 DEF drIInv, drTypes
<1>10. drQueues' BY <1>1 DEF drIInv, drQueues
<1>11. drSwitched' /\ drEnded' /\ drLeased' BY <1>1 DEF drIInv, drSwitched, drEnded, drLeased, drRunning, drDone, drDead
<1> QED BY <1>1, <1>8, <1>9, <1>10, <1>11 DEF drIInv, CanceledIsNeutral, ProbedIsTracked, FailsOnlyWhenAllFailed

\* It gives up with its query.
LEMMA drStopsStep == ASSUME drIInv, NEW q \in DrQueries, dispatchStops(q) PROVE drIInv'
<1>1. /\ drQuery[q].todo # <<>> /\ drDone(q)
      /\ drQuery' = [drQuery EXCEPT ![q].todo = <<>>] /\ drHeld' = drHeld \ {q}
      /\ IF q \in drHeld THEN drGiveSlot(drQuery[q].of) ELSE UNCHANGED drUsed
      /\ UNCHANGED <<drLife, drOff, drWork, drCut, drTable, drLease, drProbe, drBlame, drMoved, drEdits>>
    BY DEF dispatchStops
<1> DEFINE r == drQuery[q].of
<1>2. r \in DrResolvers BY <1>1 DEF drIInv, drQueues, drTypes
<1>3. /\ drQuery' \in [DrQueries -> DrQueryRec]
      /\ drQuery'[q].todo = <<>> /\ drQuery'[q].at = drQuery[q].at /\ drQuery'[q].of = drQuery[q].of
      /\ \A x \in DrQueries : x # q => drQuery'[x] = drQuery[x]
    <2>1. drQuery \in [DrQueries -> DrQueryRec] /\ <<>> \in Seq(DrPairs) BY DEF drIInv, drTypes, DrQueryRec
    <2>2. drQuery' = [drQuery EXCEPT ![q] = [drQuery[q] EXCEPT !.todo = <<>>]] BY <1>1, <2>1
    <2>3. drQuery[q] \in DrQueryRec BY <2>1
    <2>4. [drQuery[q] EXCEPT !.todo = <<>>] \in DrQueryRec BY <2>1, <2>3 DEF DrQueryRec
    <2>5. LET v == [drQuery[q] EXCEPT !.todo = <<>>] IN v.todo = <<>> /\ v.at = drQuery[q].at /\ v.of = drQuery[q].of
        BY <2>3 DEF DrQueryRec
    <2> QED BY <2>2, <2>4, <2>5, drQueryPut DEF drIInv
<1>a. \A x \in DrQueries : drQuery'[x].of = drQuery[x].of /\ drQuery'[x].at = drQuery[x].at BY <1>3
<1>4. \A s \in DrResolvers : drWorkers(drWork', drQuery', s) = drWorkers(drWork, drQuery, s)
    BY <1>1, <1>a DEF drWorkers
<1>5. \A s \in DrResolvers : s # r \/ q \notin drHeld
                             => drHolders(drHeld', drQuery', s) = drHolders(drHeld, drQuery, s)
    BY <1>1, <1>a DEF drHolders, drIInv, drTypes
<1>6. drCounted' /\ drUsed' \in [DrResolvers -> Nat]
    <2>1. CASE q \notin drHeld
        <3>1. drUsed' = drUsed BY <1>1, <2>1
        <3> QED BY <1>1, <1>4, <1>5, <2>1, <3>1, drRecounted DEF drIInv, drTypes
    <2>2. CASE q \in drHeld
        <3>1. drHolders(drHeld', drQuery', r) = drHolders(drHeld, drQuery, r) \ {q} /\ q \in drHolders(drHeld, drQuery, r)
            BY <1>1, <1>a, <2>2 DEF drHolders, drIInv, drTypes
        <3>2. /\ Cardinality(drHolders(drHeld', drQuery', r)) = Cardinality(drHolders(drHeld, drQuery, r)) - 1
              /\ Cardinality(drHolders(drHeld', drQuery', r)) \in Nat
            BY <1>2, <3>1, drFinite, FS_RemoveElement, FS_CardinalityType DEF drIInv
        <3>3. /\ drTotal(drHeld', drWork', drQuery', drProbe', r) = drTotal(drHeld, drWork, drQuery, drProbe, r) - 1
              /\ drTotal(drHeld', drWork', drQuery', drProbe', r) \in Nat
            <4>1. drProbing(drProbe', r) = drProbing(drProbe, r) BY <1>1
            <4>2. drWorkers(drWork', drQuery', r) = drWorkers(drWork, drQuery, r) BY <1>2, <1>4
            <4>3. /\ Cardinality(drHolders(drHeld, drQuery, r)) \in Nat /\ Cardinality(drWorkers(drWork, drQuery, r)) \in Nat
                BY <1>2, drFinite DEF drIInv
            <4>4. drProbing(drProbe, r) \in {0, 1} BY DEF drProbing
            <4> HIDE DEF r
            <4> QED BY <3>2, <4>1, <4>2, <4>3, <4>4 DEF drTotal
        <3>4. \A s \in DrResolvers : s # r => drTotal(drHeld', drWork', drQuery', drProbe', s)
                                              = drTotal(drHeld, drWork, drQuery, drProbe, s)
            BY <1>1, <1>4, <1>5 DEF drTotal
        <3> QED BY <1>1, <1>2, <2>2, <3>3, <3>4, drGaveOne
    <2> QED BY <2>1, <2>2
<1>7. drTypes' BY <1>1, <1>3, <1>6 DEF drIInv, drTypes, DrQueryRec
<1>8. drQueues'
    <2>1. \A i \in 1..Len(drQuery'[q].todo) : FALSE BY <1>3
    <2> QED BY <1>1, <1>3, <2>1 DEF drIInv, drQueues
<1>9. drSwitched' /\ drLeased' BY <1>1 DEF drIInv, drSwitched, drLeased, drRunning
<1>10. drEnded' BY <1>1, <1>a DEF drIInv, drEnded, drDone, drDead
<1> QED BY <1>1, <1>a, <1>6, <1>7, <1>8, <1>9, <1>10 DEF drIInv, CanceledIsNeutral, ProbedIsTracked, FailsOnlyWhenAllFailed

\* It starts a worker for the next pair, or hands a disabled one back.
LEMMA drStartStep == ASSUME drIInv, NEW q \in DrQueries, dispatchStart(q) PROVE drIInv'
<1> DEFINE p == Head(drQuery[q].todo)
           r == drQuery[q].of
           rest == Tail(drQuery[q].todo)
<1>1. /\ q \in drHeld /\ ~drDone(q)
      /\ drQuery' = [drQuery EXCEPT ![q].todo = rest] /\ drHeld' = drHeld \ {q}
      /\ \/ /\ p \in drOff /\ drWork' = [drWork EXCEPT ![q][p] = [at |-> "told", res |-> "err"]]
            /\ drGiveSlot(r) /\ UNCHANGED drTable
         \/ /\ p \notin drOff /\ drWork' = [drWork EXCEPT ![q][p].at = "begun"] /\ drTouch(p) /\ UNCHANGED drUsed
      /\ UNCHANGED <<drLife, drOff, drCut, drLease, drProbe, drBlame, drMoved, drEdits>>
    BY DEF dispatchStart, refusedSlot
<1>2. /\ drQuery \in [DrQueries -> DrQueryRec] /\ drQuery[q] \in DrQueryRec /\ drQuery[q].todo \in Seq(DrPairs)
      /\ drQuery[q].todo # <<>>
    BY <1>1 DEF drIInv, drTypes, drQueues, DrQueryRec
<1>3. /\ p \in DrPairs /\ rest \in Seq(DrPairs) /\ p = drQuery[q].todo[1] /\ Len(drQuery[q].todo) >= 1
      /\ Len(rest) = Len(drQuery[q].todo) - 1 /\ Len(drQuery[q].todo) \in Nat
      /\ \A i \in 1..Len(rest) : rest[i] = drQuery[q].todo[i + 1]
    BY <1>2, HeadTailProperties
<1>4. r \in DrResolvers /\ drQuery[q].at = "race" BY <1>1 DEF drIInv, drQueues, drDone
<1>5. drWork[q][p].at = "queued"
    <2>1. 1 \in 1..Len(drQuery[q].todo) BY <1>3
    <2> QED BY <1>3, <2>1 DEF drIInv, drQueues
<1>6. /\ drQuery' \in [DrQueries -> DrQueryRec]
      /\ drQuery'[q].todo = rest /\ drQuery'[q].at = drQuery[q].at /\ drQuery'[q].of = drQuery[q].of
      /\ \A x \in DrQueries : x # q => drQuery'[x] = drQuery[x]
    <2>1. drQuery' = [drQuery EXCEPT ![q] = [drQuery[q] EXCEPT !.todo = rest]] BY <1>1, <1>2
    <2>2. [drQuery[q] EXCEPT !.todo = rest] \in DrQueryRec BY <1>2, <1>3 DEF DrQueryRec
    <2>3. LET v == [drQuery[q] EXCEPT !.todo = rest] IN v.todo = rest /\ v.at = drQuery[q].at /\ v.of = drQuery[q].of
        BY <1>2 DEF DrQueryRec
    <2> HIDE DEF rest
    <2> QED BY <2>1, <2>2, <2>3, drQueryPut DEF drIInv
<1>7. \A x \in DrQueries : drQuery'[x].of = drQuery[x].of /\ drQuery'[x].at = drQuery[x].at BY <1>6
<1>8. /\ drWork' \in [DrQueries -> [DrPairs -> DrWorkRec]]
      /\ \/ p \in drOff /\ drWork'[q][p] = [at |-> "told", res |-> "err"]
         \/ p \notin drOff /\ drWork'[q][p].at = "begun"
      /\ \A x \in DrQueries, y \in DrPairs : x # q \/ y # p => drWork'[x][y] = drWork[x][y]
    <2>1. CASE p \in drOff
        <3>1. [at |-> "told", res |-> "err"] \in DrWorkRec BY DEF DrWorkRec, DrPlaces
        <3> HIDE DEF p
        <3> QED BY <1>1, <1>3, <2>1, <3>1, drWorkPut DEF drIInv
    <2>2. CASE p \notin drOff
        <3>1. drWork \in [DrQueries -> [DrPairs -> DrWorkRec]] /\ drWork[q][p] \in DrWorkRec
            BY <1>3 DEF drIInv, drTypes, DrWorkRec
        <3> HIDE DEF p
        <3>2. drWork' = [drWork EXCEPT ![q][p] = [drWork[q][p] EXCEPT !.at = "begun"]] BY <1>1, <1>3, <2>2, <3>1
        <3>3. /\ [drWork[q][p] EXCEPT !.at = "begun"] \in DrWorkRec
              /\ [drWork[q][p] EXCEPT !.at = "begun"].at = "begun"
            BY <3>1 DEF DrWorkRec, DrPlaces
        <3>4. PICK v \in DrWorkRec : v.at = "begun" /\ drWork' = [drWork EXCEPT ![q][p] = v] BY <3>2, <3>3
        <3>5. /\ drWork' \in [DrQueries -> [DrPairs -> DrWorkRec]] /\ drWork'[q][p] = v
              /\ \A x \in DrQueries, y \in DrPairs : x # q \/ y # p => drWork'[x][y] = drWork[x][y]
            <4>1. p \in DrPairs /\ drTypes BY <1>3 DEF drIInv
            <4> QED BY <3>4, <4>1, drWorkPut, ZenonT(60)
        <3> QED BY <2>2, <3>4, <3>5
    <2> QED BY <2>1, <2>2
<1>9. drHolders(drHeld', drQuery', r) = drHolders(drHeld, drQuery, r) \ {q} /\ q \in drHolders(drHeld, drQuery, r)
    BY <1>1, <1>7 DEF drHolders, drIInv, drTypes
<1>10. \A s \in DrResolvers : s # r => drHolders(drHeld', drQuery', s) = drHolders(drHeld, drQuery, s)
    BY <1>1, <1>7 DEF drHolders, drIInv, drTypes
<1>11. \A s \in DrResolvers : s # r => drWorkers(drWork', drQuery', s) = drWorkers(drWork, drQuery, s)
    <2> HIDE DEF p
    <2> QED BY <1>3, <1>7, <1>8 DEF drWorkers
<1>12. /\ Cardinality(drHolders(drHeld', drQuery', r)) = Cardinality(drHolders(drHeld, drQuery, r)) - 1
       /\ Cardinality(drHolders(drHeld', drQuery', r)) \in Nat
       /\ Cardinality(drHolders(drHeld, drQuery, r)) \in Nat /\ Cardinality(drWorkers(drWork, drQuery, r)) \in Nat
       /\ IsFiniteSet(drWorkers(drWork, drQuery, r))
    BY <1>4, <1>9, drFinite, FS_RemoveElement, FS_CardinalityType DEF drIInv
<1>13. drProbe' = drProbe /\ drProbing(drProbe, r) \in {0, 1} BY <1>1 DEF drProbing
<1>14. \A s \in DrResolvers : s # r => drTotal(drHeld', drWork', drQuery', drProbe', s)
                                       = drTotal(drHeld, drWork, drQuery, drProbe, s)
    BY <1>10, <1>11, <1>13 DEF drTotal
<1>15. drCounted' /\ drUsed' \in [DrResolvers -> Nat]
    <2>1. CASE p \in drOff
        <3>1. drWorkers(drWork', drQuery', r) = drWorkers(drWork, drQuery, r)
            <4> HIDE DEF p
            <4> QED BY <1>3, <1>5, <1>7, <1>8, <2>1 DEF drWorkers
        <3>2. /\ drTotal(drHeld', drWork', drQuery', drProbe', r) = drTotal(drHeld, drWork, drQuery, drProbe, r) - 1
              /\ drTotal(drHeld', drWork', drQuery', drProbe', r) \in Nat
            <4> HIDE DEF r
            <4> QED BY <1>12, <1>13, <3>1 DEF drTotal
        <3>3. drGiveSlot(r) BY <1>1, <2>1
        <3> HIDE DEF r, p
        <3> QED BY <1>4, <1>14, <3>2, <3>3, drGaveOne
    <2>2. CASE p \notin drOff
        <3>1. /\ drWorkers(drWork', drQuery', r) = drWorkers(drWork, drQuery, r) \cup {<<q, p>>}
              /\ <<q, p>> \notin drWorkers(drWork, drQuery, r)
            <4> HIDE DEF p
            <4> QED BY <1>3, <1>5, <1>7, <1>8, <2>2 DEF drWorkers
        <3>2. Cardinality(drWorkers(drWork', drQuery', r)) = Cardinality(drWorkers(drWork, drQuery, r)) + 1
            BY <1>12, <3>1, FS_AddElement
        <3>3. drTotal(drHeld', drWork', drQuery', drProbe', r) = drTotal(drHeld, drWork, drQuery, drProbe, r)
            <4> HIDE DEF r
            <4> QED BY <1>12, <1>13, <3>2 DEF drTotal
        <3>4. drUsed' = drUsed BY <1>1, <2>2
        <3>5. \A s \in DrResolvers : drTotal(drHeld', drWork', drQuery', drProbe', s)
                                     = drTotal(drHeld, drWork, drQuery, drProbe, s)
            BY <1>14, <3>3
        <3> QED BY <3>4, <3>5 DEF drIInv, drCounted, drTypes
    <2> QED BY <2>1, <2>2
<1>16. ProbedIsTracked' /\ drTable' \subseteq DrPairs
    <2>1. CASE UNCHANGED drTable BY <1>1, <2>1 DEF drIInv, ProbedIsTracked, drTypes
    <2>2. CASE drTouch(p)
        <3> HIDE DEF p
        <3> QED BY <1>1, <1>3, <2>2, drTouched DEF drIInv, ProbedIsTracked
    <2> QED BY <1>1, <2>1, <2>2
<1>17. drTypes' BY <1>1, <1>6, <1>8, <1>15, <1>16 DEF drIInv, drTypes, DrQueryRec, DrWorkRec
<1>18. drQueues'
    <2>1. \A i \in 1..Len(rest) :
             /\ i + 1 \in 1..Len(drQuery[q].todo) /\ rest[i] \in DrPairs /\ rest[i] # p
             /\ drWork'[q][rest[i]].at = "queued"
             /\ \A j \in 1..Len(rest) : rest[i] = rest[j] => i = j
        <3> SUFFICES ASSUME NEW i \in 1..Len(rest)
                     PROVE  /\ i + 1 \in 1..Len(drQuery[q].todo) /\ rest[i] \in DrPairs /\ rest[i] # p
                            /\ drWork'[q][rest[i]].at = "queued"
                            /\ \A j \in 1..Len(rest) : rest[i] = rest[j] => i = j
            OBVIOUS
        <3>1. i + 1 \in 1..Len(drQuery[q].todo) /\ i + 1 # 1 /\ 1 \in 1..Len(drQuery[q].todo)
              /\ \A j \in 1..Len(rest) : j + 1 \in 1..Len(drQuery[q].todo) /\ (i + 1 = j + 1 => i = j)
            BY <1>3
        <3>2. rest[i] \in DrPairs BY <1>3
        <3> HIDE DEF rest, p
        <3>3. rest[i] = drQuery[q].todo[i + 1] /\ rest[i] # p /\ drWork[q][rest[i]].at = "queued"
            BY <1>3, <3>1 DEF drIInv, drQueues
        <3>4. \A j \in 1..Len(rest) : rest[i] = rest[j] => i = j BY <1>3, <3>1 DEF drIInv, drQueues
        <3> QED BY <1>8, <3>1, <3>2, <3>3, <3>4
    <2>2. \A x \in DrQueries : x # q => drQuery'[x] = drQuery[x] /\ \A y \in DrPairs : drWork'[x][y] = drWork[x][y]
        BY <1>6, <1>8
    <2>3. \A x \in DrQueries : \A i \in 1..Len(drQuery[x].todo) : drQuery[x].todo[i] \in DrPairs
        BY DEF drIInv, drTypes
    <2> HIDE DEF rest
    <2> QED BY <1>1, <1>4, <1>6, <2>1, <2>2, <2>3 DEF drIInv, drQueues
<1> HIDE DEF p, r, rest
<1>19. drSwitched'
    <2>1. <<q, p>> \notin drMoved BY <1>3, <1>5 DEF drIInv, drSwitched, drRunning
    <2>2. drWork'[q][p].at \in {"begun", "exchange", "ended"} => p \notin drOff BY <1>8
    <2>3. \A x \in DrQueries, y \in DrPairs : x # q \/ y # p => drWork'[x][y] = drWork[x][y] BY <1>8
    <2> QED BY <1>1, <2>1, <2>2, <2>3 DEF drIInv, drSwitched, drRunning
<1>20. drEnded' BY <1>1, <1>3, <1>5, <1>7, <1>8 DEF drIInv, drEnded, drDone, drDead
<1>21. drLeased' /\ CanceledIsNeutral' BY <1>1 DEF drIInv, drLeased, CanceledIsNeutral
<1>22. FailsOnlyWhenAllFailed' BY <1>3, <1>4, <1>5, <1>7, <1>8 DEF drIInv, FailsOnlyWhenAllFailed
<1> QED BY <1>15, <1>16, <1>17, <1>18, <1>19, <1>20, <1>21, <1>22 DEF drIInv

\* A worker that asks or has asked moves on and keeps its slot.
LEMMA drAskStep ==
    ASSUME drIInv, NEW q \in DrQueries, NEW p \in DrPairs, exchangeBegin(q, p) \/ exchangeEndpoint(q, p)
    PROVE  drIInv'
<1>1. UNCHANGED <<drLife, drUsed, drOff, drQuery, drHeld, drCut, drTable, drLease, drProbe, drBlame, drMoved, drEdits>>
    BY DEF exchangeBegin, exchangeEndpoint
<1>2. drWork[q][p].at \in {"begun", "exchange"} BY DEF exchangeBegin, exchangeEndpoint
<1>3. PICK v \in DrWorkRec :
          /\ drWork' = [drWork EXCEPT ![q][p] = v]
          /\ \/ v = [at |-> "exchange", res |-> "none"]
             \/ v.at = "ended" /\ v.res # "none" /\ (v.res = "cut" => drDone(q))
    <2>1. CASE exchangeBegin(q, p)
        <3>1. [at |-> "ended", res |-> "off"] \in DrWorkRec /\ [at |-> "exchange", res |-> "none"] \in DrWorkRec
            BY DEF DrWorkRec, DrPlaces
        <3>2. CASE p \in drOff
            <4>1. drWork' = [drWork EXCEPT ![q][p] = [at |-> "ended", res |-> "off"]] BY <2>1, <3>2 DEF exchangeBegin
            <4> QED BY <3>1, <4>1
        <3>3. CASE p \notin drOff
            <4>1. drWork' = [drWork EXCEPT ![q][p] = [at |-> "exchange", res |-> "none"]]
                BY <2>1, <3>3 DEF exchangeBegin
            <4> QED BY <3>1, <4>1
        <3> QED BY <3>2, <3>3
    <2>2. CASE exchangeEndpoint(q, p)
        <3>1. PICK res \in Outcomes(q, p) : drWork' = [drWork EXCEPT ![q][p] = [at |-> "ended", res |-> res]]
            BY <2>2 DEF exchangeEndpoint
        <3>2. res \in {"ok", "err", "off", "cut"} /\ (res = "cut" => drDone(q)) BY DEF Outcomes
        <3>3. [at |-> "ended", res |-> res] \in DrWorkRec BY <3>2 DEF DrWorkRec, DrPlaces
        <3> QED BY <3>1, <3>2, <3>3
    <2> QED BY <2>1, <2>2
<1>4. /\ drWork' \in [DrQueries -> [DrPairs -> DrWorkRec]] /\ drWork'[q][p] = v
      /\ \A x \in DrQueries, y \in DrPairs : x # q \/ y # p => drWork'[x][y] = drWork[x][y]
    <2>1. drTypes BY DEF drIInv
    <2>2. v \in DrWorkRec /\ drWork' = [drWork EXCEPT ![q][p] = v] BY <1>3
    <2> QED BY <2>1, <2>2, drWorkPut, ZenonT(60)
<1>5. drTypes' BY <1>1, <1>4 DEF drIInv, drTypes, DrWorkRec
<1>6. drQueues'
    <2>1. drQuery[q].at # "idle" BY <1>2 DEF drIInv, drQueues
    <2>2. \A x \in DrQueries : \A i \in 1..Len(drQuery[x].todo) :
             drQuery[x].todo[i] \in DrPairs /\ (x # q \/ drQuery[x].todo[i] # p)
        BY <1>2 DEF drIInv, drTypes, drQueues
    <2> QED BY <1>1, <1>4, <2>1, <2>2 DEF drIInv, drQueues
<1>7. drSwitched'
    <2>1. \A x \in DrQueries, y \in DrPairs : drWork'[x][y].at \in {"begun", "exchange", "ended"}
                                            <=> drWork[x][y].at \in {"begun", "exchange", "ended"}
        <3>1. drWork'[q][p].at \in {"exchange", "ended"} BY <1>3, <1>4
        <3> QED BY <1>2, <1>4, <3>1
    <2> QED BY <1>1, <2>1 DEF drIInv, drSwitched, drRunning
<1>8. drEnded' BY <1>1, <1>3, <1>4 DEF drIInv, drEnded, drDone, drDead
<1>9. drCounted'
    <2>1. \A r \in DrResolvers : drWorkers(drWork', drQuery', r) = drWorkers(drWork, drQuery, r)
        BY <1>1, <1>2, <1>3, <1>4 DEF drWorkers
    <2> QED BY <1>1, <2>1, drRecounted
<1>10. FailsOnlyWhenAllFailed' BY <1>1, <1>2, <1>4 DEF drIInv, FailsOnlyWhenAllFailed
<1> QED BY <1>1, <1>5, <1>6, <1>7, <1>8, <1>9, <1>10 DEF drIInv, drLeased, CanceledIsNeutral, ProbedIsTracked

\* A worker reports and gives its slot back.
LEMMA drReportStep ==
    ASSUME drIInv, NEW q \in DrQueries, NEW p \in DrPairs, workerReports(q, p) PROVE drIInv'
<1> DEFINE res == drWork[q][p].res
           r == drQuery[q].of
<1>1. /\ drWork[q][p].at = "ended" /\ drGiveSlot(r)
      /\ drWork' = [drWork EXCEPT ![q][p] = [at |-> "told", res |-> IF res = "ok" THEN "ok" ELSE "err"]]
      /\ IF res # "ok" /\ canceledAttempt(q, p) THEN UNCHANGED <<drTable, drBlame>>
         ELSE drTouch(p) /\ drBlame' = drBlame \cup ({res} \ {"ok"})
      /\ drCut' = drCut \ {<<q, p>>} /\ drMoved' = drMoved \ {<<q, p>>}
      /\ UNCHANGED <<drLife, drOff, drQuery, drHeld, drLease, drProbe, drEdits>>
    BY DEF workerReports
<1>2. res \in {"ok", "err", "off", "cut"} /\ (res = "cut" => drDone(q))
    BY <1>1 DEF drIInv, drTypes, drEnded
<1>3. PICK v \in DrWorkRec : v.at = "told" /\ drWork' = [drWork EXCEPT ![q][p] = v]
    <2>1. [at |-> "told", res |-> IF res = "ok" THEN "ok" ELSE "err"] \in DrWorkRec BY DEF DrWorkRec, DrPlaces
    <2> QED BY <1>1, <2>1
<1>4. /\ drWork' \in [DrQueries -> [DrPairs -> DrWorkRec]] /\ drWork'[q][p] = v
      /\ \A x \in DrQueries, y \in DrPairs : x # q \/ y # p => drWork'[x][y] = drWork[x][y]
    BY <1>3, drWorkPut, ZenonT(60) DEF drIInv
<1>5. r \in DrResolvers BY <1>1 DEF drIInv, drQueues
<1>6. drCounted' /\ drUsed' \in [DrResolvers -> Nat]
    <2>1. \A s \in DrResolvers : s # r => drWorkers(drWork', drQuery', s) = drWorkers(drWork, drQuery, s)
        BY <1>1, <1>4 DEF drWorkers
    <2>2. /\ drWorkers(drWork', drQuery', r) = drWorkers(drWork, drQuery, r) \ {<<q, p>>}
          /\ <<q, p>> \in drWorkers(drWork, drQuery, r)
        BY <1>1, <1>3, <1>4 DEF drWorkers
    <2>3. /\ Cardinality(drWorkers(drWork', drQuery', r)) = Cardinality(drWorkers(drWork, drQuery, r)) - 1
          /\ Cardinality(drWorkers(drWork', drQuery', r)) \in Nat
          /\ Cardinality(drHolders(drHeld, drQuery, r)) \in Nat /\ Cardinality(drWorkers(drWork, drQuery, r)) \in Nat
        BY <1>5, <2>2, drFinite, FS_RemoveElement, FS_CardinalityType DEF drIInv
    <2>4. drProbe' = drProbe /\ drProbing(drProbe, r) \in {0, 1} /\ drHeld' = drHeld /\ drQuery' = drQuery
        BY <1>1 DEF drProbing
    <2>5. /\ drTotal(drHeld', drWork', drQuery', drProbe', r) = drTotal(drHeld, drWork, drQuery, drProbe, r) - 1
          /\ drTotal(drHeld', drWork', drQuery', drProbe', r) \in Nat
        <3> HIDE DEF r
        <3> QED BY <2>3, <2>4 DEF drTotal
    <2>6. \A s \in DrResolvers : s # r => drTotal(drHeld', drWork', drQuery', drProbe', s)
                                          = drTotal(drHeld, drWork, drQuery, drProbe, s)
        BY <2>1, <2>4 DEF drTotal
    <2>7. drGiveSlot(r) BY <1>1
    <2> HIDE DEF r
    <2> QED BY <1>5, <2>5, <2>6, <2>7, drGaveOne
<1>7. ProbedIsTracked' /\ drTable' \subseteq DrPairs
    <2>1. CASE UNCHANGED drTable BY <1>1, <2>1 DEF drIInv, ProbedIsTracked, drTypes
    <2>2. CASE drTouch(p) BY <1>1, <2>2, drTouched DEF drIInv, ProbedIsTracked
    <2> QED BY <1>1, <2>1, <2>2
<1>8. CanceledIsNeutral'
    <2>1. res \in {"off", "cut"} => canceledAttempt(q, p) BY <1>2 DEF canceledAttempt
    <2>2. drBlame \subseteq {"err"} BY DEF drIInv, CanceledIsNeutral
    <2>3. drBlame' = drBlame \/ (res \in {"ok", "err"} /\ drBlame' = drBlame \cup ({res} \ {"ok"}))
        BY <1>1, <1>2, <2>1
    <2> QED BY <2>2, <2>3 DEF CanceledIsNeutral
<1>9. drTypes' BY <1>1, <1>4, <1>6, <1>7 DEF drIInv, drTypes, DrWorkRec
<1>10. drQueues'
    <2>1. drQuery[q].at # "idle" BY <1>1 DEF drIInv, drQueues
    <2>2. \A x \in DrQueries : \A i \in 1..Len(drQuery[x].todo) :
             drQuery[x].todo[i] \in DrPairs /\ (x # q \/ drQuery[x].todo[i] # p)
        BY <1>1 DEF drIInv, drTypes, drQueues
    <2> QED BY <1>1, <1>4, <2>1, <2>2 DEF drIInv, drQueues
<1>11. drSwitched'
    <2>1. <<q, p>> \notin drMoved' /\ \A x \in DrQueries, y \in DrPairs : x # q \/ y # p =>
             (<<x, y>> \in drMoved' <=> <<x, y>> \in drMoved) /\ (<<x, y>> \in drCut' <=> <<x, y>> \in drCut)
        BY <1>1
    <2>2. drWork'[q][p].at = "told" BY <1>3, <1>4
    <2>3. \A x \in DrQueries, y \in DrPairs : x # q \/ y # p => drWork'[x][y] = drWork[x][y] BY <1>4
    <2>4. drOff' = drOff BY <1>1
    <2> QED BY <2>1, <2>2, <2>3, <2>4 DEF drIInv, drSwitched, drRunning
<1>12. drEnded' BY <1>1, <1>3, <1>4 DEF drIInv, drEnded, drDone, drDead
<1>13. FailsOnlyWhenAllFailed' BY <1>1, <1>4 DEF drIInv, FailsOnlyWhenAllFailed
<1> QED BY <1>1, <1>6, <1>7, <1>8, <1>9, <1>10, <1>11, <1>12, <1>13 DEF drIInv, drLeased

\* A query ends; the next resolver takes over.
LEMMA drCollectStep ==
    ASSUME drIInv, NEW q \in DrQueries, collectWins(q) \/ collectFails(q) \/ queryTimeout(q) PROVE drIInv'
<1>1. UNCHANGED <<drLife, drUsed, drOff, drHeld, drWork, drCut, drTable, drLease, drProbe, drBlame, drMoved, drEdits>>
    BY DEF collectWins, collectFails, queryTimeout
<1>2. PICK a \in {"won", "lost", "timeout"} : drQuery' = [drQuery EXCEPT ![q].at = a] /\ (a = "lost" => allFailed(q))
    BY DEF collectWins, collectFails, queryTimeout
<1>3. drQuery[q].at = "race" BY DEF collectWins, collectFails, queryTimeout, drDone
<1>4. /\ drQuery' \in [DrQueries -> DrQueryRec]
      /\ \A x \in DrQueries : drQuery'[x].todo = drQuery[x].todo /\ drQuery'[x].of = drQuery[x].of
      /\ drQuery'[q].at = a /\ \A x \in DrQueries : x # q => drQuery'[x] = drQuery[x]
    <2>1. drQuery \in [DrQueries -> DrQueryRec] /\ drTypes BY DEF drIInv, drTypes, DrQueryRec
    <2>2. drQuery[q] \in DrQueryRec /\ drQuery' = [drQuery EXCEPT ![q] = [drQuery[q] EXCEPT !.at = a]] BY <1>2, <2>1
    <2>3. PICK v \in DrQueryRec : /\ drQuery' = [drQuery EXCEPT ![q] = v]
                                  /\ v.at = a /\ v.todo = drQuery[q].todo /\ v.of = drQuery[q].of
        <3>1. [drQuery[q] EXCEPT !.at = a] \in DrQueryRec BY <2>2 DEF DrQueryRec, DrAts
        <3>2. LET v == [drQuery[q] EXCEPT !.at = a] IN v.at = a /\ v.todo = drQuery[q].todo /\ v.of = drQuery[q].of
            BY <2>2 DEF DrQueryRec
        <3> QED BY <2>2, <3>1, <3>2
    <2>4. drQuery' \in [DrQueries -> DrQueryRec] /\ drQuery'[q] = v /\ \A x \in DrQueries : x # q => drQuery'[x] = drQuery[x]
        BY <2>1, <2>3, drQueryPut
    <2> QED BY <2>3, <2>4
<1>5. drTypes' BY <1>1, <1>4 DEF drIInv, drTypes, DrQueryRec
<1>6. drQueues' BY <1>1, <1>3, <1>4 DEF drIInv, drQueues
<1>7. drSwitched' /\ drLeased' BY <1>1 DEF drIInv, drSwitched, drLeased, drRunning
<1>8. drEnded' BY <1>1, <1>3, <1>4 DEF drIInv, drEnded, drDone, drDead
<1>9. drCounted'
    <2>1. \A r \in DrResolvers : /\ drHolders(drHeld', drQuery', r) = drHolders(drHeld, drQuery, r)
                                 /\ drWorkers(drWork', drQuery', r) = drWorkers(drWork, drQuery, r)
        BY <1>1, <1>4 DEF drHolders, drWorkers, drIInv, drTypes
    <2> QED BY <1>1, <2>1, drRecounted
<1>10. FailsOnlyWhenAllFailed' BY <1>1, <1>2, <1>4 DEF drIInv, FailsOnlyWhenAllFailed, allFailed
<1> QED BY <1>1, <1>5, <1>6, <1>7, <1>8, <1>9, <1>10 DEF drIInv, CanceledIsNeutral, ProbedIsTracked

LEMMA drReplaceStep == ASSUME drIInv, replaceResolver PROVE drIInv'
<1>1. /\ drLife = 1 /\ drLife' = 2
      /\ UNCHANGED <<drUsed, drOff, drQuery, drHeld, drWork, drCut, drTable, drLease, drProbe, drBlame, drMoved, drEdits>>
    BY DEF replaceResolver
<1>2. drTypes' BY <1>1 DEF drIInv, drTypes, DrResolvers
<1>3. drEnded'
    <2>a. \A q \in DrQueries : drQuery[q].of \in {0, 1, 2} BY DEF drIInv, drTypes
    <2>1. \A q \in DrQueries : drDone(q) => drDone(q)' BY <1>1, <2>a DEF drDone, drDead
    <2> QED BY <1>1, <2>1 DEF drIInv, drEnded
<1>4. drQueues' /\ drSwitched' /\ drLeased' BY <1>1 DEF drIInv, drQueues, drSwitched, drLeased, drRunning
<1>5. drCounted' BY <1>1, drRecounted
<1> QED BY <1>1, <1>2, <1>3, <1>4, <1>5 DEF drIInv, CanceledIsNeutral, ProbedIsTracked, FailsOnlyWhenAllFailed

\* The switch of a method cancels what runs under it.
LEMMA drSwitchStep == ASSUME drIInv, NEW p \in DrPairs, NEW on \in BOOLEAN, SetMethodEnabled(p, on) PROVE drIInv'
<1>1. /\ on = (p \in drOff) /\ drOff' = IF on THEN drOff \ {p} ELSE drOff \cup {p}
      /\ drCut' = IF on THEN drCut ELSE drCut \cup drWorkersOf(p)
      /\ drMoved' = drMoved \cup drWorkersOf(p)
      /\ drProbe' = [r \in DrResolvers |->
             IF ~on /\ drProbe[r].at = "exchange" /\ drProbe[r].pair = p
             THEN [drProbe[r] EXCEPT !.cut = TRUE] ELSE drProbe[r]]
      /\ UNCHANGED <<drLife, drUsed, drQuery, drHeld, drWork, drTable, drLease, drBlame>>
    BY DEF SetMethodEnabled, appliesTo
<1>2. /\ drProbe' \in [DrResolvers -> [at : {"idle", "slot", "exchange"}, pair : DrPairs \cup {DrNone},
                                       token : Nat, cut : BOOLEAN]]
      /\ \A r \in DrResolvers : /\ drProbe'[r].at = drProbe[r].at /\ drProbe'[r].pair = drProbe[r].pair
                                /\ drProbe'[r].token = drProbe[r].token
    <2>1. \A r \in DrResolvers : drProbe[r] \in [at : {"idle", "slot", "exchange"}, pair : DrPairs \cup {DrNone},
                                                  token : Nat, cut : BOOLEAN]
        BY DEF drIInv, drTypes
    <2> QED BY <1>1, <2>1
<1>3. drTypes' BY <1>1, <1>2 DEF drIInv, drTypes
<1>4. drSwitched'
    <2>1. \A q \in DrQueries, y \in DrPairs : <<q, y>> \in drWorkersOf(p) <=> y = p /\ drRunning(q, y)
        BY DEF drWorkersOf
    <2>2. \A q \in DrQueries, y \in DrPairs : drRunning(q, y)' <=> drRunning(q, y) BY <1>1 DEF drRunning
    <2>3. ASSUME NEW q \in DrQueries, NEW y \in DrPairs, drRunning(q, y), y \in drOff' \/ <<q, y>> \in drMoved'
          PROVE  <<q, y>> \in drCut'
        <3>1. CASE on BY <1>1, <2>1, <2>3, <3>1 DEF drIInv, drSwitched
        <3>2. CASE ~on BY <1>1, <2>1, <2>3, <3>2 DEF drIInv, drSwitched
        <3> QED BY <3>1, <3>2
    <2>4. ASSUME NEW q \in DrQueries, NEW y \in DrPairs, <<q, y>> \in drMoved' PROVE drRunning(q, y)
        BY <1>1, <2>1, <2>4 DEF drIInv, drSwitched
    <2> QED BY <2>2, <2>3, <2>4 DEF drSwitched
<1>5. drQueues' /\ drEnded' BY <1>1 DEF drIInv, drQueues, drEnded, drDone, drDead
<1>6. drLeased' BY <1>1, <1>2 DEF drIInv, drLeased
<1>7. drCounted' BY <1>1, <1>2, drRecounted DEF drProbing
<1> QED BY <1>1, <1>3, <1>4, <1>5, <1>6, <1>7 DEF drIInv, CanceledIsNeutral, ProbedIsTracked, FailsOnlyWhenAllFailed

\* A background probe takes a slot, and then the lease.
LEMMA drProbeSlotStep == ASSUME drIInv, NEW r \in DrResolvers, probeSlot(r) PROVE drIInv'
<1>1. /\ drProbe[r].at = "idle" /\ drTakeSlot(r) /\ drProbe' = [drProbe EXCEPT ![r].at = "slot"]
      /\ UNCHANGED <<drLife, drOff, drQuery, drHeld, drWork, drCut, drTable, drLease, drBlame, drMoved, drEdits>>
    BY DEF probeSlot
<1>2. /\ drProbe' \in [DrResolvers -> [at : {"idle", "slot", "exchange"}, pair : DrPairs \cup {DrNone},
                                       token : Nat, cut : BOOLEAN]]
      /\ drProbe'[r].at = "slot" /\ \A s \in DrResolvers : s # r => drProbe'[s] = drProbe[s]
    BY <1>1 DEF drIInv, drTypes
<1>3. drCounted' /\ drUsed' \in [DrResolvers -> Nat]
    <2>1. drHeld' = drHeld /\ drWork' = drWork /\ drQuery' = drQuery BY <1>1
    <2>2. drProbing(drProbe, r) = 0 /\ drProbing(drProbe', r) = 1 BY <1>1, <1>2 DEF drProbing
    <2>3. drTotal(drHeld', drWork', drQuery', drProbe', r) = drTotal(drHeld, drWork, drQuery, drProbe, r) + 1
        BY <2>1, <2>2, drFinite DEF drTotal, drIInv
    <2>4. \A s \in DrResolvers : s # r => drTotal(drHeld', drWork', drQuery', drProbe', s)
                                          = drTotal(drHeld, drWork, drQuery, drProbe, s)
        BY <1>2, <2>1 DEF drTotal, drProbing
    <2> QED BY <1>1, <2>3, <2>4, drTookOne
<1>4. drTypes' BY <1>1, <1>2, <1>3 DEF drIInv, drTypes
<1>5. drLeased' BY <1>1, <1>2 DEF drIInv, drLeased
<1>6. drQueues' /\ drSwitched' /\ drEnded'
    BY <1>1 DEF drIInv, drQueues, drSwitched, drEnded, drRunning, drDone, drDead
<1> QED BY <1>1, <1>3, <1>4, <1>5, <1>6 DEF drIInv, CanceledIsNeutral, ProbedIsTracked, FailsOnlyWhenAllFailed

LEMMA drNextProbeStep == ASSUME drIInv, NEW r \in DrResolvers, NEW p \in DrPairs, nextProbe(r, p) PROVE drIInv'
<1> DEFINE n == drLease.token + 1
<1>1. /\ drProbe[r].at = "slot" /\ drLease.key = DrNone /\ drTouch(p)
      /\ drLease' = [key |-> p, token |-> n]
      /\ drProbe' = [drProbe EXCEPT ![r] = [at |-> "exchange", pair |-> p, token |-> n, cut |-> FALSE]]
      /\ UNCHANGED <<drLife, drUsed, drOff, drQuery, drHeld, drWork, drCut, drBlame, drMoved, drEdits>>
    BY DEF nextProbe, leaseFree
<1>2. n \in Nat /\ p # DrNone BY DrAssumption DEF drIInv, drTypes, DrNone
<1> HIDE DEF n
<1>3. /\ drProbe' \in [DrResolvers -> [at : {"idle", "slot", "exchange"}, pair : DrPairs \cup {DrNone},
                                       token : Nat, cut : BOOLEAN]]
      /\ drProbe'[r].at = "exchange" /\ drProbe'[r].pair = p /\ drProbe'[r].token = n
      /\ \A s \in DrResolvers : s # r => drProbe'[s] = drProbe[s]
    BY <1>1, <1>2 DEF drIInv, drTypes
<1>4. /\ drTable' \subseteq DrPairs /\ p \in drTable' /\ Cardinality(drTable') <= DrTable
    BY <1>1, drTouched DEF drIInv
<1>5. drTypes' BY <1>1, <1>2, <1>3, <1>4 DEF drIInv, drTypes
<1>6. drLeased'
    <2>1. \A s \in DrResolvers : drProbe[s].at # "exchange"
        BY <1>1, DrAssumption DEF drIInv, drLeased, DrNone
    <2>2. drLease'.key = p /\ drLease'.token = n BY <1>1
    <2>3. \A s \in DrResolvers : drProbe'[s].at = "exchange" => s = r BY <1>3, <2>1
    <2> QED BY <1>2, <1>3, <2>2, <2>3 DEF drLeased
<1>7. ProbedIsTracked' BY <1>1, <1>4 DEF ProbedIsTracked
<1>8. drCounted'
    <2>1. \A s \in DrResolvers : drProbing(drProbe', s) = drProbing(drProbe, s) BY <1>1, <1>3 DEF drProbing
    <2> QED BY <1>1, <2>1, drRecounted
<1>9. drQueues' /\ drSwitched' /\ drEnded'
    BY <1>1 DEF drIInv, drQueues, drSwitched, drEnded, drRunning, drDone, drDead
<1> QED BY <1>1, <1>5, <1>6, <1>7, <1>8, <1>9 DEF drIInv, CanceledIsNeutral, FailsOnlyWhenAllFailed

\* Every end of a probe returns its slot, and the lease if it has it.
LEMMA drProbeEndStep == ASSUME drIInv, NEW r \in DrResolvers, noProbe(r) \/ finishProbe(r) PROVE drIInv'
<1>1. /\ drProbe[r].at \in {"slot", "exchange"} /\ drGiveSlot(r) /\ drProbe' = [drProbe EXCEPT ![r] = drNoProbe]
      /\ UNCHANGED <<drLife, drOff, drQuery, drHeld, drWork, drCut, drMoved, drEdits>>
    BY DEF noProbe, finishProbe, probeBack
<1>2. \/ drProbe[r].at = "slot" /\ UNCHANGED <<drTable, drLease, drBlame>>
      \/ /\ drProbe[r].at = "exchange" /\ drLease' = [drLease EXCEPT !.key = DrNone]
         /\ \/ UNCHANGED <<drTable, drBlame>>
            \/ drTouch(drProbe[r].pair) /\ drBlame' \subseteq drBlame \cup {"err"}
    <2>1. CASE noProbe(r) BY <2>1 DEF noProbe
    <2>2. CASE finishProbe(r)
        <3>1. drProbe[r].at = "exchange" BY <2>2 DEF finishProbe
        <3>2. drProbe[r].token = drLease.token /\ drProbe[r].pair = drLease.key
            BY <3>1 DEF drIInv, drLeased
        <3>3. PICK res \in probeOutcomes(r) :
                 /\ drLease' = IF finishes(r, res) THEN [drLease EXCEPT !.key = DrNone] ELSE drLease
                 /\ IF probeCanceled(r, res) THEN UNCHANGED <<drTable, drBlame>>
                    ELSE drTouch(drProbe[r].pair) /\ drBlame' = drBlame \cup ({res} \ {"ok"})
            BY <2>2 DEF finishProbe
        <3>4. ~probeCanceled(r, res) => res \in {"ok", "err"} BY DEF probeOutcomes, probeCanceled
        <3> QED BY <3>1, <3>2, <3>3, <3>4 DEF finishes
    <2> QED BY <2>1, <2>2
<1>3. /\ drProbe' \in [DrResolvers -> [at : {"idle", "slot", "exchange"}, pair : DrPairs \cup {DrNone},
                                       token : Nat, cut : BOOLEAN]]
      /\ drProbe'[r].at = "idle" /\ \A s \in DrResolvers : s # r => drProbe'[s] = drProbe[s]
    BY <1>1 DEF drIInv, drTypes, drNoProbe
<1>4. drCounted' /\ drUsed' \in [DrResolvers -> Nat]
    <2>1. drHeld' = drHeld /\ drWork' = drWork /\ drQuery' = drQuery BY <1>1
    <2>2. drProbing(drProbe, r) = 1 /\ drProbing(drProbe', r) = 0 BY <1>1, <1>3 DEF drProbing
    <2>3. /\ drTotal(drHeld', drWork', drQuery', drProbe', r) = drTotal(drHeld, drWork, drQuery, drProbe, r) - 1
          /\ drTotal(drHeld', drWork', drQuery', drProbe', r) \in Nat
        BY <2>1, <2>2, drFinite DEF drTotal, drIInv
    <2>4. \A s \in DrResolvers : s # r => drTotal(drHeld', drWork', drQuery', drProbe', s)
                                          = drTotal(drHeld, drWork, drQuery, drProbe, s)
        BY <1>3, <2>1 DEF drTotal, drProbing
    <2> QED BY <1>1, <2>3, <2>4, drGaveOne
<1>5. drLease' \in [key : DrPairs \cup {DrNone}, token : Nat] /\ (drLease' = drLease \/ drLease'.key = DrNone)
    BY <1>2 DEF drIInv, drTypes
<1>6. drTable' \subseteq DrPairs /\ ProbedIsTracked'
    <2>1. CASE UNCHANGED drTable BY <1>5, <2>1 DEF drIInv, drTypes, ProbedIsTracked
    <2>2. CASE drProbe[r].at = "exchange" /\ drTouch(drProbe[r].pair)
        <3>1. drProbe[r].pair \in DrPairs BY <2>2 DEF drIInv, drLeased
        <3> QED BY <1>5, <2>2, <3>1, drTouched DEF drIInv, ProbedIsTracked
    <2> QED BY <1>2, <2>1, <2>2
<1>7. CanceledIsNeutral' BY <1>2 DEF drIInv, CanceledIsNeutral
<1>8. drTypes' BY <1>1, <1>3, <1>4, <1>5, <1>6 DEF drIInv, drTypes
<1>9. drLeased' BY <1>1, <1>2, <1>3, <1>5 DEF drIInv, drLeased
<1>10. drQueues' /\ drSwitched' /\ drEnded'
    BY <1>1 DEF drIInv, drQueues, drSwitched, drEnded, drRunning, drDone, drDead
<1> QED BY <1>1, <1>4, <1>6, <1>7, <1>8, <1>9, <1>10 DEF drIInv, FailsOnlyWhenAllFailed

LEMMA drInitially == drInit => drIInv
<1> SUFFICES ASSUME drInit PROVE drIInv OBVIOUS
<1>1. /\ drLife = 1 /\ drUsed = [r \in DrResolvers |-> 0] /\ drHeld = {} /\ drTable = {} /\ drBlame = {} /\ drMoved = {}
      /\ \A q \in DrQueries : drQuery[q] = drIdle /\ \A p \in DrPairs : drWork[q][p] = drFresh
      /\ \A r \in DrResolvers : drProbe[r] = drNoProbe
      /\ drLease = [key |-> DrNone, token |-> 0]
    BY DEF drInit
<1>2. drTypes
    <2>1. drIdle \in DrQueryRec /\ drFresh \in DrWorkRec BY DEF drIdle, drFresh, DrQueryRec, DrAts, DrWorkRec, DrPlaces
    <2>2. drQuery \in [DrQueries -> DrQueryRec] /\ drWork \in [DrQueries -> [DrPairs -> DrWorkRec]]
        BY <2>1 DEF drInit
    <2>3. drProbe \in [DrResolvers -> [at : {"idle", "slot", "exchange"}, pair : DrPairs \cup {DrNone},
                                       token : Nat, cut : BOOLEAN]]
        BY DEF drInit, drNoProbe
    <2> QED BY <1>1, <2>2, <2>3 DEF drTypes, DrQueryRec, DrWorkRec, DrResolvers
<1>3. drQueues BY <1>1 DEF drQueues, drIdle, drFresh
<1>4. drSwitched /\ drEnded BY <1>1 DEF drSwitched, drEnded, drFresh, drRunning
<1>5. drLeased BY <1>1 DEF drLeased, drNoProbe
<1>6. drCounted
    <2> SUFFICES ASSUME NEW r \in DrResolvers
                 PROVE  drUsed[r] = drTotal(drHeld, drWork, drQuery, drProbe, r) /\ drUsed[r] <= DrSlots
        BY DEF drCounted
    <2>1. drHolders(drHeld, drQuery, r) = {} BY <1>1 DEF drHolders
    <2>2. drWorkers(drWork, drQuery, r) = {} BY <1>1 DEF drWorkers, drFresh
    <2>3. drProbing(drProbe, r) = 0 BY <1>1 DEF drProbing, drNoProbe
    <2>4. drUsed[r] = 0 BY <1>1
    <2> QED BY <2>1, <2>2, <2>3, <2>4, FS_EmptySet, DrAssumption DEF drTotal
<1>7. CanceledIsNeutral /\ ProbedIsTracked /\ FailsOnlyWhenAllFailed
    BY <1>1, FS_EmptySet, DrAssumption DEF CanceledIsNeutral, ProbedIsTracked, FailsOnlyWhenAllFailed, drIdle
<1> QED BY <1>2, <1>3, <1>4, <1>5, <1>6, <1>7 DEF drIInv

LEMMA drInductive == drIInv /\ [drNext]_drVars => drIInv'
<1>1. ASSUME drIInv, UNCHANGED drVars PROVE drIInv'
    <2>1. drTypes' /\ drQueues' /\ drSwitched' /\ drEnded' /\ drLeased'
        BY <1>1 DEF drIInv, drVars, drTypes, drQueues, drSwitched, drEnded, drLeased, drRunning, drDone, drDead
    <2> QED BY <1>1, <2>1 DEF drIInv, drVars, drCounted, CanceledIsNeutral, ProbedIsTracked, FailsOnlyWhenAllFailed
<1>2. ASSUME drIInv, drNext PROVE drIInv'
    BY <1>2, drResolveStep, drSlotStep, drStopsStep, drStartStep, drAskStep, drReportStep, drCollectStep, drReplaceStep,
       drSwitchStep, drProbeSlotStep, drNextProbeStep, drProbeEndStep DEF drNext
<1> QED BY <1>1, <1>2

LEMMA drImplies == drIInv => AttemptSlotsBalanced /\ LeaseIsHeld
<1>1. ASSUME drIInv, NEW r \in DrResolvers PROVE drUses(r) = drTotal(drHeld, drWork, drQuery, drProbe, r)
    BY DEF drUses, drTotal, drHolders, drWorkers, drProbing, drRunning
<1> QED BY <1>1 DEF drIInv, drCounted, AttemptSlotsBalanced, drLeased, LeaseIsHeld

\* An answer of a pair comes from its own worker, which its switch has not cancelled.
LEMMA drAnswers ==
    ASSUME drIInv, drNext, NEW q \in DrQueries, NEW p \in DrPairs,
           drWork[q][p].at = "exchange", drWork'[q][p].res = "ok"
    PROVE  <<q, p>> \notin drMoved
<1>a. drWork'[q][p] # drWork[q][p] BY DEF drIInv, drEnded
<1>b. ASSUME NEW x \in DrQueries, NEW todo \in SetToSeqs(DrPool \ drOff), resolveConfigured(x, todo) PROVE FALSE
    <2>1. x # q BY <1>b DEF resolveConfigured, drIInv, drQueues
    <2>2. drWork'[q] = drWork[q] BY <1>b, <2>1 DEF resolveConfigured, drIInv, drTypes
    <2> QED BY <1>a, <2>2
<1>c. ASSUME NEW x \in DrQueries, dispatchStart(x) PROVE FALSE
    <2>1. PICK y : /\ y = Head(drQuery[x].todo)
                   /\ \/ drWork' = [drWork EXCEPT ![x][y] = [at |-> "told", res |-> "err"]]
                      \/ drWork' = [drWork EXCEPT ![x][y].at = "begun"]
        BY <1>c DEF dispatchStart
    <2>2. drQuery[x].todo \in Seq(DrPairs) /\ drQuery[x].todo # <<>>
        BY <1>c DEF dispatchStart, drIInv, drTypes, drQueues
    <2>3. y = drQuery[x].todo[1] /\ y \in DrPairs /\ 1 \in 1..Len(drQuery[x].todo)
        BY <2>1, <2>2, HeadTailProperties
    <2>4. drWork[x][y].at = "queued" BY <2>3 DEF drIInv, drQueues
    <2>5. x # q \/ y # p BY <2>4
    <2>6. drWork'[q][p] = drWork[q][p] BY <2>1, <2>5 DEF drIInv, drTypes
    <2> QED BY <1>a, <2>6
<1>d. ASSUME NEW x \in DrQueries, NEW y \in DrPairs, exchangeBegin(x, y) \/ workerReports(x, y) PROVE FALSE
    <2>1. drWork[x][y].at \in {"begun", "ended"} BY <1>d DEF exchangeBegin, workerReports
    <2>2. PICK v : drWork' = [drWork EXCEPT ![x][y] = v] BY <1>d DEF exchangeBegin, workerReports
    <2>3. x # q \/ y # p BY <2>1
    <2>4. drWork'[q][p] = drWork[q][p] BY <2>2, <2>3 DEF drIInv, drTypes
    <2> QED BY <1>a, <2>4
<1>e. ASSUME NEW x \in DrQueries, NEW y \in DrPairs, exchangeEndpoint(x, y), x # q \/ y # p PROVE FALSE
    <2>1. PICK v : drWork' = [drWork EXCEPT ![x][y] = v] BY <1>e DEF exchangeEndpoint
    <2>2. drWork'[q][p] = drWork[q][p] BY <1>e, <2>1 DEF drIInv, drTypes
    <2> QED BY <1>a, <2>2
<1>f. drWork' # drWork BY <1>a
<1>g. ASSUME NEW x \in DrQueries,
             dispatchSlot(x) \/ dispatchStops(x) \/ collectWins(x) \/ collectFails(x) \/ queryTimeout(x)
      PROVE  FALSE
    BY <1>f, <1>g DEF dispatchSlot, dispatchStops, collectWins, collectFails, queryTimeout
<1>h. ASSUME \/ \E y \in DrPairs, on \in BOOLEAN : SetMethodEnabled(y, on)
             \/ replaceResolver
             \/ \E r \in DrResolvers : \/ probeSlot(r) \/ noProbe(r) \/ finishProbe(r)
                                       \/ \E y \in DrPairs : nextProbe(r, y)
      PROVE  FALSE
    BY <1>f, <1>h DEF SetMethodEnabled, replaceResolver, probeSlot, noProbe, finishProbe, nextProbe
<1>1. exchangeEndpoint(q, p) BY <1>b, <1>c, <1>d, <1>e, <1>g, <1>h DEF drNext
<1>2. PICK res \in Outcomes(q, p) : drWork' = [drWork EXCEPT ![q][p] = [at |-> "ended", res |-> res]]
    BY <1>1 DEF exchangeEndpoint
<1>3. drWork'[q][p].res = res BY <1>2 DEF drIInv, drTypes
<1>4. <<q, p>> \notin drCut BY <1>3 DEF Outcomes
<1> QED BY <1>4 DEF drIInv, drSwitched, drRunning

\* RaceSafe for any pairs, queries, resolvers, slots, edits and probes.
THEOREM RaceIsSafe == drSpec => RaceSafe
<1>1. drIInv /\ [drNext]_drVars =>
        [\A q \in DrQueries, p \in DrPairs :
            drWork[q][p].at = "exchange" /\ drWork'[q][p].res = "ok" => <<q, p>> \notin drMoved]_drVars
    BY drAnswers
<1>2. drIInv => AttemptSlotsBalanced /\ CanceledIsNeutral /\ ProbedIsTracked /\ LeaseIsHeld /\ FailsOnlyWhenAllFailed
    BY drImplies DEF drIInv
<1> QED BY <1>1, <1>2, drInitially, drInductive, PTL DEF drSpec, RaceSafe, DisabledNeverAnswers

-----------------------------------------------------------------------------
(* The routed sockets of the server and the repair of its firewall. *)

daSpec == daInit /\ [][daNext]_daVars

DaConnStates == {"idle", "dial", "socket", "tracked"}
DaCleanStates == {"none", "firewall", "rule", "flush", "done"}
DaSkips == {"firewall", "rule"}
daTyped ==
    /\ daRun \in 0..DaRuns /\ daCut \subseteq 1..DaRuns /\ daFw \in 0..DaRuns
    /\ daStarted \in BOOLEAN /\ daReady \in BOOLEAN /\ daHook \in BOOLEAN /\ daRule \in BOOLEAN
    /\ daSig \in BOOLEAN /\ daDirty \in BOOLEAN /\ daTorn \in BOOLEAN
    /\ daTable \in {"empty", "full", "blackhole"}
    /\ daConn \in [DaConns -> [at : DaConnStates, run : 0..DaRuns]]
    /\ daMaint \in [1..DaRuns -> {"off", "wait", "inspect", "lock", "repair"}]
    /\ daClean \in DaCleanStates /\ daErr \in BOOLEAN /\ daSkipped \subseteq DaSkips
\* Who holds opMu and where: Prepare and Close work on a server that is not started, a repair
\* holds it alone, and a cleanup belongs to one of the former.
daHolds ==
    /\ daOp \in {"none", "prepare", "close", "maintain"}
    /\ daAt \in {"remnants", "hook", "script", "undo"} <=> daOp = "prepare"
    /\ daAt \in {"conns", "join", "clean"} <=> daOp = "close"
    /\ daAt \in {"idle", "remnants", "hook", "script", "undo", "conns", "join", "clean"}
    /\ daClean # "none" <=> daAt \in {"remnants", "undo", "clean"}
    /\ daOp = "prepare" => ~daStarted /\ daRun < DaRuns
    /\ daOp = "close" => ~daStarted /\ (daRun # 0 => daRun \in daCut)
    /\ \A r \in 1..DaRuns : daMaint[r] = "repair" =>
           /\ daOp = "maintain"
           /\ \A s \in 1..DaRuns : daMaint[s] = "repair" => s = r
\* A server that runs has its hook, and a route it remembers has its rule.
daWorks == daStarted => daHook /\ (daSig => daRule)
\* What StoppedIsCleaned rests on: what a cleanup without an error has done so far, and what is so
\* outside those of a failed Prepare and of Close.
daFwGone == daFw = 0 \/ "firewall" \in daSkipped
daRuleGone == ~daRule \/ "rule" \in daSkipped
daCleaned ==
    /\ daAt = "script" => daHook
    /\ daClean \in {"rule", "flush", "done"} /\ ~daErr => daFwGone
    /\ daClean \in {"flush", "done"} /\ ~daErr => daRuleGone
    /\ daAt \notin {"undo", "clean"} /\ ~daStarted /\ ~daHook /\ ~daReady /\ ~daDirty => daFwGone /\ daRuleGone
daIInv == daTyped /\ daHolds /\ daWorks /\ daCleaned /\ ConnsOfRun /\ TableIsClaimed

LEMMA daInitially == daInit => daIInv
<1> SUFFICES ASSUME daInit PROVE daIInv OBVIOUS
<1>1. daTyped
    <2>1. daRun \in 0..DaRuns /\ daCut \subseteq 1..DaRuns /\ daFw \in 0..DaRuns BY DaAssumption DEF daInit
    <2>2. daStarted \in BOOLEAN /\ daReady \in BOOLEAN /\ daHook \in BOOLEAN /\ daRule \in BOOLEAN BY DEF daInit
    <2>3. daSig \in BOOLEAN /\ daDirty \in BOOLEAN /\ daTorn \in BOOLEAN /\ daTable \in {"empty", "full", "blackhole"}
        BY DEF daInit
    <2>4. daConn \in [DaConns -> [at : DaConnStates, run : 0..DaRuns]] BY DaAssumption DEF daInit, DaConnStates
    <2>5. daMaint \in [1..DaRuns -> {"off", "wait", "inspect", "lock", "repair"}] BY DEF daInit
    <2>6. daClean \in DaCleanStates /\ daErr \in BOOLEAN /\ daSkipped \subseteq DaSkips BY DEF daInit, DaCleanStates
    <2> QED BY <2>1, <2>2, <2>3, <2>4, <2>5, <2>6 DEF daTyped
<1>2. daHolds BY DaAssumption DEF daInit, daHolds
<1> QED BY <1>1, <1>2 DEF daInit, daIInv, daWorks, daCleaned, daFwGone, daRuleGone, ConnsOfRun, TableIsClaimed

LEMMA daImplies == daIInv => StoppedIsCleaned /\ JoinCanEnd
<1> SUFFICES ASSUME daIInv PROVE StoppedIsCleaned /\ JoinCanEnd OBVIOUS
<1>1. StoppedIsCleaned BY DEF daIInv, daHolds, daCleaned, daFwGone, daRuleGone, StoppedIsCleaned
<1>2. JoinCanEnd BY DEF daIInv, daTyped, daHolds, JoinCanEnd, tryLock
<1> QED BY <1>1, <1>2

\* Prepare, and what it leaves when one of its commands fails.
LEMMA daPrepareStep ==
    ASSUME daIInv, Prepare \/ prepareRemnants \/ prepareHook \/ prepareUndo
    PROVE  daIInv'
<1> USE DaAssumption DEF daIInv, daTyped, daHolds, daWorks, daCleaned, ConnsOfRun, TableIsClaimed, DaConnStates,
        DaCleanStates, DaSkips, daLife, daOs, daCleanup,
        daFaulty, pending, cleanupBegins, cleanupEnds, daFwGone, daRuleGone
<1>1. CASE Prepare
    <2>1. daTyped'
        <3>1. daRun' \in 0..DaRuns /\ daCut' \subseteq 1..DaRuns /\ daFw' \in 0..DaRuns
            BY <1>1 DEF Prepare
        <3>2. daStarted' \in BOOLEAN /\ daReady' \in BOOLEAN /\ daHook' \in BOOLEAN /\ daRule' \in BOOLEAN
            BY <1>1 DEF Prepare
        <3>3. daSig' \in BOOLEAN /\ daDirty' \in BOOLEAN /\ daTorn' \in BOOLEAN /\ daTable' \in {"empty", "full", "blackhole"}
            BY <1>1 DEF Prepare
        <3>4. daConn' \in [DaConns -> [at : DaConnStates, run : 0..DaRuns]]
            BY <1>1 DEF Prepare
        <3>5. daMaint' \in [1..DaRuns -> {"off", "wait", "inspect", "lock", "repair"}]
            BY <1>1 DEF Prepare
        <3>6. daClean' \in DaCleanStates /\ daErr' \in BOOLEAN /\ daSkipped' \subseteq DaSkips
            BY <1>1 DEF Prepare
        <3> QED BY <3>1, <3>2, <3>3, <3>4, <3>5, <3>6
    <2>2. daHolds' BY <1>1 DEF Prepare
    <2>3. daWorks' BY <1>1 DEF Prepare
    <2>4. daCleaned' BY <1>1 DEF Prepare
    <2>5. ConnsOfRun' BY <1>1 DEF Prepare
    <2>6. TableIsClaimed' BY <1>1 DEF Prepare
    <2> QED BY <2>1, <2>2, <2>3, <2>4, <2>5, <2>6
<1>2. CASE prepareRemnants
    <2>1. daTyped'
        <3>1. daRun' \in 0..DaRuns /\ daCut' \subseteq 1..DaRuns /\ daFw' \in 0..DaRuns
            BY <1>2 DEF prepareRemnants
        <3>2. daStarted' \in BOOLEAN /\ daReady' \in BOOLEAN /\ daHook' \in BOOLEAN /\ daRule' \in BOOLEAN
            BY <1>2 DEF prepareRemnants
        <3>3. daSig' \in BOOLEAN /\ daDirty' \in BOOLEAN /\ daTorn' \in BOOLEAN /\ daTable' \in {"empty", "full", "blackhole"}
            BY <1>2 DEF prepareRemnants
        <3>4. daConn' \in [DaConns -> [at : DaConnStates, run : 0..DaRuns]]
            BY <1>2 DEF prepareRemnants
        <3>5. daMaint' \in [1..DaRuns -> {"off", "wait", "inspect", "lock", "repair"}]
            BY <1>2 DEF prepareRemnants
        <3>6. daClean' \in DaCleanStates /\ daErr' \in BOOLEAN /\ daSkipped' \subseteq DaSkips
            BY <1>2 DEF prepareRemnants
        <3> QED BY <3>1, <3>2, <3>3, <3>4, <3>5, <3>6
    <2>2. daHolds' BY <1>2 DEF prepareRemnants
    <2>3. daWorks' BY <1>2 DEF prepareRemnants
    <2>4. daCleaned' BY <1>2 DEF prepareRemnants
    <2>5. ConnsOfRun' BY <1>2 DEF prepareRemnants
    <2>6. TableIsClaimed' BY <1>2 DEF prepareRemnants
    <2> QED BY <2>1, <2>2, <2>3, <2>4, <2>5, <2>6
<1>3. CASE prepareHook
    <2>1. daTyped'
        <3>1. daRun' \in 0..DaRuns /\ daCut' \subseteq 1..DaRuns /\ daFw' \in 0..DaRuns
            BY <1>3 DEF prepareHook
        <3>2. daStarted' \in BOOLEAN /\ daReady' \in BOOLEAN /\ daHook' \in BOOLEAN /\ daRule' \in BOOLEAN
            BY <1>3 DEF prepareHook
        <3>3. daSig' \in BOOLEAN /\ daDirty' \in BOOLEAN /\ daTorn' \in BOOLEAN /\ daTable' \in {"empty", "full", "blackhole"}
            BY <1>3 DEF prepareHook
        <3>4. daConn' \in [DaConns -> [at : DaConnStates, run : 0..DaRuns]]
            BY <1>3 DEF prepareHook
        <3>5. daMaint' \in [1..DaRuns -> {"off", "wait", "inspect", "lock", "repair"}]
            BY <1>3 DEF prepareHook
        <3>6. daClean' \in DaCleanStates /\ daErr' \in BOOLEAN /\ daSkipped' \subseteq DaSkips
            BY <1>3 DEF prepareHook
        <3> QED BY <3>1, <3>2, <3>3, <3>4, <3>5, <3>6
    <2>2. daHolds' BY <1>3 DEF prepareHook
    <2>3. daWorks' BY <1>3 DEF prepareHook
    <2>4. daCleaned' BY <1>3 DEF prepareHook
    <2>5. ConnsOfRun' BY <1>3 DEF prepareHook
    <2>6. TableIsClaimed' BY <1>3 DEF prepareHook
    <2> QED BY <2>1, <2>2, <2>3, <2>4, <2>5, <2>6
<1>4. CASE prepareUndo
    <2>1. daTyped'
        <3>1. daRun' \in 0..DaRuns /\ daCut' \subseteq 1..DaRuns /\ daFw' \in 0..DaRuns
            BY <1>4 DEF prepareUndo
        <3>2. daStarted' \in BOOLEAN /\ daReady' \in BOOLEAN /\ daHook' \in BOOLEAN /\ daRule' \in BOOLEAN
            BY <1>4 DEF prepareUndo
        <3>3. daSig' \in BOOLEAN /\ daDirty' \in BOOLEAN /\ daTorn' \in BOOLEAN /\ daTable' \in {"empty", "full", "blackhole"}
            BY <1>4 DEF prepareUndo
        <3>4. daConn' \in [DaConns -> [at : DaConnStates, run : 0..DaRuns]]
            BY <1>4 DEF prepareUndo
        <3>5. daMaint' \in [1..DaRuns -> {"off", "wait", "inspect", "lock", "repair"}]
            BY <1>4 DEF prepareUndo
        <3>6. daClean' \in DaCleanStates /\ daErr' \in BOOLEAN /\ daSkipped' \subseteq DaSkips
            BY <1>4 DEF prepareUndo
        <3> QED BY <3>1, <3>2, <3>3, <3>4, <3>5, <3>6
    <2>2. daHolds' BY <1>4 DEF prepareUndo
    <2>3. daWorks' BY <1>4 DEF prepareUndo
    <2>4. daCleaned' BY <1>4 DEF prepareUndo
    <2>5. ConnsOfRun' BY <1>4 DEF prepareUndo
    <2>6. TableIsClaimed' BY <1>4 DEF prepareUndo
    <2> QED BY <2>1, <2>2, <2>3, <2>4, <2>5, <2>6
<1> QED BY <1>1, <1>2, <1>3, <1>4

\* The script of the hook: a new run, or an undo.
LEMMA daScriptStep == ASSUME daIInv, prepareScript PROVE daIInv'
<1> USE DaAssumption DEF daIInv, daTyped, daHolds, daWorks, daCleaned, ConnsOfRun, TableIsClaimed, DaConnStates,
        DaCleanStates, DaSkips, daLife, daOs, daCleanup, daFaulty, cleanupBegins, daFwGone, daRuleGone
<1>a. daOp = "prepare" /\ ~daStarted /\ daClean = "none" /\ \A r \in 1..DaRuns : daMaint[r] # "repair" BY DEF prepareScript
<1>b. daRun < DaRuns /\ daRun \in 0..DaRuns /\ daRun + 1 \in 1..DaRuns BY <1>a
<1>c. /\ daRun' \in {daRun, daRun + 1} /\ daFw' \in {0, daRun + 1} /\ daCut' = daCut
      /\ \/ /\ daOp' = daOp /\ daAt' = "undo" /\ daStarted' = daStarted /\ daRun' = daRun /\ daMaint' = daMaint
            /\ daClean' = "firewall"
         \/ /\ daOp' = "none" /\ daAt' = "idle" /\ daMaint' = [daMaint EXCEPT ![daRun + 1] = "wait"] /\ daClean' = daClean
    BY DEF prepareScript
<1>1. daTyped'
    <2>1. daRun' \in 0..DaRuns /\ daCut' \subseteq 1..DaRuns /\ daFw' \in 0..DaRuns
        BY <1>b, <1>c
    <2>2. daStarted' \in BOOLEAN /\ daReady' \in BOOLEAN /\ daHook' \in BOOLEAN /\ daRule' \in BOOLEAN
        BY DEF prepareScript
    <2>3. daSig' \in BOOLEAN /\ daDirty' \in BOOLEAN /\ daTorn' \in BOOLEAN /\ daTable' \in {"empty", "full", "blackhole"}
        BY DEF prepareScript
    <2>4. daConn' \in [DaConns -> [at : DaConnStates, run : 0..DaRuns]]
        BY DEF prepareScript
    <2>5. daMaint' \in [1..DaRuns -> {"off", "wait", "inspect", "lock", "repair"}]
        BY DEF prepareScript
    <2>6. daClean' \in DaCleanStates /\ daErr' \in BOOLEAN /\ daSkipped' \subseteq DaSkips
        BY DEF prepareScript
    <2> QED BY <2>1, <2>2, <2>3, <2>4, <2>5, <2>6
<1>2. daHolds' BY <1>a, <1>b, <1>c
<1>3. daWorks' BY DEF prepareScript
<1>4. daCleaned' BY <1>a DEF prepareScript
<1>5. ConnsOfRun' BY DEF prepareScript
<1>6. TableIsClaimed' BY <1>a DEF prepareScript
<1> QED BY <1>1, <1>2, <1>3, <1>4, <1>5, <1>6

\* The commands of a cleanup, whatever becomes of them.
LEMMA daCleanupStep ==
    ASSUME daIInv, cleanupFirewall \/ cleanupRule \/ cleanupFlush
    PROVE  daIInv'
<1> USE DaAssumption DEF daIInv, daTyped, daHolds, daWorks, daCleaned, ConnsOfRun, TableIsClaimed, DaConnStates,
        DaCleanStates, DaSkips, daLife, daOs, daCleanup,
        daFaulty, reported, unnoticed, works, daFwGone, daRuleGone
<1>1. CASE cleanupFirewall
    <2>1. daTyped'
        <3>1. daRun' \in 0..DaRuns /\ daCut' \subseteq 1..DaRuns /\ daFw' \in 0..DaRuns
            BY <1>1 DEF cleanupFirewall
        <3>2. daStarted' \in BOOLEAN /\ daReady' \in BOOLEAN /\ daHook' \in BOOLEAN /\ daRule' \in BOOLEAN
            BY <1>1 DEF cleanupFirewall
        <3>3. daSig' \in BOOLEAN /\ daDirty' \in BOOLEAN /\ daTorn' \in BOOLEAN /\ daTable' \in {"empty", "full", "blackhole"}
            BY <1>1 DEF cleanupFirewall
        <3>4. daConn' \in [DaConns -> [at : DaConnStates, run : 0..DaRuns]]
            BY <1>1 DEF cleanupFirewall
        <3>5. daMaint' \in [1..DaRuns -> {"off", "wait", "inspect", "lock", "repair"}]
            BY <1>1 DEF cleanupFirewall
        <3>6. daClean' \in DaCleanStates /\ daErr' \in BOOLEAN /\ daSkipped' \subseteq DaSkips
            BY <1>1 DEF cleanupFirewall
        <3> QED BY <3>1, <3>2, <3>3, <3>4, <3>5, <3>6
    <2>2. daHolds' BY <1>1 DEF cleanupFirewall
    <2>3. daWorks' BY <1>1 DEF cleanupFirewall
    <2>4. daCleaned' BY <1>1 DEF cleanupFirewall
    <2>5. ConnsOfRun' BY <1>1 DEF cleanupFirewall
    <2>6. TableIsClaimed' BY <1>1 DEF cleanupFirewall
    <2> QED BY <2>1, <2>2, <2>3, <2>4, <2>5, <2>6
<1>2. CASE cleanupRule
    <2>1. daTyped'
        <3>1. daRun' \in 0..DaRuns /\ daCut' \subseteq 1..DaRuns /\ daFw' \in 0..DaRuns
            BY <1>2 DEF cleanupRule
        <3>2. daStarted' \in BOOLEAN /\ daReady' \in BOOLEAN /\ daHook' \in BOOLEAN /\ daRule' \in BOOLEAN
            BY <1>2 DEF cleanupRule
        <3>3. daSig' \in BOOLEAN /\ daDirty' \in BOOLEAN /\ daTorn' \in BOOLEAN /\ daTable' \in {"empty", "full", "blackhole"}
            BY <1>2 DEF cleanupRule
        <3>4. daConn' \in [DaConns -> [at : DaConnStates, run : 0..DaRuns]]
            BY <1>2 DEF cleanupRule
        <3>5. daMaint' \in [1..DaRuns -> {"off", "wait", "inspect", "lock", "repair"}]
            BY <1>2 DEF cleanupRule
        <3>6. daClean' \in DaCleanStates /\ daErr' \in BOOLEAN /\ daSkipped' \subseteq DaSkips
            BY <1>2 DEF cleanupRule
        <3> QED BY <3>1, <3>2, <3>3, <3>4, <3>5, <3>6
    <2>2. daHolds' BY <1>2 DEF cleanupRule
    <2>3. daWorks' BY <1>2 DEF cleanupRule
    <2>4. daCleaned' BY <1>2 DEF cleanupRule
    <2>5. ConnsOfRun' BY <1>2 DEF cleanupRule
    <2>6. TableIsClaimed' BY <1>2 DEF cleanupRule
    <2> QED BY <2>1, <2>2, <2>3, <2>4, <2>5, <2>6
<1>3. CASE cleanupFlush
    <2>1. daTyped'
        <3>1. daRun' \in 0..DaRuns /\ daCut' \subseteq 1..DaRuns /\ daFw' \in 0..DaRuns
            BY <1>3 DEF cleanupFlush
        <3>2. daStarted' \in BOOLEAN /\ daReady' \in BOOLEAN /\ daHook' \in BOOLEAN /\ daRule' \in BOOLEAN
            BY <1>3 DEF cleanupFlush
        <3>3. daSig' \in BOOLEAN /\ daDirty' \in BOOLEAN /\ daTorn' \in BOOLEAN /\ daTable' \in {"empty", "full", "blackhole"}
            BY <1>3 DEF cleanupFlush
        <3>4. daConn' \in [DaConns -> [at : DaConnStates, run : 0..DaRuns]]
            BY <1>3 DEF cleanupFlush
        <3>5. daMaint' \in [1..DaRuns -> {"off", "wait", "inspect", "lock", "repair"}]
            BY <1>3 DEF cleanupFlush
        <3>6. daClean' \in DaCleanStates /\ daErr' \in BOOLEAN /\ daSkipped' \subseteq DaSkips
            BY <1>3 DEF cleanupFlush
        <3> QED BY <3>1, <3>2, <3>3, <3>4, <3>5, <3>6
    <2>2. daHolds' BY <1>3 DEF cleanupFlush
    <2>3. daWorks' BY <1>3 DEF cleanupFlush
    <2>4. daCleaned' BY <1>3 DEF cleanupFlush
    <2>5. ConnsOfRun' BY <1>3 DEF cleanupFlush
    <2>6. TableIsClaimed' BY <1>3 DEF cleanupFlush
    <2> QED BY <2>1, <2>2, <2>3, <2>4, <2>5, <2>6
<1> QED BY <1>1, <1>2, <1>3

\* Close, up to its cleanup and with its end.
LEMMA daCloseStep ==
    ASSUME daIInv, closeMark \/ closeConns \/ closeJoin \/ closeCleanup
    PROVE  daIInv'
<1> USE DaAssumption DEF daIInv, daTyped, daHolds, daWorks, daCleaned, ConnsOfRun, TableIsClaimed, DaConnStates,
        DaCleanStates, DaSkips, daLife, daOs, daCleanup,
        daFaulty, pending, cleanupBegins, cleanupEnds, daFwGone, daRuleGone
<1>1. CASE closeMark
    <2>1. daTyped'
        <3>1. daRun' \in 0..DaRuns /\ daCut' \subseteq 1..DaRuns /\ daFw' \in 0..DaRuns
            BY <1>1 DEF closeMark
        <3>2. daStarted' \in BOOLEAN /\ daReady' \in BOOLEAN /\ daHook' \in BOOLEAN /\ daRule' \in BOOLEAN
            BY <1>1 DEF closeMark
        <3>3. daSig' \in BOOLEAN /\ daDirty' \in BOOLEAN /\ daTorn' \in BOOLEAN /\ daTable' \in {"empty", "full", "blackhole"}
            BY <1>1 DEF closeMark
        <3>4. daConn' \in [DaConns -> [at : DaConnStates, run : 0..DaRuns]]
            BY <1>1 DEF closeMark
        <3>5. daMaint' \in [1..DaRuns -> {"off", "wait", "inspect", "lock", "repair"}]
            BY <1>1 DEF closeMark
        <3>6. daClean' \in DaCleanStates /\ daErr' \in BOOLEAN /\ daSkipped' \subseteq DaSkips
            BY <1>1 DEF closeMark
        <3> QED BY <3>1, <3>2, <3>3, <3>4, <3>5, <3>6
    <2>2. daHolds' BY <1>1 DEF closeMark
    <2>3. daWorks' BY <1>1 DEF closeMark
    <2>4. daCleaned' BY <1>1 DEF closeMark
    <2>5. ConnsOfRun' BY <1>1 DEF closeMark
    <2>6. TableIsClaimed' BY <1>1 DEF closeMark
    <2> QED BY <2>1, <2>2, <2>3, <2>4, <2>5, <2>6
<1>2. CASE closeConns
    <2>1. daTyped'
        <3>1. daRun' \in 0..DaRuns /\ daCut' \subseteq 1..DaRuns /\ daFw' \in 0..DaRuns
            BY <1>2 DEF closeConns
        <3>2. daStarted' \in BOOLEAN /\ daReady' \in BOOLEAN /\ daHook' \in BOOLEAN /\ daRule' \in BOOLEAN
            BY <1>2 DEF closeConns
        <3>3. daSig' \in BOOLEAN /\ daDirty' \in BOOLEAN /\ daTorn' \in BOOLEAN /\ daTable' \in {"empty", "full", "blackhole"}
            BY <1>2 DEF closeConns
        <3>4. daConn' \in [DaConns -> [at : DaConnStates, run : 0..DaRuns]]
            <4>1. ASSUME NEW c \in DaConns PROVE daConn'[c] \in [at : DaConnStates, run : 0..DaRuns]
                BY <1>2, SMTT(30) DEF closeConns
            <4>2. daConn' = [c \in DaConns |-> daConn'[c]] BY <1>2 DEF closeConns
            <4> QED BY <4>1, <4>2
        <3>5. daMaint' \in [1..DaRuns -> {"off", "wait", "inspect", "lock", "repair"}]
            BY <1>2 DEF closeConns
        <3>6. daClean' \in DaCleanStates /\ daErr' \in BOOLEAN /\ daSkipped' \subseteq DaSkips
            BY <1>2 DEF closeConns
        <3> QED BY <3>1, <3>2, <3>3, <3>4, <3>5, <3>6
    <2>2. daHolds' BY <1>2 DEF closeConns
    <2>3. daWorks' BY <1>2 DEF closeConns
    <2>4. daCleaned' BY <1>2 DEF closeConns
    <2>5. ConnsOfRun' BY <1>2 DEF closeConns
    <2>6. TableIsClaimed' BY <1>2 DEF closeConns
    <2> QED BY <2>1, <2>2, <2>3, <2>4, <2>5, <2>6
<1>3. CASE closeJoin
    <2>1. daTyped'
        <3>1. daRun' \in 0..DaRuns /\ daCut' \subseteq 1..DaRuns /\ daFw' \in 0..DaRuns
            BY <1>3 DEF closeJoin
        <3>2. daStarted' \in BOOLEAN /\ daReady' \in BOOLEAN /\ daHook' \in BOOLEAN /\ daRule' \in BOOLEAN
            BY <1>3 DEF closeJoin
        <3>3. daSig' \in BOOLEAN /\ daDirty' \in BOOLEAN /\ daTorn' \in BOOLEAN /\ daTable' \in {"empty", "full", "blackhole"}
            BY <1>3 DEF closeJoin
        <3>4. daConn' \in [DaConns -> [at : DaConnStates, run : 0..DaRuns]]
            BY <1>3 DEF closeJoin
        <3>5. daMaint' \in [1..DaRuns -> {"off", "wait", "inspect", "lock", "repair"}]
            BY <1>3 DEF closeJoin
        <3>6. daClean' \in DaCleanStates /\ daErr' \in BOOLEAN /\ daSkipped' \subseteq DaSkips
            BY <1>3 DEF closeJoin
        <3> QED BY <3>1, <3>2, <3>3, <3>4, <3>5, <3>6
    <2>2. daHolds' BY <1>3 DEF closeJoin
    <2>3. daWorks' BY <1>3 DEF closeJoin
    <2>4. daCleaned' BY <1>3 DEF closeJoin
    <2>5. ConnsOfRun' BY <1>3 DEF closeJoin
    <2>6. TableIsClaimed' BY <1>3 DEF closeJoin
    <2> QED BY <2>1, <2>2, <2>3, <2>4, <2>5, <2>6
<1>4. CASE closeCleanup
    <2>1. daTyped'
        <3>1. daRun' \in 0..DaRuns /\ daCut' \subseteq 1..DaRuns /\ daFw' \in 0..DaRuns
            BY <1>4 DEF closeCleanup
        <3>2. daStarted' \in BOOLEAN /\ daReady' \in BOOLEAN /\ daHook' \in BOOLEAN /\ daRule' \in BOOLEAN
            BY <1>4 DEF closeCleanup
        <3>3. daSig' \in BOOLEAN /\ daDirty' \in BOOLEAN /\ daTorn' \in BOOLEAN /\ daTable' \in {"empty", "full", "blackhole"}
            BY <1>4 DEF closeCleanup
        <3>4. daConn' \in [DaConns -> [at : DaConnStates, run : 0..DaRuns]]
            BY <1>4 DEF closeCleanup
        <3>5. daMaint' \in [1..DaRuns -> {"off", "wait", "inspect", "lock", "repair"}]
            BY <1>4 DEF closeCleanup
        <3>6. daClean' \in DaCleanStates /\ daErr' \in BOOLEAN /\ daSkipped' \subseteq DaSkips
            BY <1>4 DEF closeCleanup
        <3> QED BY <3>1, <3>2, <3>3, <3>4, <3>5, <3>6
    <2>2. daHolds' BY <1>4 DEF closeCleanup
    <2>3. daWorks' BY <1>4 DEF closeCleanup
    <2>4. daCleaned' BY <1>4 DEF closeCleanup
    <2>5. ConnsOfRun' BY <1>4 DEF closeCleanup
    <2>6. TableIsClaimed' BY <1>4 DEF closeCleanup
    <2> QED BY <2>1, <2>2, <2>3, <2>4, <2>5, <2>6
<1> QED BY <1>1, <1>2, <1>3, <1>4

\* A dial, its route and the connection it leads to.
LEMMA daDialStep ==
    ASSUME daIInv, NEW c \in DaConns,
           daDial(c) \/ dialFails(c) \/ dialConnects(c) \/ dialTracks(c) \/ routedClose(c)
    PROVE  daIInv'
<1> USE DaAssumption DEF daIInv, daTyped, daHolds, daWorks, daCleaned, ConnsOfRun, TableIsClaimed, DaConnStates,
        DaCleanStates, DaSkips, daLife, daOs, daCleanup, daLockFree, daFwGone, daRuleGone
<1>1. CASE daDial(c)
    <2>1. daTyped'
        <3>1. daRun' \in 0..DaRuns /\ daCut' \subseteq 1..DaRuns /\ daFw' \in 0..DaRuns
            BY <1>1 DEF daDial, ensureRouteLocked, trusted, claims
        <3>2. daStarted' \in BOOLEAN /\ daReady' \in BOOLEAN /\ daHook' \in BOOLEAN /\ daRule' \in BOOLEAN
            BY <1>1 DEF daDial, ensureRouteLocked, trusted, claims
        <3>3. daSig' \in BOOLEAN /\ daDirty' \in BOOLEAN /\ daTorn' \in BOOLEAN /\ daTable' \in {"empty", "full", "blackhole"}
            BY <1>1 DEF daDial, ensureRouteLocked, trusted, claims
        <3>4. daConn' \in [DaConns -> [at : DaConnStates, run : 0..DaRuns]]
            BY <1>1 DEF daDial, ensureRouteLocked, trusted, claims
        <3>5. daMaint' \in [1..DaRuns -> {"off", "wait", "inspect", "lock", "repair"}]
            BY <1>1 DEF daDial, ensureRouteLocked, trusted, claims
        <3>6. daClean' \in DaCleanStates /\ daErr' \in BOOLEAN /\ daSkipped' \subseteq DaSkips
            BY <1>1 DEF daDial, ensureRouteLocked, trusted, claims
        <3> QED BY <3>1, <3>2, <3>3, <3>4, <3>5, <3>6
    <2>2. daHolds' BY <1>1 DEF daDial, ensureRouteLocked, trusted, claims
    <2>3. daWorks' BY <1>1 DEF daDial, ensureRouteLocked, trusted, claims
    <2>4. daCleaned' BY <1>1 DEF daDial, ensureRouteLocked, trusted, claims
    <2>5. ConnsOfRun' BY <1>1 DEF daDial, ensureRouteLocked, trusted, claims
    <2>6. TableIsClaimed' BY <1>1 DEF daDial, ensureRouteLocked, trusted, claims
    <2> QED BY <2>1, <2>2, <2>3, <2>4, <2>5, <2>6
<1>2. CASE dialFails(c)
    <2>1. daTyped'
        <3>1. daRun' \in 0..DaRuns /\ daCut' \subseteq 1..DaRuns /\ daFw' \in 0..DaRuns
            BY <1>2 DEF dialFails
        <3>2. daStarted' \in BOOLEAN /\ daReady' \in BOOLEAN /\ daHook' \in BOOLEAN /\ daRule' \in BOOLEAN
            BY <1>2 DEF dialFails
        <3>3. daSig' \in BOOLEAN /\ daDirty' \in BOOLEAN /\ daTorn' \in BOOLEAN /\ daTable' \in {"empty", "full", "blackhole"}
            BY <1>2 DEF dialFails
        <3>4. daConn' \in [DaConns -> [at : DaConnStates, run : 0..DaRuns]]
            BY <1>2 DEF dialFails
        <3>5. daMaint' \in [1..DaRuns -> {"off", "wait", "inspect", "lock", "repair"}]
            BY <1>2 DEF dialFails
        <3>6. daClean' \in DaCleanStates /\ daErr' \in BOOLEAN /\ daSkipped' \subseteq DaSkips
            BY <1>2 DEF dialFails
        <3> QED BY <3>1, <3>2, <3>3, <3>4, <3>5, <3>6
    <2>2. daHolds' BY <1>2 DEF dialFails
    <2>3. daWorks' BY <1>2 DEF dialFails
    <2>4. daCleaned' BY <1>2 DEF dialFails
    <2>5. ConnsOfRun' BY <1>2 DEF dialFails
    <2>6. TableIsClaimed' BY <1>2 DEF dialFails
    <2> QED BY <2>1, <2>2, <2>3, <2>4, <2>5, <2>6
<1>3. CASE dialConnects(c)
    <2>1. daTyped'
        <3>1. daRun' \in 0..DaRuns /\ daCut' \subseteq 1..DaRuns /\ daFw' \in 0..DaRuns
            BY <1>3 DEF dialConnects
        <3>2. daStarted' \in BOOLEAN /\ daReady' \in BOOLEAN /\ daHook' \in BOOLEAN /\ daRule' \in BOOLEAN
            BY <1>3 DEF dialConnects
        <3>3. daSig' \in BOOLEAN /\ daDirty' \in BOOLEAN /\ daTorn' \in BOOLEAN /\ daTable' \in {"empty", "full", "blackhole"}
            BY <1>3 DEF dialConnects
        <3>4. daConn' \in [DaConns -> [at : DaConnStates, run : 0..DaRuns]]
            BY <1>3 DEF dialConnects
        <3>5. daMaint' \in [1..DaRuns -> {"off", "wait", "inspect", "lock", "repair"}]
            BY <1>3 DEF dialConnects
        <3>6. daClean' \in DaCleanStates /\ daErr' \in BOOLEAN /\ daSkipped' \subseteq DaSkips
            BY <1>3 DEF dialConnects
        <3> QED BY <3>1, <3>2, <3>3, <3>4, <3>5, <3>6
    <2>2. daHolds' BY <1>3 DEF dialConnects
    <2>3. daWorks' BY <1>3 DEF dialConnects
    <2>4. daCleaned' BY <1>3 DEF dialConnects
    <2>5. ConnsOfRun' BY <1>3 DEF dialConnects
    <2>6. TableIsClaimed' BY <1>3 DEF dialConnects
    <2> QED BY <2>1, <2>2, <2>3, <2>4, <2>5, <2>6
<1>4. CASE dialTracks(c)
    <2>1. daTyped'
        <3>1. daRun' \in 0..DaRuns /\ daCut' \subseteq 1..DaRuns /\ daFw' \in 0..DaRuns
            BY <1>4 DEF dialTracks, sameRun
        <3>2. daStarted' \in BOOLEAN /\ daReady' \in BOOLEAN /\ daHook' \in BOOLEAN /\ daRule' \in BOOLEAN
            BY <1>4 DEF dialTracks, sameRun
        <3>3. daSig' \in BOOLEAN /\ daDirty' \in BOOLEAN /\ daTorn' \in BOOLEAN /\ daTable' \in {"empty", "full", "blackhole"}
            BY <1>4 DEF dialTracks, sameRun
        <3>4. daConn' \in [DaConns -> [at : DaConnStates, run : 0..DaRuns]]
            BY <1>4 DEF dialTracks, sameRun
        <3>5. daMaint' \in [1..DaRuns -> {"off", "wait", "inspect", "lock", "repair"}]
            BY <1>4 DEF dialTracks, sameRun
        <3>6. daClean' \in DaCleanStates /\ daErr' \in BOOLEAN /\ daSkipped' \subseteq DaSkips
            BY <1>4 DEF dialTracks, sameRun
        <3> QED BY <3>1, <3>2, <3>3, <3>4, <3>5, <3>6
    <2>2. daHolds' BY <1>4 DEF dialTracks, sameRun
    <2>3. daWorks' BY <1>4 DEF dialTracks, sameRun
    <2>4. daCleaned' BY <1>4 DEF dialTracks, sameRun
    <2>5. ConnsOfRun' BY <1>4 DEF dialTracks, sameRun
    <2>6. TableIsClaimed' BY <1>4 DEF dialTracks, sameRun
    <2> QED BY <2>1, <2>2, <2>3, <2>4, <2>5, <2>6
<1>5. CASE routedClose(c)
    <2>1. daTyped'
        <3>1. daRun' \in 0..DaRuns /\ daCut' \subseteq 1..DaRuns /\ daFw' \in 0..DaRuns
            BY <1>5 DEF routedClose
        <3>2. daStarted' \in BOOLEAN /\ daReady' \in BOOLEAN /\ daHook' \in BOOLEAN /\ daRule' \in BOOLEAN
            BY <1>5 DEF routedClose
        <3>3. daSig' \in BOOLEAN /\ daDirty' \in BOOLEAN /\ daTorn' \in BOOLEAN /\ daTable' \in {"empty", "full", "blackhole"}
            BY <1>5 DEF routedClose
        <3>4. daConn' \in [DaConns -> [at : DaConnStates, run : 0..DaRuns]]
            BY <1>5 DEF routedClose
        <3>5. daMaint' \in [1..DaRuns -> {"off", "wait", "inspect", "lock", "repair"}]
            BY <1>5 DEF routedClose
        <3>6. daClean' \in DaCleanStates /\ daErr' \in BOOLEAN /\ daSkipped' \subseteq DaSkips
            BY <1>5 DEF routedClose
        <3> QED BY <3>1, <3>2, <3>3, <3>4, <3>5, <3>6
    <2>2. daHolds' BY <1>5 DEF routedClose
    <2>3. daWorks' BY <1>5 DEF routedClose
    <2>4. daCleaned' BY <1>5 DEF routedClose
    <2>5. ConnsOfRun' BY <1>5 DEF routedClose
    <2>6. TableIsClaimed' BY <1>5 DEF routedClose
    <2> QED BY <2>1, <2>2, <2>3, <2>4, <2>5, <2>6
<1> QED BY <1>1, <1>2, <1>3, <1>4, <1>5

\* The goroutine that repairs the firewall of a run.
LEMMA daMaintStep ==
    ASSUME daIInv, NEW r \in 1..DaRuns,
           maintainTick(r) \/ maintainInspect(r) \/ maintainLock(r) \/ maintainOnce(r) \/ maintainEnds(r)
    PROVE  daIInv'
<1> USE DaAssumption DEF daIInv, daTyped, daHolds, daWorks, daCleaned, ConnsOfRun, TableIsClaimed, DaConnStates,
        DaCleanStates, DaSkips, daLife, daOs, daCleanup,
        daGo, ownRun, daLockFree, daFwGone, daRuleGone
<1>1. CASE maintainTick(r)
    <2>1. daTyped'
        <3>1. daRun' \in 0..DaRuns /\ daCut' \subseteq 1..DaRuns /\ daFw' \in 0..DaRuns
            BY <1>1 DEF maintainTick
        <3>2. daStarted' \in BOOLEAN /\ daReady' \in BOOLEAN /\ daHook' \in BOOLEAN /\ daRule' \in BOOLEAN
            BY <1>1 DEF maintainTick
        <3>3. daSig' \in BOOLEAN /\ daDirty' \in BOOLEAN /\ daTorn' \in BOOLEAN /\ daTable' \in {"empty", "full", "blackhole"}
            BY <1>1 DEF maintainTick
        <3>4. daConn' \in [DaConns -> [at : DaConnStates, run : 0..DaRuns]]
            BY <1>1 DEF maintainTick
        <3>5. daMaint' \in [1..DaRuns -> {"off", "wait", "inspect", "lock", "repair"}]
            BY <1>1 DEF maintainTick
        <3>6. daClean' \in DaCleanStates /\ daErr' \in BOOLEAN /\ daSkipped' \subseteq DaSkips
            BY <1>1 DEF maintainTick
        <3> QED BY <3>1, <3>2, <3>3, <3>4, <3>5, <3>6
    <2>2. daHolds' BY <1>1 DEF maintainTick
    <2>3. daWorks' BY <1>1 DEF maintainTick
    <2>4. daCleaned' BY <1>1 DEF maintainTick
    <2>5. ConnsOfRun' BY <1>1 DEF maintainTick
    <2>6. TableIsClaimed' BY <1>1 DEF maintainTick
    <2> QED BY <2>1, <2>2, <2>3, <2>4, <2>5, <2>6
<1>2. CASE maintainInspect(r)
    <2>1. daTyped'
        <3>1. daRun' \in 0..DaRuns /\ daCut' \subseteq 1..DaRuns /\ daFw' \in 0..DaRuns
            BY <1>2 DEF maintainInspect
        <3>2. daStarted' \in BOOLEAN /\ daReady' \in BOOLEAN /\ daHook' \in BOOLEAN /\ daRule' \in BOOLEAN
            BY <1>2 DEF maintainInspect
        <3>3. daSig' \in BOOLEAN /\ daDirty' \in BOOLEAN /\ daTorn' \in BOOLEAN /\ daTable' \in {"empty", "full", "blackhole"}
            BY <1>2 DEF maintainInspect
        <3>4. daConn' \in [DaConns -> [at : DaConnStates, run : 0..DaRuns]]
            BY <1>2 DEF maintainInspect
        <3>5. daMaint' \in [1..DaRuns -> {"off", "wait", "inspect", "lock", "repair"}]
            BY <1>2 DEF maintainInspect
        <3>6. daClean' \in DaCleanStates /\ daErr' \in BOOLEAN /\ daSkipped' \subseteq DaSkips
            BY <1>2 DEF maintainInspect
        <3> QED BY <3>1, <3>2, <3>3, <3>4, <3>5, <3>6
    <2>2. daHolds' BY <1>2 DEF maintainInspect
    <2>3. daWorks' BY <1>2 DEF maintainInspect
    <2>4. daCleaned' BY <1>2 DEF maintainInspect
    <2>5. ConnsOfRun' BY <1>2 DEF maintainInspect
    <2>6. TableIsClaimed' BY <1>2 DEF maintainInspect
    <2> QED BY <2>1, <2>2, <2>3, <2>4, <2>5, <2>6
<1>3. CASE maintainLock(r)
    <2>1. daTyped'
        <3>1. daRun' \in 0..DaRuns /\ daCut' \subseteq 1..DaRuns /\ daFw' \in 0..DaRuns
            BY <1>3 DEF maintainLock, tryLock
        <3>2. daStarted' \in BOOLEAN /\ daReady' \in BOOLEAN /\ daHook' \in BOOLEAN /\ daRule' \in BOOLEAN
            BY <1>3 DEF maintainLock, tryLock
        <3>3. daSig' \in BOOLEAN /\ daDirty' \in BOOLEAN /\ daTorn' \in BOOLEAN /\ daTable' \in {"empty", "full", "blackhole"}
            BY <1>3 DEF maintainLock, tryLock
        <3>4. daConn' \in [DaConns -> [at : DaConnStates, run : 0..DaRuns]]
            BY <1>3 DEF maintainLock, tryLock
        <3>5. daMaint' \in [1..DaRuns -> {"off", "wait", "inspect", "lock", "repair"}]
            BY <1>3 DEF maintainLock, tryLock
        <3>6. daClean' \in DaCleanStates /\ daErr' \in BOOLEAN /\ daSkipped' \subseteq DaSkips
            BY <1>3 DEF maintainLock, tryLock
        <3> QED BY <3>1, <3>2, <3>3, <3>4, <3>5, <3>6
    <2>2. daHolds' BY <1>3 DEF maintainLock, tryLock
    <2>3. daWorks' BY <1>3 DEF maintainLock, tryLock
    <2>4. daCleaned' BY <1>3 DEF maintainLock, tryLock
    <2>5. ConnsOfRun' BY <1>3 DEF maintainLock, tryLock
    <2>6. TableIsClaimed' BY <1>3 DEF maintainLock, tryLock
    <2> QED BY <2>1, <2>2, <2>3, <2>4, <2>5, <2>6
<1>4. CASE maintainOnce(r)
    <2>1. daTyped'
        <3>1. daRun' \in 0..DaRuns /\ daCut' \subseteq 1..DaRuns /\ daFw' \in 0..DaRuns
            BY <1>4 DEF maintainOnce, daFaulty
        <3>2. daStarted' \in BOOLEAN /\ daReady' \in BOOLEAN /\ daHook' \in BOOLEAN /\ daRule' \in BOOLEAN
            BY <1>4 DEF maintainOnce, daFaulty
        <3>3. daSig' \in BOOLEAN /\ daDirty' \in BOOLEAN /\ daTorn' \in BOOLEAN /\ daTable' \in {"empty", "full", "blackhole"}
            BY <1>4 DEF maintainOnce, daFaulty
        <3>4. daConn' \in [DaConns -> [at : DaConnStates, run : 0..DaRuns]]
            BY <1>4 DEF maintainOnce, daFaulty
        <3>5. daMaint' \in [1..DaRuns -> {"off", "wait", "inspect", "lock", "repair"}]
            BY <1>4 DEF maintainOnce, daFaulty
        <3>6. daClean' \in DaCleanStates /\ daErr' \in BOOLEAN /\ daSkipped' \subseteq DaSkips
            BY <1>4 DEF maintainOnce, daFaulty
        <3> QED BY <3>1, <3>2, <3>3, <3>4, <3>5, <3>6
    <2>2. daHolds' BY <1>4 DEF maintainOnce, daFaulty
    <2>3. daWorks' BY <1>4 DEF maintainOnce, daFaulty
    <2>4. daCleaned' BY <1>4 DEF maintainOnce, daFaulty
    <2>5. ConnsOfRun' BY <1>4 DEF maintainOnce, daFaulty
    <2>6. TableIsClaimed' BY <1>4 DEF maintainOnce, daFaulty
    <2> QED BY <2>1, <2>2, <2>3, <2>4, <2>5, <2>6
<1>5. CASE maintainEnds(r)
    <2>1. daTyped'
        <3>1. daRun' \in 0..DaRuns /\ daCut' \subseteq 1..DaRuns /\ daFw' \in 0..DaRuns
            BY <1>5 DEF maintainEnds
        <3>2. daStarted' \in BOOLEAN /\ daReady' \in BOOLEAN /\ daHook' \in BOOLEAN /\ daRule' \in BOOLEAN
            BY <1>5 DEF maintainEnds
        <3>3. daSig' \in BOOLEAN /\ daDirty' \in BOOLEAN /\ daTorn' \in BOOLEAN /\ daTable' \in {"empty", "full", "blackhole"}
            BY <1>5 DEF maintainEnds
        <3>4. daConn' \in [DaConns -> [at : DaConnStates, run : 0..DaRuns]]
            BY <1>5 DEF maintainEnds
        <3>5. daMaint' \in [1..DaRuns -> {"off", "wait", "inspect", "lock", "repair"}]
            BY <1>5 DEF maintainEnds
        <3>6. daClean' \in DaCleanStates /\ daErr' \in BOOLEAN /\ daSkipped' \subseteq DaSkips
            BY <1>5 DEF maintainEnds
        <3> QED BY <3>1, <3>2, <3>3, <3>4, <3>5, <3>6
    <2>2. daHolds' BY <1>5 DEF maintainEnds
    <2>3. daWorks' BY <1>5 DEF maintainEnds
    <2>4. daCleaned' BY <1>5 DEF maintainEnds
    <2>5. ConnsOfRun' BY <1>5 DEF maintainEnds
    <2>6. TableIsClaimed' BY <1>5 DEF maintainEnds
    <2> QED BY <2>1, <2>2, <2>3, <2>4, <2>5, <2>6
<1> QED BY <1>1, <1>2, <1>3, <1>4, <1>5

\* Commands that fail, what the router does by itself, and a crash.
LEMMA daWorldStep ==
    ASSUME daIInv, ensureFails \/ daFirewallReset \/ daLinkGone \/ daCrash
    PROVE  daIInv'
<1> USE DaAssumption DEF daIInv, daTyped, daHolds, daWorks, daCleaned, ConnsOfRun, TableIsClaimed, DaConnStates,
        DaCleanStates, DaSkips, daLife, daOs, daCleanup,
        daLockFree, daFaulty, daFwGone, daRuleGone
<1>1. CASE ensureFails
    <2>1. daTyped'
        <3>1. daRun' \in 0..DaRuns /\ daCut' \subseteq 1..DaRuns /\ daFw' \in 0..DaRuns
            BY <1>1 DEF ensureFails, trusted, claims
        <3>2. daStarted' \in BOOLEAN /\ daReady' \in BOOLEAN /\ daHook' \in BOOLEAN /\ daRule' \in BOOLEAN
            BY <1>1 DEF ensureFails, trusted, claims
        <3>3. daSig' \in BOOLEAN /\ daDirty' \in BOOLEAN /\ daTorn' \in BOOLEAN /\ daTable' \in {"empty", "full", "blackhole"}
            BY <1>1 DEF ensureFails, trusted, claims
        <3>4. daConn' \in [DaConns -> [at : DaConnStates, run : 0..DaRuns]]
            BY <1>1 DEF ensureFails, trusted, claims
        <3>5. daMaint' \in [1..DaRuns -> {"off", "wait", "inspect", "lock", "repair"}]
            BY <1>1 DEF ensureFails, trusted, claims
        <3>6. daClean' \in DaCleanStates /\ daErr' \in BOOLEAN /\ daSkipped' \subseteq DaSkips
            BY <1>1 DEF ensureFails, trusted, claims
        <3> QED BY <3>1, <3>2, <3>3, <3>4, <3>5, <3>6
    <2>2. daHolds' BY <1>1 DEF ensureFails, trusted, claims
    <2>3. daWorks' BY <1>1 DEF ensureFails, trusted, claims
    <2>4. daCleaned' BY <1>1 DEF ensureFails, trusted, claims
    <2>5. ConnsOfRun' BY <1>1 DEF ensureFails, trusted, claims
    <2>6. TableIsClaimed' BY <1>1 DEF ensureFails, trusted, claims
    <2> QED BY <2>1, <2>2, <2>3, <2>4, <2>5, <2>6
<1>2. CASE daFirewallReset
    <2>1. daTyped'
        <3>1. daRun' \in 0..DaRuns /\ daCut' \subseteq 1..DaRuns /\ daFw' \in 0..DaRuns
            BY <1>2 DEF daFirewallReset
        <3>2. daStarted' \in BOOLEAN /\ daReady' \in BOOLEAN /\ daHook' \in BOOLEAN /\ daRule' \in BOOLEAN
            BY <1>2 DEF daFirewallReset
        <3>3. daSig' \in BOOLEAN /\ daDirty' \in BOOLEAN /\ daTorn' \in BOOLEAN /\ daTable' \in {"empty", "full", "blackhole"}
            BY <1>2 DEF daFirewallReset
        <3>4. daConn' \in [DaConns -> [at : DaConnStates, run : 0..DaRuns]]
            BY <1>2 DEF daFirewallReset
        <3>5. daMaint' \in [1..DaRuns -> {"off", "wait", "inspect", "lock", "repair"}]
            BY <1>2 DEF daFirewallReset
        <3>6. daClean' \in DaCleanStates /\ daErr' \in BOOLEAN /\ daSkipped' \subseteq DaSkips
            BY <1>2 DEF daFirewallReset
        <3> QED BY <3>1, <3>2, <3>3, <3>4, <3>5, <3>6
    <2>2. daHolds' BY <1>2 DEF daFirewallReset
    <2>3. daWorks' BY <1>2 DEF daFirewallReset
    <2>4. daCleaned' BY <1>2 DEF daFirewallReset
    <2>5. ConnsOfRun' BY <1>2 DEF daFirewallReset
    <2>6. TableIsClaimed' BY <1>2 DEF daFirewallReset
    <2> QED BY <2>1, <2>2, <2>3, <2>4, <2>5, <2>6
<1>3. CASE daLinkGone
    <2>1. daTyped'
        <3>1. daRun' \in 0..DaRuns /\ daCut' \subseteq 1..DaRuns /\ daFw' \in 0..DaRuns
            BY <1>3 DEF daLinkGone
        <3>2. daStarted' \in BOOLEAN /\ daReady' \in BOOLEAN /\ daHook' \in BOOLEAN /\ daRule' \in BOOLEAN
            BY <1>3 DEF daLinkGone
        <3>3. daSig' \in BOOLEAN /\ daDirty' \in BOOLEAN /\ daTorn' \in BOOLEAN /\ daTable' \in {"empty", "full", "blackhole"}
            BY <1>3 DEF daLinkGone
        <3>4. daConn' \in [DaConns -> [at : DaConnStates, run : 0..DaRuns]]
            BY <1>3 DEF daLinkGone
        <3>5. daMaint' \in [1..DaRuns -> {"off", "wait", "inspect", "lock", "repair"}]
            BY <1>3 DEF daLinkGone
        <3>6. daClean' \in DaCleanStates /\ daErr' \in BOOLEAN /\ daSkipped' \subseteq DaSkips
            BY <1>3 DEF daLinkGone
        <3> QED BY <3>1, <3>2, <3>3, <3>4, <3>5, <3>6
    <2>2. daHolds' BY <1>3 DEF daLinkGone
    <2>3. daWorks' BY <1>3 DEF daLinkGone
    <2>4. daCleaned' BY <1>3 DEF daLinkGone
    <2>5. ConnsOfRun' BY <1>3 DEF daLinkGone
    <2>6. TableIsClaimed' BY <1>3 DEF daLinkGone
    <2> QED BY <2>1, <2>2, <2>3, <2>4, <2>5, <2>6
<1>4. CASE daCrash
    <2>1. daTyped'
        <3>1. daRun' \in 0..DaRuns /\ daCut' \subseteq 1..DaRuns /\ daFw' \in 0..DaRuns
            BY <1>4 DEF daCrash
        <3>2. daStarted' \in BOOLEAN /\ daReady' \in BOOLEAN /\ daHook' \in BOOLEAN /\ daRule' \in BOOLEAN
            BY <1>4 DEF daCrash
        <3>3. daSig' \in BOOLEAN /\ daDirty' \in BOOLEAN /\ daTorn' \in BOOLEAN /\ daTable' \in {"empty", "full", "blackhole"}
            BY <1>4 DEF daCrash
        <3>4. daConn' \in [DaConns -> [at : DaConnStates, run : 0..DaRuns]]
            BY <1>4 DEF daCrash
        <3>5. daMaint' \in [1..DaRuns -> {"off", "wait", "inspect", "lock", "repair"}]
            BY <1>4 DEF daCrash
        <3>6. daClean' \in DaCleanStates /\ daErr' \in BOOLEAN /\ daSkipped' \subseteq DaSkips
            BY <1>4 DEF daCrash
        <3> QED BY <3>1, <3>2, <3>3, <3>4, <3>5, <3>6
    <2>2. daHolds' BY <1>4 DEF daCrash
    <2>3. daWorks' BY <1>4 DEF daCrash
    <2>4. daCleaned' BY <1>4 DEF daCrash
    <2>5. ConnsOfRun' BY <1>4 DEF daCrash
    <2>6. TableIsClaimed' BY <1>4 DEF daCrash
    <2> QED BY <2>1, <2>2, <2>3, <2>4, <2>5, <2>6
<1> QED BY <1>1, <1>2, <1>3, <1>4

LEMMA daInductive == daIInv /\ [daNext]_daVars => daIInv'
<1>1. CASE UNCHANGED daVars
    BY <1>1 DEF daIInv, daTyped, daHolds, daWorks, daCleaned, daFwGone, daRuleGone, ConnsOfRun, TableIsClaimed, daVars, daCleanup
<1>2. ASSUME daIInv, daNext PROVE daIInv'
    BY <1>2, daPrepareStep, daScriptStep, daCleanupStep, daCloseStep, daDialStep, daMaintStep, daWorldStep DEF daNext
<1> QED BY <1>1, <1>2

\* Only a dial leaves the idle place, and it leaves the route whole.
LEMMA daDials ==
    ASSUME daIInv, [daNext]_daVars, NEW c \in DaConns, daConn[c].at = "idle", daConn'[c].at = "dial"
    PROVE  routeIsWhole'
<1>1. PICK d \in DaConns : daDial(d)
    <2>1. daConn' # daConn BY DEF daIInv, daTyped
    <2>2. CASE \E d \in DaConns : dialFails(d) \/ dialConnects(d) \/ dialTracks(d) \/ routedClose(d)
        BY <2>2 DEF daIInv, daTyped, DaConnStates, dialFails, dialConnects, dialTracks, routedClose
    <2>3. CASE closeConns BY <2>3 DEF closeConns, daIInv, daTyped
    <2>4. CASE daCrash BY <2>4 DEF daCrash
    <2> QED
        BY <2>1, <2>2, <2>3, <2>4 DEF daNext, daVars, Prepare, prepareRemnants, prepareHook, prepareScript, prepareUndo,
            cleanupFirewall, cleanupRule, cleanupFlush,
            closeMark, closeJoin, closeCleanup, ensureFails, daFirewallReset, daLinkGone, maintainTick, maintainInspect,
            maintainLock, maintainOnce, maintainEnds
<1>2. daStarted /\ daIInv BY <1>1 DEF daDial
<1> QED BY <1>1, <1>2 DEF daDial, ensureRouteLocked, trusted, routeIsWhole, daIInv, daWorks

\* AdapterSafe for any connections, runs and failures.
THEOREM AdapterIsSafe == daSpec => AdapterSafe
<1>1. daIInv /\ [daNext]_daVars
        => [\A c \in DaConns : daConn[c].at = "idle" /\ daConn'[c].at = "dial" => routeIsWhole']_daVars
    BY daDials
<1>2. daIInv => StoppedIsCleaned /\ ConnsOfRun /\ JoinCanEnd /\ TableIsClaimed BY daImplies DEF daIInv
<1> QED BY <1>1, <1>2, daInitially, daInductive, PTL DEF daSpec, AdapterSafe, SocketHasRoute

-----------------------------------------------------------------------------
(* Side by side: a component that is not in scope stays where it is. *)

\* A step of the DNS server is a step of each of its components, or leaves it where it is.
LEMMA DnsSideBySide ==
    /\ Init => dsInit /\ dlInit /\ rfInit /\ drInit /\ daInit /\ sfInit
    /\ [Next]_<<scope, dsVars, dlVars, drVars, sfVars, fdVars, fmVars, daVars, rfVars>>
        => [dsNext]_dsVars /\ [dlNext]_dlVars /\ [rfNext]_rfVars
           /\ [drNext]_drVars /\ [daNext]_daVars /\ [sfNext]_sfVars
<1>1. Init => dsInit /\ dlInit /\ rfInit /\ drInit /\ daInit /\ sfInit BY DEF Init
<1>2. ASSUME Next
      PROVE  [dsNext]_dsVars /\ [dlNext]_dlVars /\ [rfNext]_rfVars
             /\ [drNext]_drVars /\ [daNext]_daVars /\ [sfNext]_sfVars
    BY <1>2 DEF Next
<1> QED BY <1>1, <1>2

\* The service, its flights, races, sockets and the fallback to the provider are safe side by side.
THEOREM DnsIsSafe == Spec => DnsServiceSafe /\ FlightsSafe /\ RaceSafe /\ AdapterSafe /\ FallbackSafe
<1>1. Spec => dsSpec /\ dlSpec /\ rfSpec /\ drSpec /\ daSpec /\ sfSpec
    BY DnsSideBySide, PTL DEF Spec, dsSpec, dlSpec, rfSpec, drSpec, daSpec, sfSpec
<1> QED BY <1>1, DnsServiceIsSafe, FlightsAreSafe, RaceIsSafe, AdapterIsSafe, FallbackIsSafe, PTL
=============================================================================
