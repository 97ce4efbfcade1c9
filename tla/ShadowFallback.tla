--------------------------- MODULE ShadowFallback ---------------------------
(***************************************************************************)
(* Shadow DNS asks the provider of the WAN first and falls back to the     *)
(* configured routes.  After an outage only one cache miss at a time tries *)
(* the provider again, not before the retry time; a generation keeps late  *)
(* results from undoing a newer decision.                                  *)
(***************************************************************************)
EXTENDS Naturals, FiniteSets, TLAPS

CONSTANTS
    SfQueries,  \* cache misses of shadow domains
    SfGens      \* bound on decisions
ASSUME SfAssumption == SfGens \in Nat

VARIABLES
    sfGen,      \* s.generation
    sfActive,   \* shadowStatus.FallbackActive
    sfDue,      \* the retry time has come
    sfProbing,  \* s.probing
    sfAt,       \* where each query is
    sfOf,       \* the generation its attempt began in
    sfOutages,  \* outages and renewals so far
    sfSince     \* outages at the begin of each attempt

sfVars == <<sfGen, sfActive, sfDue, sfProbing, sfAt, sfOf, sfOutages, sfSince>>

SfPlaces == {"out", "discover", "slot", "ask", "asked", "fallback"}
sfFlagsOK == sfActive \in BOOLEAN /\ sfDue \in BOOLEAN /\ sfProbing \in BOOLEAN
sfDataOK ==
    /\ sfGen \in Nat /\ sfOutages \in Nat
    /\ sfAt \in [SfQueries -> SfPlaces]
    /\ sfOf \in [SfQueries -> Nat] /\ sfSince \in [SfQueries -> Nat]
sfTypeOK == sfFlagsOK /\ sfDataOK

sfInit ==
    /\ sfGen = 0 /\ sfActive = FALSE /\ sfDue = FALSE /\ sfProbing = FALSE
    /\ sfAt = [q \in SfQueries |-> "out"] /\ sfOf = [q \in SfQueries |-> 0]
    /\ sfOutages = 0 /\ sfSince = [q \in SfQueries |-> 0]

sfState == <<sfGen, sfActive, sfDue, sfProbing, sfOutages>>
sfGo(q, at) == sfAt' = [sfAt EXCEPT ![q] = at]

-----------------------------------------------------------------------------

\* beginShadowAttempt: during a fallback only the one probe asks the provider.
triesProvider == ~sfActive \/ (sfDue /\ ~sfProbing)
beginShadowAttempt(q) ==
    /\ sfAt[q] = "out"
    /\ IF triesProvider
       THEN /\ sfGo(q, "discover") /\ sfProbing' = (sfProbing \/ sfActive)
            /\ sfOf' = [sfOf EXCEPT ![q] = sfGen]
            /\ sfSince' = [sfSince EXCEPT ![q] = sfOutages]
       ELSE sfGo(q, "fallback") /\ UNCHANGED <<sfProbing, sfOf, sfSince>>
    /\ UNCHANGED <<sfGen, sfActive, sfDue, sfOutages>>

\* queryShadow: the addresses of the provider, a slot, the exchange by UDP and,
\* when truncated, by TCP.  Any of them may fail or outlast the query.
queryShadow(q) ==
    /\ \/ sfAt[q] = "discover" /\ sfGo(q, "slot")
       \/ sfAt[q] = "slot" /\ sfGo(q, "ask")
    /\ UNCHANGED <<sfState, sfOf, sfSince>>
exchangeShadowDNS(q) ==
    /\ sfAt[q] \in {"discover", "slot", "ask"} /\ sfGo(q, "asked")
    /\ UNCHANGED <<sfState, sfOf, sfSince>>

\* finishShadowAttempt: the result of an older generation is dropped.
sfCurrent(q) == sfOf[q] = sfGen

ends(canceled) == FALSE
finishShadowAttempt(q, ok, canceled) ==
    /\ sfAt[q] = "asked"
    /\ sfGo(q, IF ok \/ canceled THEN "out" ELSE "fallback")
    /\ IF ~sfCurrent(q) THEN UNCHANGED sfState
       ELSE /\ sfProbing' = ends(canceled)
            /\ IF canceled THEN UNCHANGED <<sfGen, sfActive, sfDue, sfOutages>>
               ELSE IF ok
               THEN /\ sfGen' = (IF sfActive THEN sfGen + 1 ELSE sfGen)
                    /\ sfActive' = FALSE /\ sfDue' = FALSE /\ UNCHANGED sfOutages
               ELSE /\ sfGen < SfGens /\ sfGen' = sfGen + 1 /\ sfActive' = TRUE /\ sfDue' = FALSE
                    /\ sfOutages' = sfOutages + 1
    /\ UNCHANGED <<sfOf, sfSince>>

\* resolveShadow ends with the answer of the configured routes.
resolveShadow(q) ==
    /\ sfAt[q] = "fallback" /\ sfGo(q, "out") /\ UNCHANGED <<sfState, sfOf, sfSince>>
\* The 30 seconds are over.
retryDue ==
    /\ sfActive /\ ~sfDue /\ sfDue' = TRUE
    /\ UNCHANGED <<sfGen, sfActive, sfProbing, sfAt, sfOf, sfOutages, sfSince>>
renewsInPlace == sfProbing' = FALSE /\ UNCHANGED sfGen

\* RenewShadowDNS: new addresses deserve a query at once, and the probe under
\* way no longer counts.
renews == sfGen' = sfGen + 1 /\ sfProbing' = FALSE
RenewShadowDNS ==
    /\ sfActive /\ sfGen < SfGens /\ renews /\ sfDue' = TRUE /\ sfOutages' = sfOutages + 1
    /\ UNCHANGED <<sfActive, sfAt, sfOf, sfSince>>

sfNext ==
    \/ \E q \in SfQueries :
         \/ beginShadowAttempt(q) \/ queryShadow(q) \/ exchangeShadowDNS(q) \/ resolveShadow(q)
         \/ \E ok \in BOOLEAN, canceled \in BOOLEAN : finishShadowAttempt(q, ok, canceled)
    \/ retryDue \/ RenewShadowDNS
sfSpec == sfInit /\ [][sfNext]_sfVars

-----------------------------------------------------------------------------
\* Attempts whose result still counts.
sfAsking(q) == sfAt[q] \in {"discover", "slot", "ask", "asked"} /\ sfOf[q] = sfGen

\* The provider is always tried again: the mark of a probe under way belongs
\* to a query that will take it off, whatever is cancelled or renewed.
ProbeIsOwned == sfProbing => sfActive /\ \E q \in SfQueries : sfAsking(q)

\* During an outage one query at most waits for the provider's timeout.
OneProbe ==
    sfActive => \A p, q \in SfQueries : sfAsking(p) /\ sfAsking(q) => p = q /\ sfProbing

\* The end of an outage is proved by a query begun after it: an answer that
\* was under way when the provider failed, or when its addresses were renewed,
\* does not end it.
RecoveryIsProven ==
    [][sfActive /\ ~sfActive' =>
          \E q \in SfQueries : sfAt[q] = "asked" /\ sfAt'[q] # "asked" /\ sfSince[q] = sfOutages]_sfVars

\* The fallback probes the provider with one query at a time and believes only a fresh answer.
FallbackSafe == [](sfTypeOK /\ ProbeIsOwned /\ OneProbe) /\ RecoveryIsProven

-----------------------------------------------------------------------------
(* Proofs, for any number of queries and decisions. *)

\* No attempt is of a generation to come, so that a new generation makes every
\* attempt under way obsolete.
AttemptsArePast == \A q \in SfQueries : sfOf[q] <= sfGen

\* An attempt that counts during an outage began in that outage: a decision
\* that counts another one also begins another generation.
AttemptsAreFresh ==
    sfActive => \A q \in SfQueries : sfAsking(q) => sfSince[q] = sfOutages

\* The inductive invariant.
sfIInv == sfTypeOK /\ ProbeIsOwned /\ OneProbe /\ AttemptsArePast /\ AttemptsAreFresh

-----------------------------------------------------------------------------
\* Nobody asks before the first query.
LEMMA sfInitIInv == sfInit => sfIInv
<1> SUFFICES ASSUME sfInit PROVE sfIInv
  OBVIOUS
<1> USE DEF sfInit
<1>1. sfFlagsOK
  BY Zenon DEF sfFlagsOK
<1>2. sfDataOK /\ AttemptsArePast
  BY DEF sfDataOK, SfPlaces, AttemptsArePast
<1>3. ~sfActive /\ ~sfProbing
  OBVIOUS
<1> QED BY <1>1, <1>2, <1>3 DEF sfIInv, sfTypeOK, ProbeIsOwned, OneProbe, AttemptsAreFresh

\* In a new generation no attempt counts any more.
LEMMA NewGeneration ==
    ASSUME sfTypeOK, AttemptsArePast, sfGen' = sfGen + 1, sfOf' = sfOf
    PROVE  (\A q \in SfQueries : ~sfAsking(q)') /\ AttemptsArePast'
BY DEF sfTypeOK, sfDataOK, AttemptsArePast, sfAsking

\* beginShadowAttempt: during an outage only with no attempt that counts.
LEMMA BeginStep ==
    ASSUME sfIInv, NEW q \in SfQueries, beginShadowAttempt(q)
    PROVE  sfIInv'
<1> USE DEF sfIInv, beginShadowAttempt, sfGo
<1>1. sfTypeOK'
  <2>1. sfFlagsOK'
    BY Zenon DEF sfTypeOK, sfFlagsOK
  <2>2. sfDataOK'
    BY DEF sfTypeOK, sfDataOK, SfPlaces
  <2> QED BY <2>1, <2>2 DEF sfTypeOK
<1>2. AttemptsArePast'
  BY DEF sfTypeOK, sfDataOK, AttemptsArePast
<1>3. \A p \in SfQueries : p # q => (sfAsking(p)' <=> sfAsking(p)) /\ sfSince'[p] = sfSince[p]
  BY DEF sfTypeOK, sfDataOK, sfAsking
<1>4. CASE triesProvider
  <2>1. sfAsking(q)' /\ sfSince'[q] = sfOutages
    BY <1>4 DEF sfTypeOK, sfDataOK, sfAsking
  <2>2. sfActive => ~sfProbing /\ \A p \in SfQueries : ~sfAsking(p)
    BY <1>4 DEF triesProvider, OneProbe
  <2>3. ProbeIsOwned'
    BY <1>4, <2>1 DEF ProbeIsOwned, sfTypeOK
  <2>4. OneProbe'
    BY <1>3, <1>4, <2>2 DEF OneProbe
  <2>5. AttemptsAreFresh'
    BY <1>3, <2>1, <2>2 DEF AttemptsAreFresh
  <2> QED BY <1>1, <1>2, <2>3, <2>4, <2>5
<1>5. CASE ~triesProvider
  <2>1. \A p \in SfQueries : (sfAsking(p)' <=> sfAsking(p)) /\ sfSince'[p] = sfSince[p]
    BY <1>3, <1>5 DEF sfTypeOK, sfDataOK, sfAsking
  <2>2. ProbeIsOwned' /\ OneProbe' /\ AttemptsAreFresh'
    BY <1>5, <2>1 DEF ProbeIsOwned, OneProbe, AttemptsAreFresh
  <2> QED BY <1>1, <1>2, <2>2
<1> QED BY <1>4, <1>5

\* Steps of an attempt, and of the configured routes, that decide nothing.
LEMMA AskStep ==
    ASSUME sfIInv, NEW q \in SfQueries,
           queryShadow(q) \/ exchangeShadowDNS(q) \/ resolveShadow(q)
    PROVE  sfIInv'
<1> USE DEF sfIInv, queryShadow, exchangeShadowDNS, resolveShadow, sfGo, sfState
<1>1. sfTypeOK'
  <2>1. sfFlagsOK'
    BY Zenon DEF sfTypeOK, sfFlagsOK
  <2>2. sfDataOK'
    BY DEF sfTypeOK, sfDataOK, SfPlaces
  <2> QED BY <2>1, <2>2 DEF sfTypeOK
<1>2. \A p \in SfQueries : sfAsking(p)' <=> sfAsking(p)
  BY DEF sfTypeOK, sfDataOK, sfAsking
<1>3. ProbeIsOwned' /\ OneProbe' /\ AttemptsArePast' /\ AttemptsAreFresh'
  BY <1>2 DEF ProbeIsOwned, OneProbe, AttemptsArePast, AttemptsAreFresh
<1> QED BY <1>1, <1>3

\* finishShadowAttempt: the attempt that counts takes its mark off, and a
\* decision ends the generation.
LEMMA FinishStep ==
    ASSUME sfIInv, NEW q \in SfQueries, NEW ok \in BOOLEAN, NEW canceled \in BOOLEAN,
           finishShadowAttempt(q, ok, canceled)
    PROVE  sfIInv'
<1> USE DEF sfIInv, finishShadowAttempt, sfGo, sfState, sfCurrent, ends
<1>1. sfTypeOK'
  <2>1. sfFlagsOK'
    BY Zenon DEF sfTypeOK, sfFlagsOK
  <2>2. sfDataOK'
    BY DEF sfTypeOK, sfDataOK, SfPlaces
  <2> QED BY <2>1, <2>2 DEF sfTypeOK
<1>2. CASE ~sfCurrent(q)
  <2>1. \A p \in SfQueries : sfAsking(p)' <=> sfAsking(p)
    BY <1>2 DEF sfTypeOK, sfDataOK, sfAsking
  <2>2. ProbeIsOwned' /\ OneProbe' /\ AttemptsArePast' /\ AttemptsAreFresh'
    BY <1>2, <2>1 DEF ProbeIsOwned, OneProbe, AttemptsArePast, AttemptsAreFresh
  <2> QED BY <1>1, <2>2
<1>3. CASE sfCurrent(q) /\ sfGen' = sfGen
  <2>1. ~sfProbing' /\ (sfActive' => sfActive) /\ sfOutages' = sfOutages
    BY <1>3 DEF sfTypeOK, sfDataOK
  <2>2. sfAsking(q) /\ ~sfAsking(q)'
    BY <1>3 DEF sfTypeOK, sfDataOK, sfAsking
  <2>3. \A p \in SfQueries : p # q => (sfAsking(p)' <=> sfAsking(p))
    BY <1>3 DEF sfTypeOK, sfDataOK, sfAsking
  <2>4. sfActive' => \A p \in SfQueries : ~sfAsking(p)'
    BY <2>1, <2>2, <2>3 DEF OneProbe
  <2>5. ProbeIsOwned' /\ OneProbe' /\ AttemptsAreFresh'
    BY <2>1, <2>4 DEF ProbeIsOwned, OneProbe, AttemptsAreFresh
  <2>6. AttemptsArePast'
    BY <1>3 DEF AttemptsArePast
  <2> QED BY <1>1, <2>5, <2>6
<1>4. CASE sfCurrent(q) /\ sfGen' # sfGen
  <2>1. ~sfProbing' /\ sfGen' = sfGen + 1 /\ sfOf' = sfOf
    BY <1>4
  <2>2. (\A p \in SfQueries : ~sfAsking(p)') /\ AttemptsArePast'
    BY <2>1, NewGeneration
  <2>3. ProbeIsOwned' /\ OneProbe' /\ AttemptsAreFresh'
    BY <2>1, <2>2 DEF ProbeIsOwned, OneProbe, AttemptsAreFresh
  <2> QED BY <1>1, <2>2, <2>3
<1> QED BY <1>2, <1>3, <1>4

\* RenewShadowDNS: the probe under way no longer counts, and its mark is off.
LEMMA RenewStep ==
    ASSUME sfIInv, RenewShadowDNS
    PROVE  sfIInv'
<1> USE DEF sfIInv, RenewShadowDNS, renews
<1>1. sfTypeOK'
  <2>1. sfFlagsOK'
    BY Zenon DEF sfTypeOK, sfFlagsOK
  <2>2. sfDataOK'
    BY DEF sfTypeOK, sfDataOK, SfPlaces
  <2> QED BY <2>1, <2>2 DEF sfTypeOK
<1>2. (\A q \in SfQueries : ~sfAsking(q)') /\ AttemptsArePast'
  BY NewGeneration
<1>3. ProbeIsOwned' /\ OneProbe' /\ AttemptsAreFresh'
  BY <1>2 DEF ProbeIsOwned, OneProbe, AttemptsAreFresh
<1> QED BY <1>1, <1>2, <1>3

\* The retry time, and a step that changes nothing.
LEMMA QuietStep ==
    ASSUME sfIInv, retryDue \/ UNCHANGED sfVars
    PROVE  sfIInv'
<1> USE DEF sfIInv, retryDue, sfVars
<1>1. sfTypeOK'
  <2>1. sfFlagsOK'
    BY Zenon DEF sfTypeOK, sfFlagsOK
  <2>2. sfDataOK'
    BY DEF sfTypeOK, sfDataOK, SfPlaces
  <2> QED BY <2>1, <2>2 DEF sfTypeOK
<1>2. \A q \in SfQueries : sfAsking(q)' <=> sfAsking(q)
  BY DEF sfAsking
<1>3. ProbeIsOwned' /\ OneProbe' /\ AttemptsArePast' /\ AttemptsAreFresh'
  BY <1>2 DEF ProbeIsOwned, OneProbe, AttemptsArePast, AttemptsAreFresh
<1> QED BY <1>1, <1>3

\* Every step keeps the invariant.
LEMMA sfStep == sfIInv /\ [sfNext]_sfVars => sfIInv'
BY BeginStep, AskStep, FinishStep, RenewStep, QuietStep DEF sfNext

\* The invariant holds in every reachable state.
THEOREM sfInvariance == sfSpec => []sfIInv
BY sfInitIInv, sfStep, PTL DEF sfSpec

-----------------------------------------------------------------------------
\* RecoveryIsProven as a fact about one step.
RecoveredByFresh ==
    sfActive /\ ~sfActive' =>
        \E q \in SfQueries : sfAt[q] = "asked" /\ sfAt'[q] # "asked" /\ sfSince[q] = sfOutages

\* Only an attempt that counts ends an outage, and those are fresh.
LEMMA RecoveryStep == sfIInv /\ [sfNext]_sfVars => RecoveredByFresh
<1> SUFFICES ASSUME sfIInv, [sfNext]_sfVars, sfActive, ~sfActive'
             PROVE  \E q \in SfQueries : sfAt[q] = "asked" /\ sfAt'[q] # "asked" /\ sfSince[q] = sfOutages
  BY DEF RecoveredByFresh
<1>1. PICK q \in SfQueries : \E ok \in BOOLEAN, canceled \in BOOLEAN : finishShadowAttempt(q, ok, canceled)
  BY DEF sfNext, sfVars, sfState, beginShadowAttempt, queryShadow, exchangeShadowDNS, resolveShadow, retryDue,
         RenewShadowDNS
<1>2. sfAt[q] = "asked" /\ sfAt'[q] # "asked" /\ sfCurrent(q)
  BY <1>1 DEF finishShadowAttempt, sfGo, sfState, sfIInv, sfTypeOK, sfDataOK
<1>3. sfSince[q] = sfOutages
  BY <1>2 DEF sfIInv, AttemptsAreFresh, sfAsking, sfCurrent
<1> QED BY <1>2, <1>3

\* For any number of queries: the mark of a probe always has a query that takes
\* it off, an outage costs one query at a time the timeout of the provider, and
\* it ends only with the answer to a query begun in it.
THEOREM FallbackIsSafe == sfSpec => FallbackSafe
<1>1. sfIInv /\ [sfNext]_sfVars => [RecoveredByFresh]_sfVars
  BY RecoveryStep
<1> QED BY <1>1, sfInvariance, PTL DEF sfSpec, sfIInv, FallbackSafe, RecoveryIsProven, RecoveredByFresh
=============================================================================
