--------------------------------- MODULE MCAwg ---------------------------------
(*****************************************************************************)
(* The components of the AWG2 routing, checked side by side: a behaviour     *)
(* belongs to one of them (scope) and leaves the others where they start.    *)
(*****************************************************************************)
EXTENDS RoutingLifecycle, ClientFailover, MultiPolicySets, ClientEngine,
        RuleOwnership, RoutingDiscoveries

VARIABLE scope

\* Two names and two addresses of one rule, and a second rule.
SomeSights == {<<1, 1, 1>>, <<1, 1, 2>>, <<1, 2, 1>>, <<2, 1, 1>>}

Init ==
    /\ rlInit /\ cfInit /\ mpInit /\ ceInit /\ roInit /\ rdInit
    /\ scope \in {"routing", "failover", "policy", "engine", "rules", "discoveries"}

Next ==
    \/ scope = "routing" /\ rlNext
       /\ UNCHANGED <<scope, cfVars, mpVars, ceVars, roVars, rdVars>>
    \/ scope = "failover" /\ cfNext
       /\ UNCHANGED <<scope, rlVars, mpVars, ceVars, roVars, rdVars>>
    \/ scope = "policy" /\ mpNext
       /\ UNCHANGED <<scope, rlVars, cfVars, ceVars, roVars, rdVars>>
    \/ scope = "engine" /\ ceNext
       /\ UNCHANGED <<scope, rlVars, cfVars, mpVars, roVars, rdVars>>
    \/ scope = "rules" /\ roNext
       /\ UNCHANGED <<scope, rlVars, cfVars, mpVars, ceVars, rdVars>>
    \/ scope = "discoveries" /\ rdNext
       /\ UNCHANGED <<scope, rlVars, cfVars, mpVars, ceVars, roVars>>

Spec == Init /\ [][Next]_<<scope, rlVars, cfVars, mpVars, ceVars, roVars, rdVars>>

\* What the sets hold was learned for them, and what the panel tells of it is
\* true: the multi policy's sets and tables, and the history of names.
LearningSafe == PolicySafe /\ []DiscoveriesSafe
=============================================================================
