-------------------------------- MODULE MCPanel --------------------------------
(*****************************************************************************)
(* The panel and what it writes to the router, checked side by side: a behaviour *)
(* belongs to one of them (scope) and leaves the others where they start.    *)
(*****************************************************************************)
EXTENDS StrategyFiles, BypassRules, PanelPort, SelfUpdate, PortForward,
        MacSpoof, ArpIsolation, DnsBinding

VARIABLE scope

\* Nothing configured, and a plain upstream beside a conditional one.
SomeOriginals ==
    LET Value(server, dns) == [k \in Managed |-> IF k = "dhcp.server" THEN server ELSE dns] IN
    {Value(<<>>, <<>>), Value(<<"upstream", "conditional">>, <<"upstream">>)}

Init ==
    /\ sxInit /\ byInit /\ ppInit /\ suInit /\ pfInit /\ msInit /\ aiInit /\ dbInit
    /\ scope \in {"files", "bypass", "port", "update", "forward", "mac", "isolation", "binding"}
    /\ scope # "binding" => original = CHOOSE v \in Originals : TRUE

Next ==
    \/ scope = "files" /\ sxNext
       /\ UNCHANGED <<scope, byVars, ppVars, suVars, pfVars, msVars, aiVars, dbVars>>
    \/ scope = "bypass" /\ byNext
       /\ UNCHANGED <<scope, sxVars, ppVars, suVars, pfVars, msVars, aiVars, dbVars>>
    \/ scope = "port" /\ ppNext
       /\ UNCHANGED <<scope, sxVars, byVars, suVars, pfVars, msVars, aiVars, dbVars>>
    \/ scope = "update" /\ suNext
       /\ UNCHANGED <<scope, sxVars, byVars, ppVars, pfVars, msVars, aiVars, dbVars>>
    \/ scope = "forward" /\ pfNext
       /\ UNCHANGED <<scope, sxVars, byVars, ppVars, suVars, msVars, aiVars, dbVars>>
    \/ scope = "mac" /\ msNext
       /\ UNCHANGED <<scope, sxVars, byVars, ppVars, suVars, pfVars, aiVars, dbVars>>
    \/ scope = "isolation" /\ aiNext
       /\ UNCHANGED <<scope, sxVars, byVars, ppVars, suVars, pfVars, msVars, dbVars>>
    \/ scope = "binding" /\ dbNext
       /\ UNCHANGED <<scope, sxVars, byVars, ppVars, suVars, pfVars, msVars, aiVars>>

Spec == Init /\ [][Next]_<<scope, sxVars, byVars, ppVars, suVars, pfVars, msVars, aiVars, dbVars>>

\* The panel stays reachable, its executable whole, and the open ports those of the rules.
PanelSafe == PortSafe /\ UpdateSafe /\ PortsFollowRules
=============================================================================
