--------------------------------- MODULE MCDns ---------------------------------
(*****************************************************************************)
(* The DNS server and its routes, checked side by side: a behaviour          *)
(* belongs to one of them (scope) and leaves the others where they start.    *)
(*****************************************************************************)
EXTENDS DnsServer, DnsRace, ShadowFallback, FastDns, DnsFilters,
        DnsAdapter, ResolverFlights

VARIABLE scope

Init ==
    /\ dsInit /\ dlInit /\ drInit /\ sfInit /\ fdInit /\ fmInit /\ daInit /\ rfInit
    /\ scope \in {"server", "listeners", "race", "shadow", "fast",
                  "filters", "adapter", "flights"}

Next ==
    \/ scope = "server" /\ dsNext
       /\ UNCHANGED <<scope, dlVars, drVars, sfVars, fdVars, fmVars, daVars, rfVars>>
    \/ scope = "listeners" /\ dlNext
       /\ UNCHANGED <<scope, dsVars, drVars, sfVars, fdVars, fmVars, daVars, rfVars>>
    \/ scope = "race" /\ drNext
       /\ UNCHANGED <<scope, dsVars, dlVars, sfVars, fdVars, fmVars, daVars, rfVars>>
    \/ scope = "shadow" /\ sfNext
       /\ UNCHANGED <<scope, dsVars, dlVars, drVars, fdVars, fmVars, daVars, rfVars>>
    \/ scope = "fast" /\ fdNext
       /\ UNCHANGED <<scope, dsVars, dlVars, drVars, sfVars, fmVars, daVars, rfVars>>
    \/ scope = "filters" /\ fmNext
       /\ UNCHANGED <<scope, dsVars, dlVars, drVars, sfVars, fdVars, daVars, rfVars>>
    \/ scope = "adapter" /\ daNext
       /\ UNCHANGED <<scope, dsVars, dlVars, drVars, sfVars, fdVars, fmVars, rfVars>>
    \/ scope = "flights" /\ rfNext
       /\ UNCHANGED <<scope, dsVars, dlVars, drVars, sfVars, fdVars, fmVars, daVars>>

Spec == Init /\ [][Next]_<<scope, dsVars, dlVars, drVars, sfVars, fdVars, fmVars, daVars, rfVars>>

\* Fast answers and filters: no request waits for work nobody does, and what blocks is what is selected.
LocalAnswersSafe == FastSafe /\ FiltersSafe
=============================================================================
