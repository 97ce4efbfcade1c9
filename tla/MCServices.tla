------------------------------ MODULE MCServices ------------------------------
(*****************************************************************************)
(* The Telegram proxy and the other services of the panel, checked side by side: a behaviour *)
(* belongs to one of them (scope) and leaves the others where they start.    *)
(*****************************************************************************)
EXTENDS WsPool, TgProxy, H2Channel, H2Lanes, SocksLifecycle, ProviderLeases,
        DhcpTracker, ProviderInform, ProviderRenew

VARIABLE scope

Init ==
    /\ wpInit /\ tpInit /\ hcInit /\ hlInit /\ skInit /\ plInit /\ dtInit /\ piInit /\ pnInit
    /\ scope \in {"pool", "proxy", "channel", "lanes", "socks", "leases",
                  "tracker", "inform", "renew"}

Next ==
    \/ scope = "pool" /\ wpNext
       /\ UNCHANGED <<scope, tpVars, hcVars, hlVars, skVars, plVars, dtVars, piVars, pnVars>>
    \/ scope = "proxy" /\ tpNext
       /\ UNCHANGED <<scope, wpVars, hcVars, hlVars, skVars, plVars, dtVars, piVars, pnVars>>
    \/ scope = "channel" /\ hcNext
       /\ UNCHANGED <<scope, wpVars, tpVars, hlVars, skVars, plVars, dtVars, piVars, pnVars>>
    \/ scope = "lanes" /\ hlNext
       /\ UNCHANGED <<scope, wpVars, tpVars, hcVars, skVars, plVars, dtVars, piVars, pnVars>>
    \/ scope = "socks" /\ skNext
       /\ UNCHANGED <<scope, wpVars, tpVars, hcVars, hlVars, plVars, dtVars, piVars, pnVars>>
    \/ scope = "leases" /\ plNext
       /\ UNCHANGED <<scope, wpVars, tpVars, hcVars, hlVars, skVars, dtVars, piVars, pnVars>>
    \/ scope = "tracker" /\ dtNext
       /\ UNCHANGED <<scope, wpVars, tpVars, hcVars, hlVars, skVars, plVars, piVars, pnVars>>
    \/ scope = "inform" /\ piNext
       /\ UNCHANGED <<scope, wpVars, tpVars, hcVars, hlVars, skVars, plVars, dtVars, pnVars>>
    \/ scope = "renew" /\ pnNext
       /\ UNCHANGED <<scope, wpVars, tpVars, hcVars, hlVars, skVars, plVars, dtVars, piVars>>

Spec == Init /\ [][Next]_<<scope, wpVars, tpVars, hcVars, hlVars, skVars, plVars, dtVars, piVars, pnVars>>

\* What is known of the DNS servers of the provider is current, within its lease, and asked for with restraint,
\* through late packets, restarts, a clock set back and cancelled passes.
ProviderSafe == []LeasesSafe /\ TrackerSafe /\ InformSafe /\ RenewSafe
=============================================================================
