---------------------------- MODULE MCTenantServices ----------------------------
EXTENDS TenantServices, TLC

CONSTANTS k1, k2, k3, g1, g2, a1

MCType     == (k1 :> "slack") @@ (k2 :> "slack") @@ (k3 :> "pagerduty")
MCValues   == {-1, 1}
MCDaysIn   == (0 :> 1) @@ (1 :> 2) @@ (2 :> 1)
MCAmounts  == {-1, 1, 2, NaN}
MCTotals   == {1, NaN}
MCLimits   == {[tx |-> 2, daily |-> 2], [tx |-> NaN, daily |-> NaN]}
MCDefault  == [tx |-> 1, daily |-> 1]
MCEntries  == {[range |-> 3, bits |-> 1], [range |-> 1, bits |-> 2], [range |-> 2, bits |-> 0]}
MCSymmetry == Permutations(Checkouts) \cup Permutations(Savers)
MCIdOf     == (g1 :> a1) @@ (g2 :> a1)
=============================================================================
