---------------------------- MODULE MCHashChain ----------------------------
(* Two concurrent appends for two tenants, three values of the sequence and  *)
(* one row tampered with; a verification reads two rows, so it can miss one. *)
EXTENDS HashChain, TLC

CONSTANTS w1, w2, t1, t2, c1, c2
MCWriters  == {w1, w2}
MCTenants  == {t1, t2}
MCContents == {c1, c2}
MCSymmetry == Permutations(MCWriters) \cup Permutations(MCTenants)
                  \cup Permutations(MCContents)
=============================================================================
