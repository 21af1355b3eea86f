----------------------------- MODULE MCCacheStore -----------------------------
(* Two guests, the archive of the second twice the size of the first's; only  *)
(* the first declares its size, and the second's clock is behind.             *)
EXTENDS CacheStore

CONSTANTS k1, k2, g1, g2

TheSaves == (g1 :> {k1}) @@ (g2 :> Keys)
TheBlockIDs == [g \in Guests |-> [i \in 1..Pieces |-> <<g, i>>]]
TheBytes == (g1 :> 1) @@ (g2 :> 2)
TheSizes == (g1 :> 2) @@ (g2 :> 0)
AllBlockIDs == Guests \X (1..Pieces)
TheClocks == {<<g2, g1>>}
TheRestoreKeys == <<{k1}, Keys>>
=============================================================================
