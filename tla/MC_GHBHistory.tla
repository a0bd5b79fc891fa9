--------------------------- MODULE MC_GHBHistory ----------------------------
(* Model-checking instance of GHBHistory: three slots, so that the buffer  *)
(* wraps twice within the bound, two pages and one pc besides "no pc".    *)
EXTENDS GHBHistory

MC_Addrs == {0, 4, 8, 12}
MC_PCs == {1, 2}
MC_NoPC == -1
====
