------------------------- MODULE MC_GHBPrefetcher ---------------------------
(* Model-checking instance of GHBPrefetcher: a 4-bit address space of two *)
(* 8-byte pages and 2-byte blocks, four history slots (three deltas can   *)
(* be chained, so the table learns), one pc besides "no pc".             *)
EXTENDS GHBPrefetcher

MC_PfiAddrs == {1, 4, 13}
MC_PCs == {1}
MC_NoPC == -1
====
