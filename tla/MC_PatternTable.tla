-------------------------- MODULE MC_PatternTable ---------------------------
(* Model-checking instance of PatternTable: lists over two deltas, of      *)
(* lengths 2 (too short to learn), 3 and 4, trained up to four times.     *)
EXTENDS PatternTable

MC_Deltas == {0, 1}
MC_ChronLens == {2, 3, 4}
====
