---------------------------- MODULE MC_Mockingjay ----------------------------
(***************************************************************************)
(* A 2-way set, two pcs that collide in the eviction table ((pc/64)%64 = 1 *)
(* for both) and a tick of 1000 simulator ticks.  The feature tables are  *)
(* the code's formulas scaled by 10^6 and rounded:                        *)
(*   age n     : min(1, log(1 + 1000 n) / log(1 + 1e9))                   *)
(*   count c   : log(1 + c) / log(1001)                                   *)
(*   distance d: log(1 + d) / log(10001)                                  *)
(***************************************************************************)
EXTENDS Mockingjay

MC_Ways == {0, 1}

MC_PCs == {64, 4160}
MC_NoPC == -1
MC_AgeFeat == [n \in 0 .. 2 |-> <<0, 333382, 366805>>[n + 1]]
MC_CountFeat == [c \in 0 .. MaxOps |->
                  <<0, 100329, 159017, 200658, 232956, 259346, 281659, 300986>>[c + 1]]
MC_ReuseFeat == [d \in 0 .. MaxOps |->
                  <<0, 75257, 119279, 150513, 174741, 194536, 211272, 225770>>[d + 1]]

(* Evaluation mode keeps the constructor's weights. *)
MC_Fixed == {DefaultWeights}

(* A trained model: what matters is that a step may change the ranking. *)
MC_Trained == {DefaultWeights, [pc |-> -40, age |-> 10, cnt |-> 30, reuse |-> -20, bias |-> 0]}
====
