------------------------- MODULE MC_MockingjayConfig -------------------------
(***************************************************************************)
(* Files with up to two feature objects named after the code's features, *)
(* values 0.25, -0.30 and 0 (scaled by 100), a learning_rate parameter of *)
(* 0.01 and both settings of enable_online_learning.                      *)
(***************************************************************************)
EXTENDS MockingjayConfig

MC_FeatureNames == {"pc_hash", "age", "access_count", "reuse_distance"}
MC_Numbers == {25, -30, 0}
MC_ParamRates == {1}
====
