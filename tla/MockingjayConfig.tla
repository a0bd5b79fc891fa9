--------------------------- MODULE MockingjayConfig ---------------------------
(***************************************************************************)
(* The Mockingjay constructor and loadWeights (mockingjay.cc 44-204): the *)
(* member initialisers, then, when weights_file is set, one pass over the *)
(* JSON text inside a try block that assigns the five weights, the        *)
(* learning rate and the online-learning flag in that order.              *)
(*                                                                         *)
(* The text is abstracted to what the string searches tell apart: a      *)
(* "features" list of objects, each with a "name" and maybe a "weight"    *)
(* (written name first), and the top-level keys bias, learning_rate and   *)
(* enable_online_learning.  A value is a number (scaled by 100 like the  *)
(* model's weights), Missing (the key, its ':' or its ',' / '}' is not    *)
(* found) or Bad (text std::stod rejects: it throws).                     *)
(***************************************************************************)
EXTENDS Integers, Sequences

CONSTANTS
  FeatureNames,   \* "name" values a features list may hold
  Numbers,        \* numeric literals of the file, scaled by 100
  Missing,        \* a key (or its delimiters) the search does not find
  Bad,            \* a value std::stod throws on
  MaxFeatures,    \* model bound on the length of the features list
  ParamRates      \* values of the learning_rate parameter, scaled by 100

(* The constructor's initialisers: 0.25, 0.35, -0.30, 0.40 and bias 0. *)
DefaultWeights == [pc |-> 25, age |-> 35, cnt |-> -30, reuse |-> 40, bias |-> 0]

Value == Numbers \cup {Missing, Bad}

Feature == [name : FeatureNames, weight : Value]

(* weights_file empty, a path that cannot be opened, or a readable file. *)
Paths == {"unset", "unreadable", "readable"}

File == [path : Paths, features : UNION {[1 .. n -> Feature] : n \in 0 .. MaxFeatures},
         bias : Value, learning_rate : Value, enable_online_learning : {Missing, "true", "false"}]

Params == [learning_rate : ParamRates, enable_online_learning : BOOLEAN]

ASSUME ConfigAssumption ==
  /\ Numbers \subseteq Int /\ ParamRates \subseteq Int
  /\ Missing \notin Int /\ Bad \notin Int /\ Missing # Bad
  /\ MaxFeatures \in Nat

VARIABLES
  file,                  \* the weights file and its content (input)
  params,                \* the MockingjayRP parameters (input)
  phase,                 \* "members" after the initialisers, then "built"
  weights, learningRate, enableOnlineLearning,
  warning                \* the last warn(): "none", "open" or "parse"

vars == <<file, params, phase, weights, learningRate, enableOnlineLearning, warning>>

(***************************************************************************)
(* parseJsonNumber (with trim): 0.0 when the key, its ':' or its end is   *)
(* not found, otherwise std::stod of the text; Bad is the exception.      *)
(***************************************************************************)
JsonNumber(text) == IF text = Missing THEN 0 ELSE text

(* parseJsonBool: true only for the literal text true. *)
JsonBool(text) == text = "true"

(* The first of a set of positions (std::string::find returns the first  *)
(* match), 0 when there is none (npos).                                   *)
FirstIndex(I) == IF I = {} THEN 0 ELSE CHOOSE i \in I : \A j \in I : i <= j

(***************************************************************************)
(* extractWeight: scan the "name" keys in order; at the first one equal   *)
(* to n, search "weight" from there on, across later objects, and stod    *)
(* what it finds; 0.0 if no name matches or no "weight" follows.          *)
(***************************************************************************)
WeightIndex(feats, n) ==
  LET i == FirstIndex({j \in 1 .. Len(feats) : feats[j].name = n})
  IN  IF i = 0 THEN 0
      ELSE FirstIndex({j \in i .. Len(feats) : feats[j].weight # Missing})

ExtractWeight(feats, n) ==
  IF WeightIndex(feats, n) = 0 THEN 0 ELSE feats[WeightIndex(feats, n)].weight

(* The feature names loadWeights asks for, and the fields they set. *)
FeatureKeys == <<"pc_hash", "age", "access_count", "reuse_distance">>

(* The model's weight fields, in the order the try block assigns them. *)
WeightOrder == <<"pc", "age", "cnt", "reuse", "bias">>

(* What each assignment of the try block parses, in order; Bad throws. *)
Parsed(f) ==
  [i \in 1 .. 4 |-> ExtractWeight(f.features, FeatureKeys[i])]
    \o <<JsonNumber(f.bias), JsonNumber(f.learning_rate)>>

(***************************************************************************)
(* The try block run over the parse results p, assigned to the weight    *)
(* fields in order: the assignments before the first throw take effect,  *)
(* the catch only warns.  The file's rate (p[6]) is taken only if         *)
(* positive; the flag is always overwritten by parseJsonBool.             *)
(***************************************************************************)
TryBlock(f, w, lr, on, order, p) ==
  LET t == FirstIndex({i \in 1 .. Len(p) : p[i] = Bad})
      pos == [k \in DOMAIN w |-> CHOOSE i \in 1 .. 5 : order[i] = k]
  IN  [weights |-> [k \in DOMAIN w |-> IF t = 0 \/ pos[k] < t THEN p[pos[k]] ELSE w[k]],
       learningRate |-> IF t = 0 /\ p[6] > 0 THEN p[6] ELSE lr,
       enableOnlineLearning |-> IF t = 0 THEN JsonBool(f.enable_online_learning) ELSE on,
       warning |-> IF t = 0 THEN "none" ELSE "parse"]

(* Mutant: bias is parsed and assigned before the feature weights. *)
LoadWeightsBiasFirst(f, w, lr, on) ==
  TryBlock(f, w, lr, on, <<"bias", "pc", "age", "cnt", "reuse">>,
           <<Parsed(f)[5]>> \o SubSeq(Parsed(f), 1, 4) \o <<Parsed(f)[6]>>)

(* loadWeights on the text of f, from weights w, rate lr and flag on. *)
LoadWeights(f, w, lr, on) == TryBlock(f, w, lr, on, WeightOrder, Parsed(f))

(* The member initialisers have run; the body has not. *)
Init ==
  /\ file \in File
  /\ params \in Params
  /\ phase = "members"
  /\ weights = DefaultWeights
  /\ learningRate = params.learning_rate
  /\ enableOnlineLearning = params.enable_online_learning
  /\ warning = "none"

(***************************************************************************)
(* The constructor body: loadWeights when weights_file is set; a file    *)
(* that cannot be opened only warns.                                      *)
(***************************************************************************)
Construct ==
  /\ phase = "members"
  /\ phase' = "built"
  /\ \/ /\ file.path = "unset"
        /\ UNCHANGED <<weights, learningRate, enableOnlineLearning, warning>>
     \/ /\ file.path = "unreadable"
        /\ warning' = "open"
        /\ UNCHANGED <<weights, learningRate, enableOnlineLearning>>
     \/ /\ file.path = "readable"
        /\ LET r == LoadWeights(file, weights, learningRate, enableOnlineLearning)
           IN  /\ weights' = r.weights
               /\ learningRate' = r.learningRate
               /\ enableOnlineLearning' = r.enableOnlineLearning
               /\ warning' = r.warning
  /\ UNCHANGED <<file, params>>

Next == Construct

Spec == Init /\ [][Next]_vars

-----------------------------------------------------------------------------
(* The constructed members have their C++ types (weights are numbers);    *)
(* a conjunct of the inductive invariant of MockingjayConfigProofs.        *)
TypeOK ==
  /\ file \in File /\ params \in Params
  /\ phase \in {"members", "built"}
  /\ weights \in [{"pc", "age", "cnt", "reuse", "bias"} -> Int]
  /\ learningRate \in Int
  /\ enableOnlineLearning \in BOOLEAN
  /\ warning \in {"none", "open", "parse"}

(***************************************************************************)
(* A parse error part-way through loadWeights' try block leaves a prefix: *)
(* once built from a readable file, the weights are the file's values for *)
(* the first k fields in the order the code assigns them and the          *)
(* initialisers' for the rest, the field after the prefix is the one that *)
(* threw, no warning means all five fields and the rate parsed, and only *)
(* then do learning_rate (when positive) and enable_online_learning come  *)
(* from the file.                                                         *)
(***************************************************************************)
LoadIsPrefix ==
  phase = "built" /\ file.path = "readable" =>
    LET p == Parsed(file) IN
    \E k \in 0 .. 5 :
      /\ \A i \in 1 .. 5 : weights[WeightOrder[i]] =
                             IF i <= k THEN p[i] ELSE DefaultWeights[WeightOrder[i]]
      /\ \A i \in 1 .. k : p[i] # Bad
      /\ k < 5 => p[k + 1] = Bad
      /\ (warning = "none") = (k = 5 /\ p[6] # Bad)
      /\ warning = "none" =>
           /\ learningRate = IF p[6] > 0 THEN p[6] ELSE params.learning_rate
           /\ enableOnlineLearning = (file.enable_online_learning = "true")
      /\ warning # "none" =>
           /\ learningRate = params.learning_rate
           /\ enableOnlineLearning = params.enable_online_learning

(***************************************************************************)
(* The catch block warns "Error parsing weights file ..., using defaults": *)
(* after a parse error the policy runs with the constructor's weights.    *)
(***************************************************************************)
ParseErrorKeepsDefaults ==
  phase = "built" /\ warning = "parse" => weights = DefaultWeights

(***************************************************************************)
(* "Override learning parameters if specified in file": a file without    *)
(* an enable_online_learning key keeps the enable_online_learning        *)
(* parameter.                                                             *)
(***************************************************************************)
OnlineFlagKeptUnlessGiven ==
  phase = "built" /\ file.path = "readable" /\ file.enable_online_learning = Missing
    => enableOnlineLearning = params.enable_online_learning

(* The weight of the first feature object named n, 0.0 if it has none. *)
OwnWeight(feats, n) ==
  LET i == FirstIndex({j \in 1 .. Len(feats) : feats[j].name = n})
  IN  IF i = 0 \/ feats[i].weight = Missing THEN 0 ELSE feats[i].weight

(***************************************************************************)
(* extractWeight "extracts the weight value from the feature object": a   *)
(* successful load gives each feature the weight of its own object, or    *)
(* 0.0 when its object has no weight.                                     *)
(***************************************************************************)
WeightFromOwnObject ==
  phase = "built" /\ file.path = "readable" /\ warning = "none" =>
    \A i \in 1 .. 4 : weights[WeightOrder[i]] = OwnWeight(file.features, FeatureKeys[i])
====
