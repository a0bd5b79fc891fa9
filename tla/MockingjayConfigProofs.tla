------------------------ MODULE MockingjayConfigProofs ------------------------
(***************************************************************************)
(* Proofs about the Mockingjay constructor and loadWeights, for every set *)
(* of feature names, numbers and parameter values ConfigAssumption allows *)
(* and for features lists of any length.                                  *)
(***************************************************************************)
EXTENDS MockingjayConfig, SequenceTheorems, WellFoundedInduction, TLAPS

(* What a parse step may produce: a number, or the exception. *)
Outcome == Int \cup {Bad}

LEMMA LeastIn ==
  ASSUME NEW T \in SUBSET Nat, T # {}
  PROVE  \E x \in T : \A y \in T : x <= y
<1>1. PICK x \in T : \A y \in T : ~(<<y, x>> \in OpToRel(<, Nat))
  BY WFMin, NatLessThanWellFounded
<1>2. \A y \in T : ~(y < x)
  BY <1>1 DEF OpToRel
<1>. QED  BY <1>2

(* std::string::find: the position found is a match, and no earlier one is. *)
LEMMA FirstIndexFacts ==
  ASSUME NEW I \in SUBSET Nat
  PROVE  /\ I = {} => FirstIndex(I) = 0
         /\ I # {} => /\ FirstIndex(I) \in I
                      /\ \A j \in I : FirstIndex(I) <= j
<1>1. CASE I = {}
  BY <1>1 DEF FirstIndex
<1>2. CASE I # {}
  <2>1. \E x \in I : \A y \in I : x <= y
    BY <1>2, LeastIn
  <2>. QED  BY <1>2, <2>1 DEF FirstIndex
<1>. QED  BY <1>1, <1>2

LEMMA ConstFacts ==
  /\ Numbers \subseteq Int /\ ParamRates \subseteq Int
  /\ Bad \notin Int /\ Missing \notin Int /\ Missing # Bad
  /\ MaxFeatures \in Nat
  BY ConfigAssumption

(* extractWeight either yields a number or hands on the exception of stod. *)
LEMMA ExtractWeightRange ==
  ASSUME NEW n, NEW m \in 0 .. MaxFeatures, NEW feats \in [1 .. m -> Feature]
  PROVE  ExtractWeight(feats, n) \in Outcome
<1>1. Len(feats) = m
  BY ConstFacts
<1> DEFINE I == {j \in 1 .. Len(feats) : feats[j].name = n}
           i == FirstIndex(I)
           J == {j \in i .. Len(feats) : feats[j].weight # Missing}
<1>6. I \subseteq Nat
  BY <1>1, ConstFacts
<1>7. i \in Nat
  BY <1>6, FirstIndexFacts
<1>8. \A j \in J : j \in Nat
  BY <1>7
<1>2. I \subseteq Nat /\ J \subseteq Nat
  BY <1>6, <1>8
<1>3. CASE i = 0
  BY <1>3 DEF ExtractWeight, WeightIndex, Outcome
<1>4. CASE i # 0 /\ J = {}
  <2>1. WeightIndex(feats, n) = FirstIndex({})
    BY <1>4 DEF WeightIndex
  <2>2. WeightIndex(feats, n) = 0
    BY <2>1 DEF FirstIndex
  <2>. QED  BY <2>2 DEF ExtractWeight, Outcome
<1>5. CASE i # 0 /\ J # {}
  <2>1. FirstIndex(J) \in J
    BY <1>2, <1>5, FirstIndexFacts
  <2>2. FirstIndex(J) \in 1 .. m
    <3>1. i \in I
      BY <1>2, <1>5, FirstIndexFacts
    <3>2. QED  BY <2>1, <3>1, <1>1, ConstFacts
  <2>3. feats[FirstIndex(J)] \in Feature /\ feats[FirstIndex(J)].weight # Missing
    BY <2>1, <2>2
  <2>4. feats[FirstIndex(J)].weight \in Outcome
    BY <2>3, ConstFacts DEF Feature, Value, Outcome
  <2>5. WeightIndex(feats, n) = FirstIndex(J)
    BY <1>5 DEF WeightIndex
  <2>6. WeightIndex(feats, n) # 0
    BY <2>5, <2>2
  <2>. QED  BY <2>4, <2>5, <2>6 DEF ExtractWeight
<1>. QED  BY <1>3, <1>4, <1>5

(* parseJsonNumber yields a number or throws. *)
LEMMA JsonNumberRange ==
  ASSUME NEW x \in Value
  PROVE  JsonNumber(x) \in Outcome
<1>1. CASE x = Missing
  <2>1. JsonNumber(x) = 0
    BY <1>1 DEF JsonNumber
  <2>. QED  BY <2>1 DEF Outcome
<1>2. CASE x \in Numbers
  BY <1>2, ConstFacts DEF JsonNumber, Outcome
<1>3. CASE x = Bad
  BY <1>3, ConstFacts DEF JsonNumber, Outcome
<1>. QED  BY <1>1, <1>2, <1>3 DEF Value

(* The six results the try block parses, in order, for any file. *)
LEMMA ParsedRange ==
  ASSUME NEW f \in File
  PROVE  /\ Len(Parsed(f)) = 6
         /\ \A i \in 1 .. 6 : Parsed(f)[i] \in Outcome
<1>1. PICK m \in 0 .. MaxFeatures : f.features \in [1 .. m -> Feature]
  BY DEF File
<1> DEFINE s1 == [i \in 1 .. 4 |-> ExtractWeight(f.features, FeatureKeys[i])]
           s2 == <<JsonNumber(f.bias), JsonNumber(f.learning_rate)>>
<1>2. \A i \in 1 .. 4 : ExtractWeight(f.features, FeatureKeys[i]) \in Outcome
  BY <1>1, ExtractWeightRange
<1>3. s1 \in Seq(Outcome) /\ Len(s1) = 4
  BY <1>2
<1>8. f.bias \in Value /\ f.learning_rate \in Value
  BY Zenon DEF File
<1>4. JsonNumber(f.bias) \in Outcome /\ JsonNumber(f.learning_rate) \in Outcome
  BY <1>8, JsonNumberRange
<1>5. s2 \in Seq(Outcome) /\ Len(s2) = 2
  BY <1>4
<1>6. Parsed(f) = s1 \o s2
  BY DEF Parsed
<1>7. /\ Len(s1 \o s2) = 6
      /\ \A i \in 1 .. 6 : (s1 \o s2)[i] = IF i <= 4 THEN s1[i] ELSE s2[i - 4]
  BY <1>3, <1>5, ConcatProperties
<1>. QED  BY <1>2, <1>4, <1>6, <1>7

(* The position loadWeights' assignment order gives each weight field. *)
LEMMA WeightPos ==
  \A i \in 1 .. 5 : (CHOOSE j \in 1 .. 5 : WeightOrder[j] = WeightOrder[i]) = i
<1>1. \A i, j \in 1 .. 5 : WeightOrder[j] = WeightOrder[i] => j = i
  BY DEF WeightOrder
<1>. QED  BY <1>1

LEMMA WeightFields ==
  DOMAIN DefaultWeights = {WeightOrder[i] : i \in 1 .. 5}
  BY DEF DefaultWeights, WeightOrder

-----------------------------------------------------------------------------
(* Before the constructor body runs, the members hold their initialisers. *)
Members ==
  phase = "members" =>
    /\ weights = DefaultWeights
    /\ learningRate = params.learning_rate
    /\ enableOnlineLearning = params.enable_online_learning
    /\ warning = "none"

IInv == TypeOK /\ Members /\ LoadIsPrefix

(* The position of the first parse step that throws, 0 if none does. *)
Thrown(f) == FirstIndex({i \in 1 .. Len(Parsed(f)) : Parsed(f)[i] = Bad})

LEMMA ThrownFacts ==
  ASSUME NEW f \in File
  PROVE  LET p == Parsed(f)
             t == Thrown(f)
         IN  /\ t \in 0 .. 6
             /\ t = 0 => \A i \in 1 .. 6 : p[i] # Bad
             /\ t # 0 => /\ p[t] = Bad
                         /\ \A i \in 1 .. 6 : i < t => p[i] # Bad
<1> DEFINE p == Parsed(f)
           T == {i \in 1 .. Len(p) : p[i] = Bad}
<1>1. Len(p) = 6
  BY ParsedRange
<1>2. T \subseteq Nat
  BY <1>1
<1>3. CASE T = {}
  BY <1>1, <1>2, <1>3, FirstIndexFacts DEF Thrown
<1>4. CASE T # {}
  <2>1. Thrown(f) \in T /\ \A j \in T : Thrown(f) <= j
    BY <1>2, <1>4, FirstIndexFacts DEF Thrown
  <2>. QED  BY <2>1, <1>1
<1>. QED  BY <1>3, <1>4

(* What loadWeights assigns, from the constructor's initialisers. *)
LEMMA LoadResult ==
  ASSUME NEW f \in File, NEW lr, NEW on
  PROVE  LET r == LoadWeights(f, DefaultWeights, lr, on)
             p == Parsed(f)
             t == Thrown(f)
         IN  /\ DOMAIN r.weights = DOMAIN DefaultWeights
             /\ \A i \in 1 .. 5 : r.weights[WeightOrder[i]] =
                   IF t = 0 \/ i < t THEN p[i] ELSE DefaultWeights[WeightOrder[i]]
             /\ r.learningRate = IF t = 0 /\ p[6] > 0 THEN p[6] ELSE lr
             /\ r.enableOnlineLearning = IF t = 0 THEN JsonBool(f.enable_online_learning) ELSE on
             /\ r.warning = IF t = 0 THEN "none" ELSE "parse"
<1> DEFINE r == LoadWeights(f, DefaultWeights, lr, on)
           pos == [k \in DOMAIN DefaultWeights |-> CHOOSE i \in 1 .. 5 : WeightOrder[i] = k]
<1>1. r.weights = [k \in DOMAIN DefaultWeights |->
                     IF Thrown(f) = 0 \/ pos[k] < Thrown(f) THEN Parsed(f)[pos[k]]
                     ELSE DefaultWeights[k]]
  BY DEF LoadWeights, TryBlock, Thrown
<1>2. \A i \in 1 .. 5 : WeightOrder[i] \in DOMAIN DefaultWeights /\ pos[WeightOrder[i]] = i
  BY WeightPos, WeightFields
<1>3. r.learningRate = IF Thrown(f) = 0 /\ Parsed(f)[6] > 0 THEN Parsed(f)[6] ELSE lr
  BY DEF LoadWeights, TryBlock, Thrown
<1>4. r.enableOnlineLearning = IF Thrown(f) = 0 THEN JsonBool(f.enable_online_learning) ELSE on
  BY DEF LoadWeights, TryBlock, Thrown
<1>5. r.warning = IF Thrown(f) = 0 THEN "none" ELSE "parse"
  BY DEF LoadWeights, TryBlock, Thrown
<1>6. DOMAIN r.weights = DOMAIN DefaultWeights
  BY <1>1
<1>7. \A i \in 1 .. 5 : r.weights[WeightOrder[i]] =
        IF Thrown(f) = 0 \/ i < Thrown(f) THEN Parsed(f)[i] ELSE DefaultWeights[WeightOrder[i]]
  <2> SUFFICES ASSUME NEW i \in 1 .. 5
               PROVE  r.weights[WeightOrder[i]] =
                        IF Thrown(f) = 0 \/ i < Thrown(f) THEN Parsed(f)[i]
                        ELSE DefaultWeights[WeightOrder[i]]
    OBVIOUS
  <2>1. WeightOrder[i] \in DOMAIN DefaultWeights /\ pos[WeightOrder[i]] = i
    BY <1>2
  <2> HIDE DEF pos
  <2>. QED  BY <1>1, <2>1
<1>. QED  BY <1>3, <1>4, <1>5, <1>6, <1>7

LEMMA ParamsFacts ==
  ASSUME NEW q \in Params
  PROVE  q.learning_rate \in Int /\ q.enable_online_learning \in BOOLEAN
  BY ConstFacts DEF Params

LEMMA InitIInv == Init => IInv
<1> SUFFICES ASSUME Init PROVE IInv
  OBVIOUS
<1>1. DefaultWeights \in [{"pc", "age", "cnt", "reuse", "bias"} -> Int]
  BY DEF DefaultWeights
<1>2. learningRate \in Int /\ enableOnlineLearning \in BOOLEAN
  BY ParamsFacts DEF Init
<1>3. TypeOK
  BY <1>1, <1>2 DEF Init, TypeOK
<1>4. Members
  BY DEF Init, Members
<1>5. LoadIsPrefix
  BY DEF Init, LoadIsPrefix
<1>. QED  BY <1>3, <1>4, <1>5 DEF IInv

(***************************************************************************)
(* The constructor body keeps the members typed and, from a readable file, *)
(* leaves the prefix loadWeights' try block assigned before it threw.     *)
(***************************************************************************)
LEMMA ConstructIInv ==
  ASSUME IInv, Construct
  PROVE  IInv'
<1>1. TypeOK /\ Members /\ phase = "members"
  BY DEF IInv, Construct
<1>2. /\ weights = DefaultWeights
      /\ learningRate = params.learning_rate
      /\ enableOnlineLearning = params.enable_online_learning
  BY <1>1 DEF Members
<1>3. file' = file /\ params' = params /\ phase' = "built"
  BY DEF Construct
<1>4. file \in File /\ params \in Params
  BY <1>1 DEF TypeOK
<1>5. Members'
  BY <1>3 DEF Members
<1>6. CASE file.path = "unset"
  <2>1. UNCHANGED <<weights, learningRate, enableOnlineLearning, warning>>
    BY <1>6 DEF Construct
  <2>2. TypeOK'
    BY <1>1, <1>3, <2>1 DEF TypeOK
  <2>3. LoadIsPrefix'
    BY <1>3, <1>6 DEF LoadIsPrefix
  <2>. QED  BY <1>5, <2>2, <2>3 DEF IInv
<1>7. CASE file.path = "unreadable"
  <2>1. UNCHANGED <<weights, learningRate, enableOnlineLearning>> /\ warning' = "open"
    BY <1>7 DEF Construct
  <2>2. TypeOK'
    BY <1>1, <1>3, <2>1 DEF TypeOK
  <2>3. LoadIsPrefix'
    BY <1>3, <1>7 DEF LoadIsPrefix
  <2>. QED  BY <1>5, <2>2, <2>3 DEF IInv
<1>8. CASE file.path = "readable"
  <2> DEFINE p == Parsed(file)
             t == Thrown(file)
             r == LoadWeights(file, DefaultWeights, params.learning_rate,
                              params.enable_online_learning)
  <2>1. /\ weights' = r.weights /\ learningRate' = r.learningRate
        /\ enableOnlineLearning' = r.enableOnlineLearning /\ warning' = r.warning
    BY <1>2, <1>8 DEF Construct
  <2>2. /\ DOMAIN r.weights = DOMAIN DefaultWeights
        /\ \A i \in 1 .. 5 : r.weights[WeightOrder[i]] =
              IF t = 0 \/ i < t THEN p[i] ELSE DefaultWeights[WeightOrder[i]]
        /\ r.learningRate = IF t = 0 /\ p[6] > 0 THEN p[6] ELSE params.learning_rate
        /\ r.enableOnlineLearning = IF t = 0 THEN JsonBool(file.enable_online_learning)
                                    ELSE params.enable_online_learning
        /\ r.warning = IF t = 0 THEN "none" ELSE "parse"
    BY <1>4, LoadResult
  <2>3. /\ Len(p) = 6 /\ \A i \in 1 .. 6 : p[i] \in Outcome
        /\ t \in 0 .. 6
        /\ t = 0 => \A i \in 1 .. 6 : p[i] # Bad
        /\ t # 0 => p[t] = Bad /\ \A i \in 1 .. 6 : i < t => p[i] # Bad
    BY <1>4, ParsedRange, ThrownFacts
  <2>4. params.learning_rate \in Int /\ params.enable_online_learning \in BOOLEAN
    BY <1>4, ParamsFacts
  <2>5. TypeOK'
    <3>1. weights' \in [{"pc", "age", "cnt", "reuse", "bias"} -> Int]
      <4>1. DOMAIN weights' = {WeightOrder[i] : i \in 1 .. 5}
        BY <2>1, <2>2, WeightFields
      <4>2. \A i \in 1 .. 5 : weights'[WeightOrder[i]] \in Int
        BY <2>1, <2>2, <2>3, ConstFacts DEF Outcome, DefaultWeights, WeightOrder
      <4>3. {WeightOrder[i] : i \in 1 .. 5} = {"pc", "age", "cnt", "reuse", "bias"}
        BY DEF WeightOrder
      <4>4. weights' = [x \in DOMAIN weights' |-> weights'[x]]
        <5>1. r.weights = [x \in DOMAIN r.weights |-> r.weights[x]]
          BY DEF LoadWeights, TryBlock
        <5>. QED  BY <5>1, <2>1
      <4>. QED  BY <4>1, <4>2, <4>3, <4>4
    <3>2. learningRate' \in Int
      BY <2>1, <2>2, <2>3, <2>4, ConstFacts DEF Outcome
    <3>3. enableOnlineLearning' \in BOOLEAN
      BY <2>1, <2>2, <2>4 DEF JsonBool
    <3>4. warning' \in {"none", "open", "parse"}
      BY <2>1, <2>2
    <3>. QED  BY <1>3, <1>4, <3>1, <3>2, <3>3, <3>4 DEF TypeOK
  <2>6. LoadIsPrefix'
    <3> DEFINE k == IF t = 0 \/ t = 6 THEN 5 ELSE t - 1
    <3>1. k \in 0 .. 5 /\ \A i \in 1 .. 5 : (i <= k) = (t = 0 \/ i < t)
      BY <2>3
    <3>2. \A i \in 1 .. 5 : weights'[WeightOrder[i]] =
            IF i <= k THEN p[i] ELSE DefaultWeights[WeightOrder[i]]
      BY <3>1, <2>1, <2>2
    <3>3. \A i \in 1 .. k : p[i] # Bad
      BY <3>1, <2>3
    <3>4. k < 5 => p[k + 1] = Bad
      BY <2>3
    <3>5. (warning' = "none") = (k = 5 /\ p[6] # Bad)
      BY <2>1, <2>2, <2>3
    <3>6. warning' = "none" =>
            /\ learningRate' = IF p[6] > 0 THEN p[6] ELSE params.learning_rate
            /\ enableOnlineLearning' = (file.enable_online_learning = "true")
      BY <2>1, <2>2 DEF JsonBool
    <3>7. warning' # "none" =>
            /\ learningRate' = params.learning_rate
            /\ enableOnlineLearning' = params.enable_online_learning
      BY <2>1, <2>2
    <3>. QED  BY <1>3, <3>1, <3>2, <3>3, <3>4, <3>5, <3>6, <3>7 DEF LoadIsPrefix
  <2>. QED  BY <1>5, <2>5, <2>6 DEF IInv
<1>. QED  BY <1>6, <1>7, <1>8, <1>4 DEF File, Paths

LEMMA NextIInv == IInv /\ [Next]_vars => IInv'
<1> SUFFICES ASSUME IInv, [Next]_vars PROVE IInv'
  OBVIOUS
<1>1. CASE Next
  BY <1>1, ConstructIInv DEF Next
<1>2. CASE UNCHANGED vars
  BY <1>2 DEF vars, IInv, TypeOK, Members, LoadIsPrefix
<1>. QED  BY <1>1, <1>2

(* The constructor leaves every configured member with its C++ type: the *)
(* five weights and the learning rate are numbers, whatever the file.     *)
THEOREM TypeCorrect == Spec => []TypeOK
<1>1. IInv => TypeOK
  BY DEF IInv
<1>. QED  BY <1>1, InitIInv, NextIInv, PTL DEF Spec

(***************************************************************************)
(* For every features list and every value a file may hold, the weights  *)
(* loadWeights leaves are the file's values for a prefix of its           *)
(* assignment order and the initialisers' for the rest, the field after  *)
(* the prefix is the one whose std::stod threw, and the file's            *)
(* learning_rate and enable_online_learning are taken only when nothing   *)
(* threw.                                                                 *)
(***************************************************************************)
THEOREM PrefixLoaded == Spec => []LoadIsPrefix
<1>1. IInv => LoadIsPrefix
  BY DEF IInv
<1>. QED  BY <1>1, InitIInv, NextIInv, PTL DEF Spec

====
