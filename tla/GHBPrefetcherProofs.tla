------------------------ MODULE GHBPrefetcherProofs -------------------------
(***************************************************************************)
(* Proofs about the prefetcher pipeline.  calculatePrefetch trains the     *)
(* pattern table with the reversed pattern of the access it handled, so   *)
(* what PatternTableProofs shows of one updatePatternTable carries over:  *)
(* the table stays what its observations teach, and its predictions are   *)
(* their mode, as long as no uint32 counter wraps.                        *)
(***************************************************************************)
EXTENDS GHBPrefetcher, FiniteSetTheorems, TLAPS

TP == INSTANCE PatternTableProofs
        WITH Deltas <- {}, ChronLens <- {}, MaxUpdates <- 0, updates <- 0

(* No counter wraps: every insert adds at most patternLength to a total. *)
NoWrap == MaxInserts * H!patternLength < T!CountMod

(* The table is what the observations teach, with totals bounded by the
   deltas of the inserts so far. *)
PInv ==
  /\ sequenceCounter \in Nat \ {0}
  /\ TP!Learned(patternTable, observed, (sequenceCounter - 1) * H!patternLength)

(* The table's assumptions hold of the prefetcher's constants. *)
LEMMA TableAssumption == TP!PatternTableAssumption
  BY PrefetcherAssumption DEF T!CountMod, TP!CountMod

(* The pattern length is a positive number. *)
LEMMA PatternLengthPos == H!patternLength \in Nat \ {0}
  BY PrefetcherAssumption DEF H!ParamsAssumption, H!patternLength

(* A subset of 1 .. n has at most n elements. *)
LEMMA CardBound ==
  ASSUME NEW n \in Nat, NEW X \in SUBSET (1 .. n)
  PROVE  Cardinality(X) \in 0 .. n
<1>1. IsFiniteSet(1 .. n) /\ Cardinality(1 .. n) = n
  BY FS_Interval
<1>2. IsFiniteSet(X) /\ Cardinality(X) <= n
  BY <1>1, FS_Subset
<1>. QED  BY <1>2, FS_CardinalityType

(* The history counts with the Cardinality of FiniteSets. *)
LEMMA CardSame == \A X : H!Cardinality(X) = Cardinality(X)
  BY DEF H!Cardinality, Cardinality

(* buildPattern yields at most patternLength deltas, whatever the links. *)
LEMMA PatternShort ==
  ASSUME NEW hist, NEW index, NEW key
  PROVE  /\ H!BuildPattern(hist, index, key) \in Seq(Range(H!BuildPattern(hist, index, key)))
         /\ Len(H!BuildPattern(hist, index, key)) \in 0 .. H!patternLength
<1>1. \A X \in SUBSET (1 .. H!patternLength) : Cardinality(X) \in 0 .. H!patternLength
  BY PatternLengthPos, CardBound
<1>2. \A X \in SUBSET (1 .. H!patternLength) : H!Cardinality(X) \in 0 .. H!patternLength
  BY <1>1, CardSame
<1> DEFINE bp == H!BuildPattern(hist, index, key)
<1>3. \E n \in 0 .. H!patternLength : DOMAIN bp = 1 .. n /\ bp = [i \in 1 .. n |-> bp[i]]
  <2>1. CASE index \notin H!Slots
    <3>1. bp = <<>>
      BY <2>1 DEF H!BuildPattern
    <3>. QED  BY <3>1, PatternLengthPos
  <2>2. CASE index \in H!Slots
    <3> DEFINE Stale(l) == l.prev < 0 \/ hist[l.prev].seq # l.prevSeq
               pred == [s \in H!Slots \cup {H!NoSlot} |->
                         IF s = H!NoSlot \/ Stale(hist[s].links[key]) THEN H!NoSlot
                         ELSE hist[s].links[key].prev]
               walk[i \in 0 .. H!patternLength] == IF i = 0 THEN index ELSE pred[walk[i - 1]]
               W == {i \in 1 .. H!patternLength : walk[i] # H!NoSlot}
    <3>1. bp = [i \in 1 .. H!Cardinality(W) |-> H!Delta(hist[walk[i - 1]].addr, hist[walk[i]].addr)]
      BY <2>2 DEF H!BuildPattern
    <3>2. H!Cardinality(W) \in 0 .. H!patternLength
      BY <1>2
    <3>. QED  BY <3>1, <3>2
  <2>. QED  BY <2>1, <2>2
<1>. QED  BY <1>3, PatternLengthPos DEF Range

(* The prefetcher trains its table with the table module's own updates. *)
LEMMA SameLearnedTable ==
  \A tbl, ch : T!LearnedTable(tbl, ch) = TP!LearnedTable(tbl, ch)
  BY DEF T!LearnedTable, TP!LearnedTable, T!Cardinality, TP!Cardinality, T!CountMod,
         TP!CountMod, T!NewEntry, TP!NewEntry, T!PairAt, TP!PairAt, T!TripleIdx, TP!TripleIdx

LEMMA SameObserve == \A obs, ch : T!Observe(obs, ch) = TP!Observe(obs, ch)
  BY DEF T!Observe, TP!Observe, T!\oplus, TP!\oplus, T!TriplesOf, TP!TriplesOf,
         T!Cardinality, TP!Cardinality, T!TripleIdx, TP!TripleIdx

(* Reverse keeps a sequence's length and its elements. *)
LEMMA ReverseSeq ==
  ASSUME NEW S, NEW s \in Seq(S)
  PROVE  Reverse(s) \in Seq(S) /\ Len(Reverse(s)) = Len(s)
  BY DEF Reverse

LEMMA PInvInit == Init => PInv
<1> SUFFICES ASSUME Init PROVE PInv
  OBVIOUS
<1>1. TP!Learned([key \in {} |-> TP!NewEntry], TP!EmptyBag, 0)
  BY TableAssumption, TP!LearnedEmpty
<1>2. sequenceCounter = 1 /\ (sequenceCounter - 1) * H!patternLength = 0
  BY PatternLengthPos DEF Init, H!Init
<1>3. patternTable = [key \in {} |-> TP!NewEntry] /\ observed = TP!EmptyBag
  BY DEF Init, T!NewEntry, TP!NewEntry, T!EmptyBag, TP!EmptyBag, T!SetToBag, TP!SetToBag
<1>. QED  BY <1>1, <1>2, <1>3 DEF PInv

(* One call of calculatePrefetch: its insert adds one to the sequence
   counter and its training at most patternLength to any total. *)
LEMMA PInvStep ==
  ASSUME NoWrap, PInv, NEW a \in PfiAddrs, NEW pc \in PCs \cup {NoPC},
         CalculatePrefetch(a, pc)
  PROVE  PInv'
<1> DEFINE block == BlockAddress(a)
           accPC == IF UsePC /\ pc # NoPC THEN pc ELSE NoPC
           written == H!WrittenHistory(block, accPC)
           pcDeltas == H!BuildPattern(written, head, "PC")
           deltas == IF pcDeltas # <<>> THEN pcDeltas ELSE H!BuildPattern(written, head, "Page")
           chron == Reverse(deltas)
           pl == H!patternLength
           b == (sequenceCounter - 1) * pl
<1>1. /\ H!Insert(block, accPC)
      /\ IF deltas = <<>>
         THEN UNCHANGED <<patternTable, observed>>
         ELSE /\ patternTable' = T!LearnedTable(patternTable, chron)
              /\ observed' = T!Observe(observed, chron)
  BY DEF CalculatePrefetch
<1>2. /\ sequenceCounter \in Nat \ {0} /\ sequenceCounter <= MaxInserts
      /\ sequenceCounter' = sequenceCounter + 1
  BY <1>1 DEF PInv, H!Insert
<1>3. pl \in Nat \ {0} /\ MaxInserts \in Nat /\ T!CountMod \in Nat \ {0}
  BY PatternLengthPos, PrefetcherAssumption DEF H!ParamsAssumption, T!CountMod
<1>4. /\ b \in Nat
      /\ (sequenceCounter' - 1) * pl = b + pl
      /\ b + pl < T!CountMod
  <2>1. b + pl = sequenceCounter * pl
    BY <1>2, <1>3
  <2>2. sequenceCounter * pl <= MaxInserts * pl
    BY <1>2, <1>3
  <2>. QED  BY <1>2, <1>3, <2>1, <2>2 DEF NoWrap
<1>5. TP!Learned(patternTable, observed, b)
  BY DEF PInv
<1>6. CASE deltas = <<>>
  <2>1. TP!Learned(patternTable', observed', b + pl)
    BY <1>1, <1>3, <1>4, <1>5, <1>6, TableAssumption, TP!LearnedMono
  <2>. QED  BY <1>2, <1>4, <2>1 DEF PInv
<1>7. CASE deltas # <<>>
  <2>1. deltas \in Seq(Range(deltas)) /\ Len(deltas) \in 0 .. pl
    BY PatternShort
  <2>2. chron \in Seq(Range(deltas)) /\ Len(chron) <= pl
    BY <2>1, ReverseSeq
  <2>3. b + Len(chron) < TP!CountMod /\ b + Len(chron) <= b + pl
    BY <1>3, <1>4, <2>2 DEF T!CountMod, TP!CountMod
  <2>4. TP!Learned(TP!LearnedTable(patternTable, chron), TP!Observe(observed, chron),
                   b + Len(chron))
    BY <1>4, <1>5, <2>2, <2>3, TableAssumption, TP!LearnStep
  <2>5. TP!Learned(patternTable', observed', b + Len(chron))
    BY <1>1, <1>7, <2>4, SameLearnedTable, SameObserve
  <2>6. TP!Learned(patternTable', observed', b + pl)
    BY <1>3, <1>4, <2>2, <2>3, <2>5, TableAssumption, TP!LearnedMono
  <2>. QED  BY <1>2, <1>4, <2>6 DEF PInv
<1>. QED  BY <1>6, <1>7

(* The table module's prediction property, read on the prefetcher's table. *)
LEMMA SamePrediction == T!PredictionIsMode <=> TP!PredictionIsMode
  BY DEF T!PredictionIsMode, TP!PredictionIsMode, T!SeenPairs, TP!SeenPairs,
         T!SeenAfter, TP!SeenAfter, T!SeenCount, TP!SeenCount, T!BagToSet, TP!BagToSet,
         T!FindPatternMatch, TP!FindPatternMatch

LEMMA PInvNext == NoWrap /\ PInv /\ [Next]_vars => PInv'
<1> SUFFICES ASSUME NoWrap, PInv, [Next]_vars PROVE PInv'
  OBVIOUS
<1>1. CASE Next
  BY <1>1, PInvStep DEF Next
<1>2. CASE UNCHANGED vars
  BY <1>2 DEF PInv, vars
<1>. QED  BY <1>1, <1>2

(***************************************************************************)
(* The running prefetcher's table predicts a most frequent follower       *)
(* (PrefetchPredictionIsMode) for every history size, pattern length and  *)
(* address width, provided no uint32 counter of the table can wrap within *)
(* MaxInserts calls: each calculatePrefetch trains updatePatternTable     *)
(* with the reversed pattern of at most patternLength deltas that         *)
(* buildPattern walks from the slot it just wrote.                         *)
(***************************************************************************)
THEOREM PrefetchModePredicted == NoWrap => (Spec => []PrefetchPredictionIsMode)
<1> SUFFICES ASSUME NoWrap PROVE Spec => []PrefetchPredictionIsMode
  OBVIOUS
<1>1. PInv => PrefetchPredictionIsMode
  BY TableAssumption, TP!ModeFromLearned, SamePrediction DEF PInv, PrefetchPredictionIsMode
<1>2. PInv /\ [Next]_vars => PInv'
  BY PInvNext
<1>. QED  BY <1>1, <1>2, PInvInit, PTL DEF Spec

====
