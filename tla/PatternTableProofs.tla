------------------------- MODULE PatternTableProofs -------------------------
(***************************************************************************)
(* Proofs about the learned delta table (PatternTable): as long as no     *)
(* uint32 counter wraps, the table holds, for every learned pair, exactly *)
(* the number of times each follower was observed after it, so           *)
(* findPatternMatch predicts a most frequent follower.                     *)
(***************************************************************************)
EXTENDS PatternTable, FiniteSetTheorems, TLAPS

(***************************************************************************)
(* No counter can wrap: MaxUpdates lists of any allowed length teach      *)
(* fewer than 2^CountBits triples.  The uint32 counters of the code wrap  *)
(* only past 2^32 learned triples; the _wrap run shows what happens then. *)
(***************************************************************************)
NoWrap == \A n \in ChronLens : MaxUpdates * n < CountMod

(* The pieces of updatePatternTable's loop, named as in LearnedTable. *)
Tri(chron, i) == <<chron[i], chron[i + 1], chron[i + 2]>>
KeysOf(chron) == {PairAt(chron, i) : i \in TripleIdx(chron)}
TsOf(chron) == {Tri(chron, i) : i \in TripleIdx(chron)}
HitsOf(chron, key) == {i \in TripleIdx(chron) : PairAt(chron, i) = key}
NextsOf(chron, key) == {chron[i + 2] : i \in HitsOf(chron, key)}
BumpOf(chron, key, x) == Cardinality({i \in HitsOf(chron, key) : chron[i + 2] = x})
OldOf(tbl, key) == IF key \in DOMAIN tbl THEN tbl[key] ELSE NewEntry
LearnOf(tbl, chron, key) ==
  LET e == OldOf(tbl, key) IN
  [counts |-> [x \in DOMAIN e.counts \cup NextsOf(chron, key) |->
                 ((IF x \in DOMAIN e.counts THEN e.counts[x] ELSE 0)
                    + BumpOf(chron, key, x)) % CountMod],
   total |-> (e.total + Cardinality(HitsOf(chron, key))) % CountMod]

(* The pairs an observation bag has seen, and what followed a pair. *)
KeysSeen(obs) == {<<t[1], t[2]>> : t \in DOMAIN obs}
AfterSeen(obs, key) == {t[3] : t \in {u \in DOMAIN obs : <<u[1], u[2]>> = key}}

(***************************************************************************)
(* The table tbl is what the observations obs teach, with every total in  *)
(* 1 .. b: its keys are the pairs seen, the followers of a key are those  *)
(* seen after it, and each count is the exact number of observations,     *)
(* at most the key's total.                                               *)
(***************************************************************************)
Learned(tbl, obs, b) ==
  /\ \A t \in DOMAIN obs : t = <<t[1], t[2], t[3]>> /\ obs[t] \in Nat
  /\ DOMAIN tbl = KeysSeen(obs)
  /\ \A key \in DOMAIN tbl :
       /\ DOMAIN tbl[key].counts = AfterSeen(obs, key)
       /\ tbl[key].total \in 1 .. b
       /\ \A x \in AfterSeen(obs, key) :
            /\ tbl[key].counts[x] = obs[<<key[1], key[2], x>>]
            /\ tbl[key].counts[x] <= tbl[key].total

(* The inductive invariant: the bound is updates times a list length. *)
TInv ==
  /\ updates \in 0 .. MaxUpdates
  /\ \E n \in ChronLens \cup {0} : Learned(patternTable, observed, updates * n)

-----------------------------------------------------------------------------
(* The counters' modulus is a positive number. *)
LEMMA CountModPos == CountMod \in Nat \ {0}
  BY PatternTableAssumption

(* How often chron teaches the triple t, and how often obs has seen it. *)
TCount(chron, t) == Cardinality({i \in TripleIdx(chron) : Tri(chron, i) = t})
OldCount(obs, t) == IF t \in DOMAIN obs THEN obs[t] ELSE 0

(* The loop's index sets are finite and no larger than the list. *)
LEMMA CountFacts ==
  ASSUME NEW S, NEW chron \in Seq(S), NEW key, NEW x, NEW t
  PROVE  /\ Cardinality(HitsOf(chron, key)) \in 0 .. Len(chron)
         /\ BumpOf(chron, key, x) \in 0 .. Cardinality(HitsOf(chron, key))
         /\ TCount(chron, t) \in Nat
<1>1. /\ IsFiniteSet(TripleIdx(chron))
      /\ Cardinality(TripleIdx(chron)) \in 0 .. Len(chron)
  <2>1. Len(chron) \in Nat /\ TripleIdx(chron) = 1 .. (Len(chron) - 2)
    BY DEF TripleIdx
  <2>2. /\ IsFiniteSet(1 .. (Len(chron) - 2))
        /\ Cardinality(1 .. (Len(chron) - 2))
             = IF 1 > Len(chron) - 2 THEN 0 ELSE Len(chron) - 2 - 1 + 1
    BY <2>1, FS_Interval
  <2>. QED  BY <2>1, <2>2
<1>2. /\ IsFiniteSet(HitsOf(chron, key))
      /\ Cardinality(HitsOf(chron, key)) <= Cardinality(TripleIdx(chron))
  BY <1>1, FS_Subset DEF HitsOf
<1>3. /\ IsFiniteSet({i \in HitsOf(chron, key) : chron[i + 2] = x})
      /\ Cardinality({i \in HitsOf(chron, key) : chron[i + 2] = x})
           <= Cardinality(HitsOf(chron, key))
  BY <1>2, FS_Subset
<1>4. IsFiniteSet({i \in TripleIdx(chron) : Tri(chron, i) = t})
  BY <1>1, FS_Subset
<1>. QED  BY <1>1, <1>2, <1>3, <1>4, FS_CardinalityType DEF BumpOf, TCount

(* The hits of pair <<a, b>> followed by x are the positions of <<a, b, x>>. *)
LEMMA BumpIsTCount ==
  ASSUME NEW S, NEW chron \in Seq(S), NEW a, NEW b, NEW x
  PROVE  BumpOf(chron, <<a, b>>, x) = TCount(chron, <<a, b, x>>)
<1>1. {i \in HitsOf(chron, <<a, b>>) : chron[i + 2] = x}
        = {i \in TripleIdx(chron) : Tri(chron, i) = <<a, b, x>>}
  BY DEF HitsOf, PairAt, Tri
<1>. QED  BY <1>1 DEF BumpOf, TCount

(* A triple the list does not teach is taught zero times. *)
LEMMA TCountZero ==
  ASSUME NEW S, NEW chron \in Seq(S), NEW t, t \notin TsOf(chron)
  PROVE  TCount(chron, t) = 0
<1>1. {i \in TripleIdx(chron) : Tri(chron, i) = t} = {}
  BY DEF TsOf
<1>. QED  BY <1>1, FS_EmptySet DEF TCount

(* x follows pair <<a, b>> in the list iff the list teaches <<a, b, x>>. *)
LEMMA NextsIsTs ==
  ASSUME NEW S, NEW chron \in Seq(S), NEW a, NEW b, NEW x
  PROVE  x \in NextsOf(chron, <<a, b>>) <=> <<a, b, x>> \in TsOf(chron)
  BY DEF NextsOf, HitsOf, TsOf, PairAt, Tri

(* Observe adds the triples of the list to the bag. *)
LEMMA ObserveDef ==
  ASSUME NEW S, NEW chron \in Seq(S), NEW obs
  PROVE  Observe(obs, chron) =
           [t \in DOMAIN obs \cup TsOf(chron) |-> OldCount(obs, t) + TCount(chron, t)]
<1>1. \A t \in DOMAIN obs \ TsOf(chron) : TCount(chron, t) = 0
  BY TCountZero
<1>. QED  BY <1>1 DEF Observe, \oplus, TriplesOf, TsOf, Tri, TCount, OldCount

(* A larger bound on the totals still holds. *)
LEMMA LearnedMono ==
  ASSUME NEW tbl, NEW obs, NEW b \in Int, NEW c \in Int, b <= c, Learned(tbl, obs, b)
  PROVE  Learned(tbl, obs, c)
  BY DEF Learned

(* The triples of a bag, read back through its pairs and followers. *)
LEMMA SeenIff ==
  ASSUME NEW obs, \A t \in DOMAIN obs : t = <<t[1], t[2], t[3]>>, NEW a, NEW b, NEW x
  PROVE  /\ x \in AfterSeen(obs, <<a, b>>) <=> <<a, b, x>> \in DOMAIN obs
         /\ \A key \in KeysSeen(obs) : key = <<key[1], key[2]>>
  BY DEF AfterSeen, KeysSeen

(***************************************************************************)
(* A pair the list teaches: its new entry counts each follower as often   *)
(* as it has now been observed, and its total grows by the pair's hits.   *)
(***************************************************************************)
LEMMA LearnNew ==
  ASSUME NEW S, NEW chron \in Seq(S), NEW tbl, NEW obs, NEW b \in Nat,
         Learned(tbl, obs, b), b + Len(chron) < CountMod, ~(Len(chron) < 3),
         NEW key \in KeysOf(chron)
  PROVE  LET e == LearnOf(tbl, chron, key)
             O == Observe(obs, chron)
         IN  /\ DOMAIN e.counts = AfterSeen(O, key)
             /\ e.total \in 1 .. b + Len(chron)
             /\ \A x \in AfterSeen(O, key) :
                  /\ e.counts[x] = O[<<key[1], key[2], x>>]
                  /\ e.counts[x] <= e.total
<1> DEFINE e == LearnOf(tbl, chron, key)
           O == Observe(obs, chron)
           old == OldOf(tbl, key)
           a == key[1]
           a2 == key[2]
           hits == Cardinality(HitsOf(chron, key))
<1>1. PICK i0 \in TripleIdx(chron) : key = PairAt(chron, i0)
  BY DEF KeysOf
<1>2. key = <<a, a2>> /\ i0 \in HitsOf(chron, key)
  BY <1>1 DEF PairAt, HitsOf
<1>3. \A t \in DOMAIN obs : t = <<t[1], t[2], t[3]>> /\ obs[t] \in Nat
  BY DEF Learned
<1>4. /\ DOMAIN old.counts = AfterSeen(obs, key)
      /\ old.total \in 0 .. b
      /\ \A x \in AfterSeen(obs, key) :
           old.counts[x] = obs[<<a, a2, x>>] /\ old.counts[x] <= old.total
  <2>1. CASE key \in DOMAIN tbl
    BY <2>1 DEF OldOf, Learned
  <2>2. CASE key \notin DOMAIN tbl
    <3>1. AfterSeen(obs, key) = {}
      BY <2>2 DEF Learned, KeysSeen, AfterSeen
    <3>. QED  BY <2>2, <3>1 DEF OldOf, NewEntry
  <2>. QED  BY <2>1, <2>2
<1>5. hits \in 1 .. Len(chron)
  <2>1. hits \in 0 .. Len(chron) /\ IsFiniteSet(HitsOf(chron, key))
    <3>1. IsFiniteSet(TripleIdx(chron))
      BY FS_Interval DEF TripleIdx
    <3>. QED  BY <3>1, CountFacts, FS_Subset DEF HitsOf
  <2>2. HitsOf(chron, key) # {}
    BY <1>2
  <2>. QED  BY <2>1, <2>2, FS_EmptySet
<1>6. DOMAIN O = DOMAIN obs \cup TsOf(chron)
      /\ \A t \in DOMAIN O : O[t] = OldCount(obs, t) + TCount(chron, t)
  <2>1. O = [t \in DOMAIN obs \cup TsOf(chron) |-> OldCount(obs, t) + TCount(chron, t)]
    BY ObserveDef
  <2>. QED  BY <2>1
<1>7. \A x : x \in AfterSeen(O, key) <=> x \in AfterSeen(obs, key) \/ x \in NextsOf(chron, key)
  <2> SUFFICES ASSUME NEW x
               PROVE  x \in AfterSeen(O, key) <=> x \in AfterSeen(obs, key) \/ x \in NextsOf(chron, key)
    OBVIOUS
  <2>1. \A t \in DOMAIN O : t = <<t[1], t[2], t[3]>>
    BY <1>3, <1>6 DEF TsOf, Tri
  <2>2. x \in AfterSeen(O, key) <=> <<a, a2, x>> \in DOMAIN O
    BY <2>1, <1>2, SeenIff
  <2>3. x \in AfterSeen(obs, key) <=> <<a, a2, x>> \in DOMAIN obs
    BY <1>3, <1>2, SeenIff
  <2>4. x \in NextsOf(chron, key) <=> <<a, a2, x>> \in TsOf(chron)
    BY <1>2, NextsIsTs
  <2>. QED  BY <2>2, <2>3, <2>4, <1>6
<1>8. e.total = old.total + hits
  <2>1. old.total + hits \in 0 .. CountMod - 1
    BY <1>4, <1>5, CountModPos
  <2>2. e.total = (old.total + hits) % CountMod
    BY DEF LearnOf
  <2>3. (old.total + hits) % CountMod = old.total + hits
    BY <2>1, CountModPos
  <2>. QED  BY <2>2, <2>3
<1>9. DOMAIN e.counts = AfterSeen(O, key)
  BY <1>4, <1>7 DEF LearnOf
<1>10. ASSUME NEW x \in AfterSeen(O, key)
       PROVE  e.counts[x] = O[<<a, a2, x>>] /\ e.counts[x] <= e.total
  <2> DEFINE t == <<a, a2, x>>
  <2>1. e.counts[x] = ((IF x \in DOMAIN old.counts THEN old.counts[x] ELSE 0)
                        + BumpOf(chron, key, x)) % CountMod
    BY <1>4, <1>7 DEF LearnOf
  <2>2. (IF x \in DOMAIN old.counts THEN old.counts[x] ELSE 0) = OldCount(obs, t)
    BY <1>2, <1>3, <1>4, SeenIff DEF OldCount
  <2>3. BumpOf(chron, key, x) = TCount(chron, t)
    BY <1>2, BumpIsTCount
  <2>4. BumpOf(chron, key, x) \in 0 .. hits
    BY CountFacts
  <2>5. OldCount(obs, t) \in 0 .. old.total
    <3>1. CASE x \in DOMAIN old.counts
      <4>1. x \in AfterSeen(obs, key) /\ t \in DOMAIN obs
        BY <3>1, <1>2, <1>3, <1>4, SeenIff
      <4>2. old.counts[x] = obs[t] /\ old.counts[x] <= old.total /\ obs[t] \in Nat
        BY <4>1, <1>3, <1>4
      <4>. QED  BY <3>1, <4>1, <4>2, <2>2
    <3>2. CASE x \notin DOMAIN old.counts
      BY <3>2, <2>2, <1>4
    <3>. QED  BY <3>1, <3>2
  <2>6. OldCount(obs, t) + TCount(chron, t) \in 0 .. CountMod - 1
        /\ OldCount(obs, t) + TCount(chron, t) <= old.total + hits
    BY <2>3, <2>4, <2>5, <1>4, <1>5, CountModPos
  <2>7. e.counts[x] = OldCount(obs, t) + TCount(chron, t)
    <3>1. e.counts[x] = (OldCount(obs, t) + TCount(chron, t)) % CountMod
      BY <2>1, <2>2, <2>3
    <3>2. \A v \in 0 .. CountMod - 1 : v % CountMod = v
      BY CountModPos
    <3>. QED  BY <3>1, <2>6, <3>2
  <2>8. t \in DOMAIN O
    <3>1. x \in AfterSeen(obs, key) \/ x \in NextsOf(chron, key)
      BY <1>7
    <3>2. t \in DOMAIN obs \/ t \in TsOf(chron)
      BY <3>1, <1>2, <1>3, SeenIff, NextsIsTs
    <3>. QED  BY <3>2, <1>6
  <2>. QED  BY <2>6, <2>7, <2>8, <1>6, <1>8
<1>. QED  BY <1>4, <1>5, <1>8, <1>9, <1>10, <1>2

(* A pair the list does not teach keeps its entry and its observations. *)
LEMMA LearnKeep ==
  ASSUME NEW S, NEW chron \in Seq(S), NEW tbl, NEW obs, NEW b \in Nat,
         Learned(tbl, obs, b), NEW c \in Int, b <= c,
         NEW key \in DOMAIN tbl, key \notin KeysOf(chron)
  PROVE  LET O == Observe(obs, chron) IN
         /\ DOMAIN tbl[key].counts = AfterSeen(O, key)
         /\ tbl[key].total \in 1 .. c
         /\ \A x \in AfterSeen(O, key) :
              /\ tbl[key].counts[x] = O[<<key[1], key[2], x>>]
              /\ tbl[key].counts[x] <= tbl[key].total
<1> DEFINE O == Observe(obs, chron)
<1>1. \A t \in DOMAIN obs : t = <<t[1], t[2], t[3]>> /\ obs[t] \in Nat
  BY DEF Learned
<1>2. key = <<key[1], key[2]>>
  BY <1>1, SeenIff DEF Learned
<1>3. O = [t \in DOMAIN obs \cup TsOf(chron) |-> OldCount(obs, t) + TCount(chron, t)]
  BY ObserveDef
<1>4. \A x : <<key[1], key[2], x>> \notin TsOf(chron)
  BY <1>2 DEF TsOf, Tri, KeysOf, PairAt
<1>5. \A x : x \in AfterSeen(O, key) <=> x \in AfterSeen(obs, key)
  <2> SUFFICES ASSUME NEW x PROVE x \in AfterSeen(O, key) <=> x \in AfterSeen(obs, key)
    OBVIOUS
  <2>1. \A t \in DOMAIN O : t = <<t[1], t[2], t[3]>>
    BY <1>1, <1>3 DEF TsOf, Tri
  <2>2. x \in AfterSeen(O, key) <=> <<key[1], key[2], x>> \in DOMAIN O
    BY <2>1, <1>2, SeenIff
  <2>3. x \in AfterSeen(obs, key) <=> <<key[1], key[2], x>> \in DOMAIN obs
    BY <1>1, <1>2, SeenIff
  <2>. QED  BY <2>2, <2>3, <1>3, <1>4
<1>6. \A x \in AfterSeen(obs, key) : O[<<key[1], key[2], x>>] = obs[<<key[1], key[2], x>>]
  <2> SUFFICES ASSUME NEW x \in AfterSeen(obs, key)
               PROVE  O[<<key[1], key[2], x>>] = obs[<<key[1], key[2], x>>]
    OBVIOUS
  <2>1. <<key[1], key[2], x>> \in DOMAIN obs
    BY <1>1, <1>2, SeenIff
  <2>2. TCount(chron, <<key[1], key[2], x>>) = 0
    BY <1>4, TCountZero
  <2>. QED  BY <2>1, <2>2, <1>1, <1>3 DEF OldCount
<1>7. /\ DOMAIN tbl[key].counts = AfterSeen(obs, key)
      /\ tbl[key].total \in 1 .. b
      /\ \A x \in AfterSeen(obs, key) :
           /\ tbl[key].counts[x] = obs[<<key[1], key[2], x>>]
           /\ tbl[key].counts[x] <= tbl[key].total
  BY DEF Learned
<1>8. \A x : x \in AfterSeen(O, key) <=> x \in AfterSeen(obs, key)
  BY <1>5
<1>9. tbl[key].total \in 1 .. c
  BY <1>7
<1>10. DOMAIN tbl[key].counts = AfterSeen(O, key)
  BY <1>7, <1>8
<1>. QED  BY <1>6, <1>7, <1>8, <1>9, <1>10

(***************************************************************************)
(* updatePatternTable with the observation of its list keeps the table    *)
(* what the observations teach; the bound grows by the list's length.     *)
(***************************************************************************)
LEMMA LearnStep ==
  ASSUME NEW S, NEW chron \in Seq(S), NEW tbl, NEW obs, NEW b \in Nat,
         Learned(tbl, obs, b), b + Len(chron) < CountMod
  PROVE  Learned(LearnedTable(tbl, chron), Observe(obs, chron), b + Len(chron))
<1> DEFINE T == LearnedTable(tbl, chron)
           O == Observe(obs, chron)
           c == b + Len(chron)
<1>1. O = [t \in DOMAIN obs \cup TsOf(chron) |-> OldCount(obs, t) + TCount(chron, t)]
  BY ObserveDef
<1>2. \A t \in DOMAIN obs : t = <<t[1], t[2], t[3]>> /\ obs[t] \in Nat
  BY DEF Learned
<1>3. \A t \in DOMAIN O : t = <<t[1], t[2], t[3]>> /\ O[t] \in Nat
  <2> SUFFICES ASSUME NEW t \in DOMAIN O PROVE t = <<t[1], t[2], t[3]>> /\ O[t] \in Nat
    OBVIOUS
  <2>1. t = <<t[1], t[2], t[3]>>
    BY <1>1, <1>2 DEF TsOf, Tri
  <2>2. OldCount(obs, t) \in Nat /\ TCount(chron, t) \in Nat
    BY <1>2, CountFacts DEF OldCount
  <2>. QED  BY <2>1, <2>2, <1>1
<1>4. CASE Len(chron) < 3
  <2>1. T = tbl
    BY <1>4 DEF LearnedTable
  <2>2. TsOf(chron) = {}
    BY <1>4 DEF TsOf, TripleIdx
  <2>3. DOMAIN O = DOMAIN obs /\ \A t \in DOMAIN obs : O[t] = obs[t]
    <3>1. \A t \in DOMAIN obs : TCount(chron, t) = 0
      BY <2>2, TCountZero
    <3>. QED  BY <1>1, <1>2, <2>2, <3>1 DEF OldCount
  <2>4. KeysSeen(O) = KeysSeen(obs) /\ \A key : AfterSeen(O, key) = AfterSeen(obs, key)
    BY <2>3 DEF KeysSeen, AfterSeen
  <2>5. \A key \in DOMAIN tbl : \A x \in AfterSeen(obs, key) :
          <<key[1], key[2], x>> \in DOMAIN obs
    BY <1>2, SeenIff DEF Learned
  <2>6. DOMAIN T = KeysSeen(O)
    BY <2>1, <2>4 DEF Learned
  <2>7. ASSUME NEW key \in DOMAIN T
        PROVE  /\ DOMAIN T[key].counts = AfterSeen(O, key)
               /\ T[key].total \in 1 .. c
               /\ \A x \in AfterSeen(O, key) :
                    /\ T[key].counts[x] = O[<<key[1], key[2], x>>]
                    /\ T[key].counts[x] <= T[key].total
    <3>1. /\ DOMAIN tbl[key].counts = AfterSeen(obs, key)
          /\ tbl[key].total \in 1 .. b
          /\ \A x \in AfterSeen(obs, key) :
               /\ tbl[key].counts[x] = obs[<<key[1], key[2], x>>]
               /\ tbl[key].counts[x] <= tbl[key].total
      BY <2>1, <2>7 DEF Learned
    <3>2. \A x \in AfterSeen(obs, key) :
            O[<<key[1], key[2], x>>] = obs[<<key[1], key[2], x>>]
      BY <2>1, <2>7, <2>3, <2>5 DEF Learned
    <3>. QED  BY <2>1, <2>4, <3>1, <3>2
  <2>. QED  BY <1>3, <2>6, <2>7 DEF Learned
<1>5. CASE ~(Len(chron) < 3)
  <2>1. T = [key \in DOMAIN tbl \cup KeysOf(chron) |->
               IF key \in KeysOf(chron) THEN LearnOf(tbl, chron, key) ELSE tbl[key]]
    <3>1. ~(Len(chron) < 3)
      BY <1>5
    <3>. QED  BY <3>1 DEF LearnedTable, KeysOf, LearnOf, OldOf, HitsOf, NextsOf, BumpOf
  <2>2. DOMAIN T = KeysSeen(O)
    <3>1. KeysSeen(O) = KeysSeen(obs) \cup {<<t[1], t[2]>> : t \in TsOf(chron)}
      BY <1>1 DEF KeysSeen
    <3>2. {<<t[1], t[2]>> : t \in TsOf(chron)} = KeysOf(chron)
      <4>1. \A i \in TripleIdx(chron) : <<Tri(chron, i)[1], Tri(chron, i)[2]>> = PairAt(chron, i)
        BY DEF Tri, PairAt
      <4>. QED  BY <4>1 DEF TsOf, KeysOf
    <3>. QED  BY <2>1, <3>1, <3>2 DEF Learned
  <2>3. ASSUME NEW key \in KeysOf(chron)
        PROVE  /\ DOMAIN T[key].counts = AfterSeen(O, key)
               /\ T[key].total \in 1 .. c
               /\ \A x \in AfterSeen(O, key) :
                    /\ T[key].counts[x] = O[<<key[1], key[2], x>>]
                    /\ T[key].counts[x] <= T[key].total
    <3>1. T[key] = LearnOf(tbl, chron, key)
      BY <2>1
    <3>. QED  BY <3>1, <1>5, LearnNew
  <2>4. ASSUME NEW key \in DOMAIN tbl, key \notin KeysOf(chron)
        PROVE  /\ DOMAIN T[key].counts = AfterSeen(O, key)
               /\ T[key].total \in 1 .. c
               /\ \A x \in AfterSeen(O, key) :
                    /\ T[key].counts[x] = O[<<key[1], key[2], x>>]
                    /\ T[key].counts[x] <= T[key].total
    <3>1. T[key] = tbl[key]
      BY <2>1, <2>4
    <3>2. c \in Int /\ b <= c
      OBVIOUS
    <3>. QED  BY <3>1, <3>2, <2>4, LearnKeep
  <2>5. \A key \in DOMAIN T : key \in KeysOf(chron) \/ (key \in DOMAIN tbl /\ key \notin KeysOf(chron))
    BY <2>1
  <2>. QED  BY <1>3, <2>2, <2>3, <2>4, <2>5 DEF Learned
<1>. QED  BY <1>4, <1>5

(* A table that is what the observations teach predicts their mode. *)
LEMMA ModeFromLearned ==
  ASSUME NEW b, Learned(patternTable, observed, b)
  PROVE  PredictionIsMode
<1> SUFFICES ASSUME NEW key \in SeenPairs \cup DOMAIN patternTable
             PROVE  LET R == FindPatternMatch(patternTable, key) IN
                    IF key \in SeenPairs
                    THEN /\ <<>> \notin R
                         /\ \A r \in R : \A d \in SeenAfter(key) :
                              SeenCount(key, r[1]) >= SeenCount(key, d)
                    ELSE R = {<<>>}
  BY DEF PredictionIsMode
<1> DEFINE c == patternTable[key].counts
<1>1. \A t \in DOMAIN observed : t = <<t[1], t[2], t[3]>>
  BY DEF Learned
<1>2. SeenPairs = DOMAIN patternTable /\ \A k : SeenAfter(k) = AfterSeen(observed, k)
  BY DEF SeenPairs, SeenAfter, KeysSeen, AfterSeen, Learned, BagToSet
<1>3. key \in SeenPairs /\ key \in DOMAIN patternTable /\ key = <<key[1], key[2]>>
  <2>1. key \in KeysSeen(observed) /\ key \in DOMAIN patternTable /\ key \in SeenPairs
    BY <1>2 DEF Learned
  <2>. QED  BY <2>1, <1>1, SeenIff
<1>4. /\ DOMAIN c = AfterSeen(observed, key)
      /\ patternTable[key].total \in 1 .. b
      /\ \A x \in AfterSeen(observed, key) :
           c[x] = observed[<<key[1], key[2], x>>]
  BY <1>3 DEF Learned
<1>5. AfterSeen(observed, key) # {}
  BY <1>3 DEF SeenPairs, AfterSeen, BagToSet
<1>6. FindPatternMatch(patternTable, key)
        = {<<d>> : d \in {x \in DOMAIN c : \A y \in DOMAIN c : c[x] >= c[y]}}
  <2>0. Len(key) = 2
    BY <1>3
  <2>1. Len(key) = 2 /\ <<key[Len(key) - 1], key[Len(key)]>> = key
    BY <2>0, <1>3
  <2>2. patternTable[key].total # 0
    BY <1>4
  <2>. QED  BY <2>1, <2>2, <1>3, <1>4, <1>5 DEF FindPatternMatch
<1>7. \A x \in AfterSeen(observed, key) : SeenCount(key, x) = c[x]
  BY <1>1, <1>3, <1>4, SeenIff DEF SeenCount, BagToSet
<1>8. <<>> \notin FindPatternMatch(patternTable, key)
  BY <1>6
<1>9. \A r \in FindPatternMatch(patternTable, key) : \A d \in SeenAfter(key) :
        SeenCount(key, r[1]) >= SeenCount(key, d)
  BY <1>2, <1>4, <1>6, <1>7
<1>. QED  BY <1>3, <1>8, <1>9

(* The cleared table is what no observation teaches. *)
LEMMA LearnedEmpty == Learned([key \in {} |-> NewEntry], EmptyBag, 0)
  BY DEF Learned, EmptyBag, SetToBag, KeysSeen

LEMMA TInvInit == PTInit => TInv
<1> SUFFICES ASSUME PTInit PROVE TInv
  OBVIOUS
<1>1. updates = 0 /\ Learned(patternTable, observed, updates * 0)
  BY LearnedEmpty DEF PTInit
<1>. QED  BY <1>1, PatternTableAssumption DEF TInv

LEMMA TInvNext == NoWrap /\ TInv /\ [PTNext]_ptVars => TInv'
<1> SUFFICES ASSUME NoWrap, TInv, [PTNext]_ptVars PROVE TInv'
  OBVIOUS
<1>1. PICK n \in ChronLens \cup {0} : Learned(patternTable, observed, updates * n)
  BY DEF TInv
<1>2. updates \in 0 .. MaxUpdates /\ n \in Nat /\ MaxUpdates \in Nat
  BY PatternTableAssumption DEF TInv
<1>3. CASE \E chron \in Chrons : UpdatePatternTable(chron)
  <2>0. PICK chron \in Chrons : UpdatePatternTable(chron)
    BY <1>3
  <2>1. PICK m \in ChronLens : chron \in [1 .. m -> Deltas]
    BY <2>0 DEF Chrons
  <2>2. m \in Nat /\ chron \in Seq(Deltas) /\ Len(chron) = m
    BY <2>1, PatternTableAssumption
  <2> DEFINE k == IF m >= n THEN m ELSE n
  <2>3. k \in ChronLens /\ n <= k /\ m <= k /\ k \in Nat
    BY <2>1, <2>2, <1>2
  <2>4. updates + 1 <= MaxUpdates /\ updates' = updates + 1
    BY <2>0, <1>2 DEF UpdatePatternTable
  <2>5. updates * n + m <= (updates + 1) * k
    <3>1. updates * n <= updates * k
      BY <1>2, <2>3
    <3>. QED  BY <3>1, <2>3, <1>2
  <2>6. (updates + 1) * k <= MaxUpdates * k /\ MaxUpdates * k < CountMod
    BY <2>3, <2>4, <1>2 DEF NoWrap
  <2>7. updates * n \in Nat
    BY <1>2
  <2>8. Learned(patternTable', observed', updates * n + m)
    <3>1. updates * n + Len(chron) < CountMod
      BY <2>2, <2>3, <2>5, <2>6, <2>7, <1>2, PatternTableAssumption
    <3>2. Learned(LearnedTable(patternTable, chron), Observe(observed, chron),
                  updates * n + Len(chron))
      BY <1>1, <2>2, <2>7, <3>1, LearnStep
    <3>. QED  BY <2>0, <3>2, <2>2 DEF UpdatePatternTable
  <2>9. Learned(patternTable', observed', updates' * k)
    <3>1. updates * n + m \in Int /\ updates' * k \in Int /\ updates * n + m <= updates' * k
      BY <2>4, <2>5, <2>7, <2>3, <1>2
    <3>. QED  BY <2>8, <3>1, LearnedMono
  <2>. QED  BY <2>3, <2>4, <2>9, <1>2 DEF TInv
<1>4. CASE ClearTable
  <2>1. Learned(patternTable', observed', updates' * 0) /\ updates' = updates
    BY <1>4, <1>2, LearnedEmpty DEF ClearTable
  <2>. QED  BY <2>1, <1>2 DEF TInv
<1>5. CASE UNCHANGED ptVars
  BY <1>1, <1>2, <1>5 DEF TInv, ptVars
<1>. QED  BY <1>3, <1>4, <1>5 DEF PTNext

(***************************************************************************)
(* findPatternMatch predicts a most frequent follower (PredictionIsMode)  *)
(* for every table width and every training, provided no counter wraps:   *)
(* updatePatternTable keeps each count equal to the number of times its   *)
(* triple was learned, and a clear() forgets both.                        *)
(***************************************************************************)
THEOREM ModePredicted == NoWrap => (PTSpec => []PredictionIsMode)
<1> SUFFICES ASSUME NoWrap PROVE PTSpec => []PredictionIsMode
  OBVIOUS
<1>1. TInv => PredictionIsMode
  BY ModeFromLearned DEF TInv
<1>2. TInv /\ [PTNext]_ptVars => TInv'
  BY TInvNext
<1>. QED  BY <1>1, <1>2, TInvInit, PTL DEF PTSpec

====
