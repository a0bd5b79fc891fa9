---------------------------- MODULE PatternTable ----------------------------
(***************************************************************************)
(* The learned delta table of GHBHistory (ghb_history.cc):                 *)
(* updatePatternTable, findPatternMatch, fallbackPattern and the           *)
(* patternTable.clear() of reset().  The table maps a pair of deltas       *)
(* <<d1, d2>> to a PatternEntry: counts (next delta -> uint32 count) and   *)
(* total (uint32).  The counters keep their width: CountBits (32 in the    *)
(* code), so that they wrap the way a uint32 does.                         *)
(*                                                                         *)
(* observed is a history variable, not code: the exact number of times     *)
(* each triple <<d1, d2, d3>> has been learned, the reference the          *)
(* predictions are judged against.                                         *)
(***************************************************************************)
EXTENDS Integers, Sequences, FiniteSets, Functions, SequencesExt, Bags

CONSTANTS
  CountBits,   \* width of PatternEntry::counts values and of total
  Deltas,      \* deltas the chronological lists of the standalone spec hold
  ChronLens,   \* lengths of the chronological lists it is trained with
  MaxUpdates   \* model bound on the learning steps of the standalone spec

CountMod == 2^CountBits

(* The provers do no exponentiation: that 2^CountBits is positive is stated. *)
ASSUME PatternTableAssumption ==
  /\ CountBits \in Nat \ {0}
  /\ CountMod \in Nat \ {0}
  /\ Deltas \subseteq Int
  /\ ChronLens \subseteq Nat
  /\ MaxUpdates \in Nat

VARIABLES patternTable, observed, updates

ptVars == <<patternTable, observed, updates>>

NewEntry == [counts |-> [d \in {} |-> 0], total |-> 0]

(* The pairs and triples of a chronological list, as the loop visits them. *)
TripleIdx(chron) == 1 .. (Len(chron) - 2)
PairAt(chron, i) == <<chron[i], chron[i + 1]>>

(* Mutant: total is bumped once per key and list, not once per triple. *)
LearnedTableTotalOnce(tbl, chron) ==
  IF Len(chron) < 3 THEN tbl
  ELSE
    LET keys == {PairAt(chron, i) : i \in TripleIdx(chron)}
        Old(key) == IF key \in DOMAIN tbl THEN tbl[key] ELSE NewEntry
        Hits(key) == {i \in TripleIdx(chron) : PairAt(chron, i) = key}
        Nexts(key) == {chron[i + 2] : i \in Hits(key)}
        Bump(key, x) == Cardinality({i \in Hits(key) : chron[i + 2] = x})
        Learn(key) ==
          LET e == Old(key) IN
          [counts |-> [x \in DOMAIN e.counts \cup Nexts(key) |->
                         ((IF x \in DOMAIN e.counts THEN e.counts[x] ELSE 0)
                            + Bump(key, x)) % CountMod],
           total |-> (e.total + 1) % CountMod]
    IN [key \in DOMAIN tbl \cup keys |-> IF key \in keys THEN Learn(key) ELSE tbl[key]]

(***************************************************************************)
(* updatePatternTable(chronological): for each i with i + 2 < size,        *)
(* patternTable[<<d[i], d[i+1]>>] (created by operator[] if absent) gets   *)
(* counts[d[i+2]]++ and total++.  The increments commute, so the loop is   *)
(* the sum of its increments, each counter wrapping modulo 2^CountBits.    *)
(***************************************************************************)
LearnedTable(tbl, chron) ==
  IF Len(chron) < 3 THEN tbl
  ELSE
    LET keys == {PairAt(chron, i) : i \in TripleIdx(chron)}
        Old(key) == IF key \in DOMAIN tbl THEN tbl[key] ELSE NewEntry
        Hits(key) == {i \in TripleIdx(chron) : PairAt(chron, i) = key}
        Nexts(key) == {chron[i + 2] : i \in Hits(key)}
        Bump(key, x) == Cardinality({i \in Hits(key) : chron[i + 2] = x})
        Learn(key) ==
          LET e == Old(key) IN
          [counts |-> [x \in DOMAIN e.counts \cup Nexts(key) |->
                         ((IF x \in DOMAIN e.counts THEN e.counts[x] ELSE 0)
                            + Bump(key, x)) % CountMod],
           total |-> (e.total + Cardinality(Hits(key))) % CountMod]
    IN [key \in DOMAIN tbl \cup keys |-> IF key \in keys THEN Learn(key) ELSE tbl[key]]

(* Mutant: the comparator sorts by increasing count. *)
FindPatternMatchAscending(tbl, chron) ==
  IF Len(chron) < 2 THEN {<<>>}
  ELSE LET key == <<chron[Len(chron) - 1], chron[Len(chron)]>> IN
       IF key \notin DOMAIN tbl \/ tbl[key].total = 0 THEN {<<>>}
       ELSE LET c == tbl[key].counts IN
            {<<d>> : d \in {x \in DOMAIN c : \A y \in DOMAIN c : c[x] <= c[y]}}

(***************************************************************************)
(* findPatternMatch(chronological): the key is the last two deltas; no    *)
(* match if it is absent or its total is 0.  Otherwise the candidates     *)
(* (next delta, count) are sorted by decreasing count with std::sort,      *)
(* which is not stable, over an unordered_map: the first is any delta of  *)
(* maximal count.  The result is the set of the possible outcomes; <<>>   *)
(* is the `false' one.                                                    *)
(***************************************************************************)
FindPatternMatch(tbl, chron) ==
  IF Len(chron) < 2 THEN {<<>>}
  ELSE LET key == <<chron[Len(chron) - 1], chron[Len(chron)]>> IN
       IF key \notin DOMAIN tbl \/ tbl[key].total = 0 THEN {<<>>}
       ELSE LET c == tbl[key].counts IN
            IF DOMAIN c = {} THEN {<<>>}
            ELSE {<<d>> : d \in {x \in DOMAIN c : \A y \in DOMAIN c : c[x] >= c[y]}}

(* fallbackPattern(chronological): the last delta, unless it is zero. *)
FallbackPattern(chron) ==
  IF chron = <<>> \/ Last(chron) = 0 THEN <<>> ELSE <<Last(chron)>>

(* The reference: the bag of the triples a chronological list teaches. *)
TriplesOf(chron) ==
  LET ts == {<<chron[i], chron[i + 1], chron[i + 2]>> : i \in TripleIdx(chron)} IN
  [t \in ts |-> Cardinality({i \in TripleIdx(chron) :
                               <<chron[i], chron[i + 1], chron[i + 2]>> = t})]

Observe(obs, chron) == obs (+) TriplesOf(chron)

-----------------------------------------------------------------------------
(* The standalone specification: the table trained with arbitrary lists. *)
Chrons == UNION {[1 .. n -> Deltas] : n \in ChronLens}

PTInit ==
  /\ patternTable = [key \in {} |-> NewEntry]
  /\ observed = EmptyBag
  /\ updates = 0

UpdatePatternTable(chron) ==
  /\ updates < MaxUpdates
  /\ patternTable' = LearnedTable(patternTable, chron)
  /\ observed' = Observe(observed, chron)
  /\ updates' = updates + 1

(* patternTable.clear() in reset(). *)
ClearTable ==
  /\ patternTable' = [key \in {} |-> NewEntry]
  /\ observed' = EmptyBag
  /\ updates' = updates

PTNext == (\E chron \in Chrons : UpdatePatternTable(chron)) \/ ClearTable

PTSpec == PTInit /\ [][PTNext]_ptVars

-----------------------------------------------------------------------------
PTTypeOK ==
  /\ \A key \in DOMAIN patternTable :
       /\ patternTable[key].total \in 0 .. (CountMod - 1)
       /\ \A x \in DOMAIN patternTable[key].counts :
            patternTable[key].counts[x] \in 0 .. (CountMod - 1)
  /\ updates \in 0 .. MaxUpdates

(***************************************************************************)
(* The running total of every learned pair is the sum of its counts, as a *)
(* uint32 computes it: each triple updatePatternTable visits bumps both.  *)
(***************************************************************************)
TotalIsSum ==
  \A key \in DOMAIN patternTable :
    patternTable[key].total = SumFunction(patternTable[key].counts) % CountMod

(* How often the pair key was seen followed by d; the pairs seen at all. *)
SeenCount(key, d) ==
  LET t == <<key[1], key[2], d>> IN IF t \in BagToSet(observed) THEN observed[t] ELSE 0
SeenPairs == {<<t[1], t[2]>> : t \in BagToSet(observed)}
SeenAfter(key) == {t[3] : t \in {u \in BagToSet(observed) : <<u[1], u[2]>> = key}}

(***************************************************************************)
(* findPatternMatch predicts a most frequent follower: for every pair of   *)
(* deltas, the lookup finds a match exactly when the pair has been learned *)
(* since the last clear, and every delta it may return has been observed  *)
(* after that pair at least as often as any other delta.                  *)
(***************************************************************************)
PredictionIsMode ==
  \A key \in SeenPairs \cup DOMAIN patternTable :
    LET R == FindPatternMatch(patternTable, key) IN
    IF key \in SeenPairs
    THEN /\ <<>> \notin R
         /\ \A r \in R : \A d \in SeenAfter(key) : SeenCount(key, r[1]) >= SeenCount(key, d)
    ELSE R = {<<>>}

====
