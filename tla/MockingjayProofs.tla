-------------------------- MODULE MockingjayProofs --------------------------
(***************************************************************************)
(* Proofs about the Mockingjay model, for every set of ways, pcs, feature *)
(* tables and bounds that MockingjayAssumption allows.                    *)
(***************************************************************************)
EXTENDS Mockingjay, WellFoundedInduction, TLAPS

(* The pcs a line or an eviction record can carry: 0 stands for none. *)
LinePCs == PCs \cup {0}

(* The record of slot EvictIndex(p) of table et is p's. *)
OwnedIn(et, p) == et[EvictIndex(p)].valid /\ et[EvictIndex(p)].pc = p

(* The number of pending (untrained) evictions of p that et still holds. *)
PendingIn(et, p) == IF OwnedIn(et, p) THEN 1 ELSE 0

EntryType == [pc : LinePCs, evictTick : 0 .. MaxTick, valid : BOOLEAN]

LineType == [pc : LinePCs, insertTick : 0 .. MaxTick, lastTouchTick : 0 .. MaxTick,
             accessCount : 0 .. MaxOps, reuseDistance : 0 .. MaxOps,
             lastAccessCounter : 0 .. MaxOps, priority : Int]

(***************************************************************************)
(* The inductive invariant.  The counters are ordered                     *)
(* lastAccessCounter <= globalAccessCounter <= ops, which keeps the       *)
(* uint64 subtraction of touch() from wrapping; each pc's trainings plus  *)
(* the eviction record it still owns never exceed its evictions.          *)
(***************************************************************************)
CounterInv ==
  /\ ops \in 0 .. MaxOps
  /\ globalAccessCounter \in 0 .. ops
  /\ curTick \in 0 .. MaxTick

LineInv ==
  /\ repl \in [Ways -> LineType]
  /\ \A w \in Ways : /\ repl[w].lastAccessCounter <= globalAccessCounter
                     /\ repl[w].accessCount <= ops

Balance == \A p \in PCs : trained[p] + PendingIn(evictTable, p) <= tracked[p]

TableInv ==
  /\ evictTable \in [EvictSlots -> EntryType]
  /\ tracked \in [LinePCs -> Nat]
  /\ trained \in [LinePCs -> Nat]
  /\ Balance

ModelInv ==
  /\ weights \in WeightChoices
  /\ valid \in [Ways -> BOOLEAN]

IInv == CounterInv /\ LineInv /\ TableInv /\ ModelInv
-----------------------------------------------------------------------------
(* An upper bound of every priority the weights w8 give (features <= 1). *)
Abs(x) == IF x < 0 THEN -x ELSE x

PrioBound(w8) ==
  (Abs(w8.pc) + Abs(w8.age) + Abs(w8.cnt) + Abs(w8.reuse) + Abs(w8.bias)) * FeatScale

(* The fixed-point scale is a positive natural. *)
LEMMA ScalePos == FeatScale \in Nat /\ FeatScale > 0
BY DEF FeatScale

(* The parts of MockingjayAssumption the proofs use, one by one. *)
LEMMA ConstFacts ==
  /\ Ways \subseteq Nat /\ Ways # {}
  /\ PCs \subseteq Nat /\ NoPC \notin Nat
  /\ EnableOnlineLearning \in BOOLEAN
  /\ WeightChoices \subseteq Weights
  /\ MaxTick \in Nat /\ MaxOps \in Nat
BY MockingjayAssumption, Zenon DEF MockingjayAssumption

LEMMA FeatTables ==
  /\ AgeFeat \in [0 .. MaxTick -> 0 .. FeatScale]
  /\ CountFeat \in [0 .. MaxOps -> 0 .. FeatScale]
  /\ ReuseFeat \in [0 .. MaxOps -> 0 .. FeatScale]
BY MockingjayAssumption, Zenon DEF MockingjayAssumption

LEMMA BoundsNat == MaxTick \in Nat /\ MaxOps \in Nat
BY ConstFacts

LEMMA DefaultChosen == DefaultWeights \in WeightChoices
BY MockingjayAssumption, Zenon DEF MockingjayAssumption

LEMMA LinePCsNat == \A x \in LinePCs : x \in Nat
BY ConstFacts DEF LinePCs

LEMMA TermBound ==
  ASSUME NEW a \in Int, NEW f \in 0 .. FeatScale
  PROVE  a * f \in Int /\ a * f <= Abs(a) * FeatScale
<1>1. CASE a >= 0
  BY <1>1, ScalePos DEF Abs
<1>2. CASE a < 0
  BY <1>2, ScalePos DEF Abs
<1>. QED  BY <1>1, <1>2

(* The four features are in [0, 1] (in fixed point). *)
LEMMA FeatureRange ==
  ASSUME NEW d \in LineType, NEW now \in 0 .. MaxTick
  PROVE  /\ PcHashFeature(d.pc) \in 0 .. FeatScale
         /\ AgeFeature(d.insertTick, now) \in 0 .. FeatScale
         /\ CountFeat[d.accessCount] \in 0 .. FeatScale
         /\ ReuseFeat[d.reuseDistance] \in 0 .. FeatScale
<1>1. PcHashFeature(d.pc) \in 0 .. FeatScale
  <2>1. d.pc \in Nat
    <3>1. d.pc \in LinePCs  BY Zenon DEF LineType
    <3>. QED  BY <3>1, LinePCsNat
  <2>2. d.pc % 1024 \in 0 .. 1023
    BY <2>1
  <2>. QED  BY <2>2, ScalePos DEF PcHashFeature
<1>2. AgeFeature(d.insertTick, now) \in 0 .. FeatScale
  <2>1. d.insertTick \in 0 .. MaxTick  BY Zenon DEF LineType
  <2>2. CASE d.insertTick = 0 \/ now <= d.insertTick
    BY <2>2, ScalePos DEF AgeFeature
  <2>3. CASE ~(d.insertTick = 0 \/ now <= d.insertTick)
    <3>1. now - d.insertTick \in 0 .. MaxTick
      BY <2>1, <2>3, ConstFacts
    <3>2. AgeFeat[now - d.insertTick] \in 0 .. FeatScale
      BY <3>1, FeatTables
    <3>. QED  BY <2>3, <3>2 DEF AgeFeature
  <2>. QED  BY <2>2, <2>3
<1>3. d.accessCount \in 0 .. MaxOps /\ d.reuseDistance \in 0 .. MaxOps
  BY Zenon DEF LineType
<1>. QED  BY <1>1, <1>2, <1>3, FeatTables

(* computePriority yields an integer no greater than PrioBound. *)
LEMMA PriorityBound ==
  ASSUME NEW d \in LineType, NEW w8 \in WeightChoices,
         NEW now \in 0 .. MaxTick
  PROVE  /\ ComputePriority(d, w8, now) \in Int
         /\ ComputePriority(d, w8, now) <= PrioBound(w8)
<1>0. /\ w8.pc \in Int /\ w8.age \in Int /\ w8.cnt \in Int
      /\ w8.reuse \in Int /\ w8.bias \in Int
  <2>1. w8 \in Weights  BY ConstFacts
  <2>. QED  BY <2>1, Zenon DEF Weights
<1> DEFINE t1 == w8.pc * PcHashFeature(d.pc)
           t2 == w8.age * AgeFeature(d.insertTick, now)
           t3 == w8.cnt * CountFeat[d.accessCount]
           t4 == w8.reuse * ReuseFeat[d.reuseDistance]
           t5 == w8.bias * FeatScale
           b1 == Abs(w8.pc) * FeatScale
           b2 == Abs(w8.age) * FeatScale
           b3 == Abs(w8.cnt) * FeatScale
           b4 == Abs(w8.reuse) * FeatScale
           b5 == Abs(w8.bias) * FeatScale
<1>1. t1 \in Int /\ t1 <= b1
  BY <1>0, FeatureRange, TermBound
<1>2. t2 \in Int /\ t2 <= b2
  BY <1>0, FeatureRange, TermBound
<1>3. t3 \in Int /\ t3 <= b3
  BY <1>0, FeatureRange, TermBound
<1>4. t4 \in Int /\ t4 <= b4
  BY <1>0, FeatureRange, TermBound
<1>5. t5 \in Int /\ t5 <= b5
  BY <1>0, TermBound, ScalePos
<1>6. /\ PrioBound(w8) = b1 + b2 + b3 + b4 + b5
      /\ {b1, b2, b3, b4, b5} \subseteq Int
  <2>1. /\ Abs(w8.pc) \in Int /\ Abs(w8.age) \in Int /\ Abs(w8.cnt) \in Int
        /\ Abs(w8.reuse) \in Int /\ Abs(w8.bias) \in Int
    BY <1>0 DEF Abs
  <2>. QED  BY <2>1, ScalePos DEF PrioBound
<1>7. ComputePriority(d, w8, now) = t1 + t2 + t3 + t4 + t5
  BY DEF ComputePriority
<1> HIDE DEF t1, t2, t3, t4, t5, b1, b2, b3, b4, b5
<1>. QED  BY <1>1, <1>2, <1>3, <1>4, <1>5, <1>6, <1>7

(* Every non-empty set of naturals has a least element. *)
LEMMA LeastNat ==
  ASSUME NEW T \in SUBSET Nat, T # {}
  PROVE  \E x \in T : \A y \in T : ~(y < x)
<1>1. \E x \in T : \A y \in T : ~(<<y, x>> \in OpToRel(<, Nat))
  BY WFMin, NatLessThanWellFounded
<1>. QED  BY <1>1 DEF OpToRel

(***************************************************************************)
(* getVictim's loop has a result: over priorities bounded by U, the first *)
(* way of maximal priority exists, so FirstMax names a way of the set.    *)
(***************************************************************************)
LEMMA FirstMaxExists ==
  ASSUME NEW prio \in [Ways -> Int], NEW U \in Int, \A u \in Ways : prio[u] <= U
  PROVE  /\ FirstMax(prio) \in Ways
         /\ \A u \in Ways : prio[u] <= prio[FirstMax(prio)]
         /\ \A u \in Ways : u < FirstMax(prio) => prio[u] < prio[FirstMax(prio)]
<1> DEFINE Gaps == {U - prio[u] : u \in Ways}
<1>1. Gaps \in SUBSET Nat /\ Gaps # {}
  BY ConstFacts
<1>2. PICK m \in Gaps : \A y \in Gaps : ~(y < m)
  BY <1>1, LeastNat
<1>3. PICK v0 \in Ways : m = U - prio[v0]
  BY <1>2
<1> DEFINE Top == {u \in Ways : prio[u] = prio[v0]}
<1>4. \A u \in Ways : prio[u] <= prio[v0]
  <2> SUFFICES ASSUME NEW u \in Ways PROVE prio[u] <= prio[v0]
    OBVIOUS
  <2>1. U - prio[u] \in Gaps
    OBVIOUS
  <2>2. ~(U - prio[u] < m)
    BY <1>2, <2>1
  <2>. QED  BY <2>2, <1>3
<1>5. Top \in SUBSET Nat /\ Top # {}
  BY ConstFacts
<1>6. PICK v \in Top : \A y \in Top : ~(y < v)
  BY <1>5, LeastNat
<1>7. /\ \A u \in Ways : prio[u] <= prio[v]
      /\ \A u \in Ways : u < v => prio[u] < prio[v]
  BY <1>4, <1>6, ConstFacts
<1>. QED  BY <1>6, <1>7 DEF FirstMax

(* Every pc a line can carry hashes to a modelled slot of the table. *)
LEMMA EvictIndexSlot ==
  ASSUME NEW q \in LinePCs
  PROVE  EvictIndex(q) \in EvictSlots
BY DEF EvictSlots, LinePCs

(***************************************************************************)
(* trackEviction(q) keeps the balance of every pc: q gains one eviction   *)
(* and one pending record, any pc whose record it overwrites loses its    *)
(* pending record.                                                        *)
(***************************************************************************)
LEMMA TrackedKeeps ==
  ASSUME NEW q \in LinePCs, curTick \in 0 .. MaxTick,
         evictTable \in [EvictSlots -> EntryType], tracked \in [LinePCs -> Nat],
         trained \in [LinePCs -> Nat],
         \A p \in PCs : trained[p] + PendingIn(evictTable, p) <= tracked[p]
  PROVE  LET tk == IF EnableOnlineLearning THEN [tracked EXCEPT ![q] = @ + 1] ELSE tracked
         IN  /\ Tracked(q) \in [EvictSlots -> EntryType]
             /\ tk \in [LinePCs -> Nat]
             /\ \A p \in PCs : trained[p] + PendingIn(Tracked(q), p) <= tk[p]
<1>1. CASE ~EnableOnlineLearning
  BY <1>1 DEF Tracked
<1>2. CASE EnableOnlineLearning
  <2> DEFINE et == Tracked(q)
             tk == [tracked EXCEPT ![q] = @ + 1]
  <2>1. et = [evictTable EXCEPT ![EvictIndex(q)] = [pc |-> q, evictTick |-> curTick, valid |-> TRUE]]
    BY <1>2 DEF Tracked
  <2>2. et \in [EvictSlots -> EntryType]
    BY <2>1, EvictIndexSlot DEF EntryType
  <2>3. tk \in [LinePCs -> Nat]
    OBVIOUS
  <2>4. ASSUME NEW p \in PCs PROVE trained[p] + PendingIn(et, p) <= tk[p]
    <3>0. p \in LinePCs /\ EvictIndex(p) \in EvictSlots
      BY EvictIndexSlot DEF LinePCs
    <3>1. trained[p] \in Nat /\ tracked[p] \in Nat /\ PendingIn(evictTable, p) \in {0, 1}
      BY <3>0 DEF PendingIn
    <3>2. CASE p = q
      <4>1. PendingIn(et, p) = 1
        BY <2>1, <3>2, EvictIndexSlot DEF PendingIn, OwnedIn
      <4>2. tk[p] = tracked[p] + 1
        BY <3>2
      <4>. QED  BY <3>1, <4>1, <4>2
    <3>3. CASE p # q /\ EvictIndex(p) = EvictIndex(q)
      <4>1. PendingIn(et, p) = 0
        BY <2>1, <3>3, EvictIndexSlot DEF PendingIn, OwnedIn
      <4>. QED  BY <3>1, <3>3, <4>1
    <3>4. CASE EvictIndex(p) # EvictIndex(q)
      <4>1. PendingIn(et, p) = PendingIn(evictTable, p)
        BY <2>1, <3>4 DEF PendingIn, OwnedIn
      <4>2. tk[p] = tracked[p]
        BY <3>4
      <4>. QED  BY <3>1, <4>1, <4>2
    <3>. QED  BY <3>2, <3>3, <3>4
  <2>. QED  BY <1>2, <2>2, <2>3, <2>4
<1>. QED  BY <1>1, <1>2

(***************************************************************************)
(* checkEvictedReuse(pc) on table et keeps the balance: a training of pc  *)
(* consumes the record pc owns, and nothing else changes.                 *)
(***************************************************************************)
LEMMA CheckedKeeps ==
  ASSUME NEW et \in [EvictSlots -> EntryType], NEW tk \in [LinePCs -> Nat],
         trained \in [LinePCs -> Nat], NEW pc \in PCs,
         \A p \in PCs : trained[p] + PendingIn(et, p) <= tk[p]
  PROVE  LET tr == IF Hit(et, pc) THEN [trained EXCEPT ![pc] = @ + 1] ELSE trained
         IN  /\ Checked(et, pc) \in [EvictSlots -> EntryType]
             /\ tr \in [LinePCs -> Nat]
             /\ \A p \in PCs : tr[p] + PendingIn(Checked(et, pc), p) <= tk[p]
<1>0. pc \in LinePCs /\ EvictIndex(pc) \in EvictSlots
  BY EvictIndexSlot DEF LinePCs
<1>1. CASE ~Hit(et, pc)
  BY <1>1 DEF Checked
<1>2. CASE Hit(et, pc)
  <2> DEFINE et2 == [et EXCEPT ![EvictIndex(pc)].valid = FALSE]
             tr == [trained EXCEPT ![pc] = @ + 1]
  <2>1. Checked(et, pc) = et2
    BY <1>2 DEF Checked
  <2>2. et2 \in [EvictSlots -> EntryType]
    BY <1>0 DEF EntryType
  <2>3. OwnedIn(et, pc)
    BY <1>2 DEF Hit, OwnedIn
  <2>4. ASSUME NEW p \in PCs PROVE tr[p] + PendingIn(et2, p) <= tk[p]
    <3>0. p \in LinePCs /\ EvictIndex(p) \in EvictSlots
      BY EvictIndexSlot DEF LinePCs
    <3>1. trained[p] \in Nat /\ tk[p] \in Nat
      BY <3>0
    <3>2. CASE p = pc
      <4>1. PendingIn(et2, p) = 0 /\ PendingIn(et, p) = 1
        BY <1>0, <2>3, <3>2 DEF PendingIn, OwnedIn
      <4>2. tr[p] = trained[p] + 1
        BY <3>0, <3>2
      <4>. QED  BY <3>1, <4>1, <4>2
    <3>3. CASE p # pc
      <4>1. PendingIn(et2, p) <= PendingIn(et, p)
        BY <1>0, <3>0 DEF PendingIn, OwnedIn
      <4>2. tr[p] = trained[p]
        BY <3>3
      <4>3. PendingIn(et, p) \in {0, 1} /\ PendingIn(et2, p) \in {0, 1}
        BY DEF PendingIn
      <4>. QED  BY <3>1, <4>1, <4>2, <4>3
    <3>. QED  BY <3>2, <3>3
  <2>5. tr \in [LinePCs -> Nat]
    BY <1>0
  <2>. QED  BY <1>2, <2>1, <2>2, <2>4, <2>5
<1>. QED  BY <1>1, <1>2

-----------------------------------------------------------------------------
(* What the invariant says of each variable, one fact at a time. *)
LEMMA InvFacts ==
  ASSUME IInv
  PROVE  /\ repl \in [Ways -> LineType]
         /\ \A w \in Ways : repl[w].lastAccessCounter \in 0 .. globalAccessCounter
         /\ \A w \in Ways : repl[w].accessCount \in 0 .. ops
         /\ ops \in 0 .. MaxOps
         /\ globalAccessCounter \in 0 .. ops
         /\ curTick \in 0 .. MaxTick
         /\ evictTable \in [EvictSlots -> EntryType]
         /\ tracked \in [LinePCs -> Nat]
         /\ trained \in [LinePCs -> Nat]
         /\ Balance
         /\ weights \in WeightChoices
         /\ valid \in [Ways -> BOOLEAN]
<1>1. \A w \in Ways : repl[w].lastAccessCounter \in 0 .. MaxOps /\ repl[w].accessCount \in 0 .. MaxOps
  BY Zenon DEF IInv, LineInv, LineType
<1>2. \A w \in Ways : repl[w].lastAccessCounter \in Nat /\ repl[w].accessCount \in Nat
  BY <1>1, BoundsNat
<1>. QED  BY <1>2 DEF IInv, CounterInv, LineInv, TableInv, ModelInv

LEMMA InitInv == Init => IInv
<1> SUFFICES ASSUME Init PROVE IInv
  OBVIOUS
<1>1. NewData \in LineType
  BY ConstFacts DEF NewData, LineType, LinePCs
<1>2. LineInv
  BY <1>1 DEF Init, LineInv, NewData
<1>3. CounterInv
  BY ConstFacts DEF Init, CounterInv
<1>4. evictTable \in [EvictSlots -> EntryType]
  BY ConstFacts DEF Init, NoEntry, EntryType, LinePCs
<1>5. Balance
  BY EvictIndexSlot DEF Init, Balance, PendingIn, OwnedIn, NoEntry, LinePCs
<1>6. TableInv
  BY <1>4, <1>5 DEF Init, TableInv, LinePCs
<1>7. ModelInv
  BY DefaultChosen DEF Init, ModelInv
<1>. QED  BY <1>2, <1>3, <1>6, <1>7 DEF IInv

(* The tick advances; nothing the invariant counts changes. *)
LEMMA AdvanceInv ==
  ASSUME IInv, AdvanceTick PROVE IInv'
<1>1. CounterInv'  BY ConstFacts DEF IInv, CounterInv, AdvanceTick
<1>2. LineInv'  BY DEF IInv, LineInv, AdvanceTick
<1>3. TableInv'
  <2>1. UNCHANGED <<evictTable, tracked, trained>>  BY DEF AdvanceTick
  <2>2. Balance'  BY <2>1 DEF IInv, TableInv, Balance
  <2>. QED  BY <2>1, <2>2 DEF IInv, TableInv
<1>4. ModelInv'  BY DEF IInv, ModelInv, AdvanceTick
<1>. QED  BY <1>1, <1>2, <1>3, <1>4 DEF IInv

(* An invalidated line is zeroed and stays within the line type. *)
LEMMA InvalidateInv ==
  ASSUME IInv, NEW w \in Ways, Invalidate(w) PROVE IInv'
<1>1. InvalidatedData \in LineType
  BY ConstFacts DEF InvalidatedData, NewData, LineType, LinePCs, PrioMax
<1>2. LineInv'
  <2>1. repl' = [repl EXCEPT ![w] = InvalidatedData]
    BY DEF Invalidate
  <2>2. UNCHANGED <<globalAccessCounter>> /\ ops' = ops + 1
    BY DEF Invalidate
  <2>3. InvalidatedData.lastAccessCounter = 0 /\ InvalidatedData.accessCount = 0
    BY DEF InvalidatedData, NewData
  <2>4. repl' \in [Ways -> LineType]
    BY <1>1, <2>1 DEF IInv, LineInv
  <2>5. ASSUME NEW u \in Ways
        PROVE  repl'[u].lastAccessCounter <= globalAccessCounter' /\ repl'[u].accessCount <= ops'
    <3>1. CASE u = w
      BY <2>1, <2>2, <2>3, <3>1, InvFacts
    <3>2. CASE u # w
      BY <2>1, <2>2, <3>2, InvFacts
    <3>. QED  BY <3>1, <3>2
  <2>. QED  BY <2>4, <2>5 DEF LineInv
<1>3. CounterInv'
  BY ConstFacts DEF IInv, CounterInv, Invalidate
<1>4. TableInv'
  <2>1. UNCHANGED <<evictTable, tracked, trained>>  BY DEF Invalidate
  <2>2. Balance'  BY <2>1 DEF IInv, TableInv, Balance
  <2>. QED  BY <2>1, <2>2 DEF IInv, TableInv
<1>5. ModelInv'
  BY DEF IInv, ModelInv, Invalidate
<1>. QED  BY <1>2, <1>3, <1>4, <1>5 DEF IInv

(* touch(data) const counts one access and recomputes the priority. *)
LEMMA TouchConstInv ==
  ASSUME IInv, NEW w \in Ways, TouchConst(w) PROVE IInv'
<1> DEFINE nd == [repl[w] EXCEPT !.accessCount = @ + 1, !.lastTouchTick = curTick]
<1>0. repl[w] \in LineType /\ ops < MaxOps /\ repl[w].accessCount <= ops
      /\ curTick \in 0 .. MaxTick /\ weights \in WeightChoices
  BY DEF IInv, LineInv, CounterInv, ModelInv, TouchConst
<1>1. nd \in LineType
  <2>1. repl[w].accessCount + 1 \in 0 .. MaxOps
    BY <1>0, BoundsNat, InvFacts
  <2>. QED  BY <1>0, <2>1, Zenon DEF LineType
<1>2. ComputePriority(nd, weights, curTick) \in Int
  BY <1>0, <1>1, PriorityBound
<1>3. repl' = [repl EXCEPT ![w] = [nd EXCEPT !.priority = ComputePriority(nd, weights, curTick)]]
  BY DEF TouchConst
<1>4. repl' \in [Ways -> LineType]
  BY <1>1, <1>2, <1>3 DEF IInv, LineInv, LineType
<1>5. UNCHANGED globalAccessCounter /\ ops' = ops + 1
  BY DEF TouchConst
<1>6. LineInv'
  <2>1. ASSUME NEW u \in Ways
        PROVE  repl'[u].lastAccessCounter <= globalAccessCounter' /\ repl'[u].accessCount <= ops'
    <3>1. CASE u = w
      <4>1. repl'[u].lastAccessCounter = repl[w].lastAccessCounter
            /\ repl'[u].accessCount = repl[w].accessCount + 1
        BY <1>3, <3>1, InvFacts
      <4>. QED  BY <1>0, <1>5, <4>1, InvFacts
    <3>2. CASE u # w
      BY <1>3, <1>5, <3>2, InvFacts
    <3>. QED  BY <3>1, <3>2
  <2>. QED  BY <1>4, <2>1 DEF LineInv
<1>7. CounterInv'
  BY ConstFacts DEF IInv, CounterInv, TouchConst
<1>8. TableInv'
  <2>1. UNCHANGED <<evictTable, tracked, trained>>  BY DEF TouchConst
  <2>2. Balance'  BY <2>1 DEF IInv, TableInv, Balance
  <2>. QED  BY <2>1, <2>2 DEF IInv, TableInv
<1>9. ModelInv'
  BY DEF IInv, ModelInv, TouchConst
<1>. QED  BY <1>6, <1>7, <1>8, <1>9 DEF IInv

(***************************************************************************)
(* touch(data, pkt): the reuse distance globalAccessCounter -             *)
(* lastAccessCounter is a natural (the stamp never runs ahead of the      *)
(* counter), and the eviction-table check keeps the balance.              *)
(***************************************************************************)
LEMMA TouchInv ==
  ASSUME IInv, NEW w \in Ways, NEW pc \in PCs \cup {NoPC}, Touch(w, pc) PROVE IInv'
<1> DEFINE d == repl[w]
           nd == [d EXCEPT !.accessCount = d.accessCount + 1,
                           !.reuseDistance = ReuseOnTouch(d),
                           !.lastTouchTick = curTick,
                           !.lastAccessCounter = globalAccessCounter,
                           !.pc = TouchedPC(d, pc)]
<1>0. /\ d \in LineType /\ ops < MaxOps
      /\ d.accessCount \in 0 .. ops /\ d.lastAccessCounter \in 0 .. globalAccessCounter
      /\ ops \in 0 .. MaxOps /\ globalAccessCounter \in 0 .. ops /\ curTick \in 0 .. MaxTick
  BY InvFacts DEF Touch
<1>1. d.reuseDistance \in 0 .. MaxOps /\ d.pc \in LinePCs
  BY <1>0, Zenon DEF LineType
<1>2. ReuseOnTouch(d) \in 0 .. MaxOps
  BY <1>0, <1>1, BoundsNat DEF ReuseOnTouch
<1>3. TouchedPC(d, pc) \in LinePCs
  BY <1>1 DEF TouchedPC, LinePCs
<1>4. nd \in LineType
  <2>1. d.accessCount + 1 \in 0 .. MaxOps /\ globalAccessCounter \in 0 .. MaxOps
    BY <1>0, BoundsNat
  <2>. QED  BY <1>0, <1>2, <1>3, <2>1, Zenon DEF LineType
<1>5. TableInv' /\ weights' \in WeightChoices
  <2>1. CASE pc = NoPC
    <3>1. UNCHANGED <<evictTable, weights, trained, tracked>>
      BY <2>1 DEF Touch
    <3>2. Balance'
      BY <3>1, InvFacts DEF Balance
    <3>. QED  BY <3>1, <3>2, InvFacts DEF TableInv
  <2>2. CASE pc \in PCs
    <3>1. /\ evictTable' = Checked(evictTable, pc)
          /\ weights' \in IF Hit(evictTable, pc) THEN WeightChoices ELSE {weights}
          /\ trained' = IF Hit(evictTable, pc) THEN [trained EXCEPT ![pc] = @ + 1] ELSE trained
          /\ tracked' = tracked
      <4>1. pc # NoPC
        BY <2>2, ConstFacts
      <4>. QED  BY <4>1 DEF Touch, CheckEvictedReuse
    <3>2. /\ Checked(evictTable, pc) \in [EvictSlots -> EntryType]
          /\ (IF Hit(evictTable, pc) THEN [trained EXCEPT ![pc] = @ + 1] ELSE trained)
               \in [LinePCs -> Nat]
          /\ \A p \in PCs : (IF Hit(evictTable, pc) THEN [trained EXCEPT ![pc] = @ + 1] ELSE trained)[p]
                            + PendingIn(Checked(evictTable, pc), p) <= tracked[p]
      BY <2>2, InvFacts, CheckedKeeps DEF Balance
    <3>3. weights' \in WeightChoices
      BY <3>1, InvFacts
    <3>. QED  BY <3>1, <3>2, <3>3, InvFacts DEF TableInv, Balance
  <2>. QED  BY <2>1, <2>2
<1>6. ComputePriority(nd, weights', curTick) \in Int
  BY <1>0, <1>4, <1>5, PriorityBound
<1>7. repl' = [repl EXCEPT ![w] = [nd EXCEPT !.priority = ComputePriority(nd, weights', curTick)]]
  BY DEF Touch
<1>8. globalAccessCounter' = globalAccessCounter + 1 /\ ops' = ops + 1 /\ curTick' = curTick
  BY DEF Touch
<1>9. LineInv'
  <2>1. repl' \in [Ways -> LineType]
    BY <1>4, <1>6, <1>7, InvFacts DEF LineType
  <2>2. ASSUME NEW u \in Ways
        PROVE  repl'[u].lastAccessCounter <= globalAccessCounter' /\ repl'[u].accessCount <= ops'
    <3>1. CASE u = w
      BY <1>0, <1>7, <1>8, <3>1, InvFacts
    <3>2. CASE u # w
      BY <1>7, <1>8, <3>2, InvFacts
    <3>. QED  BY <3>1, <3>2
  <2>. QED  BY <2>1, <2>2 DEF LineInv
<1>10. CounterInv'
  BY <1>0, <1>8, BoundsNat DEF CounterInv
<1>11. ModelInv'
  BY <1>5, InvFacts DEF ModelInv, Touch
<1>. QED  BY <1>5, <1>9, <1>10, <1>11 DEF IInv

(* The priority bound of a weight vector is an integer. *)
LEMMA PrioBoundInt ==
  ASSUME NEW w8 \in WeightChoices PROVE PrioBound(w8) \in Int
<1>1. w8 \in Weights  BY ConstFacts
<1>2. /\ w8.pc \in Int /\ w8.age \in Int /\ w8.cnt \in Int
      /\ w8.reuse \in Int /\ w8.bias \in Int
  BY <1>1, Zenon DEF Weights
<1>3. /\ Abs(w8.pc) \in Int /\ Abs(w8.age) \in Int /\ Abs(w8.cnt) \in Int
      /\ Abs(w8.reuse) \in Int /\ Abs(w8.bias) \in Int
  BY <1>2 DEF Abs
<1>. QED  BY <1>3, ScalePos DEF PrioBound

(***************************************************************************)
(* A miss: getVictim has a victim (FirstMaxExists over the recomputed      *)
(* priorities), trackEviction and checkEvictedReuse keep the balance, and *)
(* the reset line stamps the current counter.                              *)
(***************************************************************************)
LEMMA MissInv ==
  ASSUME IInv, NEW pc \in PCs \cup {NoPC}, NEW withPkt \in BOOLEAN, Miss(pc, withPkt)
  PROVE  IInv'
<1> DEFINE prio == FreshPriorities
           v == FirstMax(prio)
           q == repl[v].pc
           et == Tracked(q)
           tk == IF EnableOnlineLearning THEN [tracked EXCEPT ![q] = @ + 1] ELSE tracked
           d == IF valid[v] THEN InvalidatedData ELSE [repl[v] EXCEPT !.priority = prio[v]]
           nd == IF withPkt
                 THEN [d EXCEPT !.insertTick = curTick, !.lastTouchTick = curTick,
                                !.accessCount = 0, !.reuseDistance = 0,
                                !.lastAccessCounter = globalAccessCounter,
                                !.pc = IF pc = NoPC THEN 0 ELSE pc]
                 ELSE [d EXCEPT !.insertTick = curTick, !.lastTouchTick = curTick,
                                !.accessCount = 0, !.pc = 0]
<1>0. /\ repl \in [Ways -> LineType] /\ ops < MaxOps
      /\ ops \in 0 .. MaxOps /\ globalAccessCounter \in 0 .. ops /\ curTick \in 0 .. MaxTick
      /\ weights \in WeightChoices /\ valid \in [Ways -> BOOLEAN]
  BY InvFacts DEF Miss
<1>1. /\ prio \in [Ways -> Int]
      /\ \A u \in Ways : prio[u] <= PrioBound(weights)
  BY <1>0, PriorityBound DEF FreshPriorities
<1>2. v \in Ways
  BY <1>0, <1>1, PrioBoundInt, FirstMaxExists
<1>3. q \in LinePCs /\ repl[v].lastAccessCounter \in 0 .. globalAccessCounter
  <2>1. q \in LinePCs  BY <1>0, <1>2, Zenon DEF LineType
  <2>. QED  BY <1>2, <2>1, InvFacts
<1>4. /\ et \in [EvictSlots -> EntryType]
      /\ tk \in [LinePCs -> Nat]
      /\ \A p \in PCs : trained[p] + PendingIn(et, p) <= tk[p]
  BY <1>0, <1>3, InvFacts, TrackedKeeps DEF Balance
<1>5. /\ tracked' = tk
      /\ repl' = [w \in Ways |->
                    IF w = v THEN [nd EXCEPT !.priority = ComputePriority(nd, weights', curTick)]
                    ELSE [repl[w] EXCEPT !.priority = prio[w]]]
      /\ globalAccessCounter' = IF withPkt THEN globalAccessCounter + 1 ELSE globalAccessCounter
      /\ valid' = [valid EXCEPT ![v] = TRUE]
      /\ ops' = ops + 1 /\ curTick' = curTick
  BY DEF Miss
<1>6. TableInv' /\ weights' \in WeightChoices
  <2>1. CASE withPkt /\ pc \in PCs
    <3>1. /\ evictTable' = Checked(et, pc)
          /\ weights' \in IF Hit(et, pc) THEN WeightChoices ELSE {weights}
          /\ trained' = IF Hit(et, pc) THEN [trained EXCEPT ![pc] = @ + 1] ELSE trained
      BY <2>1 DEF Miss, CheckEvictedReuse
    <3>2. /\ Checked(et, pc) \in [EvictSlots -> EntryType]
          /\ (IF Hit(et, pc) THEN [trained EXCEPT ![pc] = @ + 1] ELSE trained)
               \in [LinePCs -> Nat]
          /\ \A p \in PCs : (IF Hit(et, pc) THEN [trained EXCEPT ![pc] = @ + 1] ELSE trained)[p]
                            + PendingIn(Checked(et, pc), p) <= tk[p]
      BY <2>1, <1>4, InvFacts, CheckedKeeps
    <3>3. weights' \in WeightChoices
      BY <3>1, <1>0
    <3>4. trained' \in [LinePCs -> Nat] /\ evictTable' \in [EvictSlots -> EntryType]
      BY <3>1, <3>2
    <3>5. Balance'
      BY <1>5, <3>1, <3>2 DEF Balance
    <3>. QED  BY <1>4, <1>5, <3>3, <3>4, <3>5 DEF TableInv
  <2>2. CASE withPkt /\ pc = NoPC
    <3>1. ~Hit(et, pc)
      BY <2>2 DEF Hit
    <3>2. evictTable' = et /\ weights' = weights /\ trained' = trained
      BY <2>2, <3>1 DEF Miss, CheckEvictedReuse, Checked
    <3>. QED  BY <1>0, <1>4, <1>5, <3>2, InvFacts DEF TableInv, Balance
  <2>3. CASE ~withPkt
    <3>1. evictTable' = et /\ weights' = weights /\ trained' = trained
      BY <2>3 DEF Miss
    <3>. QED  BY <1>0, <1>4, <1>5, <3>1, InvFacts DEF TableInv, Balance
  <2>. QED  BY <2>1, <2>2, <2>3
<1>7. /\ d \in LineType
      /\ d.lastAccessCounter \in 0 .. globalAccessCounter
  <2>1. CASE valid[v]
    <3>1. InvalidatedData \in LineType /\ InvalidatedData.lastAccessCounter = 0
      BY ConstFacts DEF InvalidatedData, NewData, LineType, LinePCs, PrioMax
    <3>. QED  BY <1>0, <2>1, <3>1
  <2>2. CASE ~valid[v]
    <3>1. [repl[v] EXCEPT !.priority = prio[v]] \in LineType
      BY <1>0, <1>1, <1>2, Zenon DEF LineType
    <3>. QED  BY <1>3, <2>2, <3>1
  <2>. QED  BY <2>1, <2>2
<1>8. /\ nd \in LineType
      /\ nd.lastAccessCounter <= globalAccessCounter'
      /\ nd.accessCount = 0
  <2>1. globalAccessCounter \in 0 .. MaxOps /\ 0 \in 0 .. MaxOps /\ 0 \in LinePCs
    BY <1>0, BoundsNat DEF LinePCs
  <2>2. (IF pc = NoPC THEN 0 ELSE pc) \in LinePCs
    BY DEF LinePCs
  <2>3. CASE withPkt
    <3>1. nd \in LineType
      BY <1>0, <1>7, <2>1, <2>2, <2>3, Zenon DEF LineType
    <3>. QED  BY <1>0, <1>5, <1>7, <2>3, <3>1
  <2>4. CASE ~withPkt
    <3>1. nd \in LineType
      BY <1>0, <1>7, <2>1, <2>4, Zenon DEF LineType
    <3>. QED  BY <1>0, <1>5, <1>7, <2>4, <3>1
  <2>. QED  BY <2>3, <2>4
<1>9. LineInv'
  <2>1. ComputePriority(nd, weights', curTick) \in Int
    BY <1>0, <1>6, <1>8, PriorityBound
  <2>2. \A w \in Ways : w # v => [repl[w] EXCEPT !.priority = prio[w]] \in LineType
    BY <1>0, <1>1, Zenon DEF LineType
  <2>3. repl' \in [Ways -> LineType]
    BY <1>5, <1>8, <2>1, <2>2, Zenon DEF LineType
  <2>4. ASSUME NEW u \in Ways
        PROVE  repl'[u].lastAccessCounter <= globalAccessCounter' /\ repl'[u].accessCount <= ops'
    <3>1. CASE u = v
      <4>1. repl'[u] = [nd EXCEPT !.priority = ComputePriority(nd, weights', curTick)]
        BY <1>2, <1>5, <3>1
      <4>2. repl'[u].lastAccessCounter = nd.lastAccessCounter /\ repl'[u].accessCount = nd.accessCount
        BY <1>8, <4>1, Zenon DEF LineType
      <4>. QED  BY <1>0, <1>5, <1>8, <4>2
    <3>2. CASE u # v
      <4>1. repl'[u] = [repl[u] EXCEPT !.priority = prio[u]]
        BY <1>5, <3>2
      <4>2. repl'[u].lastAccessCounter = repl[u].lastAccessCounter
            /\ repl'[u].accessCount = repl[u].accessCount
        BY <1>0, <4>1, Zenon DEF LineType
      <4>. QED  BY <1>0, <1>5, <4>2, InvFacts
    <3>. QED  BY <3>1, <3>2
  <2>. QED  BY <2>3, <2>4 DEF LineInv
<1>10. CounterInv'
  BY <1>0, <1>5, BoundsNat DEF CounterInv
<1>11. ModelInv'
  BY <1>0, <1>5, <1>6 DEF ModelInv
<1>. QED  BY <1>6, <1>9, <1>10, <1>11 DEF IInv

(* Every step of the policy, and a stutter, keeps the invariant. *)
LEMMA NextInv == IInv /\ [Next]_vars => IInv'
<1> SUFFICES ASSUME IInv, [Next]_vars PROVE IInv'
  OBVIOUS
<1>1. CASE AdvanceTick
  BY <1>1, AdvanceInv
<1>2. CASE \E w \in Ways, pc \in PCs \cup {NoPC} : Touch(w, pc)
  BY <1>2, TouchInv
<1>3. CASE \E w \in Ways : TouchConst(w)
  BY <1>3, TouchConstInv
<1>4. CASE \E w \in Ways : Invalidate(w)
  BY <1>4, InvalidateInv
<1>5. CASE \E pc \in PCs \cup {NoPC} : Miss(pc, TRUE)
  BY <1>5, MissInv
<1>6. CASE Miss(NoPC, FALSE)
  BY <1>6, MissInv
<1>7. CASE UNCHANGED vars
  <2>0. UNCHANGED <<repl, globalAccessCounter, curTick, evictTable, weights, ops,
                   valid, tracked, trained>>
    BY <1>7 DEF vars
  <2>1. Balance'  BY <2>0 DEF IInv, TableInv, Balance
  <2>2. CounterInv' /\ LineInv' /\ ModelInv'
    BY <2>0 DEF IInv, CounterInv, LineInv, ModelInv
  <2>3. TableInv'
    BY <2>0, <2>1 DEF IInv, TableInv
  <2>. QED  BY <2>2, <2>3 DEF IInv
<1>. QED  BY <1>1, <1>2, <1>3, <1>4, <1>5, <1>6, <1>7 DEF Next

(* The strengthened invariant holds in every reachable state. *)
LEMMA AlwaysInv == Spec => []IInv
BY InitInv, NextInv, PTL DEF Spec

(***************************************************************************)
(* Type correctness of the policy for every configuration: every line's   *)
(* fields stay in range, so in particular touch()'s uint64 subtraction    *)
(* globalAccessCounter - lastAccessCounter never wraps.                   *)
(***************************************************************************)
THEOREM TypeCorrect == Spec => []TypeOK
<1>1. IInv => TypeOK
  <2> SUFFICES ASSUME IInv PROVE TypeOK
    OBVIOUS
  <2>1. repl \in [Ways -> DataType]
    <3>1. \A x \in LineType : x \in DataType
      BY LinePCsNat, Zenon DEF LineType, DataType
    <3>. QED  BY <3>1, InvFacts
  <2>2. globalAccessCounter \in 0 .. MaxOps
    BY InvFacts, BoundsNat
  <2>3. evictTable \in [EvictSlots -> [pc : Nat, evictTick : 0 .. MaxTick, valid : BOOLEAN]]
    <3>1. \A x \in EntryType : x \in [pc : Nat, evictTick : 0 .. MaxTick, valid : BOOLEAN]
      BY LinePCsNat, Zenon DEF EntryType
    <3>. QED  BY <3>1, InvFacts
  <2>. QED  BY <2>1, <2>2, <2>3, InvFacts DEF TypeOK
<1>. QED  BY <1>1, AlwaysInv, PTL

(***************************************************************************)
(* TrainingMatchesEviction for every configuration: checkEvictedReuse     *)
(* trains a pc at most once per trackEviction of one of its lines, however *)
(* the pcs collide in the eviction table.                                 *)
(***************************************************************************)
THEOREM TrainingInvariant == Spec => []TrainingMatchesEviction
<1>1. IInv => TrainingMatchesEviction
  <2> SUFFICES ASSUME IInv, NEW p \in PCs PROVE trained[p] <= tracked[p]
    BY DEF TrainingMatchesEviction
  <2>1. p \in LinePCs  BY DEF LinePCs
  <2>2. PendingIn(evictTable, p) \in {0, 1}  BY DEF PendingIn
  <2>. QED  BY <2>1, <2>2, InvFacts DEF Balance
<1>. QED  BY <1>1, AlwaysInv, PTL
====
