----------------------------- MODULE Mockingjay -----------------------------
(***************************************************************************)
(* The Mockingjay replacement policy (mockingjay.cc) on one cache set, as  *)
(* the gem5 set-associative tags drive it.  Each way holds a               *)
(* MockingjayReplData; the policy also keeps globalAccessCounter, the      *)
(* eviction table and the weights of its linear model.                     *)
(*                                                                         *)
(* Priorities are doubles in the code.  Here they are integers in fixed    *)
(* point: features are scaled by FeatScale, weights by WeightScale.  The   *)
(* logarithmic features are given as tables (AgeFeat, CountFeat,          *)
(* ReuseFeat) computed from the code's formulas over the bounded inputs.  *)
(* The gradient step of updateWeights is abstracted: the new weights are  *)
(* any member of WeightChoices.                                           *)
(*                                                                         *)
(* valid, lastRef, refReuse, tracked, trained and lastMiss are not policy *)
(* state: valid is the tags' view of which ways hold a block, the others  *)
(* are history variables the properties refer to.                         *)
(***************************************************************************)
EXTENDS Integers, FiniteSets

CONSTANTS
  Ways,                  \* the ways of the set, in candidate order
  PCs,                   \* program counters a request may carry
  NoPC,                  \* a request without a PC
  EnableOnlineLearning,  \* enable_online_learning
  WeightChoices,         \* the weights updateWeights may produce
  AgeFeat,               \* computeAgeFeature by age in ticks
  CountFeat,             \* computeAccessCountFeature by count
  ReuseFeat,             \* computeReuseDistanceFeature by distance
  MaxTick,               \* model bound on curTick()
  MaxOps                 \* model bound on the policy calls

FeatScale == 1000000
WeightScale == 100

(* The constructor's weights: 0.25, 0.35, -0.30, 0.40 and bias 0. *)
DefaultWeights == [pc |-> 25, age |-> 35, cnt |-> -30, reuse |-> 40, bias |-> 0]

Weights == [pc : Int, age : Int, cnt : Int, reuse : Int, bias : Int]

ASSUME MockingjayAssumption ==
  /\ Ways \subseteq Nat /\ Ways # {} /\ IsFiniteSet(Ways)
  /\ PCs \subseteq Nat /\ NoPC \notin Nat
  /\ EnableOnlineLearning \in BOOLEAN
  /\ DefaultWeights \in WeightChoices /\ WeightChoices \subseteq Weights
  /\ MaxTick \in Nat /\ MaxOps \in Nat
  /\ AgeFeat \in [0 .. MaxTick -> 0 .. FeatScale]
  /\ CountFeat \in [0 .. MaxOps -> 0 .. FeatScale]
  /\ ReuseFeat \in [0 .. MaxOps -> 0 .. FeatScale]

(* numeric_limits<double>::max(): above every priority the model computes. *)
PrioMax == 1000000000

VARIABLES
  repl,                 \* way -> MockingjayReplData
  globalAccessCounter,
  curTick,              \* curTick() of the simulation
  evictTable,           \* slot -> EvictedEntry (the slots the PCs can reach)
  weights,
  ops,                  \* number of policy calls so far (model bound)
  valid, lastRef, refReuse, tracked, trained, lastMiss

vars == <<repl, globalAccessCounter, curTick, evictTable, weights, ops,
          valid, lastRef, refReuse, tracked, trained, lastMiss>>

(* MockingjayReplData(): every field 0. *)
NewData == [pc |-> 0, insertTick |-> 0, lastTouchTick |-> 0, accessCount |-> 0,
            reuseDistance |-> 0, lastAccessCounter |-> 0, priority |-> 0]

(* The slot of the eviction table a pc hashes to. *)
EvictIndex(pc) == (pc \div 64) % 64

(* The slots reachable from the pcs lines can hold (0 when none was given). *)
EvictSlots == {EvictIndex(p) : p \in PCs \cup {0}}

NoEntry == [pc |-> 0, evictTick |-> 0, valid |-> FALSE]

(***************************************************************************)
(* computePriority: the linear model on the four features at tick now.    *)
(* The age is 0 for a line inserted at tick 0 or not older than now.      *)
(***************************************************************************)
PcHashFeature(pc) == ((pc % 1024) * FeatScale) \div 1024

AgeFeature(insertTick, now) ==
  IF insertTick = 0 \/ now <= insertTick THEN 0 ELSE AgeFeat[now - insertTick]

ComputePriority(d, w8, now) ==
  w8.pc * PcHashFeature(d.pc) + w8.age * AgeFeature(d.insertTick, now)
  + w8.cnt * CountFeat[d.accessCount] + w8.reuse * ReuseFeat[d.reuseDistance]
  + w8.bias * FeatScale

Init ==
  /\ repl = [w \in Ways |-> NewData]
  /\ globalAccessCounter = 0
  /\ curTick = 0
  /\ evictTable = [i \in EvictSlots |-> NoEntry]
  /\ weights = DefaultWeights
  /\ ops = 0
  /\ valid = [w \in Ways |-> FALSE]
  /\ lastRef = [w \in Ways |-> -1]
  /\ refReuse = [w \in Ways |-> 0]
  /\ tracked = [p \in PCs \cup {0} |-> 0]
  /\ trained = [p \in PCs \cup {0} |-> 0]
  /\ lastMiss = [n |-> 0, way |-> CHOOSE w \in Ways : TRUE,
                 sawInvalid |-> FALSE, tookInvalid |-> FALSE]

(***************************************************************************)
(* checkEvictedReuse(pc): with online learning, a request whose pc owns a *)
(* valid record of the eviction table trains the model once (updateWeights*)
(* on that record) and clears the record.  et is the table at that moment.*)
(***************************************************************************)
Hit(et, pc) ==
  /\ EnableOnlineLearning
  /\ pc # NoPC
  /\ et[EvictIndex(pc)].valid
  /\ et[EvictIndex(pc)].pc = pc

(* Mutant: the record is not cleared after training. *)
CheckedKeepValid(et, pc) == et

Checked(et, pc) ==
  IF Hit(et, pc) THEN [et EXCEPT ![EvictIndex(pc)].valid = FALSE] ELSE et

(* The whole of checkEvictedReuse, the table being et before the call. *)
CheckEvictedReuse(et, pc) ==
  /\ evictTable' = Checked(et, pc)
  /\ weights' \in IF Hit(et, pc) THEN WeightChoices ELSE {weights}
  /\ trained' = IF Hit(et, pc) THEN [trained EXCEPT ![pc] = @ + 1] ELSE trained

(* trackEviction(pc, tick): the record of the victim's pc is overwritten. *)
Tracked(pc) ==
  IF EnableOnlineLearning
  THEN [evictTable EXCEPT ![EvictIndex(pc)] = [pc |-> pc, evictTick |-> curTick, valid |-> TRUE]]
  ELSE evictTable

(* Mutant: the pc is taken without asking whether the request has one. *)
TouchedPCNoGuard(d, pc) == pc

(* The pc touch(data, pkt) leaves: the request's if it has one. *)
TouchedPC(d, pc) == IF pc = NoPC THEN d.pc ELSE pc

(* The reuse distance touch(data, pkt) computes (a uint64 subtraction). *)
ReuseOnTouch(d) ==
  IF d.lastAccessCounter > 0 THEN globalAccessCounter - d.lastAccessCounter ELSE d.reuseDistance

(***************************************************************************)
(* touch(data, pkt) on a hit: count the access, take the reuse distance   *)
(* from lastAccessCounter if it is non-zero, stamp the access, take the   *)
(* pc and check the eviction table if the request has one, recompute the  *)
(* priority (with the weights checkEvictedReuse left).                    *)
(***************************************************************************)
Touch(w, pc) ==
  /\ ops < MaxOps
  /\ valid[w]
  /\ LET d == repl[w]
         nd == [d EXCEPT !.accessCount = d.accessCount + 1,
                         !.reuseDistance = ReuseOnTouch(d),
                         !.lastTouchTick = curTick,
                         !.lastAccessCounter = globalAccessCounter,
                         !.pc = TouchedPC(d, pc)]
     IN /\ IF pc = NoPC THEN UNCHANGED <<evictTable, weights, trained>>
           ELSE CheckEvictedReuse(evictTable, pc)
        /\ repl' = [repl EXCEPT ![w] = [nd EXCEPT !.priority = ComputePriority(nd, weights', curTick)]]
  /\ globalAccessCounter' = globalAccessCounter + 1
  /\ ops' = ops + 1
  /\ lastRef' = [lastRef EXCEPT ![w] = globalAccessCounter]
  /\ refReuse' = [refReuse EXCEPT ![w] = IF lastRef[w] >= 0 THEN globalAccessCounter - lastRef[w] ELSE @]
  /\ UNCHANGED <<curTick, valid, tracked, lastMiss>>

(* touch(data) const: count the access, stamp the tick, recompute the priority. *)
TouchConst(w) ==
  /\ ops < MaxOps
  /\ valid[w]
  /\ LET nd == [repl[w] EXCEPT !.accessCount = @ + 1, !.lastTouchTick = curTick]
     IN repl' = [repl EXCEPT ![w] = [nd EXCEPT !.priority = ComputePriority(nd, weights, curTick)]]
  /\ ops' = ops + 1
  /\ UNCHANGED <<globalAccessCounter, curTick, evictTable, weights, valid, lastRef, refReuse,
                 tracked, trained, lastMiss>>

(* invalidate(data): every field 0 and the priority at its maximum. *)
InvalidatedData == [NewData EXCEPT !.priority = PrioMax]

(* The tags invalidate a block (coherence, writeback of a clean copy). *)
Invalidate(w) ==
  /\ ops < MaxOps
  /\ valid[w]
  /\ repl' = [repl EXCEPT ![w] = InvalidatedData]
  /\ valid' = [valid EXCEPT ![w] = FALSE]
  /\ lastRef' = [lastRef EXCEPT ![w] = -1]
  /\ refReuse' = [refReuse EXCEPT ![w] = 0]
  /\ ops' = ops + 1
  /\ UNCHANGED <<globalAccessCounter, curTick, evictTable, weights, tracked, trained, lastMiss>>

(* getVictim's first pass: every candidate's priority recomputed now. *)
FreshPriorities == [w \in Ways |-> ComputePriority(repl[w], weights, curTick)]

(***************************************************************************)
(* getVictim's second pass: starting from the first candidate, a later    *)
(* candidate replaces the victim only if its priority is strictly        *)
(* greater, so the victim is the first candidate of maximal priority.    *)
(***************************************************************************)
FirstMax(prio) ==
  CHOOSE v \in Ways : /\ \A u \in Ways : prio[u] <= prio[v]
                      /\ \A u \in Ways : u < v => prio[u] < prio[v]

(* A way invalidate() emptied, still holding the maximal priority it stored. *)
Emptied(w) == ~valid[w] /\ repl[w].priority = PrioMax

(***************************************************************************)
(* A miss of a request with pc (NoPC: none) as the tags handle it:        *)
(* getVictim over the ways of the set (which stores the recomputed        *)
(* priorities and tracks the eviction), invalidate on the victim if it    *)
(* holds a block, then reset(data, pkt) or reset(data) on it: stamp the  *)
(* insertion, zero the counters, take the pc and check the eviction      *)
(* table, compute the priority.                                           *)
(***************************************************************************)
Miss(pc, withPkt) ==
  /\ ops < MaxOps
  /\ LET prio == FreshPriorities
         v == FirstMax(prio)
         et == Tracked(repl[v].pc)
         d == IF valid[v] THEN InvalidatedData ELSE [repl[v] EXCEPT !.priority = prio[v]]
         nd == IF withPkt
               THEN [d EXCEPT !.insertTick = curTick, !.lastTouchTick = curTick,
                              !.accessCount = 0, !.reuseDistance = 0,
                              !.lastAccessCounter = globalAccessCounter,
                              !.pc = IF pc = NoPC THEN 0 ELSE pc]
               ELSE [d EXCEPT !.insertTick = curTick, !.lastTouchTick = curTick,
                              !.accessCount = 0, !.pc = 0]
     IN /\ IF withPkt THEN CheckEvictedReuse(et, pc)
           ELSE /\ evictTable' = et
                /\ UNCHANGED <<weights, trained>>
        /\ repl' = [w \in Ways |->
                      IF w = v THEN [nd EXCEPT !.priority = ComputePriority(nd, weights', curTick)]
                      ELSE [repl[w] EXCEPT !.priority = prio[w]]]
        /\ globalAccessCounter' = IF withPkt THEN globalAccessCounter + 1 ELSE globalAccessCounter
        /\ tracked' = IF EnableOnlineLearning
                      THEN [tracked EXCEPT ![repl[v].pc] = @ + 1] ELSE tracked
        /\ valid' = [valid EXCEPT ![v] = TRUE]
        /\ lastRef' = [lastRef EXCEPT ![v] = IF withPkt THEN globalAccessCounter ELSE -1]
        /\ refReuse' = [refReuse EXCEPT ![v] = 0]
        /\ lastMiss' = [n |-> lastMiss.n + 1, way |-> v,
                        sawInvalid |-> \E u \in Ways : Emptied(u),
                        tookInvalid |-> ~valid[v]]
  /\ ops' = ops + 1
  /\ UNCHANGED curTick

(* Simulated time advances. *)
AdvanceTick ==
  /\ curTick < MaxTick
  /\ curTick' = curTick + 1
  /\ UNCHANGED <<repl, globalAccessCounter, evictTable, weights, ops, valid, lastRef,
                 refReuse, tracked, trained, lastMiss>>

Next ==
  \/ AdvanceTick
  \/ \E w \in Ways, pc \in PCs \cup {NoPC} : Touch(w, pc)
  \/ \E w \in Ways : TouchConst(w)
  \/ \E w \in Ways : Invalidate(w)
  \/ \E pc \in PCs \cup {NoPC} : Miss(pc, TRUE)
  \/ Miss(NoPC, FALSE)

Spec == Init /\ [][Next]_vars

-----------------------------------------------------------------------------
DataType == [pc : Nat, insertTick : 0 .. MaxTick, lastTouchTick : 0 .. MaxTick,
             accessCount : 0 .. MaxOps, reuseDistance : 0 .. MaxOps,
             lastAccessCounter : 0 .. MaxOps, priority : Int]

TypeOK ==
  /\ repl \in [Ways -> DataType]
  /\ globalAccessCounter \in 0 .. MaxOps
  /\ curTick \in 0 .. MaxTick
  /\ evictTable \in [EvictSlots -> [pc : Nat, evictTick : 0 .. MaxTick, valid : BOOLEAN]]
  /\ weights \in WeightChoices
  /\ valid \in [Ways -> BOOLEAN]

(***************************************************************************)
(* Online learning trains on a pc at most once per eviction of a line of  *)
(* that pc (checkEvictedReuse clears the record it used, and a record     *)
(* trains only the pc that wrote it, however the pcs collide in the      *)
(* 64-slot table).                                                        *)
(***************************************************************************)
TrainingMatchesEviction == \A p \in PCs : trained[p] <= tracked[p]

(***************************************************************************)
(* touch(data, pkt) keeps reuseDistance as "global accesses since last    *)
(* touch": once a block has been accessed twice with a packet since it   *)
(* was inserted, its reuse distance is the number of global accesses     *)
(* between those two accesses.                                            *)
(***************************************************************************)
ReuseDistanceExact == \A w \in Ways : valid[w] => repl[w].reuseDistance = refReuse[w]

(***************************************************************************)
(* invalidate() gives an invalidated line the maximal priority "to ensure *)
(* immediate eviction": a miss in a set where a way still holds the      *)
(* priority invalidate() stored evicts an invalid way, never a valid     *)
(* block.                                                                 *)
(***************************************************************************)
InvalidWayPreferred == lastMiss.sawInvalid => lastMiss.tookInvalid

(***************************************************************************)
(* The header documents computeAgeFeature as "time since insertion": a    *)
(* block inserted at an earlier tick than now has the age feature of the  *)
(* ticks elapsed since its reset stamped insertTick.                      *)
(***************************************************************************)
AgeSinceInsertion ==
  \A w \in Ways : valid[w] /\ repl[w].insertTick < curTick =>
                    AgeFeature(repl[w].insertTick, curTick) = AgeFeat[curTick - repl[w].insertTick]
====
