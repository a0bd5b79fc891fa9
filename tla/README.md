# TLA+ models of the GHB prefetcher and the Mockingjay replacement policy

This directory holds the TLA+ verification of the two gem5 components in
`src/final_project/ca-final/src/mem/cache/`:

- `prefetch/ghb_history.{hh,cc}`, `prefetch/ghb.{hh,cc}`: a Global History
  Buffer (GHB) prefetcher. It has three parts:
  - `GHBHistory` keeps a circular history of accesses, linked per
    correlation key (PC and page), with sequence stamps.
  - It also keeps a learned table of delta pairs.
  - `GHBPrefetcher::calculatePrefetch` drives both on every observed access.
- `replacement_policies/mockingjay.{hh,cc}`: a linear-model replacement
  policy. It is independent of the prefetcher.

## Inventory: parts of the system and where they are modelled

| Part | Source | Module | Status |
|---|---|---|---|
| History buffer, PC/page indices, eviction, link wiring, `reset` | `ghb_history.cc` 17-126, 33-48 | `GHBHistory` | modelled |
| Pattern builder (`buildPattern`, stale-link check) | `ghb_history.cc` 128-155 | `GHBHistory` | modelled |
| What the buffer promises: a window of the last N accesses | (abstraction) | `GHBWindow` | abstract spec |
| Pattern table (`updatePatternTable`, `findPatternMatch`, `fallbackPattern`, table clear) | `ghb_history.cc` 49, 157-218 | `PatternTable` | modelled |
| `calculatePrefetch` pipeline | `ghb.cc` 29-89 | `GHBPrefetcher` | modelled |
| Mockingjay policy: `touch` (both), `reset` (both), `invalidate`, `getVictim`, eviction table, `checkEvictedReuse` | `mockingjay.cc` 138-513 | `Mockingjay` | modelled (gradient step abstracted) |
| Constructor and weights file (`loadWeights`, `extractWeight`, `parseJsonNumber`, `parseJsonBool`) | `mockingjay.cc` 44-204 | `MockingjayConfig` | modelled (JSON text abstracted) |
| Unit tests, benchmarks | `ghb_history.test.cc`, `formace-lab/benchmarks` | none | not modelled |

## How the modules correspond to the code

### `GHBHistory`

**State.** The variables are the members of `GHBHistory`:

- `history`: one record per slot, `[addr, seq, links]`, with one `LinkInfo`
  per key kind (`prev`, `prevSeq`, `keyValue`, `keyValid`).
- `lastIndex`: one finite map per key kind, from a key value to a slot. It
  models `std::unordered_map`.
- `head`, `filled` and `sequenceCounter`.

**Constants.**

- `HistorySizeParam` and `PatternLengthParam` are clamped to at least 1,
  as the constructor does.
- `PageBytes`, `UsePC`, `AddrBits`, `Addrs` and `PCs`.
- `NoPC` stands for an absent `std::optional` pc.
- `MaxInserts` bounds the sequence counter for TLC.

**Actions.**

- `Insert(a, pc)` is the whole of `insert()`, in this order:
  1. evict the head slot if the buffer is filled (`EvictedIndex`, with the
     owner check of `removeIndexMappings`);
  2. stamp the new sequence number;
  3. wire the PC link, or clear it;
  4. wire the page link (`Wire`, from `assignCorrelation`, which reads
     `prevSeq` after the new stamp: `SeqAt`);
  5. advance the head and set `filled`.
- `Reset` is `reset()` without its last line, `patternTable.clear()`. That
  line touches only the table, which lives in `PatternTable`, where it is
  `ClearTable`.

**Walk.** `BuildPattern(hist, index, key)` is the `buildPattern` loop:

- It follows the links while `prev >= 0` and the predecessor's live `seq`
  equals the stamp.
- It collects at most `patternLength` deltas.
- Deltas are `AddrBits`-bit two's complement differences, as the `int64`
  cast of 64-bit addresses is.

### `GHBWindow`

`GHBWindow` is the abstract specification. `window` is the sequence of the
last `Capacity` accesses. `WindowPattern(k)` is the list of deltas between
consecutive remembered accesses that share the newest access's key value.

`GHBHistory` maps to it by `Window`, which reads the live slots from the
oldest one.

### `PatternTable`

- `patternTable` maps a delta pair to `[counts, total]`.
- Counters are reduced modulo `2^CountBits`, the width of `uint32_t` in the
  code.
- `LearnedTable` is the closed form of the `updatePatternTable` loop. Each
  triple's increments commute, so the loop adds the number of occurrences.
- `FindPatternMatch` returns the set of possible results. `std::sort` is not
  stable and the candidates come from an `unordered_map`, so on a tie any
  maximal delta may come first. `<<>>` is the `false` result.
- `observed` is a history variable, not code. It is the bag of triples
  taught since the last clear, and the predictions are judged against it.

### `GHBPrefetcher`

`GHBPrefetcher` composes one `GHBHistory` and one `PatternTable` through
`INSTANCE`. `CalculatePrefetch(addr, pc)` is one action, because the handler
is synchronous and single-threaded. It does these steps in order:

1. `blockAddress`;
2. insert;
3. the PC pattern, falling back to the page pattern;
4. reverse the pattern;
5. update the table;
6. predict: a learned match, else the fallback;
7. the address loop, which skips zero deltas, wraps modulo `2^AddrBits` and
   applies the same-page filter.

`issued` is the list of addresses the call emits.

`blockAddress` and `samePage` belong to gem5's base prefetcher, which is not
in this repository, so they are modelled from their meaning.

### `Mockingjay`
One cache set of `Ways`. `repl[w]` is the way's `MockingjayReplData`;
`globalAccessCounter`, `evictTable` (only the slots the modelled pcs hash to)
and `weights` are the policy's members; `curTick` is simulated time. The
actions are what gem5's set-associative tags do with the policy: `Touch(w, pc)`
and `TouchConst(w)` on a hit, `Invalidate(w)` when a block is invalidated,
and `Miss(pc, withPkt)` on a miss - `getVictim` over all ways (recompute and
store every priority, take the first way of maximal priority, track the
eviction), `invalidate` on the victim if it holds a block, then
`reset(data, pkt)` or `reset(data)`. `checkEvictedReuse` runs inside the
touch/reset that calls it, before the priority is recomputed, as in the code.
Priorities are fixed-point integers (features x 10^6, weights x 100); the log
features are tables computed from the code's formulas in `MC_Mockingjay`;
`numeric_limits<double>::max()` is `PrioMax`, above every computed priority.
`updateWeights`' floating-point gradient step is abstracted: the new weights
are any member of `WeightChoices` (only the default weights in evaluation
mode). `valid` (which ways hold a block: tags state), `lastRef`/`refReuse`
(the reference reuse distance), `tracked`/`trained` and `lastMiss` are history
variables for the properties.

### `MockingjayConfig`

The constructor: `Init` is the state after the member initialisers (default
weights, the `learning_rate` and `enable_online_learning` parameters), and
`Construct` is the body, which calls `loadWeights` when `weights_file` is set.
Its disjuncts are the three outcomes for the path: unset, cannot be opened
(warn only), or read.

- The input `file` is the JSON text, abstracted to what the string searches
  tell apart. It has a `features` list of objects, each with a `name` and
  perhaps a `weight`, and three top-level values. A value is a number
  (scaled by 100), `Missing` (the key or its delimiters is not found) or
  `Bad` (text `std::stod` rejects, so it throws).
- `ExtractWeight` is the `extractWeight` loop. It finds the first object
  with the name, then the first `weight` key at or after it
  (`WeightIndex`), and returns 0.0 when either search fails.
- `TryBlock` is the try block. The seven assignments run in the code's
  order (`WeightOrder`, `Parsed`), the ones before the first throw take
  effect, and the catch only warns. The rate is taken only if positive, and
  the flag is always overwritten.


| Run | What it shows |
|---|---|
| `ghb_history` (MC_GHBHistory) | See below. |
| `pattern_table` (MC_PatternTable) | With 8-bit counters, which four updates cannot wrap, every lookup of a learned pair returns a delta observed after it at least as often as any other (`PredictionIsMode`), and `total` is the sum of `counts` (`TotalIsSum`). |
| `pattern_table_wrap` (violation) | With the counters at their width (2 bits stands in for 32), two updates teaching `<<0,0,0>>` four times wrap `counts` and `total` to 0. The learned pair then gets no prediction. This is the uint32 wrap of `ghb_history.cc:167-168`. |
| `ghb_prefetcher` (MC_GHBPrefetcher) | Over a 4-slot buffer and raw addresses 1, 4 and 13 with 2-byte blocks: every issued candidate is on the block's page and differs from the block (`PrefetchOnPage`), and the running table predicts most frequent followers. The addresses are chosen so that delta additions wrap past the 4-bit address space, and learned matches and fallbacks both occur. |
| `mockingjay` (MC_Mockingjay) | 2 ways, pcs 64 and 4160 (same eviction-table slot), online learning with two possible weight vectors, 5 policy calls over ticks 0-2: no pc is trained more often than its lines were evicted (`TrainingMatchesEviction`), however the two pcs overwrite each other's record, and the line fields stay in range (`TypeOK`), which catches a wrapping reuse-distance subtraction. |
| `mockingjay_invalid` (violation) | Evaluation mode. Way 0 is filled, touched and invalidated after way 1 is filled by pc 64. The next miss evicts the valid way 1 while way 0 still holds the maximal priority `invalidate` stored (`InvalidWayPreferred`). getVictim recomputes way 0's priority from its zeroed fields (0), below way 1's pc term. `Emptied` restricts the property to such ways: once a miss has passed over an invalidated way, it cannot be told from a never-filled one. |
| `mockingjay_age` (violation) | A block inserted at tick 0 keeps age feature 0 at later ticks: `computeAgeFeature` reads `insertTick == 0` as "no age", while the header documents the age as the time since insertion (`AgeSinceInsertion`). |
| `mockingjay_config` (MC_MockingjayConfig) | Every file with up to two feature objects and numeric, absent or unparsable values, under an unset, unopenable or readable path and both flag parameters. The result is the initialisers overwritten by a prefix of the file's values in the code's order. The prefix is whole exactly when no parse warning is given, and only then do the learning parameters come from the file (`LoadIsPrefix`). |
| `mockingjay_config_partial` (violation) | A bad `learning_rate` makes the catch warn "using defaults" after the weights were already overwritten (with 0.0 for absent features) (`ParseErrorKeepsDefaults`). |
| `mockingjay_config_online` (violation) | A file without `enable_online_learning` turns online learning off, although the comment says the parameters are overridden only "if specified in file" (`OnlineFlagKeptUnlessGiven`). |
| `mockingjay_config_weight` (violation) | An object without a weight takes the weight of the next object, because the search for `"weight"` is not bounded by the object (`WeightFromOwnObject`). |
| `mockingjay_reuse` (violation) | Evaluation mode: the first block is reset at global counter 0; touched at counter 1, its reuse distance should be 1 but stays 0, because 0 is also the "never accessed" sentinel (`ReuseDistanceExact`). |

In `ghb_history`, a 3-slot buffer with 4 addresses on 2 pages and 2 PCs is
driven through 7 inserts: two wraparounds, with resets anywhere. Under that
run:

- The indices are exact: `IndexSound` means no dangling entry, and
  `IndexNewest` means no lost entry and the newest slot.
- `PatternFaithful`: the link walk returns exactly the window's pattern.
- `WindowRefinement`: the buffer refines `GHBWindow`.

**Bounds.** Seven inserts into three slots overwrite every slot twice, so
stale links whose `prev` slot has been reused (with a different stamp) occur
in the runs.

In `mockingjay_config`, two feature objects are enough for every outcome
the properties tell apart: a throw after a successful field, a feature
without a weight followed by one with a weight, duplicate names, and absent
features. The three numbers cover a positive, a zero and a negative rate.

**Deadlock.** `mockingjay_config` disables deadlock checking, since the constructor runs once and then stops. `ghb_prefetcher` disables deadlock checking. The only state
with no successor is the one where the insert bound is exhausted, because
the prefetcher never calls `reset()`. `mockingjay` disables it too: its
only stops are the call and tick bounds. Five calls are enough for a miss to
fill the set, a miss to refill it, a touch after an insertion, and an
eviction followed by a reaccess of the same pc, which triggers training.

**Fairness.** None is assumed, and every property is a safety property. The
code has no waiting and no concurrency: each handler runs to completion.

## Proofs (`GHBHistoryProofs`, checked by tlapm)

- `TypeCorrect`: `Spec => []TypeOK`.
- `IndexSoundInvariant`: `Spec => []IndexSound`.
- `IndexNewestInvariant`: `Spec => []IndexNewest`.
- `Refinement`: `Spec => WindowRefinement`. The buffer, read through
  `Window`, implements `GHBWindow`.

All four hold for every value of the constants allowed by `ParamsAssumption`.

`IndexSound` is not inductive on its own. An insert before the first
wraparound writes slot `head` without evicting it, so the proof needs to know
that no index entry points there. The inductive invariant therefore adds
`FreshTail`: before the buffer is filled, no slot from the head on has a
valid link. The steps are as follows:

1. `InitInv`: the initial state satisfies the inductive invariant.
2. `InsertInv`: the new mappings name the head, whose new links carry their
   key values. Every mapping kept from `EvictedIndex` names a slot other than
   the head (`EvictedIndexFree`), and that slot is untouched.
3. `ResetInv`: a reset restores the initial state.
4. `NextInv`: the invariant survives every step, by cases on `Next`.
5. `PTL` combines these steps.

`IndexNewest` needs a second strengthening, `NInv == IInv /\ SeqLayout /\
IndexNewest`. TLC checked `NInv` as an invariant on 1 to 4 slots before it was
proved. `SeqLayout` gives each slot's sequence number as a function of the
head and the counter: the slots below the head hold the current round, and
those from the head on hold the previous round, or 0 before the first
wraparound. Two consequences carry the proof:

- `SeqBelowCounter`: every stored number is below `sequenceCounter`, so the
  entry insert() writes is the newest.
- `HeadOldest`: once the buffer has wrapped, the head holds the strictly
  oldest entry. So when evictIndex erases a mapping that targets the head, no
  other live slot carries that key value (`NewestInsert`).

`LayoutInsert` shows that insert() keeps the layout, both when the head
advances and when it wraps to 0. `NInvInit` and `NInvNext` complete the
induction.

`Refinement` is proved step by step. The mapping `Window` is a plain function
of the slots, the head and `filled`, so no induction is needed:

- `Init` maps to `W!Init`: no slot is live, so the window is `<<>>`.
- `RefineInsert`: insert() is `Remember` of the access it records
  (`Recorded`, which is in `W!Accesses`). Before the buffer fills, the
  window grows by the slot at the head (`AppendEq`). After it has filled,
  the window starts one slot later, and the slot that was oldest now holds
  the new access (`TailAppendEq`). The wrap from the last slot to 0 is the
  step where `filled` is set, and the window then has all `historySize`
  slots. `ModFacts` and `WindowType` give the modular index arithmetic and the
  shape of `WindowOf`.
- `RefineReset`: reset() is `Forget`.
- An unchanged buffer leaves its window alone.
- `RefineStep` combines the three cases, with `IInv` for the types. `PTL`
  then lifts it to `W!Spec`.

Left to TLC: `PatternFaithful`. The chain walk of buildPattern is a recursive
function, and a statement about it for every input needs induction over
data, which the provers cannot instantiate. Liveness and `ENABLED` are out of the provers' reach.

## Proofs (`MockingjayProofs`, checked by tlapm)

- `TypeCorrect`: `Spec => []TypeOK`.
- `TrainingInvariant`: `Spec => []TrainingMatchesEviction`.

Both hold for every set of ways, pcs, weight choices, feature tables and
bounds allowed by `MockingjayAssumption`. Neither invariant is inductive. The
strengthening `IInv` has four parts:

- `CounterInv`: `globalAccessCounter <= ops`.
- `LineInv`: every line's `lastAccessCounter <= globalAccessCounter` and
  `accessCount <= ops`. This ordering is what keeps the uint64 subtraction
  of `touch()` (`mockingjay.cc:373`) from wrapping, so `reuseDistance`
  stays in `0 .. MaxOps`.
- `TableInv`: `Balance`. For each pc, its trainings plus the one record of
  the eviction table it may still own (`PendingIn`) never exceed its
  evictions. `trackEviction` adds an eviction and a record, and may take
  another pc's record away. `checkEvictedReuse` trains only on a record it
  owns and clears it.
- `ModelInv`: the weights and the tags' `valid` map are typed.

The argument:

1. `InitInv`: the initial state satisfies `IInv`.
2. One lemma per action (`AdvanceInv`, `InvalidateInv`, `TouchConstInv`,
   `TouchInv`, `MissInv`), then `NextInv`.
3. `MissInv` needs the victim to exist. `FirstMaxExists` shows that
   `FirstMax` (a `CHOOSE`) names a way, without induction. Priorities are
   bounded (`PriorityBound`), so the smallest gap to the bound exists by
   the well-foundedness of `<` on `Nat` (`WellFoundedInduction`). The least
   way among those of maximal priority exists by the same argument.
4. `TrackedKeeps` and `CheckedKeeps` carry `Balance` through `trackEviction`
   and `checkEvictedReuse`.

`FeatScale` is kept opaque (`ScalePos`); expanding the literal 10^6 inside
the feature intervals is beyond the provers.

Left to TLC: `ReuseDistanceExact`, `InvalidWayPreferred` and
`AgeSinceInsertion`, and the violation runs.

## Proofs (`MockingjayConfigProofs`, checked by tlapm)

- `TypeCorrect`: `Spec => []TypeOK`.
- `PrefixLoaded`: `Spec => []LoadIsPrefix`.

`TypeOK` here is not checked by a run: the members are doubles and a bool in
C++, so it holds by the language. It is proved as a conjunct of the
inductive invariant, which `PrefixLoaded` needs.

Both hold for every set of feature names, numbers and parameter values
allowed by `ConfigAssumption`, and for every `MaxFeatures`. The inductive
invariant `IInv` is `TypeOK /\ Members /\ LoadIsPrefix`, where `Members`
says that the members hold their initialisers until the body runs. TLC
checked `IInv` on the config instance first. The proof has five parts:

- `FirstIndexFacts`: `FirstIndex`, the first match of `std::string::find`,
  is a match and precedes every other match. This uses the well-foundedness
  of `<` on `Nat`, not induction.
- `ExtractWeightRange` and `ParsedRange`: each of the six parse results is a
  number or the exception.
- `ThrownFacts`: the first throwing step is at `Thrown(f)`, in `0 .. 6`.
- `LoadResult`: the fields the try block assigns as a function of
  `Thrown(f)`. `WeightPos` shows that the `CHOOSE` inside `TryBlock` gives
  each weight field its position in the assignment order.
- `ConstructIInv`: the body establishes `LoadIsPrefix` with the witness
  `k = 5` when nothing threw or only the learning rate threw, and
  `k = Thrown - 1` otherwise.

`MockingjayConfig` computes the first match with its own `FirstIndex`, a
`CHOOSE` of the least match. `SequencesExt`'s `SelectInSeq` computes the same
thing, but its `Min` is a fold. The facts the proof needs follow from
`FirstIndex` by the well-foundedness of `<`.

## Proofs (`PatternTableProofs`, checked by tlapm)

- `ModePredicted`: `NoWrap => (PTSpec => []PredictionIsMode)`.

It holds for every counter width, delta set, list length and update bound
allowed by `PatternTableAssumption`.

`NoWrap` is `\A n \in ChronLens : MaxUpdates * n < CountMod`. It says that no
counter can reach `2^CountBits` within the run. The hypothesis is needed, not
a convenience: the run `pattern_table_wrap` (`CountBits = 2`) shows the
property failing once a count wraps. The run `pattern_table` satisfies it
(4 * 4 < 256).

`PatternTableAssumption` also states `2^CountBits \in Nat \ {0}`, because the
provers do no exponentiation. TLC evaluates it on every run.

The inductive invariant `TInv` says that the table is what the observations
teach, for some `n \in ChronLens \cup {0}`:

- `updates \in 0 .. MaxUpdates`;
- `Learned(patternTable, observed, updates * n)` holds. That is:
  - the keys of the table are exactly the pairs of the observed triples;
  - each key's counts are defined exactly on the deltas seen after that pair;
  - each count equals the number of observations of its triple;
  - each total is in `1 .. updates * n` and bounds every count of its key.

TLC checked `TInv` on the `pattern_table` instance first.

The argument:

- `LearnStep`: one `updatePatternTable` of a list of length `m` keeps
  `Learned` and raises the bound by `m`, while the bound stays below
  `CountMod`. Below that bound every `% CountMod` is the identity, and each
  new count is the old count plus the list's occurrences of the triple
  (`LearnNew`, `LearnKeep`, `ObserveDef`).
- `TInvNext`: an update moves `n` to the larger of `n` and the list's length,
  and a clear resets `n` to 0.
- `ModeFromLearned`: with `Learned`, `findPatternMatch` finds the pair,
  and its total is non-zero. Every delta it may return has the maximal count,
  and that count is the observed count.

`SeenCount` reads the bag directly rather than through `CopiesIn`, which the
provers' `Bags` module lacks. The two agree.

`TotalIsSum` stays with TLC. Its `SumFunction` is a fold, a recursive function
over the domain, and what it computes for every input needs induction.

## Proofs (`GHBPrefetcherProofs`, checked by tlapm)

- `PrefetchModePredicted`: `NoWrap => (Spec => []PrefetchPredictionIsMode)`.

It holds for every history size, pattern length, address width and counter
width. Here `NoWrap` is `MaxInserts * patternLength < CountMod`, and the
`ghb_prefetcher` run satisfies it (7 * 3 < 256).

The inductive invariant `PInv` is
`Learned(patternTable, observed, (sequenceCounter - 1) * patternLength)`. TLC
checked it on the `ghb_prefetcher` instance (81,674 states). The proof rests
on these facts:

- `PatternShort`: `buildPattern` yields a sequence of at most `patternLength`
  deltas, whatever the links hold. The result is indexed by `1 .. n`, where
  `n` is the cardinality of a subset of `1 .. patternLength`. This needs no
  fact about the chain walk itself.
- `ReverseSeq`: reversing keeps the length.
- A call's `insert` adds 1 to `sequenceCounter`, under the guard
  `sequenceCounter <= MaxInserts`.
- The training is `PatternTableProofs`' `LearnStep`, used through an
  `INSTANCE`.

To make that `INSTANCE` usable, `PrefetcherAssumption` states the history's
`ParamsAssumption` and the table's counter facts. `SameLearnedTable`,
`SameObserve` and `SamePrediction` identify the operators of the two
instances of `PatternTable`.

`TypeOK` and `PrefetchOnPage` stay with TLC. Both depend on what
`SelectSeq`, the address loop `at` and the chain walk compute. For example,
every candidate comes from a non-zero delta, and the walk visits only slots.
These are recursive functions, so a proof needs induction over data.

## Not modelled / plan

- **Mockingjay**: larger sets. The three properties also hold on a 3-way set with 6 calls (847k states, under 2 minutes), but that run is not kept. The weights' values after training are abstracted.
- **Proofs**: `PatternFaithful`, `TotalIsSum`, and `GHBPrefetcher`'s
  `TypeOK` and `PrefetchOnPage` are only model-checked. Each concerns a
  recursive function: the chain walk, a fold, `SelectSeq` or the address loop.
  A proof of any of them needs induction over data, which the installed
  provers cannot instantiate.
- The floating-point gradient step of `updateWeights`, the exact JSON
  grammar (a weight written before its name, nested objects), the unit tests
  and the benchmarks are not modelled. The weights the constructor produces
  enter `Mockingjay` as `WeightChoices` and `EnableOnlineLearning`; the two
  modules are not composed.
