---------------------------- MODULE GHBPrefetcher ---------------------------
(***************************************************************************)
(* GHBPrefetcher::calculatePrefetch (ghb.cc): one access event runs the    *)
(* whole pipeline to completion - block-align the address, insert it into *)
(* the history, build the PC pattern and else the page pattern, train the *)
(* table with it, predict (learned match, else fallback) and turn each    *)
(* non-zero predicted delta into a candidate address kept only when it is *)
(* on the page of the block.  The handler is single-threaded and          *)
(* synchronous, so it is one action.                                      *)
(***************************************************************************)
EXTENDS Integers, Sequences, SequencesExt

CONSTANTS
  HistorySizeParam, PatternLengthParam, PageBytes, UsePC, AddrBits,
  PCs, NoPC, MaxInserts, CountBits,
  BlkSize,     \* cache block size: blockAddress clears the low bits
  PfiAddrs     \* raw addresses the observed accesses carry

VARIABLES
  history, lastIndex, head, filled, sequenceCounter,  \* the history buffer
  patternTable,                                       \* the learned table
  observed,   \* history variable: every triple the table has been taught
  issued      \* the candidate addresses of the last call, in order

vars == <<history, lastIndex, head, filled, sequenceCounter, patternTable, observed, issued>>

(* blockAddress (Base, outside src/): the address with the block offset cleared. *)
BlockAddress(a) == a - (a % BlkSize)

(* samePage (Base, outside src/): both addresses round down to one page. *)
SamePage(a, b) == a \div PageBytes = b \div PageBytes

H == INSTANCE GHBHistory WITH Addrs <- {BlockAddress(a) : a \in PfiAddrs}
T == INSTANCE PatternTable WITH Deltas <- {}, ChronLens <- {}, MaxUpdates <- 0, updates <- 0

(* The history's parameters, and the table's uint32 counters: as in      *)
(* PatternTable, that 2^CountBits is positive is stated.                 *)
ASSUME PrefetcherAssumption ==
  /\ H!ParamsAssumption
  /\ BlkSize \in Nat \ {0}
  /\ PfiAddrs \subseteq 0 .. (2^AddrBits - 1)
  /\ CountBits \in Nat \ {0}
  /\ 2^CountBits \in Nat \ {0}

(* The prediction: a learned match if findPatternMatch succeeds, else the fallback. *)
Predictions(tbl, chron) ==
  LET R == T!FindPatternMatch(tbl, chron) IN
  IF R = {<<>>} THEN {T!FallbackPattern(chron)} ELSE R

(* Mutant: cross-page candidates are not suppressed. *)
CandidatesAnyPage(block, predicted) ==
  LET at[i \in 0 .. Len(predicted)] ==
        IF i = 0 THEN block
        ELSE IF predicted[i] = 0 THEN at[i - 1]
        ELSE (at[i - 1] + predicted[i]) % 2^AddrBits
      steps == SelectSeq([i \in 1 .. Len(predicted) |-> <<predicted[i], at[i]>>],
                         LAMBDA c : c[1] # 0)
  IN [j \in 1 .. Len(steps) |-> steps[j][2]]

(***************************************************************************)
(* The address loop: next_addr starts at the block address; each non-zero  *)
(* delta is added (Addr arithmetic, modulo 2^AddrBits) and the result is  *)
(* emitted only if it is on the block's page.                              *)
(***************************************************************************)
Candidates(block, predicted) ==
  LET at[i \in 0 .. Len(predicted)] ==
        IF i = 0 THEN block
        ELSE IF predicted[i] = 0 THEN at[i - 1]
        ELSE (at[i - 1] + predicted[i]) % 2^AddrBits
      steps == SelectSeq([i \in 1 .. Len(predicted) |-> <<predicted[i], at[i]>>],
                         LAMBDA c : c[1] # 0 /\ SamePage(block, c[2]))
  IN [j \in 1 .. Len(steps) |-> steps[j][2]]

Init ==
  /\ H!Init
  /\ patternTable = [key \in {} |-> T!NewEntry]
  /\ observed = T!EmptyBag
  /\ issued = <<>>

(* calculatePrefetch(pfi): the whole handler for an access (addr, pc). *)
CalculatePrefetch(addr, pc) ==
  LET block == BlockAddress(addr)
      accPC == IF UsePC /\ pc # NoPC THEN pc ELSE NoPC
      slot == head
  IN
  /\ H!Insert(block, accPC)
  /\ LET written == H!WrittenHistory(block, accPC)
         pcDeltas == H!BuildPattern(written, slot, "PC")
         deltas == IF pcDeltas # <<>> THEN pcDeltas
                   ELSE H!BuildPattern(written, slot, "Page")
         chron == Reverse(deltas)
     IN
     IF deltas = <<>>
     THEN /\ issued' = <<>>
          /\ UNCHANGED <<patternTable, observed>>
     ELSE LET learned == T!LearnedTable(patternTable, chron) IN
          /\ patternTable' = learned
          /\ observed' = T!Observe(observed, chron)
          /\ \E predicted \in Predictions(learned, chron) :
               issued' = Candidates(block, predicted)

Next == \E a \in PfiAddrs, pc \in PCs \cup {NoPC} : CalculatePrefetch(a, pc)

Spec == Init /\ [][Next]_vars

-----------------------------------------------------------------------------
TypeOK ==
  /\ H!TypeOK
  /\ issued \in Seq(0 .. (2^AddrBits - 1))

(* The block address of the access the last call handled. *)
LastBlock == history[H!Newest].addr

(***************************************************************************)
(* Every candidate of a call lies on the page of that call's block address *)
(* and differs from it: the delta arithmetic wraps at the top of the      *)
(* address space, and only the same-page filter and the zero-delta skip   *)
(* keep a wrapped or null prefetch out of the issue queue.               *)
(***************************************************************************)
PrefetchOnPage ==
  \A j \in 1 .. Len(issued) :
    /\ SamePage(issued[j], LastBlock)
    /\ issued[j] # LastBlock

(* The learned table of the running prefetcher predicts a most frequent follower. *)
PrefetchPredictionIsMode == T!PredictionIsMode

====
