----------------------------- MODULE GHBHistory -----------------------------
(***************************************************************************)
(* The global history buffer of the GHB prefetcher helper (class           *)
(* GHBHistory, ghb_history.{hh,cc}): a circular log of the most recent     *)
(* accesses, each stamped with a sequence number, and two correlation      *)
(* indices (by PC, by page) that map a key value to the newest slot        *)
(* holding it.  Each entry keeps, per key kind, a link to the previous     *)
(* entry with the same key value, stamped with that entry's sequence      *)
(* number so that a link into an overwritten slot is detected as stale.   *)
(*                                                                         *)
(* The operations that change state are insert() and reset(); the chain   *)
(* walk buildPattern() is a const method and is an operator on a history.  *)
(* The pattern table of the same class is modelled in PatternTable.        *)
(***************************************************************************)
EXTENDS Integers, Sequences, FiniteSets, Functions, TLC

CONSTANTS
  HistorySizeParam,   \* history_size passed to the constructor
  PatternLengthParam, \* pattern_length passed to the constructor
  PageBytes,          \* page_bytes: the page key of an address is addr / PageBytes
  UsePC,              \* use_pc: correlate by instruction pointer as well
  AddrBits,           \* width of Addr and of the int64 deltas (64 in the code)
  Addrs,              \* addresses the accesses may carry
  PCs,                \* instruction pointers the accesses may carry
  NoPC,               \* stands for an access whose optional pc is empty
  MaxInserts          \* model bound: the sequence counter never passes it

ASSUME ParamsAssumption ==
  /\ HistorySizeParam \in Nat
  /\ PatternLengthParam \in Nat
  /\ PageBytes \in Nat \ {0}
  /\ UsePC \in BOOLEAN
  /\ AddrBits \in Nat \ {0}
  /\ Addrs \subseteq 0 .. (2^AddrBits - 1)
  /\ PCs \subseteq Nat
  /\ NoPC \notin PCs
  /\ MaxInserts \in Nat

VARIABLES
  history,         \* std::vector<GHBEntry> history
  lastIndex,       \* lastIndex[k]: key value -> newest slot (unordered_map)
  head,            \* write head
  filled,          \* the buffer has wrapped at least once
  sequenceCounter  \* next sequence number to assign

vars == <<history, lastIndex, head, filled, sequenceCounter>>

(* The constructor clamps both sizes to at least 1. *)
historySize == IF HistorySizeParam < 1 THEN 1 ELSE HistorySizeParam
patternLength == IF PatternLengthParam < 1 THEN 1 ELSE PatternLengthParam

Slots == 0 .. (historySize - 1)
NoSlot == -1                    \* LinkInfo::prev = -1
KeyKinds == {"PC", "Page"}      \* enum class CorrelationKey

(* computePage: integer page index of an address. *)
ComputePage(a) == a \div PageBytes

(* static_cast<int64_t>(a) - static_cast<int64_t>(b) on AddrBits-wide    *)
(* two's complement values: the difference wraps modulo 2^AddrBits.     *)
Signed(x) == IF x < 2^(AddrBits - 1) THEN x ELSE x - 2^AddrBits
Delta(a, b) == Signed((a - b) % 2^AddrBits)

NullLink == [prev |-> NoSlot, prevSeq |-> 0, keyValue |-> 0, keyValid |-> FALSE]
EmptyEntry == [addr |-> 0, seq |-> 0, links |-> [k \in KeyKinds |-> NullLink]]
EmptyMap == [v \in {} |-> NoSlot]

(* empty(): only reachable with a zero capacity, which the clamp rules out. *)
Empty == historySize = 0

(***************************************************************************)
(* removeIndexMappings(slot), called through evictIndex: for each key kind *)
(* whose link in the victim is valid, erase the index entry for its key    *)
(* value if (and only if) it still maps to the victim slot.                *)
(***************************************************************************)
(* Mutant: the erase does not check that the mapping targets the victim. *)
RemoveIndexMappingsAnyOwner(idx, slot) ==
  [k \in KeyKinds |->
     LET l == history[slot].links[k] IN
     IF l.keyValid /\ l.keyValue \in DOMAIN idx[k]
     THEN Restrict(idx[k], DOMAIN idx[k] \ {l.keyValue})
     ELSE idx[k]]

RemoveIndexMappings(idx, slot) ==
  [k \in KeyKinds |->
     LET l == history[slot].links[k] IN
     IF /\ l.keyValid
        /\ l.keyValue \in DOMAIN idx[k]
        /\ idx[k][l.keyValue] = slot
     THEN Restrict(idx[k], DOMAIN idx[k] \ {l.keyValue})
     ELSE idx[k]]

(***************************************************************************)
(* assignCorrelation: the link for key value v of the entry written at     *)
(* slot, given the index idxk of that key kind and the sequence numbers   *)
(* seqAt of the slots at that moment (the new entry's seq already set).   *)
(***************************************************************************)
Wire(idxk, v, seqAt) ==
  IF v \in DOMAIN idxk
  THEN [prev |-> idxk[v], prevSeq |-> seqAt[idxk[v]], keyValue |-> v, keyValid |-> TRUE]
  ELSE [prev |-> NoSlot, prevSeq |-> 0, keyValue |-> v, keyValid |-> TRUE]

(* Mutant: the head is advanced without the modulo. *)
NextHeadNoWrap(h) == h + 1

(* The write head after insert(): advanced circularly. *)
NextHead(h) == (h + 1) % historySize

Init ==
  /\ history = [s \in Slots |-> EmptyEntry]
  /\ lastIndex = [k \in KeyKinds |-> EmptyMap]
  /\ head = 0
  /\ filled = FALSE
  /\ sequenceCounter = 1

(***************************************************************************)
(* insert(access), in the order the code runs it: evict the slot at the   *)
(* head if the buffer has wrapped (evictIndex), write the address and a   *)
(* fresh sequence number, wire the PC link (or clear it when there is no  *)
(* pc or use_pc is off), wire the page link, advance the head.            *)
(***************************************************************************)
(* Mutant: insert() skips evictIndex on wraparound. *)
EvictedIndexNoEvict == lastIndex

(* The indices once the victim's mappings are removed. *)
EvictedIndex == IF filled THEN RemoveIndexMappings(lastIndex, head) ELSE lastIndex

(* Does insert() correlate this access by pc? *)
WithPC(pc) == UsePC /\ pc # NoPC

(* The sequence numbers assignCorrelation reads: the new entry's is set. *)
SeqAt == [s \in Slots |-> IF s = head THEN sequenceCounter ELSE history[s].seq]

(* The entry written at the head for access (a, pc). *)
WrittenEntry(a, pc) ==
  [addr |-> a,
   seq |-> sequenceCounter,
   links |-> [k \in KeyKinds |->
                IF k = "Page" THEN Wire(EvictedIndex["Page"], ComputePage(a), SeqAt)
                ELSE IF WithPC(pc) THEN Wire(EvictedIndex["PC"], pc, SeqAt)
                ELSE NullLink]]

WrittenHistory(a, pc) == [history EXCEPT ![head] = WrittenEntry(a, pc)]

(* indexMap[value] = slot: std::unordered_map::operator[] then assignment. *)
MapSet(m, v, s) == [u \in DOMAIN m \cup {v} |-> IF u = v THEN s ELSE m[u]]

(* The index of every key kind that was wired now maps its value to the head. *)
WrittenIndex(a, pc) ==
  [k \in KeyKinds |->
     IF k = "Page" THEN MapSet(EvictedIndex[k], ComputePage(a), head)
     ELSE IF WithPC(pc) THEN MapSet(EvictedIndex[k], pc, head)
     ELSE EvictedIndex[k]]

Insert(a, pc) ==
  /\ ~Empty
  /\ sequenceCounter <= MaxInserts
  /\ history' = WrittenHistory(a, pc)
  /\ lastIndex' = WrittenIndex(a, pc)
  /\ head' = NextHead(head)
  /\ filled' = (filled \/ NextHead(head) = 0)
  /\ sequenceCounter' = sequenceCounter + 1

(* Mutant: reset() forgets to rewind the write head. *)
ResetKeepHead ==
  /\ history' = [s \in Slots |-> EmptyEntry]
  /\ lastIndex' = [k \in KeyKinds |-> EmptyMap]
  /\ head' = head
  /\ filled' = FALSE
  /\ sequenceCounter' = 1

(* reset(): clear every entry and index, restart the sequence at 1. *)
Reset ==
  /\ history' = [s \in Slots |-> EmptyEntry]
  /\ lastIndex' = [k \in KeyKinds |-> EmptyMap]
  /\ head' = 0
  /\ filled' = FALSE
  /\ sequenceCounter' = 1

Next ==
  \/ \E a \in Addrs, pc \in PCs \cup {NoPC} : Insert(a, pc)
  \/ Reset

Spec == Init /\ [][Next]_vars

-----------------------------------------------------------------------------
(***************************************************************************)
(* buildPattern(index, key): from slot index, follow the links of key      *)
(* kind `key` while the link has a predecessor whose live sequence number *)
(* is the one stamped on the link, collecting entry.addr - prev.addr, at  *)
(* most patternLength deltas, most recent first.  The empty sequence is   *)
(* the `false' result.                                                    *)
(***************************************************************************)
(* Mutant: links are followed without comparing the stamped sequence number. *)
BuildPatternNoSeqCheck(hist, index, key) ==
  IF index \notin Slots THEN <<>>
  ELSE
    LET pred == [s \in Slots \cup {NoSlot} |->
                   IF s = NoSlot \/ hist[s].links[key].prev < 0 THEN NoSlot
                   ELSE hist[s].links[key].prev]
        walk[i \in 0 .. patternLength] == IF i = 0 THEN index ELSE pred[walk[i - 1]]
        n == Cardinality({i \in 1 .. patternLength : walk[i] # NoSlot})
    IN [i \in 1 .. n |-> Delta(hist[walk[i - 1]].addr, hist[walk[i]].addr)]

BuildPattern(hist, index, key) ==
  IF index \notin Slots THEN <<>>
  ELSE
    LET Stale(l) == l.prev < 0 \/ hist[l.prev].seq # l.prevSeq
        pred == [s \in Slots \cup {NoSlot} |->
                   IF s = NoSlot \/ Stale(hist[s].links[key]) THEN NoSlot
                   ELSE hist[s].links[key].prev]
        walk[i \in 0 .. patternLength] == IF i = 0 THEN index ELSE pred[walk[i - 1]]
        n == Cardinality({i \in 1 .. patternLength : walk[i] # NoSlot})
    IN [i \in 1 .. n |-> Delta(hist[walk[i - 1]].addr, hist[walk[i]].addr)]

(* The slot written by the most recent insert(). *)
Newest == (head + historySize - 1) % historySize

(* Number of slots holding an access. *)
LiveCount == IF filled THEN historySize ELSE head

-----------------------------------------------------------------------------
LinkType == [prev : Slots \cup {NoSlot}, prevSeq : Nat, keyValue : Nat, keyValid : BOOLEAN]
EntryType == [addr : Addrs \cup {0}, seq : Nat, links : [KeyKinds -> LinkType]]

TypeOK ==
  /\ history \in [Slots -> EntryType]
  /\ \A k \in KeyKinds : /\ DOMAIN lastIndex[k] \subseteq Nat
                         /\ \A v \in DOMAIN lastIndex[k] : lastIndex[k][v] \in Slots
  /\ DOMAIN lastIndex = KeyKinds
  /\ head \in Slots
  /\ filled \in BOOLEAN
  /\ sequenceCounter \in Nat \ {0}

(***************************************************************************)
(* No dangling index entry (removeIndexMappings, assignCorrelation): every *)
(* mapping k: v -> s of an index names a slot whose link of kind k is      *)
(* valid and carries the key value v.  Eviction on wraparound must erase  *)
(* exactly the mappings that still target the victim.                     *)
(***************************************************************************)
IndexSound ==
  \A k \in KeyKinds : \A v \in DOMAIN lastIndex[k] :
     /\ history[lastIndex[k][v]].links[k].keyValid
     /\ history[lastIndex[k][v]].links[k].keyValue = v

(***************************************************************************)
(* No lost index entry: every key value carried by a valid link of a slot *)
(* is mapped, and to a slot at least as new.  Together with IndexSound:   *)
(* the index maps each live key value to its newest slot.  An eviction    *)
(* that erased a mapping already re-pointed to a newer slot breaks this.  *)
(***************************************************************************)
IndexNewest ==
  \A k \in KeyKinds : \A s \in Slots :
     LET l == history[s].links[k] IN
     l.keyValid => /\ l.keyValue \in DOMAIN lastIndex[k]
                   /\ history[lastIndex[k][l.keyValue]].seq >= history[s].seq


-----------------------------------------------------------------------------
(***************************************************************************)
(* Refinement mapping to GHBWindow: the live slots read from the oldest    *)
(* (the head once the buffer has wrapped, slot 0 before) to the newest.   *)
(***************************************************************************)
WindowStart == IF filled THEN head ELSE 0

Window ==
  [i \in 1 .. LiveCount |->
     LET e == history[(WindowStart + i - 1) % historySize] IN
     [addr |-> e.addr,
      pc |-> IF e.links["PC"].keyValid THEN e.links["PC"].keyValue ELSE NoPC]]

W == INSTANCE GHBWindow WITH Capacity <- historySize, PatternLen <- patternLength,
                             window <- Window

(* insert() and reset() keep the last historySize accesses, in order. *)
WindowRefinement == W!Spec

(***************************************************************************)
(* Stale-link detection (buildPattern): the chain walked from the newest   *)
(* slot yields exactly the deltas between consecutive remembered accesses *)
(* sharing its key value, however often the buffer has wrapped: no delta  *)
(* spans an overwritten slot and none that is still remembered is missed. *)
(***************************************************************************)
PatternFaithful ==
  LiveCount > 0 =>
    \A k \in KeyKinds : BuildPattern(history, Newest, k) = W!WindowPattern(k)

====
