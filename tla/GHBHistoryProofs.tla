-------------------------- MODULE GHBHistoryProofs --------------------------
(***************************************************************************)
(* Proofs about the history buffer of GHBHistory, for every capacity,     *)
(* pattern length, page size and address width the assumptions allow.    *)
(***************************************************************************)
EXTENDS GHBHistory, SequenceTheorems, TLAPS

(* The slots written before the first wraparound: from the head on, none  *)
(* has a valid link.  This is why insert() may skip evictIndex before the  *)
(* buffer is filled.                                                      *)
FreshTail ==
  ~filled => \A s \in Slots : s >= head => \A k \in KeyKinds : ~history[s].links[k].keyValid

IInv == TypeOK /\ IndexSound /\ FreshTail

(* The sequence number of slot s follows from the write head: insert()    *)
(* stamps sequenceCounter on the slot at the head and advances both by    *)
(* one, so the slots below the head hold the newest round, those from the *)
(* head on the round before (or nothing, before the first wraparound).   *)
SeqBase == sequenceCounter - 1 - head

SeqLayout ==
  \A s \in Slots :
     history[s].seq = IF s < head THEN SeqBase + s + 1
                      ELSE IF filled THEN SeqBase - historySize + s + 1
                      ELSE 0

NInv == IInv /\ SeqLayout /\ IndexNewest

LEMMA HistorySizePos == historySize \in Nat \ {0}
  BY ParamsAssumption DEF historySize

LEMMA SlotsFacts == /\ 0 \in Slots
                    /\ Slots \subseteq Nat
                    /\ \A s \in Slots : s # NoSlot
  BY HistorySizePos DEF Slots, NoSlot

LEMMA NextHeadType == \A h \in Slots : NextHead(h) \in Slots
  BY HistorySizePos DEF NextHead, Slots

(* Before the wraparound the head advances by one. *)
LEMMA HeadAdvancesByOne == \A h \in Slots : NextHead(h) # 0 => NextHead(h) = h + 1
  BY HistorySizePos DEF NextHead, Slots

LEMMA LinkTypes == NullLink \in LinkType /\ EmptyEntry \in EntryType
  BY DEF NullLink, EmptyEntry, LinkType, EntryType

(* EvictedIndex keeps the type of the indices and only drops mappings. *)
LEMMA EvictedIndexSub ==
  ASSUME TypeOK
  PROVE  /\ DOMAIN EvictedIndex = KeyKinds
         /\ \A k \in KeyKinds : /\ DOMAIN EvictedIndex[k] \subseteq DOMAIN lastIndex[k]
                                /\ \A v \in DOMAIN EvictedIndex[k] :
                                     EvictedIndex[k][v] = lastIndex[k][v]
  <1>1. CASE filled
    BY <1>1 DEF EvictedIndex, RemoveIndexMappings, Restrict
  <1>2. CASE ~filled
    BY <1>2, DOMAIN lastIndex = KeyKinds DEF EvictedIndex, TypeOK
  <1>3. QED  BY <1>1, <1>2

(* No mapping left after the eviction targets the head. *)
LEMMA EvictedIndexFree ==
  ASSUME IInv
  PROVE  \A k \in KeyKinds : \A v \in DOMAIN EvictedIndex[k] : EvictedIndex[k][v] # head
  <1> SUFFICES ASSUME NEW k \in KeyKinds, NEW v \in DOMAIN EvictedIndex[k],
                      EvictedIndex[k][v] = head
               PROVE  FALSE
    OBVIOUS
  <1>1. v \in DOMAIN lastIndex[k] /\ lastIndex[k][v] = head
    BY EvictedIndexSub DEF IInv
  <1>2. history[head].links[k].keyValid /\ history[head].links[k].keyValue = v
    BY <1>1 DEF IInv, IndexSound
  <1>3. CASE filled
    <2> DEFINE l == history[head].links[k]
    <2>1. l.keyValid /\ l.keyValue \in DOMAIN lastIndex[k] /\ lastIndex[k][l.keyValue] = head
      BY <1>1, <1>2
    <2>2. EvictedIndex[k] = Restrict(lastIndex[k], DOMAIN lastIndex[k] \ {l.keyValue})
      BY <1>3, <2>1 DEF EvictedIndex, RemoveIndexMappings
    <2>3. v \notin DOMAIN EvictedIndex[k]
      BY <2>2, <1>2 DEF Restrict
    <2>4. QED  BY <2>3
  <1>4. CASE ~filled
    <2>1. head \in Slots /\ head >= head
      BY SlotsFacts DEF IInv, TypeOK
    <2>2. QED  BY <1>4, <1>2, <2>1 DEF IInv, FreshTail
  <1>5. QED  BY <1>3, <1>4

(* The links insert() wires are well typed. *)
LEMMA WireType ==
  ASSUME TypeOK, NEW k \in KeyKinds, NEW v \in Nat
  PROVE  Wire(EvictedIndex[k], v, SeqAt) \in LinkType
  <1>1. \A u \in DOMAIN EvictedIndex[k] : EvictedIndex[k][u] \in Slots
    BY EvictedIndexSub DEF TypeOK
  <1>2. \A s \in Slots : SeqAt[s] \in Nat
    BY DEF SeqAt, TypeOK, EntryType
  <1>3. QED  BY <1>1, <1>2 DEF Wire, LinkType

LEMMA WrittenEntryType ==
  ASSUME TypeOK, NEW a \in Addrs, NEW pc \in PCs \cup {NoPC}
  PROVE  WrittenEntry(a, pc) \in EntryType
  <1>1. ComputePage(a) \in Nat
    BY ParamsAssumption DEF ComputePage
  <1>2. WithPC(pc) => pc \in Nat
    BY ParamsAssumption DEF WithPC
  <1>3. /\ Wire(EvictedIndex["Page"], ComputePage(a), SeqAt) \in LinkType
        /\ WithPC(pc) => Wire(EvictedIndex["PC"], pc, SeqAt) \in LinkType
    BY <1>1, <1>2, WireType DEF KeyKinds
  <1>4. sequenceCounter \in Nat
    BY DEF TypeOK
  <1>5. QED  BY <1>3, <1>4, LinkTypes DEF WrittenEntry, EntryType

(***************************************************************************)
(* One step of insert() keeps IInv: the new entry is well typed and is the *)
(* only one the new mappings name; every mapping kept from the evicted    *)
(* index names a slot other than the head, which insert() leaves alone.  *)
(***************************************************************************)
LEMMA InsertInv ==
  ASSUME IInv, NEW a \in Addrs, NEW pc \in PCs \cup {NoPC}, Insert(a, pc)
  PROVE  IInv'
  <1> DEFINE e == WrittenEntry(a, pc)
  <1>1. TypeOK
    BY DEF IInv
  <1>2. history' = [history EXCEPT ![head] = e] /\ lastIndex' = WrittenIndex(a, pc)
    BY DEF Insert, WrittenHistory
  <1>3. head \in Slots /\ head' = NextHead(head)
    BY <1>1 DEF Insert, TypeOK
  <1>4. e \in EntryType
    BY <1>1, WrittenEntryType
  <1>5. \A k \in KeyKinds : \A v \in DOMAIN EvictedIndex[k] :
          /\ EvictedIndex[k][v] # head
          /\ EvictedIndex[k][v] = lastIndex[k][v]
          /\ v \in DOMAIN lastIndex[k]
    BY EvictedIndexFree, EvictedIndexSub DEF IInv
  <1>6. TypeOK'
    <2>1. history' \in [Slots -> EntryType]
      BY <1>1, <1>2, <1>3, <1>4 DEF TypeOK
    <2>2. \A k \in KeyKinds : /\ DOMAIN lastIndex'[k] \subseteq Nat
                              /\ \A v \in DOMAIN lastIndex'[k] : lastIndex'[k][v] \in Slots
      <3>1. ComputePage(a) \in Nat /\ (WithPC(pc) => pc \in Nat)
        BY ParamsAssumption DEF ComputePage, WithPC
      <3>2. \A k \in KeyKinds : /\ DOMAIN EvictedIndex[k] \subseteq Nat
                                /\ \A v \in DOMAIN EvictedIndex[k] : EvictedIndex[k][v] \in Slots
        BY <1>1, EvictedIndexSub DEF TypeOK
      <3>3. QED  BY <1>2, <1>3, <3>1, <3>2 DEF WrittenIndex, MapSet
    <2>3. DOMAIN lastIndex' = KeyKinds
      BY <1>2 DEF WrittenIndex
    <2>4. head' \in Slots /\ filled' \in BOOLEAN /\ sequenceCounter' \in Nat \ {0}
      BY <1>1, <1>3, NextHeadType DEF Insert, TypeOK
    <2>5. QED  BY <2>1, <2>2, <2>3, <2>4 DEF TypeOK
  <1>7. IndexSound'
    <2> SUFFICES ASSUME NEW k \in KeyKinds, NEW v \in DOMAIN lastIndex'[k]
                 PROVE  /\ history'[lastIndex'[k][v]].links[k].keyValid
                        /\ history'[lastIndex'[k][v]].links[k].keyValue = v
      BY DEF IndexSound
    <2>1. CASE k = "Page" /\ v = ComputePage(a)
      <3>1. lastIndex'[k][v] = head
        BY <1>2, <2>1 DEF WrittenIndex, MapSet
      <3>2. history'[head] = e
        BY <1>1, <1>2, <1>3 DEF TypeOK
      <3>3. e.links[k].keyValid /\ e.links[k].keyValue = v
        BY <2>1 DEF WrittenEntry, Wire, KeyKinds
      <3>4. QED  BY <3>1, <3>2, <3>3
    <2>2. CASE k = "PC" /\ WithPC(pc) /\ v = pc
      <3>1. lastIndex'[k][v] = head
        BY <1>2, <2>2 DEF WrittenIndex, MapSet
      <3>2. history'[head] = e
        BY <1>1, <1>2, <1>3 DEF TypeOK
      <3>3. e.links[k].keyValid /\ e.links[k].keyValue = v
        BY <2>2 DEF WrittenEntry, Wire, KeyKinds
      <3>4. QED  BY <3>1, <3>2, <3>3
    <2>3. CASE ~(k = "Page" /\ v = ComputePage(a)) /\ ~(k = "PC" /\ WithPC(pc) /\ v = pc)
      <3>1. v \in DOMAIN EvictedIndex[k] /\ lastIndex'[k][v] = EvictedIndex[k][v]
        BY <1>2, <2>3 DEF WrittenIndex, MapSet, KeyKinds
      <3>2. lastIndex'[k][v] = lastIndex[k][v] /\ lastIndex[k][v] # head
            /\ v \in DOMAIN lastIndex[k]
        BY <3>1, <1>5
      <3>3. lastIndex[k][v] \in Slots
        BY <3>2, <1>1 DEF TypeOK
      <3>4. history'[lastIndex[k][v]] = history[lastIndex[k][v]]
        BY <1>1, <1>2, <3>2, <3>3 DEF TypeOK
      <3>5. QED  BY <3>2, <3>4 DEF IInv, IndexSound
    <2>4. QED  BY <2>1, <2>2, <2>3
  <1>8. FreshTail'
    <2> SUFFICES ASSUME ~filled', NEW s \in Slots, s >= head', NEW k \in KeyKinds
                 PROVE  ~history'[s].links[k].keyValid
      BY DEF FreshTail
    <2>1. ~filled /\ NextHead(head) # 0
      BY DEF Insert
    <2>2. head' = head + 1
      BY <2>1, <1>3, HeadAdvancesByOne
    <2>3. s # head /\ s >= head
      BY <2>2, SlotsFacts, <1>3
    <2>4. history'[s] = history[s]
      BY <2>3, <1>1, <1>2 DEF TypeOK
    <2>5. QED  BY <2>1, <2>3, <2>4 DEF IInv, FreshTail
  <1>9. QED  BY <1>6, <1>7, <1>8 DEF IInv

LEMMA InitInv == Init => IInv
  <1> SUFFICES ASSUME Init PROVE IInv
    OBVIOUS
  <1>1. TypeOK
    <2>1. history \in [Slots -> EntryType]
      BY LinkTypes DEF Init
    <2>2. \A k \in KeyKinds : DOMAIN lastIndex[k] = {}
      BY DEF Init, EmptyMap
    <2>3. DOMAIN lastIndex = KeyKinds
      BY DEF Init
    <2>5. head \in Slots
      BY SlotsFacts DEF Init
    <2>6. filled \in BOOLEAN
      BY Zenon DEF Init
    <2>7. sequenceCounter \in Nat \ {0}
      BY DEF Init
    <2>4. QED  BY <2>1, <2>2, <2>3, <2>5, <2>6, <2>7 DEF TypeOK
  <1>2. IndexSound
    BY DEF Init, IndexSound, EmptyMap
  <1>3. FreshTail
    BY DEF Init, FreshTail, EmptyEntry, NullLink
  <1>4. QED  BY <1>1, <1>2, <1>3 DEF IInv

(* reset() restores the initial state, and the initial state satisfies IInv. *)
LEMMA ResetInv == Reset => IInv'
  <1> SUFFICES ASSUME Reset PROVE IInv'
    OBVIOUS
  <1>1. TypeOK'
    <2>1. history' \in [Slots -> EntryType]
      BY LinkTypes DEF Reset
    <2>2. \A k \in KeyKinds : DOMAIN lastIndex'[k] = {}
      BY DEF Reset, EmptyMap
    <2>3. DOMAIN lastIndex' = KeyKinds
      BY DEF Reset
    <2>5. head' \in Slots
      BY SlotsFacts DEF Reset
    <2>6. filled' \in BOOLEAN
      BY Zenon DEF Reset
    <2>7. sequenceCounter' \in Nat \ {0}
      BY DEF Reset
    <2>4. QED  BY <2>1, <2>2, <2>3, <2>5, <2>6, <2>7 DEF TypeOK
  <1>2. IndexSound'
    BY DEF Reset, IndexSound, EmptyMap
  <1>3. FreshTail'
    BY DEF Reset, FreshTail, EmptyEntry, NullLink
  <1>4. QED  BY <1>1, <1>2, <1>3 DEF IInv

LEMMA NextInv == IInv /\ [Next]_vars => IInv'
  <1> SUFFICES ASSUME IInv, [Next]_vars PROVE IInv'
    OBVIOUS
  <1>1. ASSUME NEW a \in Addrs, NEW pc \in PCs \cup {NoPC}, Insert(a, pc) PROVE IInv'
    BY <1>1, InsertInv
  <1>2. CASE Reset
    BY <1>2, ResetInv
  <1>3. CASE UNCHANGED vars
    BY <1>3 DEF vars, IInv, TypeOK, IndexSound, FreshTail, Slots, historySize, LinkType,
                EntryType, KeyKinds
  <1>4. QED  BY <1>1, <1>2, <1>3 DEF Next

(***************************************************************************)
(* insert() and reset() keep the buffer well formed: slots, sequence       *)
(* numbers, links and index values stay in their ranges, for every        *)
(* capacity and pattern length the constructor accepts.                   *)
(***************************************************************************)
THEOREM TypeCorrect == Spec => []TypeOK
  <1>1. IInv => TypeOK
    BY DEF IInv
  <1>2. QED  BY <1>1, InitInv, NextInv, PTL DEF Spec

(***************************************************************************)
(* The correlation indices never point to a slot whose entry was          *)
(* overwritten by another key: every mapping v -> s of pcIndex and        *)
(* pageIndex names a slot whose link of that kind is valid for v.  This   *)
(* is what evictIndex's owner check and the order of insert() guarantee.  *)
(***************************************************************************)
THEOREM IndexSoundInvariant == Spec => []IndexSound
  <1>1. IInv => IndexSound
    BY DEF IInv
  <1>2. QED  BY <1>1, InitInv, NextInv, PTL DEF Spec

-----------------------------------------------------------------------------
(* Every sequence number stored is below the counter. *)
LEMMA SeqBelowCounter ==
  ASSUME TypeOK, SeqLayout
  PROVE  \A s \in Slots : history[s].seq < sequenceCounter
  BY HistorySizePos DEF SeqLayout, SeqBase, TypeOK, Slots

(* Once the buffer has wrapped, the head holds the oldest entry. *)
LEMMA HeadOldest ==
  ASSUME TypeOK, SeqLayout, filled
  PROVE  \A s \in Slots \ {head} : history[head].seq < history[s].seq
  BY HistorySizePos DEF SeqLayout, SeqBase, TypeOK, Slots

(* The head wraps to 0 only from the last slot. *)
LEMMA HeadWraps == \A h \in Slots : NextHead(h) = 0 => h = historySize - 1
  BY HistorySizePos DEF NextHead, Slots

(* A link wired by assignCorrelation is valid and carries its key value. *)
LEMMA WireKey == \A idx, v, seqAt : Wire(idx, v, seqAt).keyValid /\ Wire(idx, v, seqAt).keyValue = v
  BY DEF Wire

(* The eviction keeps every mapping that does not target the head. *)
LEMMA EvictKeeps ==
  ASSUME TypeOK, NEW k \in KeyKinds, NEW v \in DOMAIN lastIndex[k], lastIndex[k][v] # head
  PROVE  v \in DOMAIN EvictedIndex[k] /\ EvictedIndex[k][v] = lastIndex[k][v]
  <1>1. CASE filled
    BY <1>1 DEF EvictedIndex, RemoveIndexMappings, Restrict
  <1>2. CASE ~filled
    BY <1>2 DEF EvictedIndex
  <1>3. QED  BY <1>1, <1>2

(* insert() keeps the layout of sequence numbers. *)
LEMMA LayoutInsert ==
  ASSUME IInv, SeqLayout, NEW a \in Addrs, NEW pc \in PCs \cup {NoPC}, Insert(a, pc)
  PROVE  SeqLayout'
  <1>1. TypeOK
    BY DEF IInv
  <1>2. head \in Slots /\ sequenceCounter \in Nat \ {0}
    BY <1>1 DEF TypeOK
  <1>3. history'[head].seq = sequenceCounter
    BY <1>1, <1>2 DEF Insert, WrittenHistory, WrittenEntry, TypeOK
  <1>11. \A s \in Slots \ {head} : history'[s].seq = history[s].seq
    BY <1>1, <1>2 DEF Insert, WrittenHistory, TypeOK
  <1>4. head' = NextHead(head) /\ sequenceCounter' = sequenceCounter + 1
    BY DEF Insert
  <1>10. filled' <=> filled \/ NextHead(head) = 0
    BY Zenon DEF Insert
  <1>5. \A s \in Slots \ {head} :
          history[s].seq = IF s < head THEN SeqBase + s + 1
                           ELSE IF filled THEN SeqBase - historySize + s + 1
                           ELSE 0
    BY DEF SeqLayout
  <1> SUFFICES ASSUME NEW s \in Slots
               PROVE  history'[s].seq = IF s < head' THEN SeqBase' + s + 1
                                        ELSE IF filled' THEN SeqBase' - historySize + s + 1
                                        ELSE 0
    BY DEF SeqLayout
  <1>6. s \in Nat /\ head \in Nat /\ historySize \in Nat \ {0} /\ head < historySize
    BY <1>2, SlotsFacts, HistorySizePos DEF Slots
  <1>7. CASE NextHead(head) # 0
    <2>1. head' = head + 1
      BY <1>2, <1>4, <1>7, HeadAdvancesByOne
    <2>6. filled' <=> filled
      BY <1>7, <1>10
    <2>2. SeqBase' = SeqBase
      BY <2>1, <1>4, <1>2, <1>6 DEF SeqBase
    <2>3. CASE s = head
      <3>1. s < head'
        BY <2>1, <2>3, <1>6
      <3>2. history'[s].seq = SeqBase' + s + 1
        BY <2>1, <2>2, <2>3, <1>2, <1>3, <1>4, <1>6 DEF SeqBase
      <3>3. QED  BY <3>1, <3>2
    <2>4. CASE s # head
      <3>1. history'[s].seq = history[s].seq
        BY <2>4, <1>11
      <3>2. (s < head) = (s < head')
        BY <2>1, <2>4, <1>6
      <3>3. QED  BY <3>1, <3>2, <2>2, <2>6, <2>4, <1>5
    <2>5. QED  BY <2>3, <2>4
  <1>8. CASE NextHead(head) = 0
    <2>1. head = historySize - 1 /\ head' = 0
      BY <1>2, <1>4, <1>8, HeadWraps
    <2>6. filled'
      BY <1>8, <1>10
    <2>2. SeqBase' = sequenceCounter
      BY <2>1, <1>4, <1>2 DEF SeqBase
    <2>3. CASE s = head
      <3>1. ~(s < head')
        BY <2>1, <1>6
      <3>2. history'[s].seq = SeqBase' - historySize + s + 1
        BY <2>1, <2>2, <2>3, <1>2, <1>3, <1>4, <1>6 DEF SeqBase
      <3>3. QED  BY <3>1, <3>2, <2>6
    <2>4. CASE s # head
      <3>1. history'[s].seq = history[s].seq
        BY <2>4, <1>11
      <3>4. s < head
        BY <2>1, <2>4, <1>6 DEF Slots
      <3>2. history[s].seq = SeqBase + s + 1
        BY <3>4, <2>4, <1>5
      <3>5. history'[s].seq = SeqBase' - historySize + s + 1
        BY <3>1, <3>2, <2>1, <2>2, <1>2, <1>4, <1>6 DEF SeqBase
      <3>6. ~(s < head')
        BY <2>1, <1>6
      <3>3. QED  BY <3>5, <3>6, <2>6
    <2>5. QED  BY <2>3, <2>4
  <1>9. QED  BY <1>7, <1>8

(* The key values insert() wires for access (a, pc): the page, and the pc *)
(* when it correlates by pc.                                              *)
Rewired(a, pc, k, v) == \/ k = "Page" /\ v = ComputePage(a)
                        \/ k = "PC" /\ WithPC(pc) /\ v = pc

(* insert() keeps IndexNewest: the values it wires now map to the newest   *)
(* entry; every other value mapped to the head belonged to the oldest      *)
(* entry and no other live slot carries it.                                *)
LEMMA NewestInsert ==
  ASSUME NInv, NEW a \in Addrs, NEW pc \in PCs \cup {NoPC}, Insert(a, pc)
  PROVE  IndexNewest'
  <1> DEFINE e == WrittenEntry(a, pc)
  <1>1. TypeOK
    BY DEF NInv, IInv
  <1>2. head \in Slots /\ head \in Nat /\ sequenceCounter \in Nat \ {0}
    BY <1>1, SlotsFacts DEF TypeOK
  <1>3. history'[head] = e /\ e.seq = sequenceCounter
    BY <1>1, <1>2 DEF Insert, WrittenHistory, WrittenEntry, TypeOK
  <1>4. \A u \in Slots \ {head} : history'[u] = history[u]
    BY <1>1 DEF Insert, WrittenHistory, TypeOK
  <1>5. \A k \in KeyKinds, v \in Nat : Rewired(a, pc, k, v) =>
          v \in DOMAIN lastIndex'[k] /\ lastIndex'[k][v] = head
    <2>1. lastIndex'["Page"] = MapSet(EvictedIndex["Page"], ComputePage(a), head)
      BY DEF Insert, WrittenIndex, KeyKinds
    <2>2. WithPC(pc) => lastIndex'["PC"] = MapSet(EvictedIndex["PC"], pc, head)
      BY DEF Insert, WrittenIndex, KeyKinds
    <2>3. QED  BY <2>1, <2>2 DEF Rewired, MapSet
  <1>6. \A k \in KeyKinds : \A v \in DOMAIN EvictedIndex[k] : ~Rewired(a, pc, k, v) =>
          v \in DOMAIN lastIndex'[k] /\ lastIndex'[k][v] = EvictedIndex[k][v]
    <2>1. lastIndex'["Page"] = MapSet(EvictedIndex["Page"], ComputePage(a), head)
      BY DEF Insert, WrittenIndex, KeyKinds
    <2>2. WithPC(pc) => lastIndex'["PC"] = MapSet(EvictedIndex["PC"], pc, head)
      BY DEF Insert, WrittenIndex, KeyKinds
    <2>3. ~WithPC(pc) => lastIndex'["PC"] = EvictedIndex["PC"]
      BY DEF Insert, WrittenIndex, KeyKinds
    <2>4. QED  BY <2>1, <2>2, <2>3 DEF Rewired, MapSet, KeyKinds
  <1> SUFFICES ASSUME NEW k \in KeyKinds, NEW s \in Slots, history'[s].links[k].keyValid
               PROVE  LET v == history'[s].links[k].keyValue IN
                      /\ v \in DOMAIN lastIndex'[k]
                      /\ history'[lastIndex'[k][v]].seq >= history'[s].seq
    BY DEF IndexNewest
  <1>7. CASE s = head
    <2>1. e.links[k].keyValid
      BY <1>7, <1>3
    <2>2. Rewired(a, pc, k, e.links[k].keyValue)
      <3>1. CASE k = "Page"
        BY <3>1, WireKey DEF WrittenEntry, Rewired
      <3>2. CASE k = "PC"
        BY <3>2, <2>1, WireKey DEF WrittenEntry, Rewired, NullLink
      <3>3. QED  BY <3>1, <3>2 DEF KeyKinds
    <2>3. e.links[k].keyValue \in Nat
      BY <1>1, WrittenEntryType DEF EntryType, LinkType
    <2>4. e.seq \in Nat
      BY <1>2, <1>3
    <2>5. QED  BY <2>2, <2>3, <2>4, <1>3, <1>5, <1>7
  <1>8. CASE s # head
    <2> DEFINE v == history[s].links[k].keyValue
               t == lastIndex[k][v]
    <2>1. history'[s] = history[s]
      BY <1>8, <1>4
    <2>2. history[s].links[k].keyValid
      BY <2>1
    <2>3. v \in DOMAIN lastIndex[k] /\ history[t].seq >= history[s].seq
      BY <2>2 DEF NInv, IndexNewest
    <2>4. v \in Nat /\ t \in Slots /\ history[s].seq \in Nat /\ history[t].seq \in Nat
      BY <2>3, <1>1 DEF TypeOK, EntryType, LinkType
    <2>5. CASE Rewired(a, pc, k, v)
      <3>1. v \in DOMAIN lastIndex'[k] /\ lastIndex'[k][v] = head
        BY <2>5, <2>4, <1>5
      <3>2. history[s].seq < sequenceCounter
        BY <1>1, SeqBelowCounter DEF NInv
      <3>3. QED  BY <2>1, <3>1, <3>2, <2>4, <1>2, <1>3
    <2>6. CASE ~Rewired(a, pc, k, v)
      <3>1. t # head
        <4> SUFFICES ASSUME t = head PROVE FALSE
          OBVIOUS
        <4>1. history[head].links[k].keyValid
          BY <2>3 DEF NInv, IInv, IndexSound
        <4>2. CASE filled
          <5>1. history[head].seq < history[s].seq
            BY <4>2, <1>1, <1>8, HeadOldest DEF NInv
          <5>2. QED  BY <5>1, <2>3, <2>4
        <4>3. CASE ~filled
          <5>1. ~history[head].links[k].keyValid
            BY <4>3, <1>2 DEF NInv, IInv, FreshTail
          <5>2. QED  BY <5>1, <4>1
        <4>4. QED  BY <4>2, <4>3
      <3>2. v \in DOMAIN EvictedIndex[k] /\ EvictedIndex[k][v] = t
        BY <3>1, <2>3, <1>1, EvictKeeps
      <3>3. v \in DOMAIN lastIndex'[k] /\ lastIndex'[k][v] = t
        BY <3>2, <2>6, <1>6
      <3>4. history'[t].seq = history[t].seq
        BY <3>1, <2>4, <1>4
      <3>5. QED  BY <3>3, <3>4, <2>1, <2>3
    <2>7. QED  BY <2>5, <2>6
  <1>9. QED  BY <1>7, <1>8

LEMMA NInvInit == Init => NInv
  <1> SUFFICES ASSUME Init PROVE NInv
    OBVIOUS
  <1>1. IInv
    BY InitInv
  <1>2. SeqLayout
    BY SlotsFacts DEF Init, SeqLayout, EmptyEntry
  <1>3. IndexNewest
    BY DEF Init, IndexNewest, EmptyEntry, NullLink
  <1>4. QED  BY <1>1, <1>2, <1>3 DEF NInv

LEMMA NInvNext == NInv /\ [Next]_vars => NInv'
  <1> SUFFICES ASSUME NInv, [Next]_vars PROVE NInv'
    OBVIOUS
  <1>1. IInv'
    BY NextInv DEF NInv
  <1>2. ASSUME NEW a \in Addrs, NEW pc \in PCs \cup {NoPC}, Insert(a, pc)
        PROVE  SeqLayout' /\ IndexNewest'
    BY <1>2, LayoutInsert, NewestInsert DEF NInv
  <1>3. CASE Reset
    <2>1. SeqLayout'
      BY <1>3, SlotsFacts DEF Reset, SeqLayout, EmptyEntry
    <2>2. IndexNewest'
      BY <1>3 DEF Reset, IndexNewest, EmptyEntry, NullLink
    <2>3. QED  BY <1>1, <2>1, <2>2 DEF NInv
  <1>4. CASE UNCHANGED vars
    <2>1. UNCHANGED <<history, lastIndex, head, filled, sequenceCounter>>
      BY <1>4 DEF vars
    <2>2. SeqLayout'
      BY <2>1 DEF NInv, SeqLayout, SeqBase
    <2>3. IndexNewest'
      BY <2>1 DEF NInv, IndexNewest
    <2>4. QED  BY <1>1, <2>2, <2>3 DEF NInv
  <1>5. QED  BY <1>1, <1>2, <1>3, <1>4 DEF Next, NInv

(***************************************************************************)
(* No lost index entry, for every capacity: every key value a live link   *)
(* carries is mapped by pcIndex or pageIndex, to a slot at least as new.  *)
(* With IndexSoundInvariant, the index maps each live value to its newest *)
(* slot.  It rests on the layout of sequence numbers: the entry evictIndex *)
(* removes on wraparound is the oldest, so a value it unmaps is carried   *)
(* by no other live slot.                                                  *)
(***************************************************************************)
THEOREM IndexNewestInvariant == Spec => []IndexNewest
  <1>1. NInv => IndexNewest
    BY DEF NInv
  <1>2. QED  BY <1>1, NInvInit, NInvNext, PTL DEF Spec

-----------------------------------------------------------------------------
(***************************************************************************)
(* Refinement of GHBWindow: insert() is Remember of the access it records *)
(* and reset() is Forget.                                                  *)
(***************************************************************************)
(* The access the window shows for slot s of history h. *)
SlotAccess(h, s) ==
  [addr |-> h[s].addr,
   pc |-> IF h[s].links["PC"].keyValid THEN h[s].links["PC"].keyValue ELSE NoPC]

WinElem == [addr : Addrs \cup {0}, pc : Nat \cup {NoPC}]

(* The n accesses of buffer h read from slot st on. *)
WindowOf(h, n, st) == [i \in 1 .. n |-> SlotAccess(h, (st + i - 1) % historySize)]

(* Window is WindowOf the live count from the window start. *)
LEMMA WindowDef ==
  /\ Window = WindowOf(history, LiveCount, WindowStart)
  /\ Window' = WindowOf(history', LiveCount', WindowStart')
  BY DEF Window, WindowOf, SlotAccess

(* Indices of the circular buffer, read from h + 1 or from h. *)
LEMMA ModFacts ==
  ASSUME NEW H \in Nat \ {0}, NEW h \in 0 .. H - 1, NEW i \in 1 .. H
  PROVE  /\ (((h + 1) % H) + i - 1) % H = (h + i) % H
         /\ (h + i) % H \in 0 .. H - 1
         /\ ((h + i) % H = h) <=> (i = H)
         /\ (i - 1) % H = i - 1
<1>1. (i - 1) % H = i - 1
  OBVIOUS
<1>2. (h + i) % H = IF h + i < H THEN h + i ELSE h + i - H
  OBVIOUS
<1>3. CASE h + 1 < H
  <2>1. (h + 1) % H = h + 1
    BY <1>3
  <2>. QED  BY <1>1, <1>2, <2>1
<1>4. CASE h + 1 = H
  <2>1. (h + 1) % H = 0
    BY <1>4
  <2>. QED  BY <1>1, <1>2, <2>1, <1>4
<1>. QED  BY <1>3, <1>4

(* WindowOf n accesses from any slot is a sequence of n recorded accesses. *)
LEMMA WindowType ==
  ASSUME NEW h \in [Slots -> EntryType], NEW n \in 0 .. historySize, NEW st \in Slots
  PROVE  /\ WindowOf(h, n, st) \in Seq(WinElem)
         /\ Len(WindowOf(h, n, st)) = n
         /\ \A i \in 1 .. n : WindowOf(h, n, st)[i] = SlotAccess(h, (st + i - 1) % historySize)
<1>1. \A i \in 1 .. n : (st + i - 1) % historySize \in Slots
  BY HistorySizePos DEF Slots
<1>2. \A s \in Slots : SlotAccess(h, s) \in WinElem
  <2> SUFFICES ASSUME NEW s \in Slots PROVE SlotAccess(h, s) \in WinElem
    OBVIOUS
  <2>1. h[s] \in EntryType
    OBVIOUS
  <2>2. h[s].addr \in Addrs \cup {0} /\ h[s].links["PC"].keyValue \in Nat
    BY <2>1 DEF EntryType, LinkType, KeyKinds
  <2>. QED  BY <2>2 DEF SlotAccess, WinElem
<1>3. WindowOf(h, n, st) \in [1 .. n -> WinElem]
  BY <1>1, <1>2 DEF WindowOf
<1>4. \A i \in 1 .. n : WindowOf(h, n, st)[i] = SlotAccess(h, (st + i - 1) % historySize)
  BY DEF WindowOf
<1>. QED  BY <1>3, <1>4

(* The access insert(a, pc) records, as the window shows it. *)
Recorded(a, pc) == [addr |-> a, pc |-> IF WithPC(pc) THEN pc ELSE NoPC]

LEMMA InsertSlots ==
  ASSUME TypeOK, NEW a \in Addrs, NEW pc \in PCs \cup {NoPC}, Insert(a, pc)
  PROVE  /\ SlotAccess(history', head) = Recorded(a, pc)
         /\ \A s \in Slots \ {head} : SlotAccess(history', s) = SlotAccess(history, s)
<1>1. head \in Slots
  BY DEF TypeOK
<1>2. history'[head] = WrittenEntry(a, pc)
  BY <1>1 DEF Insert, WrittenHistory, TypeOK
<1>3. WrittenEntry(a, pc).links["PC"] = IF WithPC(pc) THEN Wire(EvictedIndex["PC"], pc, SeqAt)
                                        ELSE NullLink
  BY DEF WrittenEntry, KeyKinds
<1>4. SlotAccess(history', head) = Recorded(a, pc)
  BY <1>2, <1>3, WireKey DEF SlotAccess, Recorded, WrittenEntry, NullLink
<1>5. \A s \in Slots \ {head} : history'[s] = history[s]
  BY DEF Insert, WrittenHistory, TypeOK
<1>. QED  BY <1>4, <1>5 DEF SlotAccess

(* A sequence that agrees with w and then ends in x is Append(w, x). *)
LEMMA AppendEq ==
  ASSUME NEW S, NEW w \in Seq(S), NEW v \in Seq(S), NEW x \in S,
         Len(v) = Len(w) + 1, \A i \in 1 .. Len(w) : v[i] = w[i], v[Len(w) + 1] = x
  PROVE  v = Append(w, x)
<1>1. Append(w, x) \in Seq(S) /\ Len(Append(w, x)) = Len(w) + 1
      /\ \A i \in 1 .. Len(w) : Append(w, x)[i] = w[i]
      /\ Append(w, x)[Len(w) + 1] = x
  BY AppendProperties
<1>2. \A i \in 1 .. Len(v) : v[i] = Append(w, x)[i]
  BY <1>1
<1>. QED  BY <1>1, <1>2, SeqEqual

(* A sequence of w's length that is w shifted by one and then x is       *)
(* Tail(Append(w, x)): the oldest element is dropped.                     *)
LEMMA TailAppendEq ==
  ASSUME NEW S, NEW w \in Seq(S), NEW v \in Seq(S), NEW x \in S, Len(w) > 0,
         Len(v) = Len(w), \A i \in 1 .. Len(w) - 1 : v[i] = w[i + 1], v[Len(w)] = x
  PROVE  v = Tail(Append(w, x))
<1> DEFINE u == Append(w, x)
<1>1. u \in Seq(S) /\ Len(u) = Len(w) + 1
      /\ \A i \in 1 .. Len(w) : u[i] = w[i]
      /\ u[Len(w) + 1] = x
  BY AppendProperties
<1>2. u # <<>>
  BY <1>1
<1>3. Tail(u) \in Seq(S) /\ Len(Tail(u)) = Len(w)
      /\ \A i \in 1 .. Len(w) : Tail(u)[i] = u[i + 1]
  BY <1>1, <1>2, HeadTailProperties
<1>4. \A i \in 1 .. Len(v) : v[i] = Tail(u)[i]
  BY <1>1, <1>3
<1>. QED  BY <1>3, <1>4, SeqEqual

(* insert() is a Remember step of the window. *)
LEMMA RefineInsert ==
  ASSUME IInv, NEW a \in Addrs, NEW pc \in PCs \cup {NoPC}, Insert(a, pc)
  PROVE  Window' = IF Len(Window) < historySize THEN Append(Window, Recorded(a, pc))
                   ELSE Tail(Append(Window, Recorded(a, pc)))
<1> DEFINE e == Recorded(a, pc)
<1>1. TypeOK /\ TypeOK'
  BY InsertInv DEF IInv
<1>2. head \in Slots /\ historySize \in Nat \ {0} /\ head \in 0 .. historySize - 1
  BY <1>1, HistorySizePos DEF TypeOK, Slots
<1>3. /\ history \in [Slots -> EntryType] /\ filled \in BOOLEAN
      /\ history' \in [Slots -> EntryType]
  BY <1>1 DEF TypeOK
<1>4. e \in WinElem
  BY ParamsAssumption DEF Recorded, WinElem, WithPC
<1>5. /\ SlotAccess(history', head) = e
      /\ \A s \in Slots \ {head} : SlotAccess(history', s) = SlotAccess(history, s)
  BY <1>1, InsertSlots
<1>6. head' = NextHead(head)
  BY DEF Insert
<1>7. filled' <=> filled \/ NextHead(head) = 0
  BY Zenon DEF Insert
<1>8. NextHead(head) = (head + 1) % historySize
  BY DEF NextHead
<1>9. filled' \in BOOLEAN /\ 0 \in Slots /\ historySize \in 0 .. historySize
      /\ head \in 0 .. historySize
  BY <1>1, <1>2, SlotsFacts DEF TypeOK
<1>10. CASE ~filled
  <2>1. Window = WindowOf(history, head, 0)
    BY <1>10, <1>3, WindowDef DEF LiveCount, WindowStart
  <2>2. /\ Window \in Seq(WinElem) /\ Len(Window) = head
        /\ \A i \in 1 .. head : Window[i] = SlotAccess(history, (0 + i - 1) % historySize)
    <3>1. /\ WindowOf(history, head, 0) \in Seq(WinElem)
          /\ Len(WindowOf(history, head, 0)) = head
          /\ \A i \in 1 .. head : WindowOf(history, head, 0)[i]
                                   = SlotAccess(history, (0 + i - 1) % historySize)
      BY Zenon, <1>3, <1>9, WindowType
    <3>. QED  BY Zenon, <2>1, <3>1
  <2>3. Window' = WindowOf(history', head + 1, 0) /\ head + 1 \in 0 .. historySize
    <3>1. CASE NextHead(head) # 0
      <4>1. head' = head + 1 /\ ~filled'
        BY <3>1, <1>10, <1>6, <1>7, <1>2, HeadAdvancesByOne
      <4>2. head + 1 \in Slots
        BY <4>1, <1>6, <1>2, NextHeadType
      <4>. QED  BY <4>1, <4>2, <1>9, WindowDef DEF LiveCount, WindowStart, Slots
    <3>2. CASE NextHead(head) = 0
      <4>1. head = historySize - 1 /\ head' = 0 /\ filled'
        BY <3>2, <1>6, <1>7, <1>2, HeadWraps
      <4>. QED  BY <4>1, <1>9, WindowDef DEF LiveCount, WindowStart
    <3>. QED  BY <3>1, <3>2
  <2>4. /\ Window' \in Seq(WinElem) /\ Len(Window') = head + 1
        /\ \A i \in 1 .. head + 1 :
              Window'[i] = SlotAccess(history', (0 + i - 1) % historySize)
    <3>1. /\ WindowOf(history', head + 1, 0) \in Seq(WinElem)
          /\ Len(WindowOf(history', head + 1, 0)) = head + 1
          /\ \A i \in 1 .. head + 1 : WindowOf(history', head + 1, 0)[i]
                                       = SlotAccess(history', (0 + i - 1) % historySize)
      BY Zenon, <2>3, <1>3, <1>9, WindowType
    <3>. QED  BY Zenon, <2>3, <3>1
  <2>5. \A i \in 1 .. head : Window'[i] = Window[i]
    <3> SUFFICES ASSUME NEW i \in 1 .. head PROVE Window'[i] = Window[i]
      OBVIOUS
    <3>1. (0 + i - 1) % historySize = i - 1 /\ i - 1 \in Slots \ {head}
      BY <1>2 DEF Slots
    <3>. QED  BY <3>1, <2>2, <2>4, <1>5
  <2>6. Window'[head + 1] = e
    <3>1. (0 + (head + 1) - 1) % historySize = head
      BY <1>2
    <3>. QED  BY <3>1, <2>4, <1>5, <1>2
  <2>7. Window' = Append(Window, e)
    BY <2>2, <2>4, <2>5, <2>6, <1>4, AppendEq
  <2>. QED  BY <2>2, <2>7, <1>2
<1>11. CASE filled
  <2>1. filled'
    BY <1>11, <1>7
  <2>2. /\ Window = WindowOf(history, historySize, head)
        /\ Window' = WindowOf(history', historySize, NextHead(head))
    BY <1>11, <2>1, <1>3, <1>6, <1>9, WindowDef DEF LiveCount, WindowStart
  <2>3. /\ Window \in Seq(WinElem) /\ Len(Window) = historySize
        /\ \A i \in 1 .. historySize :
              Window[i] = SlotAccess(history, (head + i - 1) % historySize)
    <3>1. /\ WindowOf(history, historySize, head) \in Seq(WinElem)
          /\ Len(WindowOf(history, historySize, head)) = historySize
          /\ \A i \in 1 .. historySize : WindowOf(history, historySize, head)[i]
                                   = SlotAccess(history, (head + i - 1) % historySize)
      BY Zenon, <1>2, <1>3, <1>9, WindowType
    <3>. QED  BY Zenon, <2>2, <3>1
  <2>4. /\ Window' \in Seq(WinElem) /\ Len(Window') = historySize
        /\ \A i \in 1 .. historySize :
              Window'[i] = SlotAccess(history', (NextHead(head) + i - 1) % historySize)
    <3>0. NextHead(head) \in Slots
      BY <1>2, NextHeadType
    <3>1. /\ WindowOf(history', historySize, NextHead(head)) \in Seq(WinElem)
          /\ Len(WindowOf(history', historySize, NextHead(head))) = historySize
          /\ \A i \in 1 .. historySize : WindowOf(history', historySize, NextHead(head))[i]
                          = SlotAccess(history', (NextHead(head) + i - 1) % historySize)
      BY Zenon, <3>0, <1>3, <1>9, WindowType
    <3>. QED  BY Zenon, <2>2, <3>1
  <2>5. \A i \in 1 .. historySize :
          /\ (NextHead(head) + i - 1) % historySize = (head + i) % historySize
          /\ (head + i) % historySize \in Slots
          /\ ((head + i) % historySize = head) <=> (i = historySize)
    <3> SUFFICES ASSUME NEW i \in 1 .. historySize
                 PROVE  /\ (NextHead(head) + i - 1) % historySize = (head + i) % historySize
                        /\ (head + i) % historySize \in Slots
                        /\ ((head + i) % historySize = head) <=> (i = historySize)
      OBVIOUS
    <3>1. /\ (((head + 1) % historySize) + i - 1) % historySize = (head + i) % historySize
          /\ (head + i) % historySize \in 0 .. historySize - 1
          /\ ((head + i) % historySize = head) <=> (i = historySize)
      <4>1. historySize \in Nat \ {0} /\ head \in 0 .. historySize - 1
            /\ i \in 1 .. historySize
        BY <1>2
      <4>2. (head + i) % historySize = IF head + i < historySize THEN head + i
                                       ELSE head + i - historySize
        BY <4>1
      <4>3. CASE head + 1 < historySize
        <5>1. (head + 1) % historySize = head + 1
          BY <4>1, <4>3
        <5>. QED  BY <4>1, <4>2, <5>1
      <4>4. CASE head + 1 = historySize
        <5>1. (head + 1) % historySize = 0
          BY <4>1, <4>4
        <5>2. (0 + i - 1) % historySize = i - 1
          BY <4>1
        <5>. QED  BY <4>1, <4>2, <4>4, <5>1, <5>2
      <4>. QED  BY <4>1, <4>3, <4>4
    <3>2. (NextHead(head) + i - 1) % historySize = (head + i) % historySize
      BY <3>1, <1>8
    <3>3. (head + i) % historySize \in Slots
      BY <3>1 DEF Slots
    <3>. QED  BY Zenon, <3>1, <3>2, <3>3
  <2>6. \A i \in 1 .. historySize - 1 : Window'[i] = Window[i + 1]
    <3> SUFFICES ASSUME NEW i \in 1 .. historySize - 1 PROVE Window'[i] = Window[i + 1]
      OBVIOUS
    <3>1. i \in 1 .. historySize /\ i + 1 \in 1 .. historySize /\ i # historySize
      BY <1>2
    <3>2. (head + (i + 1) - 1) % historySize = (head + i) % historySize
      BY <1>2
    <3>3. (head + i) % historySize \in Slots \ {head}
      BY <3>1, <2>5
    <3>. QED  BY <3>1, <3>2, <3>3, <2>3, <2>4, <2>5, <1>5
  <2>7. Window'[historySize] = e
    <3>1. (head + historySize) % historySize = head
      BY <1>2
    <3>2. historySize \in 1 .. historySize
      BY <1>2
    <3>3. (NextHead(head) + historySize - 1) % historySize = head
      BY <3>1, <3>2, <2>5
    <3>4. Window'[historySize] = SlotAccess(history', head)
      BY <3>2, <3>3, <2>4
    <3>. QED  BY <3>4, <1>5
  <2>8. Window' = Tail(Append(Window, e))
    <3>1. /\ Len(Window) > 0 /\ Len(Window') = Len(Window)
          /\ \A i \in 1 .. Len(Window) - 1 : Window'[i] = Window[i + 1]
          /\ Window'[Len(Window)] = e
      BY <2>3, <2>4, <2>6, <2>7, <1>2
    <3>. QED  BY Zenon, <3>1, <2>3, <2>4, <1>4, TailAppendEq
  <2>. QED  BY <2>3, <2>8
<1>. QED  BY <1>10, <1>11

(* The access insert(a, pc) records is one the abstract window accepts. *)
LEMMA RecordedAccess ==
  ASSUME NEW a \in Addrs, NEW pc \in PCs \cup {NoPC}
  PROVE  Recorded(a, pc) \in W!Accesses
  BY DEF Recorded, W!Accesses

(* A window of no accesses is empty. *)
LEMMA EmptyWindow ==
  ASSUME NEW h, NEW st PROVE WindowOf(h, 0, st) = <<>>
  BY DEF WindowOf

(* reset() is a Forget step of the window. *)
LEMMA RefineReset ==
  ASSUME Reset PROVE Window' = <<>>
<1>1. filled' = FALSE /\ head' = 0
  BY DEF Reset
<1>2. LiveCount' = 0
  BY <1>1 DEF LiveCount
<1>. QED  BY <1>2, WindowDef, EmptyWindow

(* A buffer that does not change keeps its window. *)
LEMMA RefineStutter ==
  ASSUME UNCHANGED vars PROVE Window' = Window
  BY DEF vars, Window, LiveCount, WindowStart

(* Every step of the buffer is a step of the window or leaves it alone. *)
LEMMA RefineStep == IInv /\ [Next]_vars => [W!Next]_Window
<1> SUFFICES ASSUME IInv, [Next]_vars PROVE [W!Next]_Window
  OBVIOUS
<1>1. ASSUME NEW a \in Addrs, NEW pc \in PCs \cup {NoPC}, Insert(a, pc)
      PROVE  W!Next
  <2>1. W!Remember(Recorded(a, pc))
    BY <1>1, RefineInsert DEF W!Remember
  <2>. QED  BY <2>1, RecordedAccess DEF W!Next
<1>2. CASE Reset
  BY <1>2, RefineReset DEF W!Next, W!Forget
<1>3. CASE UNCHANGED vars
  BY <1>3, RefineStutter
<1>. QED  BY <1>1, <1>2, <1>3 DEF Next

(***************************************************************************)
(* Refinement: every behaviour of insert() and reset() on the circular    *)
(* buffer, read through the live slots from the oldest, is a behaviour of *)
(* GHBWindow: the last historySize accesses, in order.                    *)
(***************************************************************************)
THEOREM Refinement == Spec => WindowRefinement
<1>1. Init => W!Init
  <2> SUFFICES ASSUME Init PROVE Window = <<>>
    BY DEF W!Init
  <2>1. filled = FALSE /\ head = 0
    BY DEF Init
  <2>2. LiveCount = 0
    BY <2>1 DEF LiveCount
  <2>. QED  BY <2>2, WindowDef, EmptyWindow
<1>2. Spec => []IInv
  BY InitInv, NextInv, PTL DEF Spec
<1>. QED  BY <1>1, <1>2, RefineStep, PTL DEF Spec, WindowRefinement, W!Spec

====
