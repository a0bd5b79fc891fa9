----------------------------- MODULE GHBWindow ------------------------------
(***************************************************************************)
(* What the global history buffer promises, stated without slots, links   *)
(* or sequence numbers: it remembers the last Capacity accesses in order, *)
(* and the pattern for a key kind is the list of address deltas between  *)
(* consecutive remembered accesses that share the newest access's key     *)
(* value, most recent first, at most PatternLen of them.                  *)
(***************************************************************************)
EXTENDS Integers, Sequences, FiniteSets

CONSTANTS Capacity, PatternLen, PageBytes, AddrBits, Addrs, PCs, NoPC

VARIABLE window   \* the remembered accesses, oldest first: [addr, pc]

Signed(x) == IF x < 2^(AddrBits - 1) THEN x ELSE x - 2^AddrBits
Delta(a, b) == Signed((a - b) % 2^AddrBits)

(* The key value of an access for a key kind; NoPC when it has no pc. *)
KeyOf(e, k) == IF k = "PC" THEN e.pc ELSE e.addr \div PageBytes

Init == window = <<>>

(* An access is remembered; the oldest is forgotten when Capacity is reached. *)
Remember(e) ==
  window' = IF Len(window) < Capacity THEN Append(window, e)
            ELSE Tail(Append(window, e))

Forget == window' = <<>>

(* The accesses as the buffer records them: pc is NoPC when not correlated. *)
Accesses == [addr : Addrs, pc : PCs \cup {NoPC}]

Next == (\E e \in Accesses : Remember(e)) \/ Forget

Spec == Init /\ [][Next]_window

(***************************************************************************)
(* The pattern of key kind k: the positions of the remembered accesses     *)
(* with the newest access's key value, newest first, and the deltas       *)
(* between neighbours among them.                                         *)
(***************************************************************************)
Matching(k) ==
  IF window = <<>> \/ KeyOf(window[Len(window)], k) = NoPC THEN {}
  ELSE {i \in 1 .. Len(window) : KeyOf(window[i], k) = KeyOf(window[Len(window)], k)}

(* The t-th newest matching position. *)
Pos(k, t) == CHOOSE i \in Matching(k) : Cardinality({j \in Matching(k) : j > i}) = t - 1

WindowPattern(k) ==
  LET m == Cardinality(Matching(k))
      n == IF m - 1 < PatternLen THEN m - 1 ELSE PatternLen
  IN IF m = 0 THEN <<>>
     ELSE [t \in 1 .. n |-> Delta(window[Pos(k, t)].addr, window[Pos(k, t + 1)].addr)]

====
