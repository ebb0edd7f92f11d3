------------------------- MODULE EnetFragmentsProofs -------------------------
(***************************************************************************)
(* Theorems about EnetFragments for any number of packets of any number of *)
(* fragments, arriving in any order and any number of times.               *)
(***************************************************************************)
EXTENDS EnetFragments, Integers, FiniteSetTheorems, SequenceTheorems, TLAPS

-----------------------------------------------------------------------------
(* The inductive invariant.                                                *)

\* The pieces of the packets take the numbers from 1 on, packet after packet.
NumbersInRow ==
    /\ \A n \in DOMAIN packets :
            packets[n].start = IF n = 1 THEN 1 ELSE packets[n - 1].start + packets[n - 1].size
    /\ \A m, n \in DOMAIN packets : m < n => packets[m].start + packets[m].size <= packets[n].start

\* The first number the program has not been handed.
NextNumber(n) == IF n = 0 THEN 1 ELSE packets[n].start + packets[n].size

\* What has been handed over ends where the channel's counter says.
HandedUpTo == Len(handed) <= Len(packets) /\ incomingRel + 1 = NextNumber(Len(handed))

\* The pieces of a packet that its entry still waits for.
Missing(q) == (0 .. q.fragmentCount - 1) \ q.pieces

\* q is an entry of packet p, filed under the number of one of its pieces.
EntryOf(q, p) ==
    /\ q.start = p.start
    /\ q.rel \in p.start .. p.start + p.size - 1
    /\ q.fragmentCount = IF p.size = 1 THEN 0 ELSE p.size
    /\ q.pieces \subseteq 0 .. p.size - 1
    /\ p.size = 1 => q.pieces = {0}
    /\ q.remaining = Cardinality(Missing(q))
    /\ q.fragmentCount > 0 => q.start > incomingRel

\* Every entry is one of a packet, and no packet has two.
AssemblyInv ==
    /\ \A q \in assembly : \E n \in DOMAIN packets : EntryOf(q, packets[n])
    /\ \A q, r \in assembly : q.start = r.start => q = r

FragmentsInv == FragmentsTypeOK /\ NumbersInRow /\ HandedUpTo /\ HandedWhole /\ AssemblyInv

-----------------------------------------------------------------------------
(* The operators.                                                          *)

\* An entry of the list is the record of its fields.
LEMMA CommandRecord ==
    ASSUME NEW q \in IncomingCommand
    PROVE  q = [rel |-> q.rel, start |-> q.start, fragmentCount |-> q.fragmentCount,
                remaining |-> q.remaining, pieces |-> q.pieces]
BY DEF IncomingCommand

\* A fragment counted in its entry changes what has arrived and what is missing.
LEMMA WithPieceFields ==
    ASSUME NEW q \in IncomingCommand, NEW k
    PROVE  WithPiece(q, k) =
             [rel |-> q.rel, start |-> q.start, fragmentCount |-> q.fragmentCount,
              remaining |-> IF k \in q.pieces THEN q.remaining ELSE q.remaining - 1,
              pieces |-> q.pieces \cup {k}]
<1> DEFINE left == IF k \in q.pieces THEN q.remaining ELSE q.remaining - 1
           t == [q EXCEPT !.pieces = q.pieces \cup {k}]
<1>1. t = [rel |-> q.rel, start |-> q.start, fragmentCount |-> q.fragmentCount,
           remaining |-> q.remaining, pieces |-> q.pieces \cup {k}]
  BY CommandRecord
<1> HIDE DEF t
<1>2. [t EXCEPT !.remaining = left] =
        [rel |-> q.rel, start |-> q.start, fragmentCount |-> q.fragmentCount,
         remaining |-> left, pieces |-> q.pieces \cup {k}]
  BY <1>1
<1>3. WithPiece(q, k) = [t EXCEPT !.remaining = left]
  BY <1>1 DEF WithPiece, t
<1> QED BY <1>2, <1>3

\* How many of the first count pieces are missing from a set of pieces.
LEMMA MissingFacts ==
    ASSUME NEW count \in Nat, NEW S \in SUBSET Nat
    PROVE  /\ Cardinality((0 .. count - 1) \ S) \in Nat
           /\ Cardinality((0 .. count - 1) \ S) = 0 => 0 .. count - 1 \subseteq S
           /\ \A k \in 0 .. count - 1 : k \notin S =>
                  /\ Cardinality((0 .. count - 1) \ S) >= 1
                  /\ Cardinality((0 .. count - 1) \ (S \cup {k})) =
                        Cardinality((0 .. count - 1) \ S) - 1
<1> DEFINE all == 0 .. count - 1
<1>1. IsFiniteSet(all)
  BY FS_Interval
<1>2. IsFiniteSet(all \ S)
  BY <1>1, FS_Subset
<1>3. Cardinality(all \ S) \in Nat
  BY <1>2, FS_CardinalityType
<1>4. Cardinality(all \ S) = 0 => all \subseteq S
  <2>1. Cardinality(all \ S) = 0 => all \ S = {}
    BY <1>2, FS_EmptySet
  <2> QED BY <2>1
<1>5. ASSUME NEW k \in all, k \notin S
      PROVE  Cardinality(all \ S) >= 1 /\ Cardinality(all \ (S \cup {k})) = Cardinality(all \ S) - 1
  <2>1. all \ (S \cup {k}) = (all \ S) \ {k}
    OBVIOUS
  <2>2. k \in all \ S
    BY <1>5
  <2>3. Cardinality((all \ S) \ {k}) = Cardinality(all \ S) - 1
    BY <1>2, <2>2, FS_RemoveElement
  <2>4. Cardinality(all \ S) # 0
    BY <1>2, <2>2, FS_EmptySet
  <2> QED BY <1>3, <2>1, <2>3, <2>4
<1> QED BY <1>3, <1>4, <1>5

\* A piece counted once more is counted once.
LEMMA WithPieceFacts ==
    ASSUME NEW q \in IncomingCommand, NEW k \in 0 .. q.fragmentCount - 1,
           q.pieces \subseteq 0 .. q.fragmentCount - 1, q.remaining = Cardinality(Missing(q))
    PROVE  LET w == WithPiece(q, k) IN
           /\ w \in IncomingCommand
           /\ w.rel = q.rel /\ w.start = q.start /\ w.fragmentCount = q.fragmentCount
           /\ w.pieces \subseteq 0 .. q.fragmentCount - 1
           /\ w.remaining = Cardinality(Missing(w))
<1> DEFINE w == WithPiece(q, k)
<1>1. q.fragmentCount \in Nat /\ q.pieces \in SUBSET Nat /\ q.rel \in Nat /\ q.start \in Nat
      /\ q.remaining \in Nat
  BY DEF IncomingCommand
<1>2. w = [rel |-> q.rel, start |-> q.start, fragmentCount |-> q.fragmentCount,
           remaining |-> IF k \in q.pieces THEN q.remaining ELSE q.remaining - 1,
           pieces |-> q.pieces \cup {k}]
  BY WithPieceFields
<1> HIDE DEF w
<1>3. /\ w.rel = q.rel /\ w.start = q.start /\ w.fragmentCount = q.fragmentCount
      /\ w.pieces = q.pieces \cup {k}
      /\ w.remaining = IF k \in q.pieces THEN q.remaining ELSE q.remaining - 1
  BY <1>2
<1>4. Missing(w) = (0 .. q.fragmentCount - 1) \ (q.pieces \cup {k})
  BY <1>3 DEF Missing
<1>5. w.remaining = Cardinality(Missing(w)) /\ w.remaining \in Nat
  <2>1. CASE k \in q.pieces
    <3>1. q.pieces \cup {k} = q.pieces
      BY <2>1
    <3> QED BY <1>1, <1>3, <1>4, <2>1, <3>1 DEF Missing
  <2>2. CASE k \notin q.pieces
    <3>1. /\ Cardinality(Missing(q)) >= 1
          /\ Cardinality((0 .. q.fragmentCount - 1) \ (q.pieces \cup {k})) =
                Cardinality(Missing(q)) - 1
      BY <1>1, <2>2, MissingFacts DEF Missing
    <3> QED BY <1>1, <1>3, <1>4, <2>2, <3>1
  <2> QED BY <2>1, <2>2
<1>6. k \in Nat
  BY <1>1
<1>7. w \in IncomingCommand
  BY <1>1, <1>2, <1>3, <1>5, <1>6 DEF IncomingCommand
<1>8. w.pieces \subseteq 0 .. q.fragmentCount - 1
  BY <1>3
<1> QED BY <1>3, <1>5, <1>7, <1>8 DEF w

\* No number belongs to two packets.
LEMMA NumbersApart ==
    ASSUME packets \in Seq(Packet), NumbersInRow, NEW m \in DOMAIN packets, NEW n \in DOMAIN packets,
           NEW x \in Nat,
           packets[m].start <= x, x < packets[m].start + packets[m].size,
           packets[n].start <= x, x < packets[n].start + packets[n].size
    PROVE  m = n
<1>1. /\ packets[m].start \in Nat /\ packets[m].size \in Nat
      /\ packets[n].start \in Nat /\ packets[n].size \in Nat
      /\ m \in Nat /\ n \in Nat
  <2>1. packets[m] \in Packet /\ packets[n] \in Packet
    OBVIOUS
  <2>2. m \in 1 .. Len(packets) /\ n \in 1 .. Len(packets)
    OBVIOUS
  <2> QED BY <2>1, <2>2, FragmentsAssumption DEF Packet
<1>2. ~(m < n)
  BY <1>1 DEF NumbersInRow
<1>3. ~(n < m)
  BY <1>1 DEF NumbersInRow
<1> QED BY <1>1, <1>2, <1>3

\* Packet n + 1 starts at the first number packets 1 to n leave.
LEMMA NextIsStart ==
    ASSUME packets \in Seq(Packet), NumbersInRow, NEW n \in Nat, n + 1 \in DOMAIN packets
    PROVE  packets[n + 1].start = NextNumber(n)
<1>1. packets[n + 1].start =
        IF n + 1 = 1 THEN 1 ELSE packets[(n + 1) - 1].start + packets[(n + 1) - 1].size
  BY DEF NumbersInRow
<1>2. (n + 1) - 1 = n /\ (n + 1 = 1 <=> n = 0)
  OBVIOUS
<1> QED BY <1>1, <1>2 DEF NextNumber

\* The piece filed in the entry of a packet is a number of that packet.
LEMMA EntryFacts ==
    ASSUME packets \in Seq(Packet), NEW n \in DOMAIN packets, NEW q \in IncomingCommand,
           EntryOf(q, packets[n])
    PROVE  /\ packets[n].start \in Nat \ {0} /\ packets[n].size \in 1 .. MaxFragments
           /\ q.rel \in Nat /\ q.start \in Nat /\ q.fragmentCount \in Nat /\ q.remaining \in Nat
           /\ q.pieces \in SUBSET Nat
           /\ packets[n].start <= q.rel /\ q.rel < packets[n].start + packets[n].size
           /\ LastNumber(q) \in Nat
<1>1. packets[n] \in Packet
  OBVIOUS
<1>2. packets[n].start \in Nat \ {0} /\ packets[n].size \in 1 .. MaxFragments
  BY <1>1 DEF Packet
<1>3. /\ q.rel \in Nat /\ q.start \in Nat /\ q.fragmentCount \in Nat /\ q.remaining \in Nat
      /\ q.pieces \in SUBSET Nat
  BY DEF IncomingCommand
<1>4. packets[n].start <= q.rel /\ q.rel < packets[n].start + packets[n].size
  BY <1>2, <1>3, FragmentsAssumption DEF EntryOf
<1>5. LastNumber(q) \in Nat
  BY <1>3 DEF LastNumber
<1> QED BY <1>2, <1>3, <1>4, <1>5

-----------------------------------------------------------------------------
(* The invariant, action by action.                                        *)

\* It holds of a channel nothing was sent on.
LEMMA FragmentsInvInit == FragmentsInit => FragmentsInv
<1> SUFFICES ASSUME FragmentsInit PROVE FragmentsInv
  OBVIOUS
<1>1. FragmentsTypeOK
  BY FS_EmptySet DEF FragmentsInit, FragmentsTypeOK
<1>2. NumbersInRow /\ HandedWhole /\ AssemblyInv
  BY DEF FragmentsInit, NumbersInRow, HandedWhole, AssemblyInv
<1>3. HandedUpTo
  BY DEF FragmentsInit, HandedUpTo, NextNumber
<1> QED BY <1>1, <1>2, <1>3 DEF FragmentsInv

\* A packet that is sent takes the numbers after those of the last one.
LEMMA SendKeepsInv ==
    ASSUME FragmentsInv, NEW size \in 1 .. MaxFragments, SendPacket(size)
    PROVE  FragmentsInv'
<1> DEFINE p == [start |-> NextStart, size |-> size]
           len == Len(packets)
<1>1. /\ packets \in Seq(Packet) /\ len \in Nat /\ DOMAIN packets = 1 .. len
      /\ Len(handed) \in Nat /\ handed \in Seq([start : Nat, pieces : SUBSET Nat])
  BY DEF FragmentsInv, FragmentsTypeOK
<1>2. NextStart = NextNumber(len) /\ NextStart \in Nat \ {0}
  <2>1. CASE len = 0
    BY <1>1, <2>1 DEF NextStart, NextNumber
  <2>2. CASE len # 0
    <3>1. packets[len] \in Packet /\ packets # <<>> /\ Last(packets) = packets[len]
      BY <1>1, <2>2 DEF Last
    <3> QED BY <2>2, <3>1, FragmentsAssumption DEF NextStart, NextNumber, Packet
  <2> QED BY <2>1, <2>2
<1>3. p \in Packet
  BY <1>2 DEF Packet
<1> HIDE DEF p
<1>4. packets' = Append(packets, p)
  BY DEF SendPacket, p
<1>5. /\ packets' \in Seq(Packet) /\ Len(packets') = len + 1 /\ DOMAIN packets' = 1 .. len + 1
      /\ packets'[len + 1] = p
      /\ \A n \in 1 .. len : packets'[n] = packets[n]
  BY <1>1, <1>3, <1>4
<1>6. /\ acknowledged' = acknowledged /\ incomingRel' = incomingRel
      /\ assembly' = assembly /\ handed' = handed
  BY DEF SendPacket
<1>7. FragmentsTypeOK'
  BY <1>5, <1>6 DEF FragmentsInv, FragmentsTypeOK
<1>8. p.start = NextNumber(len) /\ p.size = size /\ p.start \in Nat /\ p.size \in Nat
  BY <1>2, FragmentsAssumption DEF p
<1>9. \A n \in 1 .. len : /\ packets[n].start \in Nat /\ packets[n].size \in Nat
  <2> SUFFICES ASSUME NEW n \in 1 .. len PROVE packets[n].start \in Nat /\ packets[n].size \in Nat
    OBVIOUS
  <2>1. packets[n] \in Packet
    BY <1>1
  <2> QED BY <2>1, FragmentsAssumption DEF Packet
<1>10. NumbersInRow'
  <2>1. ASSUME NEW n \in 1 .. len + 1
        PROVE  packets'[n].start = IF n = 1 THEN 1 ELSE packets'[n - 1].start + packets'[n - 1].size
    <3>1. CASE n = len + 1
      <4>1. CASE len = 0
        BY <1>5, <1>8, <3>1, <4>1 DEF NextNumber
      <4>2. CASE len # 0
        <5>1. n # 1 /\ n - 1 = len /\ len \in 1 .. len
          BY <1>1, <3>1, <4>2
        <5> QED BY <1>5, <1>8, <3>1, <4>2, <5>1 DEF NextNumber
      <4> QED BY <4>1, <4>2
    <3>2. CASE n # len + 1
      <4>1. n \in 1 .. len /\ (n # 1 => n - 1 \in 1 .. len)
        BY <1>1, <3>2
      <4>2. packets[n].start = IF n = 1 THEN 1 ELSE packets[n - 1].start + packets[n - 1].size
        BY <1>1, <4>1 DEF FragmentsInv, NumbersInRow
      <4> QED BY <1>5, <4>1, <4>2
    <3> QED BY <3>1, <3>2
  <2>2. ASSUME NEW m \in 1 .. len + 1, NEW n \in 1 .. len + 1, m < n
        PROVE  packets'[m].start + packets'[m].size <= packets'[n].start
    <3>1. m \in 1 .. len /\ packets'[m] = packets[m]
      BY <1>1, <1>5, <2>2
    <3>2. CASE n # len + 1
      <4>1. n \in 1 .. len /\ packets'[n] = packets[n]
        BY <1>1, <1>5, <3>2
      <4> QED BY <1>1, <2>2, <3>1, <4>1 DEF FragmentsInv, NumbersInRow
    <3>3. CASE n = len + 1
      <4>1. packets'[n].start = packets[len].start + packets[len].size
        BY <1>1, <1>5, <1>8, <3>1, <3>3 DEF NextNumber
      <4>2. CASE m = len
        BY <1>9, <3>1, <4>1, <4>2
      <4>3. CASE m # len
        <5>1. len \in 1 .. len /\ m < len
          BY <1>1, <3>1, <4>3
        <5>2. packets[m].start + packets[m].size <= packets[len].start
          BY <1>1, <3>1, <5>1 DEF FragmentsInv, NumbersInRow
        <5> QED BY <1>9, <3>1, <4>1, <5>1, <5>2
      <4> QED BY <4>2, <4>3
    <3> QED BY <3>2, <3>3
  <2> QED BY <1>5, <2>1, <2>2 DEF NumbersInRow
<1>11. HandedUpTo' /\ HandedWhole'
  <2>1. Len(handed) <= len /\ incomingRel + 1 = NextNumber(Len(handed))
    BY DEF FragmentsInv, HandedUpTo
  <2>2. NextNumber(Len(handed))' = NextNumber(Len(handed))
    <3>1. Len(handed) # 0 => packets'[Len(handed)] = packets[Len(handed)]
      BY <1>1, <1>5, <2>1
    <3> QED BY <1>6, <3>1 DEF NextNumber
  <2>3. DOMAIN handed = 1 .. Len(handed)
    BY <1>1
  <2>4. ASSUME NEW i \in DOMAIN handed
        PROVE  handed[i].start = packets'[i].start /\ handed[i].pieces = 0 .. packets'[i].size - 1
    <3>1. packets'[i] = packets[i]
      BY <1>1, <1>5, <2>1, <2>3
    <3> QED BY <3>1 DEF FragmentsInv, HandedWhole
  <2>5. Len(handed') <= Len(packets')
    BY <1>1, <1>5, <1>6, <2>1
  <2>6. incomingRel' + 1 = NextNumber(Len(handed))'
    BY <1>6, <2>1, <2>2
  <2> QED BY <1>6, <2>4, <2>5, <2>6 DEF HandedUpTo, HandedWhole
<1>12. AssemblyInv'
  <2>1. ASSUME NEW q \in assembly
        PROVE  \E n \in DOMAIN packets' : EntryOf(q, packets[n])'
    <3>1. PICK n \in DOMAIN packets : EntryOf(q, packets[n])
      BY DEF FragmentsInv, AssemblyInv
    <3>2. n \in DOMAIN packets' /\ packets'[n] = packets[n]
      BY <1>1, <1>5
    <3> QED BY <1>6, <3>1, <3>2 DEF EntryOf, Missing
  <2>2. \A q, r \in assembly' : q.start = r.start => q = r
    BY <1>6 DEF FragmentsInv, AssemblyInv
  <2> QED BY <1>6, <2>1, <2>2 DEF AssemblyInv
<1> QED BY <1>7, <1>10, <1>11, <1>12 DEF FragmentsInv

\* What is put into the list is the entry of a packet that has none: the
\* invariant is kept whether its number is free or not.
LEMMA QueuedFacts ==
    ASSUME FragmentsInv, NEW c \in IncomingCommand, NEW n \in DOMAIN packets, EntryOf(c, packets[n]),
           \A q \in assembly : q.start = c.start => q.rel = c.rel
    PROVE  /\ IsFiniteSet(QueuedWith(c)) /\ QueuedWith(c) \in SUBSET IncomingCommand
           /\ \A q \in QueuedWith(c) : \E m \in DOMAIN packets : EntryOf(q, packets[m])
           /\ \A q, r \in QueuedWith(c) : q.start = r.start => q = r
<1>1. IsFiniteSet(assembly) /\ assembly \in SUBSET IncomingCommand
  BY DEF FragmentsInv, FragmentsTypeOK
<1>2. /\ \A q \in assembly : \E m \in DOMAIN packets : EntryOf(q, packets[m])
      /\ \A q, r \in assembly : q.start = r.start => q = r
  BY DEF FragmentsInv, AssemblyInv
<1>3. CASE \E q \in assembly : q.rel = c.rel
  BY <1>1, <1>2, <1>3 DEF QueuedWith
<1>4. CASE ~\E q \in assembly : q.rel = c.rel
  <2>1. QueuedWith(c) = assembly \cup {c}
    BY <1>4 DEF QueuedWith
  <2>2. IsFiniteSet(assembly \cup {c})
    BY <1>1, FS_AddElement
  <2>3. \A q \in assembly : q.start # c.start
    BY <1>4
  <2> QED BY <1>1, <1>2, <2>1, <2>2, <2>3
<1> QED BY <1>3, <1>4

\* A step that changes only the list, and keeps it the list of entries of the
\* packets, keeps the invariant.
LEMMA AssemblyStep ==
    ASSUME FragmentsInv, acknowledged' \in SUBSET Nat,
           UNCHANGED <<packets, incomingRel, handed>>,
           IsFiniteSet(assembly'), assembly' \in SUBSET IncomingCommand,
           \A q \in assembly' : \E m \in DOMAIN packets : EntryOf(q, packets[m]),
           \A q, r \in assembly' : q.start = r.start => q = r
    PROVE  FragmentsInv'
<1>1. FragmentsTypeOK'
  BY DEF FragmentsInv, FragmentsTypeOK
<1>2. NumbersInRow' /\ HandedUpTo' /\ HandedWhole'
  BY DEF FragmentsInv, NumbersInRow, HandedUpTo, HandedWhole, NextNumber
<1>3. AssemblyInv'
  BY DEF AssemblyInv, EntryOf, Missing
<1> QED BY <1>1, <1>2, <1>3 DEF FragmentsInv

\* Two entries with the same start are entries of one packet.
LEMMA SamePacket ==
    ASSUME FragmentsInv, NEW n \in DOMAIN packets, NEW x \in Nat,
           packets[n].start <= x, x < packets[n].start + packets[n].size,
           NEW q \in assembly, q.start = x \/ q.rel = x
    PROVE  EntryOf(q, packets[n])
<1>1. PICK m \in DOMAIN packets : EntryOf(q, packets[m])
  BY DEF FragmentsInv, AssemblyInv
<1>2. packets \in Seq(Packet) /\ q \in IncomingCommand /\ NumbersInRow
  BY DEF FragmentsInv, FragmentsTypeOK
<1>3. packets[m].start <= x /\ x < packets[m].start + packets[m].size
  <2>1. /\ packets[m].start \in Nat \ {0} /\ packets[m].size \in 1 .. MaxFragments
        /\ packets[m].start <= q.rel /\ q.rel < packets[m].start + packets[m].size
    BY <1>1, <1>2, EntryFacts
  <2>2. q.start = packets[m].start
    BY <1>1 DEF EntryOf
  <2> QED BY <2>1, <2>2, FragmentsAssumption
<1>4. m = n
  BY <1>2, <1>3, NumbersApart
<1> QED BY <1>1, <1>4

\* A packet that comes in one piece is entered once.
LEMMA WholeKeepsInv ==
    ASSUME FragmentsInv, NEW n \in DOMAIN packets, ReceiveWhole(packets[n])
    PROVE  FragmentsInv'
<1> DEFINE p == packets[n]
           c == [rel |-> p.start, start |-> p.start, fragmentCount |-> 0, remaining |-> 0, pieces |-> {0}]
<1>1. p \in Packet
  BY DEF FragmentsInv, FragmentsTypeOK
<1>2. p.start \in Nat \ {0} /\ p.size = 1
  BY <1>1 DEF Packet, ReceiveWhole
<1>3. c \in IncomingCommand
  BY <1>2 DEF IncomingCommand
<1>4. Missing(c) = {}
  <2>1. 0 .. 0 - 1 = {}
    OBVIOUS
  <2> QED BY <2>1 DEF Missing
<1>5. EntryOf(c, p)
  <2>1. c.remaining = Cardinality(Missing(c))
    <3>1. Cardinality({}) = 0
      BY FS_EmptySet
    <3> QED BY <1>4, <3>1
  <2>2. c.rel \in p.start .. p.start + p.size - 1 /\ c.pieces \subseteq 0 .. p.size - 1
    BY <1>2
  <2> QED BY <1>2, <2>1, <2>2 DEF EntryOf
<1>6. \A q \in assembly : q.start = c.start => q.rel = c.rel
  <2> SUFFICES ASSUME NEW q \in assembly, q.start = p.start PROVE q.rel = p.start
    OBVIOUS
  <2>1. EntryOf(q, p)
    BY <1>2, SamePacket
  <2> QED BY <1>2, <2>1 DEF EntryOf
<1>7. assembly' = QueuedWith(c)
  BY DEF ReceiveWhole
<1>8. UNCHANGED <<packets, incomingRel, handed>> /\ acknowledged' = acknowledged \cup {p.start}
  BY DEF ReceiveWhole
<1>9. acknowledged' \in SUBSET Nat
  BY <1>2, <1>8 DEF FragmentsInv, FragmentsTypeOK
<1> HIDE DEF c
<1> QED BY <1>3, <1>5, <1>6, <1>7, <1>8, <1>9, QueuedFacts, AssemblyStep

\* A fragment opens its packet's entry or is counted in it.
LEMMA FragmentKeepsInv ==
    ASSUME FragmentsInv, NEW n \in DOMAIN packets, NEW k \in Nat, k < packets[n].size,
           ReceiveFragment(packets[n], k)
    PROVE  FragmentsInv'
<1> DEFINE p == packets[n]
           begun == {q \in assembly : q.fragmentCount > 0 /\ q.start = p.start}
<1>1. p \in Packet
  BY DEF FragmentsInv, FragmentsTypeOK
<1>2. /\ p.start \in Nat \ {0} /\ p.size \in 1 .. MaxFragments /\ p.size > 1 /\ p.size \in Nat
      /\ k \in 0 .. p.size - 1
  BY <1>1, FragmentsAssumption DEF Packet, ReceiveFragment
<1>3. UNCHANGED <<packets, incomingRel, handed>> /\ acknowledged' \in SUBSET Nat
  <2>1. UNCHANGED <<packets, incomingRel, handed>> /\ acknowledged' = acknowledged \cup {p.start + k}
    BY DEF ReceiveFragment
  <2>2. acknowledged \in SUBSET Nat
    BY DEF FragmentsInv, FragmentsTypeOK
  <2>3. p.start + k \in Nat
    BY <1>2
  <2> HIDE DEF p
  <2> QED BY <2>1, <2>2, <2>3
<1>4. /\ IsFiniteSet(assembly) /\ assembly \in SUBSET IncomingCommand
      /\ \A q \in assembly : \E m \in DOMAIN packets : EntryOf(q, packets[m])
      /\ \A q, r \in assembly : q.start = r.start => q = r
      /\ incomingRel \in Nat
  BY DEF FragmentsInv, FragmentsTypeOK, AssemblyInv
<1>5. \A q \in assembly : q.start = p.start => EntryOf(q, p)
  BY <1>2, SamePacket
<1>6. CASE UNCHANGED assembly
  BY <1>3, <1>4, <1>6, AssemblyStep
<1>7. CASE Takes(p) /\ begun = {} /\ assembly' = QueuedWith(WithPiece(Opened(p, k), k))
  <2> DEFINE o == Opened(p, k)
             c == WithPiece(o, k)
  <2>1. o \in IncomingCommand /\ o.fragmentCount = p.size /\ o.rel = p.start + k /\ o.start = p.start
        /\ o.pieces = {} /\ o.remaining = p.size
    BY <1>2 DEF Opened, IncomingCommand
  <2>2. o.remaining = Cardinality(Missing(o))
    <3>1. Missing(o) = 0 .. p.size - 1
      BY <2>1 DEF Missing
    <3>2. Cardinality(0 .. p.size - 1) = p.size
      BY <1>2, FS_Interval
    <3> QED BY <2>1, <3>1, <3>2
  <2> HIDE DEF o
  <2>3. /\ c \in IncomingCommand /\ c.rel = p.start + k /\ c.start = p.start /\ c.fragmentCount = p.size
        /\ c.pieces \subseteq 0 .. p.size - 1 /\ c.remaining = Cardinality(Missing(c))
    BY <1>2, <2>1, <2>2, WithPieceFacts
  <2> HIDE DEF c
  <2>4. EntryOf(c, p)
    <3>1. c.rel \in p.start .. p.start + p.size - 1
      BY <1>2, <2>3
    <3>2. c.start > incomingRel
      BY <1>7, <2>3 DEF Takes
    <3> QED BY <1>2, <2>3, <3>1, <3>2 DEF EntryOf
  <2>5. \A q \in assembly : q.start # c.start
    <3> SUFFICES ASSUME NEW q \in assembly, q.start = p.start PROVE FALSE
      BY <2>3
    <3>1. q.fragmentCount = p.size
      BY <1>2, <1>5 DEF EntryOf
    <3>2. q \in begun
      BY <1>2, <3>1
    <3> QED BY <1>7, <3>2
  <2>6. assembly' = QueuedWith(c)
    BY <1>7 DEF c, o
  <2> QED BY <1>3, <2>3, <2>4, <2>5, <2>6, QueuedFacts, AssemblyStep
<1>8. CASE \E q \in begun : assembly' = (assembly \ {q}) \cup {WithPiece(q, k)}
  <2>1. PICK q \in begun : assembly' = (assembly \ {q}) \cup {WithPiece(q, k)}
    BY <1>8
  <2> DEFINE w == WithPiece(q, k)
  <2>2. q \in assembly /\ q \in IncomingCommand /\ q.start = p.start /\ EntryOf(q, p)
    BY <1>4, <1>5
  <2>3. q.fragmentCount = p.size
    BY <1>2, <2>2 DEF EntryOf
  <2>4. /\ w \in IncomingCommand
        /\ w.rel = q.rel /\ w.start = q.start /\ w.fragmentCount = q.fragmentCount
        /\ w.pieces \subseteq 0 .. q.fragmentCount - 1 /\ w.remaining = Cardinality(Missing(w))
    <3>1. q.pieces \subseteq 0 .. q.fragmentCount - 1 /\ q.remaining = Cardinality(Missing(q))
      BY <2>2, <2>3 DEF EntryOf
    <3> QED BY <1>2, <2>2, <2>3, <3>1, WithPieceFacts
  <2> HIDE DEF w
  <2>5. EntryOf(w, p)
    BY <1>2, <2>2, <2>3, <2>4 DEF EntryOf
  <2>6. IsFiniteSet(assembly')
    <3>1. IsFiniteSet(assembly \ {q})
      BY <1>4, FS_RemoveElement
    <3> QED BY <2>1, <3>1, FS_AddElement
  <2>7. assembly' = (assembly \ {q}) \cup {w}
    BY <2>1 DEF w
  <2>8. assembly' \in SUBSET IncomingCommand
    BY <1>4, <2>4, <2>7
  <2>9. \A r \in assembly' : \E m \in DOMAIN packets : EntryOf(r, packets[m])
    BY <1>4, <2>5, <2>7
  <2>10. \A r, s \in assembly' : r.start = s.start => r = s
    BY <1>4, <2>2, <2>4, <2>7
  <2> QED BY <1>3, <2>6, <2>8, <2>9, <2>10, AssemblyStep
<1> QED BY <1>6, <1>7, <1>8 DEF ReceiveFragment

\* The entry that is handed over is the whole of the next packet.
LEMMA DeliverableFacts ==
    ASSUME FragmentsInv, NEW q \in Deliverable
    PROVE  LET h == Len(handed) IN
           /\ q \in assembly /\ h + 1 \in DOMAIN packets /\ EntryOf(q, packets[h + 1])
           /\ q.start = packets[h + 1].start /\ q.start = incomingRel + 1
           /\ q.pieces = 0 .. packets[h + 1].size - 1
           /\ LastNumber(q) \in Nat
           /\ LastNumber(q) + 1 = packets[h + 1].start + packets[h + 1].size
<1> DEFINE h == Len(handed)
<1>1. /\ packets \in Seq(Packet) /\ incomingRel \in Nat /\ h \in Nat /\ h <= Len(packets)
      /\ incomingRel + 1 = NextNumber(h) /\ NumbersInRow /\ DOMAIN packets = 1 .. Len(packets)
      /\ Len(packets) \in Nat
  <2>1. packets \in Seq(Packet) /\ incomingRel \in Nat /\ handed \in Seq([start : Nat, pieces : SUBSET Nat])
    BY DEF FragmentsInv, FragmentsTypeOK
  <2>2. h <= Len(packets) /\ incomingRel + 1 = NextNumber(h) /\ NumbersInRow
    BY DEF FragmentsInv, HandedUpTo
  <2> QED BY <2>1, <2>2
<1>2. q \in assembly /\ q.remaining = 0 /\ q.rel = incomingRel + 1 /\ q \in IncomingCommand
  BY DEF Deliverable, FragmentsInv, FragmentsTypeOK
<1>3. PICK m \in DOMAIN packets : EntryOf(q, packets[m])
  BY <1>2 DEF FragmentsInv, AssemblyInv
<1>4. /\ packets[m].start \in Nat \ {0} /\ packets[m].size \in Nat \ {0}
      /\ packets[m].start <= q.rel /\ q.rel < packets[m].start + packets[m].size
      /\ LastNumber(q) \in Nat /\ q.fragmentCount \in Nat /\ q.pieces \in SUBSET Nat
      /\ q.start = packets[m].start /\ m \in Nat /\ m >= 1 /\ m <= Len(packets)
  <2>1. q.start = packets[m].start
    BY <1>3 DEF EntryOf
  <2> QED BY <1>1, <1>2, <1>3, <2>1, EntryFacts, FragmentsAssumption
<1>5. q.start = incomingRel + 1
  <2>1. CASE packets[m].size = 1
    BY <1>1, <1>2, <1>4, <2>1
  <2>2. CASE packets[m].size # 1
    <3>1. q.start > incomingRel
      BY <1>3, <1>4, <2>2 DEF EntryOf
    <3> QED BY <1>1, <1>2, <1>4, <3>1
  <2> QED BY <2>1, <2>2
<1>6. h + 1 \in DOMAIN packets
  <2> SUFFICES ASSUME h = Len(packets) PROVE FALSE
    BY <1>1
  <2>1. h # 0 /\ h \in DOMAIN packets /\ packets[m].start = packets[h].start + packets[h].size
    BY <1>1, <1>4, <1>5 DEF NextNumber
  <2>2. packets[h].start \in Nat /\ packets[h].size \in Nat \ {0}
    <3>1. packets[h] \in Packet
      BY <1>1, <2>1
    <3> QED BY <3>1, FragmentsAssumption DEF Packet
  <2>3. CASE m = h
    BY <2>1, <2>2, <2>3
  <2>4. CASE m # h
    <3>1. m < h
      BY <1>1, <1>4, <2>4
    <3>2. packets[m].start + packets[m].size <= packets[h].start
      BY <1>1, <2>1, <3>1 DEF NumbersInRow
    <3> QED BY <1>4, <2>1, <2>2, <3>2
  <2> QED BY <2>3, <2>4
<1>7. packets[h + 1].start = incomingRel + 1
  BY <1>1, <1>6, NextIsStart
<1>8. packets[h + 1].size \in Nat \ {0}
  <2>1. packets[h + 1] \in Packet
    BY <1>1, <1>6
  <2> QED BY <2>1, FragmentsAssumption DEF Packet
<1>9. m = h + 1
  <2>1. incomingRel + 1 \in Nat
    BY <1>1
  <2>2. /\ packets[m].start <= incomingRel + 1 /\ incomingRel + 1 < packets[m].start + packets[m].size
        /\ packets[h + 1].start <= incomingRel + 1
        /\ incomingRel + 1 < packets[h + 1].start + packets[h + 1].size
    BY <1>1, <1>4, <1>5, <1>7, <1>8
  <2> QED BY <1>1, <1>6, <2>1, <2>2, NumbersApart
<1>10. q.pieces = 0 .. packets[m].size - 1
  <2>1. CASE packets[m].size = 1
    <3>1. q.pieces = {0}
      BY <1>3, <2>1 DEF EntryOf
    <3> QED BY <2>1, <3>1
  <2>2. CASE packets[m].size # 1
    <3>1. q.fragmentCount = packets[m].size /\ q.pieces \subseteq 0 .. packets[m].size - 1
          /\ q.remaining = Cardinality(Missing(q))
      BY <1>3, <2>2 DEF EntryOf
    <3>2. 0 .. packets[m].size - 1 \subseteq q.pieces
      BY <1>2, <1>4, <3>1, MissingFacts DEF Missing
    <3> QED BY <3>1, <3>2
  <2> QED BY <2>1, <2>2
<1>11. LastNumber(q) + 1 = packets[m].start + packets[m].size
  <2>1. CASE packets[m].size = 1
    <3>1. q.fragmentCount = 0
      BY <1>3, <2>1 DEF EntryOf
    <3> QED BY <1>2, <1>4, <1>5, <2>1, <3>1 DEF LastNumber
  <2>2. CASE packets[m].size # 1
    <3>1. q.fragmentCount = packets[m].size
      BY <1>3, <2>2 DEF EntryOf
    <3> QED BY <1>1, <1>2, <1>4, <1>5, <2>2, <3>1 DEF LastNumber
  <2> QED BY <2>1, <2>2
<1> QED BY <1>2, <1>3, <1>4, <1>5, <1>6, <1>9, <1>10, <1>11

\* A packet is handed over whole, and no other packet's entry is passed over.
LEMMA ReceiveKeepsInv ==
    ASSUME FragmentsInv, Receive
    PROVE  FragmentsInv'
<1>1. /\ IsFiniteSet(assembly) /\ assembly \in SUBSET IncomingCommand
      /\ \A q \in assembly : \E m \in DOMAIN packets : EntryOf(q, packets[m])
      /\ \A q, r \in assembly : q.start = r.start => q = r
      /\ incomingRel \in Nat /\ acknowledged \in SUBSET Nat
  BY DEF FragmentsInv, FragmentsTypeOK, AssemblyInv
<1>2. CASE /\ assembly' = assembly \ Stale
           /\ UNCHANGED <<packets, acknowledged, incomingRel, handed>>
  <2>1. IsFiniteSet(assembly')
    BY <1>1, <1>2, FS_Subset
  <2>2. acknowledged' \in SUBSET Nat /\ UNCHANGED <<packets, incomingRel, handed>>
    BY <1>1, <1>2
  <2>3. /\ assembly' \in SUBSET IncomingCommand
        /\ \A q \in assembly' : \E m \in DOMAIN packets : EntryOf(q, packets[m])
        /\ \A q, r \in assembly' : q.start = r.start => q = r
    BY <1>1, <1>2
  <2> QED BY <2>1, <2>2, <2>3, AssemblyStep
<1>3. ASSUME NEW q \in Deliverable,
             assembly' = assembly \ (Stale \cup {q}), incomingRel' = LastNumber(q),
             handed' = Append(handed, [start |-> q.start, pieces |-> q.pieces]),
             UNCHANGED <<packets, acknowledged>>
      PROVE  FragmentsInv'
  <2> DEFINE h == Len(handed)
             done == [start |-> q.start, pieces |-> q.pieces]
  <2>1. /\ q \in assembly /\ h + 1 \in DOMAIN packets /\ EntryOf(q, packets[h + 1])
        /\ q.start = packets[h + 1].start /\ q.start = incomingRel + 1
        /\ q.pieces = 0 .. packets[h + 1].size - 1
        /\ LastNumber(q) \in Nat
        /\ LastNumber(q) + 1 = packets[h + 1].start + packets[h + 1].size
    BY DeliverableFacts
  <2>2. packets \in Seq(Packet) /\ handed \in Seq([start : Nat, pieces : SUBSET Nat]) /\ h \in Nat
        /\ DOMAIN packets = 1 .. Len(packets) /\ DOMAIN handed = 1 .. h /\ NumbersInRow
        /\ Len(packets) \in Nat
    BY DEF FragmentsInv, FragmentsTypeOK
  <2>3. done \in [start : Nat, pieces : SUBSET Nat]
    BY <1>1, <2>1 DEF IncomingCommand
  <2>4. /\ handed' \in Seq([start : Nat, pieces : SUBSET Nat]) /\ Len(handed') = h + 1
        /\ DOMAIN handed' = 1 .. h + 1
        /\ \A i \in 1 .. h : handed'[i] = handed[i]
        /\ handed'[h + 1].start = q.start /\ handed'[h + 1].pieces = q.pieces
    <3>1. handed'[h + 1] = done
      BY <1>3, <2>2, <2>3
    <3> HIDE DEF done
    <3>2. /\ handed' \in Seq([start : Nat, pieces : SUBSET Nat]) /\ Len(handed') = h + 1
          /\ DOMAIN handed' = 1 .. h + 1
          /\ \A i \in 1 .. h : handed'[i] = handed[i]
      BY <1>3, <2>2, <2>3 DEF done
    <3> QED BY <3>1, <3>2 DEF done
  <2>5. packets' = packets /\ acknowledged' = acknowledged
    BY <1>3
  <2>6. FragmentsTypeOK'
    <3>1. IsFiniteSet(assembly')
      BY <1>1, <1>3, FS_Subset
    <3>2. assembly' \in SUBSET IncomingCommand /\ incomingRel' \in Nat
      BY <1>1, <1>3, <2>1
    <3> QED BY <1>1, <2>2, <2>4, <2>5, <3>1, <3>2 DEF FragmentsTypeOK
  <2>7. NumbersInRow'
    BY <2>2, <2>5 DEF NumbersInRow
  <2>8. HandedUpTo'
    <3>1. h + 1 # 0 /\ h + 1 <= Len(packets)
      BY <2>1, <2>2
    <3> QED BY <1>3, <2>1, <2>4, <2>5, <3>1 DEF HandedUpTo, NextNumber
  <2>9. HandedWhole'
    <3>1. ASSUME NEW i \in 1 .. h + 1
          PROVE  handed'[i].start = packets[i].start /\ handed'[i].pieces = 0 .. packets[i].size - 1
      <4>1. CASE i = h + 1
        BY <2>1, <2>4, <4>1
      <4>2. CASE i # h + 1
        <5>1. i \in 1 .. h
          BY <2>2, <4>2
        <5> QED BY <2>2, <2>4, <5>1 DEF FragmentsInv, HandedWhole
      <4> QED BY <4>1, <4>2
    <3> QED BY <2>1, <2>2, <2>4, <2>5, <3>1 DEF HandedWhole
  <2>10. AssemblyInv'
    <3>1. ASSUME NEW r \in assembly, r # q
          PROVE  \E m \in DOMAIN packets : EntryOf(r, packets[m]) /\ (r.fragmentCount > 0 => r.start > LastNumber(q))
      <4>1. PICK m \in DOMAIN packets : EntryOf(r, packets[m])
        BY <1>1
      <4>2. r \in IncomingCommand /\ r.start # q.start
        BY <1>1, <2>1, <3>1
      <4>3. r.start = packets[m].start /\ m # h + 1
        BY <2>1, <4>1, <4>2 DEF EntryOf
      <4>4. packets[m].start \in Nat /\ packets[m].size \in Nat \ {0}
        BY <2>2, <4>1, <4>2, EntryFacts, FragmentsAssumption
      <4>5. ASSUME r.fragmentCount > 0
            PROVE  r.start > LastNumber(q)
        <5>1. r.start > incomingRel
          BY <4>1, <4>5 DEF EntryOf
        <5>2. ~(m < h + 1)
          <6> SUFFICES ASSUME m < h + 1 PROVE FALSE
            OBVIOUS
          <6>1. packets[m].start + packets[m].size <= packets[h + 1].start
            BY <2>1, <2>2, <4>1 DEF NumbersInRow
          <6> QED BY <1>1, <2>1, <4>3, <4>4, <5>1, <6>1
        <5>3. h + 1 < m
          BY <2>2, <4>3, <5>2
        <5>4. packets[h + 1].start + packets[h + 1].size <= packets[m].start
          BY <2>1, <2>2, <4>1, <5>3 DEF NumbersInRow
        <5> QED BY <2>1, <4>3, <4>4, <5>4
      <4> QED BY <4>1, <4>5
    <3>2. ASSUME NEW r \in assembly'
          PROVE  \E m \in DOMAIN packets' : EntryOf(r, packets[m])'
      <4>1. r \in assembly /\ r # q
        BY <1>3, <3>2
      <4>2. PICK m \in DOMAIN packets :
               EntryOf(r, packets[m]) /\ (r.fragmentCount > 0 => r.start > LastNumber(q))
        BY <3>1, <4>1
      <4> QED BY <1>3, <2>5, <4>2 DEF EntryOf, Missing
    <3>3. \A r, s \in assembly' : r.start = s.start => r = s
      BY <1>1, <1>3
    <3> QED BY <3>2, <3>3 DEF AssemblyInv
  <2> QED BY <2>6, <2>7, <2>8, <2>9, <2>10 DEF FragmentsInv
<1> QED BY <1>2, <1>3 DEF Receive

\* No step of the channel breaks the invariant.
LEMMA FragmentsInvNext == FragmentsInv /\ [FragmentsNext]_fragmentVars => FragmentsInv'
<1> SUFFICES ASSUME FragmentsInv, [FragmentsNext]_fragmentVars PROVE FragmentsInv'
  OBVIOUS
<1>1. ASSUME NEW size \in 1 .. MaxFragments, SendPacket(size) PROVE FragmentsInv'
  BY <1>1, SendKeepsInv
<1>2. ASSUME NEW n \in 1 .. MaxPackets, NEW k \in 0 .. MaxFragments - 1, Arrive(n, k)
      PROVE  FragmentsInv'
  <2>1. n \in DOMAIN packets /\ k < packets[n].size /\ k \in Nat
    BY <1>2 DEF Arrive
  <2>2. CASE ReceiveWhole(packets[n])
    BY <2>1, <2>2, WholeKeepsInv
  <2>3. CASE ReceiveFragment(packets[n], k)
    BY <2>1, <2>3, FragmentKeepsInv
  <2> QED BY <1>2, <2>2, <2>3 DEF Arrive
<1>3. CASE Receive
  BY <1>3, ReceiveKeepsInv
<1>4. CASE UNCHANGED fragmentVars
  <2>1. UNCHANGED <<packets, incomingRel, handed, acknowledged, assembly>>
    BY <1>4 DEF fragmentVars
  <2> QED BY <2>1 DEF FragmentsInv, FragmentsTypeOK, NumbersInRow, HandedUpTo, HandedWhole, AssemblyInv,
                       NextNumber, EntryOf, Missing
<1> QED BY <1>1, <1>2, <1>3, <1>4 DEF FragmentsNext

-----------------------------------------------------------------------------
(* The theorems.                                                           *)

\* FragmentsSpec, but for its fairness.
FragmentsSafety == FragmentsInit /\ [][FragmentsNext]_fragmentVars

LEMMA FragmentsSafe == FragmentsSafety => []FragmentsInv
<1> QED BY FragmentsInvInit, FragmentsInvNext, PTL DEF FragmentsSafety

\* The invariant holds of every state of every behaviour.
THEOREM FragmentsInvariant == FragmentsSpec => []FragmentsInv
<1> QED BY FragmentsSafe, PTL DEF FragmentsSpec, FragmentsSafety

\* The program is handed the packets that were sent, in their order, each once
\* and with every fragment's data in it, however many there are, whatever order
\* the fragments came in and however often (enet_protocol_handle_send_fragment,
\* enet_peer_receive).
THEOREM PacketsHandedWhole == FragmentsSpec => [](FragmentsTypeOK /\ HandedWhole)
<1>1. FragmentsInv => FragmentsTypeOK /\ HandedWhole
  BY DEF FragmentsInv
<1> QED BY <1>1, FragmentsInvariant, PTL

\* What opens its packet finds room in the list.
LEMMA RoomIsFound == FragmentsSafety => []OpeningFindsRoom
<1>1. ASSUME FragmentsInv PROVE OpeningFindsRoom
  <2> SUFFICES ASSUME NEW n \in DOMAIN packets, NEW k \in 0 .. MaxFragments - 1,
                      packets[n].size > 1, k < packets[n].size,
                      ~\E q \in assembly : q.fragmentCount > 0 /\ q.start = packets[n].start,
                      NEW q \in assembly, q.rel = packets[n].start + k
               PROVE  FALSE
    BY DEF OpeningFindsRoom
  <2>1. packets[n] \in Packet
    BY <1>1 DEF FragmentsInv, FragmentsTypeOK
  <2>2. packets[n].start \in Nat /\ packets[n].size \in Nat /\ k \in Nat
    BY <2>1, FragmentsAssumption DEF Packet
  <2>3. EntryOf(q, packets[n])
    <3> DEFINE x == packets[n].start + k
    <3>1. x \in Nat /\ packets[n].start <= x /\ x < packets[n].start + packets[n].size /\ q.rel = x
      BY <2>2
    <3> HIDE DEF x
    <3> QED BY <1>1, <3>1, SamePacket
  <2>4. q.fragmentCount > 0 /\ q.start = packets[n].start
    BY <2>2, <2>3 DEF EntryOf
  <2> QED BY <2>4
<1>2. FragmentsInv => OpeningFindsRoom
  BY <1>1
<1> QED BY <1>2, FragmentsSafe, PTL

\* The number of a fragment that opens its packet is free in the list: what
\* enet_peer_queue_incoming_command would do with one that is taken, return NULL
\* to a handler that goes on to use the entry, never comes about.
THEOREM OpeningFragmentFindsRoom == FragmentsSpec => []OpeningFindsRoom
<1> QED BY RoomIsFound, PTL DEF FragmentsSpec, FragmentsSafety

\* A misfiled packet waits, and stays misfiled.
LEMMA MisfiledStall == FragmentsSafety => MisfiledStalls
<1> DEFINE Waits == \A q \in Misfiled : incomingRel < q.start
           Stays == \A q \in Misfiled : \E r \in assembly' : r.start = q.start /\ r.rel = q.rel
<1>1. ASSUME FragmentsInv, NEW q \in Misfiled
      PROVE  /\ q \in assembly /\ q \in IncomingCommand /\ incomingRel \in Nat
             /\ q.start \in Nat /\ q.rel \in Nat /\ incomingRel < q.start /\ q.start < q.rel
  <2>1. /\ packets \in Seq(Packet) /\ q \in assembly /\ q \in IncomingCommand
        /\ q.rel # q.start /\ incomingRel \in Nat
    BY <1>1 DEF FragmentsInv, FragmentsTypeOK, Misfiled
  <2>2. PICK n \in DOMAIN packets : EntryOf(q, packets[n])
    BY <1>1, <2>1 DEF FragmentsInv, AssemblyInv
  <2>3. /\ packets[n].start \in Nat \ {0} /\ packets[n].size \in Nat \ {0}
        /\ packets[n].start <= q.rel /\ q.rel < packets[n].start + packets[n].size
        /\ q.rel \in Nat /\ q.start \in Nat
    BY <2>1, <2>2, EntryFacts, FragmentsAssumption
  <2>4. q.start = packets[n].start
    BY <2>2 DEF EntryOf
  <2>5. packets[n].size # 1
    BY <2>1, <2>3, <2>4
  <2>6. incomingRel < q.start
    BY <2>1, <2>2, <2>3, <2>5 DEF EntryOf
  <2> QED BY <2>1, <2>3, <2>4, <2>6
<1>2. FragmentsInv => Waits
  BY <1>1
<1>3. ASSUME FragmentsInv, [FragmentsNext]_fragmentVars, NEW q \in Misfiled
      PROVE  \E r \in assembly' : r.start = q.start /\ r.rel = q.rel
  <2>1. /\ q \in assembly /\ q \in IncomingCommand /\ incomingRel \in Nat
        /\ q.start \in Nat /\ q.rel \in Nat /\ incomingRel < q.start /\ q.start < q.rel
    BY <1>1, <1>3
  <2>2. ASSUME assembly \subseteq assembly'
        PROVE  \E r \in assembly' : r.start = q.start /\ r.rel = q.rel
    BY <2>1, <2>2
  <2>3. \A c : assembly \subseteq QueuedWith(c)
    BY DEF QueuedWith
  <2>4. ASSUME NEW size \in 1 .. MaxFragments, SendPacket(size) PROVE assembly \subseteq assembly'
    BY <2>4 DEF SendPacket
  <2>5. ASSUME NEW n \in 1 .. MaxPackets, NEW k \in 0 .. MaxFragments - 1, Arrive(n, k)
        PROVE  \E r \in assembly' : r.start = q.start /\ r.rel = q.rel
    <3>1. CASE ReceiveWhole(packets[n])
      BY <2>2, <2>3, <3>1 DEF ReceiveWhole
    <3>2. CASE ReceiveFragment(packets[n], k)
      <4>1. CASE UNCHANGED assembly
        BY <2>2, <4>1
      <4>2. CASE assembly' = QueuedWith(WithPiece(Opened(packets[n], k), k))
        BY <2>2, <2>3, <4>2
      <4>3. CASE \E s \in assembly : assembly' = (assembly \ {s}) \cup {WithPiece(s, k)}
        <5>1. PICK s \in assembly : assembly' = (assembly \ {s}) \cup {WithPiece(s, k)}
          BY <4>3
        <5>2. s \in IncomingCommand
          BY <1>3 DEF FragmentsInv, FragmentsTypeOK
        <5>3. WithPiece(s, k).start = s.start /\ WithPiece(s, k).rel = s.rel
          BY <5>2, WithPieceFields
        <5>4. CASE q = s
          BY <5>1, <5>3, <5>4
        <5>5. CASE q # s
          BY <2>1, <5>1, <5>5
        <5> QED BY <5>4, <5>5
      <4> QED BY <3>2, <4>1, <4>2, <4>3 DEF ReceiveFragment
    <3> QED BY <2>5, <3>1, <3>2 DEF Arrive
  <2>6. CASE Receive
    <3>1. q \notin Stale
      BY <2>1 DEF Stale
    <3>2. q \notin Deliverable
      <4> SUFFICES ASSUME q \in Deliverable PROVE FALSE
        OBVIOUS
      <4>1. q.rel = incomingRel + 1
        BY DEF Deliverable
      <4> QED BY <2>1, <4>1
    <3>3. q \in assembly'
      BY <2>1, <2>6, <3>1, <3>2 DEF Receive
    <3> QED BY <3>3
  <2>7. CASE UNCHANGED fragmentVars
    BY <2>1, <2>7 DEF fragmentVars
  <2> QED BY <1>3, <2>2, <2>4, <2>5, <2>6, <2>7 DEF FragmentsNext
<1>4. FragmentsInv /\ [FragmentsNext]_fragmentVars => [Stays]_fragmentVars
  BY <1>3
<1>5. FragmentsSafety => [](FragmentsInv)
  BY FragmentsSafe
<1>6. MisfiledStalls <=> []Waits /\ [][Stays]_fragmentVars
  BY DEF MisfiledStalls
<1> HIDE DEF Waits, Stays
<1> QED BY <1>2, <1>4, <1>5, <1>6, PTL DEF FragmentsSafety

\* A packet filed under another number than its first is never handed over and
\* never passed over: its entry waits behind the number of the fragment that
\* was counted in it (enet_protocol_handle_send_fragment, enet_peer_receive).
THEOREM MisfiledPacketStalls == FragmentsSpec => MisfiledStalls
<1> QED BY MisfiledStall, PTL DEF FragmentsSpec, FragmentsSafety
-----------------------------------------------------------------------------
(* The promise of the transport.                                           *)

\* The packet whose first piece has this number.
PacketAt(first) == CHOOSE n \in DOMAIN packets : packets[n].start = first

\* One channel, on which every packet is reliable and which does not break.
SentPackets   == [n \in DOMAIN packets |-> TRUE]
HandedPackets == [i \in DOMAIN handed |-> PacketAt(handed[i].start)]

WholeOrder == INSTANCE ChannelOrder WITH
                Channels <- {0}, broken <- FALSE,
                sent <- [ch \in {0} |-> SentPackets], delivered <- [ch \in {0} |-> HandedPackets]

\* No two packets have the same first number.
LEMMA PacketAtStart ==
    ASSUME FragmentsInv, NEW n \in DOMAIN packets
    PROVE  PacketAt(packets[n].start) = n
<1>1. packets \in Seq(Packet) /\ NumbersInRow
  BY DEF FragmentsInv, FragmentsTypeOK
<1>2. \A m \in DOMAIN packets : packets[m].start \in Nat /\ packets[m].size \in Nat \ {0}
  <2> TAKE m \in DOMAIN packets
  <2>1. packets[m] \in Packet
    BY <1>1
  <2> QED BY <2>1, FragmentsAssumption DEF Packet
<1> DEFINE x == packets[n].start
<1>3. PICK m : m = PacketAt(x) /\ m \in DOMAIN packets /\ packets[m].start = x
  BY DEF PacketAt
<1>4. /\ packets[m].start <= x /\ x < packets[m].start + packets[m].size
      /\ packets[n].start <= x /\ x < packets[n].start + packets[n].size /\ x \in Nat
  BY <1>2, <1>3
<1>5. m = n
  BY <1>1, <1>3, <1>4, NumbersApart
<1> QED BY <1>3, <1>5

\* What has been handed over are the first packets, one by one.
LEMMA HandedInOrder ==
    ASSUME FragmentsInv
    PROVE  /\ HandedPackets = [i \in 1 .. Len(handed) |-> i] /\ Len(handed) \in Nat
           /\ SentPackets \in Seq(BOOLEAN) /\ Len(SentPackets) = Len(packets)
           /\ Len(packets) \in Nat
<1>1. packets \in Seq(Packet) /\ handed \in Seq([start : Nat, pieces : SUBSET Nat])
  BY DEF FragmentsInv, FragmentsTypeOK
<1>2. /\ DOMAIN handed = 1 .. Len(handed) /\ DOMAIN packets = 1 .. Len(packets)
      /\ Len(handed) \in Nat /\ Len(packets) \in Nat
  BY <1>1
<1>3. ASSUME NEW i \in 1 .. Len(handed) PROVE PacketAt(handed[i].start) = i
  <2>1. i \in DOMAIN packets /\ handed[i].start = packets[i].start
    BY <1>2 DEF FragmentsInv, HandedWhole
  <2> QED BY <2>1, PacketAtStart
<1>4. HandedPackets = [i \in 1 .. Len(handed) |-> i]
  BY <1>2, <1>3, Zenon DEF HandedPackets
<1>5. SentPackets = [n \in 1 .. Len(packets) |-> TRUE]
  BY <1>2 DEF SentPackets
<1> QED BY <1>2, <1>4, <1>5

\* A packet sent is one more accepted.
LEMMA SendIsAccept ==
    ASSUME FragmentsInv, FragmentsInv', NEW size \in 1 .. MaxFragments, SendPacket(size)
    PROVE  WholeOrder!Accept(0, TRUE)
<1>1. PICK p : packets' = Append(packets, p) /\ handed' = handed
  BY DEF SendPacket
<1>2. packets \in Seq(Packet) /\ packets' \in Seq(Packet)
  BY DEF FragmentsInv, FragmentsTypeOK
<1>3. /\ Len(packets') = Len(packets) + 1 /\ Len(packets) \in Nat
      /\ DOMAIN packets = 1 .. Len(packets) /\ DOMAIN packets' = 1 .. Len(packets')
  BY <1>1, <1>2
<1>4. SentPackets' = Append(SentPackets, TRUE)
  <2>1. SentPackets = [n \in 1 .. Len(packets) |-> TRUE]
    BY <1>3 DEF SentPackets
  <2>2. SentPackets' = [n \in 1 .. Len(packets) + 1 |-> TRUE]
    BY <1>3 DEF SentPackets
  <2>3. PICK len \in Nat : len = Len(packets)
    BY <1>3
  <2> DEFINE before == [n \in 1 .. len |-> TRUE]
  <2>4. before \in Seq(BOOLEAN) /\ Len(before) = len
    OBVIOUS
  <2>5. Append(before, TRUE) = [n \in 1 .. len + 1 |-> TRUE]
    <3>1. /\ Append(before, TRUE) \in Seq(BOOLEAN) /\ Len(Append(before, TRUE)) = len + 1
          /\ \A n \in 1 .. len + 1 : Append(before, TRUE)[n] = TRUE
      BY <2>4
    <3> DEFINE after == [n \in 1 .. len + 1 |-> TRUE]
    <3>2. /\ after \in Seq(BOOLEAN) /\ Len(after) = len + 1
          /\ \A n \in 1 .. len + 1 : after[n] = TRUE
      OBVIOUS
    <3> HIDE DEF before, after
    <3>3. Append(before, TRUE) = after
      BY <3>1, <3>2, SeqEqual
    <3> QED BY <3>3 DEF after
  <2> QED BY <2>1, <2>2, <2>3, <2>5, Zenon DEF before
<1>5. HandedPackets' = HandedPackets
  <2>1. HandedPackets = [i \in 1 .. Len(handed) |-> i]
    BY HandedInOrder
  <2>2. (FragmentsInv => HandedPackets = [i \in 1 .. Len(handed) |-> i])'
    BY HandedInOrder, PTL
  <2> QED BY <1>1, <2>1, <2>2
<1> QED BY <1>4, <1>5 DEF WholeOrder!Accept

\* A packet handed over is the next one delivered.
LEMMA HandIsDeliver ==
    ASSUME FragmentsInv, FragmentsInv', NEW q \in Deliverable, UNCHANGED packets,
           handed' = Append(handed, [start |-> q.start, pieces |-> q.pieces])
    PROVE  WholeOrder!CONext
<1> DEFINE h == Len(handed)
<1>1. h + 1 \in DOMAIN packets /\ q.start = packets[h + 1].start
  BY DeliverableFacts
<1>2. /\ HandedPackets = [i \in 1 .. h |-> i] /\ h \in Nat
      /\ SentPackets \in Seq(BOOLEAN) /\ Len(SentPackets) = Len(packets)
      /\ Len(packets) \in Nat
  BY HandedInOrder
<1>3. packets \in Seq(Packet) /\ handed \in Seq([start : Nat, pieces : SUBSET Nat])
  BY DEF FragmentsInv, FragmentsTypeOK
<1>4. Len(handed') = h + 1 /\ h + 1 \in 1 .. Len(packets)
  BY <1>1, <1>3
<1>5. (FragmentsInv => HandedPackets = [i \in 1 .. Len(handed) |-> i])'
  BY HandedInOrder, PTL
<1>6. HandedPackets' = Append(HandedPackets, h + 1)
  BY <1>2, <1>4, <1>5
<1>7. SentPackets' = SentPackets
  BY DEF SentPackets
<1> DEFINE sentOn == [ch \in {0} |-> SentPackets]
           deliveredOn == [ch \in {0} |-> HandedPackets]
<1>8. WholeOrder!Cursor(0) = h
  BY <1>2 DEF WholeOrder!Cursor
<1>9. WholeOrder!Deliver(0, h + 1)
  <2>1. h + 1 \in (h + 1) .. Len(sentOn[0])
    BY <1>2, <1>4
  <2>2. \A k \in (h + 1) .. ((h + 1) - 1) : ~sentOn[0][k]
    BY <1>2
  <2>3. deliveredOn' = [deliveredOn EXCEPT ![0] = Append(@, h + 1)] /\ sentOn' = sentOn
    BY <1>6, <1>7
  <2> QED BY <1>8, <2>1, <2>2, <2>3 DEF WholeOrder!Deliver
<1>10. h + 1 \in 1 .. Len(sentOn[0])
  BY <1>2, <1>4
<1> QED BY <1>9, <1>10 DEF WholeOrder!CONext

\* A reliable channel that also cuts packets and puts them together keeps what
\* ChannelOrder promises of packets in one piece: they are handed over in the order
\* of the calls of enet_peer_send, each once and none skipped, whether or not a
\* misfiled one stops the channel for good.
THEOREM FragmentsImplementOrder == FragmentsSpec => WholeOrder!COSpec
<1>1. FragmentsInit => WholeOrder!COInit
  <2> SUFFICES ASSUME FragmentsInit PROVE WholeOrder!COInit
    OBVIOUS
  <2>1. SentPackets = <<>> /\ HandedPackets = <<>>
    BY DEF FragmentsInit, SentPackets, HandedPackets
  <2> QED BY <2>1 DEF WholeOrder!COInit
<1>2. FragmentsInv /\ FragmentsInv' /\ [FragmentsNext]_fragmentVars =>
        [WholeOrder!CONext]_(WholeOrder!coVars)
  <2> SUFFICES ASSUME FragmentsInv, FragmentsInv', [FragmentsNext]_fragmentVars
               PROVE  WholeOrder!CONext \/ UNCHANGED WholeOrder!coVars
    OBVIOUS
  <2>1. CASE UNCHANGED <<packets, handed>>
    <3>1. SentPackets' = SentPackets /\ HandedPackets' = HandedPackets
      BY <2>1 DEF SentPackets, HandedPackets, PacketAt
    <3> QED BY <3>1 DEF WholeOrder!coVars
  <2>2. ASSUME NEW size \in 1 .. MaxFragments, SendPacket(size) PROVE WholeOrder!CONext
    <3>1. WholeOrder!Accept(0, TRUE)
      BY <2>2, SendIsAccept
    <3> QED BY <3>1 DEF WholeOrder!CONext
  <2>3. ASSUME NEW n \in 1 .. MaxPackets, NEW k \in 0 .. MaxFragments - 1, Arrive(n, k)
        PROVE  UNCHANGED <<packets, handed>>
    BY <2>3 DEF Arrive, ReceiveWhole, ReceiveFragment
  <2>4. CASE Receive
    <3>1. CASE UNCHANGED handed
      BY <2>1, <2>4, <3>1 DEF Receive
    <3>2. CASE \E q \in Deliverable : /\ handed' = Append(handed, [start |-> q.start, pieces |-> q.pieces])
                                      /\ UNCHANGED packets
      BY <3>2, HandIsDeliver
    <3> QED BY <2>4, <3>1, <3>2 DEF Receive
  <2> QED BY <2>1, <2>2, <2>3, <2>4 DEF FragmentsNext, fragmentVars
<1>3. FragmentsSpec => FragmentsSafety
  BY PTL DEF FragmentsSpec, FragmentsSafety
<1> QED BY <1>1, <1>2, <1>3, FragmentsSafe, PTL DEF FragmentsSafety, WholeOrder!COSpec
==============================================================================
