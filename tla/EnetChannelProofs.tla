-------------------------- MODULE EnetChannelProofs --------------------------
(***************************************************************************)
(* Theorems about EnetChannel for every number of channels, every window,  *)
(* every set of lengths, every timeout limit and every bound.              *)
(***************************************************************************)
EXTENDS EnetChannel, SequenceLemmas, TLAPS

\* A queued command keeps its type when it is timed and timed out.
LEMMA OutgoingFacts ==
    ASSUME NEW c \in Outgoing
    PROVE  /\ c.ch \in Channels /\ c.packet \in Nat /\ c.rel \in Nat /\ c.unrel \in Nat
           /\ c.len \in Nat /\ c.timeout \in Nat
           /\ OnWire(c) \in Command
           /\ [c EXCEPT !.timeout = 2 * @] \in Outgoing
           /\ [c EXCEPT !.timeout = IF @ = 0 THEN 1 ELSE @] \in Outgoing
BY LengthsAssumption DEF Outgoing, OnWire, Command

\* Every variable keeps its type, whatever the window, the lengths and the
\* bounds are (the lists and counters of ENetPeer and ENetChannel, enet.h).
THEOREM TypeCorrect == Spec => []TypeOK
<1> USE LengthsAssumption DEF TypeOK
<1>1. Init => TypeOK
  BY DEF Init
<1>2. TypeOK /\ [Next]_vars => TypeOK'
  <2> SUFFICES ASSUME TypeOK, [Next]_vars PROVE TypeOK'
    OBVIOUS
  <2>1. ASSUME NEW ch \in Channels, NEW len \in Lengths, SendReliable(ch, len) PROVE TypeOK'
    <3> DEFINE rel == outReliableSeq[ch] + 1
               c == [ch |-> ch, packet |-> Len(sent[ch]) + 1, rel |-> rel, unrel |-> 0,
                     len |-> len, timeout |-> 0]
    <3>1. rel \in Nat /\ [rel |-> rel, unrel |-> 0] \in SeqNumbers /\ c \in Outgoing
      BY DEF SeqNumbers, Outgoing
    <3>2. Append(outgoingReliable, c) \in Seq(Outgoing)
      BY <3>1
    <3>3. sent' \in [Channels -> Seq(SeqNumbers)]
      BY <2>1, <3>1 DEF SendReliable
    <3> QED BY <2>1, <3>1, <3>2, <3>3 DEF SendReliable, receiverVars
  <2>2. ASSUME NEW ch \in Channels, NEW len \in Lengths, SendUnreliable(ch, len) PROVE TypeOK'
    <3> DEFINE unrel == outUnreliableSeq[ch] + 1
               rel == outReliableSeq[ch]
               c == [ch |-> ch, packet |-> Len(sent[ch]) + 1, rel |-> rel, unrel |-> unrel,
                     len |-> len, timeout |-> 0]
    <3>1. unrel \in Nat /\ [rel |-> rel, unrel |-> unrel] \in SeqNumbers /\ c \in Outgoing
      BY DEF SeqNumbers, Outgoing
    <3>2. Append(outgoingUnreliable, c) \in Seq(Outgoing)
      BY <3>1
    <3>3. sent' \in [Channels -> Seq(SeqNumbers)]
      BY <2>2, <3>1 DEF SendUnreliable
    <3> QED BY <2>2, <3>1, <3>2, <3>3 DEF SendUnreliable, receiverVars
  <2>3. CASE TransmitReliable
    <3> DEFINE c == Head(outgoingReliable)
               d == [c EXCEPT !.timeout = IF @ = 0 THEN 1 ELSE @]
    <3>1. c \in Outgoing /\ Tail(outgoingReliable) \in Seq(Outgoing)
      BY <2>3 DEF TransmitReliable
    <3>2. d \in Outgoing /\ OnWire(c) \in Command /\ c.len \in Nat
      BY <3>1 DEF Outgoing, OnWire, Command
    <3>3. Append(sentReliable, d) \in Seq(Outgoing)
      BY <3>2
    <3>4. wire \cup {OnWire(c)} \in SUBSET Command /\ dataInTransit + c.len \in Int
      BY <3>2
    <3> HIDE DEF d
    <3> QED BY <2>3, <3>1, <3>3, <3>4 DEF TransmitReliable, receiverVars, d
  <2>4. ASSUME NEW throttled \in BOOLEAN, TransmitUnreliable(throttled) PROVE TypeOK'
    <3>1. Head(outgoingUnreliable) \in Outgoing /\ Tail(outgoingUnreliable) \in Seq(Outgoing)
      BY <2>4 DEF TransmitUnreliable
    <3>2. OnWire(Head(outgoingUnreliable)) \in Command
      BY <3>1 DEF Outgoing, OnWire, Command
    <3> QED BY <2>4, <3>1, <3>2 DEF TransmitUnreliable, receiverVars
  <2>5. ASSUME NEW i \in 1 .. Len(sentReliable), CheckTimeout(i) PROVE TypeOK'
    <3>1. RemoveAt(sentReliable, i) \in Seq(Outgoing)
      BY RemoveAtFacts
    <3>2. sentReliable[i] \in Outgoing
      BY ElementOfSeq
    <3>3. sentReliable[i].len \in Nat /\ [sentReliable[i] EXCEPT !.timeout = 2 * @] \in Outgoing
      BY <3>2, OutgoingFacts
    <3>4. Requeue(sentReliable[i]) \in Seq(Outgoing)
      BY <3>3 DEF Requeue
    <3>5. CASE ResetPeer
      <4>1. <<>> \in Seq(Outgoing)
        BY EmptySeq
      <4>2. UNCHANGED <<sent, outReliableSeq, outUnreliableSeq, wire, ackWire, receiverVars>>
        BY <2>5 DEF CheckTimeout
      <4>3. connected' \in BOOLEAN
        BY <3>5, Zenon DEF ResetPeer
      <4>5. dataInTransit' \in Int
        BY <3>5 DEF ResetPeer
      <4>4. /\ outgoingReliable' \in Seq(Outgoing) /\ outgoingUnreliable' \in Seq(Outgoing)
            /\ sentReliable' \in Seq(Outgoing)
        BY <4>1, <3>5, Zenon DEF ResetPeer
      <4> QED BY <4>2, <4>3, <4>4, <4>5 DEF receiverVars
    <3>6. CASE ~ResetPeer
      BY <2>5, <3>6, <3>1, <3>3, <3>4, SMTT(30) DEF CheckTimeout, receiverVars
    <3> QED BY <3>5, <3>6
  <2>6. ASSUME NEW a \in ackWire, HandleAcknowledge(a) PROVE TypeOK'
    <3>1. PICK i \in 1 .. Len(sentReliable) :
             /\ dataInTransit' = dataInTransit - sentReliable[i].len
             /\ sentReliable' = RemoveAt(sentReliable, i)
      BY <2>6 DEF HandleAcknowledge, Acknowledged
    <3>2. RemoveAt(sentReliable, i) \in Seq(Outgoing)
      BY RemoveAtFacts
    <3>3. sentReliable[i].len \in Nat
      <4>1. sentReliable[i] \in Outgoing
        BY ElementOfSeq
      <4> QED BY <4>1 DEF Outgoing
    <3> QED BY <2>6, <3>1, <3>2, <3>3 DEF HandleAcknowledge, receiverVars
  <2>7. ASSUME NEW c \in wire, HandleSendReliable(c) PROVE TypeOK'
    <3>1. Queued(c) \in Incoming /\ AckOf(c) \in Ack /\ c.ch \in Channels
      BY DEF Command, Queued, Incoming, AckOf, Ack
    <3>2. inReliable' \in [Channels -> SUBSET Incoming]
      BY <2>7, <3>1 DEF HandleSendReliable
    <3>3. Append(acks, AckOf(c)) \in Seq(Ack)
      BY <3>1
    <3> QED BY <2>7, <3>2, <3>3 DEF HandleSendReliable, senderVars
  <2>8. ASSUME NEW c \in wire, HandleSendUnreliable(c) PROVE TypeOK'
    <3>1. Queued(c) \in Incoming /\ c.ch \in Channels
      BY DEF Command, Queued, Incoming
    <3>2. inUnreliable' \in [Channels -> SUBSET Incoming]
      BY <2>8, <3>1 DEF HandleSendUnreliable
    <3>3. UNCHANGED <<senderVars, wire, ackWire, inReliableSeq, inUnreliableSeq,
                      inReliable, acks, delivered>>
      BY <2>8 DEF HandleSendUnreliable
    <3> QED BY <3>2, <3>3 DEF senderVars
  <2>9. ASSUME NEW n \in 1 .. Len(acks), SendAcknowledgements(n) PROVE TypeOK'
    BY <2>9 DEF SendAcknowledgements, senderVars
  <2>10. ASSUME NEW ch \in Channels, DispatchUnreliable(ch) PROVE TypeOK'
    <3>1. PICK u \in NextUnreliable(ch) :
             /\ inUnreliableSeq' = [inUnreliableSeq EXCEPT ![ch] = u.unrel]
             /\ inUnreliable' = [inUnreliable EXCEPT ![ch] = @ \ {u}]
             /\ delivered' = [delivered EXCEPT ![ch] = Append(@, u.packet)]
      BY <2>10 DEF DispatchUnreliable
    <3>2. u.unrel \in Nat /\ u.packet \in Nat
      BY DEF NextUnreliable, Incoming
    <3>3. inUnreliableSeq' \in [Channels -> Nat] /\ delivered' \in [Channels -> Seq(Nat)]
      BY <3>1, <3>2
    <3>4. inUnreliable' \in [Channels -> SUBSET Incoming]
      BY <3>1
    <3>5. inReliable' \in [Channels -> SUBSET Incoming]
      BY <2>10 DEF DispatchUnreliable, Fresh
    <3>6. UNCHANGED <<senderVars, wire, ackWire, inReliableSeq, acks>>
      BY <2>10 DEF DispatchUnreliable
    <3> QED BY <3>3, <3>4, <3>5, <3>6 DEF senderVars
  <2>11. ASSUME NEW ch \in Channels, DispatchReliable(ch) PROVE TypeOK'
    <3>1. PICK r \in NextReliable(ch) :
             /\ inReliableSeq' = [inReliableSeq EXCEPT ![ch] = r.rel]
             /\ inReliable' = [d \in Channels |->
                    CASE d < ch -> Fresh(d)
                      [] d = ch -> Fresh(d) \ {r}
                      [] OTHER  -> inReliable[d]]
             /\ delivered' = [delivered EXCEPT ![ch] = Append(@, r.packet)]
      BY <2>11 DEF DispatchReliable
    <3>2. r.rel \in Nat /\ r.packet \in Nat
      BY DEF NextReliable, Incoming
    <3>3. \A d \in Channels : inReliable'[d] \in SUBSET Incoming
      BY <3>1 DEF Fresh
    <3>4. inReliable' \in [Channels -> SUBSET Incoming]
      BY <3>1, <3>3
    <3>5. UNCHANGED <<senderVars, wire, ackWire, inUnreliableSeq, inUnreliable, acks>>
      BY <2>11 DEF DispatchReliable
    <3>6. inReliableSeq' \in [Channels -> Nat] /\ delivered' \in [Channels -> Seq(Nat)]
      BY <3>1, <3>2
    <3> QED BY <3>4, <3>5, <3>6 DEF senderVars
  <2>12. CASE DispatchNothing
    BY <2>12 DEF DispatchNothing, senderVars, Fresh
  <2>13. CASE UNCHANGED vars
    BY <2>13 DEF vars, senderVars, receiverVars
  <2> QED
    BY <2>1, <2>2, <2>3, <2>4, <2>5, <2>6, <2>7, <2>8, <2>9, <2>10, <2>11, <2>12, <2>13
       DEF Next
<1> QED BY <1>1, <1>2, PTL DEF Spec

-----------------------------------------------------------------------------
\* A channel's history of sends only grows.
LEMMA SentGrows ==
    ASSUME TypeOK, [Next]_vars
    PROVE  \A ch \in Channels :
              /\ Len(sent[ch]) \in Nat /\ Len(sent'[ch]) \in Nat
              /\ Len(sent[ch]) <= Len(sent'[ch])
              /\ \A n \in 1 .. Len(sent[ch]) : sent'[ch][n] = sent[ch][n]
<1>1. sent \in [Channels -> Seq(SeqNumbers)] /\ \A ch \in Channels : Len(sent[ch]) \in Nat
  BY LenProperties DEF TypeOK
<1>2. ASSUME NEW ch \in Channels, NEW e \in SeqNumbers,
             sent' = [sent EXCEPT ![ch] = Append(@, e)]
      PROVE  \A d \in Channels :
                /\ Len(sent'[d]) \in Nat /\ Len(sent[d]) <= Len(sent'[d])
                /\ \A n \in 1 .. Len(sent[d]) : sent'[d][n] = sent[d][n]
  <2>1. sent[ch] \in Seq(SeqNumbers)
    BY <1>1
  <2>2. /\ Len(Append(sent[ch], e)) = Len(sent[ch]) + 1
        /\ \A n \in 1 .. Len(sent[ch]) : Append(sent[ch], e)[n] = sent[ch][n]
    BY <2>1
  <2>3. sent'[ch] = Append(sent[ch], e) /\ \A d \in Channels : d # ch => sent'[d] = sent[d]
    BY <1>1, <1>2
  <2> QED BY <1>1, <2>2, <2>3
<1>3. ASSUME NEW ch \in Channels, NEW len \in Lengths, SendReliable(ch, len)
      PROVE  \E e \in SeqNumbers : sent' = [sent EXCEPT ![ch] = Append(@, e)]
  <2> DEFINE e == [rel |-> outReliableSeq[ch] + 1, unrel |-> 0]
  <2>1. e \in SeqNumbers
    BY DEF SeqNumbers, TypeOK
  <2>2. sent' = [sent EXCEPT ![ch] = Append(@, e)]
    BY <1>3 DEF SendReliable
  <2> QED BY <2>1, <2>2
<1>4. ASSUME NEW ch \in Channels, NEW len \in Lengths, SendUnreliable(ch, len)
      PROVE  \E e \in SeqNumbers : sent' = [sent EXCEPT ![ch] = Append(@, e)]
  <2> DEFINE e == [rel |-> outReliableSeq[ch], unrel |-> outUnreliableSeq[ch] + 1]
  <2>1. e \in SeqNumbers
    BY DEF SeqNumbers, TypeOK
  <2>2. sent' = [sent EXCEPT ![ch] = Append(@, e)]
    BY <1>4 DEF SendUnreliable
  <2> QED BY <2>1, <2>2
<1>5. CASE sent' = sent
  BY <1>1, <1>5
<1>6. CASE sent' # sent
  <2>1. PICK ch \in Channels, len \in Lengths : SendReliable(ch, len) \/ SendUnreliable(ch, len)
    BY <1>6 DEF Next, TransmitReliable, TransmitUnreliable, CheckTimeout, HandleAcknowledge,
         HandleSendReliable, HandleSendUnreliable, SendAcknowledgements, DispatchUnreliable,
         DispatchReliable, DispatchNothing, vars, senderVars
  <2>2. PICK e \in SeqNumbers : sent' = [sent EXCEPT ![ch] = Append(@, e)]
    BY <2>1, <1>3, <1>4
  <2> QED BY <1>1, <1>2, <2>2
<1> QED BY <1>5, <1>6

\* So a command that carries its packet's numbers goes on doing so.
LEMMA CarriesStable ==
    ASSUME TypeOK, [Next]_vars, NEW ch \in Channels, NEW q, q.packet \in Nat, Carries(ch, q)
    PROVE  Carries(ch, q)'
BY SentGrows DEF Carries

\* Appending numbers above the counters keeps a history growing.
LEMMA GrowingAppend ==
    ASSUME NEW h \in Seq(SeqNumbers), NEW e \in SeqNumbers,
           NEW r0 \in Nat, NEW u0 \in Nat, NEW r1 \in Nat, NEW u1 \in Nat,
           Growing(h, r0, u0),
           r0 <= e.rel, e.rel <= r1, u0 <= u1, e.unrel <= u1,
           e.unrel = 0 => r0 < e.rel,
           e.unrel # 0 => u0 < e.unrel
    PROVE  Growing(Append(h, e), r1, u1)
<1> DEFINE t == Append(h, e)
<1>1. /\ Len(h) \in Nat /\ e.rel \in Nat /\ e.unrel \in Nat
      /\ \A n \in 1 .. Len(h) : h[n].rel \in Nat /\ h[n].unrel \in Nat
  <2>1. Len(h) \in Nat /\ \A n \in 1 .. Len(h) : h[n] \in SeqNumbers
    BY LenProperties, ElementOfSeq
  <2> QED BY <2>1 DEF SeqNumbers
<1>2. Len(t) = Len(h) + 1 /\ t[Len(h) + 1] = e /\ \A n \in 1 .. Len(h) : t[n] = h[n]
  OBVIOUS
<1>3. \A m \in 1 .. Len(h) : h[m].rel <= r0 /\ h[m].unrel <= u0
  BY DEF Growing
<1>4. \A m, n \in 1 .. Len(h) :
          m < n => /\ h[m].rel <= h[n].rel
                   /\ h[n].unrel = 0 => h[m].rel < h[n].rel
                   /\ h[m].unrel # 0 /\ h[n].unrel # 0 => h[m].unrel < h[n].unrel
  BY DEF Growing
<1> HIDE DEF t
<1>5. ASSUME NEW m \in 1 .. Len(t), NEW n \in 1 .. Len(t)
      PROVE  /\ t[m].rel <= r1 /\ t[m].unrel <= u1
             /\ m < n => /\ t[m].rel <= t[n].rel
                         /\ t[n].unrel = 0 => t[m].rel < t[n].rel
                         /\ t[m].unrel # 0 /\ t[n].unrel # 0 => t[m].unrel < t[n].unrel
  <2>1. m \in 1 .. Len(h) \/ m = Len(h) + 1
    BY <1>1, <1>2
  <2>2. n \in 1 .. Len(h) \/ n = Len(h) + 1
    BY <1>1, <1>2
  <2>3. m < n => m \in 1 .. Len(h)
    BY <1>1, <1>2
  <2>4. CASE m \in 1 .. Len(h) /\ n \in 1 .. Len(h)
    BY <1>1, <1>2, <1>3, <1>4, <2>4, SMTT(30)
  <2>5. CASE m \in 1 .. Len(h) /\ n = Len(h) + 1
    <3>1. t[m] = h[m] /\ t[n] = e
      BY <1>2, <2>5
    <3>2. t[m].rel <= r0 /\ t[m].unrel <= u0 /\ t[m].rel \in Nat /\ t[m].unrel \in Nat
      BY <1>1, <1>3, <2>5, <3>1
    <3> QED BY <1>1, <3>1, <3>2, SMTT(30)
  <2>6. CASE m = Len(h) + 1
    BY <1>1, <1>2, <2>3, <2>6
  <2> QED BY <2>1, <2>2, <2>4, <2>5, <2>6
<1> QED BY <1>5 DEF Growing, t

\* Numbers keep growing: a send takes a number above all the earlier ones.
LEMMA NumbersGrowStep ==
    ASSUME TypeOK, NumbersGrow, [Next]_vars
    PROVE  NumbersGrow'
<1>1. /\ sent \in [Channels -> Seq(SeqNumbers)]
      /\ outReliableSeq \in [Channels -> Nat] /\ outUnreliableSeq \in [Channels -> Nat]
  BY DEF TypeOK
<1>2. ASSUME NEW ch \in Channels, NEW len \in Lengths, SendReliable(ch, len) PROVE NumbersGrow'
  <2> DEFINE r == outReliableSeq[ch]
             e == [rel |-> r + 1, unrel |-> 0]
  <2>1. e \in SeqNumbers /\ r \in Nat /\ e.rel = r + 1 /\ e.unrel = 0
    BY <1>1 DEF SeqNumbers
  <2>2. /\ sent' = [sent EXCEPT ![ch] = Append(sent[ch], e)]
        /\ outReliableSeq' = [outReliableSeq EXCEPT ![ch] = r + 1]
        /\ outUnreliableSeq' = outUnreliableSeq
    BY <1>2 DEF SendReliable
  <2> HIDE DEF e, r
  <2>3. Growing(sent[ch], r, outUnreliableSeq[ch])
    BY DEF NumbersGrow, r
  <2>4. Growing(Append(sent[ch], e), r + 1, outUnreliableSeq[ch])
    BY <1>1, <2>1, <2>3, GrowingAppend
  <2> QED BY <1>1, <2>2, <2>4 DEF NumbersGrow
<1>3. ASSUME NEW ch \in Channels, NEW len \in Lengths, SendUnreliable(ch, len) PROVE NumbersGrow'
  <2> DEFINE r == outReliableSeq[ch]
             u == outUnreliableSeq[ch]
             e == [rel |-> r, unrel |-> u + 1]
  <2>1. e \in SeqNumbers /\ r \in Nat /\ u \in Nat /\ e.rel = r /\ e.unrel = u + 1
    BY <1>1 DEF SeqNumbers
  <2>2. /\ sent' = [sent EXCEPT ![ch] = Append(sent[ch], e)]
        /\ outUnreliableSeq' = [outUnreliableSeq EXCEPT ![ch] = u + 1]
        /\ outReliableSeq' = outReliableSeq
    BY <1>3 DEF SendUnreliable
  <2>3. Growing(sent[ch], r, u)
    BY DEF NumbersGrow
  <2> HIDE DEF e, u, r
  <2>4. u + 1 \in Nat /\ u <= u + 1 /\ e.unrel # 0 /\ u < e.unrel
    BY <2>1
  <2>5. Growing(Append(sent[ch], e), r, u + 1)
    BY <1>1, <2>1, <2>3, <2>4, GrowingAppend
  <2> QED BY <1>1, <2>2, <2>5 DEF NumbersGrow, r
<1>4. CASE UNCHANGED <<sent, outReliableSeq, outUnreliableSeq>>
  BY <1>4 DEF NumbersGrow
<1> QED BY <1>2, <1>3, <1>4 DEF Next, TransmitReliable, TransmitUnreliable, CheckTimeout,
      HandleAcknowledge, HandleSendReliable, HandleSendUnreliable, SendAcknowledgements,
      DispatchUnreliable, DispatchReliable, DispatchNothing, vars, senderVars

\* Every command keeps the numbers of its packet as it moves from list to
\* list, over the network and into the receiver's lists.
LEMMA CommandsCarryNumbersStep ==
    ASSUME TypeOK, CommandsCarryNumbers, [Next]_vars
    PROVE  CommandsCarryNumbers'
<1> DEFINE Rel(c) == Carries(c.ch, c) /\ c.unrel = 0
           Unrel(c) == Carries(c.ch, c) /\ c.unrel # 0
           RelOK == \A c \in ToSet(outgoingReliable) \cup ToSet(sentReliable) : Rel(c)
           UnrelOK == \A c \in ToSet(outgoingUnreliable) : Unrel(c)
           WireOK == \A c \in wire : Carries(c.ch, c)
           InOK == \A ch \in Channels :
                      /\ \A q \in inReliable[ch] : Carries(ch, q) /\ q.unrel = 0
                      /\ \A q \in inUnreliable[ch] : Carries(ch, q) /\ q.unrel # 0
<1>1. RelOK /\ UnrelOK /\ WireOK /\ InOK
  BY DEF CommandsCarryNumbers
<1>2. /\ outgoingReliable \in Seq(Outgoing) /\ sentReliable \in Seq(Outgoing)
      /\ outgoingUnreliable \in Seq(Outgoing) /\ wire \in SUBSET Command
      /\ inReliable \in [Channels -> SUBSET Incoming]
      /\ inUnreliable \in [Channels -> SUBSET Incoming]
      /\ sent \in [Channels -> Seq(SeqNumbers)]
  BY DEF TypeOK
<1>3. \A ch \in Channels, q \in Incoming : Carries(ch, q) => Carries(ch, q)'
  BY CarriesStable DEF Incoming
<1>4. \A c \in Outgoing \cup Command : Carries(c.ch, c) => Carries(c.ch, c)'
  BY CarriesStable DEF Outgoing, Command
<1>5. \A s \in Seq(Outgoing) : ToSet(s) \subseteq Outgoing
  BY LenProperties, ElementOfSeq DEF ToSet
<1>6. \A c \in ToSet(outgoingReliable) \cup ToSet(sentReliable) : Rel(c)'
  BY <1>1, <1>2, <1>4, <1>5
<1>7. \A c \in ToSet(outgoingUnreliable) : Unrel(c)'
  BY <1>1, <1>2, <1>4, <1>5
<1>8. \A c \in wire : Carries(c.ch, c)'
  BY <1>1, <1>2, <1>4
<1>9. \A ch \in Channels :
         /\ \A q \in inReliable[ch] : Carries(ch, q)' /\ q.unrel = 0
         /\ \A q \in inUnreliable[ch] : Carries(ch, q)' /\ q.unrel # 0
  BY <1>1, <1>2, <1>3
<1>10. SUFFICES RelOK' /\ UnrelOK' /\ WireOK' /\ InOK'
  BY DEF CommandsCarryNumbers
<1> HIDE DEF RelOK, UnrelOK, WireOK, InOK
<1>11. (outgoingReliable' = outgoingReliable /\ sentReliable' = sentReliable) => RelOK'
  BY <1>6 DEF RelOK
<1>12. (outgoingUnreliable' = outgoingUnreliable) => UnrelOK'
  BY <1>7 DEF UnrelOK
<1>13. (wire' = wire) => WireOK'
  BY <1>8 DEF WireOK
<1>14. (inReliable' = inReliable /\ inUnreliable' = inUnreliable) => InOK'
  BY <1>9 DEF InOK
<1>15. ASSUME NEW ch \in Channels, NEW len \in Lengths, SendReliable(ch, len)
       PROVE  RelOK' /\ UnrelOK' /\ WireOK' /\ InOK'
  <2> DEFINE new == [ch |-> ch, packet |-> Len(sent[ch]) + 1, rel |-> outReliableSeq[ch] + 1,
                     unrel |-> 0, len |-> len, timeout |-> 0]
  <2>0. new \in Outgoing
    BY LenProperties DEF Outgoing, TypeOK
  <2>1. PICK c \in Outgoing : c = new
    BY <2>0
  <2>2. outgoingReliable' = Append(outgoingReliable, c) /\ sentReliable' = sentReliable
    BY <1>15, <2>1 DEF SendReliable
  <2>3. /\ sent[ch] \in Seq(SeqNumbers) /\ [rel |-> c.rel, unrel |-> c.unrel] \in SeqNumbers
        /\ sent'[ch] = Append(sent[ch], [rel |-> c.rel, unrel |-> c.unrel])
        /\ c.packet = Len(sent[ch]) + 1 /\ c.ch = ch /\ c.unrel = 0
    BY <1>2, <1>15, <2>1 DEF SendReliable, Outgoing, SeqNumbers
  <2> HIDE DEF new
  <2>4. Carries(c.ch, c)'
    BY <2>3 DEF Carries
  <2>5. ToSet(outgoingReliable') = ToSet(outgoingReliable) \cup {c}
    BY <1>2, <2>1, <2>2, ToSetFacts
  <2>6. RelOK'
    BY <1>6, <2>2, <2>3, <2>4, <2>5 DEF RelOK
  <2> QED BY <1>12, <1>13, <1>14, <1>15, <2>6 DEF SendReliable, receiverVars
<1>16. ASSUME NEW ch \in Channels, NEW len \in Lengths, SendUnreliable(ch, len)
       PROVE  RelOK' /\ UnrelOK' /\ WireOK' /\ InOK'
  <2> DEFINE new == [ch |-> ch, packet |-> Len(sent[ch]) + 1, rel |-> outReliableSeq[ch],
                     unrel |-> outUnreliableSeq[ch] + 1, len |-> len, timeout |-> 0]
  <2>0. new \in Outgoing /\ new.unrel # 0
    BY LenProperties DEF Outgoing, TypeOK
  <2>1. PICK c \in Outgoing : c = new
    BY <2>0
  <2>2. outgoingUnreliable' = Append(outgoingUnreliable, c)
    BY <1>16, <2>1 DEF SendUnreliable
  <2>3. /\ sent[ch] \in Seq(SeqNumbers) /\ [rel |-> c.rel, unrel |-> c.unrel] \in SeqNumbers
        /\ sent'[ch] = Append(sent[ch], [rel |-> c.rel, unrel |-> c.unrel])
        /\ c.packet = Len(sent[ch]) + 1 /\ c.ch = ch /\ c.unrel # 0
    BY <1>2, <1>16, <2>0, <2>1 DEF SendUnreliable, Outgoing, SeqNumbers
  <2> HIDE DEF new
  <2>4. Carries(c.ch, c)'
    BY <2>3 DEF Carries
  <2>5. ToSet(outgoingUnreliable') = ToSet(outgoingUnreliable) \cup {c}
    BY <1>2, <2>1, <2>2, ToSetFacts
  <2>6. UnrelOK'
    BY <1>7, <2>3, <2>4, <2>5 DEF UnrelOK
  <2> QED BY <1>11, <1>13, <1>14, <1>16, <2>6 DEF SendUnreliable, receiverVars
<1>17. CASE TransmitReliable
  <2>1. outgoingReliable # <<>>
    BY <1>17 DEF TransmitReliable
  <2>2. PICK c \in Outgoing : c = Head(outgoingReliable)
    BY <1>2, <2>1, HeadTailProperties
  <2>3. PICK d \in Outgoing : d = [c EXCEPT !.timeout = IF @ = 0 THEN 1 ELSE @]
    BY OutgoingFacts
  <2>4. PICK w \in Command : w = OnWire(c)
    BY OutgoingFacts
  <2>5. /\ outgoingReliable' = Tail(outgoingReliable) /\ sentReliable' = Append(sentReliable, d)
        /\ wire' = wire \cup {w}
    BY <1>17, <2>2, <2>3, <2>4 DEF TransmitReliable
  <2>6. /\ ToSet(outgoingReliable) = ToSet(outgoingReliable') \cup {c}
        /\ ToSet(sentReliable') = ToSet(sentReliable) \cup {d}
    BY <1>2, <2>1, <2>2, <2>5, ToSetFacts
  <2>7. Carries(c.ch, c)' /\ c.unrel = 0
    BY <1>6, <2>6
  <2>8. d.ch = c.ch /\ d.packet = c.packet /\ d.rel = c.rel /\ d.unrel = c.unrel
    BY <2>3 DEF Outgoing
  <2>9. w.ch = c.ch /\ w.packet = c.packet /\ w.rel = c.rel /\ w.unrel = c.unrel
    BY <2>4 DEF OnWire
  <2>10. Carries(d.ch, d)' /\ d.unrel = 0 /\ Carries(w.ch, w)'
    BY <2>7, <2>8, <2>9 DEF Carries
  <2>11. RelOK'
    BY <1>6, <2>6, <2>10 DEF RelOK
  <2>12. WireOK'
    BY <1>8, <2>5, <2>10 DEF WireOK
  <2> QED BY <1>12, <1>14, <1>17, <2>11, <2>12 DEF TransmitReliable, receiverVars
<1>18. ASSUME NEW throttled \in BOOLEAN, TransmitUnreliable(throttled)
       PROVE  RelOK' /\ UnrelOK' /\ WireOK' /\ InOK'
  <2>1. outgoingUnreliable # <<>>
    BY <1>18 DEF TransmitUnreliable
  <2>2. PICK c \in Outgoing : c = Head(outgoingUnreliable)
    BY <1>2, <2>1, HeadTailProperties
  <2>3. PICK w \in Command : w = OnWire(c)
    BY OutgoingFacts
  <2>4. outgoingUnreliable' = Tail(outgoingUnreliable) /\ wire' \subseteq wire \cup {w}
    BY <1>18, <2>2, <2>3 DEF TransmitUnreliable
  <2>5. ToSet(outgoingUnreliable) = ToSet(outgoingUnreliable') \cup {c}
    BY <1>2, <2>1, <2>2, <2>4, ToSetFacts
  <2>6. Carries(c.ch, c)'
    BY <1>7, <2>5
  <2>7. w.ch = c.ch /\ w.packet = c.packet /\ w.rel = c.rel /\ w.unrel = c.unrel
    BY <2>3 DEF OnWire
  <2>8. Carries(w.ch, w)'
    BY <2>6, <2>7 DEF Carries
  <2>9. UnrelOK'
    BY <1>7, <2>5 DEF UnrelOK
  <2>10. WireOK'
    BY <1>8, <2>4, <2>8 DEF WireOK
  <2> QED BY <1>11, <1>14, <1>18, <2>9, <2>10 DEF TransmitUnreliable, receiverVars
<1>19. ASSUME NEW i \in 1 .. Len(sentReliable), CheckTimeout(i)
       PROVE  RelOK' /\ UnrelOK' /\ WireOK' /\ InOK'
  <2>1. WireOK' /\ InOK'
    BY <1>13, <1>14, <1>19 DEF CheckTimeout, receiverVars
  <2>2. CASE ResetPeer
    <3>1. ToSet(<<>>) = {}
      BY DEF ToSet
    <3>2. outgoingReliable' = <<>> /\ sentReliable' = <<>> /\ outgoingUnreliable' = <<>>
      BY <2>2, Zenon DEF ResetPeer
    <3> QED BY <2>1, <3>1, <3>2 DEF RelOK, UnrelOK
  <2>3. CASE ~ResetPeer
    <3>1. PICK c \in Outgoing : c = sentReliable[i]
      BY <1>2, ElementOfSeq
    <3>2. PICK d \in Outgoing : d = [c EXCEPT !.timeout = 2 * @]
      BY OutgoingFacts
    <3>3. /\ sentReliable' = RemoveAt(sentReliable, i) /\ outgoingUnreliable' = outgoingUnreliable
          /\ outgoingReliable' = <<d>> \o outgoingReliable
      BY <1>19, <2>3, <3>1, <3>2 DEF CheckTimeout, Requeue
    <3>4. ToSet(sentReliable) = ToSet(sentReliable') \cup {c}
      BY <1>2, <3>1, <3>3, ToSetFacts
    <3>5. ToSet(outgoingReliable') = ToSet(outgoingReliable) \cup {d}
      BY <1>2, <3>3, ToSetFacts
    <3>6. Carries(c.ch, c)' /\ c.unrel = 0
      BY <1>6, <3>4
    <3>7. d.ch = c.ch /\ d.packet = c.packet /\ d.rel = c.rel /\ d.unrel = c.unrel
      BY <3>2 DEF Outgoing
    <3>8. Carries(d.ch, d)' /\ d.unrel = 0
      BY <3>6, <3>7 DEF Carries
    <3>9. RelOK'
      BY <1>6, <3>4, <3>5, <3>8 DEF RelOK
    <3> QED BY <1>12, <2>1, <3>3, <3>9
  <2> QED BY <2>2, <2>3
<1>20. ASSUME NEW a \in ackWire, HandleAcknowledge(a)
       PROVE  RelOK' /\ UnrelOK' /\ WireOK' /\ InOK'
  <2>1. PICK i \in 1 .. Len(sentReliable) : sentReliable' = RemoveAt(sentReliable, i)
    BY <1>20 DEF HandleAcknowledge, Acknowledged
  <2>2. ToSet(sentReliable') \subseteq ToSet(sentReliable)
    BY <1>2, <2>1, ToSetFacts
  <2>3. outgoingReliable' = outgoingReliable
    BY <1>20 DEF HandleAcknowledge
  <2>4. RelOK'
    BY <1>6, <2>2, <2>3 DEF RelOK
  <2> QED BY <1>12, <1>13, <1>14, <1>20, <2>4 DEF HandleAcknowledge, receiverVars
<1>21. ASSUME NEW c \in wire, HandleSendReliable(c)
       PROVE  RelOK' /\ UnrelOK' /\ WireOK' /\ InOK'
  <2>1. /\ c.ch \in Channels /\ c.unrel = 0
        /\ \A ch \in Channels : inReliable'[ch] \subseteq inReliable[ch]
                                    \cup (IF ch = c.ch THEN {Queued(c)} ELSE {})
        /\ inUnreliable' = inUnreliable
    BY <1>2, <1>21 DEF HandleSendReliable, Command
  <2>2. Carries(c.ch, Queued(c))' /\ Queued(c).unrel = 0
    BY <1>8, <2>1 DEF Carries, Queued
  <2>3. InOK'
    BY <1>9, <2>1, <2>2 DEF InOK
  <2> QED BY <1>11, <1>12, <1>13, <1>21, <2>3 DEF HandleSendReliable, senderVars
<1>22. ASSUME NEW c \in wire, HandleSendUnreliable(c)
       PROVE  RelOK' /\ UnrelOK' /\ WireOK' /\ InOK'
  <2>1. /\ c.ch \in Channels /\ c.unrel # 0
        /\ \A ch \in Channels : inUnreliable'[ch] \subseteq inUnreliable[ch]
                                    \cup (IF ch = c.ch THEN {Queued(c)} ELSE {})
        /\ inReliable' = inReliable
    BY <1>2, <1>22 DEF HandleSendUnreliable, Command
  <2>2. Carries(c.ch, Queued(c))' /\ Queued(c).unrel # 0
    BY <1>8, <2>1 DEF Carries, Queued
  <2>3. InOK'
    BY <1>9, <2>1, <2>2 DEF InOK
  <2> QED BY <1>11, <1>12, <1>13, <1>22, <2>3 DEF HandleSendUnreliable, senderVars
<1>23. ASSUME NEW n \in 1 .. Len(acks), SendAcknowledgements(n)
       PROVE  RelOK' /\ UnrelOK' /\ WireOK' /\ InOK'
  BY <1>11, <1>12, <1>13, <1>14, <1>23 DEF SendAcknowledgements, senderVars
<1>24. ASSUME \A ch \in Channels : /\ inReliable'[ch] \subseteq inReliable[ch]
                                   /\ inUnreliable'[ch] \subseteq inUnreliable[ch],
              UNCHANGED <<senderVars, wire>>
       PROVE  RelOK' /\ UnrelOK' /\ WireOK' /\ InOK'
  <2>1. InOK'
    BY <1>9, <1>24 DEF InOK
  <2> QED BY <1>11, <1>12, <1>13, <1>24, <2>1 DEF senderVars
<1>25. ASSUME NEW ch \in Channels, DispatchUnreliable(ch)
       PROVE  RelOK' /\ UnrelOK' /\ WireOK' /\ InOK'
  BY <1>2, <1>24, <1>25 DEF DispatchUnreliable, Fresh
<1>26. ASSUME NEW ch \in Channels, DispatchReliable(ch)
       PROVE  RelOK' /\ UnrelOK' /\ WireOK' /\ InOK'
  BY <1>2, <1>24, <1>26 DEF DispatchReliable, Fresh
<1>27. CASE DispatchNothing
  BY <1>2, <1>24, <1>27 DEF DispatchNothing, Fresh
<1>28. CASE UNCHANGED vars
  BY <1>11, <1>12, <1>13, <1>14, <1>28 DEF vars, senderVars, receiverVars
<1> QED
  BY <1>15, <1>16, <1>17, <1>18, <1>19, <1>20, <1>21, <1>22, <1>23, <1>25, <1>26, <1>27, <1>28
     DEF Next

\* Of two packets of a history, the one with the greater numbers came later.
LEMMA GrowingFacts ==
    ASSUME NEW h \in Seq(SeqNumbers), NEW rel \in Nat, NEW unrel \in Nat,
           Growing(h, rel, unrel), NEW m \in 1 .. Len(h), NEW n \in 1 .. Len(h)
    PROVE  /\ h[m].rel \in Nat /\ h[m].unrel \in Nat /\ h[m].rel <= rel
           /\ h[m].rel < h[n].rel => m < n
           /\ h[m].unrel # 0 /\ h[m].unrel < h[n].unrel => m < n
           /\ h[m].unrel # 0 /\ h[m].unrel = h[n].unrel => m = n
           /\ h[m].unrel = 0 /\ h[n].unrel = 0 /\ h[m].rel = h[n].rel => m = n
           /\ m < n => h[m].rel <= h[n].rel
           /\ m < n /\ h[n].unrel = 0 => h[m].rel < h[n].rel
<1>1. Len(h) \in Nat /\ h[m] \in SeqNumbers /\ h[n] \in SeqNumbers
  BY LenProperties, ElementOfSeq
<1>2. h[m].rel \in Nat /\ h[m].unrel \in Nat /\ h[n].rel \in Nat /\ h[n].unrel \in Nat
  BY <1>1 DEF SeqNumbers
<1>3. /\ h[m].rel <= rel
      /\ m < n => /\ h[m].rel <= h[n].rel
                  /\ h[n].unrel = 0 => h[m].rel < h[n].rel
                  /\ h[m].unrel # 0 /\ h[n].unrel # 0 => h[m].unrel < h[n].unrel
      /\ n < m => /\ h[n].rel <= h[m].rel
                  /\ h[m].unrel = 0 => h[n].rel < h[m].rel
                  /\ h[m].unrel # 0 /\ h[n].unrel # 0 => h[n].unrel < h[m].unrel
  BY DEF Growing
<1>4. m < n \/ m = n \/ n < m
  BY <1>1
<1> HIDE DEF Growing
<1> QED BY <1>1, <1>2, <1>3, <1>4

\* A packet sent after everything delivered leaves the channel in order.
LEMMA InOrderSend ==
    ASSUME NEW h \in Seq(SeqNumbers), NEW log \in Seq(Nat), NEW rel \in Nat, NEW unrel \in Nat,
           NEW queue \in SUBSET Incoming, InOrder(h, log, rel, unrel, queue),
           NEW e \in SeqNumbers, e.unrel = 0 => e.rel > rel
    PROVE  InOrder(Append(h, e), log, rel, unrel, queue)
<1>1. /\ Len(h) \in Nat /\ Len(Append(h, e)) = Len(h) + 1
      /\ \A i \in 1 .. Len(h) : Append(h, e)[i] = h[i]
      /\ Append(h, e)[Len(h) + 1] = e
  OBVIOUS
<1>2. e.rel \in Nat
  BY DEF SeqNumbers
<1>3. \A i \in 1 .. Len(log) : log[i] \in 1 .. Len(h) + 1 /\ Append(h, e)[log[i]] = h[log[i]]
  BY <1>1 DEF InOrder
<1>4. ASSUME NEW n \in 1 .. Len(h) + 1, Append(h, e)[n].unrel = 0, Append(h, e)[n].rel <= rel
      PROVE  \E i \in 1 .. Len(log) : log[i] = n
  <2>1. CASE n = Len(h) + 1
    BY <1>1, <1>2, <1>4, <2>1
  <2>2. CASE n # Len(h) + 1
    BY <1>1, <1>4, <2>2 DEF InOrder
  <2> QED BY <2>1, <2>2
<1> QED BY <1>1, <1>3, <1>4 DEF InOrder

\* What the log looks like after one more packet.
LEMMA LogAppend ==
    ASSUME NEW log \in Seq(Nat), NEW p \in Nat
    PROVE  /\ Append(log, p) \in Seq(Nat) /\ Len(log) \in Nat
           /\ Len(Append(log, p)) = Len(log) + 1
           /\ \A i \in 1 .. Len(log) : Append(log, p)[i] = log[i]
           /\ Append(log, p)[Len(log) + 1] = p
           /\ \A i \in 1 .. Len(Append(log, p)) : i \in 1 .. Len(log) \/ i = Len(log) + 1
OBVIOUS

\* The log of an in-order channel stays in order and complete when a packet
\* later than all of it is delivered.
LEMMA InOrderAppend ==
    ASSUME NEW h \in Seq(SeqNumbers), NEW log \in Seq(Nat), NEW rel \in Nat, NEW unrel \in Nat,
           NEW queue \in SUBSET Incoming, InOrder(h, log, rel, unrel, queue),
           NEW p \in 1 .. Len(h), NEW rel2 \in Nat, NEW unrel2 \in Nat, rel <= rel2, unrel <= unrel2,
           \A i \in 1 .. Len(log) : log[i] < p,
           h[p].rel <= rel2, h[p].unrel <= unrel2,
           \A n \in 1 .. Len(h) : h[n].unrel = 0 /\ h[n].rel <= rel2 => h[n].rel <= rel \/ n = p,
           NEW rest \in SUBSET Incoming, \A q \in rest : q.rel >= rel2 /\ q.unrel > unrel2
    PROVE  InOrder(h, Append(log, p), rel2, unrel2, rest)
<1> DEFINE log2 == Append(log, p)
<1>1. /\ Len(log) \in Nat /\ Len(log2) = Len(log) + 1
      /\ \A i \in 1 .. Len(log) : log2[i] = log[i]
      /\ log2[Len(log) + 1] = p
      /\ \A i \in 1 .. Len(log2) : i \in 1 .. Len(log) \/ i = Len(log) + 1
  BY LogAppend, LenProperties
<1> HIDE DEF log2
<1>2. ASSUME NEW i \in 1 .. Len(log2)
      PROVE  log2[i] \in 1 .. Len(h) /\ h[log2[i]].rel <= rel2 /\ h[log2[i]].unrel <= unrel2
  <2>1. CASE i \in 1 .. Len(log)
    <3>1. log[i] \in 1 .. Len(h) /\ h[log[i]].rel <= rel /\ h[log[i]].unrel <= unrel
      BY <2>1 DEF InOrder
    <3>2. h[log[i]] \in SeqNumbers
      BY <3>1, ElementOfSeq
    <3>3. h[log[i]].rel \in Nat /\ h[log[i]].unrel \in Nat
      BY <3>2 DEF SeqNumbers
    <3> QED BY <1>1, <2>1, <3>1, <3>3, SMTT(30)
  <2>2. CASE i = Len(log) + 1
    BY <1>1, <2>2
  <2> QED BY <1>1, <2>1, <2>2
<1>3. ASSUME NEW i \in 1 .. Len(log2), NEW j \in 1 .. Len(log2), i < j
      PROVE  log2[i] < log2[j]
  <2>1. i \in 1 .. Len(log)
    BY <1>1, <1>3
  <2>2. CASE j \in 1 .. Len(log)
    BY <1>1, <1>3, <2>1, <2>2 DEF InOrder
  <2>3. CASE j = Len(log) + 1
    BY <1>1, <2>1, <2>3
  <2> QED BY <1>1, <2>2, <2>3
<1>4. ASSUME NEW n \in 1 .. Len(h), h[n].unrel = 0, h[n].rel <= rel2
      PROVE  \E i \in 1 .. Len(log2) : log2[i] = n
  <2>1. CASE n = p
    <3>1. Len(log) + 1 \in 1 .. Len(log2)
      BY <1>1
    <3> QED BY <1>1, <2>1, <3>1
  <2>2. CASE h[n].rel <= rel
    <3>1. PICK i \in 1 .. Len(log) : log[i] = n
      BY <1>4, <2>2 DEF InOrder
    <3>2. i \in 1 .. Len(log2) /\ log2[i] = n
      BY <1>1, <3>1
    <3> QED BY <3>2
  <2> QED BY <1>4, <2>1, <2>2
<1> QED BY <1>2, <1>3, <1>4 DEF InOrder, log2

\* A queued command's numbers are those of its packet.
LEMMA QueuedFacts ==
    ASSUME NEW h, NEW q \in Incoming, q.packet \in 1 .. Len(h),
           h[q.packet] = [rel |-> q.rel, unrel |-> q.unrel]
    PROVE  /\ q.packet \in 1 .. Len(h) /\ q.packet \in Nat /\ q.rel \in Nat /\ q.unrel \in Nat
           /\ h[q.packet].rel = q.rel /\ h[q.packet].unrel = q.unrel
<1>1. q.packet \in Nat /\ q.rel \in Nat /\ q.unrel \in Nat
  BY DEF Incoming
<1>2. h[q.packet].rel = q.rel /\ h[q.packet].unrel = q.unrel
  OBVIOUS
<1> QED BY <1>1, <1>2

\* Delivering the first unreliable packet of the queue keeps the channel in order.
LEMMA InOrderUnreliable ==
    ASSUME NEW h \in Seq(SeqNumbers), NEW log \in Seq(Nat), NEW rel \in Nat, NEW unrel \in Nat,
           NEW queue \in SUBSET Incoming, InOrder(h, log, rel, unrel, queue),
           NEW hr \in Nat, NEW hu \in Nat, Growing(h, hr, hu),
           \A q \in queue : /\ q.packet \in 1 .. Len(h) /\ q.unrel # 0
                            /\ h[q.packet] = [rel |-> q.rel, unrel |-> q.unrel],
           NEW u \in queue, u.rel <= rel, \A v \in queue : u.unrel <= v.unrel
    PROVE  InOrder(h, Append(log, u.packet), rel, u.unrel, queue \ {u})
<1>1. /\ u.packet \in 1 .. Len(h) /\ u.unrel # 0 /\ u.rel \in Nat /\ u.unrel \in Nat
      /\ h[u.packet].rel = u.rel /\ h[u.packet].unrel = u.unrel
      /\ u.rel = rel /\ unrel < u.unrel
  <2>1. u \in Incoming /\ u.unrel # 0 /\ u.rel >= rel /\ u.unrel > unrel
    BY DEF InOrder
  <2>2. /\ u.packet \in 1 .. Len(h) /\ u.rel \in Nat /\ u.unrel \in Nat
        /\ h[u.packet].rel = u.rel /\ h[u.packet].unrel = u.unrel
    BY <2>1, QueuedFacts
  <2> QED BY <2>1, <2>2
<1>2. ASSUME NEW i \in 1 .. Len(log) PROVE log[i] < u.packet
  <2> DEFINE n == log[i]
  <2>1. n \in 1 .. Len(h) /\ h[n].rel <= rel /\ h[n].unrel <= unrel
    BY DEF InOrder
  <2> HIDE DEF n
  <2>2. h[n].rel \in Nat /\ h[n].unrel \in Nat
    BY <2>1, GrowingFacts
  <2>3. /\ u.packet < n => h[u.packet].rel <= h[n].rel
        /\ u.packet < n /\ h[n].unrel = 0 => h[u.packet].rel < h[n].rel
        /\ h[n].unrel # 0 /\ h[n].unrel < h[u.packet].unrel => n < u.packet
    BY <1>1, <2>1, GrowingFacts
  <2>4. n # u.packet
    BY <1>1, <2>1, <2>2, SMTT(30)
  <2>5. ~(u.packet < n)
    BY <1>1, <2>1, <2>2, <2>3, SMTT(30)
  <2> QED BY <1>1, <2>1, <2>4, <2>5 DEF n
<1>3. ASSUME NEW q \in queue \ {u} PROVE q.rel >= rel /\ q.unrel > u.unrel
  <2>1. /\ q.packet \in 1 .. Len(h) /\ q.unrel # 0 /\ q.unrel \in Nat /\ q.rel >= rel
        /\ h[q.packet].rel = q.rel /\ h[q.packet].unrel = q.unrel /\ u.unrel <= q.unrel
    <3>1. q \in Incoming /\ q.unrel # 0 /\ q.rel >= rel /\ u.unrel <= q.unrel
      BY DEF InOrder
    <3> QED BY <3>1, QueuedFacts
  <2>2. CASE q.unrel = u.unrel
    <3>1. q.packet = u.packet
      BY <1>1, <2>1, <2>2, GrowingFacts, SMTT(30)
    <3>2. q.rel = u.rel
      BY <1>1, <2>1, <3>1
    <3>3. q = u
      BY <2>2, <3>1, <3>2 DEF Incoming
    <3> QED BY <3>3
  <2> QED BY <1>1, <2>1, <2>2
<1>4. u.packet \in Nat
  BY <1>1
<1> HIDE DEF InOrder, Growing
<1>5. \A n \in 1 .. Len(h) : h[n].unrel = 0 /\ h[n].rel <= rel => h[n].rel <= rel \/ n = u.packet
  OBVIOUS
<1>6. PICK p \in 1 .. Len(h) : p = u.packet
  BY <1>1
<1>7. PICK un \in Nat : un = u.unrel
  BY <1>1
<1>8. PICK rest \in SUBSET Incoming : rest = queue \ {u}
  OBVIOUS
<1>9. /\ rel <= rel /\ unrel <= un /\ h[p].rel <= rel /\ h[p].unrel <= un
      /\ \A i \in 1 .. Len(log) : log[i] < p
      /\ \A q \in rest : q.rel >= rel /\ q.unrel > un
  BY <1>1, <1>2, <1>3, <1>6, <1>7, <1>8
<1>10. InOrder(h, Append(log, p), rel, un, rest)
  BY <1>5, <1>6, <1>9, InOrderAppend
<1> QED BY <1>6, <1>7, <1>8, <1>10

\* Delivering the next reliable packet when the queue of unreliable ones
\* offers nothing keeps the channel in order.
LEMMA InOrderReliable ==
    ASSUME NEW h \in Seq(SeqNumbers), NEW log \in Seq(Nat), NEW rel \in Nat, NEW unrel \in Nat,
           NEW queue \in SUBSET Incoming, InOrder(h, log, rel, unrel, queue),
           NEW hr \in Nat, NEW hu \in Nat, Growing(h, hr, hu),
           \A q \in queue : /\ q.packet \in 1 .. Len(h) /\ q.unrel # 0
                            /\ h[q.packet] = [rel |-> q.rel, unrel |-> q.unrel],
           \A u \in queue : (\A v \in queue : u.unrel <= v.unrel) => ~(u.rel <= rel),
           NEW p \in 1 .. Len(h), h[p] = [rel |-> rel + 1, unrel |-> 0]
    PROVE  InOrder(h, Append(log, p), rel + 1, unrel, queue) /\ rel + 1 <= hr
<1>1. rel + 1 \in Nat /\ h[p].rel = rel + 1 /\ h[p].unrel = 0 /\ rel + 1 <= hr
  <2>1. h[p].rel <= hr
    BY GrowingFacts
  <2> QED BY <2>1
<1>2. ASSUME NEW i \in 1 .. Len(log) PROVE log[i] < p
  <2> DEFINE n == log[i]
  <2>1. n \in 1 .. Len(h) /\ h[n].rel <= rel
    BY DEF InOrder
  <2> HIDE DEF n
  <2>2. h[n].rel \in Nat /\ h[n].rel < h[p].rel
    BY <1>1, <2>1, GrowingFacts
  <2>3. n < p
    BY <2>1, <2>2, GrowingFacts
  <2> QED BY <2>3 DEF n
<1>3. ASSUME NEW q \in queue PROVE q.rel >= rel + 1 /\ q.unrel > unrel
  <2> DEFINE T == {v.unrel : v \in queue}
  <2>1. T \subseteq Nat /\ T # {}
    BY DEF Incoming
  <2>2. PICK k \in T : \A n \in T : k <= n
    BY <2>1, LeastExists
  <2>3. PICK v \in queue : v.unrel = k
    BY <2>2
  <2>4. \A w \in queue : v.unrel <= w.unrel
    BY <2>2, <2>3
  <2>5. v.rel \in Nat /\ q.rel \in Nat /\ v.unrel \in Nat /\ q.unrel \in Nat
    BY DEF Incoming
  <2>6. v.rel >= rel + 1 /\ v.unrel <= q.unrel
    BY <2>4, <2>5
  <2>7. /\ v.packet \in 1 .. Len(h) /\ h[v.packet].rel = v.rel /\ h[v.packet].unrel = v.unrel
        /\ q.packet \in 1 .. Len(h) /\ h[q.packet].rel = q.rel /\ h[q.packet].unrel = q.unrel
        /\ v.unrel # 0 /\ q.unrel # 0
    <3>1. v \in Incoming /\ q \in Incoming /\ v.unrel # 0 /\ q.unrel # 0
      OBVIOUS
    <3> QED BY <3>1, QueuedFacts
  <2>8. v.packet = q.packet \/ v.packet < q.packet
    <3>1. v.unrel = q.unrel \/ v.unrel < q.unrel
      BY <2>5, <2>6
    <3>2. v.unrel = q.unrel => v.packet = q.packet
      BY <2>7, GrowingFacts, SMTT(30)
    <3>3. v.unrel < q.unrel => v.packet < q.packet
      BY <2>7, GrowingFacts, SMTT(30)
    <3> QED BY <3>1, <3>2, <3>3
  <2>9. v.rel <= q.rel
    BY <2>5, <2>7, <2>8, GrowingFacts, SMTT(30)
  <2> QED BY <2>5, <2>6, <2>9 DEF InOrder
<1>4. ASSUME NEW n \in 1 .. Len(h), h[n].unrel = 0, h[n].rel <= rel + 1
      PROVE  h[n].rel <= rel \/ n = p
  <2>1. h[n].rel \in Nat
    BY GrowingFacts
  <2>2. CASE h[n].rel = rel + 1
    BY <1>1, <1>4, <2>2, GrowingFacts
  <2> QED BY <1>4, <2>1, <2>2
<1>5. PICK rel2 \in Nat : rel2 = rel + 1
  BY <1>1
<1> HIDE DEF InOrder, Growing
<1>6. /\ rel <= rel2 /\ unrel <= unrel /\ h[p].rel <= rel2 /\ h[p].unrel <= unrel
      /\ \A i \in 1 .. Len(log) : log[i] < p
      /\ \A q \in queue : q.rel >= rel2 /\ q.unrel > unrel
      /\ \A n \in 1 .. Len(h) : h[n].unrel = 0 /\ h[n].rel <= rel2 => h[n].rel <= rel \/ n = p
  BY <1>1, <1>2, <1>3, <1>4, <1>5
<1>7. InOrder(h, Append(log, p), rel2, unrel, queue)
  BY <1>6, InOrderAppend
<1> QED BY <1>1, <1>5, <1>7

\* Whatever happens, every channel stays in order.
LEMMA DeliveredInOrderStep ==
    ASSUME TypeOK, NumbersGrow, CommandsCarryNumbers, DeliveredInOrder, [Next]_vars
    PROVE  DeliveredInOrder'
<1> DEFINE Good(ch) == /\ inReliableSeq[ch] <= outReliableSeq[ch]
                       /\ InOrder(sent[ch], delivered[ch], inReliableSeq[ch],
                                  inUnreliableSeq[ch], inUnreliable[ch])
<1>1. /\ sent \in [Channels -> Seq(SeqNumbers)] /\ delivered \in [Channels -> Seq(Nat)]
      /\ outReliableSeq \in [Channels -> Nat] /\ outUnreliableSeq \in [Channels -> Nat]
      /\ inReliableSeq \in [Channels -> Nat] /\ inUnreliableSeq \in [Channels -> Nat]
      /\ inUnreliable \in [Channels -> SUBSET Incoming]
      /\ inReliable \in [Channels -> SUBSET Incoming] /\ wire \in SUBSET Command
  BY DEF TypeOK
<1>2. \A ch \in Channels : Good(ch)
  BY DEF DeliveredInOrder
<1>3. SUFFICES \A ch \in Channels : Good(ch)'
  BY DEF DeliveredInOrder
<1>4. ASSUME NEW ch \in Channels,
             sent'[ch] = sent[ch], delivered'[ch] = delivered[ch],
             outReliableSeq'[ch] = outReliableSeq[ch], inReliableSeq'[ch] = inReliableSeq[ch],
             inUnreliableSeq'[ch] = inUnreliableSeq[ch], inUnreliable'[ch] = inUnreliable[ch]
      PROVE  Good(ch)'
  BY <1>2, <1>4
<1>5. \A ch \in Channels : \A q \in inUnreliable[ch] :
         /\ q.packet \in 1 .. Len(sent[ch]) /\ q.unrel # 0
         /\ sent[ch][q.packet] = [rel |-> q.rel, unrel |-> q.unrel]
  BY DEF CommandsCarryNumbers, Carries
<1>6. \A ch \in Channels : Growing(sent[ch], outReliableSeq[ch], outUnreliableSeq[ch])
  BY DEF NumbersGrow
<1>7. ASSUME NEW ch \in Channels, NEW e \in SeqNumbers, e.unrel = 0 => e.rel > inReliableSeq[ch],
             sent' = [sent EXCEPT ![ch] = Append(@, e)],
             outReliableSeq'[ch] >= outReliableSeq[ch], outReliableSeq'[ch] \in Nat,
             \A d \in Channels : d # ch => outReliableSeq'[d] = outReliableSeq[d],
             UNCHANGED <<delivered, inReliableSeq, inUnreliableSeq, inUnreliable>>
      PROVE  \A d \in Channels : Good(d)'
  <2>1. Good(ch)'
    <3>1. sent[ch] \in Seq(SeqNumbers) /\ delivered[ch] \in Seq(Nat)
          /\ inReliableSeq[ch] \in Nat /\ inUnreliableSeq[ch] \in Nat
          /\ inUnreliable[ch] \in SUBSET Incoming
      BY <1>1
    <3>2. InOrder(Append(sent[ch], e), delivered[ch], inReliableSeq[ch], inUnreliableSeq[ch],
                  inUnreliable[ch])
      BY <1>2, <1>7, <3>1, InOrderSend
    <3>3. sent'[ch] = Append(sent[ch], e)
      BY <1>1, <1>7
    <3>4. inReliableSeq[ch] <= outReliableSeq'[ch]
      <4>1. inReliableSeq[ch] <= outReliableSeq[ch] /\ outReliableSeq[ch] \in Nat
        BY <1>1, <1>2
      <4> QED BY <1>7, <3>1, <4>1
    <3> QED BY <1>7, <3>2, <3>3, <3>4
  <2>2. ASSUME NEW d \in Channels, d # ch PROVE Good(d)'
    BY <1>1, <1>4, <1>7, <2>2
  <2> QED BY <2>1, <2>2
<1>8. ASSUME NEW ch \in Channels, NEW len \in Lengths, SendReliable(ch, len)
      PROVE  \A d \in Channels : Good(d)'
  <2>1. PICK r \in Nat : r = outReliableSeq[ch]
    BY <1>1
  <2>2. PICK e \in SeqNumbers : e = [rel |-> r + 1, unrel |-> 0]
    <3>1. r + 1 \in Nat /\ 0 \in Nat
      OBVIOUS
    <3> QED BY <3>1 DEF SeqNumbers
  <2>3. /\ sent' = [sent EXCEPT ![ch] = Append(@, e)]
        /\ outReliableSeq' = [outReliableSeq EXCEPT ![ch] = r + 1]
        /\ UNCHANGED <<delivered, inReliableSeq, inUnreliableSeq, inUnreliable>>
    BY <1>8, <2>1, <2>2 DEF SendReliable, receiverVars
  <2>4. /\ outReliableSeq'[ch] = r + 1
        /\ \A d \in Channels : d # ch => outReliableSeq'[d] = outReliableSeq[d]
    BY <1>1, <2>3
  <2>5. e.rel = r + 1 /\ inReliableSeq[ch] <= r /\ inReliableSeq[ch] \in Nat
    BY <1>1, <1>2, <2>1, <2>2
  <2>6. e.rel > inReliableSeq[ch] /\ outReliableSeq'[ch] >= outReliableSeq[ch]
        /\ outReliableSeq'[ch] \in Nat
    BY <2>1, <2>4, <2>5
  <2> QED BY <1>7, <2>3, <2>4, <2>6
<1>9. ASSUME NEW ch \in Channels, NEW len \in Lengths, SendUnreliable(ch, len)
      PROVE  \A d \in Channels : Good(d)'
  <2>1. PICK e \in SeqNumbers : e = [rel |-> outReliableSeq[ch], unrel |-> outUnreliableSeq[ch] + 1]
    <3>1. outReliableSeq[ch] \in Nat /\ outUnreliableSeq[ch] + 1 \in Nat
      BY <1>1
    <3> QED BY <3>1 DEF SeqNumbers
  <2>2. e.unrel = outUnreliableSeq[ch] + 1 /\ outUnreliableSeq[ch] \in Nat
    BY <1>1, <2>1
  <2>3. e.unrel # 0
    BY <2>2
  <2>4. /\ sent' = [sent EXCEPT ![ch] = Append(@, e)] /\ outReliableSeq' = outReliableSeq
        /\ UNCHANGED <<delivered, inReliableSeq, inUnreliableSeq, inUnreliable>>
    BY <1>9, <2>1 DEF SendUnreliable, receiverVars
  <2>5. outReliableSeq'[ch] >= outReliableSeq[ch] /\ outReliableSeq'[ch] \in Nat
    BY <1>1, <2>4
  <2> QED BY <1>7, <2>3, <2>4, <2>5
<1>10. ASSUME NEW c \in wire, HandleSendUnreliable(c) PROVE \A d \in Channels : Good(d)'
  <2>1. /\ c.ch \in Channels /\ c.rel >= inReliableSeq[c.ch] /\ c.unrel > inUnreliableSeq[c.ch]
        /\ UNCHANGED <<sent, delivered, outReliableSeq, inReliableSeq, inUnreliableSeq>>
        /\ inUnreliable' = [inUnreliable EXCEPT ![c.ch] = @ \cup {Queued(c)}]
    BY <1>1, <1>10 DEF HandleSendUnreliable, senderVars, Command
  <2>2. Queued(c).rel = c.rel /\ Queued(c).unrel = c.unrel
    BY DEF Queued
  <2>3. ASSUME NEW d \in Channels PROVE Good(d)'
    <3>1. \A q \in inUnreliable'[d] : q.rel >= inReliableSeq[d] /\ q.unrel > inUnreliableSeq[d]
      <4>1. \A q \in inUnreliable[d] : q.rel >= inReliableSeq[d] /\ q.unrel > inUnreliableSeq[d]
        BY <1>2 DEF InOrder
      <4>2. inUnreliable'[d] = IF d = c.ch THEN inUnreliable[d] \cup {Queued(c)} ELSE inUnreliable[d]
        BY <1>1, <2>1
      <4> QED BY <2>1, <2>2, <4>1, <4>2
    <3>2. Good(d)
      BY <1>2
    <3> QED BY <2>1, <3>1, <3>2 DEF InOrder
  <2> QED BY <2>3
<1>11. ASSUME NEW ch \in Channels, DispatchUnreliable(ch) PROVE \A d \in Channels : Good(d)'
  <2>1. PICK u \in NextUnreliable(ch) :
            /\ inUnreliableSeq' = [inUnreliableSeq EXCEPT ![ch] = u.unrel]
            /\ inUnreliable' = [inUnreliable EXCEPT ![ch] = @ \ {u}]
            /\ delivered' = [delivered EXCEPT ![ch] = Append(@, u.packet)]
    BY <1>11 DEF DispatchUnreliable
  <2>2. UNCHANGED <<sent, outReliableSeq, inReliableSeq>>
    BY <1>11 DEF DispatchUnreliable, senderVars
  <2>3. u \in inUnreliable[ch] /\ u.rel <= inReliableSeq[ch] /\ \A v \in inUnreliable[ch] : u.unrel <= v.unrel
    BY DEF NextUnreliable
  <2>4. InOrder(sent[ch], Append(delivered[ch], u.packet), inReliableSeq[ch], u.unrel,
                inUnreliable[ch] \ {u})
    <3>1. /\ sent[ch] \in Seq(SeqNumbers) /\ delivered[ch] \in Seq(Nat)
          /\ inReliableSeq[ch] \in Nat /\ inUnreliableSeq[ch] \in Nat
          /\ outReliableSeq[ch] \in Nat /\ outUnreliableSeq[ch] \in Nat
          /\ inUnreliable[ch] \in SUBSET Incoming
      BY <1>1
    <3>2. /\ InOrder(sent[ch], delivered[ch], inReliableSeq[ch], inUnreliableSeq[ch], inUnreliable[ch])
          /\ Growing(sent[ch], outReliableSeq[ch], outUnreliableSeq[ch])
          /\ \A q \in inUnreliable[ch] :
                /\ q.packet \in 1 .. Len(sent[ch]) /\ q.unrel # 0
                /\ sent[ch][q.packet] = [rel |-> q.rel, unrel |-> q.unrel]
      BY <1>2, <1>5, <1>6
    <3> QED BY <2>3, <3>1, <3>2, InOrderUnreliable
  <2>5. /\ inUnreliableSeq'[ch] = u.unrel /\ inUnreliable'[ch] = inUnreliable[ch] \ {u}
        /\ delivered'[ch] = Append(delivered[ch], u.packet)
    BY <1>1, <2>1
  <2>6. Good(ch)'
    <3>1. Good(ch)
      BY <1>2
    <3> QED BY <2>2, <2>4, <2>5, <3>1
  <2>7. ASSUME NEW d \in Channels, d # ch PROVE Good(d)'
    BY <1>1, <1>4, <2>1, <2>2, <2>7
  <2> QED BY <2>6, <2>7
<1>12. ASSUME NEW ch \in Channels, DispatchReliable(ch) PROVE \A d \in Channels : Good(d)'
  <2>1. PICK r \in NextReliable(ch) :
            /\ inReliableSeq' = [inReliableSeq EXCEPT ![ch] = r.rel]
            /\ delivered' = [delivered EXCEPT ![ch] = Append(@, r.packet)]
    BY <1>12 DEF DispatchReliable
  <2>2. UNCHANGED <<sent, outReliableSeq, inUnreliableSeq, inUnreliable>>
    BY <1>12 DEF DispatchReliable, senderVars
  <2>3. r \in inReliable[ch] /\ r.rel = inReliableSeq[ch] + 1
    BY DEF NextReliable
  <2>4. r.packet \in 1 .. Len(sent[ch]) /\ sent[ch][r.packet] = [rel |-> inReliableSeq[ch] + 1, unrel |-> 0]
    <3>1. Carries(ch, r) /\ r.unrel = 0
      BY <2>3 DEF CommandsCarryNumbers
    <3>2. r.packet \in 1 .. Len(sent[ch]) /\ sent[ch][r.packet] = [rel |-> r.rel, unrel |-> r.unrel]
      BY <3>1 DEF Carries
    <3> QED BY <2>3, <3>1, <3>2
  <2>5. /\ InOrder(sent[ch], Append(delivered[ch], r.packet), inReliableSeq[ch] + 1,
                   inUnreliableSeq[ch], inUnreliable[ch])
        /\ inReliableSeq[ch] + 1 <= outReliableSeq[ch]
    <3>1. /\ sent[ch] \in Seq(SeqNumbers) /\ delivered[ch] \in Seq(Nat)
          /\ inReliableSeq[ch] \in Nat /\ inUnreliableSeq[ch] \in Nat
          /\ outReliableSeq[ch] \in Nat /\ outUnreliableSeq[ch] \in Nat
          /\ inUnreliable[ch] \in SUBSET Incoming
      BY <1>1
    <3>2. /\ InOrder(sent[ch], delivered[ch], inReliableSeq[ch], inUnreliableSeq[ch], inUnreliable[ch])
          /\ Growing(sent[ch], outReliableSeq[ch], outUnreliableSeq[ch])
          /\ \A q \in inUnreliable[ch] :
                /\ q.packet \in 1 .. Len(sent[ch]) /\ q.unrel # 0
                /\ sent[ch][q.packet] = [rel |-> q.rel, unrel |-> q.unrel]
      BY <1>2, <1>5, <1>6
    <3>3. \A u \in inUnreliable[ch] :
             (\A v \in inUnreliable[ch] : u.unrel <= v.unrel) => ~(u.rel <= inReliableSeq[ch])
      BY <1>12 DEF DispatchReliable, NextUnreliable
    <3> QED BY <2>4, <3>1, <3>2, <3>3, InOrderReliable
  <2>6. inReliableSeq'[ch] = inReliableSeq[ch] + 1 /\ delivered'[ch] = Append(delivered[ch], r.packet)
    BY <1>1, <2>1, <2>3
  <2>7. Good(ch)'
    BY <2>2, <2>5, <2>6
  <2>8. ASSUME NEW d \in Channels, d # ch PROVE Good(d)'
    BY <1>1, <1>4, <2>1, <2>2, <2>8
  <2> QED BY <2>7, <2>8
<1>13. CASE UNCHANGED <<sent, delivered, outReliableSeq, inReliableSeq, inUnreliableSeq, inUnreliable>>
  BY <1>4, <1>13
<1> HIDE DEF Good
<1> QED
  BY <1>8, <1>9, <1>10, <1>11, <1>12, <1>13 DEF Next, TransmitReliable, TransmitUnreliable,
      CheckTimeout, HandleAcknowledge, HandleSendReliable, SendAcknowledgements,
      DispatchNothing, vars, senderVars, receiverVars

\* A packet is told from every other by its numbers, wherever it is, and every
\* channel is in order (enet_peer_send numbers, enet_peer_receive compares).
THEOREM OrderCorrect == Spec => []OrderInv
<1>1. Init => OrderInv
  <2> SUFFICES ASSUME Init PROVE OrderInv
    OBVIOUS
  <2>1. ToSet(<<>>) = {} /\ Len(<<>>) = 0
    BY DEF ToSet
  <2>2. NumbersGrow
    BY DEF Init, NumbersGrow, Growing
  <2>3. CommandsCarryNumbers
    BY <2>1 DEF Init, CommandsCarryNumbers
  <2>4. DeliveredInOrder
    BY DEF Init, DeliveredInOrder, InOrder
  <2> QED BY <2>2, <2>3, <2>4 DEF OrderInv
<1>2. TypeOK /\ OrderInv /\ [Next]_vars => OrderInv'
  BY NumbersGrowStep, CommandsCarryNumbersStep, DeliveredInOrderStep DEF OrderInv
<1> QED BY <1>1, <1>2, TypeCorrect, PTL DEF Spec

-----------------------------------------------------------------------------
\* EnetChannel implements ChannelOrder.

\* Which packets of history h are reliable.
Flags(h) == [n \in 1 .. Len(h) |-> h[n].unrel = 0]

\* The flags of a longer history.
LEMMA FlagsAppend ==
    ASSUME NEW h \in Seq(SeqNumbers), NEW e \in SeqNumbers, NEW flag \in BOOLEAN,
           flag = (e.unrel = 0)
    PROVE  Flags(Append(h, e)) = Append(Flags(h), flag)
<1> DEFINE long == Append(h, e)
<1>1. /\ long \in Seq(SeqNumbers) /\ Len(h) \in Nat /\ Len(long) = Len(h) + 1
      /\ \A n \in 1 .. Len(h) : long[n] = h[n]
      /\ long[Len(h) + 1] = e
  OBVIOUS
<1> HIDE DEF long
<1>2. \A s \in Seq(SeqNumbers) :
         /\ Flags(s) \in Seq(BOOLEAN) /\ Len(Flags(s)) = Len(s)
         /\ \A n \in 1 .. Len(s) : Flags(s)[n] = (s[n].unrel = 0)
  <2> TAKE s \in Seq(SeqNumbers)
  <2>1. Len(s) \in Nat /\ \A n \in 1 .. Len(s) : (s[n].unrel = 0) \in BOOLEAN
    BY LenProperties, Zenon
  <2>2. Flags(s) \in [1 .. Len(s) -> BOOLEAN]
    BY <2>1, Zenon DEF Flags
  <2>3. Flags(s) \in Seq(BOOLEAN) /\ Len(Flags(s)) = Len(s)
    BY <2>1, <2>2, LenProperties, SMT
  <2>4. \A n \in 1 .. Len(s) : Flags(s)[n] = (s[n].unrel = 0)
    BY Zenon DEF Flags
  <2> QED BY <2>3, <2>4
<1>3. /\ Flags(long) \in Seq(BOOLEAN) /\ Len(Flags(long)) = Len(h) + 1
      /\ Flags(h) \in Seq(BOOLEAN) /\ Len(Flags(h)) = Len(h)
  BY <1>1, <1>2
<1> DEFINE appended == Append(Flags(h), flag)
<1>4. /\ appended \in Seq(BOOLEAN) /\ Len(appended) = Len(h) + 1
      /\ \A n \in 1 .. Len(h) : appended[n] = Flags(h)[n]
      /\ appended[Len(h) + 1] = flag
  BY <1>3, AppendProperties
<1> HIDE DEF appended
<1>5. ASSUME NEW n \in 1 .. Len(h) + 1 PROVE Flags(long)[n] = appended[n]
  <2>1. n \in 1 .. Len(h) \/ n = Len(h) + 1
    BY <1>1
  <2>2. CASE n \in 1 .. Len(h)
    <3>1. n \in 1 .. Len(long)
      BY <1>1
    <3>2. Flags(long)[n] = (long[n].unrel = 0) /\ Flags(h)[n] = (h[n].unrel = 0)
      BY <1>1, <1>2, <2>2, <3>1, Zenon
    <3> QED BY <1>1, <1>4, <2>2, <3>2, Zenon
  <2>3. CASE n = Len(h) + 1
    <3>1. n \in 1 .. Len(long)
      BY <1>1, <2>3
    <3>2. Flags(long)[n] = (long[n].unrel = 0)
      BY <1>1, <1>2, <3>1, Zenon
    <3> QED BY <1>1, <1>4, <2>3, <3>2, Zenon
  <2> QED BY <2>1, <2>2, <2>3
<1> QED BY <1>3, <1>4, <1>5, SeqEqual DEF long, appended

\* What is delivered next lies past the cursor and past no reliable packet.
LEMMA NextInOrder ==
    ASSUME NEW h \in Seq(SeqNumbers), NEW log \in Seq(Nat), NEW rel \in Nat, NEW unrel \in Nat,
           NEW queue, InOrder(h, log, rel, unrel, queue),
           NEW p \in 1 .. Len(h), \A i \in 1 .. Len(log) : log[i] < p,
           \A k \in 1 .. Len(h) : k < p /\ h[k].unrel = 0 => h[k].rel <= rel,
           NEW cursor, cursor = IF log = <<>> THEN 0 ELSE log[Len(log)]
    PROVE  p \in (cursor + 1) .. Len(h) /\ \A k \in (cursor + 1) .. (p - 1) : h[k].unrel # 0
<1>1. Len(log) \in Nat /\ Len(h) \in Nat /\ (log = <<>> <=> Len(log) = 0)
  BY LenProperties, EmptySeq
<1>2. log # <<>> => Len(log) \in 1 .. Len(log)
  BY <1>1
<1>3. \A i \in 1 .. Len(log) : log[i] \in Nat
  BY ElementOfSeq
<1>4. cursor \in Nat /\ cursor < p
  BY <1>1, <1>2, <1>3
<1>5. ASSUME NEW i \in 1 .. Len(log) PROVE log[i] <= cursor
  <2>1. log # <<>> /\ cursor = log[Len(log)]
    BY <1>1
  <2>2. i < Len(log) => log[i] < log[Len(log)]
    BY <1>2, <2>1 DEF InOrder
  <2>3. i = Len(log) \/ i < Len(log)
    BY <1>1
  <2> QED BY <1>2, <1>3, <2>1, <2>2, <2>3
<1>6. ASSUME NEW k \in (cursor + 1) .. (p - 1), h[k].unrel = 0 PROVE FALSE
  <2>1. k \in 1 .. Len(h) /\ k < p /\ k > cursor
    BY <1>1, <1>4
  <2>2. PICK i \in 1 .. Len(log) : log[i] = k
    BY <1>6, <2>1 DEF InOrder
  <2> QED BY <1>3, <1>4, <1>5, <2>1, <2>2
<1> QED BY <1>1, <1>4, <1>6

\* Delivering packet p maps to the abstract delivery of p.
LEMMA DeliverStep ==
    ASSUME TypeOK, OrderInv, OrderInv', NEW ch \in Channels, NEW p \in 1 .. Len(sent[ch]),
           delivered' = [delivered EXCEPT ![ch] = Append(@, p)],
           UNCHANGED <<sent, connected>>,
           \A k \in 1 .. Len(sent[ch]) :
                k < p /\ sent[ch][k].unrel = 0 => sent[ch][k].rel <= inReliableSeq[ch]
    PROVE  Order!Deliver(ch, p)
<1> DEFINE h == sent[ch]
           log == delivered[ch]
           cursor == IF log = <<>> THEN 0 ELSE log[Len(log)]
<1>1. /\ h \in Seq(SeqNumbers) /\ log \in Seq(Nat) /\ inReliableSeq[ch] \in Nat
      /\ inUnreliableSeq[ch] \in Nat /\ p \in Nat
  BY LenProperties DEF TypeOK
<1>2. delivered'[ch] = Append(log, p)
  BY DEF TypeOK
<1>3. \A i, j \in 1 .. Len(delivered'[ch]) : i < j => delivered'[ch][i] < delivered'[ch][j]
  BY DEF OrderInv, DeliveredInOrder, InOrder
<1>4. ASSUME NEW i \in 1 .. Len(log) PROVE log[i] < p
  <2>1. /\ Len(log) \in Nat /\ Len(Append(log, p)) = Len(log) + 1
        /\ Append(log, p)[i] = log[i] /\ Append(log, p)[Len(log) + 1] = p
    BY <1>1, LogAppend
  <2>2. i \in 1 .. Len(log) + 1 /\ Len(log) + 1 \in 1 .. Len(log) + 1 /\ i < Len(log) + 1
    BY <2>1
  <2> QED BY <1>2, <1>3, <2>1, <2>2
<1>5. InOrder(h, log, inReliableSeq[ch], inUnreliableSeq[ch], inUnreliable[ch])
  BY DEF OrderInv, DeliveredInOrder
<1>6. p \in (cursor + 1) .. Len(h) /\ \A k \in (cursor + 1) .. (p - 1) : h[k].unrel # 0
  BY <1>1, <1>4, <1>5, NextInOrder
<1> DEFINE flags == [d \in Channels |-> [n \in 1 .. Len(sent[d]) |-> sent[d][n].unrel = 0]]
<1>7. flags[ch] = [n \in 1 .. Len(h) |-> h[n].unrel = 0]
  OBVIOUS
<1>8. Len(flags[ch]) = Len(h)
  <2>1. Len(h) \in Nat
    BY <1>1, LenProperties
  <2> QED BY <1>7, <2>1
<1>9. \A k \in 1 .. Len(h) : flags[ch][k] = (h[k].unrel = 0)
  BY <1>7, Zenon
<1>10. \A k \in (cursor + 1) .. (p - 1) : ~flags[ch][k]
  <2>1. ASSUME NEW k \in (cursor + 1) .. (p - 1) PROVE k \in 1 .. Len(h)
    <3>1. Len(h) \in Nat /\ cursor \in Nat
      BY <1>1, LenProperties, ElementOfSeq, EmptySeq
    <3> QED BY <1>1, <1>6, <3>1
  <2> QED BY <1>6, <1>9, <2>1, Zenon
<1>11. UNCHANGED flags /\ UNCHANGED (~connected)
  OBVIOUS
<1> QED
  BY <1>1, <1>6, <1>8, <1>10, <1>11 DEF Order!Deliver, Order!Cursor

\* A send maps to the abstract acceptance of a packet of the same kind.
LEMMA AcceptStep ==
    ASSUME TypeOK, NEW ch \in Channels, NEW e \in SeqNumbers, NEW flag \in BOOLEAN,
           flag = (e.unrel = 0), connected,
           sent' = [sent EXCEPT ![ch] = Append(@, e)], UNCHANGED <<connected, delivered>>
    PROVE  Order!Accept(ch, flag)
<1> DEFINE flags == [d \in Channels |-> [n \in 1 .. Len(sent[d]) |-> sent[d][n].unrel = 0]]
<1>1. sent \in [Channels -> Seq(SeqNumbers)] /\ sent[ch] \in Seq(SeqNumbers)
  BY DEF TypeOK
<1>2. Flags(Append(sent[ch], e)) = Append(Flags(sent[ch]), flag)
  BY <1>1, FlagsAppend
<1>3. flags = [d \in Channels |-> Flags(sent[d])]
  BY DEF Flags
<1>4. flags' = [d \in Channels |-> Flags(sent'[d])]
  BY DEF Flags
<1>5. \A d \in Channels : sent'[d] = IF d = ch THEN Append(sent[ch], e) ELSE sent[d]
  BY <1>1
<1> HIDE DEF flags
<1>6. flags' = [flags EXCEPT ![ch] = Append(@, flag)]
  <2>1. \A d \in Channels : flags'[d] = IF d = ch THEN Append(Flags(sent[ch]), flag) ELSE Flags(sent[d])
    <3> TAKE d \in Channels
    <3>1. flags'[d] = Flags(sent'[d])
      BY <1>4, Zenon
    <3>2. CASE d = ch
      BY <1>2, <1>5, <3>1, <3>2, Zenon
    <3>3. CASE d # ch
      BY <1>5, <3>1, <3>3, Zenon
    <3> QED BY <3>2, <3>3, Zenon
  <2>2. \A d \in Channels : flags[d] = Flags(sent[d])
    BY <1>3, Zenon
  <2> QED BY <1>3, <1>4, <2>1, <2>2
<1> QED BY <1>6, Zenon DEF Order!Accept, flags

\* The connection keeps the contract of ChannelOrder: every send is an
\* acceptance, every dispatch is a legal delivery, giving the peer up is the
\* only way it breaks, and nothing else is visible.
THEOREM ImplementsOrder == Spec => KeepsOrder
<1>1. Init => Order!COInit
  <2> SUFFICES ASSUME Init PROVE Order!COInit
    OBVIOUS
  <2>1. \A ch \in Channels : [n \in 1 .. Len(sent[ch]) |-> sent[ch][n].unrel = 0] = <<>>
    BY DEF Init
  <2> QED BY <2>1 DEF Init, Order!COInit
<1>2. TypeOK /\ OrderInv /\ OrderInv' /\ [Next]_vars => [Order!CONext]_(Order!coVars)
  <2> SUFFICES ASSUME TypeOK, OrderInv, OrderInv', [Next]_vars
               PROVE  Order!CONext \/ UNCHANGED Order!coVars
    OBVIOUS
  <2>1. CASE UNCHANGED <<sent, connected, delivered>>
    BY <2>1 DEF Order!coVars
  <2>2. ASSUME NEW ch \in Channels, NEW len \in Lengths, SendReliable(ch, len) PROVE Order!CONext
    <3>1. PICK e \in SeqNumbers : e = [rel |-> outReliableSeq[ch] + 1, unrel |-> 0]
      <4>1. outReliableSeq[ch] + 1 \in Nat
        BY DEF TypeOK
      <4> QED BY <4>1 DEF SeqNumbers
    <3>2. TRUE = (e.unrel = 0)
      BY <3>1
    <3>3. /\ sent' = [sent EXCEPT ![ch] = Append(@, e)] /\ connected
          /\ UNCHANGED <<connected, delivered>>
      BY <2>2, <3>1 DEF SendReliable, receiverVars
    <3>4. Order!Accept(ch, TRUE)
      BY <3>2, <3>3, AcceptStep
    <3> QED BY <3>4 DEF Order!CONext
  <2>3. ASSUME NEW ch \in Channels, NEW len \in Lengths, SendUnreliable(ch, len) PROVE Order!CONext
    <3>1. PICK e \in SeqNumbers : e = [rel |-> outReliableSeq[ch], unrel |-> outUnreliableSeq[ch] + 1]
      <4>1. outReliableSeq[ch] \in Nat /\ outUnreliableSeq[ch] + 1 \in Nat
        BY DEF TypeOK
      <4> QED BY <4>1 DEF SeqNumbers
    <3>2. FALSE = (e.unrel = 0)
      <4>1. e.unrel = outUnreliableSeq[ch] + 1 /\ outUnreliableSeq[ch] \in Nat
        BY <3>1 DEF TypeOK
      <4>2. ~(e.unrel = 0)
        BY <4>1
      <4> QED BY <4>2
    <3>3. /\ sent' = [sent EXCEPT ![ch] = Append(@, e)] /\ connected
          /\ UNCHANGED <<connected, delivered>>
      BY <2>3, <3>1 DEF SendUnreliable, receiverVars
    <3>4. Order!Accept(ch, FALSE)
      BY <3>2, <3>3, AcceptStep
    <3> QED BY <3>4 DEF Order!CONext
  <2>4. ASSUME NEW ch \in Channels, NEW p \in 1 .. Len(sent[ch]), Order!Deliver(ch, p)
        PROVE  Order!CONext
    <3>1. Len([n \in 1 .. Len(sent[ch]) |-> sent[ch][n].unrel = 0]) = Len(sent[ch])
      BY LenProperties DEF TypeOK
    <3> QED BY <2>4, <3>1 DEF Order!CONext
  <2>5. ASSUME NEW ch \in Channels, DispatchUnreliable(ch) PROVE Order!CONext
    <3>1. PICK u \in NextUnreliable(ch) : delivered' = [delivered EXCEPT ![ch] = Append(@, u.packet)]
      BY <2>5 DEF DispatchUnreliable
    <3>2. UNCHANGED <<sent, connected>>
      BY <2>5 DEF DispatchUnreliable, senderVars
    <3>3. Carries(ch, u) /\ u.rel <= inReliableSeq[ch] /\ u \in Incoming
      BY DEF NextUnreliable, OrderInv, CommandsCarryNumbers, TypeOK
    <3>4. /\ u.packet \in 1 .. Len(sent[ch]) /\ sent[ch][u.packet].rel <= inReliableSeq[ch]
      BY <3>3 DEF Carries
    <3>5. ASSUME NEW k \in 1 .. Len(sent[ch]), k < u.packet
          PROVE  sent[ch][k].rel <= inReliableSeq[ch]
      <4>1. /\ sent[ch] \in Seq(SeqNumbers) /\ outReliableSeq[ch] \in Nat
            /\ outUnreliableSeq[ch] \in Nat /\ inReliableSeq[ch] \in Nat
            /\ Growing(sent[ch], outReliableSeq[ch], outUnreliableSeq[ch])
        BY DEF TypeOK, OrderInv, NumbersGrow
      <4>2. /\ sent[ch][k].rel \in Nat /\ sent[ch][u.packet].rel \in Nat
            /\ sent[ch][k].rel <= sent[ch][u.packet].rel
        BY <3>4, <3>5, <4>1, GrowingFacts
      <4> QED BY <3>4, <4>1, <4>2
    <3>6. Order!Deliver(ch, u.packet)
      BY <3>1, <3>2, <3>4, <3>5, DeliverStep
    <3> QED BY <2>4, <3>4, <3>6
  <2>6. ASSUME NEW ch \in Channels, DispatchReliable(ch) PROVE Order!CONext
    <3>1. PICK r \in NextReliable(ch) : delivered' = [delivered EXCEPT ![ch] = Append(@, r.packet)]
      BY <2>6 DEF DispatchReliable
    <3>2. UNCHANGED <<sent, connected>>
      BY <2>6 DEF DispatchReliable, senderVars
    <3>3. Carries(ch, r) /\ r.unrel = 0 /\ r.rel = inReliableSeq[ch] + 1
      BY DEF NextReliable, OrderInv, CommandsCarryNumbers
    <3>4. /\ r.packet \in 1 .. Len(sent[ch])
          /\ sent[ch][r.packet].rel = inReliableSeq[ch] + 1 /\ sent[ch][r.packet].unrel = 0
      BY <3>3 DEF Carries
    <3>5. ASSUME NEW k \in 1 .. Len(sent[ch]), k < r.packet
          PROVE  sent[ch][k].rel <= inReliableSeq[ch]
      <4>1. /\ sent[ch] \in Seq(SeqNumbers) /\ outReliableSeq[ch] \in Nat
            /\ outUnreliableSeq[ch] \in Nat /\ inReliableSeq[ch] \in Nat
            /\ Growing(sent[ch], outReliableSeq[ch], outUnreliableSeq[ch])
        BY DEF TypeOK, OrderInv, NumbersGrow
      <4>2. /\ sent[ch][k].rel \in Nat
            /\ sent[ch][k].rel < sent[ch][r.packet].rel
        BY <3>4, <3>5, <4>1, GrowingFacts
      <4> QED BY <3>4, <4>1, <4>2
    <3>6. Order!Deliver(ch, r.packet)
      BY <3>1, <3>2, <3>4, <3>5, DeliverStep
    <3> QED BY <2>4, <3>4, <3>6
  <2>7. ASSUME NEW i \in 1 .. Len(sentReliable), CheckTimeout(i)
        PROVE  Order!CONext \/ UNCHANGED Order!coVars
    <3>1. UNCHANGED <<sent, delivered>>
      BY <2>7 DEF CheckTimeout, receiverVars
    <3>2. CASE ResetPeer
      <4>1. (~connected') = TRUE
        BY <3>2, Zenon DEF ResetPeer
      <4>2. Order!GiveUp
        BY <3>1, <4>1 DEF Order!GiveUp
      <4> QED BY <4>2 DEF Order!CONext
    <3>3. CASE ~ResetPeer
      <4>1. UNCHANGED connected
        BY <2>7, <3>3 DEF CheckTimeout
      <4> QED BY <2>1, <3>1, <4>1
    <3> QED BY <3>2, <3>3
  <2> QED
    BY <2>1, <2>2, <2>3, <2>5, <2>6, <2>7 DEF Next, TransmitReliable, TransmitUnreliable,
       HandleAcknowledge, HandleSendReliable, HandleSendUnreliable, SendAcknowledgements,
       DispatchNothing, vars, senderVars, receiverVars
<1> QED BY <1>1, <1>2, TypeCorrect, OrderCorrect, PTL DEF Spec, KeepsOrder, Order!COSpec

-----------------------------------------------------------------------------
\* Nothing reliable is lost before the peer is given up.

\* What the receiver has taken charge of stays so: a command leaves its list
\* only when it, or a later one, has been delivered.
LEMMA ReceivedStable ==
    ASSUME TypeOK, [Next]_vars, NEW ch \in Channels, NEW rel \in Nat, Received(ch, rel)
    PROVE  Received(ch, rel)'
<1>1. /\ inReliableSeq \in [Channels -> Nat] /\ inReliable \in [Channels -> SUBSET Incoming]
      /\ wire \in SUBSET Command
  BY DEF TypeOK
<1>2. CASE UNCHANGED <<inReliableSeq, inReliable>>
  BY <1>2 DEF Received
<1>3. ASSUME NEW c \in wire, HandleSendReliable(c) PROVE Received(ch, rel)'
  <2>1. inReliable[ch] \subseteq inReliable'[ch] /\ inReliableSeq' = inReliableSeq
    BY <1>1, <1>3 DEF HandleSendReliable
  <2> QED BY <2>1 DEF Received
<1>4. ASSUME inReliableSeq'[ch] \in Nat, inReliableSeq'[ch] >= inReliableSeq[ch],
             \A q \in inReliable[ch] : q \in inReliable'[ch] \/ q.rel <= inReliableSeq'[ch]
      PROVE  Received(ch, rel)'
  <2>1. CASE rel <= inReliableSeq[ch]
    <3>1. inReliableSeq[ch] \in Nat
      BY <1>1
    <3>2. rel <= inReliableSeq'[ch]
      BY <1>4, <2>1, <3>1
    <3> QED BY <3>2 DEF Received
  <2>2. CASE \E q \in inReliable[ch] : q.rel = rel
    BY <1>4, <2>2 DEF Received
  <2> QED BY <2>1, <2>2 DEF Received
<1>5. \A d \in Channels : \A q \in inReliable[d] : q.rel \in Nat /\ (q \in Fresh(d) \/ q.rel <= inReliableSeq[d])
  BY <1>1 DEF Fresh, Incoming
<1>6. ASSUME NEW d \in Channels, DispatchUnreliable(d) PROVE Received(ch, rel)'
  <2>1. inReliableSeq' = inReliableSeq /\ inReliable'[ch] \in {Fresh(ch), inReliable[ch]}
    BY <1>6 DEF DispatchUnreliable
  <2>2. inReliableSeq'[ch] \in Nat /\ inReliableSeq'[ch] >= inReliableSeq[ch]
    BY <1>1, <2>1
  <2> QED BY <1>4, <1>5, <2>1, <2>2
<1>7. ASSUME NEW d \in Channels, DispatchReliable(d) PROVE Received(ch, rel)'
  <2>1. PICK r \in NextReliable(d) :
            /\ inReliableSeq' = [inReliableSeq EXCEPT ![d] = r.rel]
            /\ inReliable' = [x \in Channels |->
                    CASE x < d -> Fresh(x)
                      [] x = d -> Fresh(x) \ {r}
                      [] OTHER  -> inReliable[x]]
    BY <1>7 DEF DispatchReliable
  <2>2. r.rel \in Nat /\ r.rel = inReliableSeq[d] + 1 /\ inReliableSeq[d] \in Nat
    BY <1>1 DEF NextReliable
  <2>3. inReliableSeq'[ch] = IF ch = d THEN r.rel ELSE inReliableSeq[ch]
    BY <1>1, <2>1
  <2>4. inReliableSeq'[ch] \in Nat /\ inReliableSeq'[ch] >= inReliableSeq[ch]
    BY <1>1, <2>2, <2>3
  <2>5. CASE ch = d
    <3>1. inReliable'[ch] = Fresh(ch) \ {r}
      BY <2>1, <2>5
    <3>2. \A q \in inReliable[ch] : q \in inReliable'[ch] \/ q = r \/ q.rel <= inReliableSeq[ch]
      BY <1>5, <3>1
    <3>3. inReliableSeq'[ch] = r.rel
      BY <2>3, <2>5
    <3>4. \A q \in inReliable[ch] : q \in inReliable'[ch] \/ q.rel <= inReliableSeq'[ch]
      BY <1>5, <2>2, <2>5, <3>2, <3>3
    <3> QED BY <1>4, <2>4, <3>4
  <2>6. CASE ch # d
    <3>1. inReliable'[ch] \in {Fresh(ch), inReliable[ch]}
      BY <2>1, <2>6
    <3>2. inReliableSeq'[ch] = inReliableSeq[ch]
      BY <2>3, <2>6
    <3> QED BY <1>4, <1>5, <2>4, <3>1, <3>2
  <2> QED BY <2>5, <2>6
<1>8. CASE DispatchNothing
  <2>1. inReliableSeq' = inReliableSeq /\ inReliable'[ch] = Fresh(ch)
    BY <1>8 DEF DispatchNothing
  <2>2. inReliableSeq'[ch] \in Nat /\ inReliableSeq'[ch] >= inReliableSeq[ch]
    BY <1>1, <2>1
  <2> QED BY <1>4, <1>5, <2>1, <2>2
<1> QED
  BY <1>2, <1>3, <1>6, <1>7, <1>8 DEF Next, SendReliable, SendUnreliable, TransmitReliable,
     TransmitUnreliable, CheckTimeout, HandleAcknowledge, HandleSendUnreliable,
     SendAcknowledgements, vars, senderVars, receiverVars

\* An acknowledgement is made only for a command that was put in the list.
LEMMA AcksTruthfulStep ==
    ASSUME TypeOK, AcksTruthful, [Next]_vars
    PROVE  AcksTruthful'
<1>1. acks \in Seq(Ack) /\ ackWire \in SUBSET Ack /\ wire \in SUBSET Command
      /\ inReliable \in [Channels -> SUBSET Incoming]
  BY DEF TypeOK
<1>2. ToSet(acks) \subseteq Ack
  BY <1>1, LenProperties, ElementOfSeq DEF ToSet
<1>3. \A a \in ackWire \cup ToSet(acks) : Received(a.ch, a.rel)'
  BY <1>1, <1>2, ReceivedStable DEF AcksTruthful, Ack
<1>4. CASE ackWire' \cup ToSet(acks') \subseteq ackWire \cup ToSet(acks)
  BY <1>3, <1>4 DEF AcksTruthful
<1>5. ASSUME NEW c \in wire, HandleSendReliable(c) PROVE AcksTruthful'
  <2>1. PICK a \in Ack : a = AckOf(c)
    BY <1>1 DEF AckOf, Ack, Command
  <2>2. acks' = Append(acks, a) /\ ackWire' = ackWire
    BY <1>5, <2>1 DEF HandleSendReliable
  <2>3. ToSet(acks') = ToSet(acks) \cup {a}
    BY <1>1, <2>2, ToSetFacts
  <2>4. a.ch = c.ch /\ a.rel = c.rel /\ c.ch \in Channels
    BY <1>1, <2>1 DEF AckOf, Command
  <2>5. \E q \in inReliable'[c.ch] : q.rel = c.rel
    <3>1. inReliable'[c.ch] = IF \E q \in inReliable[c.ch] : q.rel = c.rel
                              THEN inReliable[c.ch] ELSE inReliable[c.ch] \cup {Queued(c)}
      BY <1>1, <1>5, <2>4 DEF HandleSendReliable
    <3>2. Queued(c).rel = c.rel
      BY DEF Queued
    <3> QED BY <3>1, <3>2, Zenon
  <2>6. Received(a.ch, a.rel)'
    BY <2>4, <2>5 DEF Received
  <2> QED BY <1>3, <2>2, <2>3, <2>6 DEF AcksTruthful
<1>6. ASSUME NEW n \in 1 .. Len(acks), SendAcknowledgements(n) PROVE AcksTruthful'
  <2>1. Len(acks) \in Nat /\ n \in Nat /\ n <= Len(acks)
    BY <1>1, LenProperties
  <2>2. /\ ackWire' = ackWire \cup {acks[i] : i \in 1 .. n}
        /\ acks' = SubSeq(acks, n + 1, Len(acks))
    BY <1>6 DEF SendAcknowledgements
  <2>3. {acks[i] : i \in 1 .. n} \subseteq ToSet(acks)
    <3>1. \A i \in 1 .. n : i \in 1 .. Len(acks)
      BY <2>1
    <3> QED BY <3>1 DEF ToSet
  <2>4. ToSet(acks') \subseteq ToSet(acks)
    <3> DEFINE rest == SubSeq(acks, n + 1, Len(acks))
    <3>1. /\ Len(rest) = IF n + 1 <= Len(acks) THEN Len(acks) - (n + 1) + 1 ELSE 0
          /\ \A i \in 1 .. Len(acks) - (n + 1) + 1 : rest[i] = acks[n + 1 + i - 1]
      BY <1>1, <2>1, SubSeqProperties
    <3>2. \A i \in 1 .. Len(rest) : rest[i] = acks[n + i] /\ n + i \in 1 .. Len(acks)
      <4> HIDE DEF rest
      <4> QED BY <2>1, <3>1
    <3> HIDE DEF rest
    <3>3. ASSUME NEW x \in ToSet(rest) PROVE x \in ToSet(acks)
      BY <3>2 DEF ToSet
    <3> QED BY <2>2, <3>3 DEF rest
  <2> QED BY <1>4, <2>2, <2>3, <2>4
<1> QED
  BY <1>4, <1>5, <1>6 DEF Next, SendReliable, SendUnreliable, TransmitReliable,
     TransmitUnreliable, CheckTimeout, HandleAcknowledge, HandleSendUnreliable,
     DispatchUnreliable, DispatchReliable, DispatchNothing, vars, senderVars, receiverVars

\* No step makes the sender forget a packet the receiver does not have.
LEMMA NothingLostStep ==
    ASSUME TypeOK, AcksTruthful, NothingLost, [Next]_vars
    PROVE  NothingLost'
<1> DEFINE Waiting(ch, rel) == \E c \in Outstanding : c.ch = ch /\ c.rel = rel
<1>1. /\ outgoingReliable \in Seq(Outgoing) /\ sentReliable \in Seq(Outgoing)
      /\ outReliableSeq \in [Channels -> Nat] /\ ackWire \in SUBSET Ack
  BY DEF TypeOK
<1>2. SUFFICES ASSUME connected', NEW ch \in Channels, NEW rel \in 1 .. outReliableSeq'[ch]
               PROVE  Received(ch, rel)' \/ Waiting(ch, rel)'
  BY DEF NothingLost
<1>3. rel \in Nat
  OBVIOUS
<1>4. connected /\ rel \in 1 .. outReliableSeq[ch] => Received(ch, rel)' \/ Waiting(ch, rel)
  BY <1>3, ReceivedStable DEF NothingLost
<1> HIDE DEF Outstanding
<1>5. CASE /\ connected /\ outReliableSeq' = outReliableSeq
           /\ \A c \in Outstanding : \E d \in Outstanding' : d.ch = c.ch /\ d.rel = c.rel
  BY <1>4, <1>5
<1>6. CASE UNCHANGED <<connected, outReliableSeq, outgoingReliable, sentReliable>>
  BY <1>5, <1>2, <1>6 DEF Outstanding
<1>7. ASSUME NEW x \in Channels, NEW len \in Lengths, SendReliable(x, len)
      PROVE  Received(ch, rel)' \/ Waiting(ch, rel)'
  <2> DEFINE new == [ch |-> x, packet |-> Len(sent[x]) + 1, rel |-> outReliableSeq[x] + 1,
                     unrel |-> 0, len |-> len, timeout |-> 0]
  <2>0. new \in Outgoing
    BY LenProperties DEF Outgoing, TypeOK
  <2>1. PICK c \in Outgoing : c = new
    BY <2>0
  <2>2. /\ outgoingReliable' = Append(outgoingReliable, c) /\ sentReliable' = sentReliable
        /\ outReliableSeq' = [outReliableSeq EXCEPT ![x] = @ + 1] /\ connected
    BY <1>7, <2>1 DEF SendReliable
  <2>3. c.ch = x /\ c.rel = outReliableSeq[x] + 1
    BY <2>1
  <2> HIDE DEF new
  <2>4. ToSet(outgoingReliable') = ToSet(outgoingReliable) \cup {c}
    BY <1>1, <2>1, <2>2, ToSetFacts
  <2>5. Outstanding' = Outstanding \cup {c}
    BY <2>2, <2>4 DEF Outstanding
  <2>6. CASE rel \in 1 .. outReliableSeq[ch]
    BY <1>4, <2>2, <2>5, <2>6
  <2>7. CASE rel \notin 1 .. outReliableSeq[ch]
    <3>1. ch = x /\ rel = outReliableSeq[x] + 1
      BY <1>1, <2>2, <2>7
    <3> QED BY <2>3, <2>5, <3>1
  <2> QED BY <2>6, <2>7
<1>8. CASE TransmitReliable
  <2>1. outgoingReliable # <<>>
    BY <1>8 DEF TransmitReliable
  <2>2. PICK c \in Outgoing : c = Head(outgoingReliable)
    BY <1>1, <2>1, HeadTailProperties
  <2>3. PICK d \in Outgoing : d = [c EXCEPT !.timeout = IF @ = 0 THEN 1 ELSE @]
    BY OutgoingFacts
  <2>4. /\ outgoingReliable' = Tail(outgoingReliable) /\ sentReliable' = Append(sentReliable, d)
        /\ UNCHANGED <<connected, outReliableSeq>>
    BY <1>8, <2>2, <2>3 DEF TransmitReliable
  <2>5. /\ ToSet(outgoingReliable) = ToSet(outgoingReliable') \cup {c}
        /\ ToSet(sentReliable') = ToSet(sentReliable) \cup {d}
    BY <1>1, <2>1, <2>2, <2>4, ToSetFacts
  <2>6. d.ch = c.ch /\ d.rel = c.rel
    BY <2>3 DEF Outgoing
  <2>7. d \in Outstanding' /\ Outstanding \subseteq Outstanding' \cup {c}
    BY <2>5 DEF Outstanding
  <2> QED BY <1>2, <1>5, <2>4, <2>6, <2>7
<1>9. ASSUME NEW i \in 1 .. Len(sentReliable), CheckTimeout(i)
      PROVE  Received(ch, rel)' \/ Waiting(ch, rel)'
  <2>1. ~ResetPeer
    BY <1>2, Zenon DEF ResetPeer
  <2>2. PICK c \in Outgoing : c = sentReliable[i]
    BY <1>1, ElementOfSeq
  <2>3. PICK d \in Outgoing : d = [c EXCEPT !.timeout = 2 * @]
    BY OutgoingFacts
  <2>4. /\ sentReliable' = RemoveAt(sentReliable, i)
        /\ outgoingReliable' = <<d>> \o outgoingReliable
        /\ UNCHANGED <<connected, outReliableSeq>>
    BY <1>9, <2>1, <2>2, <2>3 DEF CheckTimeout, Requeue
  <2>5. /\ ToSet(sentReliable) = ToSet(sentReliable') \cup {c}
        /\ ToSet(outgoingReliable') = ToSet(outgoingReliable) \cup {d}
    BY <1>1, <2>2, <2>4, ToSetFacts
  <2>6. d.ch = c.ch /\ d.rel = c.rel
    BY <2>3 DEF Outgoing
  <2>7. d \in Outstanding' /\ Outstanding \subseteq Outstanding' \cup {c}
    BY <2>5 DEF Outstanding
  <2> QED BY <1>2, <1>5, <2>4, <2>6, <2>7
<1>10. ASSUME NEW a \in ackWire, HandleAcknowledge(a)
       PROVE  Received(ch, rel)' \/ Waiting(ch, rel)'
  <2>1. PICK i \in 1 .. Len(sentReliable) :
            AckOf(sentReliable[i]) = a /\ sentReliable' = RemoveAt(sentReliable, i)
    BY <1>10 DEF HandleAcknowledge, Acknowledged
  <2>2. PICK c \in Outgoing : c = sentReliable[i]
    BY <1>1, ElementOfSeq
  <2>3. UNCHANGED <<connected, outReliableSeq, outgoingReliable>>
    BY <1>10 DEF HandleAcknowledge
  <2>4. ToSet(sentReliable) = ToSet(sentReliable') \cup {c}
    BY <1>1, <2>1, <2>2, ToSetFacts
  <2>5. Outstanding \subseteq Outstanding' \cup {c}
    BY <2>3, <2>4 DEF Outstanding
  <2>6. c.ch = a.ch /\ c.rel = a.rel /\ a.ch \in Channels /\ a.rel \in Nat
    BY <1>1, <2>1, <2>2 DEF AckOf, Ack
  <2>7. Received(c.ch, c.rel)'
    BY <2>6, ReceivedStable DEF AcksTruthful
  <2>8. Received(ch, rel)' \/ Waiting(ch, rel)
    BY <1>2, <1>4, <2>3
  <2> QED BY <2>5, <2>7, <2>8
<1> HIDE DEF Waiting
<1> QED
  BY <1>6, <1>7, <1>8, <1>9, <1>10 DEF Next, SendUnreliable, TransmitUnreliable,
     HandleSendReliable, HandleSendUnreliable, SendAcknowledgements, DispatchUnreliable,
     DispatchReliable, DispatchNothing, vars, senderVars, receiverVars

\* Until it gives the peer up, the sender holds on to every reliable packet the
\* receiver does not have, and only to honest acknowledgements does it let go
\* (enet_protocol_handle_acknowledge, enet_protocol_check_timeouts).
THEOREM NothingIsLost == Spec => [](AcksTruthful /\ NothingLost)
<1>1. Init => AcksTruthful /\ NothingLost
  <2> SUFFICES ASSUME Init PROVE AcksTruthful /\ NothingLost
    OBVIOUS
  <2>1. ToSet(<<>>) = {}
    BY DEF ToSet
  <2>2. AcksTruthful
    BY <2>1 DEF Init, AcksTruthful
  <2>3. \A ch \in Channels : 1 .. outReliableSeq[ch] = {}
    BY DEF Init
  <2> QED BY <2>2, <2>3 DEF NothingLost
<1>2. TypeOK /\ AcksTruthful /\ NothingLost /\ [Next]_vars => (AcksTruthful /\ NothingLost)'
  BY AcksTruthfulStep, NothingLostStep
<1> QED BY <1>1, <1>2, TypeCorrect, PTL DEF Spec

\* No acknowledgement, queued or on its way, is about a packet that has not
\* arrived (enet_protocol_handle_send_reliable, enet_protocol_send_acknowledgements).
THEOREM AcksAreTruthful == Spec => []AcksTruthful
<1> QED BY NothingIsLost, PTL

-----------------------------------------------------------------------------
\* What is retransmitted goes first, and nothing is outstanding twice.

\* No two commands of a list are acknowledged alike, nor two of two lists.
Once(s) == \A i, j \in 1 .. Len(s) : AckOf(s[i]) = AckOf(s[j]) => i = j
Apart(s, t) == \A i \in 1 .. Len(s), j \in 1 .. Len(t) : AckOf(s[i]) # AckOf(t[j])

\* The commands that were never sent are at the end of the list.
NewLast(s) == \A i, j \in 1 .. Len(s) : i < j /\ s[i].timeout = 0 => s[j].timeout = 0

\* All commands of the list have been sent.
AllTimed(s) == \A i \in 1 .. Len(s) : s[i].timeout > 0

\* RetransmitFirst, with the reason for it: a command has a timeout as soon as
\* it is sent.
RetransmitInv ==
    /\ NewLast(outgoingReliable) /\ AllTimed(sentReliable)
    /\ Once(outgoingReliable) /\ Once(sentReliable)
    /\ Apart(outgoingReliable, sentReliable)

\* A timeout does not change what a command is.
LEMMA TimedFacts ==
    ASSUME NEW c \in Outgoing, NEW n \in Nat
    PROVE  /\ [c EXCEPT !.timeout = n] \in Outgoing
           /\ [c EXCEPT !.timeout = n].timeout = n
           /\ AckOf([c EXCEPT !.timeout = n]) = AckOf(c)
<1> DEFINE d == [c EXCEPT !.timeout = n]
<1>1. d \in Outgoing /\ d.timeout = n /\ d.ch = c.ch /\ d.rel = c.rel
  BY DEF Outgoing
<1> HIDE DEF d
<1>2. AckOf(d) = AckOf(c)
  BY <1>1 DEF AckOf
<1> QED BY <1>1, <1>2 DEF d

\* Taking the first command off a list.
LEMMA TailLists ==
    ASSUME NEW s \in Seq(Outgoing), s # <<>>, Once(s), NewLast(s)
    PROVE  /\ Once(Tail(s)) /\ NewLast(Tail(s))
           /\ \A j \in 1 .. Len(Tail(s)) : AckOf(Tail(s)[j]) # AckOf(Head(s))
           /\ \A t : Apart(s, t) => Apart(Tail(s), t)
           /\ \A t : Apart(s, t) => \A j \in 1 .. Len(t) : AckOf(Head(s)) # AckOf(t[j])
<1> DEFINE r == Tail(s)
<1>1. /\ Len(s) \in Nat \ {0} /\ Len(r) = Len(s) - 1 /\ Head(s) = s[1]
      /\ \A i \in 1 .. Len(r) : r[i] = s[i + 1]
  BY HeadTailProperties, EmptySeq
<1> HIDE DEF r
<1>2. 1 \in 1 .. Len(s) /\ \A i \in 1 .. Len(r) : i \in Int /\ i + 1 \in 1 .. Len(s) /\ i + 1 # 1
  BY <1>1
<1>3. Once(r)
  BY <1>1, <1>2 DEF Once
<1>4. NewLast(r)
  BY <1>1, <1>2 DEF NewLast
<1>5. \A j \in 1 .. Len(r) : AckOf(r[j]) # AckOf(Head(s))
  BY <1>1, <1>2 DEF Once
<1>6. ASSUME NEW t, Apart(s, t)
      PROVE  Apart(r, t) /\ \A j \in 1 .. Len(t) : AckOf(Head(s)) # AckOf(t[j])
  BY <1>1, <1>2, <1>6 DEF Apart
<1> QED BY <1>3, <1>4, <1>5, <1>6 DEF r

\* A command joins the end of a list it is not in.
LEMMA AppendLists ==
    ASSUME NEW s \in Seq(Outgoing), NEW c \in Outgoing, Once(s),
           \A i \in 1 .. Len(s) : AckOf(s[i]) # AckOf(c)
    PROVE  /\ Once(Append(s, c))
           /\ c.timeout = 0 /\ NewLast(s) => NewLast(Append(s, c))
           /\ c.timeout > 0 /\ AllTimed(s) => AllTimed(Append(s, c))
           /\ \A t : Apart(s, t) /\ (\A j \in 1 .. Len(t) : AckOf(c) # AckOf(t[j]))
                        => Apart(Append(s, c), t)
           /\ \A t : Apart(t, s) /\ (\A j \in 1 .. Len(t) : AckOf(t[j]) # AckOf(c))
                        => Apart(t, Append(s, c))
<1> DEFINE r == Append(s, c)
<1>1. /\ Len(s) \in Nat /\ Len(r) = Len(s) + 1 /\ r[Len(s) + 1] = c
      /\ \A i \in 1 .. Len(s) : r[i] = s[i]
  BY AppendProperties, LenProperties
<1> HIDE DEF r
<1>2. \A i \in 1 .. Len(r) : i \in 1 .. Len(s) \/ i = Len(s) + 1
  BY <1>1
<1>3. Once(r)
  BY <1>1, <1>2 DEF Once
<1>4. c.timeout = 0 /\ NewLast(s) => NewLast(r)
  BY <1>1, <1>2 DEF NewLast
<1>5. c.timeout > 0 /\ AllTimed(s) => AllTimed(r)
  BY <1>1, <1>2 DEF AllTimed
<1>6. ASSUME NEW t, Apart(s, t), \A j \in 1 .. Len(t) : AckOf(c) # AckOf(t[j])
      PROVE  Apart(r, t)
  BY <1>1, <1>2, <1>6 DEF Apart
<1>7. ASSUME NEW t, Apart(t, s), \A j \in 1 .. Len(t) : AckOf(t[j]) # AckOf(c)
      PROVE  Apart(t, r)
  BY <1>1, <1>2, <1>7 DEF Apart
<1> QED BY <1>3, <1>4, <1>5, <1>6, <1>7 DEF r

\* A command that has been sent is put in front of a list it is not in.
LEMMA PrependLists ==
    ASSUME NEW s \in Seq(Outgoing), NEW c \in Outgoing, Once(s), NewLast(s), c.timeout > 0,
           \A i \in 1 .. Len(s) : AckOf(s[i]) # AckOf(c)
    PROVE  /\ Once(<<c>> \o s) /\ NewLast(<<c>> \o s)
           /\ \A t : Apart(s, t) /\ (\A j \in 1 .. Len(t) : AckOf(c) # AckOf(t[j]))
                        => Apart(<<c>> \o s, t)
<1> DEFINE r == <<c>> \o s
<1>1. /\ Len(s) \in Nat /\ Len(r) = Len(s) + 1 /\ r[1] = c
      /\ \A i \in 1 .. Len(s) : r[i + 1] = s[i]
  <2>1. <<c>> \in Seq(Outgoing) /\ Len(<<c>>) = 1 /\ <<c>>[1] = c
    OBVIOUS
  <2>2. /\ Len(r) = 1 + Len(s) /\ Len(s) \in Nat
        /\ \A i \in 1 .. 1 + Len(s) : r[i] = IF i <= 1 THEN <<c>>[i] ELSE s[i - 1]
    BY <2>1, ConcatProperties, LenProperties
  <2> HIDE DEF r
  <2> QED BY <2>1, <2>2
<1> HIDE DEF r
<1>2. \A i \in 1 .. Len(r) : i = 1 \/ (i - 1 \in 1 .. Len(s) /\ r[i] = s[i - 1] /\ i > 1)
  <2>1. ASSUME NEW i \in 1 .. Len(r), i # 1
        PROVE  i - 1 \in 1 .. Len(s) /\ r[i] = s[i - 1] /\ i > 1
    <3>1. i - 1 \in 1 .. Len(s) /\ i - 1 + 1 = i /\ i > 1
      BY <1>1, <2>1
    <3>2. r[i - 1 + 1] = s[i - 1]
      BY <1>1, <3>1
    <3> QED BY <3>1, <3>2
  <2> QED BY <2>1
<1>3. Once(r)
  <2> SUFFICES ASSUME NEW i \in 1 .. Len(r), NEW j \in 1 .. Len(r), AckOf(r[i]) = AckOf(r[j])
               PROVE  i = j
    BY DEF Once
  <2>1. CASE i = 1 \/ j = 1
    BY <1>1, <1>2, <2>1
  <2>2. CASE i # 1 /\ j # 1
    <3>1. i - 1 \in 1 .. Len(s) /\ j - 1 \in 1 .. Len(s) /\ AckOf(s[i - 1]) = AckOf(s[j - 1])
      BY <1>2, <2>2
    <3>2. i - 1 = j - 1
      BY <3>1 DEF Once
    <3> QED BY <3>2
  <2> QED BY <2>1, <2>2
<1>4. NewLast(r)
  <2> SUFFICES ASSUME NEW i \in 1 .. Len(r), NEW j \in 1 .. Len(r), i < j, r[i].timeout = 0
               PROVE  r[j].timeout = 0
    BY DEF NewLast
  <2>1. i # 1 /\ j # 1
    BY <1>1
  <2>2. i - 1 \in 1 .. Len(s) /\ j - 1 \in 1 .. Len(s) /\ i - 1 < j - 1
    BY <1>2, <2>1
  <2> QED BY <1>2, <2>1, <2>2 DEF NewLast
<1>5. ASSUME NEW t, Apart(s, t), \A j \in 1 .. Len(t) : AckOf(c) # AckOf(t[j])
      PROVE  Apart(r, t)
  BY <1>1, <1>2, <1>5 DEF Apart
<1> QED BY <1>3, <1>4, <1>5 DEF r

\* A command leaves a list.
LEMMA RemoveLists ==
    ASSUME NEW s \in Seq(Outgoing), NEW i \in 1 .. Len(s), Once(s), AllTimed(s)
    PROVE  /\ Once(RemoveAt(s, i)) /\ AllTimed(RemoveAt(s, i))
           /\ \A j \in 1 .. Len(RemoveAt(s, i)) : AckOf(RemoveAt(s, i)[j]) # AckOf(s[i])
           /\ \A t : Apart(t, s) => Apart(t, RemoveAt(s, i))
<1> DEFINE r == RemoveAt(s, i)
           From(j) == IF j < i THEN j ELSE j + 1
<1>1. /\ Len(s) \in Nat /\ Len(r) = Len(s) - 1
      /\ \A j \in 1 .. (Len(s) - 1) : r[j] = IF j < i THEN s[j] ELSE s[j + 1]
  BY RemoveAtFacts, LenProperties
<1> HIDE DEF r
<1>2. \A j \in 1 .. Len(r) : r[j] = s[From(j)] /\ From(j) \in 1 .. Len(s) /\ From(j) # i
  BY <1>1
<1>3. \A j, k \in 1 .. Len(r) : From(j) = From(k) => j = k
  BY <1>1
<1> HIDE DEF From
<1>4. Once(r)
  BY <1>2, <1>3 DEF Once
<1>5. AllTimed(r)
  BY <1>2 DEF AllTimed
<1>6. \A j \in 1 .. Len(r) : AckOf(r[j]) # AckOf(s[i])
  BY <1>2 DEF Once
<1>7. \A t : Apart(t, s) => Apart(t, r)
  BY <1>2 DEF Apart
<1> QED BY <1>4, <1>5, <1>6, <1>7 DEF r

\* An outstanding command is none that is still to be numbered.
LEMMA OutstandingNumbered ==
    ASSUME TypeOK, OrderInv, NEW ch \in Channels
    PROVE  /\ \A i \in 1 .. Len(outgoingReliable) :
                 AckOf(outgoingReliable[i]) # [ch |-> ch, rel |-> outReliableSeq[ch] + 1]
           /\ \A i \in 1 .. Len(sentReliable) :
                 AckOf(sentReliable[i]) # [ch |-> ch, rel |-> outReliableSeq[ch] + 1]
<1>1. /\ outgoingReliable \in Seq(Outgoing) /\ sentReliable \in Seq(Outgoing)
      /\ outReliableSeq \in [Channels -> Nat] /\ sent \in [Channels -> Seq(SeqNumbers)]
  BY DEF TypeOK
<1>2. ASSUME NEW c \in Outgoing, c \in ToSet(outgoingReliable) \cup ToSet(sentReliable)
      PROVE  AckOf(c) # [ch |-> ch, rel |-> outReliableSeq[ch] + 1]
  <2>1. c.ch \in Channels /\ c.rel \in Nat /\ Carries(c.ch, c)
    BY <1>2, OutgoingFacts DEF OrderInv, CommandsCarryNumbers
  <2>2. c.packet \in 1 .. Len(sent[c.ch]) /\ sent[c.ch][c.packet].rel = c.rel
    BY <2>1 DEF Carries
  <2>3. c.rel <= outReliableSeq[c.ch]
    BY <2>1, <2>2 DEF OrderInv, NumbersGrow, Growing
  <2>4. c.ch = ch => c.rel # outReliableSeq[ch] + 1
    BY <1>1, <2>1, <2>3
  <2> QED BY <2>4 DEF AckOf
<1>3. ASSUME NEW s \in Seq(Outgoing), NEW i \in 1 .. Len(s)
      PROVE  s[i] \in Outgoing /\ s[i] \in ToSet(s)
  BY ElementOfSeq, ToSetFacts
<1> QED BY <1>1, <1>2, <1>3

\* Every step keeps the outstanding commands apart and the new ones last.
LEMMA RetransmitStep ==
    ASSUME TypeOK, OrderInv, RetransmitInv, [Next]_vars
    PROVE  RetransmitInv'
<1>1. outgoingReliable \in Seq(Outgoing) /\ sentReliable \in Seq(Outgoing)
  BY DEF TypeOK
<1>2. /\ NewLast(outgoingReliable) /\ AllTimed(sentReliable)
      /\ Once(outgoingReliable) /\ Once(sentReliable) /\ Apart(outgoingReliable, sentReliable)
  BY DEF RetransmitInv
<1>3. CASE UNCHANGED <<outgoingReliable, sentReliable>>
  BY <1>3 DEF RetransmitInv, NewLast, AllTimed, Once, Apart
<1>4. ASSUME NEW ch \in Channels, NEW len \in Lengths, SendReliable(ch, len)
      PROVE  RetransmitInv'
  <2> DEFINE new == [ch |-> ch, packet |-> Len(sent[ch]) + 1, rel |-> outReliableSeq[ch] + 1,
                     unrel |-> 0, len |-> len, timeout |-> 0]
  <2>1. new \in Outgoing
    BY LenProperties DEF Outgoing, TypeOK
  <2>2. PICK c \in Outgoing : c = new
    BY <2>1
  <2>3. outgoingReliable' = Append(outgoingReliable, c) /\ sentReliable' = sentReliable
    BY <1>4, <2>2 DEF SendReliable
  <2>4. c.timeout = 0 /\ AckOf(c) = [ch |-> ch, rel |-> outReliableSeq[ch] + 1]
    BY <2>2 DEF AckOf
  <2> HIDE DEF new
  <2>5. /\ \A i \in 1 .. Len(outgoingReliable) : AckOf(outgoingReliable[i]) # AckOf(c)
        /\ \A i \in 1 .. Len(sentReliable) : AckOf(c) # AckOf(sentReliable[i])
    BY <2>4, OutstandingNumbered
  <2>6. /\ Once(Append(outgoingReliable, c)) /\ NewLast(Append(outgoingReliable, c))
        /\ Apart(Append(outgoingReliable, c), sentReliable)
    BY <1>1, <1>2, <2>4, <2>5, AppendLists
  <2> QED BY <1>2, <2>3, <2>6 DEF RetransmitInv
<1>5. CASE TransmitReliable
  <2>1. outgoingReliable # <<>>
    BY <1>5 DEF TransmitReliable
  <2>2. PICK c \in Outgoing : c = Head(outgoingReliable)
    BY <1>1, <2>1, HeadTailProperties
  <2> DEFINE n == IF c.timeout = 0 THEN 1 ELSE c.timeout
  <2>3. n \in Nat /\ n > 0
    <3>1. c.timeout \in Nat
      BY OutgoingFacts
    <3> QED BY <3>1
  <2>4. PICK d \in Outgoing : d = [c EXCEPT !.timeout = n]
    BY <2>3, TimedFacts
  <2>5. outgoingReliable' = Tail(outgoingReliable) /\ sentReliable' = Append(sentReliable, d)
    BY <1>5, <2>2, <2>4 DEF TransmitReliable
  <2> HIDE DEF n
  <2>6. d.timeout > 0 /\ AckOf(d) = AckOf(c)
    BY <2>3, <2>4, TimedFacts
  <2> DEFINE out == Tail(outgoingReliable)
  <2>7. /\ Once(out) /\ NewLast(out) /\ Apart(out, sentReliable) /\ out \in Seq(Outgoing)
        /\ \A j \in 1 .. Len(out) : AckOf(out[j]) # AckOf(c)
        /\ \A j \in 1 .. Len(sentReliable) : AckOf(c) # AckOf(sentReliable[j])
    BY <1>1, <1>2, <2>1, <2>2, TailLists, HeadTailProperties
  <2> HIDE DEF out
  <2>8. /\ Once(Append(sentReliable, d)) /\ AllTimed(Append(sentReliable, d))
        /\ Apart(out, Append(sentReliable, d))
    BY <1>1, <1>2, <2>6, <2>7, AppendLists
  <2> QED BY <2>5, <2>7, <2>8 DEF RetransmitInv, out
<1>6. ASSUME NEW i \in 1 .. Len(sentReliable), CheckTimeout(i)
      PROVE  RetransmitInv'
  <2>1. CASE ResetPeer
    <3>1. outgoingReliable' = <<>> /\ sentReliable' = <<>>
      BY <2>1, Zenon DEF ResetPeer
    <3>2. \A k : k \notin 1 .. Len(<<>>)
      BY EmptySeq
    <3> QED BY <3>1, <3>2 DEF RetransmitInv, NewLast, AllTimed, Once, Apart
  <2>2. CASE ~ResetPeer
    <3>1. PICK c \in Outgoing : c = sentReliable[i]
      BY <1>1, ElementOfSeq
    <3>2. c.timeout \in Nat /\ c.timeout > 0 /\ 2 * c.timeout \in Nat /\ 2 * c.timeout > 0
      <4>1. c.timeout \in Nat /\ c.timeout > 0
        BY <1>2, <3>1, OutgoingFacts DEF AllTimed
      <4> QED BY <4>1
    <3>3. PICK d \in Outgoing : d = [c EXCEPT !.timeout = 2 * c.timeout]
      BY <3>2, TimedFacts
    <3>4. /\ sentReliable' = RemoveAt(sentReliable, i)
          /\ outgoingReliable' = <<d>> \o outgoingReliable
      BY <1>6, <2>2, <3>1, <3>3 DEF CheckTimeout, Requeue
    <3>5. d.timeout > 0 /\ AckOf(d) = AckOf(c)
      BY <3>2, <3>3, TimedFacts
    <3> DEFINE rest == RemoveAt(sentReliable, i)
    <3>6. /\ Once(rest) /\ AllTimed(rest) /\ Apart(outgoingReliable, rest)
          /\ \A j \in 1 .. Len(rest) : AckOf(rest[j]) # AckOf(c)
      BY <1>1, <1>2, <3>1, RemoveLists
    <3> HIDE DEF rest
    <3>7. \A j \in 1 .. Len(outgoingReliable) : AckOf(outgoingReliable[j]) # AckOf(c)
      BY <1>2, <3>1 DEF Apart
    <3>8. /\ Once(<<d>> \o outgoingReliable) /\ NewLast(<<d>> \o outgoingReliable)
          /\ Apart(<<d>> \o outgoingReliable, rest)
      BY <1>1, <1>2, <3>5, <3>6, <3>7, PrependLists
    <3> QED BY <3>4, <3>6, <3>8 DEF RetransmitInv, rest
  <2> QED BY <2>1, <2>2
<1>7. ASSUME NEW a \in ackWire, HandleAcknowledge(a)
      PROVE  RetransmitInv'
  <2>1. PICK i \in 1 .. Len(sentReliable) : sentReliable' = RemoveAt(sentReliable, i)
    BY <1>7 DEF HandleAcknowledge, Acknowledged
  <2>2. outgoingReliable' = outgoingReliable
    BY <1>7 DEF HandleAcknowledge
  <2>3. /\ Once(sentReliable') /\ AllTimed(sentReliable') /\ Apart(outgoingReliable, sentReliable')
    BY <1>1, <1>2, <2>1, RemoveLists
  <2> QED BY <1>2, <2>2, <2>3 DEF RetransmitInv
<1> QED
  BY <1>3, <1>4, <1>5, <1>6, <1>7 DEF Next, SendUnreliable, TransmitUnreliable,
     HandleSendReliable, HandleSendUnreliable, SendAcknowledgements, DispatchUnreliable,
     DispatchReliable, DispatchNothing, vars, senderVars, receiverVars

\* A retransmission goes out before any packet that was never sent, and no
\* reliable packet is outstanding twice (enet_protocol_check_timeouts puts the
\* command in front, enet_protocol_send_reliable_outgoing_commands moves it).
THEOREM RetransmitsComeFirst == Spec => []RetransmitFirst
<1>1. Init => RetransmitInv
  <2>1. \A k : k \notin 1 .. Len(<<>>)
    BY EmptySeq
  <2> QED BY <2>1 DEF Init, RetransmitInv, NewLast, AllTimed, Once, Apart
<1>2. TypeOK /\ OrderInv /\ RetransmitInv /\ [Next]_vars => RetransmitInv'
  BY RetransmitStep
<1>3. TypeOK /\ RetransmitInv => RetransmitFirst
  <2> SUFFICES ASSUME TypeOK, RetransmitInv PROVE RetransmitFirst
    OBVIOUS
  <2> DEFINE out == outgoingReliable
             all == outgoingReliable \o sentReliable
  <2>1. /\ Len(out) \in Nat /\ Len(sentReliable) \in Nat /\ Len(all) = Len(out) + Len(sentReliable)
        /\ \A i \in 1 .. Len(out) + Len(sentReliable) :
              all[i] = IF i <= Len(out) THEN out[i] ELSE sentReliable[i - Len(out)]
    BY ConcatProperties, LenProperties DEF TypeOK
  <2>2. /\ NewLast(out) /\ Once(out) /\ Once(sentReliable) /\ Apart(out, sentReliable)
    BY DEF RetransmitInv
  <2> HIDE DEF all
  <2>3. \A i \in 1 .. Len(all) :
           \/ i \in 1 .. Len(out) /\ all[i] = out[i]
           \/ i - Len(out) \in 1 .. Len(sentReliable) /\ all[i] = sentReliable[i - Len(out)]
    BY <2>1
  <2>4. ASSUME NEW i \in 1 .. Len(all), NEW j \in 1 .. Len(all), AckOf(all[i]) = AckOf(all[j])
        PROVE  i = j
    <3>1. CASE i \in 1 .. Len(out) /\ all[i] = out[i]
      BY <2>1, <2>2, <2>3, <2>4, <3>1 DEF Once, Apart
    <3>2. CASE i - Len(out) \in 1 .. Len(sentReliable) /\ all[i] = sentReliable[i - Len(out)]
      <4>1. CASE j \in 1 .. Len(out) /\ all[j] = out[j]
        BY <2>2, <2>4, <3>2, <4>1 DEF Apart
      <4>2. CASE j - Len(out) \in 1 .. Len(sentReliable) /\ all[j] = sentReliable[j - Len(out)]
        <5>1. i - Len(out) = j - Len(out)
          BY <2>2, <2>4, <3>2, <4>2 DEF Once
        <5> QED BY <2>1, <5>1
      <4> QED BY <2>3, <4>1, <4>2
    <3> QED BY <2>3, <3>1, <3>2
  <2>5. \A i, j \in 1 .. Len(out) : i < j /\ out[i].timeout = 0 => out[j].timeout = 0
    BY <2>2 DEF NewLast
  <2> QED BY <2>4, <2>5 DEF RetransmitFirst, all
<1> QED BY <1>1, <1>2, <1>3, TypeCorrect, OrderCorrect, PTL DEF Spec

-----------------------------------------------------------------------------
\* The flow-control account is exact.

\* The payload of a list of commands, as WindowExact counts it.
Payload(s) == FoldSeq(LAMBDA c, total : c.len + total, 0, s)

\* The terms of that sum.
Lens(s) == [i \in 1 .. Len(s) |-> s[i].len]

\* A payload is a sum over the places of the list, in any order.
LEMMA PayloadIsSum ==
    ASSUME NEW s \in Seq(Outgoing)
    PROVE  /\ \A i \in 1 .. Len(s) : Lens(s)[i] = s[i].len /\ s[i].len \in Nat
           /\ IsFiniteSet(1 .. Len(s))
           /\ \E g : SumOn(g, Lens(s), 1 .. Len(s)) /\ Payload(s) = g[1 .. Len(s)]
<1> DEFINE T == 1 .. Len(s)
           iter == CHOOSE g : g = [t \in SUBSET T |->
                      IF t = {} THEN 0
                      ELSE s[CHOOSE x \in t : TRUE].len + g[t \ {CHOOSE x \in t : TRUE}]]
<1>1. Len(s) \in Nat /\ DOMAIN s = T /\ \A i \in T : s[i] \in Outgoing
  BY LenProperties, ElementOfSeq
<1>2. IsFiniteSet(T) /\ \A i \in T : Lens(s)[i] = s[i].len /\ s[i].len \in Nat
  <2>1. IsFiniteSet(T)
    BY <1>1, FS_Interval
  <2>2. \A i \in T : s[i].len \in Nat
    BY <1>1, OutgoingFacts
  <2> QED BY <2>1, <2>2 DEF Lens
<1>3. Payload(s) = iter[T]
  BY <1>1 DEF Payload, FoldSeq, FoldFunction, FoldFunctionOnSet, MapThenFoldSet
<1>4. \A g : g = [t \in SUBSET T |->
                    IF t = {} THEN 0
                    ELSE s[CHOOSE x \in t : TRUE].len + g[t \ {CHOOSE x \in t : TRUE}]]
             <=> Sums(g, Lens(s), T)
  <2> TAKE g
  <2>1. ASSUME NEW t \in SUBSET T
        PROVE  (IF t = {} THEN 0
                ELSE s[CHOOSE x \in t : TRUE].len + g[t \ {CHOOSE x \in t : TRUE}])
               = (IF t = {} THEN 0 ELSE Lens(s)[Chosen(t)] + g[t \ {Chosen(t)}])
    <3>1. t # {} => Chosen(t) \in T
      BY DEF Chosen
    <3>2. t # {} => Lens(s)[Chosen(t)] = s[Chosen(t)].len
      BY <1>2, <3>1
    <3> QED BY <3>2 DEF Chosen
  <2> QED BY <2>1 DEF Sums
<1>5. \E g : Sums(g, Lens(s), T)
  BY <1>2, SumExists
<1>6. Sums(iter, Lens(s), T)
  <2>1. \E g : g = [t \in SUBSET T |->
                      IF t = {} THEN 0
                      ELSE s[CHOOSE x \in t : TRUE].len + g[t \ {CHOOSE x \in t : TRUE}]]
    <3>1. PICK g : Sums(g, Lens(s), T)
      BY <1>5
    <3>2. g = [t \in SUBSET T |->
                 IF t = {} THEN 0
                 ELSE s[CHOOSE x \in t : TRUE].len + g[t \ {CHOOSE x \in t : TRUE}]]
      <4> HIDE DEF T, iter
      <4> QED BY <1>4, <3>1, Zenon
    <3> HIDE DEF T, iter
    <3> QED BY <3>2, Zenon
  <2>2. iter = [t \in SUBSET T |->
                  IF t = {} THEN 0
                  ELSE s[CHOOSE x \in t : TRUE].len + iter[t \ {CHOOSE x \in t : TRUE}]]
    BY <2>1, Zenon
  <2> HIDE DEF iter
  <2> QED BY <1>4, <2>2
<1> HIDE DEF iter
<1>7. SumOn(iter, Lens(s), T)
  BY <1>2, <1>6, SumAnyOrder
<1> QED BY <1>2, <1>3, <1>7

\* Of a list that grows at the end, loses a command, or is empty.
LEMMA PayloadFacts ==
    ASSUME NEW s \in Seq(Outgoing)
    PROVE  /\ Payload(s) \in Nat
           /\ s = <<>> => Payload(s) = 0
           /\ \A c \in Outgoing : Payload(Append(s, c)) = Payload(s) + c.len
           /\ \A i \in 1 .. Len(s) : Payload(RemoveAt(s, i)) = Payload(s) - s[i].len
<1> DEFINE T == 1 .. Len(s)
<1>1. /\ Len(s) \in Nat /\ IsFiniteSet(T)
      /\ \A i \in T : Lens(s)[i] = s[i].len /\ s[i].len \in Nat
  BY PayloadIsSum, LenProperties
<1>2. PICK g : SumOn(g, Lens(s), T) /\ Payload(s) = g[T]
  BY PayloadIsSum
<1> HIDE DEF T
<1>3. Payload(s) \in Nat
  BY <1>1, <1>2, SumNatural
<1>4. ASSUME s = <<>> PROVE Payload(s) = 0
  <2>1. T = {}
    BY <1>4, EmptySeq DEF T
  <2> QED BY <1>2, <2>1 DEF SumOn
<1>5. ASSUME NEW c \in Outgoing PROVE Payload(Append(s, c)) = Payload(s) + c.len
  <2> DEFINE r == Append(s, c)
             n == Len(s) + 1
             R == 1 .. n
             f == [i \in T |-> i]
  <2>1. r \in Seq(Outgoing) /\ Len(r) = n /\ r[n] = c /\ \A i \in T : r[i] = s[i]
    BY AppendProperties DEF T
  <2> HIDE DEF r
  <2>2. /\ \A i \in R : Lens(r)[i] = r[i].len /\ r[i].len \in Nat
        /\ \E h : SumOn(h, Lens(r), R) /\ Payload(r) = h[R]
    BY <2>1, PayloadIsSum
  <2>3. PICK h : SumOn(h, Lens(r), R) /\ Payload(r) = h[R]
    BY <2>2
  <2>4. n \in R /\ R \ {n} = T /\ T \in SUBSET R
    BY <1>1 DEF T
  <2> HIDE DEF n, R
  <2>5. h[R] = Lens(r)[n] + h[T]
    BY <2>3, <2>4 DEF SumOn
  <2>6. g[T] = h[T]
    <3>1. f \in [T -> R] /\ \A x, y \in T : f[x] = f[y] => x = y
      BY <2>4
    <3>2. \A x \in T : Lens(s)[x] \in Int /\ Lens(s)[x] = Lens(r)[f[x]]
      BY <1>1, <2>1, <2>2, <2>4
    <3>3. {f[x] : x \in T} = T
      OBVIOUS
    <3> HIDE DEF f
    <3> QED BY <1>1, <1>2, <2>3, <3>1, <3>2, <3>3, SumImage
  <2>7. Lens(r)[n] = c.len /\ c.len \in Nat
    BY <2>1, <2>2, <2>4
  <2> QED BY <1>2, <1>3, <2>3, <2>5, <2>6, <2>7 DEF r
<1>6. ASSUME NEW i \in 1 .. Len(s) PROVE Payload(RemoveAt(s, i)) = Payload(s) - s[i].len
  <2> DEFINE r == RemoveAt(s, i)
             R == 1 .. Len(r)
             f == [j \in R |-> IF j < i THEN j ELSE j + 1]
  <2>1. /\ r \in Seq(Outgoing) /\ Len(r) = Len(s) - 1
        /\ \A j \in 1 .. Len(s) - 1 : r[j] = IF j < i THEN s[j] ELSE s[j + 1]
    BY RemoveAtFacts
  <2> HIDE DEF r
  <2>2. /\ IsFiniteSet(R) /\ \A j \in R : Lens(r)[j] = r[j].len /\ r[j].len \in Nat
    BY <2>1, PayloadIsSum
  <2>3. PICK h : SumOn(h, Lens(r), R) /\ Payload(r) = h[R]
    BY <2>1, PayloadIsSum
  <2>4. \A j \in R : f[j] \in T /\ f[j] # i /\ r[j] = s[f[j]]
    BY <1>1, <2>1 DEF T
  <2>5. /\ f \in [R -> T] /\ \A x, y \in R : f[x] = f[y] => x = y
    <3>1. f \in [R -> T]
      BY <1>1, <2>1 DEF T
    <3>2. \A x, y \in R : f[x] = f[y] => x = y
      BY <1>1, <2>1
    <3> QED BY <3>1, <3>2
  <2>6. {f[j] : j \in R} = T \ {i}
    <3>1. ASSUME NEW k \in T \ {i} PROVE \E j \in R : f[j] = k
      <4>1. CASE k < i
        <5>1. k \in R /\ f[k] = k
          BY <1>1, <2>1, <4>1 DEF T
        <5> QED BY <5>1
      <4>2. CASE ~(k < i)
        <5>1. k - 1 \in R /\ f[k - 1] = k
          BY <1>1, <2>1, <4>2 DEF T
        <5> QED BY <5>1
      <4> QED BY <4>1, <4>2
    <3> HIDE DEF f, R
    <3> QED BY <2>4, <3>1
  <2> HIDE DEF f, R
  <2>7. \A x \in R : Lens(r)[x] \in Int /\ Lens(r)[x] = Lens(s)[f[x]]
    BY <1>1, <2>2, <2>4
  <2>8. h[R] = g[T \ {i}]
    BY <1>2, <2>2, <2>3, <2>5, <2>6, <2>7, SumImage
  <2>9. g[T] = Lens(s)[i] + g[T \ {i}] /\ g[T \ {i}] \in Int
    BY <1>2 DEF SumOn, T
  <2> QED BY <1>1, <1>2, <1>3, <2>3, <2>8, <2>9 DEF r, T
<1> QED BY <1>3, <1>4, <1>5, <1>6

\* The account: the payload of what has been sent, within the window.
Account == dataInTransit = Payload(sentReliable) /\ dataInTransit \in 0 .. WindowSize

\* A command is counted in when it fits, and out when it leaves the sent list.
LEMMA AccountStep ==
    ASSUME TypeOK, Account, [Next]_vars
    PROVE  Account'
<1>1. outgoingReliable \in Seq(Outgoing) /\ sentReliable \in Seq(Outgoing) /\ WindowSize \in Nat
  BY WindowAssumption DEF TypeOK
<1>2. CASE UNCHANGED <<sentReliable, dataInTransit>>
  BY <1>2 DEF Account
<1>3. CASE TransmitReliable
  <2>1. outgoingReliable # <<>> /\ FitsWindow(Head(outgoingReliable))
    BY <1>3 DEF TransmitReliable
  <2>2. PICK c \in Outgoing : c = Head(outgoingReliable)
    BY <1>1, <2>1, HeadTailProperties
  <2>3. PICK d \in Outgoing : d = [c EXCEPT !.timeout = IF @ = 0 THEN 1 ELSE @]
    BY OutgoingFacts
  <2>4. sentReliable' = Append(sentReliable, d) /\ dataInTransit' = dataInTransit + c.len
    BY <1>3, <2>2, <2>3 DEF TransmitReliable
  <2>5. d.len = c.len /\ c.len \in Nat
    BY <2>3, OutgoingFacts DEF Outgoing
  <2>6. Payload(sentReliable') = Payload(sentReliable) + c.len
    BY <1>1, <2>4, <2>5, PayloadFacts
  <2> QED BY <1>1, <2>1, <2>2, <2>4, <2>5, <2>6 DEF Account, FitsWindow
<1>4. ASSUME NEW i \in 1 .. Len(sentReliable), sentReliable' = RemoveAt(sentReliable, i),
             dataInTransit' = dataInTransit - sentReliable[i].len
      PROVE  Account'
  <2>1. /\ Payload(sentReliable') = Payload(sentReliable) - sentReliable[i].len
        /\ Payload(sentReliable') \in Nat /\ sentReliable[i].len \in Nat
    BY <1>1, <1>4, PayloadFacts, RemoveAtFacts, ElementOfSeq, OutgoingFacts
  <2> QED BY <1>1, <1>4, <2>1 DEF Account
<1>5. ASSUME NEW i \in 1 .. Len(sentReliable), CheckTimeout(i) PROVE Account'
  <2>1. CASE ResetPeer
    <3>1. sentReliable' = <<>> /\ dataInTransit' = 0
      BY <2>1, Zenon DEF ResetPeer
    <3>2. <<>> \in Seq(Outgoing) /\ Payload(<<>>) = 0
      BY EmptySeq, PayloadFacts
    <3> QED BY <1>1, <3>1, <3>2 DEF Account
  <2>2. CASE ~ResetPeer
    BY <1>4, <1>5, <2>2 DEF CheckTimeout
  <2> QED BY <2>1, <2>2
<1>6. ASSUME NEW a \in ackWire, HandleAcknowledge(a) PROVE Account'
  BY <1>4, <1>6 DEF HandleAcknowledge, Acknowledged
<1> QED
  BY <1>2, <1>3, <1>5, <1>6 DEF Next, SendReliable, SendUnreliable, TransmitUnreliable,
     HandleSendReliable, HandleSendUnreliable, SendAcknowledgements, DispatchUnreliable,
     DispatchReliable, DispatchNothing, vars, senderVars, receiverVars

\* So it is exact at all times.
LEMMA AccountKept == Spec => []Account
<1>1. Init => Account
  <2> SUFFICES ASSUME Init PROVE Account
    OBVIOUS
  <2>1. sentReliable \in Seq(Outgoing) /\ sentReliable = <<>>
    BY EmptySeq DEF Init
  <2>2. Payload(sentReliable) = 0
    BY <2>1, PayloadFacts
  <2> QED BY <2>2, WindowAssumption DEF Init, Account
<1>2. TypeOK /\ Account /\ [Next]_vars => Account'
  BY AccountStep
<1> QED BY <1>1, <1>2, TypeCorrect, PTL DEF Spec

\* reliableDataInTransit is the payload of the sent list at all times, stays within
\* the window and never goes below 0, where the unsigned field would wrap
\* (enet_protocol_remove_sent_reliable_command, enet_protocol_check_timeouts).
THEOREM WindowIsExact == Spec => []WindowExact
<1>1. Account => WindowExact
  BY DEF Account, WindowExact, Payload
<1> QED BY <1>1, AccountKept, PTL

-----------------------------------------------------------------------------
\* What ReliableDelivery rests on: as long as a packet is missing at the receiver
\* and the peer is not given up, the sender waits for a timeout or for nothing.
SenderHasMove ==
    connected =>
        \A ch \in Channels : \A rel \in 1 .. outReliableSeq[ch] :
            \/ Received(ch, rel)
            \/ sentReliable # <<>>
            \/ outgoingReliable # <<>> /\ FitsWindow(Head(outgoingReliable))

\* The sender is never stuck: when a reliable packet is missing at the receiver there
\* is a command in the sent list, which will time out, or the first outgoing one fits the
\* window (enet_protocol_send_reliable_outgoing_commands).  Were a byte counted
\* off too rarely, or a command forgotten, the channel could stand still for ever.
THEOREM SenderNeverStuck == Spec => []SenderHasMove
<1>1. TypeOK /\ Account /\ NothingLost => SenderHasMove
  <2> SUFFICES ASSUME TypeOK, Account, NothingLost, connected, NEW ch \in Channels,
                      NEW rel \in 1 .. outReliableSeq[ch], ~Received(ch, rel), sentReliable = <<>>
               PROVE  outgoingReliable # <<>> /\ FitsWindow(Head(outgoingReliable))
    BY DEF SenderHasMove
  <2>1. outgoingReliable \in Seq(Outgoing) /\ WindowSize \in Nat
    BY WindowAssumption DEF TypeOK
  <2>2. PICK c \in Outstanding : c.ch = ch /\ c.rel = rel
    BY DEF NothingLost
  <2>3. ToSet(sentReliable) = {}
    BY DEF ToSet
  <2>4. outgoingReliable # <<>>
    BY <2>2, <2>3 DEF Outstanding, ToSet
  <2>5. PICK d \in Outgoing : d = Head(outgoingReliable)
    BY <2>1, <2>4, HeadTailProperties
  <2>6. d.len \in Nat /\ d.len <= WindowSize
    BY WindowAssumption, LengthsAssumption DEF Outgoing
  <2>7. dataInTransit = 0
    BY PayloadFacts, EmptySeq DEF Account
  <2> QED BY <2>1, <2>4, <2>5, <2>6, <2>7 DEF FitsWindow
<1> QED BY <1>1, TypeCorrect, AccountKept, NothingIsLost, PTL
==============================================================================
