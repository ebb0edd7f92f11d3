------------------------- MODULE EnetConnectionProofs -------------------------
(***************************************************************************)
(* Theorems about EnetConnection for any number of slots and clients, with *)
(* every command lost, repeated or delayed without bound.                  *)
(***************************************************************************)
EXTENDS EnetConnection, TLAPS

-----------------------------------------------------------------------------
(* The inductive invariant.                                                *)

\* The challenge a peer was given is kept to its reset, and a slot in use knows
\* the client it belongs to.
PeerOK(p, q) ==
    /\ q \in Peer
    /\ p \in Attempts => /\ q.challenge \in {p, None}
                         /\ q.remote \in Slots \cup {None}
                         /\ q.state # "disconnected" => q.challenge = p
    /\ p \in Slots => /\ q.state # "connecting" /\ "connect" \notin q.outgoing
                      /\ q.remote \in Attempts \cup {None}
                      /\ q.state # "disconnected" => q.remote = q.challenge /\ q.challenge # None
    /\ q.state = "acknowledgingDisconnect" => q.acks = {"disconnect"}

\* What a client sends carries its challenge, what the server sends that of the
\* client it is sent to, and only clients ask for a connection.
MessageOK(m) ==
    /\ m \in Message
    /\ m.from \in Attempts => m.challenge = m.from /\ m.to \in Slots \cup {None}
    /\ m.from \in Slots => m.challenge = m.to /\ m.to \in Attempts /\ m.kind # "connect"

PeersInv == peer \in [Peers -> Peer] /\ \A p \in Peers : PeerOK(p, peer[p])

WireInv == \A m \in wire : MessageOK(m)

ConnectionInv ==
    /\ TypeOK /\ PeersInv /\ WireInv
    /\ OnlyFarewellOwed /\ OneSlotPerClient /\ UserIsTenant /\ NoForeignPacket

-----------------------------------------------------------------------------
(* Peers and messages, one at a time.                                      *)

\* A peer is the record of its fields.
LEMMA PeerRecord ==
    ASSUME NEW q \in Peer
    PROVE  q = [state |-> q.state, challenge |-> q.challenge, remote |-> q.remote,
                outgoing |-> q.outgoing, sent |-> q.sent, acks |-> q.acks]
BY DEF Peer

\* What one field that is set makes of a peer.
LEMMA OneField ==
    ASSUME NEW q \in Peer, NEW a
    PROVE  /\ [q EXCEPT !.acks = a] =
                [state |-> q.state, challenge |-> q.challenge, remote |-> q.remote,
                 outgoing |-> q.outgoing, sent |-> q.sent, acks |-> a]
           /\ [q EXCEPT !.sent = a] =
                [state |-> q.state, challenge |-> q.challenge, remote |-> q.remote,
                 outgoing |-> q.outgoing, sent |-> a, acks |-> q.acks]
           /\ [q EXCEPT !.outgoing = a] =
                [state |-> q.state, challenge |-> q.challenge, remote |-> q.remote,
                 outgoing |-> a, sent |-> q.sent, acks |-> q.acks]
           /\ [q EXCEPT !.state = a] =
                [state |-> a, challenge |-> q.challenge, remote |-> q.remote,
                 outgoing |-> q.outgoing, sent |-> q.sent, acks |-> q.acks]
BY PeerRecord

\* What two fields set at once make of a peer: the acknowledgements and the state,
LEMMA AcksAndState ==
    ASSUME NEW q \in Peer, NEW a, NEW b
    PROVE  [q EXCEPT !.acks = a, !.state = b] =
             [state |-> b, challenge |-> q.challenge, remote |-> q.remote,
              outgoing |-> q.outgoing, sent |-> q.sent, acks |-> a]
<1> DEFINE t == [q EXCEPT !.acks = a]
<1>1. t = [state |-> q.state, challenge |-> q.challenge, remote |-> q.remote,
           outgoing |-> q.outgoing, sent |-> q.sent, acks |-> a]
  BY PeerRecord
<1> HIDE DEF t
<1>2. [t EXCEPT !.state = b] =
        [state |-> b, challenge |-> q.challenge, remote |-> q.remote,
         outgoing |-> q.outgoing, sent |-> q.sent, acks |-> a]
  BY <1>1
<1> QED BY <1>2 DEF t

\* the two lists of commands,
LEMMA OutgoingAndSent ==
    ASSUME NEW q \in Peer, NEW a, NEW b
    PROVE  [q EXCEPT !.outgoing = a, !.sent = b] =
             [state |-> q.state, challenge |-> q.challenge, remote |-> q.remote,
              outgoing |-> a, sent |-> b, acks |-> q.acks]
<1> DEFINE t == [q EXCEPT !.outgoing = a]
<1>1. t = [state |-> q.state, challenge |-> q.challenge, remote |-> q.remote,
           outgoing |-> a, sent |-> q.sent, acks |-> q.acks]
  BY PeerRecord
<1> HIDE DEF t
<1>2. [t EXCEPT !.sent = b] =
        [state |-> q.state, challenge |-> q.challenge, remote |-> q.remote,
         outgoing |-> a, sent |-> b, acks |-> q.acks]
  BY <1>1
<1> QED BY <1>2 DEF t

\* the state and the number of the other side,
LEMMA StateAndRemote ==
    ASSUME NEW q \in Peer, NEW a, NEW b
    PROVE  [q EXCEPT !.state = a, !.remote = b] =
             [state |-> a, challenge |-> q.challenge, remote |-> b,
              outgoing |-> q.outgoing, sent |-> q.sent, acks |-> q.acks]
<1> DEFINE t == [q EXCEPT !.state = a]
<1>1. t = [state |-> a, challenge |-> q.challenge, remote |-> q.remote,
           outgoing |-> q.outgoing, sent |-> q.sent, acks |-> q.acks]
  BY PeerRecord
<1> HIDE DEF t
<1>2. [t EXCEPT !.remote = b] =
        [state |-> a, challenge |-> q.challenge, remote |-> b,
         outgoing |-> q.outgoing, sent |-> q.sent, acks |-> q.acks]
  BY <1>1
<1> QED BY <1>2 DEF t

\* the state and what is to be sent.
LEMMA StateAndOutgoing ==
    ASSUME NEW q \in Peer, NEW a, NEW b
    PROVE  [q EXCEPT !.state = a, !.outgoing = b] =
             [state |-> a, challenge |-> q.challenge, remote |-> q.remote,
              outgoing |-> b, sent |-> q.sent, acks |-> q.acks]
<1> DEFINE t == [q EXCEPT !.state = a]
<1>1. t = [state |-> a, challenge |-> q.challenge, remote |-> q.remote,
           outgoing |-> q.outgoing, sent |-> q.sent, acks |-> q.acks]
  BY PeerRecord
<1> HIDE DEF t
<1>2. [t EXCEPT !.outgoing = b] =
        [state |-> a, challenge |-> q.challenge, remote |-> q.remote,
         outgoing |-> b, sent |-> q.sent, acks |-> q.acks]
  BY <1>1
<1> QED BY <1>2 DEF t

\* Its queues are emptied.
LEMMA ResetQueuesFields ==
    ASSUME NEW q \in Peer
    PROVE  ResetQueues(q) = [state |-> q.state, challenge |-> q.challenge, remote |-> q.remote,
                             outgoing |-> {}, sent |-> {}, acks |-> {}]
<1> DEFINE t == [q EXCEPT !.outgoing = {}, !.sent = {}]
<1>1. t = [state |-> q.state, challenge |-> q.challenge, remote |-> q.remote,
           outgoing |-> {}, sent |-> {}, acks |-> q.acks]
  BY OutgoingAndSent
<1> HIDE DEF t
<1>2. [t EXCEPT !.acks = {}] = [state |-> q.state, challenge |-> q.challenge, remote |-> q.remote,
                                outgoing |-> {}, sent |-> {}, acks |-> {}]
  BY <1>1
<1> QED BY <1>2 DEF ResetQueues, t

\* A peer that was reset is as good as any.
LEMMA ResetFacts ==
    ASSUME NEW p \in Peers
    PROVE  PeerOK(p, ResetPeer) /\ ResetPeer.state = "disconnected"
BY NamesAssumption DEF ResetPeer, PeerOK, Peer, States

\* What is queued goes out: a peer in use is left without acknowledgements, and
\* as a zombie if that of a DISCONNECT was among them.
LEMMA TransmittedRecord ==
    ASSUME NEW q \in Peer, ~Silent(q)
    PROVE  Transmitted(q) =
             [state |-> IF "disconnect" \in q.acks THEN "zombie" ELSE q.state,
              challenge |-> q.challenge, remote |-> q.remote, outgoing |-> {},
              sent |-> q.sent \cup (q.outgoing \cap Reliable), acks |-> {}]
<1> DEFINE s == IF "disconnect" \in q.acks THEN "zombie" ELSE q.state
           t == [q EXCEPT !.acks = {}, !.state = s]
           out == q.sent \cup (q.outgoing \cap Reliable)
<1>1. t = [state |-> s, challenge |-> q.challenge, remote |-> q.remote,
           outgoing |-> q.outgoing, sent |-> q.sent, acks |-> {}]
  <2> HIDE DEF s
  <2> QED BY AcksAndState
<1>2. t = AfterAcknowledgements(q)
  BY <1>1, PeerRecord DEF AfterAcknowledgements
<1>3. s \in States
  BY DEF Peer, States
<1> HIDE DEF s, t
<1>4. t \in Peer /\ t.sent = q.sent
  BY <1>1, <1>3 DEF Peer
<1>5. [t EXCEPT !.outgoing = {}, !.sent = out] =
        [state |-> s, challenge |-> q.challenge, remote |-> q.remote,
         outgoing |-> {}, sent |-> out, acks |-> {}]
  <2> HIDE DEF out
  <2>1. [t EXCEPT !.outgoing = {}, !.sent = out] =
          [state |-> t.state, challenge |-> t.challenge, remote |-> t.remote,
           outgoing |-> {}, sent |-> out, acks |-> t.acks]
    BY <1>4, OutgoingAndSent
  <2> QED BY <1>1, <2>1
<1>6. Transmitted(q) = [t EXCEPT !.outgoing = {}, !.sent = t.sent \cup (q.outgoing \cap Reliable)]
  BY <1>2 DEF Transmitted
<1> QED BY <1>4, <1>5, <1>6 DEF s

\* Sending what is queued changes a peer's state only to zombie.
LEMMA TransmittedFacts ==
    ASSUME NEW p \in Peers, NEW q, PeerOK(p, q)
    PROVE  /\ PeerOK(p, Transmitted(q))
           /\ Transmitted(q).challenge = q.challenge
           /\ \/ Transmitted(q).state = q.state
              \/ q.state # "disconnected" /\ Transmitted(q).state = "zombie"
<1>1. CASE Silent(q)
  BY <1>1 DEF Transmitted
<1>2. CASE ~Silent(q)
  <2> DEFINE s == IF "disconnect" \in q.acks THEN "zombie" ELSE q.state
             out == q.sent \cup (q.outgoing \cap Reliable)
  <2>1. q \in Peer
    BY DEF PeerOK
  <2>2. s \in States /\ out \in SUBSET Reliable
    BY <2>1 DEF Peer, States
  <2>3. Transmitted(q) = [state |-> s, challenge |-> q.challenge, remote |-> q.remote,
                          outgoing |-> {}, sent |-> out, acks |-> {}]
    BY <1>2, <2>1, TransmittedRecord
  <2>4. /\ s = q.state \/ (q.state # "disconnected" /\ s = "zombie")
        /\ q.state = "acknowledgingDisconnect" => s = "zombie"
    BY <1>2 DEF PeerOK, Silent
  <2> HIDE DEF s, out
  <2>5. Transmitted(q) \in Peer
    BY <2>1, <2>2, <2>3 DEF Peer
  <2> QED BY <2>3, <2>4, <2>5 DEF PeerOK
<1> QED BY <1>1, <1>2

\* An acknowledgement is queued, or not, and nothing else changes; a peer that
\* is disconnecting queues none.
LEMMA AcknowledgedRecord ==
    ASSUME NEW q \in Peer, NEW kind \in Reliable
    PROVE  LET r == Acknowledged(q, kind) IN
           \/ r = q
           \/ /\ q.state # "disconnecting"
              /\ q.state = "acknowledgingDisconnect" => kind = "disconnect"
              /\ r = [state |-> q.state, challenge |-> q.challenge, remote |-> q.remote,
                      outgoing |-> q.outgoing, sent |-> q.sent, acks |-> q.acks \cup {kind}]
<1> DEFINE r == Acknowledged(q, kind)
           acks == q.acks \cup {kind}
<1>1. CASE r = q
  BY <1>1
<1>2. CASE r # q
  <2>1. /\ r = [q EXCEPT !.acks = q.acks \cup {kind}]
        /\ q.state = "acknowledgingDisconnect" => kind = "disconnect"
        /\ q.state # "disconnecting"
    BY <1>2 DEF Acknowledged
  <2>2. r = [q EXCEPT !.acks = acks]
    BY <2>1
  <2> HIDE DEF r, acks
  <2>3. r = [state |-> q.state, challenge |-> q.challenge, remote |-> q.remote,
             outgoing |-> q.outgoing, sent |-> q.sent, acks |-> acks]
    BY <2>2, OneField
  <2> QED BY <2>1, <2>3 DEF r, acks
<1> QED BY <1>1, <1>2

\* A peer that says goodbye owes the acknowledgement of the DISCONNECT only.
LEMMA AcknowledgedFacts ==
    ASSUME NEW p \in Peers, NEW q, PeerOK(p, q), NEW kind \in Reliable
    PROVE  LET r == Acknowledged(q, kind) IN
           PeerOK(p, r) /\ r.state = q.state /\ r.challenge = q.challenge
<1> DEFINE r == Acknowledged(q, kind)
           acks == q.acks \cup {kind}
<1>1. q \in Peer
  BY DEF PeerOK
<1>2. CASE r = q
  BY <1>2
<1>3. CASE r # q
  <2>1. /\ r = [state |-> q.state, challenge |-> q.challenge, remote |-> q.remote,
                outgoing |-> q.outgoing, sent |-> q.sent, acks |-> acks]
        /\ q.state = "acknowledgingDisconnect" => kind = "disconnect"
    BY <1>1, <1>3, AcknowledgedRecord
  <2>2. acks \in SUBSET Reliable /\ (q.state = "acknowledgingDisconnect" => acks = {"disconnect"})
    BY <1>1, <2>1 DEF Peer, PeerOK
  <2> HIDE DEF r, acks
  <2>3. r \in Peer
    BY <1>1, <2>1, <2>2 DEF Peer
  <2> QED BY <2>1, <2>2, <2>3 DEF PeerOK, r
<1> QED BY <1>2, <1>3

\* What a peer in use puts on the wire is as MessageOK says.
LEMMA CommandFacts ==
    ASSUME PeersInv, NEW p \in Peers, peer[p].state # "disconnected", NEW kind \in Kinds,
           p \in Slots => kind # "connect", NEW number \in Numbers
    PROVE  MessageOK(Command(p, kind, number))
<1>1. PeerOK(p, peer[p])
  BY DEF PeersInv
<1> DEFINE m == Command(p, kind, number)
<1>2. m = [to |-> peer[p].remote, from |-> p, challenge |-> peer[p].challenge,
           kind |-> kind, number |-> number]
  BY DEF Command
<1>3. m \in Message
  BY <1>1, <1>2 DEF Message, PeerOK, Peer
<1> HIDE DEF m
<1>4. m.from \in Attempts => m.challenge = m.from /\ m.to \in Slots \cup {None}
  BY <1>1, <1>2 DEF PeerOK
<1>5. m.from \in Slots => m.challenge = m.to /\ m.to \in Attempts /\ m.kind # "connect"
  BY <1>1, <1>2 DEF PeerOK
<1> QED BY <1>3, <1>4, <1>5 DEF MessageOK, m

\* And so is everything it sends.
LEMMA DatagramFacts ==
    ASSUME PeersInv, NEW p \in Peers
    PROVE  /\ \A m \in Datagram(p) : MessageOK(m)
           /\ peer[p].state # "disconnected" => \A m \in Acknowledgements(p) : MessageOK(m)
<1>1. PeerOK(p, peer[p]) /\ peer[p] \in Peer
  BY DEF PeersInv, PeerOK
<1>2. \A k : Number(k) \in Numbers
  BY DEF Number, Numbers
<1>3. ASSUME peer[p].state # "disconnected", NEW m \in Acknowledgements(p) PROVE MessageOK(m)
  <2>1. PICK k \in peer[p].acks : m = Command(p, "acknowledge", Number(k))
    BY <1>3 DEF Acknowledgements
  <2> QED BY <1>2, <1>3, <2>1, CommandFacts DEF Kinds
<1>4. ASSUME NEW m \in Datagram(p) PROVE MessageOK(m)
  <2>1. peer[p].state # "disconnected"
    BY <1>4 DEF Datagram, Silent
  <2>2. CASE m \in Acknowledgements(p)
    BY <1>3, <2>1, <2>2
  <2>3. CASE m \notin Acknowledgements(p)
    <3>1. PICK k \in peer[p].outgoing : m = Command(p, k, Number(k))
      BY <1>4, <2>3 DEF Datagram
    <3>2. k \in Kinds /\ (p \in Slots => k # "connect")
      BY <1>1 DEF PeerOK, Peer
    <3> QED BY <1>2, <2>1, <3>1, <3>2, CommandFacts
  <2> QED BY <2>2, <2>3
<1> QED BY <1>3, <1>4

-----------------------------------------------------------------------------
(* Steps.                                                                  *)

Held == {"connected", "disconnecting", "acknowledgingDisconnect"}

AppTypeOK ==
    /\ user \in [Slots -> Attempts \cup {None}]
    /\ joined \in [Attempts -> BOOLEAN]
    /\ accepted \in SUBSET Peers
    /\ delivered \in SUBSET ((Attempts \cup {None}) \X Peers)
    /\ crashed \in BOOLEAN

\* What a step other than a CONNECT does to a slot: it is free afterwards, or
\* goes on with its challenge and with a user that is the tenant if it was.
SlotStep(s) ==
    \/ peer'[s].state = "disconnected"
    \/ /\ peer[s].state # "disconnected" /\ peer'[s].challenge = peer[s].challenge
       /\ \/ user'[s] = peer'[s].challenge
          \/ user'[s] = user[s] /\ (peer'[s].state \in Held => peer[s].state \in Held)

\* Such a step keeps the invariant if every peer and every message is in order.
LEMMA StepKeepsInv ==
    ASSUME ConnectionInv, AppTypeOK', NoForeignPacket',
           peer' \in [Peers -> Peer], \A p \in Peers : PeerOK(p, peer'[p]),
           \A m \in wire' : MessageOK(m),
           \A s \in Slots : SlotStep(s)
    PROVE  ConnectionInv'
<1>1. WireInv' /\ wire' \in SUBSET Message
  BY DEF WireInv, MessageOK
<1>2. TypeOK'
  BY <1>1 DEF TypeOK, AppTypeOK
<1>3. PeersInv' /\ OnlyFarewellOwed'
  BY DEF PeersInv, OnlyFarewellOwed, PeerOK
<1>4. OneSlotPerClient'
  BY DEF ConnectionInv, OneSlotPerClient, SlotStep
<1>5. UserIsTenant'
  <2> SUFFICES ASSUME NEW s \in Slots, peer'[s].state \in Held PROVE user'[s] = peer'[s].challenge
    BY DEF UserIsTenant, Held
  <2>1. peer[s].state \in Held => user[s] = peer[s].challenge
    BY DEF ConnectionInv, UserIsTenant, Held
  <2>2. peer'[s].state # "disconnected"
    BY DEF Held
  <2> QED BY <2>1, <2>2 DEF SlotStep
<1> QED BY <1>1, <1>2, <1>3, <1>4, <1>5 DEF ConnectionInv

\* A step of one peer.
LEMMA OnePeerStep ==
    ASSUME ConnectionInv, AppTypeOK', NoForeignPacket', NEW p \in Peers, NEW q, PeerOK(p, q),
           peer' = [peer EXCEPT ![p] = q],
           \A m \in wire' : MessageOK(m),
           \A s \in Slots : s # p => user'[s] = user[s],
           p \in Slots =>
              \/ q.state = "disconnected"
              \/ /\ peer[p].state # "disconnected" /\ q.challenge = peer[p].challenge
                 /\ \/ user'[p] = q.challenge
                    \/ user'[p] = user[p] /\ (q.state \in Held => peer[p].state \in Held)
    PROVE  ConnectionInv'
<1>1. peer \in [Peers -> Peer] /\ \A r \in Peers : PeerOK(r, peer[r])
  BY DEF ConnectionInv, PeersInv
<1>2. q \in Peer
  BY DEF PeerOK
<1>3. peer' \in [Peers -> Peer] /\ \A r \in Peers : peer'[r] = IF r = p THEN q ELSE peer[r]
  BY <1>1, <1>2
<1>4. \A r \in Peers : PeerOK(r, peer'[r])
  BY <1>1, <1>3
<1>5. \A s \in Slots : SlotStep(s)
  <2> SUFFICES ASSUME NEW s \in Slots PROVE SlotStep(s)
    OBVIOUS
  <2>1. s \in Peers
    BY DEF Peers
  <2>2. CASE s = p
    BY <1>3, <2>1, <2>2 DEF SlotStep
  <2>3. CASE s # p
    BY <1>3, <2>1, <2>3 DEF SlotStep
  <2> QED BY <2>2, <2>3
<1> QED BY <1>3, <1>4, <1>5, StepKeepsInv

\* What the programs do with an event: only the user of the peer changes.
LEMMA EventFacts ==
    ASSUME TypeOK, NoForeignPacket, NEW p \in Peers, NEW attempt \in Attempts \cup {None},
           OnConnect(p, attempt) \/ OnDisconnect(p)
    PROVE  /\ AppTypeOK' /\ NoForeignPacket'
           /\ \A s \in Slots : s # p => user'[s] = user[s]
           /\ OnConnect(p, attempt) => (p \in Slots => user'[p] = attempt)
<1>1. delivered' = delivered /\ accepted' = accepted
  BY DEF OnConnect, OnDisconnect
<1>2. crashed' \in BOOLEAN
  BY DEF OnConnect, OnDisconnect, TypeOK
<1>3. /\ user' \in [Slots -> Attempts \cup {None}]
      /\ \A s \in Slots : s # p => user'[s] = user[s]
      /\ OnConnect(p, attempt) => (p \in Slots => user'[p] = attempt)
  <2>1. PICK u \in Attempts \cup {None} :
           /\ user' = IF p \in Slots THEN [user EXCEPT ![p] = u] ELSE user
           /\ OnConnect(p, attempt) => u = attempt
    <3>1. CASE OnConnect(p, attempt)
      BY <3>1 DEF OnConnect
    <3>2. CASE ~OnConnect(p, attempt)
      BY <3>2 DEF OnDisconnect
    <3> QED BY <3>1, <3>2
  <2>2. user \in [Slots -> Attempts \cup {None}]
    BY DEF TypeOK
  <2> QED BY <2>1, <2>2
<1>4. joined' \in [Attempts -> BOOLEAN]
  <2>1. PICK b \in BOOLEAN : joined' = IF p \in Attempts THEN [joined EXCEPT ![p] = b] ELSE joined
    BY DEF OnConnect, OnDisconnect
  <2>2. joined \in [Attempts -> BOOLEAN]
    BY DEF TypeOK
  <2> QED BY <2>1, <2>2
<1>5. AppTypeOK'
  BY <1>1, <1>2, <1>3, <1>4 DEF AppTypeOK, TypeOK
<1>6. NoForeignPacket'
  BY <1>1 DEF NoForeignPacket
<1> QED BY <1>3, <1>5, <1>6

\* A step without an event.
LEMMA QuietFacts ==
    ASSUME TypeOK, NoForeignPacket, user' = user, delivered' = delivered, crashed' = crashed,
           joined' \in [Attempts -> BOOLEAN], accepted' \in SUBSET Peers
    PROVE  AppTypeOK' /\ NoForeignPacket'
<1>1. AppTypeOK'
  BY DEF AppTypeOK, TypeOK
<1>2. NoForeignPacket'
  BY DEF NoForeignPacket
<1> QED BY <1>1, <1>2

\* Every peer of a host sends what it has.
LEMMA SendOutgoingKeepsInv ==
    ASSUME ConnectionInv, NEW host \in SUBSET Peers, SendOutgoing(host)
    PROVE  ConnectionInv'
<1>1. peer \in [Peers -> Peer] /\ (\A p \in Peers : PeerOK(p, peer[p])) /\ PeersInv
      /\ TypeOK /\ NoForeignPacket
  BY DEF ConnectionInv, PeersInv
<1>2. AppTypeOK' /\ NoForeignPacket' /\ user' = user
  BY <1>1, QuietFacts DEF SendOutgoing, appVars, TypeOK
<1>3. \A p \in Peers : /\ PeerOK(p, peer'[p]) /\ peer'[p].challenge = peer[p].challenge
                       /\ \/ peer'[p].state = peer[p].state
                          \/ peer[p].state # "disconnected" /\ peer'[p].state = "zombie"
  BY <1>1, TransmittedFacts DEF SendOutgoing
<1>4. peer' \in [Peers -> Peer]
  BY <1>3 DEF SendOutgoing, PeerOK
<1>5. \A m \in wire' : MessageOK(m)
  BY <1>1, DatagramFacts DEF SendOutgoing, ConnectionInv, WireInv
<1>6. \A s \in Slots : SlotStep(s)
  BY <1>2, <1>3 DEF SlotStep, Held, Peers
<1> QED BY <1>2, <1>3, <1>4, <1>5, <1>6, StepKeepsInv

\* A peer whose time is up, or that is buried, is reset.
LEMMA GiveUpKeepsInv ==
    ASSUME ConnectionInv, NEW p \in Peers, GiveUp(p) \/ DispatchZombie(p)
    PROVE  ConnectionInv'
<1>1. PeersInv /\ TypeOK /\ NoForeignPacket /\ WireInv
  BY DEF ConnectionInv
<1>2. OnDisconnect(p) /\ peer' = [peer EXCEPT ![p] = ResetPeer]
  BY DEF GiveUp, DispatchZombie
<1>3. /\ AppTypeOK' /\ NoForeignPacket' /\ \A s \in Slots : s # p => user'[s] = user[s]
  BY <1>1, <1>2, EventFacts
<1>4. \A m \in wire' : MessageOK(m)
  BY <1>1, DatagramFacts DEF GiveUp, DispatchZombie, WireInv, Silent
<1> QED BY <1>2, <1>3, <1>4, ResetFacts, OnePeerStep

\* A free slot that was taken: its lists are those it had.
Taken(s, m) == [state |-> "acknowledgingConnect", challenge |-> m.challenge, remote |-> m.from,
                outgoing |-> peer[s].outgoing \cup {"verify"}, sent |-> peer[s].sent,
                acks |-> peer[s].acks]

\* A CONNECT that is answered makes that of a free slot.
LEMMA ConnectTakes ==
    ASSUME PeersInv, NEW m \in wire, HandleConnect(m)
    PROVE  \E s \in FreeSlot(m.challenge) :
               peer' = [peer EXCEPT ![s] = Acknowledged(Taken(s, m), "connect")]
<1>1. PICK s \in FreeSlot(m.challenge) :
        peer' = [peer EXCEPT ![s] = Acknowledged(
            [peer[s] EXCEPT !.state = "acknowledgingConnect", !.challenge = m.challenge,
                            !.remote = m.from, !.outgoing = peer[s].outgoing \cup {"verify"}], "connect")]
  BY DEF HandleConnect
<1>2. peer[s] \in Peer
  BY DEF FreeSlot, Peers, PeersInv
<1> DEFINE out == peer[s].outgoing \cup {"verify"}
           a == [peer[s] EXCEPT !.state = "acknowledgingConnect"]
           b == [a EXCEPT !.challenge = m.challenge]
           c == [b EXCEPT !.remote = m.from]
           d == [c EXCEPT !.outgoing = out]
<1>3. a = [state |-> "acknowledgingConnect", challenge |-> peer[s].challenge, remote |-> peer[s].remote,
           outgoing |-> peer[s].outgoing, sent |-> peer[s].sent, acks |-> peer[s].acks]
  BY <1>2, OneField
<1> HIDE DEF a
<1>4. b = [state |-> "acknowledgingConnect", challenge |-> m.challenge, remote |-> peer[s].remote,
           outgoing |-> peer[s].outgoing, sent |-> peer[s].sent, acks |-> peer[s].acks]
  BY <1>3
<1> HIDE DEF b
<1>5. c = [state |-> "acknowledgingConnect", challenge |-> m.challenge, remote |-> m.from,
           outgoing |-> peer[s].outgoing, sent |-> peer[s].sent, acks |-> peer[s].acks]
  BY <1>4
<1> HIDE DEF c, out
<1>6. d = [state |-> "acknowledgingConnect", challenge |-> m.challenge, remote |-> m.from,
           outgoing |-> out, sent |-> peer[s].sent, acks |-> peer[s].acks]
  BY <1>5
<1>7. d = Taken(s, m)
  BY <1>6 DEF out, Taken
<1>8. peer' = [peer EXCEPT ![s] = Acknowledged(d, "connect")]
  BY <1>1 DEF d, c, b, a, out
<1> HIDE DEF d
<1> QED BY <1>7, <1>8

\* A free slot is given to a client that has none.
LEMMA ConnectKeepsInv ==
    ASSUME ConnectionInv, NEW m \in wire, HandleConnect(m)
    PROVE  ConnectionInv'
<1>1. PeersInv /\ TypeOK /\ NoForeignPacket /\ MessageOK(m)
  BY DEF ConnectionInv, WireInv
<1>2. m.kind = "connect" /\ wire' = wire /\ UNCHANGED appVars
  BY DEF HandleConnect
<1>3. m.from \in Attempts /\ m.challenge = m.from
  <2>1. m.from \in Peers
    BY <1>1 DEF MessageOK, Message
  <2> QED BY <1>1, <1>2, <2>1 DEF MessageOK, Peers
<1>4. PICK s \in FreeSlot(m.challenge) :
        peer' = [peer EXCEPT ![s] = Acknowledged(Taken(s, m), "connect")]
  BY <1>1, ConnectTakes
<1>5. s \in Slots /\ s \in Peers /\ peer[s].state = "disconnected" /\ PeerOK(s, peer[s])
      /\ \A t \in Slots : peer[t].state # "disconnected" => peer[t].challenge # m.challenge
  BY <1>1, <1>4 DEF FreeSlot, Peers, PeersInv
<1> DEFINE q == Taken(s, m)
           r == Acknowledged(q, "connect")
<1>6. peer[s] \in Peer
  BY <1>5 DEF PeerOK
<1>7. peer' = [peer EXCEPT ![s] = r]
  BY <1>4
<1>8. PeerOK(s, q) /\ q.state = "acknowledgingConnect" /\ q.challenge = m.challenge
  <2>1. q \in Peer
    BY <1>3, <1>6 DEF Taken, Peer, States, Peers, Kinds, Reliable
  <2>2. "connect" \notin q.outgoing
    BY <1>5 DEF Taken, PeerOK
  <2>3. m.from # None /\ s \notin Attempts
    BY <1>3, <1>5, NamesAssumption DEF Peers
  <2> QED BY <1>3, <2>1, <2>2, <2>3 DEF Taken, PeerOK
<1>9. PeerOK(s, r) /\ r.state = "acknowledgingConnect" /\ r.challenge = m.challenge
  <2>1. "connect" \in Reliable
    BY DEF Reliable
  <2> HIDE DEF q
  <2> QED BY <1>5, <1>8, <2>1, AcknowledgedFacts
<1> HIDE DEF q, r
<1>10. /\ \A p \in Peers : peer'[p] = IF p = s THEN r ELSE peer[p]
       /\ peer' \in [Peers -> Peer]
  BY <1>1, <1>5, <1>7, <1>9 DEF PeersInv, PeerOK
<1>11. AppTypeOK' /\ NoForeignPacket' /\ user' = user
  BY <1>1, <1>2, QuietFacts DEF appVars, TypeOK
<1>12. TypeOK' /\ WireInv'
  BY <1>2, <1>10, <1>11 DEF TypeOK, AppTypeOK, ConnectionInv, WireInv
<1>13. PeersInv' /\ OnlyFarewellOwed'
  <2>1. \A p \in Peers : PeerOK(p, peer'[p])
    BY <1>1, <1>9, <1>10 DEF PeersInv
  <2> QED BY <1>10, <2>1 DEF PeersInv, OnlyFarewellOwed, PeerOK
<1>14. OneSlotPerClient'
  BY <1>5, <1>9, <1>10 DEF ConnectionInv, OneSlotPerClient, Peers
<1>15. UserIsTenant'
  BY <1>5, <1>9, <1>10, <1>11 DEF ConnectionInv, UserIsTenant, Peers
<1> QED BY <1>11, <1>12, <1>13, <1>14, <1>15 DEF ConnectionInv

\* The client is connected, or acknowledges a repetition.
LEMMA VerifyKeepsInv ==
    ASSUME ConnectionInv, NEW p \in Peers, NEW m \in wire, HandleVerifyConnect(p, m)
    PROVE  ConnectionInv'
<1>1. PeersInv /\ TypeOK /\ NoForeignPacket /\ WireInv /\ MessageOK(m) /\ "verify" \in Reliable
  BY DEF ConnectionInv, WireInv, Reliable
<1>2. PeerOK(p, peer[p]) /\ peer[p] \in Peer /\ p # None
  BY <1>1, NamesAssumption DEF PeersInv, PeerOK
<1>3. m.to = p /\ peer[p].state # "disconnected" /\ \A n \in wire' : MessageOK(n)
  BY <1>1 DEF HandleVerifyConnect, Heard, Silent, WireInv
<1>4. CASE peer[p].state = "connecting"
  <2> DEFINE q == [state |-> "connected", challenge |-> peer[p].challenge, remote |-> m.from,
                   outgoing |-> peer[p].outgoing, sent |-> peer[p].sent, acks |-> peer[p].acks]
             r == Acknowledged(q, "verify")
  <2>1. peer' = [peer EXCEPT ![p] = Acknowledged(
                   [peer[p] EXCEPT !.state = "connected", !.remote = m.from], "verify")]
        /\ OnConnect(p, peer[p].challenge)
    BY <1>4 DEF HandleVerifyConnect
  <2>2. [peer[p] EXCEPT !.state = "connected", !.remote = m.from] = q
    BY <1>2, StateAndRemote
  <2>3. p \in Attempts /\ m.from \in Slots
    <3>1. p \in Attempts
      BY <1>2, <1>4 DEF PeerOK, Peers
    <3>2. m.to \notin Slots \cup {None}
      BY <1>2, <1>3, <3>1, NamesAssumption
    <3> QED BY <1>1, <3>1, <3>2 DEF MessageOK, Message, Peers
  <2>4. PeerOK(p, q)
    <3>1. q \in Peer
      BY <1>2, <2>3 DEF Peer, States, Peers
    <3> QED BY <1>2, <1>4, <2>3, <3>1, NamesAssumption DEF PeerOK
  <2>5. peer' = [peer EXCEPT ![p] = r]
    <3> HIDE DEF q
    <3> QED BY <2>1, <2>2
  <2>6. q.state = "connected" /\ q.challenge = peer[p].challenge
    OBVIOUS
  <2> HIDE DEF q
  <2>7. PeerOK(p, r) /\ r.state = "connected" /\ r.challenge = peer[p].challenge
    BY <1>1, <2>4, <2>6, AcknowledgedFacts
  <2>8. peer[p].challenge \in Attempts \cup {None}
    BY <1>2 DEF Peer
  <2>9. /\ AppTypeOK' /\ NoForeignPacket' /\ \A s \in Slots : s # p => user'[s] = user[s]
    BY <1>1, <2>1, <2>8, EventFacts
  <2> HIDE DEF r
  <2>10. p \notin Slots
    BY <2>3, NamesAssumption
  <2> QED BY <1>3, <2>5, <2>7, <2>9, <2>10, OnePeerStep
<1>5. CASE peer[p].state # "connecting"
  <2> DEFINE r == Acknowledged(peer[p], "verify")
  <2>1. peer' = [peer EXCEPT ![p] = r] /\ UNCHANGED appVars
    BY <1>5 DEF HandleVerifyConnect
  <2>2. PeerOK(p, r) /\ r.state = peer[p].state /\ r.challenge = peer[p].challenge
    BY <1>1, <1>2, AcknowledgedFacts
  <2> HIDE DEF r
  <2>3. AppTypeOK' /\ NoForeignPacket' /\ user' = user
    BY <1>1, <2>1, QuietFacts DEF appVars, TypeOK
  <2> QED BY <1>3, <2>1, <2>2, <2>3, OnePeerStep
<1> QED BY <1>4, <1>5

\* An acknowledgement ends a handshake or a goodbye, or neither.
LEMMA AcknowledgeKeepsInv ==
    ASSUME ConnectionInv, NEW p \in Peers, NEW m \in wire, HandleAcknowledge(p, m)
    PROVE  ConnectionInv'
<1> DEFINE removed == {k \in peer[p].sent : Number(k) = m.number}
           q == [peer[p] EXCEPT !.sent = peer[p].sent \ removed]
<1>1. PeersInv /\ TypeOK /\ NoForeignPacket /\ WireInv /\ \A n \in wire' : MessageOK(n)
  BY DEF ConnectionInv, WireInv, HandleAcknowledge
<1>2. PeerOK(p, peer[p]) /\ peer[p] \in Peer /\ peer[p].state # "disconnected"
  BY <1>1 DEF PeersInv, PeerOK, HandleAcknowledge, Heard, Silent
<1>3. peer[p].sent \ removed \in SUBSET Reliable /\ peer[p].challenge \in Attempts \cup {None}
  BY <1>2 DEF Peer
<1>4. \/ /\ q.state = "acknowledgingConnect"
         /\ peer' = [peer EXCEPT ![p] = [q EXCEPT !.state = "connected"]]
         /\ OnConnect(p, q.challenge)
      \/ /\ peer' = [peer EXCEPT ![p] = ResetPeer]
         /\ OnDisconnect(p)
      \/ /\ peer' = [peer EXCEPT ![p] = q]
         /\ UNCHANGED appVars
  BY DEF HandleAcknowledge
<1> DEFINE left == peer[p].sent \ removed
<1>5. left \in SUBSET Reliable /\ q = [peer[p] EXCEPT !.sent = left]
  BY <1>3
<1> HIDE DEF left, removed, q
<1>6. q = [state |-> peer[p].state, challenge |-> peer[p].challenge, remote |-> peer[p].remote,
           outgoing |-> peer[p].outgoing, sent |-> left, acks |-> peer[p].acks]
  BY <1>2, <1>5, OneField
<1>7. /\ q.state = peer[p].state /\ q.challenge = peer[p].challenge /\ q.remote = peer[p].remote
      /\ q.outgoing = peer[p].outgoing /\ q.acks = peer[p].acks
  BY <1>6
<1>8. q \in Peer
  BY <1>2, <1>5, <1>6 DEF Peer
<1>9. PeerOK(p, q)
  BY <1>2, <1>7, <1>8 DEF PeerOK
<1>10. CASE /\ q.state = "acknowledgingConnect"
            /\ peer' = [peer EXCEPT ![p] = [q EXCEPT !.state = "connected"]]
            /\ OnConnect(p, q.challenge)
  <2> DEFINE r == [q EXCEPT !.state = "connected"]
  <2>1. r = [state |-> "connected", challenge |-> q.challenge, remote |-> q.remote,
             outgoing |-> q.outgoing, sent |-> q.sent, acks |-> q.acks]
    BY <1>8, OneField
  <2>2. peer' = [peer EXCEPT ![p] = r]
    BY <1>10
  <2> HIDE DEF r
  <2>3. r \in Peer
    BY <1>8, <2>1 DEF Peer, States
  <2>4. PeerOK(p, r) /\ r.state = "connected" /\ r.challenge = peer[p].challenge
    BY <1>7, <1>9, <1>10, <2>1, <2>3 DEF PeerOK
  <2>5. /\ AppTypeOK' /\ NoForeignPacket' /\ \A s \in Slots : s # p => user'[s] = user[s]
        /\ p \in Slots => user'[p] = peer[p].challenge
    BY <1>1, <1>3, <1>7, <1>10, EventFacts
  <2> QED BY <1>1, <1>2, <2>2, <2>4, <2>5, OnePeerStep
<1>11. CASE peer' = [peer EXCEPT ![p] = ResetPeer] /\ OnDisconnect(p)
  <2>1. AppTypeOK' /\ NoForeignPacket' /\ \A s \in Slots : s # p => user'[s] = user[s]
    BY <1>1, <1>3, <1>11, EventFacts
  <2> QED BY <1>1, <1>11, <2>1, ResetFacts, OnePeerStep
<1>12. CASE peer' = [peer EXCEPT ![p] = q] /\ UNCHANGED appVars
  <2>1. AppTypeOK' /\ NoForeignPacket' /\ user' = user
    BY <1>1, <1>12, QuietFacts DEF appVars, TypeOK
  <2> QED BY <1>1, <1>2, <1>7, <1>9, <1>12, <2>1, OnePeerStep
<1> QED BY <1>4, <1>10, <1>11, <1>12

\* A goodbye is answered, or ends everything at once.
LEMMA DisconnectKeepsInv ==
    ASSUME ConnectionInv, NEW p \in Peers, NEW m \in wire, HandleDisconnect(p, m)
    PROVE  ConnectionInv'
<1> DEFINE state == IF m.kind = "disconnect" THEN "acknowledgingDisconnect" ELSE "zombie"
           q == IF peer[p].state # "connected" THEN ResetPeer
                ELSE [ResetQueues(peer[p]) EXCEPT !.state = state]
           r == IF m.kind = "disconnect" THEN Acknowledged(q, "disconnect") ELSE q
<1>1. PeersInv /\ TypeOK /\ NoForeignPacket /\ WireInv /\ \A n \in wire' : MessageOK(n)
  BY DEF ConnectionInv, WireInv, HandleDisconnect
<1>2. PeerOK(p, peer[p]) /\ peer[p] \in Peer /\ peer[p].state # "disconnected"
  BY <1>1 DEF PeersInv, PeerOK, HandleDisconnect, Heard, Silent
<1>3. AppTypeOK' /\ NoForeignPacket' /\ user' = user
  BY <1>1, QuietFacts DEF appVars, TypeOK, HandleDisconnect
<1>4. peer' = [peer EXCEPT ![p] = r]
  BY DEF HandleDisconnect
<1>5. state \in {"acknowledgingDisconnect", "zombie"}
      /\ (m.kind = "disconnect" <=> state = "acknowledgingDisconnect")
  OBVIOUS
<1>6. CASE peer[p].state # "connected"
  <2>1. q = ResetPeer
    BY <1>6
  <2> HIDE DEF q
  <2>2. PeerOK(p, r) /\ r.state = "disconnected"
    <3>1. PeerOK(p, q) /\ q.state = "disconnected" /\ "disconnect" \in Reliable
      BY <2>1, ResetFacts DEF Reliable
    <3>2. PeerOK(p, Acknowledged(q, "disconnect")) /\ Acknowledged(q, "disconnect").state = "disconnected"
      BY <3>1, AcknowledgedFacts
    <3> QED BY <3>1, <3>2
  <2> HIDE DEF r
  <2> QED BY <1>1, <1>3, <1>4, <2>2, OnePeerStep
<1>7. CASE peer[p].state = "connected"
  <2> DEFINE empty == ResetQueues(peer[p])
             owed == IF m.kind = "disconnect" THEN {"disconnect"} ELSE {}
  <2>1. empty = [state |-> peer[p].state, challenge |-> peer[p].challenge, remote |-> peer[p].remote,
                 outgoing |-> {}, sent |-> {}, acks |-> {}]
    BY <1>2, ResetQueuesFields
  <2>2. q = [empty EXCEPT !.state = state]
    BY <1>7
  <2> HIDE DEF empty, state, q
  <2>3. empty \in Peer
    BY <1>2, <2>1 DEF Peer
  <2>4. q = [state |-> state, challenge |-> peer[p].challenge, remote |-> peer[p].remote,
             outgoing |-> {}, sent |-> {}, acks |-> {}]
    <3>1. q = [state |-> state, challenge |-> empty.challenge, remote |-> empty.remote,
               outgoing |-> empty.outgoing, sent |-> empty.sent, acks |-> empty.acks]
      BY <2>2, <2>3, OneField
    <3> QED BY <2>1, <3>1
  <2>5. q \in Peer
    BY <1>2, <1>5, <2>4 DEF Peer, States
  <2>6. r = [state |-> state, challenge |-> peer[p].challenge, remote |-> peer[p].remote,
             outgoing |-> {}, sent |-> {}, acks |-> owed]
    <3>1. CASE m.kind = "disconnect"
      <4>1. r = [q EXCEPT !.acks = q.acks \cup {"disconnect"}]
        BY <1>5, <2>4, <3>1 DEF Acknowledged
      <4>2. q.acks \cup {"disconnect"} = owed
        BY <2>4, <3>1
      <4> HIDE DEF owed, r
      <4>3. r = [q EXCEPT !.acks = owed]
        BY <4>1, <4>2
      <4>4. r = [state |-> q.state, challenge |-> q.challenge, remote |-> q.remote,
                 outgoing |-> q.outgoing, sent |-> q.sent, acks |-> owed]
        BY <2>5, <4>3, OneField
      <4> QED BY <2>4, <4>4
    <3>2. CASE m.kind # "disconnect"
      BY <2>4, <3>2
    <3> QED BY <3>1, <3>2
  <2>7. owed \in SUBSET Reliable /\ (state = "acknowledgingDisconnect" => owed = {"disconnect"})
    BY <1>5 DEF Reliable
  <2> HIDE DEF owed, r
  <2>8. r \in Peer
    BY <1>2, <1>5, <2>6, <2>7 DEF Peer, States
  <2>9. PeerOK(p, r) /\ r.challenge = peer[p].challenge
    BY <1>2, <1>5, <2>6, <2>7, <2>8 DEF PeerOK
  <2>10. peer[p].state \in Held
    BY <1>7 DEF Held
  <2> QED BY <1>1, <1>2, <1>3, <1>4, <2>9, <2>10, OnePeerStep
<1> QED BY <1>6, <1>7

\* A packet is handed to the tenant of its slot, who sent it.
LEMMA ReliableKeepsInv ==
    ASSUME ConnectionInv, NEW p \in Peers, NEW m \in wire, HandleSendReliable(p, m)
    PROVE  ConnectionInv'
<1> DEFINE r == Acknowledged(peer[p], "data")
<1>1. PeersInv /\ TypeOK /\ NoForeignPacket /\ WireInv /\ (\A n \in wire' : MessageOK(n)) /\ MessageOK(m)
      /\ "data" \in Reliable
  BY DEF ConnectionInv, WireInv, HandleSendReliable, Reliable
<1>2. PeerOK(p, peer[p]) /\ peer[p] \in Peer /\ peer[p].state # "disconnected"
      /\ m.to = p /\ m.challenge = peer[p].challenge
  BY <1>1 DEF PeersInv, PeerOK, HandleSendReliable, Heard, Silent
<1>3. PeerOK(p, r) /\ r.state = peer[p].state /\ r.challenge = peer[p].challenge
  BY <1>1, <1>2, AcknowledgedFacts
<1>4. peer' = [peer EXCEPT ![p] = r]
  BY DEF HandleSendReliable
<1> HIDE DEF r
<1>5. UNCHANGED <<user, joined, accepted, crashed>>
  BY DEF HandleSendReliable
<1>6. ASSUME peer[p].state = "connected", p \in Slots
      PROVE  user[p] = m.from /\ m.from \in Attempts /\ m.from \in Peers
  <2>1. user[p] = peer[p].challenge
    BY <1>6 DEF ConnectionInv, UserIsTenant
  <2>2. m.from \in Peers /\ p \notin Attempts
    BY <1>1, <1>6, NamesAssumption DEF MessageOK, Message
  <2>3. m.from \in Attempts
    BY <1>1, <1>2, <2>2 DEF MessageOK, Peers
  <2> QED BY <1>1, <1>2, <2>1, <2>2, <2>3 DEF MessageOK
<1>7. /\ delivered' \in SUBSET ((Attempts \cup {None}) \X Peers)
      /\ NoForeignPacket'
  <2>1. CASE peer[p].state = "connected" /\ p \in Slots
    <3>1. delivered' = delivered \cup {<<m.from, m.from>>}
      BY <1>6, <2>1 DEF HandleSendReliable
    <3> QED BY <1>1, <1>6, <2>1, <3>1 DEF TypeOK, NoForeignPacket
  <2>2. CASE ~(peer[p].state = "connected" /\ p \in Slots)
    <3>1. delivered' = delivered
      BY <2>2 DEF HandleSendReliable
    <3> QED BY <1>1, <3>1 DEF TypeOK, NoForeignPacket
  <2> QED BY <2>1, <2>2
<1>8. AppTypeOK'
  BY <1>1, <1>5, <1>7 DEF AppTypeOK, TypeOK
<1> QED BY <1>1, <1>2, <1>3, <1>4, <1>5, <1>7, <1>8, OnePeerStep

\* A client begins, or drops everything.
LEMMA ClientKeepsInv ==
    ASSUME ConnectionInv, NEW a \in Attempts, Connect(a) \/ ForceReset(a)
    PROVE  ConnectionInv'
<1>1. PeersInv /\ TypeOK /\ NoForeignPacket /\ WireInv /\ (\A n \in wire' : MessageOK(n))
      /\ a \in Peers /\ a \notin Slots /\ a # None
  BY NamesAssumption DEF ConnectionInv, WireInv, Connect, ForceReset, Peers
<1>2. AppTypeOK' /\ NoForeignPacket' /\ user' = user
  BY <1>1, QuietFacts DEF appVars, TypeOK, Connect, ForceReset
<1>3. CASE Connect(a)
  <2> DEFINE q == [state |-> "connecting", challenge |-> a, remote |-> None,
                   outgoing |-> {"connect"}, sent |-> {}, acks |-> {}]
             c == [ResetPeer EXCEPT !.state = "connecting"]
             d == [c EXCEPT !.challenge = a]
             e == [d EXCEPT !.outgoing = {"connect"}]
  <2>1. c = [state |-> "connecting", challenge |-> None, remote |-> None,
             outgoing |-> {}, sent |-> {}, acks |-> {}]
    BY DEF ResetPeer
  <2> HIDE DEF c
  <2>2. d = [state |-> "connecting", challenge |-> a, remote |-> None,
             outgoing |-> {}, sent |-> {}, acks |-> {}]
    BY <2>1
  <2> HIDE DEF d
  <2>3. e = q
    BY <2>2
  <2>4. peer' = [peer EXCEPT ![a] = e]
    BY <1>3 DEF Connect, e, d, c
  <2>5. PeerOK(a, q)
    BY <1>1 DEF PeerOK, Peer, States, Kinds, Reliable
  <2> HIDE DEF q, e
  <2> QED BY <1>1, <1>2, <2>3, <2>4, <2>5, OnePeerStep
<1>4. CASE ForceReset(a)
  <2>1. peer' = [peer EXCEPT ![a] = ResetPeer]
    BY <1>4 DEF ForceReset
  <2> QED BY <1>1, <1>2, <2>1, ResetFacts, OnePeerStep
<1> QED BY <1>3, <1>4

\* A packet is queued, and everything queued on the host goes out.
LEMMA SendKeepsInv ==
    ASSUME ConnectionInv, NEW p \in Peers, Send(p)
    PROVE  ConnectionInv'
<1> DEFINE out == peer[p].outgoing \cup {"data"}
           q == [peer[p] EXCEPT !.outgoing = out]
<1>1. /\ PeersInv /\ TypeOK /\ NoForeignPacket /\ WireInv /\ p # None
      /\ \A r \in Peers : PeerOK(r, peer[r])
      /\ peer[p] \in Peer /\ peer[p].state = "connected"
  BY NamesAssumption DEF ConnectionInv, PeersInv, PeerOK, Send
<1>2. out \in SUBSET Kinds /\ ("connect" \in out => "connect" \in peer[p].outgoing)
  BY <1>1 DEF Peer, Kinds, Reliable
<1>3. peer' = [r \in Peers |->
            IF r = p THEN Transmitted(q)
            ELSE IF r \in HostOf(p) THEN Transmitted(peer[r]) ELSE peer[r]]
  BY DEF Send
<1> HIDE DEF out
<1>4. q = [state |-> peer[p].state, challenge |-> peer[p].challenge, remote |-> peer[p].remote,
           outgoing |-> out, sent |-> peer[p].sent, acks |-> peer[p].acks]
  BY <1>1, OneField
<1> HIDE DEF q
<1>5. q \in Peer
  BY <1>1, <1>2, <1>4 DEF Peer
<1>6. PeerOK(p, q) /\ q.state = peer[p].state /\ q.challenge = peer[p].challenge
  BY <1>1, <1>2, <1>4, <1>5 DEF PeerOK
<1>7. \A r \in Peers : /\ PeerOK(r, peer'[r]) /\ peer'[r].challenge = peer[r].challenge
                       /\ \/ peer'[r].state = peer[r].state
                          \/ peer[r].state # "disconnected" /\ peer'[r].state = "zombie"
  <2> SUFFICES ASSUME NEW r \in Peers
               PROVE  /\ PeerOK(r, peer'[r]) /\ peer'[r].challenge = peer[r].challenge
                      /\ \/ peer'[r].state = peer[r].state
                         \/ peer[r].state # "disconnected" /\ peer'[r].state = "zombie"
    OBVIOUS
  <2>1. CASE r = p
    <3>1. peer'[r] = Transmitted(q)
      BY <1>3, <2>1
    <3> QED BY <1>6, <2>1, <3>1, TransmittedFacts
  <2>2. CASE r # p
    <3>1. peer'[r] = Transmitted(peer[r]) \/ peer'[r] = peer[r]
      BY <1>3, <2>2
    <3> QED BY <1>1, <3>1, TransmittedFacts
  <2> QED BY <2>1, <2>2
<1>8. peer' \in [Peers -> Peer]
  BY <1>3, <1>7 DEF PeerOK
<1>9. \A m \in wire' : MessageOK(m)
  <2>1. MessageOK(Command(p, "data", Number("data")))
    <3>1. Number("data") \in Numbers /\ "data" \in Kinds
      BY DEF Number, Numbers, Kinds, Reliable
    <3> QED BY <1>1, <3>1, CommandFacts
  <2>2. HostOf(p) \subseteq Peers
    BY DEF HostOf, Peers
  <2> QED BY <1>1, <2>1, <2>2, DatagramFacts DEF Send, WireInv
<1>10. /\ AppTypeOK' /\ NoForeignPacket' /\ user' = user
  <2>1. UNCHANGED <<user, joined, delivered, crashed>> /\ accepted' = accepted \cup {p}
    BY DEF Send
  <2> QED BY <1>1, <2>1, QuietFacts DEF TypeOK
<1>11. \A s \in Slots : SlotStep(s)
  BY <1>7, <1>10 DEF SlotStep, Held, Peers
<1> QED BY <1>7, <1>8, <1>9, <1>10, <1>11, StepKeepsInv

\* A peer that disconnects has only its goodbye to send.
LEMMA DisconnectingFacts ==
    ASSUME NEW p \in Peers, NEW q, PeerOK(p, q), q.state = "connected"
    PROVE  LET r == Disconnecting(q) IN
           PeerOK(p, r) /\ r.challenge = q.challenge /\ r.state = "disconnecting"
<1> DEFINE empty == ResetQueues(q)
           r == Disconnecting(q)
<1>1. q \in Peer
  BY DEF PeerOK
<1>2. empty = [state |-> q.state, challenge |-> q.challenge, remote |-> q.remote,
               outgoing |-> {}, sent |-> {}, acks |-> {}]
  BY <1>1, ResetQueuesFields
<1>3. r = [empty EXCEPT !.state = "disconnecting", !.outgoing = {"disconnect"}]
  BY DEF Disconnecting
<1> HIDE DEF empty, r
<1>4. empty \in Peer
  BY <1>1, <1>2 DEF Peer
<1>5. r = [state |-> "disconnecting", challenge |-> empty.challenge, remote |-> empty.remote,
           outgoing |-> {"disconnect"}, sent |-> empty.sent, acks |-> empty.acks]
  BY <1>3, <1>4, StateAndOutgoing
<1>6. r = [state |-> "disconnecting", challenge |-> q.challenge, remote |-> q.remote,
           outgoing |-> {"disconnect"}, sent |-> {}, acks |-> {}]
  BY <1>2, <1>5
<1>7. r \in Peer
  BY <1>1, <1>6 DEF Peer, States, Kinds, Reliable
<1>8. PeerOK(p, r)
  BY <1>6, <1>7 DEF PeerOK
<1> QED BY <1>6, <1>8 DEF r

\* The server boots a user.
LEMMA BootKeepsInv ==
    ASSUME ConnectionInv, NEW s \in Slots, Boot(s)
    PROVE  ConnectionInv'
<1>1. /\ PeersInv /\ TypeOK /\ NoForeignPacket /\ WireInv
      /\ \A r \in Peers : PeerOK(r, peer[r])
      /\ s \in Peers /\ peer[s].state = "connected"
  BY DEF ConnectionInv, PeersInv, Boot, Peers
<1>2. \A r \in Peers : /\ PeerOK(r, peer'[r]) /\ peer'[r].challenge = peer[r].challenge
                       /\ \/ peer'[r].state = peer[r].state
                          \/ peer[r].state # "disconnected" /\ peer'[r].state = "zombie"
                          \/ peer[r].state \in Held /\ peer'[r].state # "disconnected"
  <2> SUFFICES ASSUME NEW r \in Peers
               PROVE  /\ PeerOK(r, peer'[r]) /\ peer'[r].challenge = peer[r].challenge
                      /\ \/ peer'[r].state = peer[r].state
                         \/ peer[r].state # "disconnected" /\ peer'[r].state = "zombie"
                         \/ peer[r].state \in Held /\ peer'[r].state # "disconnected"
    OBVIOUS
  <2>1. CASE r = s
    <3>1. peer'[r] = Disconnecting(peer[r])
      BY <1>1, <2>1 DEF Boot
    <3> QED BY <1>1, <2>1, <3>1, DisconnectingFacts DEF Held
  <2>2. CASE r # s
    <3>1. peer'[r] = Transmitted(peer[r]) \/ peer'[r] = peer[r]
      BY <2>2 DEF Boot
    <3> QED BY <1>1, <3>1, TransmittedFacts
  <2> QED BY <2>1, <2>2
<1>3. peer' \in [Peers -> Peer]
  BY <1>2 DEF Boot, PeerOK
<1>4. \A m \in wire' : MessageOK(m)
  BY <1>1, DatagramFacts DEF Boot, WireInv, Peers
<1>5. AppTypeOK' /\ NoForeignPacket' /\ user' = user
  BY <1>1, QuietFacts DEF appVars, TypeOK, Boot
<1>6. \A t \in Slots : SlotStep(t)
  BY <1>2, <1>5 DEF SlotStep, Held, Peers
<1> QED BY <1>2, <1>3, <1>4, <1>5, <1>6, StepKeepsInv

\* A client leaves.
LEMMA LeaveKeepsInv ==
    ASSUME ConnectionInv, NEW a \in Attempts, Leave(a)
    PROVE  ConnectionInv'
<1>1. /\ PeersInv /\ TypeOK /\ NoForeignPacket /\ WireInv
      /\ a \in Peers /\ a \notin Slots /\ PeerOK(a, peer[a]) /\ peer \in [Peers -> Peer]
  BY NamesAssumption DEF ConnectionInv, Peers, PeersInv
<1>2. AppTypeOK' /\ NoForeignPacket' /\ user' = user
  <2>1. joined' \in [Attempts -> BOOLEAN] /\ UNCHANGED <<user, accepted, delivered, crashed>>
    BY <1>1 DEF Leave, TypeOK
  <2> QED BY <1>1, <2>1, QuietFacts DEF TypeOK
<1>3. CASE peer[a].state = "connected" /\ peer' = [peer EXCEPT ![a] = Disconnecting(peer[a])] /\ wire' = wire
  BY <1>1, <1>2, <1>3, DisconnectingFacts, OnePeerStep DEF WireInv
<1>4. CASE /\ peer[a].state = "acknowledgingDisconnect"
           /\ peer' = [peer EXCEPT ![a] = ResetPeer]
           /\ wire' = wire \cup {Command(a, "disconnectNow", Number("disconnectNow"))}
  <2>1. MessageOK(Command(a, "disconnectNow", Number("disconnectNow")))
    <3>1. Number("disconnectNow") \in Numbers /\ "disconnectNow" \in Kinds
      BY DEF Number, Numbers, Kinds
    <3> QED BY <1>1, <1>4, <3>1, CommandFacts
  <2> QED BY <1>1, <1>2, <1>4, <2>1, ResetFacts, OnePeerStep DEF WireInv
<1>5. CASE UNCHANGED <<peer, wire>>
  <2>1. peer' = [peer EXCEPT ![a] = peer[a]]
    BY <1>1, <1>5
  <2> QED BY <1>1, <1>2, <1>5, <2>1, OnePeerStep DEF WireInv
<1> QED BY <1>3, <1>4, <1>5 DEF Leave

-----------------------------------------------------------------------------
(* The theorems.                                                           *)

\* No step of the hosts or of their programs breaks the invariant.
LEMMA ConnectionInvNext == ConnectionInv /\ [Next]_vars => ConnectionInv'
<1> SUFFICES ASSUME ConnectionInv, [Next]_vars PROVE ConnectionInv'
  OBVIOUS
<1>1. CASE SendOutgoing(Slots)
  BY <1>1, SendOutgoingKeepsInv DEF Peers
<1>2. ASSUME NEW a \in Attempts, SendOutgoing({a}) PROVE ConnectionInv'
  BY <1>2, SendOutgoingKeepsInv DEF Peers
<1>3. ASSUME NEW p \in Peers, GiveUp(p) \/ DispatchZombie(p) PROVE ConnectionInv'
  BY <1>3, GiveUpKeepsInv
<1>4. ASSUME NEW m \in wire, HandleConnect(m) PROVE ConnectionInv'
  BY <1>4, ConnectKeepsInv
<1>5. ASSUME NEW p \in Peers, NEW m \in wire, HandleVerifyConnect(p, m) PROVE ConnectionInv'
  BY <1>5, VerifyKeepsInv
<1>6. ASSUME NEW p \in Peers, NEW m \in wire, HandleAcknowledge(p, m) PROVE ConnectionInv'
  BY <1>6, AcknowledgeKeepsInv
<1>7. ASSUME NEW p \in Peers, NEW m \in wire, HandleDisconnect(p, m) PROVE ConnectionInv'
  BY <1>7, DisconnectKeepsInv
<1>8. ASSUME NEW p \in Peers, NEW m \in wire, HandleSendReliable(p, m) PROVE ConnectionInv'
  BY <1>8, ReliableKeepsInv
<1>9. ASSUME NEW a \in Attempts, Connect(a) \/ ForceReset(a) PROVE ConnectionInv'
  BY <1>9, ClientKeepsInv
<1>10. ASSUME NEW p \in Senders, Send(p) PROVE ConnectionInv'
  BY <1>10, SendKeepsInv, SendersAssumption
<1>11. ASSUME NEW s \in Slots, Boot(s) PROVE ConnectionInv'
  BY <1>11, BootKeepsInv
<1>12. ASSUME NEW a \in Attempts, Leave(a) PROVE ConnectionInv'
  BY <1>12, LeaveKeepsInv
<1>13. CASE UNCHANGED vars
  BY <1>13 DEF vars, appVars, ConnectionInv, TypeOK, PeersInv, WireInv, OnlyFarewellOwed,
               OneSlotPerClient, UserIsTenant, NoForeignPacket
<1> QED BY <1>1, <1>2, <1>3, <1>4, <1>5, <1>6, <1>7, <1>8, <1>9, <1>10, <1>11, <1>12, <1>13 DEF Next

\* The invariant holds of every state of every behaviour.
THEOREM ConnectionInvariant == Spec => []ConnectionInv
<1>1. Init => ConnectionInv
  <2> SUFFICES ASSUME Init PROVE ConnectionInv
    OBVIOUS
  <2>1. \A p \in Peers : PeerOK(p, ResetPeer) /\ ResetPeer.state = "disconnected"
    BY ResetFacts
  <2>2. \A p \in Peers : peer[p] = ResetPeer
    BY DEF Init
  <2>3. PeersInv
    BY <2>1, <2>2 DEF Init, PeersInv, PeerOK
  <2>4. TypeOK
    BY <2>3 DEF Init, TypeOK, PeersInv
  <2>5. WireInv /\ NoForeignPacket
    BY DEF Init, WireInv, NoForeignPacket
  <2>6. OnlyFarewellOwed /\ OneSlotPerClient /\ UserIsTenant
    BY <2>1, <2>2 DEF OnlyFarewellOwed, OneSlotPerClient, UserIsTenant, Peers
  <2> QED BY <2>3, <2>4, <2>5, <2>6 DEF ConnectionInv
<1> QED BY <1>1, ConnectionInvNext, PTL DEF Spec

\* Every variable keeps its type.
THEOREM ConnectionTypeCorrect == Spec => []TypeOK
<1>1. ConnectionInv => TypeOK
  BY DEF ConnectionInv
<1> QED BY <1>1, ConnectionInvariant, PTL

\* A peer that is saying goodbye owes no other acknowledgement, so the loop of
\* enet_protocol_send_acknowledgements always advances.
THEOREM GoodbyeOwesNothingElse == Spec => []OnlyFarewellOwed
<1>1. ConnectionInv => OnlyFarewellOwed
  BY DEF ConnectionInv
<1> QED BY <1>1, ConnectionInvariant, PTL

\* However often a CONNECT is repeated or delayed, a client never holds two
\* slots (enet_protocol_handle_connect).
THEOREM ClientHoldsOneSlot == Spec => []OneSlotPerClient
<1>1. ConnectionInv => OneSlotPerClient
  BY DEF ConnectionInv
<1> QED BY <1>1, ConnectionInvariant, PTL

\* The user a connected slot carries is the one made for this connection,
\* however often the slot was used before (Server::ServerTick).
THEOREM TenantIsUser == Spec => []UserIsTenant
<1>1. ConnectionInv => UserIsTenant
  BY DEF ConnectionInv
<1> QED BY <1>1, ConnectionInvariant, PTL

\* No packet of an earlier connection reaches the user of a later one
\* (enet_protocol_handle_incoming_commands, Server::ServerTick).
THEOREM PacketsAreTheTenants == Spec => []NoForeignPacket
<1>1. ConnectionInv => NoForeignPacket
  BY DEF ConnectionInv
<1> QED BY <1>1, ConnectionInvariant, PTL

-----------------------------------------------------------------------------
(* Why slots die.  The run on ZombieHasLeft shows a slot that dies although *)
(* its client has not left; this is how far that can go.                    *)

\* The client has said goodbye; somebody has said goodbye to the slot.
SaidGoodbye(a) ==
    \E m \in wire : m.from = a /\ m.kind \in {"disconnect", "disconnectNow"}

GoodbyeTo(s) ==
    \E m \in wire : m.to = s /\ m.kind \in {"disconnect", "disconnectNow"}

\* What is so of a slot: it owes no acknowledgement while it disconnects, it
\* answers only the goodbye of its tenant, and it owes the acknowledgement of a
\* DISCONNECT, or is dead, only if it was sent one.
FarewellOK(s, q) ==
    /\ q.state = "disconnecting" => q.acks = {}
    /\ q.state = "acknowledgingDisconnect" => SaidGoodbye(q.challenge)
    /\ "disconnect" \in q.acks \/ q.state = "zombie" => GoodbyeTo(s)

SlotsAnswerGoodbyes == \A s \in Slots : FarewellOK(s, peer[s])

\* How a slot that was q dies: of the goodbye of its tenant, or, in its handshake
\* or connected, of the acknowledgement of a DISCONNECT that it owes.
MayDie(q) ==
    \/ SaidGoodbye(q.challenge)
    \/ "disconnect" \in q.acks /\ q.state \in {"acknowledgingConnect", "connected"}

\* The acknowledgement of a DISCONNECT comes to be owed only through the goodbye
\* of the tenant, which leaves the slot free or saying goodbye: one that is owed
\* in a handshake or by a connected slot was owed before the slot was taken.
MayOwe(q, state) ==
    /\ SaidGoodbye(q.challenge)
    /\ state \in {"acknowledgingDisconnect", "disconnected"}

DiesOfGoodbye(s) ==
    /\ peer[s].state # "zombie" /\ peer'[s].state = "zombie" => MayDie(peer[s])
    /\ "disconnect" \in peer'[s].acks \ peer[s].acks => MayOwe(peer[s], peer'[s].state)

\* What a step makes of a slot, with what was on the wire before it.
FarewellStep(s) == FarewellOK(s, peer'[s]) /\ DiesOfGoodbye(s)

\* Nothing leaves the wire.
LEMMA WireGrows ==
    ASSUME [Next]_vars
    PROVE  wire \subseteq wire'
<1>1. CASE UNCHANGED vars
  BY <1>1 DEF vars
<1>2. CASE Next
  BY <1>2 DEF Next, SendOutgoing, GiveUp, DispatchZombie, HandleConnect, HandleVerifyConnect,
              HandleAcknowledge, HandleDisconnect, HandleSendReliable, Connect, ForceReset,
              Send, Boot, Leave
<1> QED BY <1>1, <1>2

\* A slot that does not change, or is free.
LEMMA QuietFarewell ==
    ASSUME SlotsAnswerGoodbyes, NEW s \in Slots, peer'[s] = peer[s] \/ peer'[s] = ResetPeer
    PROVE  FarewellStep(s)
BY DEF SlotsAnswerGoodbyes, FarewellStep, FarewellOK, DiesOfGoodbye, ResetPeer

\* A slot that sends what it has queued, and perhaps a packet with it.
LEMMA TransmittedFarewell ==
    ASSUME PeersInv, SlotsAnswerGoodbyes, NEW s \in Slots, NEW q \in Peer,
           q.state = peer[s].state, q.challenge = peer[s].challenge, q.acks = peer[s].acks,
           peer'[s] = Transmitted(q)
    PROVE  FarewellStep(s)
<1>1. PeerOK(s, peer[s]) /\ FarewellOK(s, peer[s])
  BY DEF PeersInv, SlotsAnswerGoodbyes, Peers
<1>2. CASE Silent(q)
  BY <1>1, <1>2 DEF Transmitted, FarewellStep, FarewellOK, DiesOfGoodbye
<1>3. CASE ~Silent(q)
  <2> DEFINE state == IF "disconnect" \in q.acks THEN "zombie" ELSE q.state
             out == q.sent \cup (q.outgoing \cap Reliable)
  <2>1. peer'[s] = [state |-> state, challenge |-> q.challenge, remote |-> q.remote,
                    outgoing |-> {}, sent |-> out, acks |-> {}]
    BY <1>3, TransmittedRecord
  <2>2. q.state \in States \ {"disconnected", "zombie", "connecting"}
    BY <1>1, <1>3 DEF PeerOK, Peer, Silent
  <2> HIDE DEF out, state
  <2>3. peer'[s].state = state /\ peer'[s].acks = {} /\ peer'[s].challenge = q.challenge
    BY <2>1
  <2>4. FarewellOK(s, peer'[s])
    BY <1>1, <1>3, <2>3 DEF FarewellOK, state, Silent
  <2>5. DiesOfGoodbye(s)
    BY <1>1, <1>3, <2>2, <2>3 DEF DiesOfGoodbye, MayDie, FarewellOK, state, States
  <2> QED BY <2>4, <2>5 DEF FarewellStep
<1> QED BY <1>2, <1>3

\* A slot that comes to owe another acknowledgement.
LEMMA AcknowledgedFarewell ==
    ASSUME PeersInv, SlotsAnswerGoodbyes, NEW s \in Slots,
           NEW kind \in Reliable \ {"disconnect"}, peer'[s] = Acknowledged(peer[s], kind)
    PROVE  FarewellStep(s)
<1>1. peer[s] \in Peer /\ FarewellOK(s, peer[s])
  BY DEF PeersInv, PeerOK, SlotsAnswerGoodbyes, Peers
<1>2. CASE peer'[s] = peer[s]
  BY <1>2, QuietFarewell
<1>3. CASE peer'[s] # peer[s]
  <2>1. /\ peer[s].state # "disconnecting"
        /\ peer'[s] = [state |-> peer[s].state, challenge |-> peer[s].challenge,
                       remote |-> peer[s].remote, outgoing |-> peer[s].outgoing,
                       sent |-> peer[s].sent, acks |-> peer[s].acks \cup {kind}]
    BY <1>1, <1>3, AcknowledgedRecord
  <2>2. peer'[s].state = peer[s].state /\ peer'[s].challenge = peer[s].challenge
        /\ peer'[s].acks = peer[s].acks \cup {kind}
    BY <2>1
  <2> QED BY <1>1, <2>1, <2>2 DEF FarewellStep, FarewellOK, DiesOfGoodbye
<1> QED BY <1>2, <1>3

\* A peer other than the slot, or the slot itself, is all that a step of one
\* peer changes.
LEMMA OtherPeer ==
    ASSUME PeersInv, NEW p \in Peers, NEW q, peer' = [peer EXCEPT ![p] = q], NEW s \in Slots
    PROVE  peer'[s] = IF s = p THEN q ELSE peer[s]
BY DEF PeersInv, Peers

\* A CONNECT takes a free slot as it is: it may owe the acknowledgement of a
\* DISCONNECT that came to its last tenant.
LEMMA ConnectFarewell ==
    ASSUME PeersInv, SlotsAnswerGoodbyes, NEW m \in wire, HandleConnect(m), NEW s \in Slots
    PROVE  FarewellStep(s)
<1>1. PICK t \in FreeSlot(m.challenge) :
        peer' = [peer EXCEPT ![t] = Acknowledged(Taken(t, m), "connect")]
  BY ConnectTakes
<1>2. t \in Slots /\ peer[t].state = "disconnected"
  BY DEF FreeSlot
<1>3. CASE s # t
  <2>1. peer'[s] = peer[s]
    BY <1>1, <1>3 DEF PeersInv, Peers
  <2> QED BY <2>1, QuietFarewell
<1>4. CASE s = t
  <2>1. peer[s] \in Peer /\ FarewellOK(s, peer[s])
    BY DEF PeersInv, PeerOK, SlotsAnswerGoodbyes, Peers
  <2>2. peer'[s] = [Taken(s, m) EXCEPT !.acks = Taken(s, m).acks \cup {"connect"}]
    BY <1>1, <1>4 DEF PeersInv, Peers, Taken, Acknowledged
  <2>3. peer'[s].state = "acknowledgingConnect" /\ peer'[s].acks = peer[s].acks \cup {"connect"}
    BY <2>2 DEF Taken
  <2> QED BY <2>1, <2>3 DEF FarewellStep, FarewellOK, DiesOfGoodbye
<1> QED BY <1>3, <1>4

\* A slot is never connecting, so a VERIFY_CONNECT is only acknowledged.
LEMMA VerifyFarewell ==
    ASSUME PeersInv, SlotsAnswerGoodbyes, NEW p \in Peers, NEW m \in wire,
           HandleVerifyConnect(p, m), NEW s \in Slots
    PROVE  FarewellStep(s)
<1>1. CASE s = p
  <2>1. peer[p].state # "connecting"
    BY <1>1 DEF PeersInv, PeerOK
  <2>2. peer' = [peer EXCEPT ![p] = Acknowledged(peer[p], "verify")]
    BY <2>1 DEF HandleVerifyConnect
  <2>3. peer'[s] = Acknowledged(peer[s], "verify") /\ "verify" \in Reliable \ {"disconnect"}
    BY <1>1, <2>2 DEF Reliable, PeersInv, Peers
  <2> QED BY <2>3, AcknowledgedFarewell
<1>2. CASE s # p
  <2>1. peer'[s] = peer[s]
    BY <1>2 DEF HandleVerifyConnect, PeersInv, Peers
  <2> QED BY <2>1, QuietFarewell
<1> QED BY <1>1, <1>2

\* An acknowledgement connects a slot, frees it, or leaves its state alone; what
\* the slot owes is not touched.
LEMMA AcknowledgeFarewell ==
    ASSUME PeersInv, SlotsAnswerGoodbyes, NEW p \in Peers, NEW m \in wire,
           HandleAcknowledge(p, m), NEW s \in Slots
    PROVE  FarewellStep(s)
<1> DEFINE removed == {k \in peer[p].sent : Number(k) = m.number}
           q == [peer[p] EXCEPT !.sent = peer[p].sent \ removed]
           r == [q EXCEPT !.state = "connected"]
<1>1. \/ q.state = "acknowledgingConnect" /\ peer' = [peer EXCEPT ![p] = r]
      \/ peer' = [peer EXCEPT ![p] = ResetPeer]
      \/ peer' = [peer EXCEPT ![p] = q]
  BY DEF HandleAcknowledge
<1>2. peer[p] \in Peer /\ PeerOK(p, peer[p])
  BY DEF PeersInv, PeerOK
<1> HIDE DEF removed
<1>3. q.state = peer[p].state /\ q.challenge = peer[p].challenge /\ q.acks = peer[p].acks
  BY <1>2, OneField
<1>4. r.state = "connected" /\ r.acks = peer[p].acks
  <2>1. q = [state |-> peer[p].state, challenge |-> peer[p].challenge, remote |-> peer[p].remote,
             outgoing |-> peer[p].outgoing, sent |-> peer[p].sent \ removed, acks |-> peer[p].acks]
    BY <1>2, OneField
  <2> HIDE DEF q
  <2> QED BY <2>1
<1> HIDE DEF q, r
<1>5. CASE s # p
  <2>1. peer'[s] = peer[s]
    BY <1>1, <1>5, OtherPeer
  <2> QED BY <2>1, QuietFarewell
<1>6. CASE s = p
  <2>1. FarewellOK(s, peer[s])
    BY DEF SlotsAnswerGoodbyes
  <2>2. CASE peer'[s] = ResetPeer
    BY <2>2, QuietFarewell
  <2>3. CASE peer'[s] = q
    BY <1>3, <1>6, <2>1, <2>3 DEF FarewellStep, FarewellOK, DiesOfGoodbye
  <2>4. CASE peer'[s] = r /\ q.state = "acknowledgingConnect"
    BY <1>3, <1>4, <1>6, <2>1, <2>4 DEF FarewellStep, FarewellOK, DiesOfGoodbye
  <2> QED BY <1>1, <1>6, <2>2, <2>3, <2>4, OtherPeer
<1> QED BY <1>5, <1>6

\* A DISCONNECT comes from the tenant of the slot, who has therefore left.
LEMMA DisconnectFarewell ==
    ASSUME PeersInv, WireInv, SlotsAnswerGoodbyes, NEW p \in Peers, NEW m \in wire,
           HandleDisconnect(p, m), NEW s \in Slots
    PROVE  FarewellStep(s)
<1> DEFINE state == IF m.kind = "disconnect" THEN "acknowledgingDisconnect" ELSE "zombie"
           q == IF peer[p].state # "connected" THEN ResetPeer
                ELSE [ResetQueues(peer[p]) EXCEPT !.state = state]
           r == IF m.kind = "disconnect" THEN Acknowledged(q, "disconnect") ELSE q
<1>1. peer' = [peer EXCEPT ![p] = r]
  BY DEF HandleDisconnect
<1>2. CASE s # p
  <2> HIDE DEF r
  <2>1. peer'[s] = peer[s]
    BY <1>1, <1>2, OtherPeer
  <2> QED BY <2>1, QuietFarewell
<1>3. CASE s = p
  <2>1. /\ peer[p] \in Peer /\ MessageOK(m) /\ m.to = p /\ m.challenge = peer[p].challenge
        /\ m.kind \in {"disconnect", "disconnectNow"}
    BY DEF PeersInv, PeerOK, WireInv, HandleDisconnect, Heard
  <2>2. m.from \in Attempts /\ m.from = peer[p].challenge
    <3>1. m.from \in Peers /\ p \notin Attempts
      BY <1>3, <2>1, NamesAssumption DEF MessageOK, Message
    <3> QED BY <1>3, <2>1, <3>1 DEF MessageOK, Peers
  <2>3. SaidGoodbye(peer[s].challenge) /\ GoodbyeTo(s)
    BY <1>3, <2>1, <2>2 DEF SaidGoodbye, GoodbyeTo
  <2>4. state \in {"acknowledgingDisconnect", "zombie"}
        /\ (m.kind = "disconnect" <=> state = "acknowledgingDisconnect")
    OBVIOUS
  <2>5. q \in Peer /\ q.acks = {} /\ q.state \in {"disconnected", state}
    <3>1. CASE peer[p].state # "connected"
      BY <3>1 DEF ResetPeer, Peer, States
    <3>2. CASE peer[p].state = "connected"
      <4>1. q = [ResetQueues(peer[p]) EXCEPT !.state = state]
        BY <3>2
      <4>2. ResetQueues(peer[p]) =
              [state |-> peer[p].state, challenge |-> peer[p].challenge, remote |-> peer[p].remote,
               outgoing |-> {}, sent |-> {}, acks |-> {}]
        BY <2>1, ResetQueuesFields
      <4> HIDE DEF q, state
      <4>3. q = [state |-> state, challenge |-> peer[p].challenge, remote |-> peer[p].remote,
                 outgoing |-> {}, sent |-> {}, acks |-> {}]
        BY <4>1, <4>2
      <4> QED BY <2>1, <2>4, <4>3 DEF Peer, States
    <3> QED BY <3>1, <3>2
  <2>6. q.state = "disconnected" \/ q.challenge = peer[p].challenge
    <3>1. CASE peer[p].state # "connected"
      BY <3>1 DEF ResetPeer
    <3>2. CASE peer[p].state = "connected"
      <4>1. q = [ResetQueues(peer[p]) EXCEPT !.state = state]
        BY <3>2
      <4> HIDE DEF q, state
      <4> QED BY <2>1, <4>1, ResetQueuesFields
    <3> QED BY <3>1, <3>2
  <2> HIDE DEF q, state
  <2>7. /\ r.state = q.state /\ r.challenge = q.challenge
        /\ r.state # "disconnecting"
        /\ "disconnect" \in r.acks => r.state \in {"acknowledgingDisconnect", "disconnected"}
    <3>1. CASE m.kind # "disconnect"
      BY <2>4, <2>5, <3>1
    <3>2. CASE m.kind = "disconnect"
      <4>1. r = Acknowledged(q, "disconnect") /\ "disconnect" \in Reliable
        BY <3>2 DEF Reliable
      <4>2. \/ r = q
            \/ r = [state |-> q.state, challenge |-> q.challenge, remote |-> q.remote,
                    outgoing |-> q.outgoing, sent |-> q.sent, acks |-> q.acks \cup {"disconnect"}]
        BY <2>5, <4>1, AcknowledgedRecord
      <4>3. r.state = q.state /\ r.challenge = q.challenge
        <5> HIDE DEF r
        <5> QED BY <4>2
      <4> HIDE DEF r
      <4> QED BY <2>4, <2>5, <3>2, <4>3
    <3> QED BY <3>1, <3>2
  <2>8. peer'[s] = r
    <3> HIDE DEF r
    <3> QED BY <1>1, <1>3 DEF PeersInv, Peers
  <2> HIDE DEF r
  <2>9. FarewellOK(s, peer'[s])
    BY <1>3, <2>3, <2>4, <2>5, <2>6, <2>7, <2>8 DEF FarewellOK
  <2>10. DiesOfGoodbye(s)
    BY <1>3, <2>3, <2>7, <2>8 DEF DiesOfGoodbye, MayDie, MayOwe
  <2> QED BY <2>9, <2>10 DEF FarewellStep
<1> QED BY <1>2, <1>3

\* The slots send what they have; a client's doing is none of theirs.
LEMMA SendOutgoingFarewell ==
    ASSUME PeersInv, SlotsAnswerGoodbyes, NEW host \in SUBSET Peers, SendOutgoing(host), NEW s \in Slots
    PROVE  FarewellStep(s)
<1>1. peer'[s] = Transmitted(peer[s]) \/ peer'[s] = peer[s]
  BY DEF SendOutgoing, Peers
<1>2. peer[s] \in Peer
  BY DEF PeersInv, PeerOK, Peers
<1> QED BY <1>1, <1>2, TransmittedFarewell, QuietFarewell

LEMMA SendFarewell ==
    ASSUME PeersInv, SlotsAnswerGoodbyes, NEW p \in Peers, Send(p), NEW s \in Slots
    PROVE  FarewellStep(s)
<1> DEFINE out == peer[s].outgoing \cup {"data"}
           q == [peer[s] EXCEPT !.outgoing = out]
<1>1. peer[s] \in Peer
  BY DEF PeersInv, PeerOK, Peers
<1>2. peer'[s] = Transmitted(q) \/ peer'[s] = Transmitted(peer[s]) \/ peer'[s] = peer[s]
  <2>1. s \in Peers
    BY DEF Peers
  <2>2. peer'[s] = IF s = p THEN Transmitted([peer[p] EXCEPT !.outgoing = peer[p].outgoing \cup {"data"}])
                   ELSE IF s \in HostOf(p) THEN Transmitted(peer[s]) ELSE peer[s]
    BY <2>1 DEF Send
  <2> QED BY <2>2
<1>3. out \in SUBSET Kinds
  BY <1>1 DEF Peer, Kinds, Reliable
<1> HIDE DEF out
<1>4. q = [state |-> peer[s].state, challenge |-> peer[s].challenge, remote |-> peer[s].remote,
           outgoing |-> out, sent |-> peer[s].sent, acks |-> peer[s].acks]
  BY <1>1, OneField
<1> HIDE DEF q
<1>5. q \in Peer /\ q.state = peer[s].state /\ q.challenge = peer[s].challenge /\ q.acks = peer[s].acks
  BY <1>1, <1>3, <1>4 DEF Peer
<1> QED BY <1>1, <1>2, <1>5, TransmittedFarewell, QuietFarewell

\* A slot that is booted forgets what it owes.
LEMMA BootFarewell ==
    ASSUME PeersInv, SlotsAnswerGoodbyes, NEW t \in Slots, Boot(t), NEW s \in Slots
    PROVE  FarewellStep(s)
<1>1. peer[s] \in Peer /\ peer[t].state = "connected" /\ s \in Peers
  BY DEF PeersInv, PeerOK, Peers, Boot
<1>2. CASE s # t
  <2>1. peer'[s] = Transmitted(peer[s])
    BY <1>1, <1>2 DEF Boot
  <2> QED BY <1>1, <2>1, TransmittedFarewell
<1>3. CASE s = t
  <2> DEFINE empty == ResetQueues(peer[s])
             r == Disconnecting(peer[s])
  <2>1. peer'[s] = r
    BY <1>1, <1>3 DEF Boot
  <2>2. empty = [state |-> peer[s].state, challenge |-> peer[s].challenge, remote |-> peer[s].remote,
                 outgoing |-> {}, sent |-> {}, acks |-> {}]
    BY <1>1, ResetQueuesFields
  <2>3. r = [empty EXCEPT !.state = "disconnecting", !.outgoing = {"disconnect"}]
    BY DEF Disconnecting
  <2> HIDE DEF empty, r
  <2>4. empty \in Peer
    BY <1>1, <2>2 DEF Peer
  <2>5. r.state = "disconnecting" /\ r.acks = {}
    BY <2>2, <2>3, <2>4, StateAndOutgoing
  <2> QED BY <2>1, <2>5 DEF FarewellStep, FarewellOK, DiesOfGoodbye
<1> QED BY <1>2, <1>3

\* No step lets a slot die of anything else.
LEMMA FarewellNext ==
    ASSUME ConnectionInv, SlotsAnswerGoodbyes, [Next]_vars
    PROVE  \A s \in Slots : FarewellStep(s)
<1> SUFFICES ASSUME NEW s \in Slots PROVE FarewellStep(s)
  OBVIOUS
<1>1. PeersInv /\ WireInv /\ s \in Peers /\ s \notin Attempts /\ Senders \subseteq Peers
  BY NamesAssumption, SendersAssumption DEF ConnectionInv, Peers
<1>2. CASE SendOutgoing(Slots)
  BY <1>1, <1>2, SendOutgoingFarewell DEF Peers
<1>3. ASSUME NEW a \in Attempts, SendOutgoing({a}) PROVE FarewellStep(s)
  BY <1>1, <1>3, SendOutgoingFarewell DEF Peers
<1>4. ASSUME NEW p \in Peers, GiveUp(p) \/ DispatchZombie(p) PROVE FarewellStep(s)
  <2>1. peer' = [peer EXCEPT ![p] = ResetPeer]
    BY <1>4 DEF GiveUp, DispatchZombie
  <2> QED BY <1>1, <2>1, OtherPeer, QuietFarewell
<1>5. ASSUME NEW m \in wire, HandleConnect(m) PROVE FarewellStep(s)
  BY <1>1, <1>5, ConnectFarewell
<1>6. ASSUME NEW p \in Peers, NEW m \in wire, HandleVerifyConnect(p, m) PROVE FarewellStep(s)
  BY <1>1, <1>6, VerifyFarewell
<1>7. ASSUME NEW p \in Peers, NEW m \in wire, HandleAcknowledge(p, m) PROVE FarewellStep(s)
  BY <1>1, <1>7, AcknowledgeFarewell
<1>8. ASSUME NEW p \in Peers, NEW m \in wire, HandleDisconnect(p, m) PROVE FarewellStep(s)
  BY <1>1, <1>8, DisconnectFarewell
<1>9. ASSUME NEW p \in Peers, NEW m \in wire, HandleSendReliable(p, m) PROVE FarewellStep(s)
  <2>1. peer' = [peer EXCEPT ![p] = Acknowledged(peer[p], "data")]
        /\ "data" \in Reliable \ {"disconnect"}
    BY <1>9 DEF HandleSendReliable, Reliable
  <2>2. peer'[s] = peer[s] \/ peer'[s] = Acknowledged(peer[s], "data")
    BY <1>1, <2>1 DEF PeersInv
  <2> QED BY <1>1, <2>1, <2>2, AcknowledgedFarewell, QuietFarewell
<1>10. ASSUME NEW a \in Attempts, Connect(a) \/ ForceReset(a) \/ Leave(a) PROVE FarewellStep(s)
  <2>1. peer'[s] = peer[s]
    BY <1>1, <1>10 DEF Connect, ForceReset, Leave, PeersInv
  <2> QED BY <2>1, QuietFarewell
<1>11. ASSUME NEW p \in Senders, Send(p) PROVE FarewellStep(s)
  BY <1>1, <1>11, SendFarewell
<1>12. ASSUME NEW t \in Slots, Boot(t) PROVE FarewellStep(s)
  BY <1>1, <1>12, BootFarewell
<1>13. CASE UNCHANGED vars
  BY <1>13, QuietFarewell DEF vars
<1> QED BY <1>2, <1>3, <1>4, <1>5, <1>6, <1>7, <1>8, <1>9, <1>10, <1>11, <1>12, <1>13 DEF Next

\* What is so of the slots stays so: what was heard stays on the wire.
LEMMA GoodbyesNext == ConnectionInv /\ SlotsAnswerGoodbyes /\ [Next]_vars => SlotsAnswerGoodbyes'
<1> SUFFICES ASSUME ConnectionInv, SlotsAnswerGoodbyes, [Next]_vars PROVE SlotsAnswerGoodbyes'
  OBVIOUS
<1>1. wire \subseteq wire' /\ \A s \in Slots : FarewellOK(s, peer'[s])
  BY WireGrows, FarewellNext DEF FarewellStep
<1>2. ASSUME NEW s \in Slots PROVE FarewellOK(s, peer[s])'
  BY <1>1 DEF FarewellOK, SaidGoodbye, GoodbyeTo
<1> QED BY <1>2 DEF SlotsAnswerGoodbyes

\* A slot that is saying goodbye answers its own tenant, and no slot is dead, or
\* owes the answer to a goodbye, that nobody sent it one
\* (enet_protocol_handle_disconnect).
THEOREM OnlyGoodbyesAnswered == Spec => []SlotsAnswerGoodbyes
<1>1. Init => SlotsAnswerGoodbyes
  BY DEF Init, SlotsAnswerGoodbyes, FarewellOK, ResetPeer, Peers
<1> QED BY <1>1, GoodbyesNext, ConnectionInvariant, PTL DEF Spec

\* A slot dies because its tenant has left, or because it was taken while it owed
\* the acknowledgement of its last tenant's DISCONNECT, which enet_peer_reset had
\* queued on it (enet_protocol_handle_disconnect): the counterexample of the run
\* on ZombieHasLeft is the only kind there is.
THEOREM OnlyGoodbyesKill == Spec => [][\A s \in Slots : DiesOfGoodbye(s)]_vars
<1>1. ConnectionInv /\ SlotsAnswerGoodbyes /\ [Next]_vars => [\A s \in Slots : DiesOfGoodbye(s)]_vars
  BY FarewellNext DEF FarewellStep
<1> QED BY <1>1, ConnectionInvariant, OnlyGoodbyesAnswered, PTL DEF Spec

\* How a slot becomes free without the event that deletes its user: of its
\* tenant's goodbye, which finds it in its handshake, or saying goodbye itself.
FreedQuietly(s) ==
    peer[s].state # "disconnected" /\ peer'[s].state = "disconnected" =>
        \/ user'[s] = None
        \/ /\ SaidGoodbye(peer[s].challenge)
           /\ peer[s].state \in {"acknowledgingConnect", "disconnecting", "acknowledgingDisconnect"}

\* A peer that hears a goodbye while it is connected is not free yet.
LEMMA DisconnectKeepsSlot ==
    ASSUME PeersInv, WireInv, NEW s \in Slots, NEW m \in wire, HandleDisconnect(s, m)
    PROVE  /\ SaidGoodbye(peer[s].challenge)
           /\ peer[s].state = "connected" => peer'[s].state # "disconnected"
           /\ peer[s].state \in {"connected", "acknowledgingConnect", "disconnecting",
                                 "acknowledgingDisconnect"}
<1> DEFINE state == IF m.kind = "disconnect" THEN "acknowledgingDisconnect" ELSE "zombie"
           q == [ResetQueues(peer[s]) EXCEPT !.state = state]
           r == IF m.kind = "disconnect" THEN Acknowledged(q, "disconnect") ELSE q
<1>1. /\ s \in Peers /\ s \notin Attempts /\ peer[s] \in Peer /\ PeerOK(s, peer[s])
      /\ MessageOK(m) /\ m.to = s /\ m.challenge = peer[s].challenge
      /\ m.kind \in {"disconnect", "disconnectNow"} /\ ~Silent(peer[s])
  BY NamesAssumption DEF PeersInv, PeerOK, WireInv, HandleDisconnect, Heard, Peers
<1>2. m.from \in Attempts
  <2>1. m.from \in Peers
    BY <1>1 DEF MessageOK, Message
  <2> QED BY <1>1, <2>1 DEF MessageOK, Peers
<1>3. SaidGoodbye(peer[s].challenge)
  BY <1>1, <1>2 DEF MessageOK, SaidGoodbye
<1>4. peer[s].state \in {"connected", "acknowledgingConnect", "disconnecting", "acknowledgingDisconnect"}
  BY <1>1 DEF PeerOK, Peer, States, Silent
<1>5. ASSUME peer[s].state = "connected" PROVE peer'[s].state # "disconnected"
  <2>1. peer' = [peer EXCEPT ![s] = r]
    BY <1>5 DEF HandleDisconnect
  <2>2. state \in States \ {"disconnected"}
    BY DEF States
  <2> HIDE DEF state
  <2>3. q = [state |-> state, challenge |-> peer[s].challenge, remote |-> peer[s].remote,
             outgoing |-> {}, sent |-> {}, acks |-> {}]
    <3>1. ResetQueues(peer[s]) =
            [state |-> peer[s].state, challenge |-> peer[s].challenge, remote |-> peer[s].remote,
             outgoing |-> {}, sent |-> {}, acks |-> {}]
      BY <1>1, ResetQueuesFields
    <3> QED BY <3>1
  <2> HIDE DEF q
  <2>4. q \in Peer /\ q.state = state
    BY <1>1, <2>2, <2>3 DEF Peer
  <2>5. r.state = state
    <3>1. CASE m.kind = "disconnect"
      <4>1. r = Acknowledged(q, "disconnect") /\ "disconnect" \in Reliable
        BY <3>1 DEF Reliable
      <4> HIDE DEF r
      <4> QED BY <2>4, <4>1, AcknowledgedRecord
    <3>2. CASE m.kind # "disconnect"
      BY <2>4, <3>2
    <3> QED BY <3>1, <3>2
  <2> HIDE DEF r
  <2> QED BY <1>1, <2>1, <2>2, <2>5 DEF PeersInv
<1> QED BY <1>3, <1>4, <1>5

\* Only a goodbye that is heard frees a slot quietly: every other step that frees
\* one has its event, and the rest leave a slot in use as they find it.
LEMMA FreedNext ==
    ASSUME ConnectionInv, [Next]_vars
    PROVE  \A s \in Slots : FreedQuietly(s)
<1> SUFFICES ASSUME NEW s \in Slots, peer[s].state # "disconnected",
                    peer'[s].state = "disconnected", user'[s] # None
             PROVE  /\ SaidGoodbye(peer[s].challenge)
                    /\ peer[s].state \in {"acknowledgingConnect", "disconnecting",
                                          "acknowledgingDisconnect"}
  BY DEF FreedQuietly
<1>1. /\ PeersInv /\ WireInv /\ s \in Peers /\ s \notin Attempts /\ Senders \subseteq Peers
      /\ PeerOK(s, peer[s]) /\ peer[s] \in Peer /\ peer \in [Peers -> Peer]
      /\ user \in [Slots -> Attempts \cup {None}]
  BY NamesAssumption, SendersAssumption DEF ConnectionInv, Peers, PeersInv, PeerOK, TypeOK
<1>2. peer'[s] # peer[s] /\ peer'[s] # Transmitted(peer[s])
  BY <1>1, TransmittedFacts
<1>3. ASSUME OnDisconnect(s) PROVE FALSE
  BY <1>1, <1>3 DEF OnDisconnect
<1>4. ASSUME NEW kind \in Reliable, peer'[s] = Acknowledged(peer[s], kind) PROVE FALSE
  BY <1>1, <1>4, AcknowledgedFacts
<1>5. ~SendOutgoing(Slots) /\ \A a \in Attempts : ~SendOutgoing({a})
  BY <1>1, <1>2 DEF SendOutgoing
<1>6. ASSUME NEW p \in Peers, GiveUp(p) \/ DispatchZombie(p) PROVE FALSE
  BY <1>1, <1>2, <1>3, <1>6 DEF GiveUp, DispatchZombie
<1>7. ASSUME NEW m \in wire, HandleConnect(m) PROVE FALSE
  <2>1. PICK t \in FreeSlot(m.challenge) :
          peer' = [peer EXCEPT ![t] = Acknowledged(Taken(t, m), "connect")]
    BY <1>1, <1>7, ConnectTakes
  <2>2. t # s
    BY DEF FreeSlot
  <2> QED BY <1>1, <1>2, <2>1, <2>2
<1>8. ASSUME NEW p \in Peers, NEW m \in wire, HandleVerifyConnect(p, m) PROVE FALSE
  <2>1. CASE s = p
    <3>1. peer[p].state # "connecting"
      BY <1>1, <2>1 DEF PeerOK
    <3>2. peer' = [peer EXCEPT ![p] = Acknowledged(peer[p], "verify")] /\ "verify" \in Reliable
      BY <1>8, <3>1 DEF HandleVerifyConnect, Reliable
    <3> QED BY <1>1, <1>4, <2>1, <3>2
  <2>2. CASE s # p
    BY <1>1, <1>2, <1>8, <2>2 DEF HandleVerifyConnect
  <2> QED BY <2>1, <2>2
<1>9. ASSUME NEW p \in Peers, NEW m \in wire, HandleAcknowledge(p, m) PROVE FALSE
  <2> DEFINE removed == {k \in peer[p].sent : Number(k) = m.number}
             left == peer[p].sent \ removed
             q == [peer[p] EXCEPT !.sent = peer[p].sent \ removed]
             r == [q EXCEPT !.state = "connected"]
  <2>1. \/ peer' = [peer EXCEPT ![p] = r]
        \/ peer' = [peer EXCEPT ![p] = ResetPeer] /\ OnDisconnect(p)
        \/ peer' = [peer EXCEPT ![p] = q]
    BY <1>9 DEF HandleAcknowledge
  <2>2. peer[p] \in Peer
    BY <1>1
  <2> HIDE DEF removed
  <2>3. q = [state |-> peer[p].state, challenge |-> peer[p].challenge, remote |-> peer[p].remote,
             outgoing |-> peer[p].outgoing, sent |-> left, acks |-> peer[p].acks]
    BY <2>2, OneField
  <2> HIDE DEF q, left
  <2>4. q.state = peer[p].state /\ r.state = "connected"
    BY <2>3
  <2> HIDE DEF r
  <2>5. s = p
    BY <1>1, <1>2, <2>1
  <2> QED BY <1>1, <1>3, <2>1, <2>4, <2>5
<1>10. ASSUME NEW p \in Peers, NEW m \in wire, HandleSendReliable(p, m) PROVE FALSE
  <2>1. peer' = [peer EXCEPT ![p] = Acknowledged(peer[p], "data")] /\ "data" \in Reliable
    BY <1>10 DEF HandleSendReliable, Reliable
  <2> QED BY <1>1, <1>2, <1>4, <2>1
<1>11. ASSUME NEW a \in Attempts, Connect(a) \/ ForceReset(a) \/ Leave(a) PROVE FALSE
  BY <1>1, <1>2, <1>11 DEF Connect, ForceReset, Leave
<1>12. ASSUME NEW p \in Senders, Send(p) PROVE FALSE
  <2> DEFINE out == peer[s].outgoing \cup {"data"}
             q == [peer[s] EXCEPT !.outgoing = out]
  <2>1. peer'[s] = Transmitted(q)
    <3>1. peer'[s] = IF s = p THEN Transmitted([peer[p] EXCEPT !.outgoing = peer[p].outgoing \cup {"data"}])
                     ELSE IF s \in HostOf(p) THEN Transmitted(peer[s]) ELSE peer[s]
      BY <1>1, <1>12 DEF Send
    <3> QED BY <1>2, <3>1
  <2>2. out \in SUBSET Kinds /\ "connect" \notin out
    BY <1>1 DEF Peer, Kinds, Reliable, PeerOK
  <2> HIDE DEF out
  <2>3. q = [state |-> peer[s].state, challenge |-> peer[s].challenge, remote |-> peer[s].remote,
             outgoing |-> out, sent |-> peer[s].sent, acks |-> peer[s].acks]
    BY <1>1, OneField
  <2> HIDE DEF q
  <2>4. q \in Peer
    BY <1>1, <2>2, <2>3 DEF Peer
  <2>5. PeerOK(s, q) /\ q.state = peer[s].state
    BY <1>1, <2>2, <2>3, <2>4 DEF PeerOK
  <2> QED BY <1>1, <2>1, <2>5, TransmittedFacts
<1>13. ASSUME NEW t \in Slots, Boot(t) PROVE FALSE
  <2>1. t = s /\ peer'[s] = Disconnecting(peer[s]) /\ peer[s].state = "connected"
    BY <1>1, <1>2, <1>13 DEF Boot
  <2> QED BY <1>1, <2>1, DisconnectingFacts
<1>14. ASSUME NEW p \in Peers, NEW m \in wire, HandleDisconnect(p, m)
       PROVE  /\ SaidGoodbye(peer[s].challenge)
              /\ peer[s].state \in {"acknowledgingConnect", "disconnecting",
                                    "acknowledgingDisconnect"}
  <2>1. p = s
    BY <1>1, <1>2, <1>14 DEF HandleDisconnect
  <2> QED BY <1>1, <1>14, <2>1, DisconnectKeepsSlot
<1>15. ~UNCHANGED vars
  BY <1>2 DEF vars
<1> QED BY <1>5, <1>6, <1>7, <1>8, <1>9, <1>10, <1>11, <1>12, <1>13, <1>14, <1>15 DEF Next

\* A slot becomes free with its user still there only by its tenant's goodbye,
\* and only if that comes in the middle of the handshake, or crosses the server's own
\* goodbye, or comes twice (enet_protocol_handle_disconnect): the counterexample of
\* the run on DisconnectReported is one of three kinds.
THEOREM OnlyGoodbyesGoUnreported == Spec => [][\A s \in Slots : FreedQuietly(s)]_vars
<1>1. ConnectionInv /\ [Next]_vars => [\A s \in Slots : FreedQuietly(s)]_vars
  BY FreedNext
<1> QED BY <1>1, ConnectionInvariant, PTL DEF Spec
==============================================================================
