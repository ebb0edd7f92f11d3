----------------------------- MODULE EnetChannel -----------------------------
(***************************************************************************)
(* One direction of an established ENet connection (src/project/src/enet): *)
(* the sending peer's outgoing and sent command lists, its flow-control    *)
(* window and its retransmission timers; a network that loses, duplicates, *)
(* delays and reorders; the receiving peer's per-channel incoming lists,   *)
(* acknowledgements, and the dispatcher that hands packets to the program. *)
(*                                                                         *)
(* Packets here are never longer than the MTU allows, as every packet of   *)
(* this game is: the fragmenting branch of enet_peer_send is not taken.    *)
(*                                                                         *)
(* A datagram carries several commands and is processed command by         *)
(* command; a command travels on its own here, which allows every          *)
(* interleaving a datagram does.  The network is the set of everything     *)
(* ever put on the wire: a member may be received now, later, often, or    *)
(* never.  Time is abstract: any unacknowledged command may be overdue     *)
(* when the timeouts are checked.                                          *)
(*                                                                         *)
(* Both peers are connected to begin with: how they came to be, and what   *)
(* arrives before they are, is the subject of EnetConnection.              *)
(***************************************************************************)
EXTENDS Integers, Sequences, FiniteSets, SequencesExt

CONSTANTS
    ChannelCount,  \* channels of the peer; 0 is served first
    Lengths,       \* payload lengths of the packets the program sends, none empty
    WindowSize,    \* peer->windowSize, in the unit of Lengths
    TimeoutLimit,  \* ENET_PEER_TIMEOUT_LIMIT: 32, six transmissions
    MaxSends,      \* bound on the packets sent on one channel
    MaxAcks        \* bound on the acknowledgements waiting to be sent

ASSUME ChannelCountAssumption == ChannelCount \in Nat \ {0}
ASSUME LengthsAssumption == Lengths \subseteq Nat \ {0}
ASSUME WindowAssumption == WindowSize \in Nat /\ \A n \in Lengths : n <= WindowSize
ASSUME TimeoutLimitAssumption == TimeoutLimit \in Nat \ {0}
ASSUME BoundsAssumption == MaxSends \in Nat /\ MaxAcks \in Nat \ {0}

Channels == 0 .. (ChannelCount - 1)

VARIABLES
    sent,        \* history: sent[ch][n] = the sequence numbers of packet n
    connected,   \* the sender's peer->state is CONNECTED
    outReliableSeq, outUnreliableSeq,   \* channel->outgoing...SequenceNumber
    outgoingReliable,    \* peer->outgoingReliableCommands
    outgoingUnreliable,  \* peer->outgoingUnreliableCommands
    sentReliable,        \* peer->sentReliableCommands
    dataInTransit,       \* peer->reliableDataInTransit
    wire, ackWire,       \* commands and acknowledgements put on the network
    inReliableSeq, inUnreliableSeq,     \* channel->incoming...SequenceNumber
    inReliable, inUnreliable,           \* channel->incoming...Commands
    acks,        \* the receiver's peer->acknowledgements
    delivered    \* history: packet numbers handed to the receiving program

senderVars   == <<sent, connected, outReliableSeq, outUnreliableSeq,
                  outgoingReliable, outgoingUnreliable, sentReliable, dataInTransit>>
receiverVars == <<inReliableSeq, inUnreliableSeq, inReliable, inUnreliable, acks, delivered>>
vars == <<senderVars, wire, ackWire, receiverVars>>

-----------------------------------------------------------------------------
\* Data.  packet is the packet's number among those sent on its channel.

SeqNumbers == [rel : Nat, unrel : Nat]
Command  == [ch : Channels, packet : Nat, rel : Nat, unrel : Nat]
Outgoing == [ch : Channels, packet : Nat, rel : Nat, unrel : Nat, len : Lengths, timeout : Nat]
Incoming == [packet : Nat, rel : Nat, unrel : Nat]
Ack      == [ch : Channels, rel : Nat]

\* A slip: the list entry goes out as it is, timer and all.
WholeEntry(c) == c

OnWire(c) == [ch |-> c.ch, packet |-> c.packet, rel |-> c.rel, unrel |-> c.unrel]
Queued(c) == [packet |-> c.packet, rel |-> c.rel, unrel |-> c.unrel]
AckOf(c)  == [ch |-> c.ch, rel |-> c.rel]

TypeOK ==
    /\ sent \in [Channels -> Seq(SeqNumbers)]
    /\ connected \in BOOLEAN
    /\ outReliableSeq \in [Channels -> Nat] /\ outUnreliableSeq \in [Channels -> Nat]
    /\ outgoingReliable \in Seq(Outgoing) /\ outgoingUnreliable \in Seq(Outgoing)
    /\ sentReliable \in Seq(Outgoing)
    /\ dataInTransit \in Int
    /\ wire \in SUBSET Command /\ ackWire \in SUBSET Ack
    /\ inReliableSeq \in [Channels -> Nat] /\ inUnreliableSeq \in [Channels -> Nat]
    /\ inReliable \in [Channels -> SUBSET Incoming]
    /\ inUnreliable \in [Channels -> SUBSET Incoming]
    /\ acks \in Seq(Ack)
    /\ delivered \in [Channels -> Seq(Nat)]

Init ==
    /\ sent = [ch \in Channels |-> <<>>]
    /\ connected = TRUE
    /\ outReliableSeq = [ch \in Channels |-> 0]
    /\ outUnreliableSeq = [ch \in Channels |-> 0]
    /\ outgoingReliable = <<>> /\ outgoingUnreliable = <<>> /\ sentReliable = <<>>
    /\ dataInTransit = 0
    /\ wire = {} /\ ackWire = {}
    /\ inReliableSeq = [ch \in Channels |-> 0]
    /\ inUnreliableSeq = [ch \in Channels |-> 0]
    /\ inReliable = [ch \in Channels |-> {}]
    /\ inUnreliable = [ch \in Channels |-> {}]
    /\ acks = <<>>
    /\ delivered = [ch \in Channels |-> <<>>]

-----------------------------------------------------------------------------
\* The sending peer.

\* enet_peer_send of a reliable packet: the channel's next reliable number.
SendReliable(ch, len) ==
    LET rel == outReliableSeq[ch] + 1 IN
    /\ connected
    /\ Len(sent[ch]) < MaxSends
    /\ sent' = [sent EXCEPT ![ch] = Append(@, [rel |-> rel, unrel |-> 0])]
    /\ outReliableSeq' = [outReliableSeq EXCEPT ![ch] = rel]
    /\ outgoingReliable' = Append(outgoingReliable,
            [ch |-> ch, packet |-> Len(sent[ch]) + 1, rel |-> rel, unrel |-> 0,
             len |-> len, timeout |-> 0])
    /\ UNCHANGED <<connected, outUnreliableSeq, outgoingUnreliable, sentReliable,
                   dataInTransit, wire, ackWire, receiverVars>>

\* enet_peer_send of an unreliable packet: it carries the number of the
\* last reliable packet queued before it on the channel.
SendUnreliable(ch, len) ==
    LET unrel == outUnreliableSeq[ch] + 1
        rel   == outReliableSeq[ch] IN
    /\ connected
    /\ Len(sent[ch]) < MaxSends
    /\ sent' = [sent EXCEPT ![ch] = Append(@, [rel |-> rel, unrel |-> unrel])]
    /\ outUnreliableSeq' = [outUnreliableSeq EXCEPT ![ch] = unrel]
    /\ outgoingUnreliable' = Append(outgoingUnreliable,
            [ch |-> ch, packet |-> Len(sent[ch]) + 1, rel |-> rel, unrel |-> unrel,
             len |-> len, timeout |-> 0])
    /\ UNCHANGED <<connected, outReliableSeq, outgoingReliable, sentReliable,
                   dataInTransit, wire, ackWire, receiverVars>>

\* A slip: the window is asked for room without counting what is in flight.
FitsEmptyWindow(c) == c.len <= WindowSize

\* The window is that of the handshake.  enet_protocol_handle_bandwidth_limit sets it
\* anew, to the same maximum unless the client's settings limit its bandwidth.
FitsWindow(c) == dataInTransit + c.len <= WindowSize

\* One round of enet_protocol_send_reliable_outgoing_commands: the first
\* outgoing command goes out if it fits the window.  The timeout, in units of
\* the first one, is set once and then only doubled.
TransmitReliable ==
    /\ outgoingReliable # <<>>
    /\ LET c == Head(outgoingReliable) IN
       /\ FitsWindow(c)
       /\ outgoingReliable' = Tail(outgoingReliable)
       /\ sentReliable' = Append(sentReliable,
              [c EXCEPT !.timeout = IF @ = 0 THEN 1 ELSE @])
       /\ dataInTransit' = dataInTransit + c.len
       /\ wire' = wire \cup {OnWire(c)}
    /\ UNCHANGED <<sent, connected, outReliableSeq, outUnreliableSeq,
                   outgoingUnreliable, ackWire, receiverVars>>

\* One round of enet_protocol_send_unreliable_outgoing_commands: the packet
\* throttle drops the command or lets it out; either way it is forgotten.
TransmitUnreliable(throttled) ==
    /\ outgoingUnreliable # <<>>
    /\ outgoingUnreliable' = Tail(outgoingUnreliable)
    /\ wire' = IF throttled THEN wire ELSE wire \cup {OnWire(Head(outgoingUnreliable))}
    /\ UNCHANGED <<sent, connected, outReliableSeq, outUnreliableSeq,
                   outgoingReliable, sentReliable, dataInTransit, ackWire, receiverVars>>

\* A slip: the lists are emptied but the peer still counts as connected.
ResetListsOnly ==
    /\ connected' = connected
    /\ outgoingReliable' = <<>> /\ outgoingUnreliable' = <<>> /\ sentReliable' = <<>>
    /\ dataInTransit' = 0

\* enet_peer_reset: every list of the peer is emptied.
ResetPeer ==
    /\ connected' = FALSE
    /\ outgoingReliable' = <<>> /\ outgoingUnreliable' = <<>> /\ sentReliable' = <<>>
    /\ dataInTransit' = 0

\* A slip: the overdue command waits behind everything else.
RequeueLast(c) == Append(outgoingReliable, [c EXCEPT !.timeout = 2 * @])

Requeue(c) == <<[c EXCEPT !.timeout = 2 * @]>> \o outgoingReliable

\* One round of enet_protocol_check_timeouts: command i of the sent list is
\* overdue.  It is retransmitted before anything else, with twice the timeout,
\* or, when it has reached the limit, the peer is given up.
CheckTimeout(i) ==
    /\ i \in 1 .. Len(sentReliable)
    /\ LET c == sentReliable[i] IN
       \/ /\ c.timeout >= TimeoutLimit
          /\ ResetPeer
       \/ /\ c.timeout < TimeoutLimit
          /\ dataInTransit' = dataInTransit - c.len
          /\ sentReliable' = RemoveAt(sentReliable, i)
          /\ outgoingReliable' = Requeue(c)
          /\ UNCHANGED <<connected, outgoingUnreliable>>
    /\ UNCHANGED <<sent, outReliableSeq, outUnreliableSeq, wire, ackWire, receiverVars>>

\* A slip: any command of the acknowledged channel will do.
AcknowledgedChannel(a) == {i \in 1 .. Len(sentReliable) : sentReliable[i].ch = a.ch}

\* Where an acknowledged command stands in the sent list; a command that has
\* been moved back to the outgoing list is not looked for there.
Acknowledged(a) == {i \in 1 .. Len(sentReliable) : AckOf(sentReliable[i]) = a}

\* enet_protocol_handle_acknowledge: the command is no longer outstanding.
HandleAcknowledge(a) ==
    /\ connected
    /\ a \in ackWire
    /\ \E i \in Acknowledged(a) :
        /\ dataInTransit' = dataInTransit - sentReliable[i].len
        /\ sentReliable' = RemoveAt(sentReliable, i)
    /\ UNCHANGED <<sent, connected, outReliableSeq, outUnreliableSeq, outgoingReliable,
                   outgoingUnreliable, wire, ackWire, receiverVars>>

-----------------------------------------------------------------------------
\* The receiving peer.

\* enet_protocol_handle_send_reliable: queued unless the list already holds
\* that number, and acknowledged whatever became of it.  No packet is empty
\* (LengthsAssumption), so its test of the length drops none.
HandleSendReliable(c) ==
    /\ c \in wire /\ c.unrel = 0
    /\ Len(acks) < MaxAcks
    /\ inReliable' = [inReliable EXCEPT ![c.ch] =
            IF \E q \in @ : q.rel = c.rel THEN @ ELSE @ \cup {Queued(c)}]
    /\ acks' = Append(acks, AckOf(c))
    /\ UNCHANGED <<senderVars, wire, ackWire, inReliableSeq, inUnreliableSeq,
                   inUnreliable, delivered>>

\* enet_protocol_handle_send_unreliable: dropped when a later reliable or
\* unreliable packet has already been delivered, or when it is queued already.
HandleSendUnreliable(c) ==
    /\ c \in wire /\ c.unrel # 0
    /\ c.rel >= inReliableSeq[c.ch]
    /\ c.unrel > inUnreliableSeq[c.ch]
    /\ ~\E q \in inUnreliable[c.ch] : q.unrel = c.unrel
    /\ inUnreliable' = [inUnreliable EXCEPT ![c.ch] = @ \cup {Queued(c)}]
    /\ UNCHANGED <<senderVars, wire, ackWire, inReliableSeq, inUnreliableSeq,
                   inReliable, acks, delivered>>

\* enet_protocol_send_acknowledgements: as many as fit the datagram.
SendAcknowledgements(n) ==
    /\ n \in 1 .. Len(acks)
    /\ ackWire' = ackWire \cup {acks[i] : i \in 1 .. n}
    /\ acks' = SubSeq(acks, n + 1, Len(acks))
    /\ UNCHANGED <<senderVars, wire, inReliableSeq, inUnreliableSeq,
                   inReliable, inUnreliable, delivered>>

\* A slip: the reliable packets sent before it are not waited for.
FrontUnreliable(ch) ==
    {u \in inUnreliable[ch] : \A v \in inUnreliable[ch] : u.unrel <= v.unrel}

\* The unreliable command enet_peer_receive would take: the front of the list,
\* unless a reliable packet sent before it is still missing.
NextUnreliable(ch) ==
    {u \in inUnreliable[ch] : /\ \A v \in inUnreliable[ch] : u.unrel <= v.unrel
                              /\ u.rel <= inReliableSeq[ch]}

\* A slip: everything but the next command is discarded.
OnlyNext(ch) == {r \in inReliable[ch] : r.rel = inReliableSeq[ch] + 1}

\* The reliable commands left once enet_peer_receive has discarded the stale
\* ones from the front, and then the one it would take.
Fresh(ch) == {r \in inReliable[ch] : r.rel > inReliableSeq[ch]}

\* A slip: the front of the list is taken without asking what came before it.
FrontReliable(ch) == {r \in Fresh(ch) : \A q \in Fresh(ch) : r.rel <= q.rel}

NextReliable(ch) == {r \in inReliable[ch] : r.rel = inReliableSeq[ch] + 1}

CanReceive(ch) == NextUnreliable(ch) \cup NextReliable(ch) # {}

\* The dispatcher tries the channels in order and stops at the first packet;
\* trying a channel without one only discards its stale commands.
VisitedBefore(ch) == \A d \in Channels : d < ch => ~CanReceive(d)

DispatchUnreliable(ch) ==
    /\ VisitedBefore(ch)
    /\ \E u \in NextUnreliable(ch) :
        /\ inUnreliableSeq' = [inUnreliableSeq EXCEPT ![ch] = u.unrel]
        /\ inUnreliable' = [inUnreliable EXCEPT ![ch] = @ \ {u}]
        /\ delivered' = [delivered EXCEPT ![ch] = Append(@, u.packet)]
    /\ inReliable' = [d \in Channels |-> IF d < ch THEN Fresh(d) ELSE inReliable[d]]
    /\ UNCHANGED <<senderVars, wire, ackWire, inReliableSeq, acks>>

DispatchReliable(ch) ==
    /\ VisitedBefore(ch)
    /\ NextUnreliable(ch) = {}
    /\ \E r \in NextReliable(ch) :
        /\ inReliableSeq' = [inReliableSeq EXCEPT ![ch] = r.rel]
        /\ inReliable' = [d \in Channels |->
                CASE d < ch -> Fresh(d)
                  [] d = ch -> Fresh(d) \ {r}
                  [] OTHER  -> inReliable[d]]
        /\ delivered' = [delivered EXCEPT ![ch] = Append(@, r.packet)]
    /\ UNCHANGED <<senderVars, wire, ackWire, inUnreliableSeq, inUnreliable, acks>>

DispatchNothing ==
    /\ \A ch \in Channels : ~CanReceive(ch)
    /\ inReliable' = [ch \in Channels |-> Fresh(ch)]
    /\ UNCHANGED <<senderVars, wire, ackWire, inReliableSeq, inUnreliableSeq,
                   inUnreliable, acks, delivered>>

-----------------------------------------------------------------------------
Next ==
    \/ \E ch \in Channels, len \in Lengths : SendReliable(ch, len)
    \/ \E ch \in Channels, len \in Lengths : SendUnreliable(ch, len)
    \/ TransmitReliable
    \/ \E throttled \in BOOLEAN : TransmitUnreliable(throttled)
    \/ \E i \in 1 .. Len(sentReliable) : CheckTimeout(i)
    \/ \E a \in ackWire : HandleAcknowledge(a)
    \/ \E c \in wire : HandleSendReliable(c)
    \/ \E c \in wire : HandleSendUnreliable(c)
    \/ \E n \in 1 .. Len(acks) : SendAcknowledgements(n)
    \/ \E ch \in Channels : DispatchUnreliable(ch)
    \/ \E ch \in Channels : DispatchReliable(ch)
    \/ DispatchNothing

Spec == Init /\ [][Next]_vars

\* The host is serviced again and again on both sides (Server::ServerTick,
\* Client::Tick), so whatever the lists hold is sent, checked and dispatched;
\* a command that stays unacknowledged is overdue some day.  Nothing is
\* assumed of the network.
OverdueCheck(ch, rel) ==
    \E i \in 1 .. Len(sentReliable) :
        AckOf(sentReliable[i]) = [ch |-> ch, rel |-> rel] /\ CheckTimeout(i)

Fairness ==
    /\ WF_vars(TransmitReliable)
    /\ \A ch \in Channels, rel \in 1 .. MaxSends : WF_vars(OverdueCheck(ch, rel))
    /\ \A ch \in Channels : WF_vars(DispatchUnreliable(ch)) /\ WF_vars(DispatchReliable(ch))

FairSpec == Spec /\ Fairness

-----------------------------------------------------------------------------
\* Properties.

\* The connection keeps the promise stated by ChannelOrder (enet_peer_receive,
\* enet_peer_queue_incoming_command): in order, at most once, and past no
\* reliable packet that has not been delivered.
Order == INSTANCE ChannelOrder WITH
            sent <- [ch \in Channels |->
                        [n \in 1 .. Len(sent[ch]) |-> sent[ch][n].unrel = 0]],
            broken <- ~connected

KeepsOrder == Order!COSpec

\* q carries the sequence numbers its packet was given when it was sent.
Carries(ch, q) ==
    /\ q.packet \in 1 .. Len(sent[ch])
    /\ sent[ch][q.packet] = [rel |-> q.rel, unrel |-> q.unrel]

\* The numbers of the packets of history h grow in the order of the calls of
\* enet_peer_send, up to the counters rel and unrel.
Growing(h, rel, unrel) ==
    \A m, n \in 1 .. Len(h) :
        /\ h[m].rel <= rel /\ h[m].unrel <= unrel
        /\ m < n => /\ h[m].rel <= h[n].rel
                    /\ h[n].unrel = 0 => h[m].rel < h[n].rel
                    /\ h[m].unrel # 0 /\ h[n].unrel # 0 => h[m].unrel < h[n].unrel

NumbersGrow ==
    \A ch \in Channels : Growing(sent[ch], outReliableSeq[ch], outUnreliableSeq[ch])

\* Wherever a command is, it still carries the numbers it was sent with.
CommandsCarryNumbers ==
    /\ \A c \in ToSet(outgoingReliable) \cup ToSet(sentReliable) :
            Carries(c.ch, c) /\ c.unrel = 0
    /\ \A c \in ToSet(outgoingUnreliable) : Carries(c.ch, c) /\ c.unrel # 0
    /\ \A c \in wire : Carries(c.ch, c)
    /\ \A ch \in Channels :
        /\ \A q \in inReliable[ch] : Carries(ch, q) /\ q.unrel = 0
        /\ \A q \in inUnreliable[ch] : Carries(ch, q) /\ q.unrel # 0

\* Of a channel with history h, the log of deliveries is in order and complete
\* up to reliable number rel, and nothing in the queue is older than the log.
InOrder(h, log, rel, unrel, queue) ==
    /\ \A q \in queue : q.rel >= rel /\ q.unrel > unrel
    /\ \A i \in 1 .. Len(log) :
            log[i] \in 1 .. Len(h) /\ h[log[i]].rel <= rel /\ h[log[i]].unrel <= unrel
    /\ \A i, j \in 1 .. Len(log) : i < j => log[i] < log[j]
    /\ \A n \in 1 .. Len(h) : h[n].unrel = 0 /\ h[n].rel <= rel
            => \E i \in 1 .. Len(log) : log[i] = n

\* The receiver is never ahead of the sender, and every channel is in order.
DeliveredInOrder ==
    \A ch \in Channels :
        /\ inReliableSeq[ch] <= outReliableSeq[ch]
        /\ InOrder(sent[ch], delivered[ch], inReliableSeq[ch], inUnreliableSeq[ch],
                   inUnreliable[ch])

\* The inductive reason for KeepsOrder: every queued or travelling command is
\* told apart from the delivered ones by its numbers alone.
OrderInv == NumbersGrow /\ CommandsCarryNumbers /\ DeliveredInOrder

\* The commands that still have to be acknowledged.
Outstanding == ToSet(outgoingReliable) \cup ToSet(sentReliable)

\* The receiver has taken charge of reliable packet rel of channel ch.
Received(ch, rel) ==
    \/ rel <= inReliableSeq[ch]
    \/ \E q \in inReliable[ch] : q.rel = rel

\* Until the peer is given up, a reliable packet that has not reached the
\* receiver is still going to be retransmitted: no acknowledgement, duplicate
\* or timeout makes the sender forget it early
\* (enet_protocol_remove_sent_reliable_command, check_timeouts).
NothingLost ==
    connected =>
        \A ch \in Channels : \A rel \in 1 .. outReliableSeq[ch] :
            \/ Received(ch, rel)
            \/ \E c \in Outstanding : c.ch = ch /\ c.rel = rel

\* An acknowledgement, queued or on its way, names a packet that arrived.
AcksTruthful == \A a \in ackWire \cup ToSet(acks) : Received(a.ch, a.rel)

\* The flow-control account is exact: it is the payload of the sent list, which
\* never exceeds the window.  A command acknowledged while it waits for its
\* retransmission, or timed out twice, must not be counted off twice: the
\* account is unsigned in the code and would wrap.
WindowExact ==
    /\ dataInTransit = FoldSeq(LAMBDA c, total : c.len + total, 0, sentReliable)
    /\ dataInTransit \in 0 .. WindowSize

\* A retransmission goes out before any packet never sent, and no reliable
\* packet is outstanding twice (check_timeouts moves commands to the front).
RetransmitFirst ==
    /\ \A i, j \in 1 .. Len(outgoingReliable) :
            i < j /\ outgoingReliable[i].timeout = 0 => outgoingReliable[j].timeout = 0
    /\ LET all == outgoingReliable \o sentReliable IN
       \A i, j \in 1 .. Len(all) : i # j => AckOf(all[i]) # AckOf(all[j])

\* Every reliable packet the program sent is delivered, or the sender finds
\* out: the peer is given up after the last retransmission (enet.h:85).
ReliableDelivery ==
    \A ch \in Channels, n \in 1 .. MaxSends :
        (n <= Len(sent[ch]) /\ sent[ch][n].unrel = 0)
            ~> (n \in ToSet(delivered[ch]) \/ ~connected)
=============================================================================
