---------------------------- MODULE EnetFragments ----------------------------
(***************************************************************************)
(* Packets longer than a datagram on one reliable channel of ENet          *)
(* (src/project/src/enet): cut into fragments by enet_peer_send, put       *)
(* together by enet_protocol_handle_send_fragment, handed over by          *)
(* enet_peer_receive.  Shorter packets travel between them in one piece.   *)
(*                                                                         *)
(* That a command is retransmitted until it is acknowledged is the subject *)
(* of EnetChannel.  Here every piece sent may arrive at any time, in any   *)
(* order and any number of times, and none is lost for good while its      *)
(* acknowledgement is missing.  Both peers stay connected.                 *)
(*                                                                         *)
(* The bitmap of fragments that have arrived is a set.  In the code it is  *)
(* an array of 32-bit words indexed by 1 << fragmentNumber, which for a    *)
(* number above 31 is undefined in C and the number modulo 32 on the       *)
(* processors this is built for, that is, the right bit.                   *)
(***************************************************************************)
EXTENDS Naturals, Sequences, FiniteSets, SequencesExt

CONSTANTS
    MaxPackets,    \* bound: packets the program sends
    MaxFragments   \* bound: fragments of a packet

ASSUME FragmentsAssumption == MaxPackets \in Nat /\ MaxFragments \in Nat \ {0}

VARIABLES
    packets,      \* history: the packets sent, as their first number and their size in pieces
    acknowledged, \* the numbers of the pieces that have been received
    incomingRel,  \* channel->incomingReliableSequenceNumber
    assembly,     \* channel->incomingReliableCommands
    handed        \* history: what enet_peer_receive has returned

fragmentVars == <<packets, acknowledged, incomingRel, assembly, handed>>

-----------------------------------------------------------------------------
Packet == [start : Nat \ {0}, size : 1 .. MaxFragments]

\* A packet in one piece has fragmentCount 0.  pieces: whose data has been
\* copied; for such a packet, 0.
IncomingCommand == [rel : Nat, start : Nat, fragmentCount : Nat, remaining : Nat,
                    pieces : SUBSET Nat]

FragmentsInit ==
    /\ packets = <<>> /\ acknowledged = {}
    /\ incomingRel = 0 /\ assembly = {} /\ handed = <<>>

\* A slip: a fragmented packet takes one number, as a whole one does.
FirstPieceNumber == 1 + Len(packets)

\* channel->outgoingReliableSequenceNumber + 1: every fragment takes a number.
NextStart == IF packets = <<>> THEN 1 ELSE Last(packets).start + Last(packets).size

\* enet_peer_send.
SendPacket(size) ==
    /\ Len(packets) < MaxPackets
    /\ packets' = Append(packets, [start |-> NextStart, size |-> size])
    /\ UNCHANGED <<acknowledged, incomingRel, assembly, handed>>

\* enet_peer_queue_incoming_command: sorted in, unless the number is there.
QueuedWith(c) == IF \E q \in assembly : q.rel = c.rel THEN assembly ELSE assembly \cup {c}

\* enet_protocol_handle_send_reliable
ReceiveWhole(p) ==
    /\ p.size = 1
    /\ assembly' = QueuedWith([rel |-> p.start, start |-> p.start, fragmentCount |-> 0,
                               remaining |-> 0, pieces |-> {0}])
    /\ acknowledged' = acknowledged \cup {p.start}
    /\ UNCHANGED <<packets, incomingRel, handed>>

\* A slip: a fragment that comes again is counted again.
WithEveryPiece(q, k) == [q EXCEPT !.pieces = @ \cup {k}, !.remaining = @ - 1]

WithPiece(q, k) ==
    [q EXCEPT !.pieces = @ \cup {k}, !.remaining = IF k \in q.pieces THEN @ ELSE @ - 1]

Takes(p) == p.start > incomingRel

\* The entry of a packet of which nothing has arrived: it keeps the header of
\* the fragment that opens it, number and all.
Opened(p, k) ==
    [rel |-> p.start + k, start |-> p.start, fragmentCount |-> p.size, remaining |-> p.size, pieces |-> {}]

\* enet_protocol_handle_send_fragment, and the acknowledgement that is sent
\* whatever it does.
ReceiveFragment(p, k) ==
    LET begun == {q \in assembly : q.fragmentCount > 0 /\ q.start = p.start} IN
    /\ p.size > 1
    /\ acknowledged' = acknowledged \cup {p.start + k}
    /\ \/ ~Takes(p) /\ UNCHANGED assembly
       \/ /\ Takes(p) /\ begun = {}
          /\ assembly' = QueuedWith(WithPiece(Opened(p, k), k))
       \/ /\ Takes(p)
          /\ \E q \in begun : assembly' = (assembly \ {q}) \cup {WithPiece(q, k)}
    /\ UNCHANGED <<packets, incomingRel, handed>>

\* What enet_peer_receive passes over: numbers already handed over, up to the
\* first entry it stops at.
Stale == {q \in assembly : /\ q.rel <= incomingRel /\ q.remaining = 0
                           /\ \A r \in assembly : r.rel < q.rel => r.remaining = 0}

\* A slip: entries are taken as they come.
DeliverableAny == {q \in assembly : q.remaining = 0 /\ q.rel > incomingRel}

Deliverable == {q \in assembly : /\ q.remaining = 0 /\ q.rel = incomingRel + 1
                                 /\ \A r \in assembly \ Stale : q.rel <= r.rel}

\* A slip: the number of the packet's first fragment is taken for its last.
FirstNumber(q) == q.rel

LastNumber(q) == IF q.fragmentCount > 0 THEN q.rel + q.fragmentCount - 1 ELSE q.rel

\* enet_peer_receive
Receive ==
    \/ /\ Deliverable = {} /\ Stale # {}
       /\ assembly' = assembly \ Stale
       /\ UNCHANGED <<packets, acknowledged, incomingRel, handed>>
    \/ \E q \in Deliverable :
       /\ assembly' = assembly \ (Stale \cup {q})
       /\ incomingRel' = LastNumber(q)
       /\ handed' = Append(handed, [start |-> q.start, pieces |-> q.pieces])
       /\ UNCHANGED <<packets, acknowledged>>

\* Piece k of packet n arrives, for the first time or again.
Arrive(n, k) ==
    /\ n \in DOMAIN packets /\ k < packets[n].size
    /\ ReceiveWhole(packets[n]) \/ ReceiveFragment(packets[n], k)

FragmentsNext ==
    \/ \E size \in 1 .. MaxFragments : SendPacket(size)
    \/ \E n \in 1 .. MaxPackets, k \in 0 .. MaxFragments - 1 : Arrive(n, k)
    \/ Receive

\* A piece is sent until it is acknowledged, and the dispatcher comes round.
FragmentsFairness ==
    /\ \A n \in 1 .. MaxPackets, k \in 0 .. MaxFragments - 1 :
          WF_fragmentVars(Arrive(n, k) /\ packets[n].start + k \notin acknowledged)
    /\ WF_fragmentVars(Receive)

FragmentsSpec == FragmentsInit /\ [][FragmentsNext]_fragmentVars /\ FragmentsFairness

-----------------------------------------------------------------------------
FragmentsTypeOK ==
    /\ packets \in Seq(Packet)
    /\ acknowledged \in SUBSET Nat
    /\ incomingRel \in Nat
    /\ IsFiniteSet(assembly) /\ assembly \in SUBSET IncomingCommand
    /\ handed \in Seq([start : Nat, pieces : SUBSET Nat])

\* The program gets the packets that were sent, in their order, each once and
\* with every fragment's data in it, whatever order the fragments came in and
\* however often (enet_protocol_handle_send_fragment, enet_peer_receive).
HandedWhole ==
    /\ Len(handed) <= Len(packets)
    /\ \A i \in DOMAIN handed : /\ handed[i].start = packets[i].start
                                /\ handed[i].pieces = 0 .. packets[i].size - 1

\* A fragment that opens its packet finds its number free in the list.  If it
\* did not, enet_peer_queue_incoming_command would return NULL and the handler
\* would count the fragment in it (enet_protocol_handle_send_fragment).
OpeningFindsRoom ==
    \A n \in DOMAIN packets, k \in 0 .. MaxFragments - 1 :
        LET p == packets[n] IN
        /\ p.size > 1 /\ k < p.size /\ Takes(p)
        /\ ~\E q \in assembly : q.fragmentCount > 0 /\ q.start = p.start
        => ~\E q \in assembly : q.rel = p.start + k

\* A packet whose entry was opened by another fragment than its first.
Misfiled == {q \in assembly : q.rel # q.start}

\* Such a packet stays where it is for ever, and so does everything after it:
\* enet_peer_receive waits for the number of its first fragment, which is
\* acknowledged, counted in the entry and never queued.
MisfiledStalls ==
    /\ [](\A q \in Misfiled : incomingRel < q.start)
    /\ [][\A q \in Misfiled : \E r \in assembly' : r.start = q.start /\ r.rel = q.rel]_fragmentVars

MisfiledUpTo(n) ==
    \E m \in DOMAIN packets : m <= n /\ \E q \in Misfiled : q.start = packets[m].start

\* Every packet is handed over, unless one up to it was misfiled: the only
\* thing that stops the channel (enet_protocol_handle_send_fragment).
HandedUnlessMisfiled ==
    \A n \in 1 .. MaxPackets :
        Len(packets) >= n ~> Len(handed) >= n \/ MisfiledUpTo(n)
=============================================================================
