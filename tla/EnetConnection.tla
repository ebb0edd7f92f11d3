--------------------------- MODULE EnetConnection ---------------------------
(***************************************************************************)
(* The life of connections between one server host and its clients: the    *)
(* handshake, the teardown and the reuse of peer slots in ENet             *)
(* (src/project/src/enet), and what Server::ServerTick, Server::Boot,      *)
(* Client::InitLogic and Client::~Client do with them.                     *)
(*                                                                         *)
(* A client object owns a host with one peer and connects once; it is      *)
(* named by its attempt, which stands for its address and its challenge    *)
(* (a random number, taken to be unique).  A peer is a server slot or a    *)
(* client; both run the same code.                                         *)
(*                                                                         *)
(* At most one reliable packet goes each way, and no pings: a command is   *)
(* known by its kind, and Number gives the channel and sequence number it  *)
(* has on the wire.  A command travels on its own; the network is the set  *)
(* of everything ever sent.  The time a reliable command is given before   *)
(* its peer is dropped is abstract: any transmitted command may be it.     *)
(***************************************************************************)
EXTENDS Naturals, FiniteSets

CONSTANTS
    SlotCount,   \* peerCount of the server's host
    Attempts,    \* the client objects
    Senders,     \* bound: the peers whose program sends a packet
    None         \* no attempt, no peer, no user: challenge 0, peer 0xFFFF, NULL

Slots == 0 .. (SlotCount - 1)
Peers == Slots \cup Attempts

ASSUME SlotAssumption == SlotCount \in Nat \ {0}
ASSUME NamesAssumption == Attempts \cap Slots = {} /\ None \notin Peers
ASSUME SendersAssumption == Senders \subseteq Peers

VARIABLES
    peer,       \* the ENetPeer of every slot and client
    wire,       \* every command put on the network
    user,       \* per slot, peer->data: the ServerUser, named by its attempt
    joined,     \* per client, Client::connected
    accepted,   \* history: the peers whose enet_peer_send took a packet
    delivered,  \* history: the packets handed to the server, as <<user, sender>>
    crashed     \* history: the server has dereferenced a NULL peer->data

appVars == <<user, joined, accepted, delivered, crashed>>
vars == <<peer, wire, appVars>>

-----------------------------------------------------------------------------
States == {"disconnected", "connecting", "acknowledgingConnect", "connected",
           "disconnecting", "acknowledgingDisconnect", "zombie"}

\* disconnectNow is a DISCONNECT without the flag that asks for an answer.
Reliable == {"connect", "verify", "data", "disconnect"}
Kinds == Reliable \cup {"acknowledge", "disconnectNow"}

Numbers == {<<255, 1>>, <<255, 2>>, <<0, 1>>, <<255, 0>>}

\* A slip: the farewell is a command beyond the second.
NumberTooHigh(kind) == CASE kind \in {"connect", "verify"} -> <<255, 1>>
                         [] kind = "disconnect"            -> <<255, 3>>
                         [] kind = "data"                  -> <<0, 1>>
                         [] OTHER                          -> <<255, 0>>

\* Connection commands are numbered by enet_peer_queue_outgoing_command on
\* channel 0xFF: the handshake is the first one, the farewell the second.
Number(kind) == CASE kind \in {"connect", "verify"} -> <<255, 1>>
                  [] kind = "disconnect"            -> <<255, 2>>
                  [] kind = "data"                  -> <<0, 1>>
                  [] OTHER                          -> <<255, 0>>

Peer == [state : States, challenge : Attempts \cup {None}, remote : Peers \cup {None},
         outgoing : SUBSET Kinds, sent : SUBSET Reliable, acks : SUBSET Reliable]

Message == [to : Peers \cup {None}, from : Peers, challenge : Attempts \cup {None},
            kind : Kinds, number : Numbers]

\* enet_peer_reset, with its queues; peer->data is left alone.
ResetPeer == [state |-> "disconnected", challenge |-> None, remote |-> None,
              outgoing |-> {}, sent |-> {}, acks |-> {}]

ResetQueues(q) == [q EXCEPT !.outgoing = {}, !.sent = {}, !.acks = {}]

Command(p, kind, number) ==
    [to |-> peer[p].remote, from |-> p, challenge |-> peer[p].challenge,
     kind |-> kind, number |-> number]

TypeOK ==
    /\ peer \in [Peers -> Peer]
    /\ wire \in SUBSET Message
    /\ user \in [Slots -> Attempts \cup {None}]
    /\ joined \in [Attempts -> BOOLEAN]
    /\ accepted \in SUBSET Peers
    /\ delivered \in SUBSET ((Attempts \cup {None}) \X Peers)
    /\ crashed \in BOOLEAN

Init ==
    /\ peer = [p \in Peers |-> ResetPeer]
    /\ wire = {}
    /\ user = [s \in Slots |-> None]
    /\ joined = [a \in Attempts |-> FALSE]
    /\ accepted = {} /\ delivered = {}
    /\ crashed = FALSE

\* The host a peer belongs to still runs.
Running(p) == p \in Slots => ~crashed

-----------------------------------------------------------------------------
\* What the programs do with an event.

\* A slip: a peer that still has data keeps it.
OnConnectKeeps(p, attempt) ==
    /\ user' = IF p \in Slots /\ user[p] = None THEN [user EXCEPT ![p] = attempt] ELSE user
    /\ joined' = IF p \in Attempts THEN [joined EXCEPT ![p] = TRUE] ELSE joined
    /\ UNCHANGED <<accepted, delivered, crashed>>

\* Server::ServerTick makes a user of the peer; Client::InitLogic is done.
OnConnect(p, attempt) ==
    /\ user' = IF p \in Slots THEN [user EXCEPT ![p] = attempt] ELSE user
    /\ joined' = IF p \in Attempts THEN [joined EXCEPT ![p] = TRUE] ELSE joined
    /\ UNCHANGED <<accepted, delivered, crashed>>

\* Server::ServerTick looks into the user without asking whether there is one,
\* then deletes it; Client::HandleEvent destroys the host.
OnDisconnect(p) ==
    /\ user' = IF p \in Slots THEN [user EXCEPT ![p] = None] ELSE user
    /\ joined' = IF p \in Attempts THEN [joined EXCEPT ![p] = FALSE] ELSE joined
    /\ crashed' = (crashed \/ (p \in Slots /\ user[p] = None))
    /\ UNCHANGED <<accepted, delivered>>

-----------------------------------------------------------------------------
\* enet_protocol_send_outgoing_commands for one peer.

Silent(q) == q.state \in {"disconnected", "zombie"}

Acknowledgements(p) == {Command(p, "acknowledge", Number(k)) : k \in peer[p].acks}

\* A slip: the farewell leaves no mark.
AcknowledgementsOnly(q) == [q EXCEPT !.acks = {}]

\* The acknowledgement of a DISCONNECT is the last thing a peer does.
AfterAcknowledgements(q) ==
    [q EXCEPT !.acks = {}, !.state = IF "disconnect" \in q.acks THEN "zombie" ELSE @]

\* A slip: what goes out is forgotten and never times out.
TransmittedOnce(q) ==
    IF Silent(q) THEN q ELSE [AfterAcknowledgements(q) EXCEPT !.outgoing = {}]

Transmitted(q) ==
    IF Silent(q) THEN q
    ELSE [AfterAcknowledgements(q) EXCEPT
             !.outgoing = {}, !.sent = @ \cup (q.outgoing \cap Reliable)]

Datagram(p) ==
    IF Silent(peer[p]) THEN {}
    ELSE Acknowledgements(p) \cup {Command(p, k, Number(k)) : k \in peer[p].outgoing}

\* Every peer of a host is served; a client's host has only one.
SendOutgoing(host) ==
    /\ \A p \in host : Running(p)
    /\ peer' = [p \in Peers |-> IF p \in host THEN Transmitted(peer[p]) ELSE peer[p]]
    /\ wire' = wire \cup UNION {Datagram(p) : p \in host}
    /\ UNCHANGED appVars

\* enet_protocol_check_timeouts: a command has reached its limit.  The datagram that
\* has been begun, with the acknowledgements in it, is never sent.
GiveUp(p) ==
    /\ Running(p) /\ ~Silent(peer[p])
    /\ peer[p].sent # {}
    /\ peer' = [peer EXCEPT ![p] = ResetPeer]
    /\ OnDisconnect(p)
    /\ UNCHANGED wire

\* enet_protocol_dispatch_incoming_commands: a zombie is buried.
DispatchZombie(p) ==
    /\ Running(p)
    /\ peer[p].state = "zombie"
    /\ peer' = [peer EXCEPT ![p] = ResetPeer]
    /\ OnDisconnect(p)
    /\ UNCHANGED wire

-----------------------------------------------------------------------------
\* enet_protocol_handle_incoming_commands.

\* A slip: the challenge is not compared.
HeardFromAnyone(p, m) ==
    /\ Running(p)
    /\ m \in wire /\ m.to = p
    /\ ~Silent(peer[p])

Heard(p, m) ==
    /\ Running(p)
    /\ m \in wire /\ m.to = p
    /\ ~Silent(peer[p])
    /\ m.challenge = peer[p].challenge

\* A slip: whatever asks for it is acknowledged.
AcknowledgedAlways(q, kind) == [q EXCEPT !.acks = @ \cup {kind}]

\* The peer after a command that asks to be acknowledged has been handled.
Acknowledged(q, kind) ==
    IF \/ q.state = "disconnecting"
       \/ q.state = "acknowledgingDisconnect" /\ kind # "disconnect"
    THEN q
    ELSE [q EXCEPT !.acks = @ \cup {kind}]

\* A slip: a slot is taken without looking for one this client already has.
FirstFree(attempt) ==
    {s \in Slots : /\ peer[s].state = "disconnected"
                   /\ \A t \in Slots : t < s => peer[t].state # "disconnected"}

\* The slot for a new connection: none if the client has one or all are taken.
FreeSlot(attempt) ==
    {s \in Slots :
        /\ peer[s].state = "disconnected"
        /\ \A t \in Slots : t < s => peer[t].state # "disconnected"
        /\ \A t \in Slots : ~(peer[t].state # "disconnected" /\ peer[t].challenge = attempt)}

\* The lists of the slot are taken over as they are.
HandleConnect(m) ==
    /\ ~crashed
    /\ m \in wire /\ m.kind = "connect"
    /\ \E s \in FreeSlot(m.challenge) :
        peer' = [peer EXCEPT ![s] = Acknowledged(
            [peer[s] EXCEPT !.state = "acknowledgingConnect", !.challenge = m.challenge,
                            !.remote = m.from,
                            !.outgoing = peer[s].outgoing \cup {"verify"}], "connect")]
    /\ UNCHANGED <<wire, appVars>>

\* The parameters always match: the server sends back those it was given.
HandleVerifyConnect(p, m) ==
    /\ Heard(p, m) /\ m.kind = "verify"
    /\ \/ /\ peer[p].state = "connecting"
          /\ peer' = [peer EXCEPT ![p] = Acknowledged(
                [@ EXCEPT !.state = "connected", !.remote = m.from], "verify")]
          /\ OnConnect(p, peer[p].challenge)
       \/ /\ peer[p].state # "connecting"
          /\ peer' = [peer EXCEPT ![p] = Acknowledged(@, "verify")]
          /\ UNCHANGED appVars
    /\ UNCHANGED wire

HandleAcknowledge(p, m) ==
    /\ Heard(p, m) /\ m.kind = "acknowledge"
    /\ LET removed == {k \in peer[p].sent : Number(k) = m.number}
           q == [peer[p] EXCEPT !.sent = @ \ removed] IN
       \/ /\ q.state = "acknowledgingConnect" /\ "verify" \in removed
          /\ peer' = [peer EXCEPT ![p] = [q EXCEPT !.state = "connected"]]
          /\ OnConnect(p, q.challenge)
       \/ /\ q.state = "disconnecting" /\ "disconnect" \in removed
          /\ peer' = [peer EXCEPT ![p] = ResetPeer]
          /\ OnDisconnect(p)
       \/ /\ ~(q.state = "acknowledgingConnect" /\ "verify" \in removed)
          /\ ~(q.state = "disconnecting" /\ "disconnect" \in removed)
          /\ peer' = [peer EXCEPT ![p] = q]
          /\ UNCHANGED appVars
    /\ UNCHANGED wire

\* A peer that is not connected is reset on the spot, without an event; the
\* acknowledgement asked for is queued all the same, on the reset peer.
HandleDisconnect(p, m) ==
    /\ Heard(p, m) /\ m.kind \in {"disconnect", "disconnectNow"}
    /\ LET q == IF peer[p].state # "connected" THEN ResetPeer
                ELSE [ResetQueues(peer[p]) EXCEPT
                        !.state = IF m.kind = "disconnect" THEN "acknowledgingDisconnect"
                                  ELSE "zombie"]
       IN peer' = [peer EXCEPT ![p] =
                    IF m.kind = "disconnect" THEN Acknowledged(q, "disconnect") ELSE q]
    /\ UNCHANGED <<wire, appVars>>

\* Queued, and handed to the program by a later dispatch, if the peer is
\* connected; acknowledged in any case.
HandleSendReliable(p, m) ==
    /\ Heard(p, m) /\ m.kind = "data"
    /\ peer' = [peer EXCEPT ![p] = Acknowledged(@, "data")]
    /\ delivered' = IF peer[p].state = "connected" /\ p \in Slots
                    THEN delivered \cup {<<user[p], m.from>>} ELSE delivered
    /\ UNCHANGED <<wire, user, joined, accepted, crashed>>

-----------------------------------------------------------------------------
\* What the programs ask for.

\* Client::InitLogic: enet_host_connect on a new host.
Connect(a) ==
    /\ peer[a].state = "disconnected" /\ ~joined[a]
    /\ ~\E m \in wire : m.from = a
    /\ peer' = [peer EXCEPT ![a] = [ResetPeer EXCEPT
            !.state = "connecting", !.challenge = a, !.outgoing = {"connect"}]]
    /\ UNCHANGED <<wire, appVars>>

\* Client::InitLogic after five seconds and Client::~Client after three: the
\* peer is reset and the server is told nothing.
ForceReset(a) ==
    /\ peer[a].state # "disconnected" /\ ~joined[a]
    /\ peer' = [peer EXCEPT ![a] = ResetPeer]
    /\ UNCHANGED <<wire, appVars>>

\* Client::Send and Server::Send of a reliable packet: enet_peer_send, then
\* everything queued on the host is put on the wire.
HostOf(p) == IF p \in Slots THEN Slots ELSE {p}

Send(p) ==
    /\ Running(p)
    /\ peer[p].state = "connected" /\ p \notin accepted
    /\ accepted' = accepted \cup {p}
    /\ peer' = [r \in Peers |->
            IF r = p THEN Transmitted([peer[p] EXCEPT !.outgoing = @ \cup {"data"}])
            ELSE IF r \in HostOf(p) THEN Transmitted(peer[r]) ELSE peer[r]]
    /\ wire' = wire \cup {Command(p, "data", Number("data"))}
                    \cup UNION {Datagram(r) : r \in HostOf(p)}
    /\ UNCHANGED <<user, joined, delivered, crashed>>

\* enet_peer_disconnect of a connected peer: what was queued is thrown away.
Disconnecting(q) ==
    [ResetQueues(q) EXCEPT !.state = "disconnecting", !.outgoing = {"disconnect"}]

\* Server::Boot: the farewell packets are flushed, then the peer is
\* disconnected; they are not sent again.
Boot(s) ==
    /\ ~crashed
    /\ peer[s].state = "connected"
    /\ peer' = [p \in Peers |-> IF p = s THEN Disconnecting(peer[p])
                                ELSE IF p \in Slots THEN Transmitted(peer[p]) ELSE peer[p]]
    /\ wire' = wire \cup UNION {Datagram(p) : p \in Slots}
    /\ UNCHANGED appVars

\* Client::~Client: enet_peer_disconnect, whatever state the peer is in.
Leave(a) ==
    /\ joined[a]
    /\ joined' = [joined EXCEPT ![a] = FALSE]
    /\ \/ /\ peer[a].state = "connected"
          /\ peer' = [peer EXCEPT ![a] = Disconnecting(@)]
          /\ wire' = wire
       \/ /\ peer[a].state = "acknowledgingDisconnect"
          /\ peer' = [peer EXCEPT ![a] = ResetPeer]
          /\ wire' = wire \cup {Command(a, "disconnectNow", Number("disconnectNow"))}
       \/ /\ peer[a].state = "zombie"
          /\ UNCHANGED <<peer, wire>>
    /\ UNCHANGED <<user, accepted, delivered, crashed>>

Next ==
    \/ SendOutgoing(Slots)
    \/ \E a \in Attempts : SendOutgoing({a})
    \/ \E p \in Peers : GiveUp(p)
    \/ \E p \in Peers : DispatchZombie(p)
    \/ \E m \in wire : HandleConnect(m)
    \/ \E p \in Peers, m \in wire : HandleVerifyConnect(p, m)
    \/ \E p \in Peers, m \in wire : HandleAcknowledge(p, m)
    \/ \E p \in Peers, m \in wire : HandleDisconnect(p, m)
    \/ \E p \in Peers, m \in wire : HandleSendReliable(p, m)
    \/ \E a \in Attempts : Connect(a)
    \/ \E a \in Attempts : ForceReset(a)
    \/ \E p \in Senders : Send(p)
    \/ \E s \in Slots : Boot(s)
    \/ \E a \in Attempts : Leave(a)

Spec == Init /\ [][Next]_vars

\* Both programs service their hosts in a loop: queued commands go out, zombies
\* are buried, and a transmitted command that stays unanswered runs out of time.
Fairness ==
    /\ WF_vars(SendOutgoing(Slots))
    /\ \A a \in Attempts : WF_vars(SendOutgoing({a}))
    /\ \A p \in Peers : WF_vars(GiveUp(p)) /\ WF_vars(DispatchZombie(p))

FairSpec == Spec /\ Fairness

-----------------------------------------------------------------------------
\* Properties.

\* A peer that is saying goodbye owes no acknowledgement but that of the
\* DISCONNECT: enet_protocol_send_acknowledgements steps over any other without
\* advancing (protocol.c:786-788) and would never return.
OnlyFarewellOwed ==
    \A p \in Peers : peer[p].state = "acknowledgingDisconnect" => peer[p].acks = {"disconnect"}

\* However often a CONNECT is repeated or delayed, a client never holds two
\* slots at once (enet_protocol_handle_connect).
OneSlotPerClient ==
    \A s, t \in Slots :
        s # t /\ peer[s].state # "disconnected" /\ peer[t].state # "disconnected"
            => peer[s].challenge # peer[t].challenge

\* Whenever a slot is connected its data is the user made for this very
\* connection, never one left over from the slot's last tenant, so what
\* ServerTick reads from a packet's peer is the right user.
UserIsTenant ==
    \A s \in Slots : peer[s].state \in {"connected", "disconnecting", "acknowledgingDisconnect"}
                        => user[s] = peer[s].challenge

\* No packet of an earlier connection reaches the user of a later one, however
\* late it arrives (the challenge, enet_protocol_handle_incoming_commands).
NoForeignPacket == \A d \in delivered : d[1] = d[2]

\* Half-open and half-closed connections do not last: the handshake and the
\* goodbye end, on both sides, whatever the network does.
HandshakeEnds ==
    \A p \in Peers :
        peer[p].state \in {"connecting", "acknowledgingConnect"}
            ~> (peer[p].state \in {"connected", "disconnected"} \/ crashed)

GoodbyeEnds ==
    \A p \in Peers :
        peer[p].state \in {"disconnecting", "acknowledgingDisconnect", "zombie"}
            ~> (peer[p].state = "disconnected" \/ crashed)

\* enet.h:85-86: a reliable packet is sent again until it is delivered.  While
\* the client stays connected, its packet is outstanding or was delivered.
SentUntilDelivered ==
    \A a \in Attempts \cap accepted :
        peer[a].state = "connected" =>
            \/ "data" \in peer[a].outgoing \cup peer[a].sent
            \/ \E d \in delivered : d[2] = a

\* peer.c:426-427: a disconnect that was requested ends with an event.  A slot
\* that is free again has had the event that deletes its user.
DisconnectReported ==
    \A s \in Slots : peer[s].state = "disconnected" => user[s] = None

\* enet.h:291-295: the event means that the peer has disconnected.  A slot dies
\* of a DISCONNECT only when the client that holds it has left.
ZombieHasLeft ==
    \A s \in Slots : peer[s].state = "zombie" =>
        \E m \in wire : /\ m.from = peer[s].challenge
                        /\ m.kind \in {"disconnect", "disconnectNow"}
=============================================================================
