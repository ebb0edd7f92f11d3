# Allegro Battle Ground: a verification project

TLA+ models, model-checking runs and machine-checked proofs for the game in this
repository: the ENet transport it ships (`src/project/src/enet`), the game
server (`src/project/server`) and the game client (`src/project/src`) with its
frame loop and its physics. Paths below are relative to the repository; `enet/x.c`
stands for `src/project/src/enet/x.c`.

## The system

One server process and any number of game clients. Each runs one thread: a
loop of frames that ticks a tree of `GameState`s. In its tick a client, or the
server, calls `enet_host_service`, which sends what is queued, checks timeouts,
reads one datagram after another and returns one event at a time; the program
reacts to the event and often sends, which flushes every peer of its host at
once. There are no locks: everything hard comes from the order in which
messages, timeouts and disconnects meet.

| part | state it keeps | operations | what makes it correct |
|---|---|---|---|
| ENet channels (`enet/peer.c`, `enet/protocol.c`) | per channel two sequence numbers each way and two incoming lists; per peer the outgoing, sent and acknowledgement lists and the data in transit | send, transmit, time out, acknowledge, receive, dispatch | order, no duplicates, nothing reliable lost, the window kept |
| ENet connections (`enet/protocol.c`, `enet/host.c`) | per slot a state, a challenge, the other side's slot, `peer->data` | connect, verify, disconnect, give up, bury a zombie, reuse a slot | a slot belongs to one client at a time; both ends get out of every half-open state; the user in `peer->data` is the tenant |
| ENet fragments (`enet/peer.c`, `enet/protocol.c`) | per channel the packets being put together, each with the set of fragments that arrived | cut, receive a fragment, hand over | packets come whole, once, in order; nothing but the known flaw stalls the channel |
| ENet throttle (`enet/peer.c`, `enet/protocol.c`) | per peer the round trip estimates, a throttle, its limit, a counter | acknowledge, limit, drop or let out a packet | the throttle is within its limit; unsigned differences stay above 0; the share of packets let out is the one the throttle says |
| ENet bandwidth (`enet/host.c`) | what host and peers have, what they were told, the locals of two loops | set, connect, disconnect, learn a limit, share, tell | the loops end; the shares fit the budget; a change reaches everybody |
| ENet platform layer (`enet/unix.c`, `win32.c`, `list.c`, ...) | none that matters | sockets, time, allocation | I/O |
| Server (`server/server.cpp`) | list of users with number, name, pawn, `registered`, flood counters | CONNECT, DISCONNECT, Reg, Upd, BulletShoot, Msg, Boot (and Quit, Join, Leave, Req, Sti, Ping, which no client sends) | unique numbers; everybody is told of everybody's coming and going |
| Client (`src/client.cpp`, `src/gameinfo.cpp`) | map from numbers to pawns, the scene, the own pawn | Reg, Boot, New, Quit, Join, Upd, BulletShoot, Msg, DISCONNECT, file transfer | the map and the scene follow the server's user list; no NULL or dead pawn is used |
| `GameState` loop (`src/gamestate.cpp`) | the tree of states, each with a status and an owner | Tick, TickAllOnce, Finish, Sleep, WaitChildren | no state is used after it was deleted, no iterator after its element |
| Physics (`src/pawn.cpp`, `object.cpp`, `bullet.cpp`, `board.cpp`) | positions, speeds, jump time | one tick each | pawns stay on the board and land on the nearest platform |
| Settings, archives, drawing (`src/ini.cpp`, `zipfile.c`, `enrender.cpp`, `character.cpp`) | files in memory | parse, draw | sequential |
| Others (`src/c`, `src/php`, `src/tests`, `src/tools`, media, fonts) | | website tools, test programs, assets | not part of the game |

How they meet: a program calls `enet_peer_send`, `enet_host_broadcast` and
`enet_peer_disconnect`; ENet calls nobody, it returns events. `peer->data` is
the one pointer from ENet into the server, `players[id]` the one from message
contents into the client's objects. System and game messages use two channels
(`CSystem`, `CGame`), between which ENet promises no order, and chat a third.

## The modules

| module | models | reads |
|---|---|---|
| `ChannelOrder` | the promise of a channel: packets accepted, delivered in order, at most once, nothing reliable skipped, until the connection breaks | an abstract specification, six definitions |
| `EnetChannel` | one direction of an established connection that keeps this promise | `peer.c`, `protocol.c` |
| `EnetChannelProofs` | theorems about `EnetChannel` | |
| `EnetConnection` | server slots and clients: handshake, teardown, reuse; the reactions of `Server::ServerTick`, `Server::Boot`, `Client::InitLogic`, `Client::~Client` | `protocol.c`, `host.c`, `server.cpp`, `client.cpp` |
| `EnetConnectionProofs` | theorems about `EnetConnection` | |
| `EnetFragments` | packets longer than a datagram, cut and put together again | `peer.c`, `protocol.c` |
| `EnetFragmentsProofs` | theorems about `EnetFragments` | |
| `EnetThrottle` | round trip estimates and the share of unreliable packets let out | `peer.c`, `protocol.c`, `host.c` |
| `EnetBandwidth` | `enet_host_bandwidth_throttle`, round by round, and the limits it announces | `host.c`, `protocol.c` |
| `EnetThrottleProofs` | theorems about `EnetThrottle` and `EnetBandwidth` | |
| `Session` | the user list of the server, the players and the scene of every client, the messages between them | `server.cpp`, `client.cpp`, `gameinfo.cpp`, `game.cpp`, `abg.cpp` |
| `SessionProofs` | theorems about `Session` | |
| `FloodControl` | the counting of one user's chat in windows of time | `server.cpp` (`OnMsg`), `server.h` |
| `GameLoop` | the client's frame loop, the objects it ticks, makes and deletes | `gamestate.cpp`, `abg.cpp`, `game.cpp`, `gameinfo.cpp`, `bullet.cpp`, `pawn.cpp`, `client.cpp` |
| `Physics` | the own pawn's jump, fall, landing, death and respawn | `object.cpp`, `pawn.cpp`, `board.cpp`, `client.cpp` |
| `GameProofs` | theorems about `FloodControl`, `GameLoop` and `Physics` | |
| `SequenceLemmas` | what operators on lists and sums over sets return, for the proofs | |
| `MCParts` | one run for the six modules that share no step | |
| `PartsProofs` | the theorems of the six, carried over to that run's specification | |

### EnetChannel

The variables are the fields: `outgoingReliable`, `sentReliable`, `acks`,
`inReliable[ch]` are `peer->outgoingReliableCommands` and so on. The incoming
lists are sets, because the code keeps them sorted by sequence number; the
outgoing ones are sequences, because their order is a promise. `sent` and
`delivered` are histories. `wire` and `ackWire` hold everything ever put on the
network, and receiving does not remove: so a message may be lost (never
received), duplicated and reordered at will. A datagram carries several
commands and is processed command by command; here each travels on its own,
which includes every behaviour of a datagram. `CheckTimeout(i)` takes one round
of the loop of `enet_protocol_check_timeouts`, for a command that is overdue;
which ones are is left open, as the clock and the round-trip estimate are
abstract. The timeout itself is kept, in multiples of its first value, because
giving up depends on it (`ENET_PEER_TIMEOUT_LIMIT`). The visit of the channels
by `enet_protocol_dispatch_incoming_commands` is one action for each outcome;
its side effect on the channels passed over (stale commands are discarded,
`Fresh`) is part of it.

### EnetConnection

`peer[p]` is the `ENetPeer` of a server slot or of a client's only peer; both
run the same handlers, as in the code. Commands are known by their kind and by
the number they have on the wire, which is what acknowledgements match. A
client object connects once: its name stands for its address and its challenge,
a random number taken to be unique. `Heard` is the check at the top of
`enet_protocol_handle_incoming_commands`, `Acknowledged` the switch at its end,
including the case that makes trouble: a peer that was just reset is in none of
the states of the switch and gets the acknowledgement. `GiveUp` loses the
acknowledgements that were already written into the datagram
`enet_protocol_send_outgoing_commands` was about to send. `crashed` records that
`server.cpp:107` has used a NULL user; the server does nothing afterwards.

### Session

Here the transport is what `ChannelOrder` promises: one queue per client and
channel, `Upd` may be lost, nothing relates two channels. `linked` is the set of
clients whose peer is CONNECTED; packets for others go nowhere, as in
`enet_peer_send` and `enet_host_broadcast`. The DISCONNECT event comes later
than the loss of the link, so a user that is no longer reachable is still listed.
`Boot` and a simple loss are told apart: a booted user stays registered until
its disconnect is complete and is then announced as gone a second time. A pawn is
a number and a serial that tells two objects made for the same number apart.
`HandleSystem` has the effect of the stray semicolon at `client.cpp:177`: the
New handler runs on every message, and what it or the handler after it reads
from an exhausted stream is left as it was, an uninitialised `id`, modelled as
any value of `Garbage`. `Broken` is where a NULL or deleted pawn is used; a
client does nothing afterwards.

### EnetFragments

`packets` is what the program has sent: `enet_peer_send` gives every fragment a
reliable number of its own, so a packet is its first number and its size.
`assembly` is `incomingReliableCommands`, a set because it is sorted by number;
an entry keeps the header of the fragment that opened it, number and all
(`Opened`), as `enet/protocol.c:345-356` does. `incomingRel` is the number of the
last fragment handed over. That commands are retransmitted is the subject of
`EnetChannel`; here a piece may arrive at any time, any number of times
(`Arrive`), and is acknowledged whatever the handler does with it.

### EnetThrottle, EnetBandwidth

`HandleRoundTrip` is the part of `enet_protocol_handle_acknowledge` that is about
time, with `enet_peer_throttle` (`Throttled`) inside; `LimitThrottle` is what
`enet_host_bandwidth_throttle` does to the peer, with any limit;
`ThrottlePacket` is the test in
`enet_protocol_send_unreliable_outgoing_commands`. `share` counts packets since
the throttle last changed.

In `EnetBandwidth` the function is unrolled: `ThrottleBegins` sums up the bytes,
`SharingRound` and `TellingRound` are one round of the two `while` loops,
`SharingEnds` and `TellingEnds` what follows them. `loop` holds its locals.
Nothing else of the host moves before `ThrottleReturns`. The rounds are kept as
they are written: in the second loop the test of `PassedOver` is inverted against
the first one's, and a peer that is done gives up its own *outgoing* limit,
however large, so that `loop.bandwidth` wraps (`% (Unlimited + 1)`).

### FloodControl

`info` is `ServerUser::messageinfo`, field by field. `ChatterMsg` is
`Server::OnMsg`: `Renewed` starts a window, `Over` is `count++ > MSG_C`,
`Excess` the quotient against `MSG_KF`. `now` is `time(NULL)`, which `Second`
advances and `SetBack` may once set back while a user is there. `chatLog` is a
history: when each message came, and whether it passed.

### GameLoop

`stack` is the C++ stack of running loops: `TickAllOnce` over the roots,
`Tick` over the children of `GameInfo`, `Game::Tick` over its players,
`Client::Tick` over the network events, each with the element its iterator is at
(`At`, `Moved`). An action is one tick of one object or one event. `ClientDies` is
the death that calls `Sleep`, which puts a second `TickAllOnce` on the stack;
`FrameEnds` ends a frame of the outermost one or of that. `EventReceived` leaves
open how the events go on, because `HandleEvent` returns a status it has not set
(`client.cpp:113`). Its messages come in any order with any numbers: `known` is the
client's map, without the numbers, `players`, `kids` and `objects` are the lists of
`GameInfo`. `JoinReceived` has no guard against a pawn that is in the scene already,
`QuitReceived` may hit the own pawn, a New may take the place of a pawn in the map,
and nothing takes a bullet from `objects`, as in the code.

`alive` is a history of what was made and not deleted; `misused` collects what any
step touches that is not in it, and what `~GameState` deletes twice. After such a
use the program may do anything; the model lets it go on as if the object were
there, or stop (`Crashes`). `joins` and `quit` are histories the properties need: a
deleted pawn is told from one that was never in the scene by them.

### Physics

Time comes in sixtieths of a second, which makes `fallspeed += 10 * dtime * 6` and
`jumptime >= .2` whole numbers. The board's four platforms are those of
`Game::InitLogic`, in the order of the vector, as `Board::Drop` takes the first
that fits. `Tick` is `Object::Tick` with `Pawn::Tick` and `HumanPawn::Tick` around
it: the fall first, then the lift of a jump. `Die` puts the pawn at 0, 0, below the ground.

### MCParts

The last six have no step in common, so a product of them would only multiply
their states. `MCParts` is a disjoint union: the initial state chooses a part, that part
runs by its own `Next`, the variables of the others do not move. A fairness
condition is the part's own, with `part = ...` added.

## The runs

| run | bounds | checks |
|---|---|---|
| `channel_order` | 1 channel, 3 packets of sizes 1 and 2, window 2, two doublings of the timeout, 2 waiting acknowledgements | type, `NothingLost`, `WindowExact`, `RetransmitFirst`, `OrderInv`, `AcksTruthful`, refinement of `ChannelOrder` |
| `channel_live` | 2 channels, 2 packets, window of one packet, one doubling | `ReliableDelivery` |
| `connection` | 2 clients, 1 slot, each client sends one packet | type, `OnlyFarewellOwed`, `UserIsTenant`, `NoForeignPacket` |
| `connection_live` | 1 client, 2 slots, a packet each way | `OneSlotPerClient`, `HandshakeEnds`, `GoodbyeEnds` |
| `session` | 2 clients, one of which moves and chats | type, `NumbersAgree`, `GoneIsAnnounced`, `Acquainted`, `KnownOnceCaughtUp` |
| `parts` | see below | 14 invariants and 5 temporal properties of the six parts |
| `early_packet`, `silent_disconnect`, `stale_acknowledgement`, `session_numbers`, `session_bullet`, `session_ghosts` | the smallest that show it | one violated promise each, see below |

Why the bounds are enough. Order on a channel is about a packet, one before and
one between: three packets. Window and retransmission need a window that one
packet fills and another does not, and a command that times out, times out again
and is given up. Starvation between channels needs a second channel. Slot reuse
needs a second client and a single slot; a stolen second slot needs two. Two
clients are enough for a newcomer and an old hand in either order, as nothing in
the server looks at more than one pair of users at a time, save the numbers: that
run has three. The bounds on sending (`MaxSends`, `asked`) end the behaviours,
which is why deadlock is not checked anywhere: a system where everybody has said
everything may stop. Symmetry is not used.

The parts of `parts`, and what their properties say:

| part | bounds | properties |
|---|---|---|
| flood | `MSG_C` 1 in windows of `MSG_S` 1 second, 4 seconds, 7 messages | `PolitePasses`: who stays within a window's worth in every span of a window loses nothing. `BurstBound`: no span lets more than two windows' worth through. `NobodyOverstays`: booted exactly when the quotient says so, and never a division by 0 |
| fragments | 3 packets of up to 3 pieces | `HandedWhole`, `OpeningFindsRoom` (the unchecked result of queueing is never NULL), `MisfiledStalls`, `HandedUnlessMisfiled` |
| throttle | scale 4, counter step 3, round trips 0 and 16 around a start of 8 | `ThrottleWithinLimit`, `EstimatesHold`, `CycleShare`: of any 4 packets at throttle t, t + 1 go out |
| bandwidth | 2 peers, bandwidths of the host 0 and 6, of the peers 0 and 2, traffic 0, 3, 9, scale 4, intervals of 2 and, as in the first one, 168 ms, where 6 * 168 wraps at 1000 | `NeverOverdrawn`, `SharesFit`, `NewsIsDue`, `NewsIsSent` |
| loop | one other player, 2 bullets, 2 places in the list of players, a death of up to 2 frames; with and without a connection | `UsedWhileAlive`, `AliveIsListed`, `EscapeEnds` |
| physics | frames of 1 and 4 sixtieths, respawns at the bottom and the top | `GroundHolds`, `NoneFallenThrough` |

The flood's bounds take a user through three windows, with a full one in the
middle and a message dropped in each; a limit of 1 is passed by the second
message over it. Three pieces are the fewest where a middle one
may open the packet, and three packets put a broken one between a whole one and one that
waits. The scale must have no factor in common with the step, as 32 has none with 7.
Two peers give every case of the sharing loop: nobody exceeds, one does and the
other gets the rest, both do; of a host with and one without a limit. In the telling
loop a peer without a limit is taken first and one with a limit passed over in the
next round. What a larger budget, or limits of several sizes, could add rests on
the theorems about it. Two bullets are needed for one in the middle of a
list while another is added; one other player may leave while a bullet
of its flies; two places are the fewest where a pawn is listed twice. The run has
about 790,000 states.

No run has a fairness the loop does not give. Both programs service their hosts
in every frame, so what is queued goes out, what is overdue is found, and a
packet that is there is handed over: weak fairness on those actions. In
`channel_live` that an unacknowledged command is overdue at some time is weak
fairness on its timeout. Of the network nothing is assumed, not even that
anything arrives: `ReliableDelivery` says "delivered, or the peer is given up",
and the handshake ends "connected or free". Nothing makes a program send, join
or leave. In `fragments` a piece that is not acknowledged keeps
arriving, which is what `EnetChannel` gives while the connection lasts, and
`enet_peer_receive` is called. In `bandwidth` the function, once called, runs on, and
`enet_host_service` calls it again, as it does in every second. In `loop` the
program runs, and the loop over network events comes to an end in each frame:
the network must not fill faster than it is drained, or the game stands
still.

### Promises the code does not keep

- `early_packet`: a client is connected one message earlier than the server. A
  reliable packet that reaches the server in between is dropped by
  `enet_protocol_handle_send_reliable` and acknowledged by its caller, so it is
  lost for good; the first packet is Reg, so such a client never plays.
  `Session`, which builds on `ChannelOrder`, has every Reg arrive.
- `silent_disconnect`: when both sides disconnect at once the peer is reset
  without an event. The server keeps the user and announces nothing.
- `stale_acknowledgement`: after that reset the acknowledgement of the DISCONNECT
  is queued on the free slot. The slot's next tenant inherits it, and sending it
  makes it a zombie.
- `session_numbers`: the number of a new user is the length of the list plus one,
  which after a departure is somebody else's.
- `session_bullet`: shots are broadcast to clients that do not know the shooter.
- `session_ghosts`: Quit removes nobody from the scene (the stray semicolon).

In `Session` the properties that hold are stated so that they do hold in spite
of these: `Acquainted` allows for users that share a number, `GoneIsAnnounced`
is about what is sent, not about what the client makes of it, and
`KnownOnceCaughtUp` is about the time before anybody leaves.

### Found on the way

These are facts of the code the passing runs' properties are stated around.

- A fragmented packet whose first fragment is not the first to *arrive* is queued under
  another number than the one `enet_peer_receive` waits for. Everything is
  acknowledged, and the channel stalls until the connection ends, in
  spite of `enet.h:85-86` ("until the packet is delivered"). `MisfiledStalls` says
  it is for good, `HandedUnlessMisfiled` that nothing else stalls it. The game's usual messages fit a datagram.
- A throttle of t lets t + 1 in Scale packets out: 0 still lets one out, where
  `peer.c:30-31` says that all are dropped.
- `MSG_C` + 1 messages pass in a window, as the comparison comes before the
  increment (`server.cpp:405`; `server.h:22` calls it the number allowed), and
  twice as many where two windows meet.
- A clock that is set back freezes a window until it has caught up.
- `BANDWIDTH_LIMIT` is unreliable and sent once: `NewsIsDue` is about what is sent, and
  a peer that missed it keeps the old limit. In the telling loop the peers
  *without* a limit and those with a large one are taken out, together with their
  limit, which the wrap makes harmless only by accident.
- `bandwidthThrottleEpoch` is 0 at first and `enet_time_get` counts from 1970
  (`timeBase` is never set), so the first interval of a host with a peer is a
  number of any size, and the 32-bit product of `host.c:261` makes any budget of it.
  The sharing stays sound for that budget, however small (`BandwidthAssumption`
  leaves out 0, which happens once in four million times).
- `Board::Drop` returns the first platform of its vector, not "the first encountered"
  (`board.h:56`). Platforms are 60 apart, so a fall of 60 or more in a tick may
  pass one. `NoneFallenThrough` is about slower falls.
- `Sleep(3000)` at a death is in seconds (`gamestate.h:191`): the dead wait for 50
  minutes, in which the network is not serviced, so the server gives them up long before.
  It overwrites the state `Finish(false)` has set, and the client is
  ticked all the while (`gamestate.h:195` says a finished state is not). Escape
  pressed meanwhile takes effect at its end.
- `main` calls `ResetGame` after `Run` has deleted the game it walks through: at every
  end of the program `misused` holds the `GameInfo`, and `UsedWhileAlive` says so.
- Nothing keeps a pawn from joining twice (`client.cpp:563`, `gameinfo.cpp:31`). It takes
  no confusion of numbers: a client that was connected when another
  registered, and registers later, gets New and Join from the broadcast and again from the listing
  (`server.cpp:280-296`). They come on two channels. Read in the order New, New, Join,
  Join, one `Pawn` is in `children` and `players` twice, is ticked twice in
  a frame, and `~GameState` deletes it twice; after a Quit it is ticked though deleted.
  In the order New, Join, New, Join there are two pawns of one number, of which the map
  forgets the first.
- A New under a number that is in the map makes a pawn and forgets the one before it
  (`client.cpp:546`): if that has not joined, nothing will ever delete it.
- A Quit gets the number the New handler has left unset: it deletes whichever pawn is
  there, the own one too, which `Client::Tick` and `Game::Tick` go on to use.
- `GGame->objects` keeps every bullet that was ever made (`gameinfo.cpp:53`), as `DelObject`
  is never called. Only its length is ever looked at.

## What is proved

Every safety invariant of the passing runs is a theorem of its
specification, and so are the refinement and the two action properties. Beyond
the runs, theorems say how far the violated promises can go, and what of the
liveness properties is safety.
The theorems hold for every value of the constants, from the named
assumptions of the modules, which TLC evaluates in the runs. Most invariants
are not inductive; what each proof adds is what the code relies on without saying so.

`EnetChannelProofs`, for every number of channels, window size, timeout limit,
set of lengths and bound (assumed: at least one channel, lengths no longer than
the window, positive limits):

- `TypeCorrect`: `Spec => []TypeOK`.
- `OrderCorrect`: `Spec => []OrderInv`. Delivery order alone is not inductive.
  `OrderInv` adds why it holds: the numbers given by `enet_peer_send` grow with
  the calls (`NumbersGrow`); wherever a command is, in a list, on the wire or
  queued, it carries the numbers of its packet (`CommandsCarryNumbers`); and of
  each channel the log is in order, complete up to the last reliable number, and
  everything queued as unreliable is younger than the log (`DeliveredInOrder`).
  The proof has one lemma per part, one step per action.
- `ImplementsOrder`: `Spec => KeepsOrder`. Given `OrderInv`, a send is an
  `Accept`, a dispatch a `Deliver`, the reset a `GiveUp`, everything else a
  stutter.
- `NothingIsLost`, `AcksAreTruthful`: `Spec => [](AcksTruthful /\ NothingLost)`. The
  two support each other: a sender only forgets what is acknowledged, and what is
  acknowledged is queued or delivered and never discarded before.
- `RetransmitsComeFirst`: `Spec => []RetransmitFirst`. `RetransmitInv` adds that a
  command in the sent list has a timeout, which is what tells it from one never sent
  when `enet_protocol_check_timeouts` puts it in front again.
- `WindowIsExact`: `Spec => []WindowExact`. The account is a sum over the sent list; the
  invariant (`Account`) writes it as a sum over positions, so that a command
  appended, removed from the middle or timed out changes it by its own length.
- `SenderNeverStuck`: `Spec => []SenderHasMove`, the safety half of
  `ReliableDelivery`. While a reliable packet is missing, the sender has a command
  in flight, which will time out, or its first command fits the window. It
  follows from three of the above: the packet is in one of the two lists
  (`NothingLost`), and with nothing in flight the account is 0 (`Account`), where
  any command fits.

`EnetConnectionProofs`, for every number of slots and clients. One invariant
(`ConnectionInv`) carries five theorems (`ConnectionTypeCorrect`,
`GoodbyeOwesNothingElse`, `ClientHoldsOneSlot`, `TenantIsUser`,
`PacketsAreTheTenants`): a slot in use knows the challenge and the place of the
client it belongs to, no client loses its challenge before its reset
(`PeerOK`), and every command ever sent carries the challenge of the connection
it is about (`MessageOK`). From that no late command reaches a later tenant.
Three more theorems say how far two of the violated promises can go:

- `OnlyGoodbyesAnswered`: `Spec => []SlotsAnswerGoodbyes`. A slot that says goodbye
  answers its own tenant, and none is dead, or owes the answer to a goodbye, that
  was sent none.
- `OnlyGoodbyesKill`: `Spec => [][\A s \in Slots : DiesOfGoodbye(s)]_vars`. A slot
  dies of its tenant's goodbye, or of an acknowledgement it owed before it was
  taken: the way of `stale_acknowledgement` is the only one. The step invariant
  (`FarewellStep`) has a lemma per handler; that nothing leaves the wire
  (`WireGrows`) makes it inductive.
- `OnlyGoodbyesGoUnreported`: `Spec => [][\A s \in Slots : FreedQuietly(s)]_vars`. A
  slot is freed without its event only by its tenant's goodbye, and only if that comes
  in the handshake, crosses the server's, or comes twice. `silent_disconnect`
  shows one of the three.

`EnetFragmentsProofs`, for any number of packets of any number of fragments:

- `PacketsHandedWhole`: `FragmentsSpec => [](FragmentsTypeOK /\ HandedWhole)`, and
  `OpeningFragmentFindsRoom`: `FragmentsSpec => []OpeningFindsRoom`. The invariant
  relates three things: packets take the numbers in a row (`NumbersInRow`), what was
  handed over ends where the channel's counter stands (`HandedUpTo`), and every entry
  of the list belongs to one packet, which has no other, and misses exactly the
  fragments it says (`AssemblyInv`).
- `MisfiledPacketStalls`: `FragmentsSpec => MisfiledStalls`. No step hands over a packet
  filed under a number that is not its first, nor one behind it.
- `FragmentsImplementOrder`: `FragmentsSpec => WholeOrder!COSpec`. Packets in pieces keep
  the promise that `EnetChannel` keeps for packets in one: with the packets numbered
  by their first pieces (`PacketAt`), `SendPacket` is an `Accept` and a hand-over the
  `Deliver` of the next one. A stalled channel breaks nothing of it, as
  `ChannelOrder` promises order, not progress.

`EnetThrottleProofs`, for every scale, step and set of round trips, every set of
peers, bandwidth, interval and traffic:

- `ThrottleCorrect`, `EstimatesCorrect`: `ThrottleSpec => [](ThrottleTypeOK /\
  ThrottleWithinLimit /\ EstimatesHold)`. The lemma `EstimatedFacts` says that a
  sample moves the time towards it and never past it, whichever way the
  division rounds, and that the variance stays a natural number; so the time
  stays between the smallest and the largest sample.
- `ShareIsExact`: `ThrottleSpec => []CycleShare`, from `CoprimeAssumption`: the step 7
  has no factor in common with the scale 32. The counter of Scale packets in a
  row takes no value twice (`CounterVisitsAll`), so it takes every one, and as
  many packets pass as there are values up to the throttle (`CycleCount`).
  `CycleInv` says which packets of the history have passed.
- `NewsStaysDue`: `BandwidthSpec => []NewsIsDue`.
- `SharingNeverOverdraws`: `BandwidthSpec => []NeverOverdrawn`. `SharingInv` says that what is
  left and what was given make up the budget, and that the bytes of those who
  were given nothing yet are still in `dataTotal`. A round keeps it, and leaves
  something, because a peer that exceeds the rate can take less than its part of
  it: summed over the peers of the round, what they get is less than the bandwidth
  that was there (`RoundFits`).
- `LimitsFit`: `BandwidthSpec => []SharesFit`. In the last round nobody exceeds the rate;
  the parts of those with a limit of their own and of those with the rate
  then add up to the budget at most (`EndFits`), however each division rounds.
- `BandwidthTypes`: `BandwidthSpec => []BandwidthTypeOK`: the locals of both loops stay
  natural numbers, the wrap of the second included.
- `CallsAreShort`: `BandwidthSpec => []CallIsShort /\ CallEnds`, the safety half of
  `NewsIsSent`. `StepsLeft` counts down with every step of a call and begins at no
  more than two for each peer and four: a round that does not end its loop takes a
  peer (`RoundTakes`), also in the loop whose test is inverted.

`GameProofs` on `FloodControl`, for every limit, window, number of messages and length of
the run, from `FloodAssumption` (all natural numbers):

- `CountersCorrect`: `FloodSpec => [](FloodTypeOK /\ NobodyOverstays)`, with a clock
  that may be set back. That kept is above `MSG_C` whenever a message is dropped is
  not inductive: `KeptWithCount` adds that kept has grown with count as long as
  the window lets messages through.
- `LimitCorrect`, `PoliteLoseNothing`: `FloodSpec => [](PolitePasses /\ BurstBound)`.
  Both are about any span of time, the counters only about the present window.
  `WindowInv` says which messages of the log the window has counted, its tail, and
  that exactly the first `MSG_C` + 1 of them passed; `EarlierInv` that those
  passed shortly before the window began are no more than `MSG_C` + 1, because
  windows begin more than `MSG_S` apart. A span that reaches into the present
  window is then covered by two such sets (`SpanOfTwoWindows`), and one that
  does not is as it was.

`SessionProofs`, for any number of clients. `SessionInv` carries five theorems:

- `SessionTypeCorrect`, `EveryEndIsAnnounced` (`GoneIsAnnounced`), `AllAreIntroduced`
  (`Acquainted`): who is linked or registered is in the list, nobody loses the number the
  server gave it, and the server tells of users only (`UsersInv`).
- `OwnNumberIsTheServers` (`NumbersAgree`): a confirmation on its way carries the number
  the server has for its reader (`PlayInv`), and each channel only its own kinds of
  message (`MailInv`).
- `NoUnknownPlayer` (`KnownOnceCaughtUp`): `TalkInv` says that a client knows, *or will
  know once it has read its system messages*, whomever it was told of (`Knows`), and
  that game messages are about such players. The order of the confirmation and the News
  in the one list is what makes "will know" inductive, as a New read before the
  confirmation may be taken for one of the client itself.

One more is about `session_numbers`: `UniqueUntilSomebodyGoes`. As long as every user
there ever was is listed (`AllListed`), users are numbered by their places
(`NumberedByPlace`), so no two share a number, and of those connected and registered
all know of each other. Only a departure breaks it.

`GameProofs` on `Physics` and `GameLoop`, for frames of every length and every height of respawn, and
for every number of other players and bullets and deaths of every length:

- `GroundCorrect`: `PhysicsSpec => [](PhysicsTypeOK /\ GroundHolds)`. `DropFacts`: a
  drop from any height ends on a platform met or on the ground, and from below
  the ground it lifts.
- `FallCorrect`: `PhysicsSpec => NoneFallenThrough`. `ShortDrop`: of platforms at
  least 60 apart a fall by less meets no two, so the first of the vector is the
  nearest.
- `NothingElseDeletedIsUsed`: `LoopSpec => []UsedWhileAlive`, and `ListsCountTheLiving`:
  `LoopSpec => []AliveIsListed`. `LoopInv` says which lists of roots there can be
  (`RootsInv`); how often each object is in the lists of the scene, counted against its
  joins (`SceneInv`); which stacks of loops there can be (`StackInv`): an iterator
  is at an element of its own list or at its end, and below a loop within a loop there
  is a client that sleeps in its events; and that what any step can reach is alive, or
  one of the three exceptions (`UsedInv`). That a doubly joined pawn is counted rather
  than forbidden is what makes the invariant inductive for the code as it is.
- `LoopTypes`: `LoopSpec => []LoopTypeOK`.

`PartsProofs`, for the disjoint union that the run `parts` checks: `PartsAreTheirOwn`, that
`PartsSpec` implies the specification of every part, of which all but the chosen one
stand still. So the theorems above hold of the run, whose fairness is not that
of the parts' own specifications but theirs while they run. `PartsTypes`
(`PartsSpec => []PartsTypeOK`) is one consequence.

`SequenceLemmas` has what these proofs need to know of lists and sums. The library's
theorems for induction over data take an operator as a parameter, which the provers here
cannot instantiate. Their place is taken by two lemmas over *sets*: a
nonempty set of numbers has a least element (`LeastExists`), for
least counterexamples, and a set of subsets that contains every set whose
smaller ones it contains is all of them (`SubsetInduction`). With them a fold is shown to
be a sum in any order (`SumAnyOrder`), and sums to split, scale and compare.

Only model-checked: liveness (`ReliableDelivery`, `HandshakeEnds`, `GoodbyeEnds`,
`HandedUnlessMisfiled`, `NewsIsSent`, `EscapeEnds`), which rests on fairness and
`ENABLED`, both beyond the provers. `SenderNeverStuck` and `CallsAreShort` are the part of
two of them that needs neither.

## What is not modelled

- ENet: the window is that of the handshake. `enet_protocol_handle_bandwidth_limit`
  (`enet/protocol.c:390-404`) computes it anew when the host shares its bandwidth, with the same
  result, the maximum, unless the client's settings limit its bandwidth (`client.cpp:405`). No
  program changes a limit while it is connected, so what `NewsIsDue` is about are peers that
  come and go. The order of the peers within one round of
  `enet_protocol_send_outgoing_commands`: in `EnetConnection` all are served, or one is given up.
- ENet: pings; that an unreliable packet may be dropped is a free choice in
  `EnetChannel` and counted out in `EnetThrottle`; the wrap of 32-bit sequence
  numbers (four billion packets on a channel); `enet_peer_throttle_configure`
  and `enet_peer_disconnect_now`, which nobody calls (the latter's first test is
  inverted, `enet/peer.c:403`); sockets, clocks and allocation.
- Server and client: the contents of messages beyond whom they are about, the
  handlers for messages no client sends, file transfer, which no server sends.
  `GameLoop` takes them in any order; that a message under an unknown number ends
  in a NULL pointer is in `Session`.
- Game: walking, the flight of a bullet, the computer player (never made),
  drawing, settings and archives.
- Wall-clock time in the frame loop: `GetDiff` with a clock that is set back makes the
  loop sleep until it has caught up (`plat.cpp:22`).
- The website tools, tests and assets, which share nothing with the game. They
  are most of the repository: `src/c/test1noc.c` alone, two thirds of its lines
  of C and C++, is the output of a preprocessor.

## The plan

Done: every module above, with the theorems of the last section but one.

What could come next:

1. What `early_packet` leaves: that a reliable packet is lost only to a slot still in its
   handshake.
2. What safety can say of the remaining liveness: that a frame of the loop visits no
   element twice, that a command acknowledged is never sent again.
3. Fragments on a lossy channel, `EnetFragments` over `EnetChannel` in one module, in
   place of the assumption that pieces keep arriving.
