------------------------------- MODULE Session -------------------------------
(***************************************************************************)
(* Who is playing, as the server and its clients see it: the user list of  *)
(* Server (project/server/server.cpp), the players and the scene of every  *)
(* Client (project/src/client.cpp), and the messages between them.         *)
(*                                                                         *)
(* The transport is what ENet promises (ChannelOrder): packets of one      *)
(* channel arrive in order, unreliable ones may be lost, and nothing is    *)
(* said of two channels.  A connection ends for the server when the peer   *)
(* has said goodbye or has timed out.                                      *)
(*                                                                         *)
(* A client connects once and makes each request at most once.  No client  *)
(* sends Quit, Join, Leave, Req, Sti or Ping; their handlers change        *)
(* nothing but what OnQuit does at a disconnect.                           *)
(***************************************************************************)
EXTENDS Naturals, Sequences, FiniteSets, FiniteSetsExt, SequencesExt

CONSTANTS
    Clients,    \* the client objects
    Movers, Shooters, Chatters,  \* bound: who sends Upd, BulletShoot and Msg
    Garbage     \* bound: what an id that is read but never set may hold

Requests == {"Reg", "Upd", "Shoot", "Msg"}

ASSUME ClientsAssumption == IsFiniteSet(Clients)
ASSUME TalkAssumption == Movers \cup Shooters \cup Chatters \subseteq Clients

ASSUME GarbageAssumption == Garbage \subseteq 0 .. Cardinality(Clients)

Allowed(c) == {request \in Requests : \/ request = "Upd" /\ c \in Movers
                                      \/ request = "Shoot" /\ c \in Shooters
                                      \/ request = "Msg" /\ c \in Chatters}

VARIABLES
    users,       \* Server::users, a user named by its client
    linked,      \* the clients whose peer on the server is CONNECTED
    registered,  \* the users whose registered flag is set
    pnum,        \* user->pawn->pnum; 0 before the connection
    pending,     \* per client, requests on their way to the server
    asked,       \* per client, the requests it has made while it runs
    inbox,       \* per client and channel, messages on their way to it
    client,      \* the Client objects
    announced,   \* history: per linked client, the users it was sent New, but not Quit, for
    introduced   \* history: the users that have ever registered

serverVars == <<users, linked, registered, pnum, announced, introduced>>
vars == <<serverVars, pending, asked, inbox, client>>

-----------------------------------------------------------------------------
Channels == {"CSystem", "CGame", "CChat"}

Numbers == 0 .. Cardinality(Clients)   \* 0: a number no player has

\* "State" is the reliable Upd with which a newcomer is told of a player.
Message == [kind : {"Reg", "New", "Quit", "Boot", "Join", "State", "Upd", "Shoot", "Msg"},
            num : Numbers]

M(kind, num) == [kind |-> kind, num |-> num]

\* A Pawn object of a client: the serial tells apart those made for one number.
Pawn  == [num : Nat, serial : Nat]
Local == [num |-> 1, serial |-> 0]   \* game->localpawn
NULL  == [num |-> 0, serial |-> 0]   \* also of a number that is not in the map

\* state: "broken" once a NULL or deleted pawn has been used.
\* orphan: a bullet without a sender has been added to the scene.
Client == [state : {"idle", "running", "gone", "broken"}, num : Numbers,
           players : [Numbers -> Pawn], scene : Seq(Pawn), orphan : BOOLEAN]

TypeOK ==
    /\ users \in Seq(Clients)
    /\ linked \in SUBSET Clients /\ registered \in SUBSET Clients
    /\ pnum \in [Clients -> Numbers]
    /\ pending \in [Clients -> SUBSET Requests] /\ asked \in [Clients -> SUBSET Requests]
    /\ inbox \in [Clients -> [Channels -> Seq(Message)]]
    /\ client \in [Clients -> Client]
    /\ announced \in [Clients -> SUBSET Clients] /\ introduced \in SUBSET Clients

NoMail == [ch \in Channels |-> <<>>]

\* A Client that has just been made.
NewClient == [state |-> "idle", num |-> 1, players |-> [n \in Numbers |-> NULL],
              scene |-> <<>>, orphan |-> FALSE]

Init ==
    /\ users = <<>> /\ linked = {} /\ registered = {}
    /\ pnum = [c \in Clients |-> 0]
    /\ pending = [c \in Clients |-> {}] /\ asked = [c \in Clients |-> {}]
    /\ inbox = [c \in Clients |-> NoMail]
    /\ client = [c \in Clients |-> NewClient]
    /\ announced = [c \in Clients |-> {}] /\ introduced = {}

Running(c) == client[c].state = "running"

-----------------------------------------------------------------------------
\* Server::Send.  A packet for a peer that is not connected goes nowhere.

\* packets[c] is appended to the given channel of every connected client; one
\* that has ended takes nothing any more.
Sent(box, ch, packets) ==
    [c \in Clients |-> IF c \in linked /\ Running(c) THEN [box[c] EXCEPT ![ch] = @ \o packets[c]] ELSE box[c]]

ToAll(m) == [c \in Clients |-> <<m>>]
ToOne(d, ms) == [c \in Clients |-> IF c = d THEN ms ELSE <<>>]

Learn(u)  == [c \in Clients |-> IF c \in linked THEN announced[c] \cup {u} ELSE announced[c]]
Forget(u) == [c \in Clients |-> IF c \in linked THEN announced[c] \ {u} ELSE announced[c]]

-----------------------------------------------------------------------------
\* Server::ServerTick, one action per event.

\* A slip: counted after the user has been appended.
NumberAfterAppend == Len(users) + 2

NextNumber == Len(users) + 1

\* ENET_EVENT_TYPE_CONNECT.
ServerConnect(c) ==
    /\ client[c].state # "idle" /\ pnum[c] = 0
    /\ pnum' = [pnum EXCEPT ![c] = NextNumber]
    /\ users' = Append(users, c)
    /\ linked' = linked \cup {c}
    /\ UNCHANGED <<registered, announced, introduced, pending, asked, inbox, client>>

\* Server::OnQuit, as seen by the clients.
QuitPackets(u) == ToAll(M("Quit", pnum[u]))

\* The peer leaves the connected state when it says goodbye or times out; the
\* event is raised then or later.
LinkLost(c) ==
    /\ c \in linked
    /\ linked' = linked \ {c}
    /\ announced' = [announced EXCEPT ![c] = {}]
    /\ UNCHANGED <<users, registered, pnum, introduced, pending, asked, inbox, client>>

\* ENET_EVENT_TYPE_DISCONNECT.  The peer is no longer connected, so it is not
\* among those the Quit is broadcast to.
ServerDisconnect(c) ==
    /\ c \in ToSet(users) /\ c \notin linked
    /\ IF c \in registered
       THEN /\ registered' = registered \ {c}
            /\ inbox' = Sent(inbox, "CSystem", QuitPackets(c))
            /\ announced' = Forget(c)
       ELSE UNCHANGED <<registered, inbox, announced>>
    /\ users' = RemoveFirst(users, c)
    /\ pending' = [pending EXCEPT ![c] = {}]
    /\ UNCHANGED <<linked, pnum, introduced, asked, client>>

\* A request of c is handled only while its peer is connected.
Received(c, request) ==
    /\ c \in linked /\ request \in pending[c]
    /\ pending' = [pending EXCEPT ![c] = @ \ {request}]

\* A slip: the walk through the users starts at the newcomer's own entry.
OthersAfter(c) == {u \in ToSet(users) : pnum[u] > pnum[c]}

\* The users OnRegister tells the newcomer of, registered or not.
Others(c) == {u \in ToSet(users) : pnum[u] # pnum[c]}

Listing(c, kinds) ==
    FlattenSeq([i \in 1 .. Len(users) |->
                    IF users[i] \in Others(c)
                    THEN [j \in 1 .. Len(kinds) |-> M(kinds[j], pnum[users[i]])]
                    ELSE <<>>])

\* A slip: the confirmation is broadcast like everything else.
ConfirmationToAll(c) == ToAll(M("Reg", pnum[c]))

Confirmation(c) == ToOne(c, <<M("Reg", pnum[c])>>)

\* Server::OnRegister.
OnRegister(c) ==
    /\ Received(c, "Reg")
    /\ registered' = registered \cup {c}
    /\ introduced' = introduced \cup {c}
    /\ LET confirmed == Sent(inbox, "CSystem", Confirmation(c))
           new       == Sent(confirmed, "CSystem", ToAll(M("New", pnum[c])))
           joined    == Sent(new, "CGame", ToAll(M("Join", pnum[c])))
           listed    == Sent(joined, "CSystem", ToOne(c, Listing(c, <<"New">>)))
       IN inbox' = Sent(listed, "CGame", ToOne(c, Listing(c, <<"Join", "State">>)))
    /\ announced' = [Learn(c) EXCEPT ![c] = @ \cup Others(c)]
    /\ UNCHANGED <<users, linked, pnum, asked, client>>

\* Server::OnUpdate and Server::OnBulletShoot pass the message on.
Relay(c, request) ==
    /\ Received(c, request)
    /\ inbox' = Sent(inbox, "CGame", ToAll(M(request, pnum[c])))
    /\ UNCHANGED <<serverVars, asked, client>>

\* An Upd is unreliable.
LoseUpdate(c) ==
    /\ Received(c, "Upd")
    /\ UNCHANGED <<serverVars, asked, inbox, client>>

BootPackets(c) ==
    Sent(Sent(inbox, "CSystem", ToOne(c, <<M("Boot", 0)>>)), "CSystem", QuitPackets(c))

\* A slip: the registered flag is cleared as OnQuit does.
BootAsQuit(c) ==
    /\ inbox' = BootPackets(c)
    /\ announced' = [Forget(c) EXCEPT ![c] = {}]
    /\ linked' = linked \ {c}
    /\ registered' = registered \ {c}
    /\ UNCHANGED <<users, pnum, introduced>>

\* Server::Boot.  The user stays in the list until the disconnect is complete.
Boot(c) ==
    /\ inbox' = BootPackets(c)
    /\ announced' = [Forget(c) EXCEPT ![c] = {}]
    /\ linked' = linked \ {c}
    /\ UNCHANGED <<users, registered, pnum, introduced>>

\* Server::OnMsg: passed on, or dropped, or the end of its sender, as the flood
\* control decides.
OnMsg(c) ==
    /\ Received(c, "Msg")
    /\ \/ /\ inbox' = Sent(inbox, "CChat", ToAll(M("Msg", pnum[c])))
          /\ UNCHANGED serverVars
       \/ UNCHANGED <<inbox, serverVars>>
       \/ Boot(c)
    /\ UNCHANGED <<asked, client>>

-----------------------------------------------------------------------------
\* The client programs.

\* main (abg.cpp): Client::InitLogic has succeeded, and Register is called.
Start(c) ==
    /\ client[c].state = "idle"
    /\ client' = [client EXCEPT ![c].state = "running"]
    /\ pending' = [pending EXCEPT ![c] = {"Reg"}]
    /\ asked' = [asked EXCEPT ![c] = {"Reg"}]
    /\ UNCHANGED <<serverVars, inbox>>

\* A slip: Game::InitLogic puts the own pawn into the scene itself.
PlaysAtOnce(c) == Running(c)

\* UpdateMyself and Shoot are called by HumanPawn::Tick, which runs once the own
\* pawn is in the scene.
Plays(c) == Local \in ToSet(client[c].scene)

\* Msg may be sent at any time.
Ask(c, request) ==
    /\ Running(c) /\ request \in Allowed(c) \ asked[c]
    /\ request # "Msg" => Plays(c)
    /\ pending' = [pending EXCEPT ![c] = @ \cup {request}]
    /\ asked' = [asked EXCEPT ![c] = @ \cup {request}]
    /\ UNCHANGED <<serverVars, inbox, client>>

\* What is left of a client whose program is over.
Ended(state) == [NewClient EXCEPT !.state = state]

\* The player leaves the game (Client::~Client).
Leave(c) ==
    /\ Running(c)
    /\ client' = [client EXCEPT ![c] = Ended("gone")]
    /\ inbox' = [inbox EXCEPT ![c] = NoMail]
    /\ asked' = [asked EXCEPT ![c] = {}]
    /\ UNCHANGED <<serverVars, pending>>

\* ENET_EVENT_TYPE_DISCONNECT: what has not arrived by then never will.
ClientDisconnect(c) ==
    /\ Running(c) /\ pnum[c] # 0 /\ c \notin linked
    /\ client' = [client EXCEPT ![c] = Ended("gone")]
    /\ inbox' = [inbox EXCEPT ![c] = NoMail]
    /\ asked' = [asked EXCEPT ![c] = {}]
    /\ UNCHANGED <<serverVars, pending>>

\* The Client object k after a handler.
Broken == Ended("broken")

OnRegisterConfirm(k, id) == [k EXCEPT !.num = id, !.players[id] = Local]

\* Another object than those in the scene; the one it replaces is forgotten.
NewPawn(k, id) ==
    [num |-> id,
     serial |-> Min((1 .. Len(k.scene) + 1) \ {p.serial : p \in ToSet(k.scene)})]

OnNew(k, id) == IF id = k.num THEN k ELSE [k EXCEPT !.players[id] = NewPawn(k, id)]

\* DelPlayer deletes the pawn if it is in the scene; the game goes on using
\* its own pawn, and a pawn that is in the scene twice.
OnQuit(k, id) ==
    LET p    == k.players[id]
        rest == RemoveFirst(k.scene, p)
    IN IF p = NULL \/ p \in ToSet(rest) \/ (p = Local /\ p \in ToSet(k.scene))
       THEN Broken
       ELSE [k EXCEPT !.scene = rest, !.players[id] = NULL]

OnJoin(k, id) ==
    IF k.players[id] = NULL THEN Broken
    ELSE [k EXCEPT !.scene = Append(@, k.players[id])]

\* OnUpdate and OnMsg look into the pawn and change nothing modelled here.
OnUpdate(k, id) == IF k.players[id] = NULL THEN Broken ELSE k

OnBulletShoot(k, id) == [k EXCEPT !.orphan = @ \/ k.players[id] = NULL]

\* Client::HandleEvent of channel CSystem.  The semicolon after the test for
\* New makes a New of every message; what the handlers after the first read
\* from the used-up packet is whatever their variables held (garbage).
HandleSystem(k, m, garbage) ==
    CASE m.kind = "Reg"  -> OnNew(OnRegisterConfirm(k, m.num), garbage)
      [] m.kind = "Boot" -> OnNew(k, garbage)
      [] m.kind = "New"  -> OnNew(k, m.num)
      [] m.kind = "Quit" -> OnQuit(OnNew(k, m.num), garbage)

\* Channels CGame and CChat.
HandleGame(k, m) ==
    CASE m.kind = "Join"             -> OnJoin(k, m.num)
      [] m.kind \in {"Upd", "State", "Msg"} -> OnUpdate(k, m.num)
      [] m.kind = "Shoot"            -> OnBulletShoot(k, m.num)

\* The status HandleEvent returns is never set (client.cpp:113): whether the game
\* loop then goes on, or drops the client, this action and Leave are its choices.
HandleEvent(c, ch) ==
    /\ Running(c) /\ inbox[c][ch] # <<>>
    /\ LET m == Head(inbox[c][ch]) IN
       \E k \in IF ch = "CSystem"
                THEN {HandleSystem(client[c], m, garbage) : garbage \in Garbage}
                ELSE {HandleGame(client[c], m)} :
          /\ client' = [client EXCEPT ![c] = k]
          /\ inbox' = [inbox EXCEPT ![c] =
                IF k.state = "broken" THEN NoMail ELSE [inbox[c] EXCEPT ![ch] = Tail(@)]]
          /\ asked' = IF k.state = "broken" THEN [asked EXCEPT ![c] = {}] ELSE asked
    /\ UNCHANGED <<serverVars, pending>>

\* An Upd is unreliable.
LoseEvent(c) ==
    /\ Running(c) /\ inbox[c]["CGame"] # <<>> /\ Head(inbox[c]["CGame"]).kind = "Upd"
    /\ inbox' = [inbox EXCEPT ![c]["CGame"] = Tail(@)]
    /\ UNCHANGED <<serverVars, pending, asked, client>>

-----------------------------------------------------------------------------
Next ==
    \E c \in Clients :
        \/ ServerConnect(c)
        \/ LinkLost(c)
        \/ ServerDisconnect(c)
        \/ OnRegister(c)
        \/ \E request \in {"Upd", "Shoot"} : Relay(c, request)
        \/ LoseUpdate(c)
        \/ OnMsg(c)
        \/ Start(c)
        \/ \E request \in Allowed(c) : Ask(c, request)
        \/ Leave(c)
        \/ ClientDisconnect(c)
        \/ \E ch \in Channels : HandleEvent(c, ch)
        \/ LoseEvent(c)

Spec == Init /\ [][Next]_vars

-----------------------------------------------------------------------------
\* Properties.

Users == ToSet(users)

\* The player a client takes for its own is the one the server means: the
\* number in its map, the number of its pawn and the number of its user agree,
\* whatever was broadcast before its confirmation (Server::OnRegister,
\* Client::OnRegisterConfirm).
NumbersAgree ==
    \A c \in Clients, n \in Numbers :
        client[c].players[n] = Local => n = pnum[c] /\ n = client[c].num

\* A player who has gone is not left standing with anybody: every connected
\* client that was told of a registered user is told when it is over, by Boot or
\* at the disconnect, also one that registered between the two
\* (Server::Boot, Server::ServerTick).
GoneIsAnnounced ==
    \A c \in linked, u \in introduced : u \in announced[c] => u \in Users

\* Any two registered users know of each other, whoever connected or registered
\* first, unless they share a number (Server::OnRegister).
Acquainted ==
    \A c, u \in linked \cap registered : u \in announced[c] \/ pnum[u] = pnum[c]

\* Nobody has left or been booted.
NobodyLeft == \A u \in Clients : pnum[u] # 0 => u \in linked

\* The client has its own pawn in the scene and has read its system messages.
CaughtUp(c) ==
    /\ Local \in ToSet(client[c].scene)
    /\ inbox[c]["CSystem"] = <<>>

\* Across the two channels, which have no order, a client that has caught up
\* knows every player the game messages on their way to it are about: no
\* handler will look up a NULL pawn (Client::HandleEvent; Quit is left out, its
\* handler erases the wrong player).
KnownOnceCaughtUp ==
    NobodyLeft => \A c \in Clients : CaughtUp(c) =>
        \A i \in 1 .. Len(inbox[c]["CGame"]) :
            client[c].players[inbox[c]["CGame"][i].num] # NULL

\* netproto.txt:11-12: every user has an id of its own.
UniqueNumbers ==
    \A i, j \in 1 .. Len(users) : i # j => pnum[users[i]] # pnum[users[j]]

\* bullet.cpp:28: every bullet in a scene has a sender.
EveryBulletHasSender == \A c \in Clients : ~client[c].orphan

\* netproto3.txt:24: Quit says that a user has quit.  A connected client that
\* has read all its messages shows nobody but users of the server.
NoGhosts ==
    \A c \in linked :
        (Running(c) /\ inbox[c] = NoMail) =>
            \A p \in ToSet(client[c].scene) :
                p = Local \/ \E u \in Users : pnum[u] = p.num
=============================================================================
