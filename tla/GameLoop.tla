------------------------------- MODULE GameLoop -------------------------------
(***************************************************************************)
(* The frame loop of the client program and the objects it ticks           *)
(* (gamestate.cpp, abg.cpp, game.cpp, gameinfo.cpp, bullet.cpp, and        *)
(* Client::Tick): who is ticked while which lists change, what is deleted, *)
(* and who still points to it.                                             *)
(*                                                                         *)
(* The loops that are running are a stack of frames, as on the C++ stack,  *)
(* each with the place its iterator is at.  The client's death calls      *)
(* Sleep inside its Tick, and Sleep runs the loop over all roots again.    *)
(*                                                                         *)
(* The messages of the server come in any order, with any numbers; which   *)
(* ones it really sends is Session's subject, and so are the messages with *)
(* an unknown number, which end in a NULL pointer.  Positions are left to  *)
(* Physics, drawing is left out, and the platforms belong to the board.    *)
(* ExecManaged, RemoveRoot, WaitChildren, ClearChildren, DelObject and     *)
(* SubStateText are called by nothing in the program.                      *)
(***************************************************************************)
EXTENDS Naturals, Sequences, FiniteSets, SequencesExt

CONSTANTS
    Guests,     \* the pawns that may be made for other players
    Bullets,    \* the bullets that may be alive at a time
    MaxRounds,  \* bound: the frames a death may last
    MaxPlayers  \* bound: the length of GGame->players

ASSUME LoopAssumption ==
    /\ MaxRounds \in Nat /\ MaxPlayers \in Nat
    /\ (Guests \cup Bullets) \cap {"client", "game", "info", "board", "local", "none"} = {}
    /\ Guests \cap Bullets = {}

VARIABLES
    roots,    \* GameState::states
    kids,     \* GGame->children
    players,  \* GGame->players
    objects,  \* what GGame->objects points to
    known,    \* Client::players: the pawns it holds, "local" the own one
    gstate,   \* GameState::state of the two roots; the others' is GS_Normal
    stack,    \* the loops that are running, outermost first
    rounds,   \* frames left of the Sleep that is running
    link,     \* whether Game::client is set
    hurt,     \* the own pawn has lost its last health, and needs an update
    sender,   \* Bullet::sender
    phase,    \* of GameState::Run and main
    joins,    \* history: how often each pawn has joined
    quit,     \* history: the pawns that a Quit has taken from the map
    alive,    \* history: the objects that have been made and not deleted
    misused   \* history: the objects that have been used after they were deleted

loopVars == <<roots, kids, players, objects, known, gstate, stack, rounds, link, hurt, sender,
              phase, joins, quit, alive, misused>>

\* The scene as the client's events change it.
cast == <<kids, players, objects, known, sender, joins, quit, alive>>

-----------------------------------------------------------------------------
Pawns == {"local"} \cup Guests

Objects == {"client", "game", "info", "board"} \cup Pawns \cup Bullets

\* list "events": the loop over the client's network events.
Frame == [list : {"roots", "kids", "players", "events"}, at : Nat]

F(list, i) == [list |-> list, at |-> i]

\* What a loop walks through.
Walked(list) == CASE list = "roots" -> roots [] list = "kids" -> kids [] list = "players" -> players

Times(s, x) == Cardinality({i \in DOMAIN s : s[i] = x})

Top == Last(stack)

Running(list) == phase = "running" /\ stack # <<>> /\ Top.list = list

\* The loop on top is at x, or at the end of its list.
At(list, x) == Running(list) /\ Top.at \in DOMAIN Walked(list) /\ Walked(list)[Top.at] = x

AtEnd(list) == Running(list) /\ Top.at > Len(Walked(list))

\* The loop on top goes on at place i.
Moved(i) == [stack EXCEPT ![Len(stack)].at = i]

\* The loop on top is done, and the one below goes on at place i.
Left(i) == [Front(stack) EXCEPT ![Len(stack) - 1].at = i]

Below == stack[Len(stack) - 1]

\* The address new returns: which one of those that are free makes no difference.
NewBullet == CHOOSE b \in Bullets : b \notin alive

Uses(S) == misused' = misused \cup (S \ alive)

\* main, up to the first Tick of the root in Run.  Without a connection the own
\* pawn is put into the scene at once.
LoopInit ==
    \E online \in BOOLEAN :
        /\ roots = IF online THEN <<"client", "game">> ELSE <<"game">>
        /\ link = online
        /\ players = IF online THEN <<>> ELSE <<"local">>
        /\ kids = <<"board">> \o players
        /\ joins = [p \in Pawns |-> IF ~online /\ p = "local" THEN 1 ELSE 0]
        /\ objects = {} /\ known = {} /\ quit = {}
        /\ alive = {"game", "info", "board", "local"} \cup (IF online THEN {"client"} ELSE {})
        /\ gstate = [r \in {"client", "game"} |-> "Normal"]
        /\ stack = <<F("kids", 1)>> /\ rounds = 0
        /\ hurt = FALSE /\ sender = [b \in Bullets |-> "none"]
        /\ phase = "running" /\ misused = {}

-----------------------------------------------------------------------------
\* GameState::TickAllOnce.

FrameBegins ==
    /\ phase = "running" /\ stack = <<>>
    /\ stack' = <<F("roots", 1)>>
    /\ UNCHANGED <<roots, cast, gstate, rounds, link, hurt, phase, misused>>

\* A slip: Sleep waits for its state to change, as WaitChildren does.
AwakeWhenWoken == gstate["client"] # "Sleeping"

Awake == rounds = 0

\* All roots have been ticked and the screen is drawn, or the game was finished.
\* In the outermost frame Run goes on; in the other one Sleep does, whatever
\* TickAllOnce returned, and ends in the client's Tick after an UpdateMyself.
FrameEnds ==
    /\ AtEnd("roots")
    /\ \/ /\ Len(stack) = 1 /\ stack' = <<>>
          /\ UNCHANGED <<gstate, rounds, misused>>
       \/ /\ Len(stack) > 1 /\ ~Awake
          /\ stack' = Moved(1)
          /\ rounds' = IF rounds > 0 THEN rounds - 1 ELSE rounds
          /\ UNCHANGED <<gstate, misused>>
       \/ /\ Len(stack) > 1 /\ Awake
          /\ stack' = Front(stack)
          /\ gstate' = [gstate EXCEPT !["client"] = "Normal"]
          /\ Uses({"client", "game", "local"})
          /\ UNCHANGED rounds
    /\ UNCHANGED <<roots, cast, link, hurt, phase>>

-----------------------------------------------------------------------------
\* Client::Tick.

\* A slip: the status of GameState::Tick is ignored.
DozingNever == FALSE

\* GameState::Tick returns S_Wait in GS_Sleeping.
Dozing == gstate["client"] = "Sleeping"

\* The client sleeps, below on the stack.
ClientDozes ==
    /\ At("roots", "client") /\ Dozing
    /\ stack' = Moved(Top.at + 1) /\ Uses({"client"})
    /\ UNCHANGED <<roots, cast, gstate, rounds, link, hurt, phase>>

\* Finish(false) and the call of Sleep, which makes GS_Sleeping of GS_Finished.
ClientDies ==
    /\ At("roots", "client") /\ ~Dozing /\ hurt
    /\ hurt' = FALSE
    /\ gstate' = [gstate EXCEPT !["client"] = "Sleeping"]
    /\ stack' = stack \o <<F("events", 0), F("roots", 1)>>
    /\ rounds' \in 0 .. MaxRounds
    /\ Uses({"client", "game", "local"})
    /\ UNCHANGED <<roots, cast, link, phase>>

ClientListens ==
    /\ At("roots", "client") /\ ~Dozing /\ ~hurt
    /\ stack' = Append(stack, F("events", 0))
    /\ Uses({"client", "game", "local"})
    /\ UNCHANGED <<roots, cast, gstate, rounds, link, hurt, phase>>

\* enet_host_service has nothing more.
EventsEnd ==
    /\ Running("events")
    /\ stack' = Left(Below.at + 1)
    /\ UNCHANGED <<roots, cast, gstate, rounds, link, hurt, phase, misused>>

-----------------------------------------------------------------------------
\* Client::HandleEvent.

\* What is in the map after OnNew: a new Pawn, under a number that nobody has or
\* in the place of another, who is forgotten and not deleted; or what was in it,
\* for the own pawn's number.
AfterNew(K) ==
    {K} \cup {(K \ {q}) \cup {p} : p \in Guests \ (alive \cup quit), q \in (K \ {"local"}) \cup {"none"}}

\* New; and Boot, because the block of New takes every message on CSystem.
NewReceived ==
    /\ known' \in AfterNew(known) /\ alive' = alive \cup known'
    /\ Uses({"client", "game", "local"})
    /\ UNCHANGED <<kids, players, objects, sender, joins, quit>>

\* Reg, once, and the block of New.
RegReceived ==
    /\ "local" \notin known \cup quit
    /\ \E q \in known \cup {"none"} : known' \in AfterNew((known \ {q}) \cup {"local"})
    /\ alive' = alive \cup known'
    /\ Uses({"client", "game", "local"})
    /\ UNCHANGED <<kids, players, objects, sender, joins, quit>>

\* Quit: the block of New has read the number, OnQuit gets any.  DelPlayer deletes
\* a pawn in the scene, the own one too, takes it from both lists once, and leaves
\* it to its bullets as their sender.  A pawn that is not in the scene it forgets.
QuitReceived ==
    \E K \in AfterNew(known) : \E p \in K :
        /\ known' = K \ {p} /\ quit' = quit \cup {p}
        /\ kids' = RemoveFirst(kids, p) /\ players' = RemoveFirst(players, p)
        /\ alive' = (alive \cup K) \ (ToSet(kids) \cap {p})
        /\ Uses({"client", "game", "info", "local"} \cup (known \cap {p}))
        /\ UNCHANGED <<objects, sender, joins>>

\* Join: AddPlayer does not ask whether the pawn is in the scene.
JoinReceived(p) ==
    /\ p \in known /\ Len(players) < MaxPlayers
    /\ kids' = Append(kids, p) /\ players' = Append(players, p)
    /\ joins' = [joins EXCEPT ![p] = @ + 1]
    /\ Uses({"client", "info", p}) /\ UNCHANGED <<objects, known, sender, quit, alive>>

\* GameInfo::AddObject.
BulletMade(p) ==
    /\ Bullets \ alive # {}
    /\ kids' = Append(kids, NewBullet) /\ objects' = objects \cup {NewBullet}
    /\ alive' = alive \cup {NewBullet} /\ sender' = [sender EXCEPT ![NewBullet] = p]

\* BulletShoot by another player, or by one the client does not know.
ShotReceived(p) ==
    /\ p # "local" /\ BulletMade(p)
    /\ Uses({"client", "game", "info"}) /\ UNCHANGED <<players, known, joins, quit>>

\* A packet is received; Upd, Msg and Leave look at a pawn.  The status HandleEvent
\* returns has not been set: with S_Continue the loop goes on, with S_Abort the
\* program ends, with any other it is the last event of this frame.
EventReceived ==
    /\ Running("events")
    /\ \/ NewReceived \/ RegReceived \/ QuitReceived
       \/ \E p \in known : JoinReceived(p)
       \/ \E p \in known \cup {"none"} : ShotReceived(p)
       \/ \E p \in known \cup {"client"} : Uses({"client", "game", p}) /\ UNCHANGED cast
    /\ \/ UNCHANGED <<stack, phase>>
       \/ stack' = Left(Below.at + 1) /\ UNCHANGED phase
       \/ stack' = <<>> /\ phase' = "leaving"
    /\ UNCHANGED <<roots, gstate, rounds, link, hurt>>

\* ENET_EVENT_TYPE_DISCONNECT: Finish, S_Finished, and TickAllOnce deletes it with
\* its map, which clears Game::client, and goes on with what states.erase returns.
Disconnected ==
    /\ Running("events")
    /\ roots' = RemoveAt(roots, Below.at)
    /\ stack' = Front(stack)
    /\ gstate' = [gstate EXCEPT !["client"] = "Destroy"]
    /\ alive' = alive \ {"client"} /\ link' = FALSE /\ known' = {}
    /\ Uses({"client", "game"})
    /\ UNCHANGED <<kids, players, objects, sender, joins, quit, rounds, hurt, phase>>

-----------------------------------------------------------------------------
\* Game::Tick.

\* First its child, the GameInfo, ticks its own children.
GameTicks ==
    /\ At("roots", "game")
    /\ stack' = Append(stack, F("kids", 1)) /\ Uses({"game", "info"})
    /\ UNCHANGED <<roots, cast, gstate, rounds, link, hurt, phase>>

\* Board, Pawn and HumanPawn::Tick, the pawns' once as children of the GameInfo
\* and once as its players.  A Bullet that flies on.
Ticks(list, x) ==
    /\ At(list, x)
    /\ stack' = Moved(Top.at + 1)
    /\ Uses({x} \cup (IF x \in Bullets THEN ToSet(players) \cup {"info"} ELSE {}))
    /\ UNCHANGED <<roots, cast, gstate, rounds, link, hurt, phase>>

\* HumanPawn::Tick with a shot: a child is added to the list that is being
\* walked through, and the server is told.
Shoots(list) ==
    /\ At(list, "local") /\ BulletMade("local")
    /\ stack' = Moved(Top.at + 1)
    /\ Uses({"game", "info", "local"} \cup (IF link THEN {"client"} ELSE {}))
    /\ UNCHANGED <<roots, players, known, joins, quit, gstate, rounds, link, hurt, phase>>

\* A slip: a finished child is taken from the list and not deleted.
KeptAfterTick(b) == alive

LeftAfterTick(b) == alive \ {b}

\* Bullet::Tick hits a player that did not send it, or leaves the board: it is
\* finished, and GameState::Tick of the GameInfo deletes it and goes on with what
\* children.erase returns.  Its fields go with it; GGame->objects keeps its pointer.
BulletEnds(b) ==
    /\ At("kids", b) /\ b \in Bullets
    /\ \/ UNCHANGED hurt
       \/ \E p \in ToSet(players) \ {sender[b]} : hurt' = (hurt \/ (link /\ p = "local"))
    /\ kids' = RemoveAt(kids, Top.at) /\ alive' = LeftAfterTick(b)
    /\ sender' = [sender EXCEPT ![b] = "none"]
    /\ Uses({b, "info"} \cup ToSet(players))
    /\ UNCHANGED <<roots, players, objects, known, gstate, stack, rounds, link, phase, joins, quit>>

\* Game::Tick returns to the loop below it, the first time to Run.  Finished and
\* without a successor, the root ends TickAllOnce before the drawing; the
\* outermost TickAllOnce ends Run.
GameReturns(finished) ==
    IF Len(stack) = 1 THEN stack' = <<>> /\ UNCHANGED phase
    ELSE IF finished /\ Len(stack) = 2 THEN stack' = <<>> /\ phase' = "leaving"
    ELSE stack' = Left(IF finished THEN Len(roots) + 1 ELSE Below.at + 1) /\ UNCHANGED phase

\* The GameInfo has been ticked; a game that is finished goes no further.
SceneTicked ==
    /\ AtEnd("kids") /\ Uses({"game", "info"})
    /\ \/ gstate["game"] = "Destroy" /\ GameReturns(TRUE)
       \/ /\ gstate["game"] # "Destroy"
          /\ stack' = Append(Front(stack), F("players", 1)) /\ UNCHANGED phase
    /\ UNCHANGED <<roots, cast, gstate, rounds, link, hurt>>

\* KEY_ESC, or the camera follows the own pawn.
PlayersTicked ==
    /\ AtEnd("players")
    /\ \E escape \in BOOLEAN :
        /\ gstate' = IF escape THEN [gstate EXCEPT !["game"] = "Destroy"] ELSE gstate
        /\ Uses({"game", "info", "board"} \cup IF escape THEN {} ELSE {"local"})
        /\ GameReturns(escape)
    /\ UNCHANGED <<roots, cast, rounds, link, hurt>>

-----------------------------------------------------------------------------
\* The end of GameState::Run and of main.

\* The roots are deleted in their order, each with its children: ~GameState reads
\* and deletes what its list holds, again if it holds it twice.
RootDeleted ==
    /\ phase = "leaving" /\ roots # <<>>
    /\ LET r == Head(roots)
           gone == IF r = "game" THEN {"game", "info"} \cup ToSet(kids) ELSE {r}
       IN  /\ alive' = alive \ gone
           /\ misused' = misused \cup ((gone \cup {"game"}) \ alive)
                            \cup (IF r = "game" THEN {x \in ToSet(kids) : Times(kids, x) > 1} ELSE {})
           /\ link' = (link /\ r # "client")
           /\ known' = IF r = "client" THEN {} ELSE known
           /\ kids' = IF r = "game" THEN <<>> ELSE kids
           /\ players' = IF r = "game" THEN <<>> ELSE players
           /\ objects' = IF r = "game" THEN {} ELSE objects
    /\ roots' = Tail(roots)
    /\ UNCHANGED <<gstate, stack, rounds, hurt, sender, phase, joins, quit>>

\* main calls ResetGame, which goes through GGame.
ResetGame ==
    /\ phase = "leaving" /\ roots = <<>>
    /\ phase' = "over" /\ Uses({"info"} \cup ToSet(players))
    /\ UNCHANGED <<roots, cast, gstate, stack, rounds, link, hurt>>

\* What comes of the use of a deleted object is undefined: the program goes on as
\* if it were there, as in the other actions, or stops.
Crashes ==
    /\ phase \in {"running", "leaving"} /\ misused # {}
    /\ phase' = "crashed"
    /\ UNCHANGED <<roots, cast, gstate, stack, rounds, link, hurt, misused>>

\* What the program does by itself.
LoopStep ==
    \/ FrameBegins \/ FrameEnds \/ ClientDozes \/ ClientDies \/ ClientListens \/ GameTicks
    \/ \E list \in {"kids", "players"} :
        \/ \E x \in Objects : Ticks(list, x)
        \/ Shoots(list)
    \/ \E b \in Bullets : BulletEnds(b)
    \/ SceneTicked \/ PlayersTicked \/ RootDeleted \/ ResetGame

LoopNext == LoopStep \/ EventsEnd \/ EventReceived \/ Disconnected \/ Crashes

\* The program runs, and the network is drained faster than it fills.
LoopFairness == WF_loopVars(LoopStep) /\ WF_loopVars(EventsEnd)

LoopSpec == LoopInit /\ [][LoopNext]_loopVars /\ LoopFairness

-----------------------------------------------------------------------------
LoopTypeOK ==
    /\ ToSet(roots) \subseteq {"client", "game"}
    /\ kids \in Seq(Objects) /\ players \in Seq(Pawns)
    /\ objects \in SUBSET Bullets /\ known \in SUBSET Pawns
    /\ gstate \in [{"client", "game"} -> {"Normal", "Sleeping", "Destroy"}]
    /\ stack \in Seq(Frame) /\ rounds \in 0 .. MaxRounds
    /\ link \in BOOLEAN /\ hurt \in BOOLEAN
    /\ sender \in [Bullets -> Pawns \cup {"none"}]
    /\ phase \in {"running", "leaving", "over", "crashed"}
    /\ joins \in [Pawns -> Nat] /\ quit \in SUBSET Pawns
    /\ alive \in SUBSET Objects /\ misused \in SUBSET Objects

JoinedTwice == {p \in Pawns : joins[p] > 1}

\* The pawns that a Quit has deleted.
Dismissed == {p \in quit : joins[p] > 0}

\* Whatever joins, quits, is shot, dies or is deleted while loops over the lists
\* are running, one inside another, nothing is used after it has been deleted
\* (GameState::TickAllOnce, GameState::Tick, Client::Tick, ~Client), but for three
\* things: a pawn that has joined twice, without exception before the program
\* ends; the own pawn, once a Quit has deleted it; and at the end of main the
\* GameInfo, which ResetGame goes through (Client::OnJoin, Client::OnQuit, main).
UsedWhileAlive ==
    /\ misused \subseteq JoinedTwice \cup (Dismissed \cap {"local"})
                            \cup (IF phase = "over" THEN {"info"} ELSE {})
    /\ phase = "over" => JoinedTwice \cup {"info"} \subseteq misused

\* How the lists and the objects keep together.  But for the pawns, what is alive
\* is in one list, once, and what is in a list is alive; a pawn is in both lists
\* of the scene as often as it has joined, less one once a Quit has deleted it,
\* and a pawn that never joined is in none, so nothing else survives the game
\* (AddManagedChild, RemoveChild, GameState::Tick, ~GameState, DelPlayer, OnNew).
AliveIsListed ==
    /\ {"client", "game"} \cap alive = ToSet(roots)
    /\ \A x \in Bullets \cup {"board"} : Times(kids, x) = IF x \in alive THEN 1 ELSE 0
    /\ Bullets \cap alive \subseteq objects
    /\ "game" \in alive => \A p \in Pawns :
        /\ joins[p] > 0 => (p \in alive <=> p \notin quit)
        /\ \A s \in {kids, players} : Times(s, p) = joins[p] - IF p \in Dismissed THEN 1 ELSE 0
    /\ "game" \notin alive => alive \subseteq {p \in Pawns : joins[p] = 0}

\* Escape ends the program, also in the middle of a death, whose Sleep does not
\* look at what TickAllOnce returns (GameState::Sleep, Game::Tick).
EscapeEnds == gstate["game"] = "Destroy" ~> phase \in {"over", "crashed"}
===============================================================================
