-------------------------------- MODULE Physics --------------------------------
(***************************************************************************)
(* How a player's own pawn jumps, falls and lands (Object::Tick,           *)
(* Pawn::Tick, HumanPawn::Tick, Board::Drop, and the death and respawn in  *)
(* Client::Tick), with the numbers of the program.                         *)
(*                                                                         *)
(* Time is counted in sixtieths of a second, so that every number is       *)
(* whole: a tick that takes n of them adds n to the speed of the fall.     *)
(* Heights are those of the feet, y - h.  How far the pawn walks matters   *)
(* here only for whether it is over the platforms, which all span the same *)
(* part of the board: any tick may change that.  A tick is one of the two  *)
(* a frame gives every player.                                             *)
(***************************************************************************)
EXTENDS Integers, Sequences

CONSTANTS
    Ticks60,   \* bound: the lengths of a frame, in sixtieths of a second
    Spawns     \* bound: the heights of the feet a player may come back at

ASSUME PhysicsAssumption ==
    /\ Ticks60 \subseteq Nat \ {0}       \* dtime >= MIN_DTIME
    /\ Spawns \subseteq 10 .. 561        \* 10 + rand() % (BoardHeight - PawnHeight)

VARIABLES
    feet,      \* y - h
    over,      \* whether x is within the platforms
    fallspeed,
    falling,   \* physstate = PHYS_Falling
    jumping,   \* pstate = PS_Jumping
    jumptime,
    life       \* "alive", or in the Sleep after a death: "dead", then "landed"

physicsVars == <<feet, over, fallspeed, falling, jumping, jumptime, life>>

-----------------------------------------------------------------------------
\* Game::InitLogic: the tops of the platforms, in the order of Board::geometry.
Geometry == <<240, 60, 120, 180>>

Ground == 10

JumpStep == 12   \* (int) (SpeedOfGravity * 1.25)
JumpTime == 12   \* .2 seconds

PhysicsInit ==
    /\ feet = Ground /\ over = FALSE
    /\ fallspeed = 0 /\ falling = FALSE
    /\ jumping = FALSE /\ jumptime = 0
    /\ life = "alive"

\* The platforms a fall from y by maxdist meets.
Met(y, maxdist) == {i \in DOMAIN Geometry : over /\ Geometry[i] \in y - maxdist .. y}

\* A slip: a platform the feet stand on is not met.
DropFromEdge(y, maxdist) ==
    LET met == {i \in Met(y, maxdist) : y > Geometry[i]} IN
    IF met # {} THEN y - Geometry[CHOOSE i \in met : \A j \in met : i <= j]
    ELSE IF y - maxdist <= Ground THEN y - Ground ELSE maxdist

\* A slip: the ground stops only a fall that ends on it.
DropPastGround(y, maxdist) ==
    LET met == Met(y, maxdist) IN
    IF met # {} THEN y - Geometry[CHOOSE i \in met : \A j \in met : i <= j]
    ELSE IF y - maxdist = Ground THEN y - Ground ELSE maxdist

\* Board::Drop: the first of them in the order of the vector, or the ground.
\* Below the ground the distance is negative.
Drop(y, maxdist) ==
    LET met == Met(y, maxdist) IN
    IF met # {} THEN y - Geometry[CHOOSE i \in met : \A j \in met : i <= j]
    ELSE IF y - maxdist <= Ground THEN y - Ground ELSE maxdist

\* What Object::Tick asks Drop for.
FallStep == IF fallspeed = 0 THEN 1 ELSE fallspeed

\* KEY_SPACE jumps from the ground only.
Jumps(space) == space /\ ~falling

\* HumanPawn::Tick.  Gravity pulls at the height of the tick before, then the
\* jump lifts.
Tick(n, space) ==
    LET fell    == Drop(feet, FallStep)
        started == Jumps(space)
        time    == (IF started THEN 0 ELSE jumptime) + n
    IN  /\ falling' = (fell # 0)
        /\ fallspeed' = (IF fell # 0 /\ ~falling THEN 0 ELSE fallspeed) + (IF fell # 0 THEN n ELSE 0)
        /\ IF started \/ jumping
           THEN /\ feet' = feet - fell + JumpStep
                /\ jumping' = (time < JumpTime)
                /\ jumptime' = IF time < JumpTime THEN time ELSE 0
           ELSE feet' = feet - fell /\ UNCHANGED <<jumping, jumptime>>
        /\ over' \in BOOLEAN   \* x += xs * (int) (dtime * 60)
        /\ life' = IF life = "dead" /\ fell = 0 THEN "landed" ELSE life

\* Client::Tick at a death: x and y are 0, which puts the feet below the ground.
Die ==
    /\ life = "alive" /\ life' = "dead"
    /\ feet' = -48 /\ over' = FALSE /\ jumptime' = 0
    /\ UNCHANGED <<fallspeed, falling, jumping>>

\* Sleep has returned after 3000 seconds, in which the pawn has landed.  If it was
\* jumping it goes on falling from its new place with the speed it has.
Respawn ==
    /\ life = "landed" /\ life' = "alive"
    /\ feet' \in Spawns /\ over' \in BOOLEAN
    /\ UNCHANGED <<fallspeed, falling, jumping, jumptime>>

AnyTick == \E n \in Ticks60, space \in BOOLEAN : Tick(n, space)

PhysicsNext == AnyTick \/ Die \/ Respawn

PhysicsSpec == PhysicsInit /\ [][PhysicsNext]_physicsVars

-----------------------------------------------------------------------------
PhysicsTypeOK ==
    /\ feet \in Int /\ fallspeed \in Nat /\ jumptime \in 0 .. JumpTime - 1
    /\ over \in BOOLEAN /\ falling \in BOOLEAN /\ jumping \in BOOLEAN
    /\ life \in {"alive", "dead", "landed"}

\* The feet are never below the ground, however fast the fall and however long
\* the frame, but between a death and the first tick of the dead: Drop lifts it
\* up again (Board::Drop with y - maxdist <= 10, Object::Tick).
GroundHolds == feet >= Ground \/ (life = "dead" /\ feet = -48)

\* A fall stops at the first surface below, "the first encountered" of board.h,
\* as long as it is slower than the platforms are apart: in a tick of less than
\* 60 no platform is passed by (Board::Drop takes the first of the vector, which
\* begins with the highest and goes on with the lowest).
NoneFallenThrough ==
    [][AnyTick /\ over /\ FallStep < 60 =>
        \A i \in DOMAIN Geometry : feet >= Geometry[i] => feet' >= Geometry[i]]_physicsVars
===============================================================================
