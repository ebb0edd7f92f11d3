------------------------------ MODULE GameProofs ------------------------------
(***************************************************************************)
(* Theorems about the parts of the game that are no part of ENet: Physics, *)
(* for frames of every length and every height a player may come back at;  *)
(* GameLoop, for every number of other players and bullets and deaths of   *)
(* every length; FloodControl, for every limit, every length of a window,  *)
(* every number of messages and any clock, as long as it runs.             *)
(***************************************************************************)
EXTENDS Physics, GameLoop, FloodControl, SequenceLemmas, FiniteSetTheorems, SequenceTheorems, TLAPS

-----------------------------------------------------------------------------
\* Physics.

PhysicsInv == PhysicsTypeOK /\ GroundHolds

\* The vector of platforms, written out.
LEMMA Platforms ==
    /\ DOMAIN Geometry = 1 .. 4
    /\ Geometry[1] = 240 /\ Geometry[2] = 60 /\ Geometry[3] = 120 /\ Geometry[4] = 180
BY DEF Geometry

\* A fall that meets platforms ends on one of them.
LEMMA DropMet ==
    ASSUME NEW y \in Int, NEW d \in Nat, Met(y, d) # {}
    PROVE  \E i \in Met(y, d) : /\ Drop(y, d) = y - Geometry[i]
                                /\ Drop(y, d) \in Int
                                /\ \A j \in Met(y, d) : i <= j
<1> DEFINE M == Met(y, d)
<1>1. M \subseteq 1 .. 4
  BY Platforms DEF Met
<1>2. \E i \in M : \A j \in M : i <= j
  <2>1. CASE 1 \in M
    BY <1>1, <2>1
  <2>2. CASE 1 \notin M /\ 2 \in M
    BY <1>1, <2>2
  <2>3. CASE 1 \notin M /\ 2 \notin M /\ 3 \in M
    BY <1>1, <2>3
  <2>4. CASE 1 \notin M /\ 2 \notin M /\ 3 \notin M
    BY <1>1, <2>4
  <2> QED BY <2>1, <2>2, <2>3, <2>4
<1> DEFINE i == CHOOSE k \in M : \A j \in M : k <= j
<1>3. i \in M /\ \A j \in M : i <= j
  BY <1>2
<1>4. Drop(y, d) = y - Geometry[i]
  BY DEF Drop
<1> HIDE DEF i
<1>5. Geometry[i] \in Int
  BY <1>1, <1>3, Platforms
<1> QED BY <1>3, <1>4, <1>5

\* Where a fall ends: on a platform met, or on the ground, or as far down as asked.
LEMMA DropFacts ==
    ASSUME NEW y \in Int, NEW d \in Nat \ {0}
    PROVE  /\ Drop(y, d) \in Int
           /\ y - Drop(y, d) >= Ground
           /\ Drop(y, d) <= d \/ y < Ground
<1>1. CASE Met(y, d) # {}
  <2>1. PICK i \in Met(y, d) : Drop(y, d) = y - Geometry[i] /\ Drop(y, d) \in Int
    BY <1>1, DropMet
  <2>2. i \in 1 .. 4 /\ Geometry[i] \in y - d .. y
    BY Platforms DEF Met
  <2>3. Geometry[i] \in {60, 120, 180, 240}
    BY <2>2, Platforms
  <2> QED BY <2>1, <2>2, <2>3 DEF Ground
<1>2. CASE Met(y, d) = {}
  <2>1. Drop(y, d) = IF y - d <= Ground THEN y - Ground ELSE d
    BY <1>2 DEF Drop
  <2> QED BY <2>1 DEF Ground
<1> QED BY <1>1, <1>2

\* A fall by less than 60 ends no lower than any platform that was not above it.
LEMMA ShortDrop ==
    ASSUME NEW y \in Int, NEW d \in Nat \ {0}, d < 60, over,
           NEW i \in DOMAIN Geometry, y >= Geometry[i]
    PROVE  y - Drop(y, d) >= Geometry[i]
<1>1. i \in 1 .. 4 /\ Geometry[i] \in {60, 120, 180, 240}
  BY Platforms
<1>2. CASE Met(y, d) # {}
  <2>1. PICK j \in Met(y, d) : Drop(y, d) = y - Geometry[j] /\ Drop(y, d) \in Int
    BY <1>2, DropMet
  <2>2. j \in 1 .. 4 /\ Geometry[j] \in y - d .. y
    BY Platforms DEF Met
  <2>3. Geometry[j] \in {60, 120, 180, 240}
    BY <2>2, Platforms
  <2>4. Geometry[j] > y - 60
    BY <2>2, <2>3
  <2> QED BY <1>1, <2>1, <2>3, <2>4
<1>3. CASE Met(y, d) = {}
  <2>1. Geometry[i] < y - d
    BY <1>1, <1>3 DEF Met
  <2>2. Drop(y, d) = IF y - d <= Ground THEN y - Ground ELSE d
    BY <1>3 DEF Drop
  <2> QED BY <1>1, <2>1, <2>2 DEF Ground
<1> QED BY <1>2, <1>3

\* The distance asked for is positive, and the lift of a jump is not downward.
LEMMA TickFacts ==
    ASSUME PhysicsTypeOK, NEW n \in Ticks60, NEW space \in BOOLEAN, Tick(n, space)
    PROVE  /\ n \in Nat \ {0} /\ FallStep \in Nat \ {0} /\ Drop(feet, FallStep) \in Int
           /\ feet' \in Int /\ feet' >= feet - Drop(feet, FallStep)
<1>1. n \in Nat \ {0} /\ FallStep \in Nat \ {0} /\ feet \in Int
  BY PhysicsAssumption DEF PhysicsTypeOK, FallStep
<1>2. Drop(feet, FallStep) \in Int
  BY <1>1, DropFacts
<1>3. feet' = feet - Drop(feet, FallStep) + JumpStep \/ feet' = feet - Drop(feet, FallStep)
  BY DEF Tick
<1> QED BY <1>1, <1>2, <1>3 DEF JumpStep

-----------------------------------------------------------------------------
\* The invariant holds of the pawn a game begins with.
LEMMA PhysicsInvInit == PhysicsInit => PhysicsInv
<1> SUFFICES ASSUME PhysicsInit PROVE PhysicsInv
  OBVIOUS
<1>1. feet \in Int /\ fallspeed \in Nat /\ jumptime \in 0 .. JumpTime - 1 /\ feet >= Ground
  BY DEF PhysicsInit, Ground, JumpTime
<1>2. over \in BOOLEAN /\ falling \in BOOLEAN /\ jumping \in BOOLEAN
  BY DEF PhysicsInit
<1>3. life \in {"alive", "dead", "landed"}
  BY DEF PhysicsInit
<1> QED BY <1>1, <1>2, <1>3 DEF PhysicsInv, PhysicsTypeOK, GroundHolds

\* And every tick, death and return keeps it.
LEMMA PhysicsInvStep == PhysicsInv /\ [PhysicsNext]_physicsVars => PhysicsInv'
<1> SUFFICES ASSUME PhysicsInv, [PhysicsNext]_physicsVars PROVE PhysicsInv'
  OBVIOUS
<1>1. PhysicsTypeOK /\ GroundHolds
  BY DEF PhysicsInv
<1>2. ASSUME NEW n \in Ticks60, NEW space \in BOOLEAN, Tick(n, space) PROVE PhysicsInv'
  <2> DEFINE fell == Drop(feet, FallStep)
             started == Jumps(space)
             time == (IF started THEN 0 ELSE jumptime) + n
  <2>1. n \in Nat \ {0} /\ FallStep \in Nat \ {0} /\ fell \in Int /\ feet' \in Int /\ feet' >= feet - fell
    BY <1>1, <1>2, TickFacts
  <2>2. feet' >= Ground
    <3>1. feet - fell >= Ground /\ feet \in Int
      BY <1>1, <2>1, DropFacts DEF PhysicsTypeOK
    <3> HIDE DEF fell
    <3> QED BY <2>1, <3>1 DEF Ground
  <2> HIDE DEF fell
  <2>3. time \in Nat
    BY <1>1, <2>1 DEF PhysicsTypeOK, JumpTime
  <2>4. jumptime' \in 0 .. JumpTime - 1 /\ jumping' \in BOOLEAN
    <3>1. CASE started \/ jumping
      <4>1. jumping' = (time < JumpTime) /\ jumptime' = IF time < JumpTime THEN time ELSE 0
        BY <1>2, <3>1 DEF Tick
      <4> HIDE DEF time
      <4> QED BY <2>3, <4>1 DEF JumpTime
    <3>2. CASE ~(started \/ jumping)
      <4>1. UNCHANGED <<jumping, jumptime>>
        BY <1>2, <3>2 DEF Tick
      <4> QED BY <1>1, <4>1 DEF PhysicsTypeOK
    <3> QED BY <3>1, <3>2
  <2>5. fallspeed' \in Nat
    <3>1. fallspeed' = (IF fell # 0 /\ ~falling THEN 0 ELSE fallspeed) + (IF fell # 0 THEN n ELSE 0)
      BY <1>2 DEF Tick, fell
    <3> QED BY <1>1, <2>1, <3>1 DEF PhysicsTypeOK
  <2>6. over' \in BOOLEAN /\ falling' \in BOOLEAN
    BY <1>2 DEF Tick
  <2>7. life' \in {"alive", "dead", "landed"}
    BY <1>1, <1>2 DEF Tick, PhysicsTypeOK
  <2> QED BY <2>1, <2>2, <2>4, <2>5, <2>6, <2>7 DEF PhysicsInv, PhysicsTypeOK, GroundHolds
<1>3. CASE Die
  <2>1. feet' \in Int /\ fallspeed' \in Nat /\ jumptime' \in 0 .. JumpTime - 1
    BY <1>1, <1>3 DEF Die, PhysicsTypeOK, JumpTime
  <2>2. over' \in BOOLEAN /\ falling' \in BOOLEAN /\ jumping' \in BOOLEAN
    BY <1>1, <1>3 DEF Die, PhysicsTypeOK
  <2>3. life' = "dead" /\ feet' = -48
    BY <1>3 DEF Die
  <2> QED BY <2>1, <2>2, <2>3 DEF PhysicsInv, PhysicsTypeOK, GroundHolds
<1>4. CASE Respawn
  <2>1. feet' \in Int /\ feet' >= Ground
    BY <1>4, PhysicsAssumption DEF Respawn, Ground
  <2> QED BY <1>1, <1>4, <2>1 DEF Respawn, PhysicsInv, PhysicsTypeOK, GroundHolds
<1>5. CASE UNCHANGED physicsVars
  BY <1>1, <1>5 DEF physicsVars, PhysicsInv, PhysicsTypeOK, GroundHolds
<1> QED BY <1>2, <1>3, <1>4, <1>5 DEF PhysicsNext, AnyTick

\* The ground holds whatever the length of the frames and the speed of the fall
\* (Board::Drop, Object::Tick).
THEOREM GroundCorrect == PhysicsSpec => [](PhysicsTypeOK /\ GroundHolds)
<1> QED BY PhysicsInvInit, PhysicsInvStep, PTL DEF PhysicsSpec, PhysicsInv

\* A fall slower than the platforms are apart passes through none (Board::Drop).
THEOREM FallCorrect == PhysicsSpec => NoneFallenThrough
<1> DEFINE Caught == AnyTick /\ over /\ FallStep < 60 =>
                        \A i \in DOMAIN Geometry : feet >= Geometry[i] => feet' >= Geometry[i]
<1>1. PhysicsTypeOK /\ [PhysicsNext]_physicsVars => [Caught]_physicsVars
  <2> SUFFICES ASSUME PhysicsTypeOK, AnyTick, over, FallStep < 60,
                      NEW i \in DOMAIN Geometry, feet >= Geometry[i]
               PROVE  feet' >= Geometry[i]
    OBVIOUS
  <2>1. PICK n \in Ticks60, space \in BOOLEAN : Tick(n, space)
    BY DEF AnyTick
  <2>2. /\ FallStep \in Nat \ {0} /\ Drop(feet, FallStep) \in Int /\ feet' \in Int
        /\ feet' >= feet - Drop(feet, FallStep)
    BY <2>1, TickFacts
  <2>3. feet \in Int
    BY DEF PhysicsTypeOK
  <2>4. feet - Drop(feet, FallStep) >= Geometry[i]
    BY <2>2, <2>3, ShortDrop
  <2>5. Geometry[i] \in Int
    BY Platforms
  <2> QED BY <2>2, <2>3, <2>4, <2>5
<1> QED BY <1>1, GroundCorrect, PTL DEF PhysicsSpec, NoneFallenThrough

-----------------------------------------------------------------------------
\* GameLoop.

\* Times counts the places of a value, and there is one if the value is in the list.
LEMMA TimesFacts ==
    ASSUME NEW S, NEW s \in Seq(S), NEW y
    PROVE  /\ IsFiniteSet({i \in DOMAIN s : s[i] = y})
           /\ Times(s, y) \in Nat
           /\ Times(s, y) > 0 <=> y \in ToSet(s)
<1> DEFINE P == {i \in DOMAIN s : s[i] = y}
<1>1. DOMAIN s = 1 .. Len(s) /\ Len(s) \in Nat
  BY LenProperties
<1>2. IsFiniteSet(P)
  <2>1. IsFiniteSet(1 .. Len(s)) /\ P \subseteq 1 .. Len(s)
    BY <1>1, FS_Interval
  <2> QED BY <2>1, FS_Subset
<1>3. Times(s, y) = Cardinality(P) /\ Cardinality(P) \in Nat /\ (Cardinality(P) = 0 <=> P = {})
  BY <1>2, FS_CardinalityType, FS_EmptySet DEF Times
<1>4. y \in ToSet(s) <=> P # {}
  BY DEF ToSet
<1> HIDE DEF P
<1> QED BY <1>2, <1>3, <1>4 DEF P

\* One more place for a value that is appended.
LEMMA TimesAppend ==
    ASSUME NEW S, NEW s \in Seq(S), NEW x \in S, NEW y
    PROVE  Times(Append(s, x), y) = Times(s, y) + IF x = y THEN 1 ELSE 0
<1> DEFINE t == Append(s, x)
           P == {i \in DOMAIN s : s[i] = y}
           Q == {i \in DOMAIN t : t[i] = y}
<1>1. DOMAIN s = 1 .. Len(s) /\ Len(s) \in Nat
  BY LenProperties
<1>2. DOMAIN t = 1 .. Len(s) + 1 /\ t[Len(s) + 1] = x /\ \A i \in 1 .. Len(s) : t[i] = s[i]
  BY AppendProperties, LenProperties
<1>3. Q = IF x = y THEN P \cup {Len(s) + 1} ELSE P
  <2> HIDE DEF t
  <2> QED BY <1>1, <1>2
<1>4. Len(s) + 1 \notin P
  BY <1>1
<1>5. IsFiniteSet(P) /\ Cardinality(P) \in Nat
  BY TimesFacts, FS_CardinalityType
<1> HIDE DEF P
<1>6. Cardinality(P \cup {Len(s) + 1}) = Cardinality(P) + 1
  BY <1>4, <1>5, FS_AddElement
<1>7. Times(t, y) = Cardinality(Q) /\ Times(s, y) = Cardinality(P)
  BY DEF Times, P
<1> HIDE DEF Q
<1> QED BY <1>3, <1>5, <1>6, <1>7

\* One less for the value at the place that is taken out.
LEMMA TimesRemoveAt ==
    ASSUME NEW S, NEW s \in Seq(S), NEW i \in 1 .. Len(s), NEW y
    PROVE  Times(RemoveAt(s, i), y) = Times(s, y) - IF s[i] = y THEN 1 ELSE 0
<1> DEFINE t == RemoveAt(s, i)
           P == {j \in DOMAIN s : s[j] = y}
           Q == {j \in DOMAIN t : t[j] = y}
<1>1. DOMAIN s = 1 .. Len(s) /\ Len(s) \in Nat
  BY LenProperties
<1>2. /\ t \in Seq(S) /\ DOMAIN t = 1 .. (Len(s) - 1)
      /\ \A j \in 1 .. (Len(s) - 1) : t[j] = IF j < i THEN s[j] ELSE s[j + 1]
  BY RemoveAtFacts, LenProperties
<1>3. IsFiniteSet(P) /\ IsFiniteSet(Q) /\ Times(t, y) = Cardinality(Q) /\ Times(s, y) = Cardinality(P)
  BY <1>2, TimesFacts DEF Times
<1> HIDE DEF t
<1>4. ExistsBijection(Q, P \ {i})
  <2> DEFINE g == [j \in Q |-> IF j < i THEN j ELSE j + 1]
  <2>1. \A j \in Q : j \in Int /\ g[j] \in P \ {i}
    BY <1>1, <1>2
  <2>2. \A j, k \in Q : g[j] = g[k] => j = k
    BY <1>2
  <2>3. \A m \in P \ {i} : \E j \in Q : g[j] = m
    <3> TAKE m \in P \ {i}
    <3>1. CASE m < i
      <4>1. m \in Q /\ g[m] = m
        BY <1>1, <1>2, <3>1
      <4> QED BY <4>1
    <3>2. CASE ~(m < i)
      <4>1. m - 1 \in Q
        BY <1>1, <1>2, <3>2
      <4>2. ~(m - 1 < i) /\ m - 1 + 1 = m
        BY <1>1, <3>2
      <4>3. g[m - 1] = m
        BY <4>1, <4>2
      <4> QED BY <4>1, <4>3
    <3> QED BY <3>1, <3>2
  <2>4. g \in [Q -> P \ {i}]
    BY <2>1
  <2> HIDE DEF g, P, Q
  <2>5. g \in Bijection(Q, P \ {i})
    BY <2>2, <2>3, <2>4 DEF Bijection, Injection, IsInjective, Surjection
  <2> QED BY <2>5 DEF ExistsBijection
<1>5. i \in P <=> s[i] = y
  BY <1>1
<1> HIDE DEF P, Q
<1>6. Cardinality(P \ {i}) = Cardinality(Q) /\ Cardinality(P) \in Nat
  BY <1>3, <1>4, FS_Bijection, FS_CardinalityType
<1>7. Cardinality(P \ {i}) = IF s[i] = y THEN Cardinality(P) - 1 ELSE Cardinality(P)
  BY <1>3, <1>5, FS_RemoveElement
<1> QED BY <1>3, <1>6, <1>7 DEF t

\* And for the value whose first place is taken out.
LEMMA TimesRemoveFirst ==
    ASSUME NEW S, NEW s \in Seq(S), NEW e, NEW y
    PROVE  /\ RemoveFirst(s, e) \in Seq(S)
           /\ Times(RemoveFirst(s, e), y) = Times(s, y) - IF y = e /\ e \in ToSet(s) THEN 1 ELSE 0
<1>1. Times(s, y) \in Nat /\ RemoveFirst(s, e) \in Seq(S)
  BY TimesFacts, RemoveFirstFacts
<1>2. CASE e \notin ToSet(s) /\ RemoveFirst(s, e) = s
  BY <1>1, <1>2
<1>3. ASSUME NEW i \in 1 .. Len(s), s[i] = e, RemoveFirst(s, e) = RemoveAt(s, i)
      PROVE  Times(RemoveFirst(s, e), y) = Times(s, y) - IF y = e /\ e \in ToSet(s) THEN 1 ELSE 0
  <2>1. e \in ToSet(s)
    BY <1>3, ToSetFacts
  <2>2. Times(RemoveAt(s, i), y) = Times(s, y) - IF s[i] = y THEN 1 ELSE 0
    BY TimesRemoveAt
  <2> QED BY <1>1, <1>3, <2>1, <2>2
<1> QED BY <1>1, <1>2, <1>3, RemoveFirstAt

\* A loop on top of others: what it is, and what is below.
LEMMA PushFacts ==
    ASSUME NEW S, NEW b \in Seq(S), NEW f \in S
    PROVE  /\ Append(b, f) # <<>> /\ Append(b, f) \in Seq(S)
           /\ Len(Append(b, f)) = Len(b) + 1
           /\ Last(Append(b, f)) = f
           /\ Front(Append(b, f)) = b
<1> DEFINE s == Append(b, f)
<1>1. /\ s \in Seq(S) /\ s # <<>> /\ Len(s) = Len(b) + 1 /\ s[Len(b) + 1] = f
      /\ \A i \in 1 .. Len(b) : s[i] = b[i]
  BY AppendProperties
<1>2. Len(b) \in Nat /\ DOMAIN s = 1 .. Len(b) + 1
  BY <1>1, LenProperties
<1> HIDE DEF s
<1>3. Front(s) = b
  <2> DEFINE r == SubSeq(s, 1, Len(b))
  <2>1. \A i \in 1 .. Len(b) : s[i] \in S
    BY <1>1, <1>2, ElementOfSeq
  <2>2. /\ r \in Seq(S)
        /\ Len(r) = IF 1 <= Len(b) THEN Len(b) - 1 + 1 ELSE 0
        /\ \A i \in 1 .. Len(b) - 1 + 1 : r[i] = s[1 + i - 1]
    BY <2>1, <1>2, SubSeqProperties
  <2>3. Front(s) = r
    BY <1>1, <1>2 DEF Front
  <2> HIDE DEF r
  <2>4. Len(r) = Len(b) /\ \A i \in 1 .. Len(b) : r[i] = b[i]
    BY <1>1, <1>2, <2>2
  <2> QED BY <2>2, <2>3, <2>4, SeqEqual
<1>4. Last(s) = f
  BY <1>1 DEF Last
<1> QED BY <1>1, <1>3, <1>4 DEF s

\* A loop that is running is one on the stack.
LEMMA PushedNotEmpty ==
    ASSUME NEW S, NEW b \in Seq(S), NEW f
    PROVE  Append(b, f) # <<>>
<1>1. b \in Seq(S \cup {f}) /\ f \in S \cup {f}
  BY SeqMonotonic
<1> QED BY <1>1, AppendProperties

\* Its iterator goes on.
LEMMA MovedFacts ==
    ASSUME NEW S, NEW b \in Seq(S), NEW list, NEW x, NEW y, F(list, x) \in S, F(list, y) \in S
    PROVE  [Append(b, F(list, x)) EXCEPT ![Len(Append(b, F(list, x)))].at = y] = Append(b, F(list, y))
<1> DEFINE s == Append(b, F(list, x))
           t == Append(b, F(list, y))
<1>1. /\ s \in Seq(S) /\ s # <<>> /\ Len(s) = Len(b) + 1 /\ s[Len(b) + 1] = F(list, x)
      /\ \A i \in 1 .. Len(b) : s[i] = b[i]
  BY AppendProperties
<1>2. /\ t \in Seq(S) /\ Len(t) = Len(b) + 1 /\ t[Len(b) + 1] = F(list, y)
      /\ \A i \in 1 .. Len(b) : t[i] = b[i]
  BY AppendProperties
<1>3. Len(b) \in Nat /\ DOMAIN s = 1 .. Len(b) + 1
  BY <1>1, LenProperties
<1> HIDE DEF s, t
<1> DEFINE g == [F(list, x) EXCEPT !.at = y]
           u == [s EXCEPT ![Len(s)] = g]
<1>4. [s EXCEPT ![Len(s)].at = y] = u
  <2>1. s[Len(s)] = F(list, x)
    BY <1>1
  <2> QED BY <2>1
<1>5. g = F(list, y)
  BY DEF F
<1> HIDE DEF g
<1>6. u \in Seq(S) /\ Len(u) = Len(s) /\ \A i \in 1 .. Len(s) : u[i] = IF i = Len(s) THEN g ELSE s[i]
  BY <1>1, <1>3, <1>5, ExceptSeq
<1> HIDE DEF u
<1>7. \A i \in 1 .. Len(s) : u[i] = t[i]
  BY <1>1, <1>2, <1>3, <1>5, <1>6
<1>8. u = t
  BY <1>1, <1>2, <1>6, <1>7, SeqEqual
<1> QED BY <1>4, <1>8 DEF s, t

-----------------------------------------------------------------------------
\* The invariant of GameLoop.

Scenery == {"board"} \cup Pawns \cup Bullets

\* The client is deleted before the game, and the lists with the game.
RootsInv ==
    /\ roots \in {<<"client", "game">>, <<"game">>, <<>>}
    /\ roots = <<>> => kids = <<>> /\ players = <<>> /\ phase # "running"
    /\ link \in BOOLEAN
    /\ link <=> roots = <<"client", "game">>

\* What the variables hold that the events change.
CastTyped ==
    /\ kids \in Seq(Scenery) /\ players \in Seq(Pawns)
    /\ objects \subseteq Bullets /\ known \subseteq Pawns
    /\ sender \in [Bullets -> Pawns \cup {"none"}]
    /\ joins \in [Pawns -> Nat] /\ quit \subseteq Pawns /\ alive \subseteq Objects

\* How often a pawn is in each list of the scene.
Listed(p) == joins[p] - IF p \in Dismissed THEN 1 ELSE 0

\* While the game is there: each bullet and the board is in the scene once, or not
\* alive; a pawn is there as often as it has joined and not quit; the client holds
\* pawns that are alive.
CastInv ==
    /\ \A x \in Bullets \cup {"board"} : Times(kids, x) = IF x \in alive THEN 1 ELSE 0
    /\ {"game", "info", "board"} \subseteq alive /\ ("client" \in alive <=> link)
    /\ Bullets \cap alive \subseteq objects
    /\ \A p \in Pawns : /\ Times(kids, p) = Listed(p) /\ Times(players, p) = Listed(p)
                        /\ joins[p] > 0 => (p \in alive <=> p \notin quit)
    /\ known \subseteq alive \ quit
    /\ "local" \in alive \cup Dismissed

\* And when it is gone: only pawns that never came into the scene are left.
SceneInv ==
    /\ CastTyped
    /\ roots # <<>> => CastInv
    /\ roots = <<>> => alive \subseteq {p \in Pawns : joins[p] = 0}

\* Who may be used after deletion, and who has been by the end.
Doomed == JoinedTwice \cup (Dismissed \cap {"local"})

UsedInv ==
    /\ misused \subseteq Doomed \cup (IF phase = "over" THEN {"info"} ELSE {})
    /\ roots = <<>> => JoinedTwice \subseteq misused
    /\ phase = "over" => roots = <<>> /\ "info" \in misused

ClientFrame == F("roots", 1)

\* The client's loop over its events, which it runs when it is ticked.
Listening == Append(Append(<<>>, ClientFrame), F("events", 0))

\* Below a loop over the roots there is nothing, or a client that sleeps; below a
\* loop over the scene there is moreover the game, but for the first tick of all.
RootBases  == {<<>>, Listening}
SceneBases == {<<>>} \cup
              {s \in Seq(Frame) : \E b \in RootBases, i \in Nat : s = Append(b, F("roots", i))}

OverSleep(b) == \E i \in Nat : b = Append(Listening, F("roots", i))

Asleep == gstate["client"] = "Sleeping"

\* The stacks there are: no loop, the client's events, over the roots, over the scene.
StackInv ==
    /\ gstate \in [{"client", "game"} -> {"Normal", "Sleeping", "Destroy"}]
    /\ stack \in Seq(Frame)
    /\ \/ phase # "running"
       \/ stack = <<>> /\ ~Asleep
       \/ stack = Listening /\ ~Asleep
       \/ \E b \in RootBases, i \in Nat :
            stack = Append(b, F("roots", i)) /\ (Asleep <=> b = Listening)
       \/ \E b \in SceneBases, list \in {"kids", "players"}, i \in Nat :
            stack = Append(b, F(list, i)) /\ (Asleep <=> OverSleep(b))
    /\ phase = "running" /\ (stack = Listening \/ Asleep) => link

RestInv ==
    /\ rounds \in 0 .. MaxRounds /\ hurt \in BOOLEAN
    /\ phase \in {"running", "leaving", "over", "crashed"}

LoopInv == RootsInv /\ SceneInv /\ UsedInv /\ StackInv /\ RestInv

-----------------------------------------------------------------------------
\* The stacks.

\* What is below a loop is a stack.
LEMMA BasesFacts ==
    /\ \A list \in {"roots", "kids", "players", "events"}, i \in Nat : F(list, i) \in Frame
    /\ ClientFrame \in Frame /\ F("events", 0) \in Frame
    /\ \A b \in RootBases \cup SceneBases : b \in Seq(Frame)
    /\ Listening \in Seq(Frame) /\ Listening # <<>>
    /\ Append(<<>>, ClientFrame) \in Seq(Frame)
    /\ Len(Listening) = 2 /\ Last(Listening) = F("events", 0)
    /\ Front(Listening) = Append(<<>>, ClientFrame)
    /\ ~OverSleep(<<>>)
    /\ \A b \in RootBases, i \in Nat : /\ Append(b, F("roots", i)) \in SceneBases
                                       /\ OverSleep(Append(b, F("roots", i))) <=> b = Listening
<1>1. \A list \in {"roots", "kids", "players", "events"}, i \in Nat : F(list, i) \in Frame
  BY DEF F, Frame
<1>2. ClientFrame \in Frame /\ F("events", 0) \in Frame
  BY <1>1 DEF ClientFrame
<1>3. Append(<<>>, ClientFrame) \in Seq(Frame) /\ Len(Append(<<>>, ClientFrame)) = 1
  BY <1>2
<1>4. Listening \in Seq(Frame) /\ Len(Listening) = 2
  BY <1>2, <1>3 DEF Listening
<1>5. /\ Listening # <<>> /\ Last(Listening) = F("events", 0)
      /\ Front(Listening) = Append(<<>>, ClientFrame)
  BY <1>2, <1>3, PushFacts DEF Listening
<1>6. <<>> \in Seq(Frame) /\ \A b \in RootBases : b \in Seq(Frame)
  <2>1. <<>> \in Seq(Frame)
    OBVIOUS
  <2> QED BY <1>4, <2>1, Zenon DEF RootBases
<1>7. \A b \in RootBases, i \in Nat : Append(b, F("roots", i)) \in Seq(Frame)
  <2> TAKE b \in RootBases, i \in Nat
  <2>1. F("roots", i) \in Frame /\ b \in Seq(Frame)
    BY <1>1, <1>6
  <2> QED BY <2>1, PushFacts
<1>8. \A b \in SceneBases : b \in Seq(Frame)
  BY <1>6 DEF SceneBases
<1>9. ~OverSleep(<<>>)
  BY <1>4, PushedNotEmpty DEF OverSleep
<1>10. ASSUME NEW b \in RootBases, NEW i \in Nat
       PROVE  OverSleep(Append(b, F("roots", i))) <=> b = Listening
  <2>1. ASSUME NEW j \in Nat, Append(b, F("roots", i)) = Append(Listening, F("roots", j))
        PROVE  b = Listening
    <3>1. F("roots", i) \in Frame /\ F("roots", j) \in Frame /\ b \in Seq(Frame)
      BY <1>1, <1>6
    <3> QED BY <2>1, <3>1, <1>4, AppendInjective
  <2> QED BY <2>1 DEF OverSleep
<1>11. \A b \in RootBases, i \in Nat : Append(b, F("roots", i)) \in SceneBases
  BY <1>7, Zenon DEF SceneBases
<1> QED BY <1>1, <1>2, <1>3, <1>4, <1>5, <1>6, <1>8, <1>9, <1>10, <1>11

\* A loop on a stack is what that loop is, and nothing else.
LEMMA TopIs ==
    ASSUME NEW b \in RootBases \cup SceneBases, NEW list \in {"roots", "kids", "players"},
           NEW i \in Nat
    PROVE  LET s == Append(b, F(list, i))
           IN  /\ s # <<>> /\ s # Listening /\ s \in Seq(Frame) /\ F(list, i) \in Frame
               /\ Last(s) = F(list, i) /\ Front(s) = b /\ Len(s) = Len(b) + 1
               /\ Last(s).list = list /\ Last(s).at = i
<1> DEFINE s == Append(b, F(list, i))
<1>1. F(list, i) \in Frame /\ b \in Seq(Frame)
  BY BasesFacts
<1>2. /\ s # <<>> /\ s \in Seq(Frame) /\ Last(s) = F(list, i) /\ Front(s) = b
      /\ Len(s) = Len(b) + 1
  BY <1>1, PushFacts
<1> HIDE DEF s
<1>3. F(list, i) # F("events", 0) /\ F(list, i).list = list /\ F(list, i).at = i
  BY DEF F
<1>4. s # Listening
  BY <1>2, <1>3, BasesFacts, Zenon
<1>5. Last(s).list = list /\ Last(s).at = i
  BY <1>2, <1>3
<1> QED BY <1>1, <1>2, <1>4, <1>5 DEF s

\* The loop on top tells what is below.
LEMMA AtRoots ==
    ASSUME StackInv, Running("roots")
    PROVE  \E b \in RootBases : /\ stack = Append(b, F("roots", Top.at)) /\ Top.at \in Nat
                                /\ Asleep <=> b = Listening
<1>1. phase = "running" /\ stack # <<>> /\ Last(stack).list = "roots" /\ Top = Last(stack)
  BY DEF Running, Top
<1>2. stack # Listening
  BY <1>1, BasesFacts DEF F
<1>3. ASSUME NEW b \in SceneBases, NEW list \in {"kids", "players"}, NEW i \in Nat,
             stack = Append(b, F(list, i))
      PROVE  FALSE
  <2>1. Last(Append(b, F(list, i))).list = list
    BY TopIs
  <2> QED BY <1>1, <1>3, <2>1
<1>4. PICK b \in RootBases, i \in Nat : stack = Append(b, F("roots", i)) /\ (Asleep <=> b = Listening)
  BY <1>1, <1>2, <1>3 DEF StackInv
<1>5. Last(stack).at = i
  BY <1>4, TopIs
<1>6. i = Top.at
  BY <1>1, <1>5
<1> QED BY <1>4, <1>6

\* A loop over the children or the players runs above the scene's own loops.
LEMMA AtScene ==
    ASSUME StackInv, NEW list \in {"kids", "players"}, Running(list)
    PROVE  \E b \in SceneBases : /\ stack = Append(b, F(list, Top.at)) /\ Top.at \in Nat
                                 /\ Asleep <=> OverSleep(b)
<1>1. phase = "running" /\ stack # <<>> /\ Last(stack).list = list /\ Top = Last(stack)
  BY DEF Running, Top
<1>2. stack # Listening
  BY <1>1, BasesFacts DEF F
<1>3. ASSUME NEW b \in RootBases, NEW i \in Nat, stack = Append(b, F("roots", i))
      PROVE  FALSE
  <2>1. Last(Append(b, F("roots", i))).list = "roots"
    BY TopIs
  <2> QED BY <1>1, <1>3, <2>1
<1>4. PICK b \in SceneBases, l \in {"kids", "players"}, i \in Nat :
        stack = Append(b, F(l, i)) /\ (Asleep <=> OverSleep(b))
  BY <1>1, <1>2, <1>3 DEF StackInv
<1>5. Last(stack).list = l /\ Last(stack).at = i
  BY <1>4, TopIs
<1>6. l = list /\ i = Top.at
  BY <1>1, <1>5
<1> QED BY <1>4, <1>6

\* Network events are handled by a client that is connected and awake.
LEMMA AtEvents ==
    ASSUME StackInv, Running("events")
    PROVE  stack = Listening /\ ~Asleep /\ link
<1>1. phase = "running" /\ stack # <<>> /\ Last(stack).list = "events"
  BY DEF Running, Top
<1>2. ASSUME NEW b \in RootBases \cup SceneBases, NEW list \in {"roots", "kids", "players"}, NEW i \in Nat,
             stack = Append(b, F(list, i))
      PROVE  FALSE
  <2>1. Last(Append(b, F(list, i))).list = list
    BY TopIs
  <2> QED BY <1>1, <1>2, <2>1
<1> QED BY <1>1, <1>2 DEF StackInv

\* The next stack: a loop over the roots,
LEMMA OverRoots ==
    ASSUME NEW b \in RootBases, NEW i \in Nat,
           stack' = Append(b, F("roots", i)), Asleep' <=> b = Listening, Asleep' => link',
           gstate' \in [{"client", "game"} -> {"Normal", "Sleeping", "Destroy"}]
    PROVE  StackInv'
<1>1. stack' # <<>> /\ stack' # Listening /\ stack' \in Seq(Frame)
  BY TopIs
<1> QED BY <1>1 DEF StackInv

\* a loop over the scene,
LEMMA OverScene ==
    ASSUME NEW b \in SceneBases, NEW list \in {"kids", "players"}, NEW i \in Nat,
           stack' = Append(b, F(list, i)), Asleep' <=> OverSleep(b), Asleep' => link',
           gstate' \in [{"client", "game"} -> {"Normal", "Sleeping", "Destroy"}]
    PROVE  StackInv'
<1>1. stack' # <<>> /\ stack' # Listening /\ stack' \in Seq(Frame)
  BY TopIs
<1> QED BY <1>1 DEF StackInv

\* the client's over its events,
LEMMA OverEvents ==
    ASSUME stack' = Listening, ~Asleep', link',
           gstate' \in [{"client", "game"} -> {"Normal", "Sleeping", "Destroy"}]
    PROVE  StackInv'
BY BasesFacts DEF StackInv

\* or none.
LEMMA OverNothing ==
    ASSUME stack' = <<>>, ~Asleep' \/ phase' # "running",
           gstate' \in [{"client", "game"} -> {"Normal", "Sleeping", "Destroy"}]
    PROVE  StackInv'
<1>1. stack' \in Seq(Frame) /\ <<>> # Listening
  BY BasesFacts
<1> QED BY <1>1 DEF StackInv

\* A loop that goes on, and one that is left for the one below.
LEMMA MovedTop ==
    ASSUME NEW b \in RootBases \cup SceneBases, NEW list \in {"roots", "kids", "players"},
           NEW i \in Nat, NEW j \in Nat, stack = Append(b, F(list, i))
    PROVE  Moved(j) = Append(b, F(list, j))
<1>1. F(list, i) \in Frame /\ F(list, j) \in Frame /\ b \in Seq(Frame)
  BY BasesFacts
<1> QED BY <1>1, MovedFacts DEF Moved

LEMMA LeftTop ==
    ASSUME NEW b \in Seq(Frame), NEW i \in Nat, NEW j \in Nat, NEW f \in Frame,
           stack = Append(Append(b, F("roots", i)), f)
    PROVE  Left(j) = Append(b, F("roots", j)) /\ Below = F("roots", i) /\ Below.at = i
<1> DEFINE c == Append(b, F("roots", i))
<1>1. F("roots", i) \in Frame /\ F("roots", j) \in Frame
  BY BasesFacts
<1>2. c \in Seq(Frame) /\ Len(c) = Len(b) + 1 /\ Len(b) \in Nat /\ Last(c) = F("roots", i)
  BY <1>1, PushFacts, LenProperties
<1>3. [c EXCEPT ![Len(c)].at = j] = Append(b, F("roots", j))
  BY <1>1, MovedFacts
<1> HIDE DEF c
<1>4. /\ Front(stack) = c /\ Len(stack) = Len(c) + 1
      /\ \A k \in 1 .. Len(c) : stack[k] = c[k]
  <2>1. stack = Append(c, f)
    BY DEF c
  <2>2. Front(stack) = c /\ Len(stack) = Len(c) + 1
    <3>1. Front(Append(c, f)) = c /\ Len(Append(c, f)) = Len(c) + 1
      BY <1>2, PushFacts
    <3> QED BY <2>1, <3>1
  <2>3. \A k \in 1 .. Len(c) : stack[k] = c[k]
    BY <1>2, <2>1, AppendProperties
  <2> QED BY <2>2, <2>3
<1>5. Len(stack) - 1 = Len(c) /\ Len(c) \in 1 .. Len(c)
  BY <1>2, <1>4
<1>6. Left(j) = Append(b, F("roots", j))
  BY <1>3, <1>4, <1>5 DEF Left
<1>7. Below = F("roots", i)
  BY <1>2, <1>4, <1>5 DEF Below, Last
<1> QED BY <1>6, <1>7 DEF F

\* A step that leaves the loops where they are.
LEMMA SameStack ==
    ASSUME StackInv, stack' = stack, gstate' = gstate, link' = link,
           phase' = phase \/ phase' # "running"
    PROVE  StackInv'
BY DEF StackInv, Asleep

\* The roots' loop: a frame begins, ends, or the client that sleeps is passed over.
LEMMA FrameBeginsStack ==
    ASSUME StackInv, FrameBegins
    PROVE  StackInv'
<1>1. /\ phase = "running" /\ stack = <<>> /\ gstate' = gstate
      /\ stack' = Append(<<>>, F("roots", 1)) /\ <<>> \in RootBases
  BY DEF FrameBegins, RootBases
<1>2. ASSUME NEW b \in RootBases \cup SceneBases, NEW list \in {"roots", "kids", "players"},
             NEW i \in Nat, stack = Append(b, F(list, i))
      PROVE  FALSE
  <2>1. Append(b, F(list, i)) # <<>>
    BY TopIs
  <2> QED BY <1>1, <1>2, <2>1
<1>3. ~Asleep /\ <<>> # Listening
  BY <1>1, <1>2, BasesFacts DEF StackInv
<1>4. ~Asleep' /\ gstate' \in [{"client", "game"} -> {"Normal", "Sleeping", "Destroy"}]
  BY <1>1, <1>3 DEF Asleep, StackInv
<1> QED BY <1>1, <1>3, <1>4, OverRoots

LEMMA FrameEndsStack ==
    ASSUME StackInv, FrameEnds
    PROVE  StackInv'
<1>1. Running("roots") /\ phase = "running" /\ link' = link
  BY DEF FrameEnds, AtEnd, Running
<1>2. PICK b \in RootBases : /\ stack = Append(b, F("roots", Top.at)) /\ Top.at \in Nat
                             /\ Asleep <=> b = Listening
  BY <1>1, AtRoots
<1>3. PICK n \in Nat : n = Top.at
  BY <1>2
<1>4. Front(stack) = b /\ Len(stack) = Len(b) + 1 /\ Len(b) = IF b = Listening THEN 2 ELSE 0
  <2>1. Front(Append(b, F("roots", n))) = b /\ Len(Append(b, F("roots", n))) = Len(b) + 1
    BY TopIs
  <2> QED BY <1>2, <1>3, <2>1, BasesFacts DEF RootBases
<1>5. gstate \in [{"client", "game"} -> {"Normal", "Sleeping", "Destroy"}]
  BY DEF StackInv
<1>6. CASE Len(stack) = 1 /\ stack' = <<>> /\ gstate' = gstate
  BY <1>2, <1>4, <1>5, <1>6, OverNothing DEF Asleep
<1>7. CASE Len(stack) > 1 /\ stack' = Moved(1) /\ gstate' = gstate
  <2>1. b = Listening /\ Asleep /\ Asleep' /\ link'
    BY <1>1, <1>2, <1>4, <1>7 DEF Asleep, StackInv
  <2>2. stack' = Append(b, F("roots", 1))
    BY <1>2, <1>3, <1>7, MovedTop
  <2> QED BY <1>5, <1>7, <2>1, <2>2, OverRoots
<1>8. CASE Len(stack) > 1 /\ stack' = Front(stack) /\ gstate' = [gstate EXCEPT !["client"] = "Normal"]
  <2>1. stack' = Listening /\ link'
    BY <1>1, <1>2, <1>4, <1>8 DEF StackInv
  <2>2. /\ gstate' \in [{"client", "game"} -> {"Normal", "Sleeping", "Destroy"}]
        /\ ~Asleep'
    BY <1>5, <1>8 DEF Asleep
  <2> QED BY <2>1, <2>2, OverEvents
<1> QED BY <1>6, <1>7, <1>8 DEF FrameEnds

LEMMA ClientDozesStack ==
    ASSUME StackInv, ClientDozes
    PROVE  StackInv'
<1>1. Running("roots") /\ phase = "running" /\ link' = link /\ gstate' = gstate
      /\ stack' = Moved(Top.at + 1) /\ Asleep
  BY DEF ClientDozes, At, Running, Dozing, Asleep
<1>2. PICK b \in RootBases : /\ stack = Append(b, F("roots", Top.at)) /\ Top.at \in Nat
                             /\ Asleep <=> b = Listening
  BY <1>1, AtRoots
<1>3. PICK n \in Nat : n = Top.at
  BY <1>2
<1>4. stack' = Append(b, F("roots", n + 1)) /\ n + 1 \in Nat
  BY <1>1, <1>2, <1>3, MovedTop
<1>5. Asleep' /\ link' /\ gstate' \in [{"client", "game"} -> {"Normal", "Sleeping", "Destroy"}]
  BY <1>1 DEF StackInv, Asleep
<1> QED BY <1>1, <1>2, <1>4, <1>5, OverRoots

\* A client that does not sleep is ticked in the outermost frame.
LEMMA ClientTicked ==
    ASSUME StackInv, RootsInv, At("roots", "client"), ~Dozing
    PROVE  stack = Append(<<>>, ClientFrame) /\ ~Asleep /\ link /\ roots = <<"client", "game">>
<1>1. ~Asleep /\ Running("roots") /\ Top.at \in DOMAIN roots /\ roots[Top.at] = "client"
  BY DEF At, Walked, Dozing, Asleep
<1>2. roots = <<"client", "game">> /\ Top.at = 1 /\ link
  <2>1. roots # <<>>
    BY <1>1
  <2>2. roots # <<"game">>
    BY <1>1
  <2>3. roots = <<"client", "game">>
    BY <2>1, <2>2 DEF RootsInv
  <2> QED BY <1>1, <2>3 DEF RootsInv
<1>3. PICK b \in RootBases : stack = Append(b, F("roots", Top.at)) /\ (Asleep <=> b = Listening)
  BY <1>1, AtRoots
<1>4. b = <<>>
  BY <1>1, <1>3 DEF RootBases
<1> QED BY <1>1, <1>2, <1>3, <1>4 DEF ClientFrame

\* A death puts a second loop over the roots on the stack.
LEMMA ClientDiesStack ==
    ASSUME StackInv, RootsInv, ClientDies
    PROVE  StackInv'
<1>1. stack = Append(<<>>, ClientFrame) /\ link
  BY ClientTicked DEF ClientDies
<1>2. /\ link' = link /\ gstate' = [gstate EXCEPT !["client"] = "Sleeping"]
      /\ stack' = stack \o <<F("events", 0), F("roots", 1)>>
  BY DEF ClientDies
<1>3. stack' = Append(Listening, F("roots", 1))
  <2> DEFINE e == F("events", 0)
             r == F("roots", 1)
  <2>1. \A c, d, f \in Frame : Append(<<>>, c) \o <<d, f>> = Append(Append(Append(<<>>, c), d), f)
    OBVIOUS
  <2>2. ClientFrame \in Frame /\ e \in Frame /\ r \in Frame
    BY BasesFacts
  <2> HIDE DEF e, r
  <2>3. Append(<<>>, ClientFrame) \o <<e, r>> = Append(Append(Append(<<>>, ClientFrame), e), r)
    BY <2>1, <2>2, Zenon
  <2> QED BY <1>1, <1>2, <2>3 DEF Listening, e, r
<1>4. gstate' \in [{"client", "game"} -> {"Normal", "Sleeping", "Destroy"}] /\ Asleep'
  BY <1>2 DEF StackInv, Asleep
<1> QED BY <1>1, <1>2, <1>3, <1>4, OverRoots DEF RootBases

\* The client begins to handle its network events.
LEMMA ClientListensStack ==
    ASSUME StackInv, RootsInv, ClientListens
    PROVE  StackInv'
<1>1. stack = Append(<<>>, ClientFrame) /\ ~Asleep /\ link
  BY ClientTicked DEF ClientListens
<1>2. link' = link /\ gstate' = gstate /\ stack' = Listening
  BY <1>1 DEF ClientListens, Listening
<1>3. gstate' \in [{"client", "game"} -> {"Normal", "Sleeping", "Destroy"}] /\ ~Asleep'
  BY <1>1, <1>2 DEF StackInv, Asleep
<1> QED BY <1>1, <1>2, <1>3, OverEvents

\* The client has looked at its last event.
LEMMA EventsLeft ==
    ASSUME stack = Listening, NEW j \in Nat
    PROVE  Left(j) = Append(<<>>, F("roots", j)) /\ Below.at = 1
<1>1. <<>> \in Seq(Frame) /\ F("events", 0) \in Frame /\ stack = Append(Append(<<>>, F("roots", 1)), F("events", 0))
  BY BasesFacts DEF Listening, ClientFrame
<1> QED BY <1>1, LeftTop

\* The loop over the network events goes on or returns to the client's tick, the
\* program ends, or the client is erased from the roots.
LEMMA EventsStack ==
    ASSUME StackInv, EventsEnd \/ EventReceived \/ Disconnected
    PROVE  StackInv'
<1>1. stack = Listening /\ ~Asleep /\ link /\ phase = "running"
  BY AtEvents DEF EventsEnd, EventReceived, Disconnected, Running
<1>2. gstate' = gstate \/ gstate' = [gstate EXCEPT !["client"] = "Destroy"]
  BY DEF EventsEnd, EventReceived, Disconnected
<1>3. gstate' \in [{"client", "game"} -> {"Normal", "Sleeping", "Destroy"}] /\ ~Asleep'
  BY <1>1, <1>2 DEF StackInv, Asleep
<1>4. CASE stack' = stack /\ link' = link
  BY <1>1, <1>3, <1>4, OverEvents
<1>5. CASE stack' = Left(Below.at + 1) \/ stack' = Front(stack)
  <2>1. stack' = Append(<<>>, F("roots", 2)) \/ stack' = Append(<<>>, F("roots", 1))
    BY <1>1, <1>5, EventsLeft, BasesFacts DEF ClientFrame
  <2>2. <<>> \in RootBases /\ <<>> # Listening
    BY BasesFacts DEF RootBases
  <2> QED BY <1>3, <2>1, <2>2, OverRoots
<1>6. CASE stack' = <<>>
  BY <1>3, <1>6, OverNothing
<1>7. \/ stack' = stack /\ link' = link
      \/ stack' = Left(Below.at + 1) \/ stack' = Front(stack) \/ stack' = <<>>
  BY DEF EventsEnd, EventReceived, Disconnected
<1> QED BY <1>4, <1>5, <1>6, <1>7

\* The game's tick begins with the children of the GameInfo.
LEMMA GameTicksStack ==
    ASSUME StackInv, GameTicks
    PROVE  StackInv'
<1>1. Running("roots") /\ phase = "running" /\ link' = link /\ gstate' = gstate
      /\ stack' = Append(stack, F("kids", 1))
  BY DEF GameTicks, At, Running
<1>2. PICK b \in RootBases : /\ stack = Append(b, F("roots", Top.at)) /\ Top.at \in Nat
                             /\ Asleep <=> b = Listening
  BY <1>1, AtRoots
<1>3. PICK n \in Nat : n = Top.at
  BY <1>2
<1>4. stack \in SceneBases /\ (OverSleep(stack) <=> b = Listening)
  BY <1>2, <1>3, BasesFacts
<1>5. gstate' \in [{"client", "game"} -> {"Normal", "Sleeping", "Destroy"}]
      /\ (Asleep' <=> Asleep) /\ (Asleep' => link')
  BY <1>1 DEF StackInv, Asleep
<1> QED BY <1>1, <1>2, <1>4, <1>5, OverScene

\* The loop over the children or the players goes on.
LEMMA SceneMoves ==
    ASSUME StackInv, NEW list \in {"kids", "players"}, Running(list),
           stack' = Moved(Top.at + 1), gstate' = gstate, link' = link
    PROVE  StackInv'
<1>1. PICK b \in SceneBases : /\ stack = Append(b, F(list, Top.at)) /\ Top.at \in Nat
                              /\ Asleep <=> OverSleep(b)
  BY AtScene
<1>2. PICK n \in Nat : n = Top.at
  BY <1>1
<1>3. stack' = Append(b, F(list, n + 1)) /\ n + 1 \in Nat
  BY <1>1, <1>2, MovedTop
<1>4. phase = "running"
  BY DEF Running
<1>5. gstate' \in [{"client", "game"} -> {"Normal", "Sleeping", "Destroy"}]
      /\ (Asleep' <=> Asleep) /\ (Asleep' => link')
  BY <1>4 DEF StackInv, Asleep
<1> QED BY <1>1, <1>3, <1>5, OverScene

\* The game has been ticked.
LEMMA GameReturnsStack ==
    ASSUME StackInv, NEW list \in {"kids", "players"}, Running(list),
           NEW finished \in BOOLEAN, GameReturns(finished), link' = link, roots \in Seq({"client", "game"}),
           gstate' \in [{"client", "game"} -> {"Normal", "Sleeping", "Destroy"}],
           gstate'["client"] = gstate["client"]
    PROVE  StackInv'
<1>1. PICK b \in SceneBases : /\ stack = Append(b, F(list, Top.at)) /\ Top.at \in Nat
                              /\ Asleep <=> OverSleep(b)
  BY AtScene
<1>2. PICK n \in Nat : n = Top.at
  BY <1>1
<1>3. phase = "running" /\ b \in Seq(Frame) /\ Len(roots) \in Nat /\ F(list, n) \in Frame
  BY BasesFacts, LenProperties DEF Running
<1>4. Len(stack) = Len(b) + 1
  <2>1. Len(Append(b, F(list, n))) = Len(b) + 1
    BY TopIs
  <2> QED BY <1>1, <1>2, <2>1
<1>5. (Asleep' <=> Asleep) /\ (Asleep => link')
  BY <1>3 DEF StackInv, Asleep
<1>6. CASE stack' = <<>> /\ phase' = "leaving"
  BY <1>6, OverNothing
<1>7. CASE Len(stack) = 1 /\ stack' = <<>>
  <2>1. b = <<>>
    <3>1. Len(b) = 0
      <4>1. Len(b) \in Nat
        BY <1>3, LenProperties
      <4>2. Len(b) + 1 = 1
        BY <1>4, <1>7
      <4> QED BY <4>1, <4>2
    <3> QED BY <1>3, <3>1, EmptySeq
  <2> QED BY <1>1, <1>5, <1>7, <2>1, BasesFacts, OverNothing
<1>8. CASE Len(stack) # 1 /\ stack' = Left(IF finished THEN Len(roots) + 1 ELSE Below.at + 1)
  <2>1. b # <<>>
    BY <1>4, <1>8
  <2>2. PICK r \in RootBases, i \in Nat : b = Append(r, F("roots", i))
    BY <2>1 DEF SceneBases
  <2>3. r \in Seq(Frame)
    BY BasesFacts
  <2>4. \A j \in Nat : Left(j) = Append(r, F("roots", j)) /\ Below.at = i
    BY <1>1, <1>2, <1>3, <2>2, <2>3, LeftTop
  <2>5. PICK m \in Nat : m = IF finished THEN Len(roots) + 1 ELSE i + 1
    BY <1>3
  <2>6. stack' = Append(r, F("roots", m))
    BY <1>8, <2>4, <2>5
  <2>7. Asleep' <=> r = Listening
    BY <1>1, <1>5, <2>2, BasesFacts
  <2> QED BY <1>5, <2>6, <2>7, OverRoots
<1> QED BY <1>3, <1>6, <1>7, <1>8 DEF GameReturns

\* After the children come the players, after the players the game returns.
LEMMA SceneTickedStack ==
    ASSUME StackInv, RootsInv, SceneTicked \/ PlayersTicked
    PROVE  StackInv'
<1>1. PICK list \in {"kids", "players"} :
        /\ Running(list)
        /\ (list = "kids" /\ SceneTicked) \/ (list = "players" /\ PlayersTicked)
  <2>1. CASE SceneTicked
    BY <2>1 DEF SceneTicked, AtEnd
  <2>2. CASE PlayersTicked
    BY <2>2 DEF PlayersTicked, AtEnd
  <2> QED BY <2>1, <2>2
<1>2. /\ phase = "running" /\ link' = link
      /\ gstate' = gstate \/ gstate' = [gstate EXCEPT !["game"] = "Destroy"]
  BY <1>1 DEF SceneTicked, PlayersTicked, Running
<1>3. /\ gstate' \in [{"client", "game"} -> {"Normal", "Sleeping", "Destroy"}]
      /\ gstate'["client"] = gstate["client"]
  BY <1>2 DEF StackInv
<1>4. roots \in Seq({"client", "game"})
  <2>1. /\ <<"client", "game">> \in Seq({"client", "game"}) /\ <<"game">> \in Seq({"client", "game"})
        /\ <<>> \in Seq({"client", "game"})
    OBVIOUS
  <2> QED BY <2>1 DEF RootsInv
<1>5. CASE \E finished \in BOOLEAN : GameReturns(finished)
  BY <1>1, <1>2, <1>3, <1>4, <1>5, GameReturnsStack
<1>6. CASE stack' = Append(Front(stack), F("players", 1))
  <2>1. PICK b \in SceneBases : /\ stack = Append(b, F(list, Top.at)) /\ Top.at \in Nat
                                /\ Asleep <=> OverSleep(b)
    BY <1>1, AtScene
  <2>2. PICK n \in Nat : n = Top.at
    BY <2>1
  <2>3. Front(Append(b, F(list, n))) = b
    BY TopIs
  <2>4. stack' = Append(b, F("players", 1))
    BY <1>6, <2>1, <2>2, <2>3
  <2>5. (Asleep' <=> Asleep) /\ (Asleep => link')
    BY <1>2, <1>3 DEF StackInv, Asleep
  <2> QED BY <1>3, <2>1, <2>4, <2>5, OverScene
<1> QED BY <1>1, <1>5, <1>6 DEF SceneTicked, PlayersTicked

\* Every step leads from one of these stacks to another.
LEMMA StackInvStep ==
    ASSUME StackInv, RootsInv, [LoopNext]_loopVars
    PROVE  StackInv'
<1>1. ASSUME NEW list \in {"kids", "players"},
             (\E x \in Objects : Ticks(list, x)) \/ Shoots(list)
      PROVE  StackInv'
  <2>1. Running(list) /\ stack' = Moved(Top.at + 1) /\ gstate' = gstate /\ link' = link
    BY <1>1 DEF Ticks, Shoots, At
  <2> QED BY <2>1, SceneMoves
<1>2. CASE (\E b \in Bullets : BulletEnds(b)) \/ ResetGame \/ Crashes \/ UNCHANGED loopVars
  BY <1>2, SameStack DEF BulletEnds, ResetGame, Crashes, loopVars
<1>3. CASE RootDeleted
  BY <1>3 DEF RootDeleted, StackInv
<1> QED BY <1>1, <1>2, <1>3, FrameBeginsStack, FrameEndsStack, ClientDozesStack, ClientDiesStack,
           ClientListensStack, EventsStack, GameTicksStack, SceneTickedStack DEF LoopNext, LoopStep

-----------------------------------------------------------------------------
\* The roots, and the variables that nothing else depends on.

\* A loop that runs has roots to run over.
LEMMA RunningFacts ==
    ASSUME RootsInv, phase = "running"
    PROVE  roots # <<>> /\ roots \in {<<"client", "game">>, <<"game">>}
BY DEF RootsInv

\* The client is the first of the roots, and erased from them or deleted first.
LEMMA RootsLeave ==
    /\ Head(<<"client", "game">>) = "client" /\ Tail(<<"client", "game">>) = <<"game">>
    /\ Head(<<"game">>) = "game" /\ Tail(<<"game">>) = <<>>
    /\ RemoveAt(<<"client", "game">>, 1) = <<"game">>
    /\ <<"client", "game">> # <<"game">> /\ <<"client", "game">> # <<>> /\ <<"game">> # <<>>
    /\ ToSet(<<"client", "game">>) = {"client", "game"} /\ ToSet(<<"game">>) = {"game"} /\ ToSet(<<>>) = {}
<1> DEFINE s == <<"client", "game">>
           t == RemoveAt(s, 1)
           u == <<"game">>
<1>1. s \in Seq({"client", "game"}) /\ Len(s) = 2 /\ s[2] = "game" /\ 1 \in 1 .. Len(s)
  OBVIOUS
<1>2. t \in Seq({"client", "game"}) /\ Len(t) = 1 /\ t[1] = "game"
  <2> HIDE DEF s
  <2>1. /\ RemoveAt(s, 1) \in Seq({"client", "game"}) /\ Len(RemoveAt(s, 1)) = Len(s) - 1
        /\ \A j \in 1 .. (Len(s) - 1) : RemoveAt(s, 1)[j] = IF j < 1 THEN s[j] ELSE s[j + 1]
    BY <1>1, RemoveAtFacts
  <2> QED BY <1>1, <2>1
<1>3. u \in Seq({"client", "game"}) /\ Len(u) = 1 /\ u[1] = "game"
  OBVIOUS
<1> HIDE DEF t, u
<1>4. t = u
  BY <1>2, <1>3, SeqEqual
<1>5. ToSet(<<"client", "game">>) = {"client", "game"} /\ ToSet(<<"game">>) = {"game"} /\ ToSet(<<>>) = {}
  BY DEF ToSet
<1> QED BY <1>4, <1>5 DEF t, u

LEMMA RootsInvStep ==
    ASSUME StackInv, RootsInv, [LoopNext]_loopVars
    PROVE  RootsInv'
<1>1. CASE roots # <<>> /\ roots' = roots /\ link' = link
  BY <1>1 DEF RootsInv
<1>2. CASE roots' = roots /\ link' = link /\ kids' = kids /\ players' = players
           /\ (phase' = phase \/ phase' # "running")
  BY <1>2 DEF RootsInv
<1>3. CASE Disconnected
  <2>1. stack = Listening /\ link /\ link' = FALSE /\ roots' = RemoveAt(roots, Below.at)
    BY <1>3, AtEvents DEF Disconnected
  <2>2. Below.at = 1 /\ roots = <<"client", "game">>
    BY <2>1, EventsLeft DEF RootsInv
  <2> QED BY <2>1, <2>2, RootsLeave DEF RootsInv
<1>4. CASE RootDeleted
  <2>1. /\ roots' = Tail(roots) /\ phase' # "running" /\ roots # <<>>
        /\ link' = (link /\ Head(roots) # "client")
        /\ kids' = (IF Head(roots) = "game" THEN <<>> ELSE kids)
        /\ players' = (IF Head(roots) = "game" THEN <<>> ELSE players)
    BY <1>4, Zenon DEF RootDeleted
  <2>2. CASE roots = <<"client", "game">>
    <3>1. roots' = <<"game">> /\ ~link' /\ link' \in BOOLEAN
      BY <2>1, <2>2, RootsLeave
    <3> QED BY <3>1, RootsLeave DEF RootsInv
  <2>3. CASE roots = <<"game">>
    <3>1. roots' = <<>> /\ kids' = <<>> /\ players' = <<>>
      BY <2>1, <2>3, RootsLeave
    <3>2. ~link
      BY <2>3, RootsLeave DEF RootsInv
    <3>3. ~link' /\ link' \in BOOLEAN
      BY <2>1, <3>2
    <3> QED BY <2>1, <3>1, <3>3, RootsLeave DEF RootsInv
  <2> QED BY <2>1, <2>2, <2>3 DEF RootsInv
<1>5. CASE LoopStep /\ ~RootDeleted /\ ~ResetGame
  <2>1. phase = "running" /\ roots' = roots /\ link' = link
    BY <1>5 DEF LoopStep, FrameBegins, FrameEnds, ClientDozes, ClientDies, ClientListens, GameTicks,
                Ticks, Shoots, BulletEnds, SceneTicked, PlayersTicked, At, AtEnd, Running
  <2> QED BY <1>1, <2>1, RunningFacts
<1>6. CASE EventsEnd \/ EventReceived
  <2>1. phase = "running" /\ roots' = roots /\ link' = link
    BY <1>6 DEF EventsEnd, EventReceived, Running
  <2> QED BY <1>1, <2>1, RunningFacts
<1>7. CASE ResetGame \/ Crashes \/ UNCHANGED loopVars
  <2>1. roots' = roots /\ link' = link /\ kids' = kids /\ players' = players
        /\ (phase' = phase \/ phase' # "running")
    BY <1>7 DEF ResetGame, Crashes, loopVars, cast
  <2> QED BY <1>2, <2>1
<1> QED BY <1>3, <1>4, <1>5, <1>6, <1>7 DEF LoopNext

LEMMA RestInvStep ==
    ASSUME RestInv, link \in BOOLEAN, [LoopNext]_loopVars
    PROVE  RestInv'
<1>1. MaxRounds \in Nat
  BY LoopAssumption
<1>2. CASE rounds' = rounds /\ hurt' = hurt /\ (phase' = phase \/ phase' \in {"leaving", "over", "crashed"})
  BY <1>2 DEF RestInv
<1>3. CASE FrameEnds
  <2>1. phase' = phase /\ hurt' = hurt /\ (rounds' = rounds \/ (rounds > 0 /\ rounds' = rounds - 1))
    BY <1>3 DEF FrameEnds
  <2>2. rounds' \in 0 .. MaxRounds
    BY <1>1, <2>1 DEF RestInv
  <2> QED BY <2>1, <2>2 DEF RestInv
<1>4. CASE ClientDies
  BY <1>4 DEF ClientDies, RestInv
<1>5. ASSUME NEW b \in Bullets, BulletEnds(b) PROVE RestInv'
  <2>1. phase' = phase /\ rounds' = rounds /\ hurt' \in BOOLEAN
    BY <1>5 DEF BulletEnds, RestInv
  <2> QED BY <2>1 DEF RestInv
<1>6. CASE SceneTicked \/ PlayersTicked
  BY <1>2, <1>6 DEF SceneTicked, PlayersTicked, GameReturns
<1>7. CASE EventReceived \/ EventsEnd \/ Disconnected \/ Crashes \/ RootDeleted \/ ResetGame \/ UNCHANGED loopVars
  BY <1>2, <1>7 DEF EventReceived, EventsEnd, Disconnected, Crashes, RootDeleted, ResetGame, loopVars
<1>8. CASE FrameBegins \/ ClientDozes \/ ClientListens \/ GameTicks
  BY <1>2, <1>8 DEF FrameBegins, ClientDozes, ClientListens, GameTicks
<1>9. ASSUME NEW list \in {"kids", "players"}, (\E x \in Objects : Ticks(list, x)) \/ Shoots(list)
      PROVE  RestInv'
  BY <1>2, <1>9 DEF Ticks, Shoots
<1> QED BY <1>3, <1>4, <1>5, <1>6, <1>7, <1>8, <1>9 DEF LoopNext, LoopStep

-----------------------------------------------------------------------------
\* The scene.

\* The objects are different from each other.
LEMMA Kinds ==
    /\ \A p \in Pawns : p \notin Bullets /\ p \notin {"client", "game", "info", "board", "none"}
    /\ \A b \in Bullets : b \notin {"client", "game", "info", "board", "local", "none"}
    /\ Pawns \subseteq Objects /\ Bullets \subseteq Objects /\ Pawns \subseteq Scenery /\ Bullets \subseteq Scenery
    /\ "local" \in Pawns
BY LoopAssumption DEF Pawns, Objects, Scenery

\* A pawn that was never made has not joined.
LEMMA NewPawns ==
    ASSUME CastTyped, CastInv, NEW K, K \subseteq Pawns \cap (alive \ quit), NEW L \in AfterNew(K)
    PROVE  /\ L \subseteq Pawns \ quit
           /\ \A p \in Pawns : joins[p] > 0 => (p \in alive \cup L <=> p \notin quit)
<1>1. ASSUME NEW p \in L PROVE p \in K \/ p \in Guests \ (alive \cup quit)
  BY DEF AfterNew
<1>2. L \subseteq Pawns \ quit
  BY <1>1 DEF Pawns
<1>3. \A p \in Pawns : joins[p] > 0 => (p \in alive <=> p \notin quit)
  BY DEF CastInv
<1> QED BY <1>1, <1>2, <1>3

\* The scene stays as it is while the client learns of others.
LEMMA KnownGrows ==
    ASSUME CastTyped, CastInv, NEW K, K \subseteq Pawns \cap (alive \ quit),
           known' \in AfterNew(K), alive' = alive \cup known', link' = link,
           UNCHANGED <<kids, players, objects, sender, joins, quit>>
    PROVE  CastTyped' /\ CastInv'
<1> DEFINE L == known'
<1>1. /\ L \subseteq Pawns \ quit
      /\ \A p \in Pawns : joins[p] > 0 => (p \in alive \cup L <=> p \notin quit)
  <2> HIDE DEF L
  <2>1. L \in AfterNew(K)
    BY DEF L
  <2> QED BY <2>1, NewPawns
<1>2. CastTyped'
  BY <1>1, Kinds DEF CastTyped
<1>3. \A x \in Bullets \cup {"board", "game", "info", "client"} : x \in alive' <=> x \in alive
  BY <1>1, Kinds
<1>4. Dismissed' = Dismissed /\ \A p \in Pawns : Listed(p)' = Listed(p)
  BY DEF Dismissed, Listed
<1>5. \A x : Times(kids', x) = Times(kids, x) /\ Times(players', x) = Times(players, x)
  OBVIOUS
<1>6. \A p \in Pawns : /\ Times(kids', p) = Listed(p)' /\ Times(players', p) = Listed(p)'
                       /\ joins'[p] > 0 => (p \in alive' <=> p \notin quit')
  BY <1>1, <1>4, <1>5 DEF CastInv
<1>7. \A x \in Bullets \cup {"board"} : Times(kids', x) = IF x \in alive' THEN 1 ELSE 0
  BY <1>3, <1>5 DEF CastInv
<1>8. {"game", "info", "board"} \subseteq alive' /\ ("client" \in alive' <=> link')
  BY <1>3 DEF CastInv
<1>9. Bullets \cap alive' \subseteq objects' /\ known' \subseteq alive' \ quit'
  BY <1>1, <1>3 DEF CastInv
<1>10. "local" \in alive' \cup Dismissed'
  BY <1>4 DEF CastInv
<1> QED BY <1>2, <1>6, <1>7, <1>8, <1>9, <1>10 DEF CastInv

\* A pawn that joins is put at the end of both lists, whether it is there or not.
LEMMA PawnJoins ==
    ASSUME CastTyped, CastInv, NEW p \in known, JoinReceived(p), link' = link
    PROVE  CastTyped' /\ CastInv'
<1>1. /\ kids' = Append(kids, p) /\ players' = Append(players, p)
      /\ joins' = [joins EXCEPT ![p] = joins[p] + 1]
      /\ objects' = objects /\ known' = known /\ sender' = sender /\ quit' = quit /\ alive' = alive
  BY DEF JoinReceived
<1>2. p \in Pawns /\ p \in Scenery /\ p \in alive /\ p \notin quit /\ p \notin Bullets /\ p # "board"
  BY Kinds DEF CastInv, CastTyped
<1>3. kids \in Seq(Scenery) /\ players \in Seq(Pawns) /\ joins \in [Pawns -> Nat]
  BY DEF CastTyped
<1>4. \A x : /\ Times(kids', x) = Times(kids, x) + IF p = x THEN 1 ELSE 0
             /\ Times(players', x) = Times(players, x) + IF p = x THEN 1 ELSE 0
             /\ Times(kids, x) \in Nat /\ Times(players, x) \in Nat
  <2> TAKE x
  <2>1. Times(Append(kids, p), x) = Times(kids, x) + IF p = x THEN 1 ELSE 0
    BY <1>2, <1>3, TimesAppend
  <2>2. Times(Append(players, p), x) = Times(players, x) + IF p = x THEN 1 ELSE 0
    BY <1>2, <1>3, TimesAppend
  <2>3. Times(kids, x) \in Nat /\ Times(players, x) \in Nat
    BY <1>3, TimesFacts
  <2> QED BY <1>1, <2>1, <2>2, <2>3
<1>5. \A q \in Pawns : joins'[q] = joins[q] + (IF p = q THEN 1 ELSE 0) /\ joins[q] \in Nat
  BY <1>1, <1>2, <1>3
<1>6. CastTyped'
  <2>1. kids' \in Seq(Scenery) /\ players' \in Seq(Pawns)
    BY <1>1, <1>2, <1>3, AppendProperties
  <2>2. joins' \in [Pawns -> Nat]
    BY <1>1, <1>2, <1>3
  <2> QED BY <1>1, <2>1, <2>2 DEF CastTyped
<1>7. \A q \in Pawns : /\ Listed(q)' = Listed(q) + (IF p = q THEN 1 ELSE 0)
                       /\ q \in Dismissed' <=> q \in Dismissed
                       /\ joins'[q] > 0 => (q \in alive <=> q \notin quit)
  <2> TAKE q \in Pawns
  <2>1. joins[q] > 0 => (q \in alive <=> q \notin quit)
    BY DEF CastInv
  <2>2. CASE p = q
    <3>1. q \notin Dismissed /\ q \notin Dismissed'
      BY <1>1, <1>2, <2>2 DEF Dismissed
    <3> QED BY <1>2, <1>5, <2>2, <3>1 DEF Listed
  <2>3. CASE p # q
    <3>1. joins'[q] = joins[q] /\ joins[q] \in Nat
      BY <1>5, <2>3
    <3>2. q \in Dismissed' <=> q \in Dismissed
      BY <1>1, <3>1 DEF Dismissed
    <3> QED BY <2>1, <2>3, <3>1, <3>2 DEF Listed
  <2> QED BY <2>2, <2>3
<1>8. \A q \in Pawns : Times(kids', q) = Listed(q)' /\ Times(players', q) = Listed(q)'
  BY <1>4, <1>7 DEF CastInv
<1>9. \A x \in Bullets \cup {"board"} : Times(kids', x) = IF x \in alive' THEN 1 ELSE 0
  BY <1>1, <1>2, <1>4 DEF CastInv
<1>10. "local" \in alive' \cup Dismissed'
  BY <1>1, <1>7, Kinds DEF CastInv
<1> QED BY <1>1, <1>6, <1>7, <1>8, <1>9, <1>10 DEF CastInv

\* A pawn that quits is out of both lists as often as it has joined, less one.
LEMMA PawnQuits ==
    ASSUME CastTyped, CastInv, NEW K \in AfterNew(known), NEW p \in K, link' = link,
           known' = K \ {p}, quit' = quit \cup {p},
           kids' = RemoveFirst(kids, p), players' = RemoveFirst(players, p),
           alive' = (alive \cup K) \ (ToSet(kids) \cap {p}), UNCHANGED <<objects, sender, joins>>
    PROVE  CastTyped' /\ CastInv'
<1>1. /\ K \subseteq Pawns \ quit
      /\ \A q \in Pawns : joins[q] > 0 => (q \in alive \cup K <=> q \notin quit)
  BY NewPawns DEF CastTyped, CastInv
<1>2. p \in Pawns /\ p \notin quit /\ p \notin Bullets /\ p \notin {"board", "game", "info", "client"}
  BY <1>1, Kinds
<1>3. kids \in Seq(Scenery) /\ players \in Seq(Pawns) /\ joins \in [Pawns -> Nat]
  BY DEF CastTyped
<1>4. /\ Times(kids, p) = joins[p] /\ Times(players, p) = joins[p] /\ joins[p] \in Nat
      /\ p \notin Dismissed
  <2>1. p \notin Dismissed
    BY <1>2 DEF Dismissed
  <2> QED BY <1>2, <1>3, <2>1 DEF CastInv, Listed
<1>5. (p \in ToSet(kids) <=> joins[p] > 0) /\ (p \in ToSet(players) <=> joins[p] > 0)
  BY <1>3, <1>4, TimesFacts
<1>6. \A x : /\ Times(kids', x) = Times(kids, x) - IF x = p /\ joins[p] > 0 THEN 1 ELSE 0
             /\ Times(players', x) = Times(players, x) - IF x = p /\ joins[p] > 0 THEN 1 ELSE 0
             /\ Times(kids, x) \in Nat /\ Times(players, x) \in Nat
  <2> TAKE x
  <2>1. Times(RemoveFirst(kids, p), x) = Times(kids, x) - IF x = p /\ p \in ToSet(kids) THEN 1 ELSE 0
    BY <1>3, TimesRemoveFirst
  <2>2. Times(RemoveFirst(players, p), x) = Times(players, x) - IF x = p /\ p \in ToSet(players) THEN 1 ELSE 0
    BY <1>3, TimesRemoveFirst
  <2>3. Times(kids, x) \in Nat /\ Times(players, x) \in Nat
    BY <1>3, TimesFacts
  <2> QED BY <1>5, <2>1, <2>2, <2>3
<1>7. \A x : x \in alive' <=> x \in alive \cup K /\ ~(x = p /\ joins[p] > 0)
  BY <1>5
<1>8. CastTyped'
  <2>1. kids' \in Seq(Scenery) /\ players' \in Seq(Pawns)
    BY <1>3, TimesRemoveFirst
  <2>2. alive' \subseteq Objects /\ known' \subseteq Pawns /\ quit' \subseteq Pawns
    BY <1>1, <1>2, <1>7, Kinds DEF CastTyped
  <2> QED BY <2>1, <2>2 DEF CastTyped
<1>9. \A q : q \in Dismissed' <=> q \in Dismissed \/ (q = p /\ joins[p] > 0)
  BY DEF Dismissed
<1>10. ASSUME NEW q \in Pawns
       PROVE  /\ Times(kids', q) = Listed(q)' /\ Times(players', q) = Listed(q)'
              /\ joins'[q] > 0 => (q \in alive' <=> q \notin quit')
  <2>1. CASE q = p
    <3>1. Listed(q)' = joins[p] - IF joins[p] > 0 THEN 1 ELSE 0
      BY <1>4, <1>9, <2>1 DEF Listed
    <3> QED BY <1>4, <1>6, <1>7, <2>1, <3>1
  <2>2. CASE q # p
    <3>1. Listed(q)' = Listed(q)
      BY <1>9, <2>2 DEF Listed
    <3>2. Times(kids', q) = Times(kids, q) /\ Times(players', q) = Times(players, q)
      BY <1>6, <2>2
    <3> QED BY <1>1, <1>7, <2>2, <3>1, <3>2 DEF CastInv
  <2> QED BY <2>1, <2>2
<1>11. \A x \in Bullets \cup {"board", "game", "info", "client"} : x # p /\ (x \in alive' <=> x \in alive)
  BY <1>1, <1>2, <1>7, Kinds
<1>12. \A x \in Bullets \cup {"board"} : Times(kids', x) = IF x \in alive' THEN 1 ELSE 0
  BY <1>6, <1>11 DEF CastInv
<1>13. known' \subseteq alive' \ quit'
  BY <1>1, <1>7
<1>14. "local" \in alive' \cup Dismissed'
  BY <1>7, <1>9 DEF CastInv
<1>15. {"game", "info", "board"} \subseteq alive' /\ ("client" \in alive' <=> link') /\ Bullets \cap alive' \subseteq objects'
  BY <1>11 DEF CastInv
<1> QED BY <1>8, <1>10, <1>12, <1>13, <1>14, <1>15 DEF CastInv

\* A bullet is put at the end of the children.
LEMMA BulletAdded ==
    ASSUME CastTyped, CastInv, NEW p \in Pawns \cup {"none"}, BulletMade(p), link' = link,
           UNCHANGED <<players, known, joins, quit>>
    PROVE  CastTyped' /\ CastInv'
<1>1. PICK b \in Bullets \ alive : /\ kids' = Append(kids, b) /\ objects' = objects \cup {b}
                                   /\ alive' = alive \cup {b} /\ sender' = [sender EXCEPT ![b] = p]
  <2>1. NewBullet \in Bullets \ alive
    BY DEF BulletMade, NewBullet
  <2> QED BY <2>1 DEF BulletMade
<1>2. b \in Scenery /\ b \notin Pawns /\ b \notin {"board", "game", "info", "client", "local"} /\ b \in Objects
  BY <1>1, Kinds
<1>3. kids \in Seq(Scenery) /\ players \in Seq(Pawns) /\ joins \in [Pawns -> Nat]
  BY DEF CastTyped
<1>4. \A x : Times(kids', x) = Times(kids, x) + (IF b = x THEN 1 ELSE 0) /\ Times(kids, x) \in Nat
  <2> TAKE x
  <2>1. Times(Append(kids, b), x) = Times(kids, x) + (IF b = x THEN 1 ELSE 0)
    BY <1>2, <1>3, TimesAppend
  <2>2. Times(kids, x) \in Nat
    BY <1>3, TimesFacts
  <2> QED BY <1>1, <2>1, <2>2
<1>5. CastTyped'
  <2>1. kids' \in Seq(Scenery)
    BY <1>1, <1>2, <1>3, AppendProperties
  <2>2. sender' \in [Bullets -> Pawns \cup {"none"}]
    BY <1>1 DEF CastTyped
  <2> QED BY <1>1, <1>2, <2>1, <2>2 DEF CastTyped
<1>6. \A q \in Pawns : Listed(q)' = Listed(q) /\ (q \in Dismissed' <=> q \in Dismissed) /\ q # b
  BY <1>2 DEF Listed, Dismissed
<1>7. \A q \in Pawns : /\ Times(kids', q) = Listed(q)' /\ Times(players', q) = Listed(q)'
                       /\ joins'[q] > 0 => (q \in alive' <=> q \notin quit')
  <2>1. \A q \in Pawns : Times(kids', q) = Times(kids, q)
    BY <1>4, <1>6
  <2> QED BY <1>1, <1>6, <2>1 DEF CastInv
<1>8. \A x \in Bullets \cup {"board"} : Times(kids', x) = IF x \in alive' THEN 1 ELSE 0
  <2> TAKE x \in Bullets \cup {"board"}
  <2>1. Times(kids, x) = IF x \in alive THEN 1 ELSE 0
    BY DEF CastInv
  <2> QED BY <1>1, <1>4, <2>1
<1>9. /\ {"game", "info", "board"} \subseteq alive' /\ ("client" \in alive' <=> link')
      /\ Bullets \cap alive' \subseteq objects' /\ known' \subseteq alive' \ quit'
  BY <1>1, <1>2 DEF CastInv
<1>10. "local" \in alive' \cup Dismissed'
  BY <1>1, <1>6, Kinds DEF CastInv
<1> QED BY <1>5, <1>7, <1>8, <1>9, <1>10 DEF CastInv

\* A bullet is erased and deleted by the loop that has just ticked it.
LEMMA BulletGone ==
    ASSUME CastTyped, CastInv, NEW b \in Bullets, BulletEnds(b)
    PROVE  CastTyped' /\ CastInv'
<1>1. PICK i \in 1 .. Len(kids) : i = Top.at /\ kids[i] = b
  <2>1. Top.at \in DOMAIN kids /\ kids[Top.at] = b
    BY DEF BulletEnds, At, Walked
  <2>2. DOMAIN kids = 1 .. Len(kids)
    BY LenProperties DEF CastTyped
  <2> QED BY <2>1, <2>2
<1>2. /\ kids' = RemoveAt(kids, i) /\ alive' = alive \ {b} /\ players' = players /\ objects' = objects
      /\ known' = known /\ joins' = joins /\ quit' = quit /\ link' = link
  BY <1>1 DEF BulletEnds, LeftAfterTick
<1>3. b \notin Pawns /\ b \notin {"board", "game", "info", "client", "local"}
  BY Kinds
<1>4. kids \in Seq(Scenery)
  BY DEF CastTyped
<1>5. kids' \in Seq(Scenery) /\ b \in ToSet(kids)
  BY <1>1, <1>2, <1>4, RemoveAtFacts, ToSetFacts
<1>6. \A x : /\ Times(kids', x) = Times(kids, x) - IF b = x THEN 1 ELSE 0
             /\ Times(kids, x) \in Nat
  <2> TAKE x
  <2>1. Times(RemoveAt(kids, i), x) = Times(kids, x) - IF kids[i] = x THEN 1 ELSE 0
    BY <1>4, TimesRemoveAt
  <2>2. Times(kids, x) \in Nat
    BY <1>4, TimesFacts
  <2> QED BY <1>1, <1>2, <2>1, <2>2
<1>7. b \in alive /\ Times(kids, b) = 1
  <2>1. Times(kids, b) > 0
    BY <1>4, <1>5, TimesFacts
  <2> QED BY <2>1 DEF CastInv
<1>8. CastTyped'
  <2>1. sender' \in [Bullets -> Pawns \cup {"none"}]
    BY DEF CastTyped, BulletEnds
  <2> QED BY <1>2, <1>5, <2>1 DEF CastTyped
<1>9. \A q \in Pawns : Listed(q)' = Listed(q) /\ (q \in Dismissed' <=> q \in Dismissed) /\ q # b
  BY <1>2, <1>3 DEF Listed, Dismissed
<1>10. \A q \in Pawns : /\ Times(kids', q) = Listed(q)' /\ Times(players', q) = Listed(q)'
                        /\ joins'[q] > 0 => (q \in alive' <=> q \notin quit')
  <2>1. \A q \in Pawns : Times(kids', q) = Times(kids, q)
    BY <1>6, <1>9
  <2> QED BY <1>2, <1>9, <2>1 DEF CastInv
<1>11. \A x \in Bullets \cup {"board"} : Times(kids', x) = IF x \in alive' THEN 1 ELSE 0
  <2> TAKE x \in Bullets \cup {"board"}
  <2>1. Times(kids, x) = IF x \in alive THEN 1 ELSE 0
    BY DEF CastInv
  <2> QED BY <1>2, <1>6, <1>7, <2>1
<1>12. /\ {"game", "info", "board"} \subseteq alive' /\ ("client" \in alive' <=> link')
       /\ Bullets \cap alive' \subseteq objects'
  BY <1>2, <1>3 DEF CastInv
<1>13. known' \subseteq alive' \ quit'
  BY <1>2, <1>3 DEF CastInv, CastTyped
<1>14. "local" \in alive' \cup Dismissed'
  BY <1>2, <1>3, <1>9, Kinds DEF CastInv
<1> QED BY <1>8, <1>10, <1>11, <1>12, <1>13, <1>14 DEF CastInv

\* The client is deleted with its map of pawns, which stay.
LEMMA ClientGone ==
    ASSUME CastTyped, CastInv, alive' = alive \ {"client"}, ~link', known' = {},
           UNCHANGED <<kids, players, objects, sender, joins, quit>>
    PROVE  CastTyped' /\ CastInv'
<1>1. \A x \in Pawns \cup Bullets \cup {"board", "game", "info"} : x \in alive' <=> x \in alive
  BY Kinds
<1>2. CastTyped'
  BY DEF CastTyped
<1>3. Dismissed' = Dismissed /\ \A p \in Pawns : Listed(p)' = Listed(p)
  BY DEF Dismissed, Listed
<1>4. \A p \in Pawns : /\ Times(kids', p) = Listed(p)' /\ Times(players', p) = Listed(p)'
                       /\ joins'[p] > 0 => (p \in alive' <=> p \notin quit')
  BY <1>1, <1>3 DEF CastInv
<1>5. \A x \in Bullets \cup {"board"} : Times(kids', x) = IF x \in alive' THEN 1 ELSE 0
  BY <1>1 DEF CastInv
<1>6. {"game", "info", "board"} \subseteq alive' /\ "client" \notin alive' /\ Bullets \cap alive' \subseteq objects'
  BY <1>1 DEF CastInv
<1>7. "local" \in alive' \cup Dismissed' /\ known' \subseteq alive' \ quit'
  BY <1>1, <1>3, Kinds DEF CastInv
<1> QED BY <1>2, <1>4, <1>5, <1>6, <1>7 DEF CastInv

\* With the game goes all that is in the scene.
LEMMA GameGone ==
    ASSUME CastTyped, CastInv, ~link, alive' = alive \ ({"game", "info"} \cup ToSet(kids)), joins' = joins
    PROVE  alive' \subseteq {p \in Pawns : joins'[p] = 0}
<1>1. kids \in Seq(Scenery) /\ alive \subseteq Objects /\ joins \in [Pawns -> Nat]
  BY DEF CastTyped
<1>2. \A x \in Bullets \cup {"board"} : x \in alive => x \in ToSet(kids)
  <2> TAKE x \in Bullets \cup {"board"}
  <2>1. Times(kids, x) = IF x \in alive THEN 1 ELSE 0
    BY DEF CastInv
  <2>2. Times(kids, x) > 0 <=> x \in ToSet(kids)
    BY <1>1, TimesFacts
  <2> QED BY <2>1, <2>2
<1>3. \A p \in Pawns : p \in alive /\ joins[p] # 0 => p \in ToSet(kids)
  <2> SUFFICES ASSUME NEW p \in Pawns, p \in alive, joins[p] # 0 PROVE p \in ToSet(kids)
    OBVIOUS
  <2>1. joins[p] \in Nat /\ joins[p] > 0
    BY <1>1
  <2>2. p \notin quit /\ Times(kids, p) = Listed(p)
    BY <2>1 DEF CastInv
  <2>3. Times(kids, p) = joins[p]
    BY <2>1, <2>2 DEF Listed, Dismissed
  <2>4. Times(kids, p) > 0 <=> p \in ToSet(kids)
    BY <1>1, TimesFacts
  <2> QED BY <2>1, <2>3, <2>4
<1>4. "client" \notin alive
  BY DEF CastInv
<1> QED BY <1>1, <1>2, <1>3, <1>4 DEF Objects

\* Any event: somebody is made known, joins, quits, or shoots.
LEMMA EventScene ==
    ASSUME CastTyped, CastInv, EventReceived
    PROVE  CastTyped' /\ CastInv'
<1>1. link' = link
  BY DEF EventReceived
<1>2. CASE NewReceived
  <2>1. known \subseteq Pawns \cap (alive \ quit)
    BY DEF CastInv, CastTyped
  <2> QED BY <1>1, <1>2, <2>1, KnownGrows DEF NewReceived
<1>3. CASE RegReceived
  <2>1. PICK q : known' \in AfterNew((known \ {q}) \cup {"local"})
    BY <1>3 DEF RegReceived
  <2>2. "local" \notin quit /\ "local" \in alive
    BY <1>3 DEF RegReceived, CastInv, Dismissed
  <2>3. (known \ {q}) \cup {"local"} \subseteq Pawns \cap (alive \ quit)
    BY <2>2, Kinds DEF CastInv, CastTyped
  <2> DEFINE K == (known \ {q}) \cup {"local"}
  <2> HIDE DEF K
  <2>4. known' \in AfterNew(K) /\ K \subseteq Pawns \cap (alive \ quit)
    BY <2>1, <2>3 DEF K
  <2> QED BY <1>1, <1>3, <2>4, KnownGrows DEF RegReceived
<1>4. CASE QuitReceived
  <2>1. PICK K \in AfterNew(known) : \E p \in K :
        /\ known' = K \ {p} /\ quit' = quit \cup {p}
        /\ kids' = RemoveFirst(kids, p) /\ players' = RemoveFirst(players, p)
        /\ alive' = (alive \cup K) \ (ToSet(kids) \cap {p}) /\ UNCHANGED <<objects, sender, joins>>
    BY <1>4 DEF QuitReceived
  <2> QED BY <1>1, <2>1, PawnQuits
<1>5. ASSUME NEW p \in known, JoinReceived(p) PROVE CastTyped' /\ CastInv'
  BY <1>1, <1>5, PawnJoins
<1>6. ASSUME NEW p \in known \cup {"none"}, ShotReceived(p) PROVE CastTyped' /\ CastInv'
  <2>1. p \in Pawns \cup {"none"}
    BY DEF CastTyped
  <2> QED BY <1>1, <1>6, <2>1, BulletAdded DEF ShotReceived
<1>7. CASE UNCHANGED cast
  <2>1. CastTyped'
    BY <1>7 DEF cast, CastTyped
  <2>2. CastInv'
    BY <1>1, <1>7 DEF cast, CastInv, Listed, Dismissed
  <2> QED BY <2>1, <2>2
<1> QED BY <1>2, <1>3, <1>4, <1>5, <1>6, <1>7 DEF EventReceived

\* Every step keeps what is said of the scene.
LEMMA SceneInvStep ==
    ASSUME StackInv, RootsInv, SceneInv, [LoopNext]_loopVars
    PROVE  SceneInv'
<1>1. CASE roots' = roots /\ link' = link /\ UNCHANGED cast
  <2>1. CastTyped'
    BY <1>1 DEF cast, CastTyped, SceneInv
  <2>2. CastInv => CastInv'
    BY <1>1 DEF cast, CastInv, Listed, Dismissed
  <2>3. roots' = <<>> => alive' \subseteq {p \in Pawns : joins'[p] = 0}
    BY <1>1 DEF cast, SceneInv
  <2> QED BY <1>1, <2>1, <2>2, <2>3 DEF SceneInv
<1>2. ASSUME roots # <<>>, roots' = roots, CastTyped', CastInv' PROVE SceneInv'
  BY <1>2 DEF SceneInv
<1>3. CASE LoopStep /\ UNCHANGED cast /\ ~RootDeleted
  <2>1. roots' = roots /\ link' = link
    BY <1>3 DEF LoopStep, FrameBegins, FrameEnds, ClientDozes, ClientDies, ClientListens, GameTicks,
                Ticks, Shoots, BulletEnds, SceneTicked, PlayersTicked, ResetGame
  <2> QED BY <1>1, <1>3, <2>1
<1>4. ASSUME NEW list \in {"kids", "players"}, Shoots(list) PROVE SceneInv'
  <2>1. roots # <<>>
    BY <1>4, RunningFacts DEF Shoots, At, Running
  <2>2. CastTyped /\ CastInv /\ roots' = roots
    BY <1>4, <2>1 DEF SceneInv, Shoots
  <2>3. CastTyped' /\ CastInv'
    BY <1>4, <2>2, Kinds, BulletAdded DEF Shoots
  <2> QED BY <1>2, <2>1, <2>2, <2>3
<1>5. ASSUME NEW b \in Bullets, BulletEnds(b) PROVE SceneInv'
  <2>1. roots # <<>>
    BY <1>5, RunningFacts DEF BulletEnds, At, Running
  <2>2. CastTyped /\ CastInv /\ roots' = roots
    BY <1>5, <2>1 DEF SceneInv, BulletEnds
  <2>3. CastTyped' /\ CastInv'
    BY <1>5, <2>2, BulletGone
  <2> QED BY <1>2, <2>1, <2>2, <2>3
<1>6. CASE EventReceived
  <2>1. roots # <<>>
    BY <1>6, RunningFacts DEF EventReceived, Running
  <2>2. CastTyped /\ CastInv /\ roots' = roots
    BY <1>6, <2>1 DEF SceneInv, EventReceived
  <2> QED BY <1>2, <1>6, <2>1, <2>2, EventScene
<1>7. CASE Disconnected
  <2>1. roots # <<>> /\ stack = Listening /\ link
    BY <1>7, AtEvents, RunningFacts DEF Disconnected, Running
  <2>2. CastTyped /\ CastInv
    BY <2>1 DEF SceneInv
  <2>3. CastTyped' /\ CastInv'
    BY <1>7, <2>2, ClientGone DEF Disconnected
  <2>4. roots' # <<>>
    <3>1. Below.at = 1 /\ roots = <<"client", "game">> /\ roots' = RemoveAt(roots, Below.at)
      BY <1>7, <2>1, EventsLeft DEF RootsInv, Disconnected
    <3> QED BY <3>1, RootsLeave
  <2> QED BY <2>3, <2>4 DEF SceneInv
<1>8. CASE RootDeleted
  <2> DEFINE gone == IF Head(roots) = "game" THEN {"game", "info"} \cup ToSet(kids) ELSE {Head(roots)}
  <2>1. /\ roots # <<>> /\ roots' = Tail(roots) /\ alive' = alive \ gone
        /\ link' = (link /\ Head(roots) # "client")
        /\ known' = (IF Head(roots) = "client" THEN {} ELSE known)
        /\ kids' = (IF Head(roots) = "game" THEN <<>> ELSE kids)
        /\ players' = (IF Head(roots) = "game" THEN <<>> ELSE players)
        /\ objects' = (IF Head(roots) = "game" THEN {} ELSE objects)
        /\ sender' = sender /\ joins' = joins /\ quit' = quit
    BY <1>8 DEF RootDeleted
  <2>2. CastTyped /\ CastInv
    BY <2>1 DEF SceneInv
  <2>3. CASE roots = <<"client", "game">>
    <3>1. Head(roots) = "client" /\ roots' = <<"game">>
      BY <2>1, <2>3, RootsLeave
    <3>2. CastTyped' /\ CastInv'
      BY <2>1, <2>2, <3>1, ClientGone
    <3> QED BY <3>1, <3>2, RootsLeave DEF SceneInv
  <2>4. CASE roots = <<"game">>
    <3>1. Head(roots) = "game" /\ roots' = <<>> /\ ~link
      BY <2>1, <2>4, RootsLeave DEF RootsInv
    <3>2. alive' \subseteq {p \in Pawns : joins'[p] = 0}
      BY <2>1, <2>2, <3>1, GameGone
    <3>3. CastTyped'
      <4>1. <<>> \in Seq(Scenery) /\ <<>> \in Seq(Pawns)
        OBVIOUS
      <4>2. kids' = <<>> /\ players' = <<>> /\ objects' = {} /\ known' = known
        BY <2>1, <3>1
      <4>3. alive' \subseteq Objects
        BY <3>2, Kinds
      <4> QED BY <2>1, <2>2, <4>1, <4>2, <4>3 DEF CastTyped
    <3> QED BY <3>1, <3>2, <3>3 DEF SceneInv
  <2> QED BY <2>1, <2>3, <2>4 DEF RootsInv
<1>9. CASE EventsEnd \/ Crashes \/ UNCHANGED loopVars
  <2>1. roots' = roots /\ link' = link /\ UNCHANGED cast
    BY <1>9 DEF EventsEnd, Crashes, loopVars, cast
  <2> QED BY <1>1, <2>1
<1>10. CASE LoopStep /\ ~RootDeleted /\ ~(\E b \in Bullets : BulletEnds(b))
            /\ ~(\E list \in {"kids", "players"} : Shoots(list))
  <2>1. UNCHANGED cast
    BY <1>10 DEF LoopStep, FrameBegins, FrameEnds, ClientDozes, ClientDies, ClientListens, GameTicks,
                 Ticks, SceneTicked, PlayersTicked, ResetGame
  <2> QED BY <1>3, <1>10, <2>1
<1> QED BY <1>4, <1>5, <1>6, <1>7, <1>8, <1>9, <1>10 DEF LoopNext

-----------------------------------------------------------------------------
\* What is used.

\* What the program can get at while it runs.
Reached == {"game", "info", "board", "local"} \cup (IF link THEN {"client"} ELSE {})
                \cup ToSet(kids) \cup ToSet(players) \cup known

\* Of that only the doomed can have been deleted.
LEMMA ReachedFacts ==
    ASSUME CastTyped, CastInv, NEW x \in Reached \ alive
    PROVE  x \in Doomed
<1>1. kids \in Seq(Scenery) /\ players \in Seq(Pawns) /\ joins \in [Pawns -> Nat]
  BY DEF CastTyped
<1>2. ASSUME NEW p \in Pawns \ alive, Times(kids, p) > 0 \/ Times(players, p) > 0
      PROVE  p \in JoinedTwice
  <2>1. Listed(p) > 0 /\ joins[p] \in Nat
    BY <1>1, <1>2 DEF CastInv
  <2>2. joins[p] > 0
    BY <2>1 DEF Listed
  <2>3. p \in Dismissed
    BY <2>2 DEF CastInv, Dismissed
  <2> QED BY <2>1, <2>3 DEF Listed, JoinedTwice
<1>3. ASSUME x \in ToSet(players) PROVE x \in JoinedTwice
  <2>1. x \in Pawns
    BY <1>1, <1>3, ElementOfSeq, LenProperties DEF ToSet
  <2>2. Times(players, x) > 0
    BY <1>1, <1>3, TimesFacts
  <2> QED BY <1>2, <2>1, <2>2
<1>4. ASSUME x \in ToSet(kids) PROVE x \in JoinedTwice
  <2>1. x \in Scenery
    BY <1>1, <1>4, ElementOfSeq, LenProperties DEF ToSet
  <2>2. Times(kids, x) > 0
    BY <1>1, <1>4, TimesFacts
  <2>3. x \notin Bullets \cup {"board"}
    BY <2>2 DEF CastInv
  <2> QED BY <1>2, <2>1, <2>2, <2>3 DEF Scenery
<1>5. x = "local" \/ x \in ToSet(kids) \/ x \in ToSet(players)
  BY DEF Reached, CastInv
<1>6. x = "local" => x \in Dismissed
  BY DEF CastInv
<1> QED BY <1>3, <1>4, <1>5, <1>6 DEF Doomed

\* Nobody is less doomed than before.
LEMMA DoomedGrow ==
    ASSUME CastTyped, [LoopNext]_loopVars
    PROVE  Doomed \subseteq Doomed' /\ (~EventReceived => JoinedTwice' = JoinedTwice)
<1>1. CASE joins' = joins /\ quit' = quit
  BY <1>1 DEF Doomed, JoinedTwice, Dismissed
<1>2. CASE joins' = joins /\ quit \subseteq quit'
  BY <1>2 DEF Doomed, JoinedTwice, Dismissed
<1>3. ASSUME NEW p \in known, JoinReceived(p), EventReceived PROVE Doomed \subseteq Doomed'
  <2>1. quit' = quit /\ joins \in [Pawns -> Nat] /\ joins' = [joins EXCEPT ![p] = joins[p] + 1] /\ p \in Pawns
    BY <1>3 DEF JoinReceived, CastTyped
  <2>2. \A q \in Pawns : joins[q] \in Nat /\ joins'[q] \in {joins[q], joins[q] + 1}
    BY <2>1
  <2>3. \A q \in Pawns : (joins[q] > 1 => joins'[q] > 1) /\ (joins[q] > 0 => joins'[q] > 0)
    BY <2>2
  <2> QED BY <2>1, <2>3 DEF Doomed, JoinedTwice, Dismissed, CastTyped
<1>4. CASE EventReceived
  <2>1. CASE NewReceived \/ RegReceived \/ QuitReceived
    BY <1>2, <1>4, <2>1 DEF NewReceived, RegReceived, QuitReceived
  <2>2. CASE (\E p \in known \cup {"none"} : ShotReceived(p)) \/ UNCHANGED cast
    BY <1>1, <1>4, <2>2 DEF ShotReceived, cast
  <2> QED BY <1>3, <1>4, <2>1, <2>2 DEF EventReceived
<1>5. CASE LoopStep \/ EventsEnd \/ Disconnected \/ Crashes \/ UNCHANGED loopVars
  <2>1. joins' = joins /\ quit' = quit
    BY <1>5 DEF LoopStep, EventsEnd, Disconnected, Crashes, loopVars, cast, FrameBegins, FrameEnds,
                ClientDozes, ClientDies, ClientListens, GameTicks, Ticks, Shoots, BulletEnds,
                SceneTicked, PlayersTicked, RootDeleted, ResetGame
  <2> QED BY <1>1, <2>1
<1> QED BY <1>4, <1>5 DEF LoopNext

\* A step that uses what it reaches.
UsesReached == \E S \in SUBSET Reached : misused' = misused \cup (S \ alive)

\* The loop over the roots: the client is there when it is ticked or sleeps.
LEMMA RootsUse ==
    ASSUME StackInv, RootsInv, FrameEnds \/ ClientDozes \/ ClientDies \/ ClientListens
    PROVE  UsesReached
<1>1. CASE misused' = misused
  <2>1. {} \in SUBSET Reached /\ misused' = misused \cup ({} \ alive)
    BY <1>1
  <2> QED BY <2>1 DEF UsesReached
<1>2. CASE Uses({"client"}) /\ link
  BY <1>2 DEF UsesReached, Uses, Reached
<1>3. CASE Uses({"client", "game", "local"}) /\ link
  BY <1>3 DEF UsesReached, Uses, Reached
<1>4. CASE ClientDies \/ ClientListens
  <2>1. link
    BY <1>4, ClientTicked DEF ClientDies, ClientListens
  <2> QED BY <1>3, <1>4, <2>1 DEF ClientDies, ClientListens
<1>5. CASE ClientDozes
  <2>1. link
    BY <1>5 DEF ClientDozes, Dozing, Asleep, At, Running, StackInv
  <2> QED BY <1>2, <1>5, <2>1 DEF ClientDozes
<1>6. CASE FrameEnds
  <2>1. ASSUME Len(stack) > 1 PROVE link
    <3>1. PICK b \in RootBases : /\ stack = Append(b, F("roots", Top.at)) /\ Top.at \in Nat
                                 /\ Asleep <=> b = Listening
      BY <1>6, AtRoots DEF FrameEnds, AtEnd
    <3>2. PICK n \in Nat : n = Top.at
      BY <3>1
    <3>3. Len(Append(b, F("roots", n))) = Len(b) + 1
      BY TopIs
    <3>4. b # <<>>
      BY <2>1, <3>1, <3>2, <3>3
    <3>5. Asleep /\ phase = "running"
      BY <1>6, <3>1, <3>4 DEF RootBases, FrameEnds, AtEnd, Running
    <3> QED BY <3>5 DEF StackInv
  <2> QED BY <1>1, <1>3, <1>6, <2>1 DEF FrameEnds
<1> QED BY <1>4, <1>5, <1>6

\* The client's events.
LEMMA EventsUse ==
    ASSUME StackInv, EventReceived \/ Disconnected
    PROVE  UsesReached
<1>1. link
  BY AtEvents DEF EventReceived, Disconnected
<1>2. ASSUME NEW S, S \subseteq {"client", "game", "info", "local"} \cup known, Uses(S) PROVE UsesReached
  <2>1. S \in SUBSET Reached
    BY <1>1, <1>2 DEF Reached
  <2> QED BY <1>2, <2>1 DEF UsesReached, Uses
<1>3. CASE NewReceived \/ RegReceived
  BY <1>2, <1>3 DEF NewReceived, RegReceived
<1>4. CASE QuitReceived
  <2>1. PICK K \in AfterNew(known) : \E p \in K : Uses({"client", "game", "info", "local"} \cup (known \cap {p}))
    BY <1>4 DEF QuitReceived
  <2> QED BY <1>2, <2>1
<1>5. ASSUME NEW p \in known, JoinReceived(p) PROVE UsesReached
  BY <1>2, <1>5 DEF JoinReceived
<1>6. ASSUME NEW p \in known \cup {"none"}, ShotReceived(p) PROVE UsesReached
  BY <1>2, <1>6 DEF ShotReceived
<1>7. ASSUME NEW p \in known \cup {"client"}, Uses({"client", "game", p}) PROVE UsesReached
  BY <1>2, <1>7
<1>8. CASE Disconnected
  BY <1>2, <1>8 DEF Disconnected
<1> QED BY <1>3, <1>4, <1>5, <1>6, <1>7, <1>8 DEF EventReceived

\* The game and its scene.
LEMMA SceneUses ==
    ASSUME CastTyped,
           \/ GameTicks \/ SceneTicked \/ PlayersTicked
           \/ \E b \in Bullets : BulletEnds(b)
           \/ \E list \in {"kids", "players"} : (\E x \in Objects : Ticks(list, x)) \/ Shoots(list)
    PROVE  UsesReached
<1>1. ASSUME NEW S, S \subseteq Reached, Uses(S) PROVE UsesReached
  BY <1>1 DEF UsesReached, Uses
<1>2. CASE GameTicks \/ SceneTicked
  BY <1>1, <1>2 DEF GameTicks, SceneTicked, Reached
<1>3. CASE PlayersTicked
  <2>1. PICK S : S \subseteq {"game", "info", "board", "local"} /\ Uses(S)
    <3>1. PICK escape \in BOOLEAN : Uses({"game", "info", "board"} \cup IF escape THEN {} ELSE {"local"})
      BY <1>3 DEF PlayersTicked
    <3> QED BY <3>1
  <2> QED BY <1>1, <2>1 DEF Reached
<1>4. ASSUME NEW list \in {"kids", "players"}, NEW x, At(list, x) PROVE x \in ToSet(kids) \cup ToSet(players)
  <2>1. Top.at \in DOMAIN Walked(list) /\ Walked(list)[Top.at] = x
    BY <1>4 DEF At
  <2>2. Walked(list) = kids \/ Walked(list) = players
    BY DEF Walked
  <2> QED BY <2>1, <2>2 DEF ToSet
<1>5. ASSUME NEW b \in Bullets, BulletEnds(b) PROVE UsesReached
  <2>1. Uses({b, "info"} \cup ToSet(players)) /\ b \in ToSet(kids) \cup ToSet(players)
    BY <1>4, <1>5 DEF BulletEnds
  <2> QED BY <1>1, <2>1 DEF Reached
<1>6. ASSUME NEW list \in {"kids", "players"}, NEW x \in Objects, Ticks(list, x) PROVE UsesReached
  <2>1. x \in ToSet(kids) \cup ToSet(players)
    BY <1>4, <1>6 DEF Ticks
  <2>2. PICK S : S \subseteq {x, "info"} \cup ToSet(players) /\ Uses(S)
    BY <1>6 DEF Ticks
  <2> QED BY <1>1, <2>1, <2>2 DEF Reached
<1>7. ASSUME NEW list \in {"kids", "players"}, Shoots(list) PROVE UsesReached
  BY <1>1, <1>7 DEF Shoots, Reached
<1> QED BY <1>2, <1>3, <1>5, <1>6, <1>7

\* The end: what the scene holds is deleted as often as it is held.
LEMMA RootDeletedUses ==
    ASSUME RootsInv, SceneInv, UsedInv, RootDeleted
    PROVE  UsedInv'
<1> DEFINE gone == IF Head(roots) = "game" THEN {"game", "info"} \cup ToSet(kids) ELSE {Head(roots)}
           twice == IF Head(roots) = "game" THEN {x \in ToSet(kids) : Times(kids, x) > 1} ELSE {}
<1>1. /\ roots # <<>> /\ roots' = Tail(roots) /\ phase = "leaving" /\ phase' = "leaving"
      /\ misused' = misused \cup ((gone \cup {"game"}) \ alive) \cup twice
      /\ joins' = joins /\ quit' = quit
  BY DEF RootDeleted
<1>2. CastTyped /\ CastInv /\ Doomed' = Doomed /\ JoinedTwice' = JoinedTwice
  BY <1>1 DEF SceneInv, Doomed, JoinedTwice, Dismissed
<1>3. misused \subseteq Doomed
  BY <1>1 DEF UsedInv
<1>4. CASE roots = <<"client", "game">>
  <2>1. Head(roots) = "client" /\ roots' # <<>> /\ link
    BY <1>1, <1>4, RootsLeave DEF RootsInv
  <2>2. gone \cup {"game"} \subseteq alive /\ twice = {}
    BY <1>2, <2>1 DEF CastInv
  <2> QED BY <1>1, <1>2, <1>3, <2>1, <2>2 DEF UsedInv
<1>5. CASE roots = <<"game">>
  <2>1. Head(roots) = "game" /\ roots' = <<>>
    BY <1>1, <1>5, RootsLeave
  <2>2. kids \in Seq(Scenery) /\ joins \in [Pawns -> Nat]
    BY <1>2 DEF CastTyped
  <2>3. \A x \in (gone \cup {"game"}) \ alive : x \in Doomed
    <3>1. gone \cup {"game"} \subseteq Reached
      BY <2>1 DEF Reached
    <3> HIDE DEF gone
    <3> QED BY <1>2, <3>1, ReachedFacts
  <2>4. twice \subseteq JoinedTwice
    <3>1. ASSUME NEW x \in twice PROVE x \in JoinedTwice
      <4>1. x \in ToSet(kids) /\ Times(kids, x) > 1 /\ x \in Scenery
        BY <2>1, <2>2, ElementOfSeq, LenProperties DEF ToSet
      <4>2. x \in Pawns
        BY <1>2, <4>1 DEF CastInv, Scenery
      <4>3. Listed(x) > 1 /\ joins[x] \in Nat
        BY <1>2, <2>2, <4>1, <4>2 DEF CastInv
      <4> QED BY <4>2, <4>3 DEF Listed, JoinedTwice
    <3> HIDE DEF twice
    <3> QED BY <3>1
  <2>5. ASSUME NEW p \in JoinedTwice PROVE p \in twice \cup (gone \ alive)
    <3>1. p \in Pawns /\ joins[p] > 1 /\ joins[p] \in Nat
      BY <2>2 DEF JoinedTwice
    <3>2. Times(kids, p) = Listed(p) /\ (p \in alive <=> p \notin quit)
      BY <1>2, <3>1 DEF CastInv
    <3>3. Listed(p) > 0
      BY <3>1 DEF Listed
    <3>4. p \in ToSet(kids)
      BY <2>2, <3>2, <3>3, TimesFacts
    <3>5. CASE p \in quit
      BY <2>1, <3>2, <3>4, <3>5
    <3>6. CASE p \notin quit
      <4>1. Listed(p) = joins[p]
        BY <3>1, <3>6 DEF Listed, Dismissed
      <4> QED BY <2>1, <3>1, <3>2, <3>4, <4>1
    <3> QED BY <3>5, <3>6
  <2> HIDE DEF gone, twice
  <2>6. misused' \subseteq Doomed /\ JoinedTwice \subseteq misused'
    BY <1>1, <1>3, <2>3, <2>4, <2>5 DEF Doomed
  <2> QED BY <1>1, <1>2, <2>6 DEF UsedInv
<1> QED BY <1>1, <1>4, <1>5 DEF RootsInv

\* Every step uses the doomed only, and in the end all that have joined twice.
LEMMA UsedInvStep ==
    ASSUME StackInv, RootsInv, SceneInv, UsedInv, RootsInv', [LoopNext]_loopVars
    PROVE  UsedInv'
<1>1. Doomed \subseteq Doomed' /\ (~EventReceived => JoinedTwice' = JoinedTwice)
  BY DoomedGrow DEF SceneInv
<1>2. ASSUME phase = "running", phase' \in {"running", "leaving"}, roots' # <<>>, UsesReached
      PROVE  UsedInv'
  <2>1. CastTyped /\ CastInv
    BY <1>2, RunningFacts DEF SceneInv
  <2>2. PICK S \in SUBSET Reached : misused' = misused \cup (S \ alive)
    BY <1>2 DEF UsesReached
  <2>3. \A x \in S \ alive : x \in Doomed
    BY <2>1, <2>2, ReachedFacts
  <2>4. misused \subseteq Doomed
    BY <1>2 DEF UsedInv
  <2>5. misused' \subseteq Doomed'
    BY <1>1, <2>2, <2>3, <2>4
  <2> QED BY <1>2, <2>5 DEF UsedInv
<1>3. ASSUME misused' = misused, roots' = roots, phase' = phase \/ phase' \notin {"over"}, phase # "over" \/ phase' = phase,
             JoinedTwice' = JoinedTwice
      PROVE  UsedInv'
  BY <1>1, <1>3 DEF UsedInv
<1>4. CASE EventReceived \/ Disconnected
  <2>1. phase = "running" /\ phase' \in {"running", "leaving"}
    BY <1>4 DEF EventReceived, Disconnected, Running
  <2>2. roots' # <<>>
    <3>1. CASE EventReceived
      BY <2>1, <3>1, RunningFacts DEF EventReceived
    <3>2. CASE Disconnected
      BY <2>1, <3>2 DEF RootsInv, Disconnected
    <3> QED BY <1>4, <3>1, <3>2
  <2> QED BY <1>2, <1>4, <2>1, <2>2, EventsUse
<1>5. CASE FrameEnds \/ ClientDozes \/ ClientDies \/ ClientListens
  <2>1. phase = "running" /\ phase' = "running" /\ roots' = roots
    BY <1>5 DEF FrameEnds, ClientDozes, ClientDies, ClientListens, At, AtEnd, Running
  <2> QED BY <1>2, <1>5, <2>1, RunningFacts, RootsUse
<1>6. CASE \/ GameTicks \/ SceneTicked \/ PlayersTicked
           \/ \E b \in Bullets : BulletEnds(b)
           \/ \E list \in {"kids", "players"} : (\E x \in Objects : Ticks(list, x)) \/ Shoots(list)
  <2>1. phase = "running" /\ phase' \in {"running", "leaving"} /\ roots' = roots
    BY <1>6 DEF GameTicks, SceneTicked, PlayersTicked, GameReturns, BulletEnds, Ticks, Shoots, At, AtEnd, Running
  <2>2. UsesReached
    BY <1>6, SceneUses DEF SceneInv
  <2> QED BY <1>2, <2>1, <2>2, RunningFacts
<1>7. CASE RootDeleted
  BY <1>7, RootDeletedUses
<1>8. CASE ResetGame
  <2>1. /\ phase = "leaving" /\ phase' = "over" /\ roots = <<>> /\ roots' = <<>>
        /\ misused' = misused \cup (({"info"} \cup ToSet(players)) \ alive) /\ players = <<>>
        /\ JoinedTwice' = JoinedTwice /\ Doomed' = Doomed
    BY <1>8 DEF ResetGame, Uses, RootsInv, cast, Doomed, JoinedTwice, Dismissed
  <2>2. "info" \notin alive
    BY <2>1, Kinds DEF SceneInv
  <2>3. misused' = misused \cup {"info"}
    BY <2>1, <2>2, RootsLeave
  <2> QED BY <2>1, <2>3 DEF UsedInv
<1>9. CASE FrameBegins \/ EventsEnd \/ Crashes \/ UNCHANGED loopVars
  <2>1. /\ misused' = misused /\ roots' = roots /\ (phase' = phase \/ phase' \notin {"over"})
        /\ (phase # "over" \/ phase' = phase) /\ JoinedTwice' = JoinedTwice
    BY <1>9 DEF FrameBegins, EventsEnd, Crashes, loopVars, cast, JoinedTwice
  <2> QED BY <1>3, <2>1
<1> QED BY <1>4, <1>5, <1>6, <1>7, <1>8, <1>9 DEF LoopNext, LoopStep

-----------------------------------------------------------------------------
\* The whole.

LEMMA LoopInvStep ==
    ASSUME LoopInv, [LoopNext]_loopVars
    PROVE  LoopInv'
<1>1. RootsInv' /\ StackInv' /\ SceneInv' /\ RestInv'
  BY RootsInvStep, StackInvStep, SceneInvStep, RestInvStep DEF LoopInv, RootsInv
<1>2. UsedInv'
  BY <1>1, UsedInvStep DEF LoopInv
<1> QED BY <1>1, <1>2 DEF LoopInv

\* How often the board and the own pawn are in the lists the program begins with.
LEMMA FirstLists ==
    /\ <<"board">> \o <<>> = Append(<<>>, "board")
    /\ <<"board">> \o <<"local">> = Append(Append(<<>>, "board"), "local")
    /\ <<"local">> = Append(<<>>, "local")
    /\ \A x : Times(<<>>, x) = 0
    /\ \A x : Times(Append(<<>>, "board"), x) = IF x = "board" THEN 1 ELSE 0
    /\ \A x : Times(Append(<<>>, "local"), x) = IF x = "local" THEN 1 ELSE 0
    /\ \A x : Times(Append(Append(<<>>, "board"), "local"), x) = IF x \in {"board", "local"} THEN 1 ELSE 0
<1> DEFINE S == {"board", "local"}
           a == Append(<<>>, "board")
           b == Append(a, "local")
<1>1. <<>> \in Seq(S) /\ a \in Seq(S) /\ b \in Seq(S) /\ "board" \in S /\ "local" \in S /\ "board" # "local"
  OBVIOUS
<1>2. <<"board">> \o <<>> = a /\ <<"local">> = Append(<<>>, "local")
  OBVIOUS
<1>3. <<"board">> \o <<"local">> = b
  <2>1. <<"board">> \o <<"local">> = Append(<<"board">>, "local")
    BY AppendIsConcat
  <2>2. <<"board">> = a
    OBVIOUS
  <2> QED BY <2>1, <2>2
<1> HIDE DEF S
<1>4. ASSUME NEW x PROVE Times(<<>>, x) = 0
  <2>1. Times(<<>>, x) \in Nat /\ (Times(<<>>, x) > 0 <=> x \in ToSet(<<>>))
    BY <1>1, TimesFacts
  <2> QED BY <2>1, RootsLeave
<1>5. ASSUME NEW x
      PROVE  /\ Times(a, x) = IF x = "board" THEN 1 ELSE 0
             /\ Times(Append(<<>>, "local"), x) = IF x = "local" THEN 1 ELSE 0
  <2>1. ASSUME NEW e \in Seq(S), NEW y \in S PROVE Times(Append(e, y), x) = Times(e, x) + IF y = x THEN 1 ELSE 0
    BY TimesAppend
  <2>2. /\ Times(a, x) = Times(<<>>, x) + IF "board" = x THEN 1 ELSE 0
        /\ Times(Append(<<>>, "local"), x) = Times(<<>>, x) + IF "local" = x THEN 1 ELSE 0
    BY <1>1, <2>1
  <2> QED BY <1>4, <2>2
<1>6. ASSUME NEW x PROVE Times(b, x) = IF x \in {"board", "local"} THEN 1 ELSE 0
  <2> HIDE DEF a
  <2>1. Times(Append(a, "local"), x) = Times(a, x) + IF "local" = x THEN 1 ELSE 0
    BY <1>1, TimesAppend
  <2>2. Times(a, x) = IF x = "board" THEN 1 ELSE 0
    BY <1>5
  <2> QED BY <1>1, <2>1, <2>2
<1> QED BY <1>2, <1>3, <1>4, <1>5, <1>6

\* The program starts in it, with a connection and without.
LEMMA LoopInvInit ==
    ASSUME LoopInit
    PROVE  LoopInv
<1>1. PICK online \in BOOLEAN :
        /\ roots = IF online THEN <<"client", "game">> ELSE <<"game">>
        /\ link = online
        /\ players = IF online THEN <<>> ELSE <<"local">>
        /\ kids = <<"board">> \o players
        /\ joins = [p \in Pawns |-> IF ~online /\ p = "local" THEN 1 ELSE 0]
        /\ objects = {} /\ known = {} /\ quit = {}
        /\ alive = {"game", "info", "board", "local"} \cup (IF online THEN {"client"} ELSE {})
        /\ gstate = [r \in {"client", "game"} |-> "Normal"]
        /\ stack = <<F("kids", 1)>> /\ rounds = 0
        /\ hurt = FALSE /\ sender = [b \in Bullets |-> "none"]
        /\ phase = "running" /\ misused = {}
  BY Zenon DEF LoopInit
<1>2. /\ kids = IF online THEN Append(<<>>, "board") ELSE Append(Append(<<>>, "board"), "local")
      /\ players = IF online THEN <<>> ELSE Append(<<>>, "local")
  BY <1>1, FirstLists
<1>3. RootsInv /\ roots # <<>>
  BY <1>1, RootsLeave DEF RootsInv
<1>4. RestInv
  <2>1. rounds \in 0 .. MaxRounds
    BY <1>1, LoopAssumption
  <2> QED BY <1>1, <2>1 DEF RestInv
<1>5. UsedInv
  BY <1>1, <1>3 DEF UsedInv
<1>6. StackInv
  <2>1. gstate \in [{"client", "game"} -> {"Normal", "Sleeping", "Destroy"}] /\ ~Asleep
    BY <1>1 DEF Asleep
  <2>2. stack = Append(<<>>, F("kids", 1)) /\ <<>> \in SceneBases
    BY <1>1 DEF SceneBases
  <2>3. stack \in Seq(Frame) /\ stack # Listening
    <3>1. ASSUME NEW b \in SceneBases
          PROVE  Append(b, F("kids", 1)) \in Seq(Frame) /\ Append(b, F("kids", 1)) # Listening
      BY TopIs
    <3> QED BY <2>2, <3>1, Zenon
  <2> QED BY <2>1, <2>2, <2>3, BasesFacts DEF StackInv
<1>7. CastTyped
  <2>1. kids \in Seq(Scenery) /\ players \in Seq(Pawns)
    <3>1. "board" \in Scenery /\ "local" \in Scenery /\ "local" \in Pawns
      BY Kinds DEF Scenery
    <3> QED BY <1>2, <3>1
  <2>2. joins \in [Pawns -> Nat] /\ sender \in [Bullets -> Pawns \cup {"none"}]
    BY <1>1
  <2>3. alive \subseteq Objects
    BY <1>1, Kinds DEF Objects
  <2> QED BY <1>1, <2>1, <2>2, <2>3 DEF CastTyped
<1>8. CastInv
  <2>1. \A x : /\ Times(kids, x) = IF x = "board" \/ (~online /\ x = "local") THEN 1 ELSE 0
               /\ Times(players, x) = IF ~online /\ x = "local" THEN 1 ELSE 0
    BY <1>2, FirstLists
  <2>2. Dismissed = {} /\ \A p \in Pawns : Listed(p) = IF ~online /\ p = "local" THEN 1 ELSE 0
    BY <1>1 DEF Dismissed, Listed
  <2>3. \A p \in Pawns : /\ Times(kids, p) = Listed(p) /\ Times(players, p) = Listed(p)
                         /\ joins[p] > 0 => (p \in alive <=> p \notin quit)
    BY <1>1, <2>1, <2>2, Kinds
  <2>4. \A x \in Bullets \cup {"board"} : Times(kids, x) = IF x \in alive THEN 1 ELSE 0
    BY <1>1, <2>1, Kinds
  <2>5. {"game", "info", "board"} \subseteq alive /\ ("client" \in alive <=> link) /\ Bullets \cap alive \subseteq objects
    BY <1>1, Kinds
  <2> QED BY <1>1, <2>3, <2>4, <2>5 DEF CastInv
<1> QED BY <1>3, <1>4, <1>5, <1>6, <1>7, <1>8 DEF LoopInv, SceneInv

\* LoopSpec, but for its fairness.
LoopSafety == LoopInit /\ [][LoopNext]_loopVars

LEMMA LoopSafe == LoopSafety => []LoopInv
<1> QED BY LoopInvInit, LoopInvStep, PTL DEF LoopSafety

\* The lists, the living, the deleted and the stack fit together at every step of the
\* loops, for every number of players and bullets, and a death of any length.
THEOREM LoopInvariant == LoopSpec => []LoopInv
<1> QED BY LoopSafe, PTL DEF LoopSpec, LoopSafety

\* What the invariant says of the deleted.
LEMMA OnlyTheseAreMisused == LoopSafety => []UsedWhileAlive
<1>1. LoopInv => UsedWhileAlive
  BY DEF LoopInv, UsedInv, Doomed, UsedWhileAlive
<1> QED BY <1>1, LoopSafe, PTL

\* Nothing is used after it has been deleted, but a pawn that has joined twice, the own
\* pawn that a Quit deleted, and at the end of main the GameInfo; and the first and the
\* last of these always (GameState::TickAllOnce, GameState::Tick, Client::Tick, ~Client,
\* GameInfo::AddPlayer, DelPlayer, main).
THEOREM NothingElseDeletedIsUsed == LoopSpec => []UsedWhileAlive
<1> QED BY OnlyTheseAreMisused, PTL DEF LoopSpec, LoopSafety

\* What the invariant says of the lists.
LEMMA AllAreListed == LoopSafety => []AliveIsListed
<1>1. ASSUME LoopInv PROVE AliveIsListed
  <2>1. CASE roots # <<>>
    <3>1. CastInv /\ link \in BOOLEAN /\ (link <=> roots = <<"client", "game">>)
          /\ roots \in {<<"client", "game">>, <<"game">>}
      BY <1>1, <2>1 DEF LoopInv, SceneInv, RootsInv
    <3>2. {"client", "game"} \cap alive = ToSet(roots) /\ "game" \in alive
      <4>1. "game" \in alive /\ ("client" \in alive <=> link)
        BY <3>1 DEF CastInv
      <4> QED BY <3>1, <4>1, RootsLeave
    <3> QED BY <3>1, <3>2 DEF AliveIsListed, CastInv, Listed
  <2>2. CASE roots = <<>>
    <3>1. kids = <<>> /\ alive \subseteq {p \in Pawns : joins[p] = 0}
      BY <1>1, <2>2 DEF LoopInv, SceneInv, RootsInv
    <3>2. \A x \in Bullets \cup {"board", "client", "game"} : x \notin alive /\ Times(kids, x) = 0
      BY <3>1, Kinds, FirstLists
    <3> QED BY <2>2, <3>1, <3>2, RootsLeave DEF AliveIsListed
  <2> QED BY <2>1, <2>2
<1> QED BY <1>1, LoopSafe, PTL

\* Each pawn is in both lists of the scene as often as it has joined and not quit, each
\* bullet that is alive is in one, once, and what outlives the game never was in the
\* scene (AddManagedChild, RemoveChild, GameState::Tick, ~GameState, DelPlayer, OnNew).
THEOREM ListsCountTheLiving == LoopSpec => []AliveIsListed
<1> QED BY AllAreListed, PTL DEF LoopSpec, LoopSafety

\* The invariant gives the types.
LEMMA LoopTyped ==
    ASSUME LoopInv
    PROVE  LoopTypeOK
<1>1. RootsInv /\ CastTyped /\ UsedInv /\ StackInv /\ RestInv
  BY DEF LoopInv, SceneInv
<1>2. ToSet(roots) \subseteq {"client", "game"}
  BY <1>1, RootsLeave DEF RootsInv
<1>3. kids \in Seq(Objects)
  <2>1. Scenery \subseteq Objects
    BY Kinds DEF Scenery, Objects
  <2>2. Seq(Scenery) \subseteq Seq(Objects)
    BY <2>1, SeqMonotonic
  <2> QED BY <1>1, <2>2 DEF CastTyped
<1>4. misused \in SUBSET Objects
  BY <1>1, Kinds DEF UsedInv, Doomed, JoinedTwice, Objects
<1> QED BY <1>1, <1>2, <1>3, <1>4 DEF LoopTypeOK, RootsInv, CastTyped, StackInv, RestInv

LEMMA LoopStaysTyped == LoopSafety => []LoopTypeOK
<1> QED BY LoopTyped, LoopSafe, PTL

\* Every variable of the loop keeps its type: the frames of the loops that run one
\* inside another, the lists, what is alive and what is misused.
THEOREM LoopTypes == LoopSpec => []LoopTypeOK
<1> QED BY LoopStaysTyped, PTL DEF LoopSpec, LoopSafety

-----------------------------------------------------------------------------
\* FloodControl.

\* A window lets its first MSG_C + 1 messages through and counts all, so kept
\* grows with count until the limit is passed.
KeptWithCount == IF info.count <= MSG_C THEN info.kept >= info.count ELSE info.kept > MSG_C

CountersInv == FloodTypeOK /\ KeptWithCount /\ NobodyOverstays

\* The messages before those the present window has counted.
BeforeWindow == 0 .. Len(chatLog) - info.count

\* The present window is the tail of the log, and its first MSG_C + 1 messages
\* are those that were let through.  Everything before is older.
WindowInv ==
    ~setBack =>
        /\ info.timeval <= now /\ info.count <= Len(chatLog)
        /\ \A i \in DOMAIN chatLog :
            /\ chatLog[i].at <= now
            /\ i \in BeforeWindow => chatLog[i].at <= info.timeval
            /\ i \notin BeforeWindow =>
                /\ chatLog[i].at \in info.timeval .. info.timeval + MSG_S
                /\ chatLog[i].passed <=> i <= Len(chatLog) - info.count + MSG_C + 1

\* What was let through before the present window, but within MSG_S of its start.
PassedShortlyBefore ==
    {i \in Passed : i \in BeforeWindow /\ chatLog[i].at + MSG_S >= info.timeval}

\* It belongs to a single window, as windows start more than MSG_S apart.
EarlierInv == ~setBack => Cardinality(PassedShortlyBefore) <= MSG_C + 1

-----------------------------------------------------------------------------
\* A record of counters with some of them replaced.
LEMMA InfoExcept ==
    ASSUME NEW i \in Info, NEW a, NEW b, NEW c
    PROVE  /\ [i EXCEPT !.timeval = a, !.count = b] =
                [timeval |-> a, count |-> b, kept |-> i.kept, dropped |-> i.dropped]
           /\ [i EXCEPT !.count = a, !.kept = b, !.dropped = c] =
                [timeval |-> i.timeval, count |-> a, kept |-> b, dropped |-> c]
<1>1. i = [timeval |-> i.timeval, count |-> i.count, kept |-> i.kept, dropped |-> i.dropped]
  BY DEF Info
<1> DEFINE j == [i EXCEPT !.timeval = a]
           k == [i EXCEPT !.count = a]
           l == [k EXCEPT !.kept = b]
<1>2. j = [timeval |-> a, count |-> i.count, kept |-> i.kept, dropped |-> i.dropped]
  BY <1>1
<1>3. k = [timeval |-> i.timeval, count |-> a, kept |-> i.kept, dropped |-> i.dropped]
  BY <1>1
<1> HIDE DEF j, k
<1>4. l = [timeval |-> i.timeval, count |-> a, kept |-> b, dropped |-> i.dropped]
  BY <1>3
<1> HIDE DEF l
<1>5. [j EXCEPT !.count = b] = [timeval |-> a, count |-> b, kept |-> i.kept, dropped |-> i.dropped]
  BY <1>2
<1>6. [l EXCEPT !.dropped = c] = [timeval |-> i.timeval, count |-> a, kept |-> b, dropped |-> c]
  BY <1>4
<1> QED BY <1>5, <1>6 DEF j, k, l

\* Elements of the log are entries, and sets of them are finite.
LEMMA LogFacts ==
    ASSUME FloodTypeOK
    PROVE  /\ Len(chatLog) \in Nat /\ DOMAIN chatLog = 1 .. Len(chatLog)
           /\ \A i \in DOMAIN chatLog : chatLog[i].at \in Nat /\ chatLog[i].passed \in BOOLEAN
           /\ IsFiniteSet(DOMAIN chatLog)
           /\ \A T \in SUBSET DOMAIN chatLog : IsFiniteSet(T) /\ Cardinality(T) \in Nat
<1>1. chatLog \in Seq(LogEntry)
  BY DEF FloodTypeOK, LogEntry
<1>2. Len(chatLog) \in Nat /\ DOMAIN chatLog = 1 .. Len(chatLog)
  BY <1>1, LenProperties
<1>3. \A i \in DOMAIN chatLog : chatLog[i] \in LogEntry
  BY <1>1, <1>2, ElementOfSeq
<1>4. IsFiniteSet(DOMAIN chatLog)
  BY <1>2, FS_Interval
<1>5. \A T \in SUBSET DOMAIN chatLog : IsFiniteSet(T) /\ Cardinality(T) \in Nat
  BY <1>4, FS_Subset, FS_CardinalityType
<1> QED BY <1>2, <1>3, <1>4, <1>5 DEF LogEntry

\* What a message does to the log and the counters, and that a window that is not
\* renewed is not over.
LEMMA MsgFacts ==
    ASSUME FloodTypeOK, ChatterMsg
    PROVE  /\ Len(chatLog') = Len(chatLog) + 1
           /\ DOMAIN chatLog' = DOMAIN chatLog \cup {Len(chatLog) + 1}
           /\ \A i \in DOMAIN chatLog : chatLog'[i] = chatLog[i]
           /\ chatLog'[Len(chatLog) + 1].at = now
           /\ chatLog' \in Seq(LogEntry)
           /\ chatLog'[Len(chatLog) + 1].passed <=>
                info.timeval < now - MSG_S \/ info.count <= MSG_C
           /\ info.timeval < now - MSG_S =>
                info' = [timeval |-> now, count |-> 1, kept |-> info.kept + 1, dropped |-> info.dropped]
           /\ ~(info.timeval < now - MSG_S) /\ info.count <= MSG_C =>
                info' = [timeval |-> info.timeval, count |-> info.count + 1,
                         kept |-> info.kept + 1, dropped |-> info.dropped]
           /\ ~(info.timeval < now - MSG_S) /\ ~(info.count <= MSG_C) =>
                info' = [timeval |-> info.timeval, count |-> info.count + 1,
                         kept |-> info.kept, dropped |-> info.dropped + 1]
<1> DEFINE tooMany == Over(Renewed(info))
           e == [at |-> now, passed |-> ~tooMany]
<1>1. chatLog \in Seq(LogEntry) /\ e \in LogEntry /\ chatLog' = Append(chatLog, e)
  BY DEF FloodTypeOK, LogEntry, ChatterMsg
<1>2. Len(chatLog) \in Nat /\ DOMAIN chatLog = 1 .. Len(chatLog)
  BY <1>1, LenProperties
<1>3. /\ chatLog' \in Seq(LogEntry) /\ Len(chatLog') = Len(chatLog) + 1
      /\ \A i \in 1 .. Len(chatLog) : chatLog'[i] = chatLog[i]
      /\ chatLog'[Len(chatLog) + 1] = e
  BY <1>1, <1>2, AppendProperties
<1>4. DOMAIN chatLog' = 1 .. Len(chatLog) + 1
  BY <1>3, LenProperties
<1>5. info \in Info /\ MSG_C \in Nat /\ MSG_S \in Nat /\ now \in Nat
  BY FloodAssumption DEF FloodTypeOK
<1>6. /\ Len(chatLog') = Len(chatLog) + 1
      /\ DOMAIN chatLog' = DOMAIN chatLog \cup {Len(chatLog) + 1}
      /\ \A i \in DOMAIN chatLog : chatLog'[i] = chatLog[i]
      /\ chatLog'[Len(chatLog) + 1].at = now
      /\ chatLog'[Len(chatLog) + 1].passed <=> ~tooMany
      /\ chatLog' \in Seq(LogEntry)
  <2>1. e.at = now /\ (e.passed <=> ~tooMany)
    OBVIOUS
  <2> HIDE DEF e
  <2> QED BY <1>2, <1>3, <1>4, <2>1
<1>7. info' = [Renewed(info) EXCEPT !.count = @ + 1, !.kept = IF tooMany THEN @ ELSE @ + 1,
                                    !.dropped = IF tooMany THEN @ + 1 ELSE @]
  BY DEF ChatterMsg
<1> DEFINE r == Renewed(info)
<1>8. info' = [timeval |-> r.timeval, count |-> r.count + 1,
               kept |-> IF tooMany THEN r.kept ELSE r.kept + 1,
               dropped |-> IF tooMany THEN r.dropped + 1 ELSE r.dropped]
  <2>1. r \in Info
    BY <1>5, InfoExcept DEF Renewed, Info
  <2> DEFINE cnt == r.count + 1
             kpt == IF tooMany THEN r.kept ELSE r.kept + 1
             drp == IF tooMany THEN r.dropped + 1 ELSE r.dropped
  <2>2. info' = [r EXCEPT !.count = cnt, !.kept = kpt, !.dropped = drp]
    BY <1>7
  <2> HIDE DEF r, cnt, kpt, drp
  <2>3. info' = [timeval |-> r.timeval, count |-> cnt, kept |-> kpt, dropped |-> drp]
    BY <2>1, <2>2, InfoExcept
  <2> QED BY <2>3 DEF cnt, kpt, drp
<1>9. CASE info.timeval < now - MSG_S
  <2>1. r = [timeval |-> now, count |-> 0, kept |-> info.kept, dropped |-> info.dropped]
    BY <1>5, <1>9, InfoExcept DEF Renewed
  <2>2. ~tooMany
    BY <2>1, <1>5 DEF Over
  <2> HIDE DEF tooMany
  <2>3. info' = [timeval |-> now, count |-> 1, kept |-> info.kept + 1, dropped |-> info.dropped]
    BY <2>1, <2>2, <1>5, <1>8 DEF Info
  <2> QED BY <1>6, <1>9, <2>2, <2>3
<1>10. CASE ~(info.timeval < now - MSG_S)
  <2>1. Renewed(info) = info /\ (tooMany <=> ~(info.count <= MSG_C))
    BY <1>5, <1>10 DEF Renewed, Over, Info
  <2> HIDE DEF tooMany
  <2>2. CASE tooMany
    <3>1. info' = [timeval |-> info.timeval, count |-> info.count + 1,
                   kept |-> info.kept, dropped |-> info.dropped + 1]
      BY <2>1, <2>2, <1>5, <1>8 DEF Info
    <3> QED BY <1>6, <1>10, <2>1, <2>2, <3>1
  <2>3. CASE ~tooMany
    <3>1. info' = [timeval |-> info.timeval, count |-> info.count + 1,
                   kept |-> info.kept + 1, dropped |-> info.dropped]
      BY <2>1, <2>3, <1>5, <1>8 DEF Info
    <3> QED BY <1>6, <1>10, <2>1, <2>3, <3>1
  <2> QED BY <2>2, <2>3
<1> QED BY <1>9, <1>10

-----------------------------------------------------------------------------
\* New counters satisfy what the invariant says of counters.
LEMMA NewInfoFacts ==
    ASSUME NEW t \in Nat
    PROVE  /\ NewInfo(t) \in Info /\ NewInfo(t).count = 0 /\ NewInfo(t).timeval = t
           /\ NewInfo(t).kept = 0 /\ NewInfo(t).dropped = 0
           /\ <<>> \in Seq(LogEntry) /\ Len(<<>>) = 0
BY EmptySeq DEF NewInfo, Info

\* The counters are right of a user who has sent nothing.
LEMMA CountersInit == FloodInit => CountersInv
<1> SUFFICES ASSUME FloodInit PROVE CountersInv
  OBVIOUS
<1>1. FloodTypeOK
  BY NewInfoFacts DEF FloodInit, FloodTypeOK
<1>2. KeptWithCount /\ NobodyOverstays
  BY NewInfoFacts, FloodAssumption DEF FloodInit, KeptWithCount, NobodyOverstays
<1> QED BY <1>1, <1>2 DEF CountersInv

\* And every message and every second keeps them so.
LEMMA CountersStep == CountersInv /\ [FloodNext]_floodVars => CountersInv'
<1> SUFFICES ASSUME CountersInv, [FloodNext]_floodVars PROVE CountersInv'
  OBVIOUS
<1> USE FloodAssumption
<1>1. FloodTypeOK /\ KeptWithCount /\ NobodyOverstays
  BY DEF CountersInv
<1>2. CASE ChatterConnect
  <2>1. FloodTypeOK'
    BY <1>1, <1>2, NewInfoFacts DEF ChatterConnect, FloodTypeOK
  <2>2. KeptWithCount' /\ NobodyOverstays'
    BY <1>1, <1>2, NewInfoFacts DEF ChatterConnect, FloodTypeOK, KeptWithCount, NobodyOverstays
  <2> QED BY <2>1, <2>2 DEF CountersInv
<1>3. CASE ChatterDisconnect
  <2>1. FloodTypeOK'
    BY <1>1, <1>3, NewInfoFacts DEF ChatterDisconnect, FloodTypeOK
  <2>2. KeptWithCount' /\ NobodyOverstays'
    BY <1>1, <1>3, NewInfoFacts DEF ChatterDisconnect, FloodTypeOK, KeptWithCount, NobodyOverstays
  <2> QED BY <2>1, <2>2 DEF CountersInv
<1>4. CASE ChatterMsg
  <2>1. FloodTypeOK /\ info \in Info /\ chatter = "online" /\ MSG_C \in Nat /\ now \in Nat
    BY <1>4 DEF CountersInv, FloodTypeOK, ChatterMsg
  <2>2. KeptWithCount /\ 2 * info.dropped <= 3 * info.kept /\ (info.dropped > 0 => info.kept > MSG_C)
    BY <2>1 DEF CountersInv, NobodyOverstays
  <2>3. /\ chatter' \in {"online", "booted"} /\ now' = now /\ setBack' = setBack
        /\ chatter' = "booted" => 2 * info'.dropped > 3 * info'.kept
        /\ chatter' = "online" =>
             \/ ~Over(Renewed(info))
             \/ ~(2 * info'.dropped > 3 * info'.kept)
    BY <1>4 DEF ChatterMsg, Excess
  <2>4. CASE info.timeval < now - MSG_S
    <3>1. info' = [timeval |-> now, count |-> 1, kept |-> info.kept + 1, dropped |-> info.dropped]
      BY <2>1, <2>4, <1>4, MsgFacts
    <3>2. info' \in Info /\ KeptWithCount' /\ NobodyOverstays'
      BY <2>1, <2>2, <2>3, <3>1 DEF Info, KeptWithCount, NobodyOverstays
    <3> QED BY <3>2, <2>1, <2>3, <1>4, MsgFacts DEF CountersInv, FloodTypeOK
  <2>5. CASE ~(info.timeval < now - MSG_S) /\ info.count <= MSG_C
    <3>1. info' = [timeval |-> info.timeval, count |-> info.count + 1,
                   kept |-> info.kept + 1, dropped |-> info.dropped]
      BY <2>1, <2>5, <1>4, MsgFacts
    <3>2. info' \in Info /\ KeptWithCount' /\ NobodyOverstays'
      BY <2>1, <2>2, <2>3, <2>5, <3>1 DEF Info, KeptWithCount, NobodyOverstays
    <3> QED BY <3>2, <2>1, <2>3, <1>4, MsgFacts DEF CountersInv, FloodTypeOK
  <2>6. CASE ~(info.timeval < now - MSG_S) /\ ~(info.count <= MSG_C)
    <3>1. info' = [timeval |-> info.timeval, count |-> info.count + 1,
                   kept |-> info.kept, dropped |-> info.dropped + 1]
      BY <2>1, <2>6, <1>4, MsgFacts
    <3>2. Over(Renewed(info))
      BY <2>1, <2>6 DEF Over, Renewed, Info
    <3>3. info' \in Info /\ KeptWithCount' /\ NobodyOverstays'
      BY <2>1, <2>2, <2>3, <2>6, <3>1, <3>2 DEF Info, KeptWithCount, NobodyOverstays
    <3> QED BY <3>3, <2>1, <2>3, <1>4, MsgFacts DEF CountersInv, FloodTypeOK
  <2> QED BY <2>4, <2>5, <2>6
<1>5. CASE Second
  BY <1>5 DEF Second, CountersInv, FloodTypeOK, KeptWithCount, NobodyOverstays
<1>6. CASE SetBack
  BY <1>6 DEF SetBack, CountersInv, FloodTypeOK, KeptWithCount, NobodyOverstays
<1>7. CASE UNCHANGED floodVars
  BY <1>7 DEF floodVars, CountersInv, FloodTypeOK, KeptWithCount, NobodyOverstays
<1> QED BY <1>2, <1>3, <1>4, <1>5, <1>6, <1>7 DEF FloodNext

\* The counters keep their types, no user stays who should have been booted, none
\* is booted who should stay, and kept is not 0 when it is divided by (Server::OnMsg).
THEOREM CountersCorrect == FloodSpec => [](FloodTypeOK /\ NobodyOverstays)
<1>1. CountersInv => FloodTypeOK /\ NobodyOverstays
  BY DEF CountersInv
<1> QED BY <1>1, CountersInit, CountersStep, PTL DEF FloodSpec

-----------------------------------------------------------------------------
\* The messages let through since the window began are the ones counted.
LEMMA WindowStep ==
    ASSUME FloodTypeOK, WindowInv, [FloodNext]_floodVars
    PROVE  WindowInv'
<1> SUFFICES ASSUME ~setBack' PROVE WindowInv'
  BY DEF WindowInv
<1> USE FloodAssumption
<1>1. info \in Info /\ now \in Nat /\ setBack \in BOOLEAN
  BY DEF FloodTypeOK
<1>2. CASE ChatterConnect
  <2>1. chatLog' = <<>> /\ info' = NewInfo(now) /\ now' = now
    BY <1>2 DEF ChatterConnect
  <2> QED BY <1>1, <2>1, NewInfoFacts DEF WindowInv
<1>3. CASE ChatterDisconnect
  <2>1. chatLog' = <<>> /\ info' = NewInfo(0) /\ now' = now
    BY <1>3 DEF ChatterDisconnect
  <2> QED BY <1>1, <2>1, NewInfoFacts DEF WindowInv
<1>4. CASE ChatterMsg
  <2> DEFINE n == Len(chatLog)
  <2>1. ~setBack /\ now' = now
    BY <1>4 DEF ChatterMsg
  <2>2. /\ info.timeval <= now /\ info.count <= n
        /\ \A i \in DOMAIN chatLog :
            /\ chatLog[i].at <= now
            /\ i \in BeforeWindow => chatLog[i].at <= info.timeval
            /\ i \notin BeforeWindow =>
                /\ chatLog[i].at \in info.timeval .. info.timeval + MSG_S
                /\ chatLog[i].passed <=> i <= n - info.count + MSG_C + 1
    BY <2>1 DEF WindowInv
  <2>3. /\ n \in Nat /\ DOMAIN chatLog = 1 .. n
        /\ \A i \in DOMAIN chatLog : chatLog[i].at \in Nat /\ chatLog[i].passed \in BOOLEAN
    BY LogFacts
  <2>4. /\ Len(chatLog') = n + 1 /\ DOMAIN chatLog' = DOMAIN chatLog \cup {n + 1}
        /\ \A i \in DOMAIN chatLog : chatLog'[i] = chatLog[i]
        /\ chatLog'[n + 1].at = now
        /\ chatLog'[n + 1].passed <=> info.timeval < now - MSG_S \/ info.count <= MSG_C
    BY <1>4, MsgFacts
  <2>5. /\ info.timeval < now - MSG_S => info'.timeval = now /\ info'.count = 1
        /\ ~(info.timeval < now - MSG_S) =>
             info'.timeval = info.timeval /\ info'.count = info.count + 1
    BY <1>4, MsgFacts
  <2> HIDE DEF n
  <2>6. CASE info.timeval < now - MSG_S
    <3>1. BeforeWindow' = 0 .. n
      BY <2>3, <2>4, <2>5, <2>6 DEF BeforeWindow
    <3>2. ASSUME NEW i \in DOMAIN chatLog'
          PROVE  /\ chatLog'[i].at <= now
                 /\ i \in 0 .. n => chatLog'[i].at <= now
                 /\ i \notin 0 .. n => /\ chatLog'[i].at \in now .. now + MSG_S
                                       /\ chatLog'[i].passed <=> i <= n + 1 - 1 + MSG_C + 1
      <4>1. CASE i \in DOMAIN chatLog
        BY <2>2, <2>3, <2>4, <4>1
      <4>2. CASE i = n + 1
        <5>1. i \notin 0 .. n /\ now \in now .. now + MSG_S /\ i <= n + 1 - 1 + MSG_C + 1
          BY <1>1, <2>3, <4>2
        <5> QED BY <1>1, <2>4, <2>5, <2>6, <4>2, <5>1
      <4> QED BY <2>4, <4>1, <4>2
    <3> QED BY <1>1, <2>1, <2>3, <2>4, <2>5, <2>6, <3>1, <3>2 DEF WindowInv
  <2>7. CASE ~(info.timeval < now - MSG_S)
    <3>1. BeforeWindow' = BeforeWindow /\ BeforeWindow = 0 .. n - info.count
      <4>1. n + 1 - (info.count + 1) = n - info.count
        BY <1>1, <2>3 DEF Info
      <4>2. BeforeWindow' = 0 .. (n + 1) - (info.count + 1)
        BY <2>4, <2>5, <2>7 DEF BeforeWindow
      <4>3. BeforeWindow = 0 .. n - info.count
        BY DEF BeforeWindow, n
      <4> QED BY <1>1, <2>3, <4>1, <4>2, <4>3 DEF Info
    <3>2. /\ info'.timeval = info.timeval
          /\ Len(chatLog') - info'.count + MSG_C + 1 = n - info.count + MSG_C + 1
      BY <1>1, <2>3, <2>4, <2>5, <2>7 DEF Info
    <3>3. ASSUME NEW i \in DOMAIN chatLog'
          PROVE  /\ chatLog'[i].at <= now
                 /\ i \in BeforeWindow => chatLog'[i].at <= info.timeval
                 /\ i \notin BeforeWindow =>
                        /\ chatLog'[i].at \in info.timeval .. info.timeval + MSG_S
                        /\ chatLog'[i].passed <=> i <= n - info.count + MSG_C + 1
      <4>1. CASE i \in DOMAIN chatLog
        BY <2>2, <2>4, <4>1
      <4>2. CASE i = n + 1
        <5>1. i \notin BeforeWindow /\ now \in info.timeval .. info.timeval + MSG_S
          BY <1>1, <2>2, <2>3, <2>5, <2>7, <3>1, <4>2 DEF Info
        <5>2. info.count <= MSG_C <=> n + 1 <= n - info.count + MSG_C + 1
          BY <1>1, <2>3 DEF Info
        <5> QED BY <1>1, <2>4, <2>5, <2>7, <4>2, <5>1, <5>2
      <4> QED BY <2>4, <4>1, <4>2
    <3>4. info.timeval <= now /\ info'.count <= Len(chatLog')
      BY <1>1, <2>2, <2>3, <2>4, <2>5, <2>7 DEF Info
    <3> QED BY <2>1, <3>1, <3>2, <3>3, <3>4 DEF WindowInv
  <2> QED BY <2>6, <2>7
<1>5. CASE Second
  <2>1. /\ chatLog' = chatLog /\ info' = info /\ ~setBack /\ now <= now'
        /\ BeforeWindow' = BeforeWindow
    BY <1>1, <1>5 DEF Second, BeforeWindow
  <2>2. \A i \in DOMAIN chatLog : chatLog[i].at \in Nat
    BY LogFacts
  <2> QED BY <1>1, <1>5, <2>1, <2>2 DEF Second, WindowInv, Info
<1>6. CASE SetBack
  BY <1>6 DEF SetBack
<1>7. CASE UNCHANGED floodVars
  BY <1>7 DEF floodVars, WindowInv, BeforeWindow
<1> QED BY <1>2, <1>3, <1>4, <1>5, <1>6, <1>7 DEF FloodNext

\* Nothing is let through before the first message.
LEMMA WindowInit == FloodInit => FloodTypeOK /\ WindowInv /\ EarlierInv
<1> SUFFICES ASSUME FloodInit PROVE FloodTypeOK /\ WindowInv /\ EarlierInv
  OBVIOUS
<1>1. FloodTypeOK
  BY CountersInit DEF CountersInv
<1>2. info.timeval = 0 /\ info.count = 0 /\ now = 0 /\ DOMAIN chatLog = {} /\ Len(chatLog) = 0
  BY <1>1, NewInfoFacts, LogFacts DEF FloodInit
<1>3. WindowInv
  BY <1>2 DEF WindowInv
<1>4. PassedShortlyBefore = {}
  BY <1>2 DEF PassedShortlyBefore, Passed
<1>5. EarlierInv
  BY <1>4, FS_EmptySet, FloodAssumption DEF EarlierInv
<1> QED BY <1>1, <1>3, <1>5

\* Those let through shortly before the window began are those of a single window.
LEMMA EarlierStep ==
    ASSUME FloodTypeOK, FloodTypeOK', WindowInv, WindowInv', EarlierInv, [FloodNext]_floodVars
    PROVE  EarlierInv'
<1> SUFFICES ASSUME ~setBack' PROVE Cardinality(PassedShortlyBefore') <= MSG_C + 1
  BY DEF EarlierInv
<1> USE FloodAssumption
<1>1. info \in Info /\ info' \in Info /\ now \in Nat
  BY DEF FloodTypeOK
<1>2. /\ Len(chatLog) \in Nat /\ DOMAIN chatLog = 1 .. Len(chatLog)
      /\ \A i \in DOMAIN chatLog : chatLog[i].at \in Nat /\ chatLog[i].passed \in BOOLEAN
      /\ \A T \in SUBSET DOMAIN chatLog : IsFiniteSet(T) /\ Cardinality(T) \in Nat
  BY LogFacts
<1>3. CASE ChatterConnect \/ ChatterDisconnect
  <2>1. chatLog' = <<>>
    BY <1>3 DEF ChatterConnect, ChatterDisconnect
  <2>2. PassedShortlyBefore' = {}
    BY <2>1 DEF PassedShortlyBefore, Passed
  <2> QED BY <2>2, FS_EmptySet
<1>4. CASE ChatterMsg
  <2> DEFINE n == Len(chatLog)
  <2>1. ~setBack /\ now' = now
    BY <1>4 DEF ChatterMsg
  <2>2. /\ Len(chatLog') = n + 1 /\ DOMAIN chatLog' = DOMAIN chatLog \cup {n + 1}
        /\ \A i \in DOMAIN chatLog : chatLog'[i] = chatLog[i]
    BY <1>4, MsgFacts
  <2>3. /\ info.timeval < now - MSG_S => info'.timeval = now /\ info'.count = 1
        /\ ~(info.timeval < now - MSG_S) =>
             info'.timeval = info.timeval /\ info'.count = info.count + 1
    BY <1>4, MsgFacts
  <2>4. CASE info.timeval < now - MSG_S
    <3> DEFINE a == n - info.count + 1
               b == n - info.count + MSG_C + 1
    <3>1. ASSUME NEW i \in PassedShortlyBefore' PROVE i \in a .. b
      <4>1. i \in DOMAIN chatLog' /\ i \in 0 .. n /\ chatLog'[i].passed /\ chatLog'[i].at + MSG_S >= now
        <5>1. n + 1 - 1 = n
          BY <1>2
        <5> QED BY <2>2, <2>3, <2>4, <5>1 DEF PassedShortlyBefore, BeforeWindow, Passed
      <4>2. i \in DOMAIN chatLog /\ chatLog[i].passed /\ chatLog[i].at + MSG_S >= now
        BY <1>2, <2>2, <4>1
      <4>3. i \notin BeforeWindow
        BY <1>1, <1>2, <2>1, <2>4, <4>2 DEF WindowInv, Info
      <4>4. i <= b
        BY <2>1, <4>2, <4>3 DEF WindowInv
      <4> QED BY <1>1, <1>2, <4>2, <4>3, <4>4 DEF BeforeWindow, Info
    <3>2. a \in Int /\ b \in Int /\ b - a + 1 = MSG_C + 1 /\ ~(a > b)
      BY <1>1, <1>2, SMTT(30) DEF Info
    <3> HIDE DEF a, b
    <3>3. IsFiniteSet(a .. b) /\ Cardinality(a .. b) = MSG_C + 1
      BY <3>2, FS_Interval
    <3>4. PassedShortlyBefore' \subseteq a .. b
      BY <3>1
    <3> QED BY <3>3, <3>4, FS_Subset
  <2>5. CASE ~(info.timeval < now - MSG_S)
    <3>1. PassedShortlyBefore' = PassedShortlyBefore
      <4>1. n + 1 - (info.count + 1) = n - info.count
        BY <1>1, <1>2 DEF Info
      <4>2. BeforeWindow' = 0 .. (n + 1) - (info.count + 1)
        BY <2>2, <2>3, <2>5 DEF BeforeWindow
      <4>3. BeforeWindow = 0 .. n - info.count
        BY DEF BeforeWindow
      <4>4. BeforeWindow' = BeforeWindow /\ n + 1 \notin BeforeWindow
        BY <1>1, <1>2, <4>1, <4>2, <4>3 DEF Info
      <4> QED BY <2>2, <2>3, <2>5, <4>4 DEF PassedShortlyBefore, Passed
    <3> QED BY <2>1, <3>1 DEF EarlierInv
  <2> QED BY <2>4, <2>5
<1>5. CASE Second
  BY <1>5 DEF Second, EarlierInv, PassedShortlyBefore, Passed, BeforeWindow
<1>6. CASE SetBack
  BY <1>6 DEF SetBack
<1>7. CASE UNCHANGED floodVars
  BY <1>7 DEF floodVars, EarlierInv, PassedShortlyBefore, Passed, BeforeWindow
<1> QED BY <1>3, <1>4, <1>5, <1>6, <1>7 DEF FloodNext

-----------------------------------------------------------------------------
\* A user within the limit is not refused.
LEMMA PoliteStep ==
    ASSUME FloodTypeOK, FloodTypeOK', WindowInv, PolitePasses, [FloodNext]_floodVars
    PROVE  PolitePasses'
<1> USE FloodAssumption
<1> SUFFICES ASSUME ~setBack',
                    \A t \in 0 .. now' : Cardinality(InSpan(t, t + MSG_S)') <= MSG_C + 1
             PROVE  Passed' = DOMAIN chatLog'
  BY DEF PolitePasses
<1>1. info \in Info /\ now \in Nat
  BY DEF FloodTypeOK
<1>2. CASE ChatterConnect \/ ChatterDisconnect
  <2>1. chatLog' = <<>>
    BY <1>2 DEF ChatterConnect, ChatterDisconnect
  <2> QED BY <2>1 DEF Passed
<1>3. CASE ChatterMsg
  <2> DEFINE n == Len(chatLog)
  <2>1. ~setBack /\ now' = now
    BY <1>3 DEF ChatterMsg
  <2>2. /\ Len(chatLog') = n + 1 /\ DOMAIN chatLog' = DOMAIN chatLog \cup {n + 1}
        /\ \A i \in DOMAIN chatLog : chatLog'[i] = chatLog[i]
        /\ chatLog'[n + 1].at = now
        /\ chatLog'[n + 1].passed <=> info.timeval < now - MSG_S \/ info.count <= MSG_C
    BY <1>3, MsgFacts
  <2>3. n \in Nat /\ DOMAIN chatLog = 1 .. n
    BY LogFacts
  <2>4. \A T \in SUBSET DOMAIN chatLog' : IsFiniteSet(T) /\ Cardinality(T) \in Nat
    <3>1. IsFiniteSet(DOMAIN chatLog')
      <4>1. IsFiniteSet(1 .. n)
        BY <2>3, FS_Interval
      <4>2. IsFiniteSet((1 .. n) \cup {n + 1})
        BY <4>1, FS_AddElement
      <4> QED BY <2>2, <2>3, <4>2
    <3> QED BY <3>1, FS_Subset, FS_CardinalityType
  <2>5. \A t \in 0 .. now : Cardinality(InSpan(t, t + MSG_S)) <= MSG_C + 1
    <3> TAKE t \in 0 .. now
    <3>1. InSpan(t, t + MSG_S) \subseteq InSpan(t, t + MSG_S)'
      BY <2>2 DEF InSpan
    <3>2. InSpan(t, t + MSG_S)' \subseteq DOMAIN chatLog'
      BY DEF InSpan
    <3>3. Cardinality(InSpan(t, t + MSG_S)) <= Cardinality(InSpan(t, t + MSG_S)')
      BY <2>4, <3>1, <3>2, FS_Subset
    <3>4. Cardinality(InSpan(t, t + MSG_S)) \in Nat /\ Cardinality(InSpan(t, t + MSG_S)') \in Nat
      BY <2>4, <3>1, <3>2
    <3>5. Cardinality(InSpan(t, t + MSG_S)') <= MSG_C + 1
      BY <2>1 DEF InSpan
    <3> QED BY <3>3, <3>4, <3>5
  <2>6. Passed = DOMAIN chatLog
    BY <2>1, <2>5 DEF PolitePasses
  <2>7. info.timeval < now - MSG_S \/ info.count <= MSG_C
    <3> SUFFICES ASSUME ~(info.timeval < now - MSG_S), info.count > MSG_C PROVE FALSE
      BY <1>1 DEF Info
    <3> DEFINE a == n - info.count + 1
    <3>1. PICK t \in 0 .. now : t = info.timeval /\ now \in t .. t + MSG_S
      BY <1>1, <2>1 DEF WindowInv, Info
    <3>0. info.count <= n
      BY <2>1 DEF WindowInv
    <3>2. a .. n + 1 \subseteq InSpan(t, t + MSG_S)'
      <4> SUFFICES ASSUME NEW i \in a .. n + 1
                   PROVE  i \in DOMAIN chatLog' /\ chatLog'[i].at \in t .. t + MSG_S
        BY DEF InSpan
      <4>1. CASE i = n + 1
        BY <2>2, <3>1, <4>1
      <4>2. CASE i # n + 1
        <5>1. i \in DOMAIN chatLog /\ i \notin BeforeWindow
          BY <1>1, <2>3, <3>0, <4>2 DEF BeforeWindow, Info
        <5> QED BY <2>1, <2>2, <3>1, <5>1 DEF WindowInv
      <4> QED BY <4>1, <4>2
    <3>3. InSpan(t, t + MSG_S)' \subseteq DOMAIN chatLog'
      BY DEF InSpan
    <3>4. a \in Int /\ n + 1 \in Int /\ n + 1 - a + 1 > MSG_C + 1 /\ ~(a > n + 1)
      BY <1>1, <2>3 DEF Info
    <3>5. Cardinality(a .. n + 1) = n + 1 - a + 1
      BY <3>4, FS_Interval, SMTT(30)
    <3>6. Cardinality(a .. n + 1) <= Cardinality(InSpan(t, t + MSG_S)')
      BY <2>4, <3>2, <3>3, FS_Subset
    <3>7. Cardinality(InSpan(t, t + MSG_S)') \in Nat /\ Cardinality(InSpan(t, t + MSG_S)') <= MSG_C + 1
      BY <2>1, <2>4, <3>3 DEF InSpan
    <3> HIDE DEF a
    <3> QED BY <2>3, <3>4, <3>5, <3>6, <3>7
  <2> QED BY <2>2, <2>6, <2>7 DEF Passed
<1>4. CASE Second
  <2>1. now' = now + 1 /\ UNCHANGED <<setBack, chatLog>>
    BY <1>4 DEF Second
  <2>2. \A t \in 0 .. now : Cardinality(InSpan(t, t + MSG_S)) <= MSG_C + 1
    BY <1>1, <2>1 DEF InSpan
  <2> QED BY <2>1, <2>2 DEF PolitePasses, Passed
<1>5. CASE SetBack
  BY <1>5 DEF SetBack
<1>6. CASE UNCHANGED floodVars
  BY <1>6 DEF floodVars, PolitePasses, Passed, InSpan
<1> QED BY <1>2, <1>3, <1>4, <1>5, <1>6 DEF FloodNext

\* What was let through in a span that reaches into the present window.
TwoWindows ==
    ~setBack => \A t \in 0 .. now : t + MSG_S >= info.timeval =>
        Cardinality(InSpan(t, t + MSG_S) \cap Passed) <= 2 * (MSG_C + 1)

\* Hence a span of one window holds no more than two of them let through.
LEMMA SpanOfTwoWindows == FloodTypeOK /\ WindowInv /\ EarlierInv => TwoWindows
<1> USE FloodAssumption
<1> SUFFICES ASSUME FloodTypeOK, WindowInv, EarlierInv, ~setBack,
                    NEW t \in 0 .. now, t + MSG_S >= info.timeval
             PROVE  Cardinality(InSpan(t, t + MSG_S) \cap Passed) <= 2 * (MSG_C + 1)
  BY DEF TwoWindows
<1> DEFINE n == Len(chatLog)
           a == n - info.count + 1
           b == n - info.count + MSG_C + 1
           X == InSpan(t, t + MSG_S) \cap Passed
           Y == PassedShortlyBefore
<1>1. info \in Info /\ n \in Nat /\ DOMAIN chatLog = 1 .. n
  BY LogFacts DEF FloodTypeOK
<1>2. \A i \in DOMAIN chatLog : chatLog[i].at \in Nat
  BY LogFacts
<1>3. a \in Int /\ b \in Int /\ b - a + 1 = MSG_C + 1 /\ ~(a > b) /\ info.count <= n
  BY <1>1, SMTT(30) DEF Info, WindowInv
<1>4. X \subseteq Y \cup (a .. b)
  <2> SUFFICES ASSUME NEW i \in X PROVE i \in Y \/ i \in a .. b
    OBVIOUS
  <2>1. i \in DOMAIN chatLog /\ chatLog[i].passed /\ chatLog[i].at >= t /\ i \in Passed
    BY <1>2 DEF InSpan, Passed
  <2>2. CASE i \in BeforeWindow
    <3>1. chatLog[i].at + MSG_S >= info.timeval
      BY <1>1, <1>2, <2>1 DEF Info
    <3> QED BY <2>1, <2>2, <3>1 DEF PassedShortlyBefore
  <2>3. CASE i \notin BeforeWindow
    <3>1. i <= b
      BY <2>1, <2>3 DEF WindowInv
    <3>2. i \in 1 .. n /\ ~(i <= n - info.count)
      BY <1>1, <2>1, <2>3 DEF BeforeWindow, Info
    <3> HIDE DEF X, Y, n
    <3>3. i >= a
      BY <1>1, <3>2 DEF Info
    <3> QED BY <1>3, <3>1, <3>2, <3>3
  <2> QED BY <2>2, <2>3
<1>5. IsFiniteSet(a .. b) /\ Cardinality(a .. b) = MSG_C + 1
  BY <1>3, FS_Interval
<1>6. IsFiniteSet(Y) /\ Cardinality(Y) \in Nat /\ Cardinality(Y) <= MSG_C + 1
  <2>1. Y \subseteq DOMAIN chatLog
    BY DEF PassedShortlyBefore, Passed
  <2> QED BY <2>1, LogFacts DEF EarlierInv
<1> HIDE DEF a, b, X, Y
<1>7. /\ IsFiniteSet(Y \cup (a .. b))
      /\ Cardinality(Y \cup (a .. b)) =
            Cardinality(Y) + Cardinality(a .. b) - Cardinality(Y \cap (a .. b))
  BY <1>5, <1>6, FS_Union
<1>8. Cardinality(Y \cap (a .. b)) \in Nat
  BY <1>6, FS_Subset, FS_CardinalityType
<1>9. Cardinality(X) \in Nat /\ Cardinality(X) <= Cardinality(Y \cup (a .. b))
  BY <1>4, <1>7, FS_Subset, FS_CardinalityType
<1>10. Cardinality(X) <= 2 * (MSG_C + 1)
  BY <1>5, <1>6, <1>7, <1>8, <1>9
<1> QED BY <1>10 DEF X

\* And that is the bound of what passes in any span.
LEMMA BurstStep ==
    ASSUME FloodTypeOK, FloodTypeOK', WindowInv, WindowInv', TwoWindows', BurstBound,
           [FloodNext]_floodVars
    PROVE  BurstBound'
<1> USE FloodAssumption
<1> SUFFICES ASSUME ~setBack', NEW t \in 0 .. now'
             PROVE  Cardinality((InSpan(t, t + MSG_S) \cap Passed)') <= 2 * (MSG_C + 1)
  BY DEF BurstBound
<1>1. info \in Info /\ info' \in Info /\ now \in Nat /\ now' \in Nat
  BY DEF FloodTypeOK
<1>2. CASE t + MSG_S >= info'.timeval
  BY <1>2 DEF TwoWindows
<1>3. CASE ~(t + MSG_S >= info'.timeval)
  <2>1. t + MSG_S < info'.timeval /\ info'.timeval <= now'
    BY <1>1, <1>3 DEF WindowInv, Info
  <2>2. CASE ChatterConnect \/ ChatterDisconnect
    <3>1. chatLog' = <<>>
      BY <2>2 DEF ChatterConnect, ChatterDisconnect
    <3>2. (InSpan(t, t + MSG_S) \cap Passed)' = {}
      BY <3>1 DEF Passed
    <3> QED BY <3>2, FS_EmptySet
  <2>3. CASE ChatterMsg
    <3>1. now' = now /\ ~setBack
      BY <2>3 DEF ChatterMsg
    <3>2. (InSpan(t, t + MSG_S) \cap Passed)' = InSpan(t, t + MSG_S) \cap Passed
      <4>1. /\ DOMAIN chatLog' = DOMAIN chatLog \cup {Len(chatLog) + 1}
            /\ \A i \in DOMAIN chatLog : chatLog'[i] = chatLog[i]
            /\ chatLog'[Len(chatLog) + 1].at = now
        BY <2>3, MsgFacts
      <4>2. now \notin t .. t + MSG_S
        BY <1>1, <2>1, <3>1 DEF Info
      <4> QED BY <4>1, <4>2 DEF InSpan, Passed
    <3> QED BY <3>1, <3>2 DEF BurstBound
  <2>4. CASE Second
    <3>1. t \in 0 .. now /\ UNCHANGED <<setBack, info, chatLog>>
      BY <1>1, <2>1, <2>4 DEF Second, WindowInv, Info
    <3> QED BY <3>1 DEF BurstBound, InSpan, Passed
  <2>5. CASE SetBack
    BY <2>5 DEF SetBack
  <2>6. CASE UNCHANGED floodVars
    BY <2>6 DEF floodVars, BurstBound, Passed, InSpan
  <2> QED BY <2>2, <2>3, <2>4, <2>5, <2>6 DEF FloodNext
<1> QED BY <1>2, <1>3

\* With a clock that does not step back nobody who keeps to the limit loses a
\* message, and nobody gets more than two windows' worth through in the time of
\* one (Server::OnMsg).
THEOREM LimitCorrect == FloodSpec => [](PolitePasses /\ BurstBound)
<1> DEFINE LimitInv == CountersInv /\ WindowInv /\ EarlierInv
<1>1. FloodInit => LimitInv /\ PolitePasses /\ BurstBound
  <2> SUFFICES ASSUME FloodInit PROVE PolitePasses /\ BurstBound
    BY CountersInit, WindowInit
  <2>1. DOMAIN chatLog = {}
    BY DEF FloodInit
  <2>2. Passed = {} /\ \A t \in 0 .. now : InSpan(t, t + MSG_S) \cap Passed = {}
    BY <2>1 DEF Passed
  <2> QED BY <2>1, <2>2, FS_EmptySet, FloodAssumption DEF PolitePasses, BurstBound
<1>2. LimitInv /\ [FloodNext]_floodVars => LimitInv'
  <2> SUFFICES ASSUME LimitInv, [FloodNext]_floodVars PROVE LimitInv'
    OBVIOUS
  <2>1. CountersInv' /\ FloodTypeOK /\ FloodTypeOK'
    BY CountersStep DEF CountersInv
  <2>2. WindowInv'
    BY <2>1, WindowStep
  <2> QED BY <2>1, <2>2, EarlierStep
<1>3. LimitInv => TwoWindows
  BY SpanOfTwoWindows DEF CountersInv
<1>4. LimitInv /\ LimitInv' /\ PolitePasses /\ [FloodNext]_floodVars => PolitePasses'
  BY PoliteStep DEF CountersInv
<1>5. LimitInv /\ LimitInv' /\ TwoWindows' /\ BurstBound /\ [FloodNext]_floodVars => BurstBound'
  BY BurstStep DEF CountersInv
<1> HIDE DEF LimitInv
<1> QED BY <1>1, <1>2, <1>3, <1>4, <1>5, PTL DEF FloodSpec

\* A user that keeps to the limit loses no message (Server::OnMsg).
THEOREM PoliteLoseNothing == FloodSpec => []PolitePasses
<1> QED BY LimitCorrect, PTL
==============================================================================
