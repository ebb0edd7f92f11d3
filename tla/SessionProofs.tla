----------------------------- MODULE SessionProofs -----------------------------
(***************************************************************************)
(* Theorems about Session for any finite set of clients, each of which may *)
(* move, shoot, chat, leave or vanish whenever the code lets it.           *)
(***************************************************************************)
EXTENDS Session, SequenceLemmas, FiniteSetTheorems, TLAPS

-----------------------------------------------------------------------------
(* The inductive invariant.                                                *)

\* A client that has connected stays in the list at least until its connection
\* is lost, its number is never taken back, and the server tells of users only.
UsersInv ==
    /\ Distinct(users)
    /\ \A u \in Users : pnum[u] # 0
    /\ linked \subseteq Users /\ registered \subseteq Users /\ registered \subseteq introduced
    /\ introduced \cap Users \subseteq registered
    /\ \A c \in Clients : /\ pnum[c] # 0 => client[c].state # "idle"
                          /\ c \in introduced => pnum[c] # 0
                          /\ c \notin linked => announced[c] = {}
                          /\ \A u \in announced[c] : pnum[u] # 0

\* What each channel carries.
Kinds(ch) == IF ch = "CSystem" THEN {"Reg", "New", "Quit", "Boot"}
             ELSE {"Join", "State", "Upd", "Shoot", "Msg"}

MailOK(ch, s) == s \in Seq(Message) /\ \A m \in ToSet(s) : m.kind \in Kinds(ch)

Mailbox == {box \in [Channels -> Seq(Message)] : \A ch \in Channels : MailOK(ch, box[ch])}

\* The client k, whose number on the server is n, takes no other player for its
\* own, and only the own pawn of its map is in its scene.
SelfOK(k, n) ==
    /\ \A i \in Numbers : k.players[i] = Local => i = n /\ k.num = n /\ n # 0
    /\ Local \in ToSet(k.scene) => k.players[n] = Local
    /\ k.scene # <<>> => k.state = "running"

\* A confirmation on its way tells its client the number the server has given
\* it; who has its own pawn, or has moved or shot, has been registered.
PlayInv ==
    \A c \in Clients :
        /\ SelfOK(client[c], pnum[c])
        /\ \A m \in ToSet(inbox[c]["CSystem"]) :
              m.kind = "Reg" => m.num = pnum[c] /\ c \in introduced
        /\ client[c].players[pnum[c]] = Local => c \in introduced
        /\ pending[c] \cap {"Upd", "Shoot"} # {} => c \in introduced

\* The client k with the number n and the system messages S has a pawn for the
\* number i, or will make one: the New comes after the confirmation, before
\* which a New may be taken for one of the client itself.
Knows(k, n, S, i) ==
    \/ k.players[n] = Local /\ k.players[i] # NULL
    \/ \E j \in 1 .. Len(S) :
         /\ S[j] = M("New", i)
         /\ \/ k.players[n] = Local
            \/ \E h \in 1 .. (j - 1) : S[h].kind = "Reg"

\* As long as nobody has left, nothing but confirmations and News is sent, every
\* running player knows or will know itself and whom it was told of, and the game messages
\* are about players the client was told of or who have registered.
TalkInv ==
    NobodyLeft =>
        \A c \in Clients :
            /\ \A m \in ToSet(inbox[c]["CSystem"]) : m.kind \in {"Reg", "New"}
            /\ (c \in registered /\ Running(c)) =>
                  \A u \in announced[c] \cup {c} :
                      Knows(client[c], pnum[c], inbox[c]["CSystem"], pnum[u])
            /\ \A m \in ToSet(inbox[c]["CGame"]) :
                  \E u \in introduced \cup announced[c] : m.num = pnum[u]

MailInv == inbox \in [Clients -> Mailbox]

-----------------------------------------------------------------------------
(* The helpers, on values.                                                 *)

\* The number of users is a number, and what an unset variable holds is one.
LEMMA NumbersFacts ==
    /\ Cardinality(Clients) \in Nat /\ Numbers \subseteq Nat /\ 0 \in Numbers
    /\ Garbage \subseteq Numbers
BY ClientsAssumption, GarbageAssumption, FS_CardinalityType DEF Numbers

\* Who is not in a list without repetitions can still be appended to it.
LEMMA RoomForOne ==
    ASSUME NEW s \in Seq(Clients), Distinct(s), NEW c \in Clients, c \notin ToSet(s)
    PROVE  Len(s) + 1 \in Numbers /\ Len(s) + 1 # 0
<1>1. IsFiniteSet(ToSet(s)) /\ Cardinality(ToSet(s)) = Len(s) /\ Len(s) \in Nat
  BY DistinctCardinality, LenProperties
<1>2. ToSet(s) \subseteq Clients
  BY ElementOfSeq, LenProperties DEF ToSet
<1>3. Cardinality(ToSet(s) \cup {c}) = Len(s) + 1
  BY <1>1, FS_AddElement
<1>4. Cardinality(ToSet(s) \cup {c}) <= Cardinality(Clients)
  BY <1>2, ClientsAssumption, FS_Subset
<1> QED BY <1>1, <1>3, <1>4, NumbersFacts DEF Numbers

\* A pawn that is made is neither the own pawn nor no pawn: some serial other
\* than theirs is always left.
LEMMA NewPawnFacts ==
    ASSUME NEW k \in Client, NEW id \in Numbers
    PROVE  NewPawn(k, id) \in Pawn /\ NewPawn(k, id) # Local /\ NewPawn(k, id) # NULL
<1> DEFINE L == Len(k.scene)
           used == {p.serial : p \in ToSet(k.scene)}
           free == (1 .. L + 1) \ used
           f == [i \in 1 .. L |-> k.scene[i].serial]
<1>1. k.scene \in Seq(Pawn) /\ L \in Nat /\ DOMAIN k.scene = 1 .. L
  BY LenProperties DEF Client
<1>2. used = {k.scene[i].serial : i \in 1 .. L}
  BY <1>1 DEF ToSet
<1>3. IsFiniteSet(1 .. L) /\ Cardinality(1 .. L) = L
  BY <1>1, FS_Interval
<1>4. f \in Surjection(1 .. L, used)
  BY <1>2 DEF Surjection
<1> HIDE DEF used
<1>5. IsFiniteSet(used) /\ Cardinality(used) <= L /\ Cardinality(used) \in Nat
  BY <1>3, <1>4, FS_Surjection, FS_CardinalityType
<1>6. Cardinality(1 .. L + 1) = L + 1
  BY <1>1, FS_Interval
<1>7. free # {}
  <2>1. SUFFICES ASSUME (1 .. L + 1) \subseteq used PROVE FALSE
    OBVIOUS
  <2> QED BY <2>1, <1>1, <1>5, <1>6, FS_Subset
<1>8. free \in SUBSET Nat /\ \A n \in free : n >= 1
  BY <1>1
<1>9. Min(free) \in free
  BY <1>7, <1>8, MinFacts
<1>10. NewPawn(k, id) = [num |-> id, serial |-> Min(free)]
  BY DEF NewPawn, used
<1> HIDE DEF free
<1>11. PICK n \in Nat : n >= 1 /\ NewPawn(k, id) = [num |-> id, serial |-> n]
  BY <1>8, <1>9, <1>10
<1>12. id \in Nat
  BY NumbersFacts
<1>13. [num |-> id, serial |-> n] \in Pawn
  BY <1>11, <1>12 DEF Pawn
<1>14. [num |-> id, serial |-> n].serial # 0 /\ Local.serial = 0 /\ NULL.serial = 0
  BY <1>11 DEF Local, NULL
<1> QED BY <1>11, <1>13, <1>14

\* A client is the record of its fields.
LEMMA ClientRecord ==
    ASSUME NEW k \in Client
    PROVE  k = [state |-> k.state, num |-> k.num, players |-> k.players,
                scene |-> k.scene, orphan |-> k.orphan]
BY DEF Client

\* What one field that is set makes of a client.
LEMMA OneField ==
    ASSUME NEW k \in Client, NEW a
    PROVE  /\ [k EXCEPT !.state = a] =
                [state |-> a, num |-> k.num, players |-> k.players, scene |-> k.scene, orphan |-> k.orphan]
           /\ [k EXCEPT !.num = a] =
                [state |-> k.state, num |-> a, players |-> k.players, scene |-> k.scene, orphan |-> k.orphan]
           /\ [k EXCEPT !.scene = a] =
                [state |-> k.state, num |-> k.num, players |-> k.players, scene |-> a, orphan |-> k.orphan]
           /\ [k EXCEPT !.orphan = a] =
                [state |-> k.state, num |-> k.num, players |-> k.players, scene |-> k.scene, orphan |-> a]
BY ClientRecord

\* What a pawn entered into the map makes of a client.
LEMMA PlayerSet ==
    ASSUME NEW k \in Client, NEW id \in Numbers, NEW p \in Pawn
    PROVE  /\ [k EXCEPT !.players[id] = p] =
                [state |-> k.state, num |-> k.num, players |-> [k.players EXCEPT ![id] = p],
                 scene |-> k.scene, orphan |-> k.orphan]
           /\ [k EXCEPT !.players[id] = p] \in Client
<1>1. [k EXCEPT !.players[id] = p] =
        [state |-> k.state, num |-> k.num, players |-> [k.players EXCEPT ![id] = p],
         scene |-> k.scene, orphan |-> k.orphan]
  BY ClientRecord
<1>2. [k.players EXCEPT ![id] = p] \in [Numbers -> Pawn]
  BY DEF Client
<1>3. k.state \in {"idle", "running", "gone", "broken"} /\ k.num \in Numbers
      /\ k.scene \in Seq(Pawn) /\ k.orphan \in BOOLEAN
  BY DEF Client
<1> QED BY <1>1, <1>2, <1>3 DEF Client

\* A client that has ended has no players and no scene.
LEMMA EndedFacts ==
    ASSUME NEW s \in {"idle", "running", "gone", "broken"}, Cardinality(Clients) >= 1
    PROVE  /\ Ended(s) \in Client /\ Ended(s).state = s
           /\ Ended(s).players = [n \in Numbers |-> NULL] /\ Ended(s).scene = <<>>
<1>1. NULL \in Pawn /\ <<>> \in Seq(Pawn) /\ 1 \in Numbers
  BY NumbersFacts DEF NULL, Pawn, Numbers
<1>2. NewClient \in Client
  BY <1>1 DEF NewClient, Client
<1>3. Ended(s) = [state |-> s, num |-> 1, players |-> [n \in Numbers |-> NULL],
                  scene |-> <<>>, orphan |-> FALSE]
  <2>1. [NewClient EXCEPT !.state = s] =
          [state |-> s, num |-> NewClient.num, players |-> NewClient.players,
           scene |-> NewClient.scene, orphan |-> NewClient.orphan]
    BY <1>2, OneField
  <2>2. /\ NewClient.num = 1 /\ NewClient.players = [n \in Numbers |-> NULL]
        /\ NewClient.scene = <<>> /\ NewClient.orphan = FALSE
    BY DEF NewClient
  <2> QED BY <2>1, <2>2 DEF Ended
<1> QED BY <1>1, <1>3 DEF Client

-----------------------------------------------------------------------------
(* The handlers of the client, on values.                                  *)

\* OnNew makes a pawn for the number unless it is the client's own.
LEMMA OnNewFacts ==
    ASSUME NEW k \in Client, NEW id \in Numbers
    PROVE  LET r == OnNew(k, id) IN
           /\ r \in Client /\ r.state = k.state /\ r.num = k.num /\ r.scene = k.scene
           /\ \A i \in Numbers : i # id \/ id = k.num => r.players[i] = k.players[i]
           /\ id # k.num => r.players[id] # Local /\ r.players[id] # NULL
<1>1. CASE id = k.num
  BY <1>1 DEF OnNew
<1>2. CASE id # k.num
  <2> DEFINE p == NewPawn(k, id)
             r == [k EXCEPT !.players[id] = p]
  <2>1. p \in Pawn /\ p # Local /\ p # NULL
    BY NewPawnFacts
  <2> HIDE DEF p
  <2>2. r \in Client /\ r = [state |-> k.state, num |-> k.num, players |-> [k.players EXCEPT ![id] = p],
                             scene |-> k.scene, orphan |-> k.orphan]
    BY <2>1, PlayerSet
  <2>3. OnNew(k, id) = r
    BY <1>2 DEF OnNew, p
  <2> HIDE DEF r
  <2>4. k.players \in [Numbers -> Pawn]
    BY DEF Client
  <2> QED BY <1>2, <2>1, <2>2, <2>3, <2>4
<1> QED BY <1>1, <1>2

\* OnRegisterConfirm enters the own pawn under the number it was sent.
LEMMA OnRegisterConfirmFacts ==
    ASSUME NEW k \in Client, NEW id \in Numbers, Local \in Pawn
    PROVE  LET r == OnRegisterConfirm(k, id) IN
           /\ r \in Client /\ r.state = k.state /\ r.num = id /\ r.scene = k.scene
           /\ r.players = [k.players EXCEPT ![id] = Local]
<1> DEFINE t == [k EXCEPT !.num = id]
<1>1. t = [state |-> k.state, num |-> id, players |-> k.players, scene |-> k.scene, orphan |-> k.orphan]
  BY OneField
<1>2. t \in Client
  BY <1>1 DEF Client
<1> HIDE DEF t
<1>3. /\ [t EXCEPT !.players[id] = Local] \in Client
      /\ [t EXCEPT !.players[id] = Local] =
           [state |-> t.state, num |-> t.num, players |-> [t.players EXCEPT ![id] = Local],
            scene |-> t.scene, orphan |-> t.orphan]
  BY <1>2, PlayerSet
<1>4. OnRegisterConfirm(k, id) = [t EXCEPT !.players[id] = Local]
  BY DEF OnRegisterConfirm, t
<1> QED BY <1>1, <1>3, <1>4

\* OnQuit breaks the client, or takes one pawn out of its map and its scene, but
\* never the own pawn out of the scene.
LEMMA OnQuitFacts ==
    ASSUME NEW k \in Client, NEW id \in Numbers, NULL \in Pawn
    PROVE  LET r == OnQuit(k, id) IN
           \/ r = Broken
           \/ /\ r \in Client /\ r.state = k.state /\ r.num = k.num
              /\ ToSet(r.scene) \subseteq ToSet(k.scene)
              /\ k.players[id] = Local => Local \notin ToSet(r.scene)
              /\ r.players = [k.players EXCEPT ![id] = NULL]
<1> DEFINE p == k.players[id]
           rest == RemoveFirst(k.scene, p)
           t == [k EXCEPT !.scene = rest]
<1>1. k.scene \in Seq(Pawn) /\ k.players \in [Numbers -> Pawn]
  BY DEF Client
<1>2. rest \in Seq(Pawn) /\ ToSet(rest) \subseteq ToSet(k.scene)
  BY <1>1, RemoveFirstFacts
<1> HIDE DEF rest
<1>3. t = [state |-> k.state, num |-> k.num, players |-> k.players, scene |-> rest, orphan |-> k.orphan]
  BY OneField
<1>4. t \in Client
  BY <1>2, <1>3 DEF Client
<1> HIDE DEF t
<1>5. /\ [t EXCEPT !.players[id] = NULL] \in Client
      /\ [t EXCEPT !.players[id] = NULL] =
           [state |-> t.state, num |-> t.num, players |-> [t.players EXCEPT ![id] = NULL],
            scene |-> t.scene, orphan |-> t.orphan]
  BY <1>4, PlayerSet
<1>6. \/ OnQuit(k, id) = Broken
      \/ /\ OnQuit(k, id) = [t EXCEPT !.players[id] = NULL]
         /\ ~(p = Local /\ p \in ToSet(k.scene))
  BY DEF OnQuit, t, rest
<1> QED BY <1>2, <1>3, <1>5, <1>6

\* OnJoin breaks the client, or puts a pawn of its map into the scene.
LEMMA OnJoinFacts ==
    ASSUME NEW k \in Client, NEW id \in Numbers
    PROVE  LET r == OnJoin(k, id) IN
           \/ r = Broken
           \/ /\ r \in Client /\ r.state = k.state /\ r.num = k.num /\ r.players = k.players
              /\ ToSet(r.scene) = ToSet(k.scene) \cup {k.players[id]}
<1>1. CASE k.players[id] = NULL
  BY <1>1 DEF OnJoin
<1>2. CASE k.players[id] # NULL
  <2> DEFINE p == k.players[id]
             next == Append(k.scene, p)
  <2>1. k.scene \in Seq(Pawn) /\ p \in Pawn
    BY DEF Client
  <2>2. next \in Seq(Pawn) /\ ToSet(next) = ToSet(k.scene) \cup {p}
    BY <2>1, ToSetFacts, AppendProperties
  <2>3. OnJoin(k, id) = [k EXCEPT !.scene = next]
    BY <1>2 DEF OnJoin
  <2> HIDE DEF next
  <2>4. [k EXCEPT !.scene = next] =
          [state |-> k.state, num |-> k.num, players |-> k.players, scene |-> next, orphan |-> k.orphan]
    BY OneField
  <2>5. [k EXCEPT !.scene = next] \in Client
    BY <2>2, <2>4 DEF Client
  <2> QED BY <2>2, <2>3, <2>4, <2>5
<1> QED BY <1>1, <1>2

\* The other handlers of game messages break the client or leave its players and
\* its scene alone.
LEMMA OnUpdateFacts ==
    ASSUME NEW k \in Client, NEW id \in Numbers
    PROVE  /\ OnUpdate(k, id) \in {k, Broken}
           /\ LET r == OnBulletShoot(k, id) IN
              /\ r \in Client /\ r.state = k.state /\ r.num = k.num
              /\ r.players = k.players /\ r.scene = k.scene
<1> DEFINE o == (k.orphan \/ k.players[id] = NULL)
           t == [k EXCEPT !.orphan = o]
<1>1. OnUpdate(k, id) \in {k, Broken}
  BY DEF OnUpdate
<1>2. o \in BOOLEAN
  OBVIOUS
<1>3. OnBulletShoot(k, id) = t
  BY DEF OnBulletShoot
<1> HIDE DEF o
<1>4. t = [state |-> k.state, num |-> k.num, players |-> k.players, scene |-> k.scene, orphan |-> o]
  BY OneField
<1>5. t \in Client
  BY <1>2, <1>4 DEF Client
<1> QED BY <1>1, <1>3, <1>4, <1>5

\* What a handler makes of the running client k, whose number is n: it ends
\* broken, with nothing left, or is still itself.
Follows(k, r, n) ==
    /\ r \in Client /\ SelfOK(r, n)
    /\ r.state \in {"running", "broken"}
    /\ r.state = "broken" => r = Broken

\* A broken client has nobody.
LEMMA BrokenFollows ==
    ASSUME NEW k \in Client, NEW n \in Numbers, Cardinality(Clients) >= 1
    PROVE  Follows(k, Broken, n) /\ Broken.state = "broken" /\ Broken.players[n] # Local
<1>1. /\ Broken \in Client /\ Broken.state = "broken"
      /\ Broken.players = [i \in Numbers |-> NULL] /\ Broken.scene = <<>>
  BY EndedFacts DEF Broken
<1>2. NULL # Local
  BY DEF NULL, Local
<1>3. Broken.players[n] = NULL /\ \A i \in Numbers : Broken.players[i] = NULL
  BY <1>1
<1>4. Local \notin ToSet(Broken.scene)
  BY <1>1 DEF ToSet
<1> QED BY <1>1, <1>2, <1>3, <1>4 DEF Follows, SelfOK

\* New: nothing happens to the own pawn, and the others stay.
LEMMA NewFollows ==
    ASSUME NEW k \in Client, NEW id \in Numbers, NEW n \in Numbers,
           SelfOK(k, n), k.state = "running"
    PROVE  LET r == OnNew(k, id) IN
           /\ Follows(k, r, n) /\ r.state = "running"
           /\ r.players[n] = Local <=> k.players[n] = Local
           /\ \A i \in Numbers : k.players[i] # NULL => r.players[i] # NULL
           /\ k.players[n] = Local => r.players[id] # NULL
<1> DEFINE r == OnNew(k, id)
<1>1. /\ r \in Client /\ r.state = k.state /\ r.num = k.num /\ r.scene = k.scene
      /\ \A i \in Numbers : i # id \/ id = k.num => r.players[i] = k.players[i]
      /\ id # k.num => r.players[id] # Local /\ r.players[id] # NULL
  BY OnNewFacts
<1> HIDE DEF r
<1>2. Local # NULL
  BY DEF Local, NULL
<1>3. k.players[n] = Local => n = k.num
  BY DEF SelfOK
<1>4. r.players[n] = Local <=> k.players[n] = Local
  BY <1>1, <1>3
<1>5. \A i \in Numbers : r.players[i] = Local => i = n /\ r.num = n /\ n # 0
  BY <1>1 DEF SelfOK
<1>6. Local \in ToSet(r.scene) => r.players[n] = Local
  BY <1>1, <1>4 DEF SelfOK
<1>7. SelfOK(r, n)
  BY <1>1, <1>5, <1>6 DEF SelfOK
<1>8. \A i \in Numbers : k.players[i] # NULL => r.players[i] # NULL
  BY <1>1
<1>9. k.players[n] = Local => r.players[id] # NULL
  BY <1>1, <1>2, <1>3
<1> QED BY <1>1, <1>4, <1>7, <1>8, <1>9 DEF Follows, r

\* A confirmation enters the own pawn under the own number, over a pawn of another
\* player that may have been there.
LEMMA ConfirmFollows ==
    ASSUME NEW k \in Client, NEW n \in Numbers, n # 0, SelfOK(k, n), k.state = "running"
    PROVE  LET r == OnRegisterConfirm(k, n) IN
           /\ Follows(k, r, n) /\ r.state = "running" /\ r.players[n] = Local
           /\ \A i \in Numbers : k.players[i] # NULL => r.players[i] # NULL
<1> DEFINE r == OnRegisterConfirm(k, n)
<1>1. Local \in Pawn /\ Local # NULL
  BY DEF Local, NULL, Pawn
<1>2. /\ r \in Client /\ r.state = k.state /\ r.num = n /\ r.scene = k.scene
      /\ r.players = [k.players EXCEPT ![n] = Local]
  BY <1>1, OnRegisterConfirmFacts
<1> HIDE DEF r
<1>3. k.players \in [Numbers -> Pawn]
  BY DEF Client
<1>4. r.players[n] = Local /\ \A i \in Numbers : i # n => r.players[i] = k.players[i]
  BY <1>2, <1>3
<1>5. SelfOK(r, n)
  BY <1>2, <1>4 DEF SelfOK
<1>6. \A i \in Numbers : k.players[i] # NULL => r.players[i] # NULL
  BY <1>1, <1>4
<1> QED BY <1>2, <1>4, <1>5, <1>6 DEF Follows, r

\* Quit takes the own pawn out of the map only when it is not in the scene.
LEMMA QuitFollows ==
    ASSUME NEW k \in Client, NEW id \in Numbers, NEW n \in Numbers,
           SelfOK(k, n), k.state = "running", Cardinality(Clients) >= 1
    PROVE  LET r == OnQuit(k, id) IN
           /\ Follows(k, r, n)
           /\ r.players[n] = Local => k.players[n] = Local
<1> DEFINE r == OnQuit(k, id)
<1>1. NULL \in Pawn /\ NULL # Local
  BY DEF NULL, Local, Pawn
<1>2. CASE r = Broken
  BY <1>2, BrokenFollows
<1>3. CASE /\ r \in Client /\ r.state = k.state /\ r.num = k.num
           /\ ToSet(r.scene) \subseteq ToSet(k.scene)
           /\ k.players[id] = Local => Local \notin ToSet(r.scene)
           /\ r.players = [k.players EXCEPT ![id] = NULL]
  <2> HIDE DEF r
  <2>1. k.players \in [Numbers -> Pawn]
    BY DEF Client
  <2>2. r.players[id] = NULL /\ \A i \in Numbers : i # id => r.players[i] = k.players[i]
    BY <1>3, <2>1
  <2>3. \A i \in Numbers : r.players[i] = Local => k.players[i] = Local
    BY <1>1, <2>2
  <2>4. \A i \in Numbers : r.players[i] = Local => i = n /\ r.num = n /\ n # 0
    BY <1>3, <2>3 DEF SelfOK
  <2>5. ASSUME Local \in ToSet(r.scene) PROVE r.players[n] = Local
    <3>1. k.players[n] = Local /\ k.players[id] # Local
      BY <1>3, <2>5 DEF SelfOK
    <3> QED BY <3>1, <2>2
  <2>6. SelfOK(r, n)
    BY <1>3, <2>4, <2>5 DEF SelfOK
  <2> QED BY <1>3, <2>3, <2>6 DEF Follows, r
<1> QED BY <1>1, <1>2, <1>3, OnQuitFacts

\* Every system message, whatever the handlers read out of used-up packets.
LEMMA HandleSystemFollows ==
    ASSUME NEW k \in Client, NEW m \in Message, m.kind \in Kinds("CSystem"), NEW g \in Garbage,
           NEW n \in Numbers, SelfOK(k, n), k.state = "running", Cardinality(Clients) >= 1,
           m.kind = "Reg" => m.num = n /\ n # 0
    PROVE  LET r == HandleSystem(k, m, g) IN
           /\ Follows(k, r, n)
           /\ r.players[n] = Local => k.players[n] = Local \/ m.kind = "Reg"
           /\ m.kind \in {"Reg", "New"} =>
                /\ r.state = "running"
                /\ \A i \in Numbers : k.players[i] # NULL => r.players[i] # NULL
                /\ k.players[n] = Local \/ m.kind = "Reg" => r.players[n] = Local
                /\ m.kind = "New" /\ k.players[n] = Local => r.players[m.num] # NULL
<1> DEFINE r == HandleSystem(k, m, g)
<1>1. m.num \in Numbers /\ g \in Numbers
  BY NumbersFacts DEF Message
<1>2. CASE m.kind = "Reg"
  <2> DEFINE t == OnRegisterConfirm(k, n)
  <2>1. /\ Follows(k, t, n) /\ t.state = "running" /\ t.players[n] = Local
        /\ \A i \in Numbers : k.players[i] # NULL => t.players[i] # NULL
    BY <1>2, ConfirmFollows
  <2>2. r = OnNew(t, g)
    BY <1>2 DEF HandleSystem
  <2> HIDE DEF t, r
  <2>3. /\ Follows(t, r, n) /\ r.state = "running"
        /\ r.players[n] = Local <=> t.players[n] = Local
        /\ \A i \in Numbers : t.players[i] # NULL => r.players[i] # NULL
    BY <1>1, <2>1, <2>2, NewFollows DEF Follows
  <2> QED BY <1>2, <2>1, <2>3 DEF Follows, r
<1>3. CASE m.kind = "New"
  <2>1. r = OnNew(k, m.num)
    BY <1>3 DEF HandleSystem
  <2> HIDE DEF r
  <2>2. /\ Follows(k, r, n) /\ r.state = "running"
        /\ r.players[n] = Local <=> k.players[n] = Local
        /\ \A i \in Numbers : k.players[i] # NULL => r.players[i] # NULL
        /\ k.players[n] = Local => r.players[m.num] # NULL
    BY <1>1, <2>1, NewFollows
  <2> QED BY <1>3, <2>2 DEF r
<1>4. CASE m.kind = "Boot"
  <2>1. r = OnNew(k, g)
    BY <1>4 DEF HandleSystem
  <2> HIDE DEF r
  <2>2. Follows(k, r, n) /\ (r.players[n] = Local <=> k.players[n] = Local)
    BY <1>1, <2>1, NewFollows
  <2> QED BY <1>4, <2>2 DEF r
<1>5. CASE m.kind = "Quit"
  <2> DEFINE t == OnNew(k, m.num)
  <2>1. /\ Follows(k, t, n) /\ t.state = "running"
        /\ t.players[n] = Local <=> k.players[n] = Local
    BY <1>1, NewFollows
  <2>2. r = OnQuit(t, g)
    BY <1>5 DEF HandleSystem
  <2> HIDE DEF t, r
  <2>3. Follows(t, r, n) /\ (r.players[n] = Local => t.players[n] = Local)
    BY <1>1, <2>1, <2>2, QuitFollows DEF Follows
  <2> QED BY <1>5, <2>1, <2>3 DEF Follows, r
<1> QED BY <1>2, <1>3, <1>4, <1>5 DEF Kinds

\* Every game message.
LEMMA HandleGameFollows ==
    ASSUME NEW k \in Client, NEW m \in Message, m.kind \in Kinds("CGame"),
           NEW n \in Numbers, SelfOK(k, n), k.state = "running", Cardinality(Clients) >= 1
    PROVE  LET r == HandleGame(k, m) IN
           /\ Follows(k, r, n)
           /\ r.state # "broken" => r.players = k.players
           /\ r.players[n] = Local => k.players[n] = Local
<1> DEFINE r == HandleGame(k, m)
<1>1. m.num \in Numbers
  BY DEF Message
<1>2. Follows(k, k, n)
  BY DEF Follows
<1>3. CASE r \in {k, Broken}
  <2>1. /\ Follows(k, Broken, n) /\ Broken.state = "broken" /\ Broken.players[n] # Local
    BY BrokenFollows
  <2> HIDE DEF r
  <2> QED BY <1>2, <1>3, <2>1 DEF r
<1>4. ASSUME r \in Client, r.state = k.state, r.num = k.num, r.players = k.players,
             ToSet(r.scene) \subseteq ToSet(k.scene) \cup {k.players[m.num]}
      PROVE  Follows(k, r, n) /\ r.players = k.players
  <2> HIDE DEF r
  <2>1. Local \in ToSet(r.scene) => k.players[n] = Local
    BY <1>1, <1>4 DEF SelfOK
  <2>2. SelfOK(r, n)
    BY <1>4, <2>1 DEF SelfOK
  <2> QED BY <1>4, <2>2 DEF Follows
<1>5. CASE m.kind = "Join"
  <2>1. r = OnJoin(k, m.num)
    BY <1>5 DEF HandleGame
  <2> QED BY <1>1, <1>3, <1>4, <2>1, OnJoinFacts
<1>6. CASE m.kind \in {"Upd", "State", "Msg"}
  <2>1. r = OnUpdate(k, m.num)
    BY <1>6 DEF HandleGame
  <2> QED BY <1>1, <1>3, <2>1, OnUpdateFacts
<1>7. CASE m.kind = "Shoot"
  <2>1. r = OnBulletShoot(k, m.num)
    BY <1>7 DEF HandleGame
  <2> QED BY <1>1, <1>4, <2>1, OnUpdateFacts
<1> QED BY <1>5, <1>6, <1>7 DEF Kinds

-----------------------------------------------------------------------------
(* The packets.                                                            *)

\* Packets of a channel put together, or taken off its head, are packets of it.
LEMMA MailFacts ==
    ASSUME NEW ch, NEW s, MailOK(ch, s)
    PROVE  /\ \A t : MailOK(ch, t) => MailOK(ch, s \o t)
           /\ s # <<>> => /\ MailOK(ch, Tail(s)) /\ ToSet(Tail(s)) \subseteq ToSet(s)
                          /\ Head(s) \in Message /\ Head(s).kind \in Kinds(ch) /\ Head(s) \in ToSet(s)
<1>1. s \in Seq(Message) /\ \A m \in ToSet(s) : m.kind \in Kinds(ch)
  BY DEF MailOK
<1>2. ASSUME NEW t, MailOK(ch, t) PROVE MailOK(ch, s \o t)
  <2>1. t \in Seq(Message) /\ \A m \in ToSet(t) : m.kind \in Kinds(ch)
    BY <1>2 DEF MailOK
  <2>2. s \o t \in Seq(Message) /\ ToSet(s \o t) = ToSet(s) \cup ToSet(t)
    BY <1>1, <2>1, ConcatToSet
  <2> QED BY <1>1, <2>1, <2>2 DEF MailOK
<1>3. ASSUME s # <<>>
      PROVE  /\ MailOK(ch, Tail(s)) /\ ToSet(Tail(s)) \subseteq ToSet(s)
             /\ Head(s) \in Message /\ Head(s).kind \in Kinds(ch) /\ Head(s) \in ToSet(s)
  <2>1. ToSet(s) = ToSet(Tail(s)) \cup {Head(s)}
    BY <1>1, <1>3, ToSetFacts
  <2>2. Tail(s) \in Seq(Message) /\ Head(s) \in Message
    BY <1>1, <1>3, HeadTailProperties
  <2> QED BY <1>1, <2>1, <2>2 DEF MailOK
<1> QED BY <1>2, <1>3

\* A packet alone, and no packet.
LEMMA OnePacket ==
    ASSUME NEW ch, NEW m \in Message, m.kind \in Kinds(ch)
    PROVE  MailOK(ch, <<m>>) /\ MailOK(ch, <<>>) /\ ToSet(<<m>>) = {m}
<1>1. <<>> \in Seq(Message) /\ ToSet(<<>>) = {}
  BY DEF ToSet
<1>2. <<m>> \in Seq(Message) /\ ToSet(<<m>>) = {m}
  BY DEF ToSet
<1> QED BY <1>1, <1>2 DEF MailOK

\* The mailbox of d before and after the packets ms are sent on a channel: they
\* are appended if the client runs and its connection is up.
Delivered(d, before, after, ch, ms) ==
    /\ after \in Mailbox
    /\ after[ch] = IF d \in linked /\ Running(d) THEN before[ch] \o ms ELSE before[ch]
    /\ \A x \in Channels : x # ch => after[x] = before[x]

\* What is sent is delivered.
LEMMA SentTo ==
    ASSUME NEW box \in [Clients -> Mailbox], NEW ch \in Channels, NEW packets,
           NEW d \in Clients, MailOK(ch, packets[d])
    PROVE  Delivered(d, box[d], Sent(box, ch, packets)[d], ch, packets[d])
<1>1. CASE ~(d \in linked /\ Running(d))
  <2>1. Sent(box, ch, packets)[d] = box[d] /\ box[d] \in Mailbox
    BY <1>1 DEF Sent
  <2> QED BY <1>1, <2>1 DEF Delivered
<1>2. CASE d \in linked /\ Running(d)
  <2> DEFINE s == box[d][ch] \o packets[d]
             b == [box[d] EXCEPT ![ch] = s]
  <2>1. Sent(box, ch, packets)[d] = b
    BY <1>2 DEF Sent
  <2>2. box[d] \in [Channels -> Seq(Message)] /\ \A x \in Channels : MailOK(x, box[d][x])
    BY DEF Mailbox
  <2>3. MailOK(ch, s)
    BY <2>2, MailFacts
  <2> HIDE DEF s
  <2>4. s \in Seq(Message)
    BY <2>3 DEF MailOK
  <2>5. /\ b \in [Channels -> Seq(Message)] /\ b[ch] = s
        /\ \A x \in Channels : x # ch => b[x] = box[d][x]
    BY <2>2, <2>4
  <2> HIDE DEF b
  <2>6. \A x \in Channels : MailOK(x, b[x])
    BY <2>2, <2>3, <2>5
  <2>7. b \in Mailbox
    BY <2>5, <2>6 DEF Mailbox
  <2> QED BY <1>2, <2>1, <2>5, <2>7 DEF s, Delivered
<1> QED BY <1>1, <1>2

\* What is sent leaves all mailboxes mailboxes.
LEMMA SentType ==
    ASSUME NEW box \in [Clients -> Mailbox], NEW ch \in Channels, NEW packets,
           \A d \in Clients : MailOK(ch, packets[d])
    PROVE  Sent(box, ch, packets) \in [Clients -> Mailbox]
<1>1. \A d \in Clients : Sent(box, ch, packets)[d] \in Mailbox
  BY SentTo DEF Delivered
<1>2. Sent(box, ch, packets) = [d \in Clients |-> Sent(box, ch, packets)[d]]
  BY DEF Sent
<1> QED BY <1>1, <1>2

\* The listing has a message of every kind for each of the others, and no more.
LEMMA ListingFacts ==
    ASSUME users \in Seq(Clients), pnum \in [Clients -> Numbers], NEW c \in Clients,
           NEW K, NEW kinds \in Seq(K), \A x \in K, n \in Numbers : M(x, n) \in Message
    PROVE  /\ Listing(c, kinds) \in Seq(Message)
           /\ ToSet(Listing(c, kinds)) =
                {M(x, pnum[u]) : x \in ToSet(kinds), u \in Others(c)}
<1> DEFINE piece(u) == [j \in 1 .. Len(kinds) |-> M(kinds[j], pnum[u])]
           part(i) == IF users[i] \in Others(c) THEN piece(users[i]) ELSE <<>>
           ss == [i \in 1 .. Len(users) |-> part(i)]
<1>1. Len(kinds) \in Nat /\ DOMAIN kinds = 1 .. Len(kinds) /\ Len(users) \in Nat
      /\ DOMAIN users = 1 .. Len(users)
      /\ (\A j \in 1 .. Len(kinds) : kinds[j] \in K) /\ \A i \in 1 .. Len(users) : users[i] \in Clients
  BY LenProperties, ElementOfSeq
<1>2. ASSUME NEW u \in Clients
      PROVE  /\ piece(u) \in Seq(Message)
             /\ ToSet(piece(u)) = {M(x, pnum[u]) : x \in ToSet(kinds)}
  <2>1. piece(u) \in [1 .. Len(kinds) -> Message]
    BY <1>1
  <2>2. piece(u) \in Seq(Message)
    BY <1>1, <2>1, IsASeq
  <2>3. ToSet(piece(u)) = {M(kinds[j], pnum[u]) : j \in 1 .. Len(kinds)}
    BY DEF ToSet
  <2>4. ToSet(kinds) = {kinds[j] : j \in 1 .. Len(kinds)}
    BY <1>1 DEF ToSet
  <2> HIDE DEF piece
  <2> QED BY <2>2, <2>3, <2>4
<1>3. ASSUME NEW i \in 1 .. Len(users)
      PROVE  /\ part(i) \in Seq(Message)
             /\ ToSet(part(i)) = {M(x, pnum[u]) : x \in ToSet(kinds), u \in Others(c) \cap {users[i]}}
  <2>1. CASE users[i] \in Others(c)
    <3>1. part(i) = piece(users[i]) /\ users[i] \in Clients
      BY <1>1, <2>1
    <3> HIDE DEF piece, part
    <3> QED BY <1>2, <2>1, <3>1
  <2>2. CASE users[i] \notin Others(c)
    <3>1. <<>> \in Seq(Message) /\ ToSet(<<>>) = {}
      BY DEF ToSet
    <3>2. part(i) = <<>>
      BY <2>2
    <3> HIDE DEF part
    <3> QED BY <2>2, <3>1, <3>2
  <2> HIDE DEF part
  <2> QED BY <2>1, <2>2
<1> HIDE DEF part
<1>4. ss \in Seq(Seq(Message)) /\ Len(ss) = Len(users) /\ \A i \in 1 .. Len(users) : ss[i] = part(i)
  <2>1. ss \in [1 .. Len(users) -> Seq(Message)]
    BY <1>3
  <2> QED BY <1>1, <2>1, IsASeq, LenProperties
<1>5. Listing(c, kinds) = FlattenSeq(ss)
  BY DEF Listing, part
<1> HIDE DEF ss
<1>6. /\ FlattenSeq(ss) \in Seq(Message)
      /\ ToSet(FlattenSeq(ss)) = UNION {ToSet(ss[i]) : i \in 1 .. Len(ss)}
  BY <1>4, FlattenSeqFacts
<1>7. Others(c) \subseteq {users[i] : i \in 1 .. Len(users)}
  BY <1>1 DEF Others, ToSet
<1> DEFINE told(U) == {M(x, pnum[u]) : x \in ToSet(kinds), u \in U}
<1>8. \A i \in 1 .. Len(users) : ToSet(ss[i]) = told(Others(c) \cap {users[i]})
  BY <1>3, <1>4
<1>9. \A i \in 1 .. Len(users) : told(Others(c) \cap {users[i]}) \subseteq told(Others(c))
  OBVIOUS
<1>10. ASSUME NEW m \in told(Others(c))
       PROVE  \E i \in 1 .. Len(users) : m \in told(Others(c) \cap {users[i]})
  BY <1>7
<1> HIDE DEF told
<1>11. UNION {ToSet(ss[i]) : i \in 1 .. Len(ss)} = told(Others(c))
  BY <1>4, <1>8, <1>9, <1>10
<1>12. ToSet(Listing(c, kinds)) = told(Others(c)) /\ Listing(c, kinds) \in Seq(Message)
  BY <1>5, <1>6, <1>11
<1> QED BY <1>12 DEF told

-----------------------------------------------------------------------------
(* The user list: what the server knows and has told.                      *)

ServerTypes ==
    /\ users \in Seq(Clients)
    /\ linked \in SUBSET Clients /\ registered \in SUBSET Clients
    /\ pnum \in [Clients -> Numbers]
    /\ announced \in [Clients -> SUBSET Clients] /\ introduced \in SUBSET Clients

ServerInv == ServerTypes /\ UsersInv /\ GoneIsAnnounced /\ Acquainted

\* A client that connects is appended under a number that is not 0.
LEMMA ConnectServer ==
    ASSUME ServerInv, NEW c \in Clients, ServerConnect(c)
    PROVE  ServerInv'
<1> USE DEF ServerInv
<1>1. /\ client[c].state # "idle" /\ pnum[c] = 0
      /\ pnum' = [pnum EXCEPT ![c] = Len(users) + 1]
      /\ users' = Append(users, c) /\ linked' = linked \cup {c}
      /\ registered' = registered /\ announced' = announced /\ introduced' = introduced
      /\ client' = client
  BY DEF ServerConnect, NextNumber
<1>2. c \notin Users /\ Distinct(users)
  BY <1>1 DEF UsersInv
<1>3. Len(users) + 1 \in Numbers /\ Len(users) + 1 # 0
  BY <1>2, RoomForOne DEF Users, ServerTypes
<1>4. users' \in Seq(Clients) /\ Users' = Users \cup {c}
  BY <1>1, ToSetFacts, AppendProperties DEF Users, ServerTypes
<1>5. Distinct(users')
  BY <1>1, <1>2, DistinctAppend DEF Users, ServerTypes
<1>6. pnum' \in [Clients -> Numbers] /\ pnum'[c] # 0 /\ \A u \in Clients : u # c => pnum'[u] = pnum[u]
  BY <1>1, <1>3 DEF ServerTypes
<1>7. ServerTypes'
  BY <1>1, <1>4, <1>6 DEF ServerTypes
<1>8. Users \subseteq Clients /\ \A d \in Clients : announced[d] \subseteq Clients
  BY ElementOfSeq, LenProperties DEF Users, ToSet, ServerTypes
<1>9. c \notin registered /\ c \notin introduced /\ \A d \in Clients : c \notin announced[d]
  BY <1>1, <1>2 DEF UsersInv
<1>10. UsersInv'
  <2>1. \A u \in Users' : pnum'[u] # 0
    BY <1>4, <1>6, <1>8 DEF UsersInv
  <2>2. /\ linked' \subseteq Users' /\ registered' \subseteq Users' /\ registered' \subseteq introduced'
        /\ introduced' \cap Users' \subseteq registered'
    BY <1>1, <1>4, <1>9 DEF UsersInv
  <2>3. ASSUME NEW d \in Clients
        PROVE  /\ pnum'[d] # 0 => client'[d].state # "idle"
               /\ d \in introduced' => pnum'[d] # 0
               /\ d \notin linked' => announced'[d] = {}
               /\ \A u \in announced'[d] : pnum'[u] # 0
    BY <1>1, <1>6, <1>8 DEF UsersInv
  <2> QED BY <1>5, <2>1, <2>2, <2>3 DEF UsersInv
<1>11. GoneIsAnnounced'
  <2>1. announced[c] = {} \/ c \in linked
    BY DEF UsersInv
  <2> QED BY <1>1, <1>4, <2>1 DEF GoneIsAnnounced
<1>12. Acquainted'
  <2>1. \A d \in linked' \cap registered' : d \in linked \cap registered /\ d # c /\ d \in Clients
    BY <1>1, <1>8, <1>9 DEF UsersInv
  <2> QED BY <1>1, <1>6, <2>1 DEF Acquainted
<1> QED BY <1>7, <1>10, <1>11, <1>12

\* A connection that is lost takes with it all its client was told.
LEMMA LinkLostServer ==
    ASSUME ServerInv, NEW c \in Clients, LinkLost(c)
    PROVE  ServerInv'
<1> USE DEF ServerInv
<1>1. /\ c \in linked /\ linked' = linked \ {c}
      /\ announced' = [announced EXCEPT ![c] = {}]
      /\ users' = users /\ registered' = registered /\ pnum' = pnum
      /\ introduced' = introduced /\ client' = client
  BY DEF LinkLost
<1>2. ServerTypes'
  BY <1>1 DEF ServerTypes
<1>3. \A d \in Clients : announced'[d] = IF d = c THEN {} ELSE announced[d]
  BY <1>1 DEF ServerTypes
<1>4. Users' = Users /\ Distinct(users')
  BY <1>1 DEF Users, UsersInv
<1>5. UsersInv'
  BY <1>1, <1>3, <1>4 DEF UsersInv
<1>6. GoneIsAnnounced' /\ Acquainted'
  BY <1>1, <1>3, <1>4 DEF GoneIsAnnounced, Acquainted, ServerTypes
<1> QED BY <1>2, <1>5, <1>6

\* Boot ends a connection and takes its user back from everyone it was told to.
LEMMA BootServer ==
    ASSUME ServerInv, NEW c \in Clients, Boot(c), client' = client
    PROVE  ServerInv'
<1> USE DEF ServerInv
<1>1. /\ linked' = linked \ {c}
      /\ announced' = [Forget(c) EXCEPT ![c] = {}]
      /\ users' = users /\ registered' = registered /\ pnum' = pnum
      /\ introduced' = introduced
  BY DEF Boot
<1>2. Forget(c) \in [Clients -> SUBSET Clients]
      /\ \A d \in Clients : Forget(c)[d] \subseteq announced[d] /\ announced[d] \ {c} \subseteq Forget(c)[d]
  BY DEF Forget, ServerTypes
<1>3. /\ announced' \in [Clients -> SUBSET Clients] /\ announced'[c] = {}
      /\ \A d \in Clients : announced'[d] \subseteq announced[d]
      /\ \A d \in Clients : d # c => announced[d] \ {c} \subseteq announced'[d]
  BY <1>1, <1>2
<1>4. ServerTypes'
  BY <1>1, <1>3 DEF ServerTypes
<1>5. Users' = Users /\ Distinct(users')
  BY <1>1 DEF Users, UsersInv
<1>6. UsersInv'
  BY <1>1, <1>3, <1>5 DEF UsersInv
<1>7. GoneIsAnnounced' /\ Acquainted'
  BY <1>1, <1>3, <1>5 DEF GoneIsAnnounced, Acquainted, ServerTypes
<1> QED BY <1>4, <1>6, <1>7

\* At the disconnect of a registered user everyone is told; no other user that
\* has ever registered is in the list.
LEMMA DisconnectServer ==
    ASSUME ServerInv, NEW c \in Clients, ServerDisconnect(c)
    PROVE  ServerInv'
<1> USE DEF ServerInv
<1>1. /\ c \in Users /\ c \notin linked /\ users' = RemoveFirst(users, c)
      /\ linked' = linked /\ pnum' = pnum /\ introduced' = introduced /\ client' = client
      /\ IF c \in registered THEN registered' = registered \ {c} /\ announced' = Forget(c)
         ELSE registered' = registered /\ announced' = announced
  BY DEF ServerDisconnect, Users
<1>2. users' \in Seq(Clients) /\ Distinct(users') /\ Users' = Users \ {c}
  BY <1>1, RemoveFirstFacts, RemoveFirstDistinct DEF ServerTypes, UsersInv, Users
<1>3. /\ Forget(c) \in [Clients -> SUBSET Clients]
      /\ \A d \in Clients : Forget(c)[d] \subseteq announced[d] /\ announced[d] \ {c} \subseteq Forget(c)[d]
      /\ \A d \in linked : c \notin Forget(c)[d]
  BY DEF Forget, ServerTypes
<1>4. /\ announced' \in [Clients -> SUBSET Clients]
      /\ \A d \in Clients : announced'[d] \subseteq announced[d] /\ announced[d] \ {c} \subseteq announced'[d]
      /\ c \in introduced => \A d \in linked : c \notin announced'[d]
  BY <1>1, <1>3 DEF ServerTypes, UsersInv
<1>5. registered' = registered \ {c}
  BY <1>1
<1>6. ServerTypes'
  BY <1>1, <1>2, <1>4, <1>5 DEF ServerTypes
<1>7. UsersInv'
  BY <1>1, <1>2, <1>4, <1>5 DEF UsersInv
<1>8. GoneIsAnnounced'
  BY <1>1, <1>2, <1>4 DEF GoneIsAnnounced, ServerTypes
<1>9. Acquainted'
  BY <1>1, <1>4, <1>5 DEF Acquainted, ServerTypes
<1> QED BY <1>6, <1>7, <1>8, <1>9

\* A user that registers is told of all others, and they of it.
LEMMA RegisterServer ==
    ASSUME ServerInv, NEW c \in Clients, OnRegister(c)
    PROVE  ServerInv'
<1> USE DEF ServerInv
<1>1. /\ c \in linked /\ registered' = registered \cup {c} /\ introduced' = introduced \cup {c}
      /\ announced' = [Learn(c) EXCEPT ![c] = Learn(c)[c] \cup Others(c)]
      /\ users' = users /\ linked' = linked /\ pnum' = pnum /\ client' = client
  BY DEF OnRegister, Received
<1>2. c \in Users /\ Users' = Users /\ Distinct(users') /\ Users \subseteq Clients
  BY <1>1, ElementOfSeq, LenProperties DEF UsersInv, Users, ToSet, ServerTypes
<1>3. Others(c) = {u \in Users : pnum[u] # pnum[c]}
  BY DEF Others, Users
<1>4. /\ Learn(c) \in [Clients -> SUBSET Clients]
      /\ \A d \in Clients : /\ announced[d] \subseteq Learn(c)[d]
                            /\ Learn(c)[d] \subseteq announced[d] \cup {c}
                            /\ d \in linked => c \in Learn(c)[d]
                            /\ d \notin linked => Learn(c)[d] = announced[d]
  BY DEF Learn, ServerTypes
<1>5. /\ announced' \in [Clients -> SUBSET Clients]
      /\ \A d \in Clients : /\ announced[d] \subseteq announced'[d]
                            /\ announced'[d] \subseteq announced[d] \cup Users
                            /\ d \in linked => c \in announced'[d]
                            /\ d \notin linked => announced'[d] = announced[d]
      /\ Others(c) \subseteq announced'[c]
  BY <1>1, <1>2, <1>3, <1>4
<1>6. ServerTypes'
  BY <1>1, <1>5 DEF ServerTypes
<1>7. UsersInv'
  BY <1>1, <1>2, <1>5 DEF UsersInv
<1>8. GoneIsAnnounced'
  BY <1>1, <1>2, <1>5 DEF GoneIsAnnounced, ServerTypes
<1>9. Acquainted'
  <2>1. ASSUME NEW d \in linked' \cap registered', NEW u \in linked' \cap registered'
        PROVE  u \in announced'[d] \/ pnum'[u] = pnum'[d]
    <3>1. d \in Clients /\ u \in Clients /\ u \in Users
      BY <1>1, <1>2, <2>1 DEF ServerTypes, UsersInv
    <3>2. CASE u = c
      BY <1>1, <1>5, <2>1, <3>1, <3>2
    <3>3. CASE d = c /\ u # c
      BY <1>1, <1>3, <1>5, <3>1, <3>3
    <3>4. CASE d # c /\ u # c
      BY <1>1, <1>5, <2>1, <3>1, <3>4 DEF Acquainted
    <3> QED BY <3>2, <3>3, <3>4
  <2> QED BY <2>1 DEF Acquainted
<1> QED BY <1>6, <1>7, <1>8, <1>9

-----------------------------------------------------------------------------
(* What each handler of the server sends.                                  *)

\* The messages the server sends, by channel.
LEMMA Packets ==
    ASSUME NEW n \in Numbers
    PROVE  /\ \A x \in {"Reg", "New", "Quit", "Boot"} :
                M(x, n) \in Message /\ M(x, n).kind = x /\ M(x, n).num = n /\ x \in Kinds("CSystem")
           /\ \A x \in {"Join", "State", "Upd", "Shoot", "Msg"} :
                M(x, n) \in Message /\ M(x, n).kind = x /\ M(x, n).num = n
                /\ x \in Kinds("CGame") /\ x \in Kinds("CChat")
BY DEF M, Message, Kinds

\* One message to all is delivered to everyone.
LEMMA Broadcast ==
    ASSUME NEW box \in [Clients -> Mailbox], NEW ch \in Channels, NEW m \in Message,
           m.kind \in Kinds(ch)
    PROVE  /\ Sent(box, ch, ToAll(m)) \in [Clients -> Mailbox]
           /\ \A d \in Clients : Delivered(d, box[d], Sent(box, ch, ToAll(m))[d], ch, <<m>>)
<1>1. (\A d \in Clients : MailOK(ch, ToAll(m)[d])) /\ \A d \in Clients : ToAll(m)[d] = <<m>>
  BY OnePacket DEF ToAll
<1>2. Sent(box, ch, ToAll(m)) \in [Clients -> Mailbox]
  BY <1>1, SentType
<1>3. ASSUME NEW d \in Clients
      PROVE  Delivered(d, box[d], Sent(box, ch, ToAll(m))[d], ch, ToAll(m)[d])
  BY <1>1, SentTo
<1> QED BY <1>1, <1>2, <1>3

\* Messages to one client change nothing for the others.
LEMMA Whisper ==
    ASSUME NEW box \in [Clients -> Mailbox], NEW ch \in Channels, NEW c \in Clients, NEW ms,
           MailOK(ch, ms)
    PROVE  /\ Sent(box, ch, ToOne(c, ms)) \in [Clients -> Mailbox]
           /\ \A d \in Clients : Delivered(d, box[d], Sent(box, ch, ToOne(c, ms))[d], ch,
                                           IF d = c THEN ms ELSE <<>>)
<1>1. MailOK(ch, <<>>)
  BY DEF MailOK, ToSet
<1>2. /\ \A d \in Clients : MailOK(ch, ToOne(c, ms)[d])
      /\ \A d \in Clients : ToOne(c, ms)[d] = IF d = c THEN ms ELSE <<>>
  BY <1>1 DEF ToOne
<1>3. Sent(box, ch, ToOne(c, ms)) \in [Clients -> Mailbox]
  BY <1>2, SentType
<1>4. ASSUME NEW d \in Clients
      PROVE  Delivered(d, box[d], Sent(box, ch, ToOne(c, ms))[d], ch, ToOne(c, ms)[d])
  BY <1>2, SentTo
<1> QED BY <1>2, <1>3, <1>4

\* A channel gains no more than what is delivered on it.
LEMMA DeliveredSet ==
    ASSUME NEW d, NEW before \in Mailbox, NEW after, NEW ch \in Channels, NEW ms,
           MailOK(ch, ms), Delivered(d, before, after, ch, ms)
    PROVE  /\ ToSet(after[ch]) \subseteq ToSet(before[ch]) \cup ToSet(ms)
           /\ \A x \in Channels : x # ch => after[x] = before[x]
<1>1. before[ch] \in Seq(Message) /\ ms \in Seq(Message)
  BY DEF Mailbox, MailOK
<1>2. ToSet(before[ch] \o ms) = ToSet(before[ch]) \cup ToSet(ms)
  BY <1>1, ConcatToSet
<1>3. after[ch] = before[ch] \/ after[ch] = before[ch] \o ms
  BY DEF Delivered
<1>4. \A x \in Channels : x # ch => after[x] = before[x]
  BY DEF Delivered
<1> QED BY <1>2, <1>3, <1>4

\* The farewell of a user that is booted or has left.
LEMMA QuitMail ==
    ASSUME MailInv, ServerTypes, NEW c \in Clients, NEW box \in [Clients -> Mailbox],
           box \in {inbox, Sent(inbox, "CSystem", ToOne(c, <<M("Boot", 0)>>))}
    PROVE  LET after == Sent(box, "CSystem", QuitPackets(c)) IN
           /\ after \in [Clients -> Mailbox]
           /\ \A d \in Clients : \A m \in ToSet(after[d]["CSystem"]) :
                 m \in ToSet(inbox[d]["CSystem"]) \/ m.kind \in {"Quit", "Boot"}
<1>1. PICK quit \in Message : /\ quit = M("Quit", pnum[c])
                              /\ quit.kind = "Quit" /\ quit.kind \in Kinds("CSystem")
  BY Packets DEF ServerTypes
<1>2. PICK boot \in Message : /\ boot = M("Boot", 0)
                              /\ boot.kind = "Boot" /\ boot.kind \in Kinds("CSystem")
  BY Packets, NumbersFacts
<1> DEFINE after == Sent(box, "CSystem", QuitPackets(c))
           booted == Sent(inbox, "CSystem", ToOne(c, <<boot>>))
<1>3. "CSystem" \in Channels /\ QuitPackets(c) = ToAll(quit) /\ inbox \in [Clients -> Mailbox]
  BY <1>1 DEF Channels, QuitPackets, MailInv
<1>4. /\ MailOK("CSystem", <<boot>>) /\ MailOK("CSystem", <<quit>>) /\ MailOK("CSystem", <<>>)
      /\ ToSet(<<boot>>) = {boot} /\ ToSet(<<quit>>) = {quit} /\ ToSet(<<>>) = {}
  BY <1>1, <1>2, OnePacket DEF ToSet
<1>5. ASSUME NEW d \in Clients
      PROVE  ToSet(booted[d]["CSystem"]) \subseteq ToSet(inbox[d]["CSystem"]) \cup {boot}
  <2> DEFINE ms == IF d = c THEN <<boot>> ELSE <<>>
  <2>1. MailOK("CSystem", ms) /\ ToSet(ms) \subseteq {boot}
    BY <1>4
  <2>2. Delivered(d, inbox[d], booted[d], "CSystem", ms)
    BY <1>3, <1>4, Whisper
  <2>3. inbox[d] \in Mailbox
    BY <1>3
  <2> HIDE DEF ms, booted
  <2>4. ToSet(booted[d]["CSystem"]) \subseteq ToSet(inbox[d]["CSystem"]) \cup ToSet(ms)
    BY <1>3, <2>1, <2>2, <2>3, DeliveredSet
  <2> QED BY <2>1, <2>4
<1>6. \A d \in Clients : ToSet(box[d]["CSystem"]) \subseteq ToSet(inbox[d]["CSystem"]) \cup {boot}
  BY <1>2, <1>5
<1>7. after \in [Clients -> Mailbox]
  BY <1>1, <1>3, Broadcast
<1>8. ASSUME NEW d \in Clients
      PROVE  ToSet(after[d]["CSystem"]) \subseteq ToSet(box[d]["CSystem"]) \cup {quit}
  <2>1. Delivered(d, box[d], after[d], "CSystem", <<quit>>)
    BY <1>1, <1>3, Broadcast
  <2> HIDE DEF after
  <2>2. box[d] \in Mailbox
    OBVIOUS
  <2> QED BY <1>3, <1>4, <2>1, <2>2, DeliveredSet
<1> HIDE DEF after
<1>9. \A d \in Clients : \A m \in ToSet(after[d]["CSystem"]) :
         m \in ToSet(inbox[d]["CSystem"]) \/ m.kind \in {"Quit", "Boot"}
  BY <1>1, <1>2, <1>6, <1>8
<1> QED BY <1>7, <1>9 DEF after

-----------------------------------------------------------------------------
(* Who is known, on values.                                                *)

\* The client k has read its confirmation, or will.
Confirmed(k, n, S) == k.players[n] = Local \/ \E h \in 1 .. Len(S) : S[h].kind = "Reg"

\* Further messages take away neither the confirmation nor a New.
LEMMA KnowsAppend ==
    ASSUME NEW k, NEW n, NEW i, NEW S \in Seq(Message), NEW t \in Seq(Message)
    PROVE  /\ Confirmed(k, n, S) => Confirmed(k, n, S \o t)
           /\ Knows(k, n, S, i) => Knows(k, n, S \o t, i)
<1> DEFINE r == S \o t
<1>1. /\ Len(S) \in Nat /\ Len(t) \in Nat /\ Len(r) = Len(S) + Len(t)
      /\ \A j \in 1 .. Len(S) : r[j] = S[j]
  BY ConcatProperties, LenProperties
<1> HIDE DEF r
<1>2. \A j \in 1 .. Len(S) : j \in 1 .. Len(r)
  BY <1>1
<1>3. Confirmed(k, n, S) => Confirmed(k, n, r)
  BY <1>1, <1>2 DEF Confirmed
<1>4. \A j \in 1 .. Len(S) : \A h \in 1 .. (j - 1) : r[h] = S[h]
  BY <1>1
<1>5. Knows(k, n, S, i) => Knows(k, n, r, i)
  BY <1>1, <1>2, <1>4 DEF Knows
<1> QED BY <1>3, <1>5 DEF r

\* Whoever knows itself has its confirmation; a New sent after the confirmation
\* makes its subject known.
LEMMA KnowsNew ==
    ASSUME NEW k, NEW n, NEW i, NEW S \in Seq(Message)
    PROVE  /\ Knows(k, n, S, n) => Confirmed(k, n, S)
           /\ \A t \in Seq(Message) :
                 M("New", i) \in ToSet(t) /\ Confirmed(k, n, S) => Knows(k, n, S \o t, i)
<1>1. Knows(k, n, S, n) => Confirmed(k, n, S)
  <2>1. Len(S) \in Nat /\ \A j \in 1 .. Len(S) : \A h \in 1 .. (j - 1) : h \in 1 .. Len(S)
    BY LenProperties
  <2> QED BY <2>1 DEF Knows, Confirmed
<1>2. ASSUME NEW t \in Seq(Message), M("New", i) \in ToSet(t), Confirmed(k, n, S)
      PROVE  Knows(k, n, S \o t, i)
  <2> DEFINE r == S \o t
  <2>1. /\ Len(S) \in Nat /\ Len(t) \in Nat /\ Len(r) = Len(S) + Len(t)
        /\ \A j \in 1 .. Len(S) : r[j] = S[j]
        /\ \A j \in 1 .. Len(S) + Len(t) : r[j] = IF j <= Len(S) THEN S[j] ELSE t[j - Len(S)]
    BY ConcatProperties, LenProperties
  <2> HIDE DEF r
  <2>2. PICK j \in 1 .. Len(t) : t[j] = M("New", i)
    BY <1>2, LenProperties DEF ToSet
  <2>3. Len(S) + j \in 1 .. Len(r) /\ r[Len(S) + j] = M("New", i)
    BY <2>1, <2>2
  <2>4. \A h \in 1 .. Len(S) : h \in 1 .. ((Len(S) + j) - 1) /\ r[h] = S[h]
    BY <2>1, <2>2
  <2>5. k.players[n] = Local \/ \E h \in 1 .. ((Len(S) + j) - 1) : r[h].kind = "Reg"
    BY <1>2, <2>4 DEF Confirmed
  <2>6. Knows(k, n, r, i)
    BY <2>3, <2>5 DEF Knows
  <2> QED BY <2>6 DEF r
<1> QED BY <1>1, <1>2

\* What is known or announced still is when the first message has been read.
LEMMA KnowsTail ==
    ASSUME NEW k, NEW r, NEW n, NEW i \in Numbers, NEW S \in Seq(Message), S # <<>>,
           Head(S).kind \in {"Reg", "New"},
           \A x \in Numbers : k.players[x] # NULL => r.players[x] # NULL,
           k.players[n] = Local \/ Head(S).kind = "Reg" => r.players[n] = Local,
           Head(S).kind = "New" /\ k.players[n] = Local => r.players[Head(S).num] # NULL,
           Knows(k, n, S, i)
    PROVE  Knows(r, n, Tail(S), i)
<1>1. /\ Len(S) \in Nat /\ Tail(S) \in Seq(Message) /\ Len(Tail(S)) = Len(S) - 1
      /\ \A j \in 1 .. Len(Tail(S)) : Tail(S)[j] = S[j + 1]
      /\ Head(S) = S[1]
  BY HeadTailProperties, LenProperties
<1> DEFINE t == Tail(S)
<1> HIDE DEF t
<1>2. CASE k.players[n] = Local /\ k.players[i] # NULL
  BY <1>2 DEF Knows
<1>3. ASSUME NEW j \in 1 .. Len(S), S[j] = M("New", i),
             k.players[n] = Local \/ \E h \in 1 .. (j - 1) : S[h].kind = "Reg"
      PROVE  Knows(r, n, t, i)
  <2>1. CASE j = 1
    <3>1. Head(S).kind = "New" /\ Head(S).num = i /\ k.players[n] = Local
      BY <1>1, <1>3, <2>1 DEF M
    <3> QED BY <3>1 DEF Knows
  <2>2. CASE j # 1
    <3>1. (j - 1) \in 1 .. Len(t) /\ t[j - 1] = M("New", i)
      BY <1>1, <1>3, <2>2 DEF t
    <3>2. r.players[n] = Local \/ \E h \in 1 .. ((j - 1) - 1) : t[h].kind = "Reg"
      <4>1. CASE k.players[n] = Local
        BY <4>1
      <4>2. ASSUME NEW h \in 1 .. (j - 1), S[h].kind = "Reg"
            PROVE  r.players[n] = Local \/ \E x \in 1 .. ((j - 1) - 1) : t[x].kind = "Reg"
        <5>1. CASE h = 1
          BY <1>1, <4>2, <5>1
        <5>2. CASE h # 1
          <6>1. (h - 1) \in 1 .. ((j - 1) - 1) /\ t[h - 1] = S[h]
            BY <1>1, <5>2 DEF t
          <6> QED BY <4>2, <6>1
        <5> QED BY <5>1, <5>2
      <4> QED BY <1>3, <4>1, <4>2
    <3> QED BY <3>1, <3>2 DEF Knows
  <2> QED BY <2>1, <2>2
<1>4. Knows(r, n, t, i)
  BY <1>2, <1>3 DEF Knows, t
<1> QED BY <1>4 DEF t

\* The kinds of the two listings.
LEMMA ListingKinds ==
    /\ <<"New">> \in Seq({"New"}) /\ ToSet(<<"New">>) = {"New"}
    /\ <<"Join", "State">> \in Seq({"Join", "State"}) /\ ToSet(<<"Join", "State">>) = {"Join", "State"}
<1>1. ToSet(<<"New">>) = {"New"}
  BY DEF ToSet
<1>2. ToSet(<<"Join", "State">>) = {"Join", "State"}
  <2>1. DOMAIN <<"Join", "State">> = {1, 2}
    OBVIOUS
  <2> QED BY <2>1 DEF ToSet
<1> QED BY <1>1, <1>2

\* What a registration puts into the mailbox of d: the confirmation and the New
\* and, for the newcomer, the listing; a Join and the Joins and States listed.
LEMMA RegisterMail ==
    ASSUME MailInv, ServerTypes, NEW c \in Clients, OnRegister(c)
    PROVE  /\ inbox' \in [Clients -> Mailbox]
           /\ \A d \in Clients : \E a, l \in Seq(Message) :
                /\ d = c => a = <<M("Reg", pnum[c])>> /\ ToSet(l) = {M("New", pnum[u]) : u \in Others(c)}
                /\ d # c => a = <<>> /\ l = <<>>
                /\ inbox'[d]["CSystem"] = IF d \in linked /\ Running(d)
                                          THEN ((inbox[d]["CSystem"] \o a) \o <<M("New", pnum[c])>>) \o l
                                          ELSE inbox[d]["CSystem"]
           /\ \A d \in Clients : \A m \in ToSet(inbox'[d]["CGame"]) :
                \/ m \in ToSet(inbox[d]["CGame"]) \/ m.num = pnum[c]
                \/ d = c /\ \E u \in Others(c) : m.num = pnum[u]
<1>1. PICK reg \in Message : reg = M("Reg", pnum[c]) /\ reg.kind \in Kinds("CSystem")
  BY Packets DEF ServerTypes
<1>2. PICK new \in Message : new = M("New", pnum[c]) /\ new.kind \in Kinds("CSystem")
  BY Packets DEF ServerTypes
<1>3. PICK join \in Message : join = M("Join", pnum[c]) /\ join.kind \in Kinds("CGame")
                              /\ join.num = pnum[c]
  BY Packets DEF ServerTypes
<1>4. PICK list \in Seq(Message) : /\ list = Listing(c, <<"New">>)
                                   /\ ToSet(list) = {M("New", pnum[u]) : u \in Others(c)}
  <2>1. \A x \in {"New"}, n \in Numbers : M(x, n) \in Message
    BY Packets
  <2>2. PICK kinds \in Seq({"New"}) : kinds = <<"New">> /\ ToSet(kinds) = {"New"}
    BY ListingKinds
  <2>3. /\ Listing(c, kinds) \in Seq(Message)
        /\ ToSet(Listing(c, kinds)) = {M(x, pnum[u]) : x \in ToSet(kinds), u \in Others(c)}
    BY <2>1, ListingFacts DEF ServerTypes
  <2>4. {M(x, pnum[u]) : x \in ToSet(kinds), u \in Others(c)} = {M("New", pnum[u]) : u \in Others(c)}
    BY <2>2
  <2> QED BY <2>2, <2>3, <2>4, SMTT(30)
<1>5. PICK play \in Seq(Message) : /\ play = Listing(c, <<"Join", "State">>)
                                   /\ ToSet(play) = {M(x, pnum[u]) : x \in {"Join", "State"}, u \in Others(c)}
  <2> DEFINE K == {"Join", "State"}
  <2>1. \A x \in K, n \in Numbers : M(x, n) \in Message
    BY Packets
  <2>2. PICK kinds \in Seq(K) : kinds = <<"Join", "State">> /\ ToSet(kinds) = K
    BY ListingKinds
  <2> HIDE DEF K
  <2>3. /\ Listing(c, kinds) \in Seq(Message)
        /\ ToSet(Listing(c, kinds)) = {M(x, pnum[u]) : x \in ToSet(kinds), u \in Others(c)}
    BY <2>1, ListingFacts DEF ServerTypes
  <2>4. ToSet(Listing(c, kinds)) = {M(x, pnum[u]) : x \in K, u \in Others(c)}
    BY <2>2, <2>3
  <2> QED BY <2>2, <2>3, <2>4 DEF K
<1>6. Others(c) \subseteq Clients
  BY ElementOfSeq, LenProperties DEF Others, ToSet, ServerTypes
<1>7. MailOK("CSystem", list)
  BY <1>4, <1>6, Packets DEF MailOK, ServerTypes
<1>8. MailOK("CGame", play) /\ \A m \in ToSet(play) : \E u \in Others(c) : m.num = pnum[u]
  <2>1. \A x \in {"Join", "State"}, u \in Others(c) :
           M(x, pnum[u]).num = pnum[u] /\ M(x, pnum[u]).kind \in Kinds("CGame")
    BY <1>6, Packets DEF ServerTypes
  <2> QED BY <1>5, <2>1 DEF MailOK
<1>9. "CSystem" \in Channels /\ "CGame" \in Channels /\ "CSystem" # "CGame"
      /\ inbox \in [Clients -> Mailbox]
  BY DEF Channels, MailInv
<1>10. MailOK("CSystem", <<reg>>) /\ MailOK("CSystem", <<>>) /\ MailOK("CSystem", <<new>>)
       /\ MailOK("CGame", <<join>>) /\ MailOK("CGame", <<>>) /\ ToSet(<<join>>) = {join} /\ ToSet(<<>>) = {}
  <2>1. ToSet(<<>>) = {}
    BY DEF ToSet
  <2> QED BY <1>1, <1>2, <1>3, <2>1, OnePacket
<1>11. PICK b1 \in [Clients -> Mailbox] :
          /\ b1 = Sent(inbox, "CSystem", ToOne(c, <<reg>>))
          /\ \A d \in Clients : Delivered(d, inbox[d], b1[d], "CSystem", IF d = c THEN <<reg>> ELSE <<>>)
  BY <1>9, <1>10, Whisper
<1>12. PICK b2 \in [Clients -> Mailbox] :
          /\ b2 = Sent(b1, "CSystem", ToAll(new))
          /\ \A d \in Clients : Delivered(d, b1[d], b2[d], "CSystem", <<new>>)
  BY <1>2, <1>9, Broadcast
<1>13. PICK b3 \in [Clients -> Mailbox] :
          /\ b3 = Sent(b2, "CGame", ToAll(join))
          /\ \A d \in Clients : Delivered(d, b2[d], b3[d], "CGame", <<join>>)
  BY <1>3, <1>9, Broadcast
<1>14. PICK b4 \in [Clients -> Mailbox] :
          /\ b4 = Sent(b3, "CSystem", ToOne(c, list))
          /\ \A d \in Clients : Delivered(d, b3[d], b4[d], "CSystem", IF d = c THEN list ELSE <<>>)
  BY <1>7, <1>9, Whisper
<1>15. PICK b5 \in [Clients -> Mailbox] :
          /\ b5 = Sent(b4, "CGame", ToOne(c, play))
          /\ \A d \in Clients : Delivered(d, b4[d], b5[d], "CGame", IF d = c THEN play ELSE <<>>)
  BY <1>8, <1>9, Whisper
<1>16. inbox' = b5
  BY <1>1, <1>2, <1>3, <1>4, <1>5, <1>11, <1>12, <1>13, <1>14, <1>15 DEF OnRegister, Confirmation
<1>17. ASSUME NEW d \in Clients
       PROVE  \E a, l \in Seq(Message) :
                /\ d = c => a = <<M("Reg", pnum[c])>> /\ ToSet(l) = {M("New", pnum[u]) : u \in Others(c)}
                /\ d # c => a = <<>> /\ l = <<>>
                /\ b5[d]["CSystem"] = IF d \in linked /\ Running(d)
                                      THEN ((inbox[d]["CSystem"] \o a) \o <<M("New", pnum[c])>>) \o l
                                      ELSE inbox[d]["CSystem"]
  <2>1. PICK a \in Seq(Message) : a = IF d = c THEN <<reg>> ELSE <<>>
    BY <1>10 DEF MailOK
  <2>2. PICK l \in Seq(Message) : l = IF d = c THEN list ELSE <<>>
    BY <1>10 DEF MailOK
  <2>3. /\ Delivered(d, inbox[d], b1[d], "CSystem", a) /\ Delivered(d, b1[d], b2[d], "CSystem", <<new>>)
        /\ Delivered(d, b2[d], b3[d], "CGame", <<join>>) /\ Delivered(d, b3[d], b4[d], "CSystem", l)
        /\ Delivered(d, b4[d], b5[d], "CGame", IF d = c THEN play ELSE <<>>)
    BY <1>11, <1>12, <1>13, <1>14, <1>15, <2>1, <2>2
  <2>4. b3[d]["CSystem"] = b2[d]["CSystem"] /\ b5[d]["CSystem"] = b4[d]["CSystem"]
    BY <1>9, <2>3 DEF Delivered
  <2>5. b5[d]["CSystem"] = IF d \in linked /\ Running(d)
                           THEN ((inbox[d]["CSystem"] \o a) \o <<new>>) \o l
                           ELSE inbox[d]["CSystem"]
    BY <2>3, <2>4 DEF Delivered
  <2> QED BY <1>1, <1>2, <1>4, <2>1, <2>2, <2>5
<1>18. ASSUME NEW d \in Clients, NEW m \in ToSet(b5[d]["CGame"])
       PROVE  \/ m \in ToSet(inbox[d]["CGame"]) \/ m.num = pnum[c]
              \/ d = c /\ \E u \in Others(c) : m.num = pnum[u]
  <2>1. PICK ms : ms = (IF d = c THEN play ELSE <<>>) /\ MailOK("CGame", ms)
    BY <1>8, <1>10
  <2>2. b1[d]["CGame"] = inbox[d]["CGame"] /\ b2[d]["CGame"] = b1[d]["CGame"]
        /\ b4[d]["CGame"] = b3[d]["CGame"]
    BY <1>9, <1>11, <1>12, <1>14 DEF Delivered
  <2>3. ToSet(b3[d]["CGame"]) \subseteq ToSet(b2[d]["CGame"]) \cup ToSet(<<join>>)
    BY <1>9, <1>10, <1>13, DeliveredSet
  <2>4. Delivered(d, b4[d], b5[d], "CGame", ms) /\ b4[d] \in Mailbox
    BY <1>15, <2>1
  <2>5. ToSet(b5[d]["CGame"]) \subseteq ToSet(b4[d]["CGame"]) \cup ToSet(ms)
    BY <1>9, <2>1, <2>4, DeliveredSet
  <2>6. m \in ToSet(inbox[d]["CGame"]) \/ m = join \/ m \in ToSet(ms)
    BY <1>10, <2>2, <2>3, <2>5
  <2>7. m \in ToSet(ms) => d = c /\ m \in ToSet(play)
    BY <1>10, <2>1
  <2> QED BY <1>3, <1>8, <2>6, <2>7
<1> QED BY <1>16, <1>17, <1>18

-----------------------------------------------------------------------------
(* The steps of the server.                                                *)

ClientTypes ==
    /\ client \in [Clients -> Client]
    /\ pending \in [Clients -> SUBSET Requests] /\ asked \in [Clients -> SUBSET Requests]

SessionInv == ServerInv /\ ClientTypes /\ MailInv /\ PlayInv /\ TalkInv

\* The types of the invariant are those of TypeOK.
LEMMA SessionTypes ==
    ASSUME ServerTypes, ClientTypes, MailInv
    PROVE  TypeOK
<1>1. \A c \in Clients : inbox[c] \in [Channels -> Seq(Message)]
  BY DEF MailInv, Mailbox
<1>2. inbox \in [Clients -> [Channels -> Seq(Message)]]
  BY <1>1 DEF MailInv
<1> QED BY <1>2 DEF TypeOK, ServerTypes, ClientTypes

\* Mail that brings no confirmation but the right one keeps everybody right.
LEMMA MailPlay ==
    ASSUME PlayInv, client' = client, pnum' = pnum, introduced \subseteq introduced',
           \A d \in Clients : pending'[d] \subseteq pending[d],
           \A d \in Clients : \A m \in ToSet(inbox'[d]["CSystem"]) :
               \/ m \in ToSet(inbox[d]["CSystem"]) \/ m.kind # "Reg"
               \/ m.num = pnum[d] /\ d \in introduced'
    PROVE  PlayInv'
<1> SUFFICES ASSUME NEW d \in Clients
             PROVE  /\ SelfOK(client[d], pnum[d])
                    /\ \A m \in ToSet(inbox'[d]["CSystem"]) :
                          m.kind = "Reg" => m.num = pnum[d] /\ d \in introduced'
                    /\ client[d].players[pnum[d]] = Local => d \in introduced'
                    /\ pending'[d] \cap {"Upd", "Shoot"} # {} => d \in introduced'
  BY DEF PlayInv
<1>1. SelfOK(client[d], pnum[d])
  BY DEF PlayInv
<1>2. \A m \in ToSet(inbox[d]["CSystem"]) : m.kind = "Reg" => m.num = pnum[d] /\ d \in introduced
  BY DEF PlayInv
<1>3. \A m \in ToSet(inbox'[d]["CSystem"]) : m.kind = "Reg" => m.num = pnum[d] /\ d \in introduced'
  BY <1>2
<1>4. client[d].players[pnum[d]] = Local => d \in introduced'
  BY DEF PlayInv
<1>5. pending'[d] \cap {"Upd", "Shoot"} # {} => d \in introduced'
  <2>1. pending[d] \cap {"Upd", "Shoot"} # {} => d \in introduced
    BY DEF PlayInv
  <2> QED BY <2>1
<1> QED BY <1>1, <1>3, <1>4, <1>5

\* Once somebody has left nothing is claimed.
LEMMA SomebodyLeft ==
    ASSUME NEW c \in Clients, pnum'[c] # 0, c \notin linked'
    PROVE  TalkInv'
BY DEF TalkInv, NobodyLeft

\* A connection changes the number of a client nobody has been told of.
LEMMA ConnectStep ==
    ASSUME SessionInv, NEW c \in Clients, ServerConnect(c)
    PROVE  SessionInv'
<1>1. ServerInv'
  BY ConnectServer DEF SessionInv
<1>2. /\ pnum[c] = 0 /\ pnum' = [pnum EXCEPT ![c] = NextNumber] /\ linked' = linked \cup {c}
      /\ registered' = registered /\ announced' = announced /\ introduced' = introduced
      /\ pending' = pending /\ asked' = asked /\ inbox' = inbox /\ client' = client
  BY DEF ServerConnect
<1>3. /\ pnum'[c] \in Numbers /\ \A u \in Clients : u # c => pnum'[u] = pnum[u]
      /\ \A u \in Clients : pnum[u] \in Numbers
  BY <1>1, <1>2 DEF ServerInv, ServerTypes, SessionInv
<1>4. ClientTypes' /\ MailInv'
  BY <1>2 DEF SessionInv, ClientTypes, MailInv
<1>5. c \notin introduced /\ c \notin linked /\ c \notin registered /\ \A d \in Clients : c \notin announced[d]
  BY <1>2 DEF SessionInv, ServerInv, ServerTypes, UsersInv
<1>6. \A i \in Numbers : client[c].players[i] # Local
  BY <1>2 DEF SessionInv, PlayInv, SelfOK
<1>7. PlayInv'
  <2> SUFFICES ASSUME NEW d \in Clients
               PROVE  /\ SelfOK(client[d], pnum'[d])
                      /\ \A m \in ToSet(inbox[d]["CSystem"]) :
                            m.kind = "Reg" => m.num = pnum'[d] /\ d \in introduced
                      /\ client[d].players[pnum'[d]] = Local => d \in introduced
                      /\ pending[d] \cap {"Upd", "Shoot"} # {} => d \in introduced
    BY <1>2 DEF PlayInv
  <2>1. /\ SelfOK(client[d], pnum[d])
        /\ \A m \in ToSet(inbox[d]["CSystem"]) : m.kind = "Reg" => m.num = pnum[d] /\ d \in introduced
        /\ client[d].players[pnum[d]] = Local => d \in introduced
        /\ pending[d] \cap {"Upd", "Shoot"} # {} => d \in introduced
    BY DEF SessionInv, PlayInv
  <2>2. CASE d # c
    BY <1>3, <2>1, <2>2
  <2>3. CASE d = c
    <3>1. Local \notin ToSet(client[c].scene)
      BY <1>3, <1>6, <2>1, <2>3 DEF SelfOK
    <3>2. SelfOK(client[c], pnum'[c])
      BY <1>6, <2>1, <2>3, <3>1 DEF SelfOK
    <3> QED BY <1>3, <1>5, <1>6, <2>1, <2>3, <3>2
  <2> QED BY <2>2, <2>3
<1>8. TalkInv'
  <2> SUFFICES ASSUME NobodyLeft', NEW d \in Clients
               PROVE  /\ \A m \in ToSet(inbox[d]["CSystem"]) : m.kind \in {"Reg", "New"}
                      /\ (d \in registered /\ Running(d)) =>
                            \A u \in announced[d] \cup {d} :
                                Knows(client[d], pnum'[d], inbox[d]["CSystem"], pnum'[u])
                      /\ \A m \in ToSet(inbox[d]["CGame"]) :
                            \E u \in introduced \cup announced[d] : m.num = pnum'[u]
    BY <1>2 DEF TalkInv, Running
  <2>1. NobodyLeft
    BY <1>2, <1>3, <1>5 DEF NobodyLeft
  <2>2. /\ \A m \in ToSet(inbox[d]["CSystem"]) : m.kind \in {"Reg", "New"}
        /\ (d \in registered /\ Running(d)) =>
              \A u \in announced[d] \cup {d} : Knows(client[d], pnum[d], inbox[d]["CSystem"], pnum[u])
        /\ \A m \in ToSet(inbox[d]["CGame"]) : \E u \in introduced \cup announced[d] : m.num = pnum[u]
    BY <2>1 DEF SessionInv, TalkInv
  <2>3. \A u \in introduced \cup announced[d] : u \in Clients /\ pnum'[u] = pnum[u]
    BY <1>3, <1>5 DEF SessionInv, ServerInv, ServerTypes
  <2>4. d \in registered => pnum'[d] = pnum[d]
    BY <1>3, <1>5
  <2> QED BY <2>2, <2>3, <2>4
<1> QED BY <1>1, <1>4, <1>7, <1>8 DEF SessionInv

\* A connection is lost,
LEMMA LinkLostStep ==
    ASSUME SessionInv, NEW c \in Clients, LinkLost(c)
    PROVE  SessionInv'
<1>1. ServerInv'
  BY LinkLostServer DEF SessionInv
<1>2. /\ c \in linked /\ linked' = linked \ {c} /\ pnum' = pnum /\ introduced' = introduced
      /\ pending' = pending /\ asked' = asked /\ inbox' = inbox /\ client' = client
  BY DEF LinkLost
<1>3. ClientTypes' /\ MailInv'
  BY <1>2 DEF SessionInv, ClientTypes, MailInv
<1>4. PlayInv'
  BY <1>2, MailPlay DEF SessionInv
<1>5. TalkInv'
  BY <1>2, SomebodyLeft DEF SessionInv, ServerInv, UsersInv
<1> QED BY <1>1, <1>3, <1>4, <1>5 DEF SessionInv

\* a user is booted,
LEMMA BootStep ==
    ASSUME SessionInv, NEW c \in Clients, c \in linked, Boot(c), client' = client, asked' = asked,
           pending' = [pending EXCEPT ![c] = pending[c] \ {"Msg"}]
    PROVE  SessionInv'
<1>1. ServerInv'
  BY BootServer DEF SessionInv
<1>2. /\ linked' = linked \ {c} /\ pnum' = pnum /\ introduced' = introduced
      /\ inbox' = Sent(Sent(inbox, "CSystem", ToOne(c, <<M("Boot", 0)>>)), "CSystem", QuitPackets(c))
  BY DEF Boot, BootPackets
<1>3. PICK box : box = Sent(inbox, "CSystem", ToOne(c, <<M("Boot", 0)>>))
  OBVIOUS
<1>4. box \in [Clients -> Mailbox]
  <2>1. PICK boot \in Message : boot = M("Boot", 0) /\ boot.kind \in Kinds("CSystem")
    BY Packets, NumbersFacts
  <2>2. MailOK("CSystem", <<boot>>) /\ "CSystem" \in Channels
    BY <2>1, OnePacket DEF Channels
  <2> QED BY <1>3, <2>1, <2>2, Whisper DEF SessionInv, MailInv
<1>5. /\ inbox' \in [Clients -> Mailbox]
      /\ \A d \in Clients : \A m \in ToSet(inbox'[d]["CSystem"]) :
            m \in ToSet(inbox[d]["CSystem"]) \/ m.kind \in {"Quit", "Boot"}
  BY <1>2, <1>3, <1>4, QuitMail DEF SessionInv, ServerInv
<1>6. ClientTypes' /\ MailInv'
  BY <1>5 DEF SessionInv, ClientTypes, MailInv
<1>7. PlayInv'
  <2>1. \A d \in Clients : pending'[d] \subseteq pending[d]
    BY DEF SessionInv, ClientTypes
  <2> QED BY <1>2, <1>5, <2>1, MailPlay DEF SessionInv
<1>8. TalkInv'
  BY <1>2, SomebodyLeft DEF SessionInv, ServerInv, UsersInv
<1> QED BY <1>1, <1>6, <1>7, <1>8 DEF SessionInv

\* or the disconnect is noticed.
LEMMA DisconnectStep ==
    ASSUME SessionInv, NEW c \in Clients, ServerDisconnect(c)
    PROVE  SessionInv'
<1>1. ServerInv'
  BY DisconnectServer DEF SessionInv
<1>2. /\ c \in Users /\ c \notin linked /\ linked' = linked /\ pnum' = pnum /\ introduced' = introduced
      /\ pending' = [pending EXCEPT ![c] = {}] /\ asked' = asked /\ client' = client
      /\ inbox' = Sent(inbox, "CSystem", QuitPackets(c)) \/ inbox' = inbox
  BY DEF ServerDisconnect, Users
<1>3. /\ inbox' \in [Clients -> Mailbox]
      /\ \A d \in Clients : \A m \in ToSet(inbox'[d]["CSystem"]) :
            m \in ToSet(inbox[d]["CSystem"]) \/ m.kind \in {"Quit", "Boot"}
  <2>1. CASE inbox' = inbox
    BY <2>1 DEF SessionInv, MailInv
  <2>2. CASE inbox' = Sent(inbox, "CSystem", QuitPackets(c))
    BY <2>2, QuitMail DEF SessionInv, ServerInv, MailInv
  <2> QED BY <1>2, <2>1, <2>2
<1>4. ClientTypes' /\ MailInv'
  BY <1>2, <1>3 DEF SessionInv, ClientTypes, MailInv
<1>5. PlayInv'
  <2>1. \A d \in Clients : pending'[d] \subseteq pending[d]
    BY <1>2 DEF SessionInv, ClientTypes
  <2> QED BY <1>2, <1>3, <2>1, MailPlay DEF SessionInv
<1>6. TalkInv'
  BY <1>2, SomebodyLeft DEF SessionInv, ServerInv, UsersInv
<1> QED BY <1>1, <1>4, <1>5, <1>6 DEF SessionInv

\* The server's own state is left alone, and no client becomes idle.
LEMMA SameServer ==
    ASSUME ServerInv, UNCHANGED serverVars,
           \A d \in Clients : client'[d].state = "idle" => client[d].state = "idle"
    PROVE  ServerInv'
<1>1. /\ users' = users /\ linked' = linked /\ registered' = registered /\ pnum' = pnum
      /\ announced' = announced /\ introduced' = introduced
  BY DEF serverVars
<1>2. Users' = Users /\ Distinct(users')
  BY <1>1 DEF Users, ServerInv, UsersInv
<1>3. ServerTypes'
  BY <1>1 DEF ServerInv, ServerTypes
<1>4. UsersInv'
  BY <1>1, <1>2 DEF ServerInv, UsersInv
<1>5. GoneIsAnnounced' /\ Acquainted'
  BY <1>1, <1>2 DEF ServerInv, GoneIsAnnounced, Acquainted
<1> QED BY <1>3, <1>4, <1>5 DEF ServerInv

\* Game messages about users that have registered are sent, or none.
LEMMA GameMail ==
    ASSUME SessionInv, UNCHANGED serverVars, client' = client, asked' = asked, MailInv',
           pending' \in [Clients -> SUBSET Requests],
           \A d \in Clients : pending'[d] \subseteq pending[d],
           \A d \in Clients : inbox'[d]["CSystem"] = inbox[d]["CSystem"],
           \A d \in Clients : \A m \in ToSet(inbox'[d]["CGame"]) :
               m \in ToSet(inbox[d]["CGame"]) \/ \E u \in introduced : m.num = pnum[u]
    PROVE  SessionInv'
<1>1. /\ linked' = linked /\ registered' = registered /\ pnum' = pnum
      /\ announced' = announced /\ introduced' = introduced
  BY DEF serverVars
<1>2. ServerInv'
  BY SameServer DEF SessionInv
<1>3. ClientTypes'
  BY DEF SessionInv, ClientTypes
<1>4. PlayInv'
  BY <1>1, MailPlay DEF SessionInv
<1>5. TalkInv'
  <2> SUFFICES ASSUME NobodyLeft', NEW d \in Clients
               PROVE  /\ \A m \in ToSet(inbox[d]["CSystem"]) : m.kind \in {"Reg", "New"}
                      /\ (d \in registered /\ Running(d)) =>
                            \A u \in announced[d] \cup {d} :
                                Knows(client[d], pnum[d], inbox[d]["CSystem"], pnum[u])
                      /\ \A m \in ToSet(inbox'[d]["CGame"]) :
                            \E u \in introduced \cup announced[d] : m.num = pnum[u]
    BY <1>1 DEF TalkInv, Running
  <2>1. NobodyLeft
    BY <1>1 DEF NobodyLeft
  <2> QED BY <2>1 DEF SessionInv, TalkInv
<1> QED BY <1>2, <1>3, <1>4, <1>5 DEF SessionInv

\* A request that is received was on its way.
LEMMA ReceivedFacts ==
    ASSUME ClientTypes, NEW c \in Clients, NEW request \in Requests, Received(c, request)
    PROVE  /\ c \in linked /\ request \in pending[c]
           /\ pending' \in [Clients -> SUBSET Requests]
           /\ \A d \in Clients : pending'[d] \subseteq pending[d]
           /\ pending' = [pending EXCEPT ![c] = pending[c] \ {request}]
BY DEF Received, ClientTypes

\* Server::OnUpdate and Server::OnBulletShoot.
LEMMA RelayStep ==
    ASSUME SessionInv, NEW c \in Clients, NEW request \in {"Upd", "Shoot"}, Relay(c, request)
    PROVE  SessionInv'
<1>1. /\ inbox' = Sent(inbox, "CGame", ToAll(M(request, pnum[c])))
      /\ UNCHANGED serverVars /\ asked' = asked /\ client' = client
  BY DEF Relay
<1>2. /\ c \in linked /\ request \in pending[c]
      /\ pending' \in [Clients -> SUBSET Requests]
      /\ \A d \in Clients : pending'[d] \subseteq pending[d]
  BY ReceivedFacts DEF Relay, SessionInv, Requests
<1>3. c \in introduced
  BY <1>2 DEF SessionInv, PlayInv
<1>4. PICK m \in Message : m = M(request, pnum[c]) /\ m.kind \in Kinds("CGame") /\ m.num = pnum[c]
  BY Packets DEF SessionInv, ServerInv, ServerTypes
<1>5. "CGame" \in Channels /\ "CSystem" \in Channels /\ "CGame" # "CSystem" /\ inbox \in [Clients -> Mailbox]
  BY DEF Channels, SessionInv, MailInv
<1>6. /\ inbox' \in [Clients -> Mailbox]
      /\ \A d \in Clients : Delivered(d, inbox[d], inbox'[d], "CGame", <<m>>)
  BY <1>1, <1>4, <1>5, Broadcast
<1>7. MailOK("CGame", <<m>>) /\ ToSet(<<m>>) = {m}
  BY <1>4, OnePacket
<1>8. ASSUME NEW d \in Clients
      PROVE  /\ ToSet(inbox'[d]["CGame"]) \subseteq ToSet(inbox[d]["CGame"]) \cup {m}
             /\ inbox'[d]["CSystem"] = inbox[d]["CSystem"]
  <2>1. inbox[d] \in Mailbox /\ Delivered(d, inbox[d], inbox'[d], "CGame", <<m>>)
    BY <1>5, <1>6
  <2>2. ToSet(inbox'[d]["CGame"]) \subseteq ToSet(inbox[d]["CGame"]) \cup ToSet(<<m>>)
    BY <1>5, <1>7, <2>1, DeliveredSet
  <2>3. inbox'[d]["CSystem"] = inbox[d]["CSystem"]
    BY <1>5, <2>1 DEF Delivered
  <2> QED BY <1>7, <2>2, <2>3
<1>9. MailInv'
  BY <1>6 DEF MailInv
<1> QED BY <1>1, <1>2, <1>3, <1>4, <1>8, <1>9, GameMail

\* An Upd is lost.
LEMMA LoseUpdateStep ==
    ASSUME SessionInv, NEW c \in Clients, LoseUpdate(c)
    PROVE  SessionInv'
<1>1. UNCHANGED serverVars /\ asked' = asked /\ client' = client /\ inbox' = inbox
  BY DEF LoseUpdate
<1>2. /\ pending' \in [Clients -> SUBSET Requests]
      /\ \A d \in Clients : pending'[d] \subseteq pending[d]
  BY ReceivedFacts DEF LoseUpdate, SessionInv, Requests
<1>3. MailInv'
  BY <1>1 DEF SessionInv, MailInv
<1> QED BY <1>1, <1>2, <1>3, GameMail

\* Server::OnMsg.
LEMMA MsgStep ==
    ASSUME SessionInv, NEW c \in Clients, OnMsg(c)
    PROVE  SessionInv'
<1>1. /\ c \in linked /\ pending' \in [Clients -> SUBSET Requests]
      /\ \A d \in Clients : pending'[d] \subseteq pending[d]
      /\ pending' = [pending EXCEPT ![c] = pending[c] \ {"Msg"}]
      /\ asked' = asked /\ client' = client
  BY ReceivedFacts DEF OnMsg, SessionInv, Requests
<1>2. CASE inbox' = Sent(inbox, "CChat", ToAll(M("Msg", pnum[c]))) /\ UNCHANGED serverVars
  <2>1. PICK m \in Message : m = M("Msg", pnum[c]) /\ m.kind \in Kinds("CChat")
    BY Packets DEF SessionInv, ServerInv, ServerTypes
  <2>2. /\ "CChat" \in Channels /\ "CSystem" \in Channels /\ "CGame" \in Channels
        /\ "CChat" # "CSystem" /\ "CChat" # "CGame" /\ inbox \in [Clients -> Mailbox]
    BY DEF Channels, SessionInv, MailInv
  <2>3. /\ inbox' \in [Clients -> Mailbox]
        /\ \A d \in Clients : Delivered(d, inbox[d], inbox'[d], "CChat", <<m>>)
    BY <1>2, <2>1, <2>2, Broadcast
  <2>4. \A d \in Clients : /\ inbox'[d]["CSystem"] = inbox[d]["CSystem"]
                           /\ inbox'[d]["CGame"] = inbox[d]["CGame"]
    BY <2>2, <2>3 DEF Delivered
  <2>5. MailInv'
    BY <2>3 DEF MailInv
  <2> QED BY <1>1, <1>2, <2>4, <2>5, GameMail
<1>3. CASE inbox' = inbox /\ UNCHANGED serverVars
  <2>1. MailInv'
    BY <1>3 DEF SessionInv, MailInv
  <2> QED BY <1>1, <1>3, <2>1, GameMail
<1>4. CASE Boot(c)
  BY <1>1, <1>4, BootStep
<1> QED BY <1>2, <1>3, <1>4 DEF OnMsg

\* Server::OnRegister: the newcomer reads its confirmation, its own New and the
\* News of all others, in this order; everyone else reads its New.
LEMMA RegisterStep ==
    ASSUME SessionInv, NEW c \in Clients, OnRegister(c)
    PROVE  SessionInv'
<1>1. ServerInv'
  BY RegisterServer DEF SessionInv
<1>2. /\ c \in linked /\ registered' = registered \cup {c} /\ introduced' = introduced \cup {c}
      /\ announced' = [Learn(c) EXCEPT ![c] = Learn(c)[c] \cup Others(c)]
      /\ users' = users /\ linked' = linked /\ pnum' = pnum /\ asked' = asked /\ client' = client
      /\ Received(c, "Reg")
  BY DEF OnRegister, Received
<1>3. /\ pending' \in [Clients -> SUBSET Requests]
      /\ \A d \in Clients : pending'[d] \subseteq pending[d]
  BY <1>2, ReceivedFacts DEF SessionInv, Requests
<1>4. /\ inbox' \in [Clients -> Mailbox]
      /\ \A d \in Clients : \E a, l \in Seq(Message) :
           /\ d = c => a = <<M("Reg", pnum[c])>> /\ ToSet(l) = {M("New", pnum[u]) : u \in Others(c)}
           /\ d # c => a = <<>> /\ l = <<>>
           /\ inbox'[d]["CSystem"] = IF d \in linked /\ Running(d)
                                     THEN ((inbox[d]["CSystem"] \o a) \o <<M("New", pnum[c])>>) \o l
                                     ELSE inbox[d]["CSystem"]
      /\ \A d \in Clients : \A m \in ToSet(inbox'[d]["CGame"]) :
           \/ m \in ToSet(inbox[d]["CGame"]) \/ m.num = pnum[c]
           \/ d = c /\ \E u \in Others(c) : m.num = pnum[u]
  BY RegisterMail DEF SessionInv, ServerInv
<1>5. ClientTypes' /\ MailInv'
  BY <1>2, <1>3, <1>4 DEF SessionInv, ClientTypes, MailInv
<1>6. PICK reg \in Message : reg = M("Reg", pnum[c]) /\ reg.kind = "Reg" /\ reg.num = pnum[c]
  BY Packets DEF SessionInv, ServerInv, ServerTypes
<1>7. PICK new \in Message : new = M("New", pnum[c]) /\ new.kind = "New"
  BY Packets DEF SessionInv, ServerInv, ServerTypes
<1>8. Others(c) \subseteq Clients /\ Others(c) = {u \in Users : pnum[u] # pnum[c]} /\ c \in Users
  <2>1. Users \subseteq Clients
    BY ElementOfSeq, LenProperties DEF Users, ToSet, SessionInv, ServerInv, ServerTypes
  <2> QED BY <1>2, <2>1 DEF Others, Users, SessionInv, ServerInv, UsersInv
<1>9. \A u \in Others(c) : M("New", pnum[u]).kind = "New"
  BY <1>8, Packets DEF SessionInv, ServerInv, ServerTypes
<1>10. ASSUME NEW d \in Clients
       PROVE  \E a, l \in Seq(Message) :
                /\ a = IF d = c THEN <<reg>> ELSE <<>>
                /\ d = c => ToSet(l) = {M("New", pnum[u]) : u \in Others(c)}
                /\ \A m \in ToSet(l) : m.kind = "New"
                /\ inbox'[d]["CSystem"] = IF d \in linked /\ Running(d)
                                          THEN ((inbox[d]["CSystem"] \o a) \o <<new>>) \o l
                                          ELSE inbox[d]["CSystem"]
  <2>1. PICK a, l \in Seq(Message) :
           /\ d = c => a = <<M("Reg", pnum[c])>> /\ ToSet(l) = {M("New", pnum[u]) : u \in Others(c)}
           /\ d # c => a = <<>> /\ l = <<>>
           /\ inbox'[d]["CSystem"] = IF d \in linked /\ Running(d)
                                     THEN ((inbox[d]["CSystem"] \o a) \o <<M("New", pnum[c])>>) \o l
                                     ELSE inbox[d]["CSystem"]
    BY <1>4
  <2>2. ToSet(<<>>) = {}
    BY DEF ToSet
  <2>3. \A m \in ToSet(l) : m.kind = "New"
    BY <1>9, <2>1, <2>2
  <2>4. a = IF d = c THEN <<reg>> ELSE <<>>
    BY <1>6, <2>1
  <2> QED BY <1>7, <2>1, <2>3, <2>4
<1>11. \A d \in Clients : inbox[d]["CSystem"] \in Seq(Message)
  BY DEF SessionInv, MailInv, Mailbox, Channels
<1>12. ToSet(<<reg>>) = {reg} /\ ToSet(<<new>>) = {new} /\ <<new>> \in Seq(Message)
  <2>1. ToSet(<<reg>>) = {reg} /\ ToSet(<<new>>) = {new}
    BY DEF ToSet
  <2>2. <<new>> \in Seq(Message)
    OBVIOUS
  <2> QED BY <2>1, <2>2
<1>13. ASSUME NEW d \in Clients, NEW m \in ToSet(inbox'[d]["CSystem"])
       PROVE  \/ m \in ToSet(inbox[d]["CSystem"]) \/ m.kind = "New"
              \/ m = reg /\ d = c
  <2>1. PICK a, l \in Seq(Message) :
           /\ a = IF d = c THEN <<reg>> ELSE <<>>
           /\ \A x \in ToSet(l) : x.kind = "New"
           /\ inbox'[d]["CSystem"] = IF d \in linked /\ Running(d)
                                     THEN ((inbox[d]["CSystem"] \o a) \o <<new>>) \o l
                                     ELSE inbox[d]["CSystem"]
    BY <1>10
  <2>2. PICK s \in Seq(Message) : s = inbox[d]["CSystem"]
    BY <1>11
  <2>3. PICK n \in Seq(Message) : n = <<new>>
    BY <1>12
  <2>4. PICK t \in Seq(Message) : t = s \o a /\ ToSet(t) = ToSet(s) \cup ToSet(a)
    BY ConcatToSet
  <2>5. PICK v \in Seq(Message) : v = t \o n /\ ToSet(v) = ToSet(t) \cup ToSet(n)
    BY ConcatToSet
  <2>6. ToSet(v \o l) = ToSet(v) \cup ToSet(l)
    BY ConcatToSet
  <2>7. ToSet(a) \subseteq {x \in {reg} : d = c} /\ ToSet(n) = {new}
    <3>1. ToSet(<<>>) = {}
      BY DEF ToSet
    <3> QED BY <1>12, <2>1, <2>3, <3>1
  <2>8. m \in ToSet(v \o l) \/ m \in ToSet(s)
    BY <2>1, <2>2, <2>3, <2>4, <2>5
  <2> QED BY <1>7, <2>1, <2>2, <2>4, <2>5, <2>6, <2>7, <2>8
<1>14. PlayInv'
  <2>1. introduced \subseteq introduced' /\ c \in introduced'
    BY <1>2
  <2>2. ASSUME NEW d \in Clients, NEW m \in ToSet(inbox'[d]["CSystem"])
        PROVE  \/ m \in ToSet(inbox[d]["CSystem"]) \/ m.kind # "Reg"
               \/ m.num = pnum[d] /\ d \in introduced'
    BY <1>6, <1>13, <2>1
  <2> QED BY <1>2, <1>3, <2>1, <2>2, MailPlay DEF SessionInv
<1>15. TalkInv'
  <2> SUFFICES ASSUME NobodyLeft', NEW d \in Clients
               PROVE  /\ \A m \in ToSet(inbox'[d]["CSystem"]) : m.kind \in {"Reg", "New"}
                      /\ (d \in registered' /\ Running(d)) =>
                            \A u \in announced'[d] \cup {d} :
                                Knows(client[d], pnum[d], inbox'[d]["CSystem"], pnum[u])
                      /\ \A m \in ToSet(inbox'[d]["CGame"]) :
                            \E u \in introduced' \cup announced'[d] : m.num = pnum[u]
    BY <1>2 DEF TalkInv, Running
  <2>1. NobodyLeft
    BY <1>2 DEF NobodyLeft
  <2>2. /\ \A m \in ToSet(inbox[d]["CSystem"]) : m.kind \in {"Reg", "New"}
        /\ (d \in registered /\ Running(d)) =>
              \A u \in announced[d] \cup {d} : Knows(client[d], pnum[d], inbox[d]["CSystem"], pnum[u])
        /\ \A m \in ToSet(inbox[d]["CGame"]) : \E u \in introduced \cup announced[d] : m.num = pnum[u]
    BY <2>1 DEF SessionInv, TalkInv
  <2>3. \A m \in ToSet(inbox'[d]["CSystem"]) : m.kind \in {"Reg", "New"}
    BY <1>6, <1>13, <2>2
  <2>4. /\ announced[d] \subseteq announced'[d]
        /\ announced'[d] \subseteq announced[d] \cup {c} \cup {u \in Others(c) : d = c}
        /\ d = c => Others(c) \subseteq announced'[c]
    BY <1>2, <1>8 DEF Learn, SessionInv, ServerInv, ServerTypes
  <2>5. \A m \in ToSet(inbox'[d]["CGame"]) : \E u \in introduced' \cup announced'[d] : m.num = pnum[u]
    BY <1>2, <1>4, <2>2, <2>4
  <2>6. ASSUME d \in registered', Running(d), NEW u \in announced'[d] \cup {d}
        PROVE  Knows(client[d], pnum[d], inbox'[d]["CSystem"], pnum[u])
    <3>1. d \in linked
      BY <1>2, <2>1, <2>6 DEF NobodyLeft, SessionInv, ServerInv, UsersInv
    <3>2. PICK a, l \in Seq(Message) :
             /\ a = IF d = c THEN <<reg>> ELSE <<>>
             /\ d = c => ToSet(l) = {M("New", pnum[x]) : x \in Others(c)}
             /\ inbox'[d]["CSystem"] = ((inbox[d]["CSystem"] \o a) \o <<new>>) \o l
      BY <1>10, <2>6, <3>1
    <3>3. PICK s \in Seq(Message) : s = inbox[d]["CSystem"]
      BY <1>11
    <3>4. PICK n \in Seq(Message) : n = <<new>> /\ M("New", pnum[c]) \in ToSet(n)
      <4>1. <<new>> \in Seq(Message) /\ M("New", pnum[c]) \in ToSet(<<new>>)
        BY <1>7, <1>12
      <4> QED BY <4>1
    <3>5. s \o a \in Seq(Message) /\ (s \o a) \o n \in Seq(Message)
      BY ConcatProperties
    <3>6. inbox'[d]["CSystem"] = ((s \o a) \o n) \o l
      BY <3>2, <3>3, <3>4
    <3>7. PICK k : k = client[d]
      OBVIOUS
    <3>8. Confirmed(k, pnum[d], s \o a)
      <4>1. CASE d = c
        <5>1. /\ Len(s) \in Nat /\ Len(a) = 1 /\ a[1] = reg
          BY <3>2, <4>1, LenProperties
        <5>2. /\ Len(s \o a) = Len(s) + Len(a)
              /\ \A i \in 1 .. Len(s) + Len(a) :
                    (s \o a)[i] = IF i <= Len(s) THEN s[i] ELSE a[i - Len(s)]
          BY ConcatProperties
        <5>3. Len(s) + 1 \in 1 .. Len(s \o a) /\ (s \o a)[Len(s) + 1] = reg
          BY <5>1, <5>2
        <5> QED BY <1>6, <5>3 DEF Confirmed
      <4>2. CASE d # c
        <5>1. Knows(k, pnum[d], s, pnum[d])
          BY <1>2, <2>2, <2>6, <3>3, <3>7, <4>2
        <5> QED BY <5>1, KnowsNew, KnowsAppend
      <4> QED BY <4>1, <4>2
    <3>9. Confirmed(k, pnum[d], (s \o a) \o n)
      BY <3>5, <3>8, KnowsAppend
    <3>10. CASE pnum[u] = pnum[c]
      <4>1. Knows(k, pnum[d], (s \o a) \o n, pnum[u])
        BY <3>4, <3>5, <3>8, <3>10, KnowsNew
      <4> QED BY <3>5, <3>6, <3>7, <4>1, KnowsAppend
    <3>11. CASE d = c /\ u \in Others(c)
      <4>1. M("New", pnum[u]) \in ToSet(l)
        BY <3>2, <3>11
      <4> QED BY <3>5, <3>6, <3>7, <3>9, <4>1, KnowsNew
    <3>12. CASE d = c /\ u \notin Others(c) /\ pnum[u] # pnum[c]
      <4>1. u \in announced[c] /\ u \in Clients /\ pnum[u] # 0
        BY <2>4, <2>6, <3>12 DEF SessionInv, ServerInv, ServerTypes, UsersInv
      <4>2. u \in Users
        BY <2>1, <4>1 DEF NobodyLeft, SessionInv, ServerInv, UsersInv
      <4> QED BY <1>8, <3>12, <4>2
    <3>13. CASE d # c /\ pnum[u] # pnum[c]
      <4>1. u \in announced[d] \cup {d} /\ d \in registered
        BY <1>2, <2>4, <2>6, <3>13
      <4>2. Knows(k, pnum[d], s, pnum[u])
        BY <2>2, <2>6, <3>3, <3>7, <4>1
      <4>3. Knows(k, pnum[d], (s \o a) \o n, pnum[u])
        BY <3>5, <4>2, KnowsAppend
      <4> QED BY <3>5, <3>6, <3>7, <4>3, KnowsAppend
    <3> QED BY <3>10, <3>11, <3>12, <3>13
  <2> QED BY <2>3, <2>5, <2>6
<1> QED BY <1>1, <1>5, <1>14, <1>15 DEF SessionInv

-----------------------------------------------------------------------------
(* The steps of the clients.                                               *)

\* There is a client.
LEMMA SomeClient ==
    ASSUME NEW c \in Clients
    PROVE  Cardinality(Clients) >= 1
BY ClientsAssumption, FS_EmptySet, NumbersFacts

\* What one client does changes nothing for the others.  For the invariant it is
\* enough that this client is still right.
LEMMA OneClientStep ==
    ASSUME SessionInv, NEW c \in Clients, NEW k \in Client, NEW box \in Mailbox,
           UNCHANGED serverVars,
           client' = [client EXCEPT ![c] = k], inbox' = [inbox EXCEPT ![c] = box],
           pending' \in [Clients -> SUBSET Requests], asked' \in [Clients -> SUBSET Requests],
           \A d \in Clients : d # c => pending'[d] = pending[d],
           k.state = "idle" => client[c].state = "idle",
           SelfOK(k, pnum[c]),
           k.players[pnum[c]] = Local => c \in introduced,
           pending'[c] \cap {"Upd", "Shoot"} # {} => c \in introduced,
           \A m \in ToSet(box["CSystem"]) : m \in ToSet(inbox[c]["CSystem"]),
           \A m \in ToSet(box["CGame"]) : m \in ToSet(inbox[c]["CGame"]),
           (NobodyLeft /\ c \in registered /\ k.state = "running") =>
               \A u \in announced[c] \cup {c} : Knows(k, pnum[c], box["CSystem"], pnum[u])
    PROVE  SessionInv'
<1>1. /\ linked' = linked /\ registered' = registered /\ pnum' = pnum
      /\ announced' = announced /\ introduced' = introduced
  BY DEF serverVars
<1>2. /\ client \in [Clients -> Client] /\ inbox \in [Clients -> Mailbox]
  BY DEF SessionInv, ClientTypes, MailInv
<1>3. /\ client' \in [Clients -> Client] /\ client'[c] = k
      /\ \A d \in Clients : d # c => client'[d] = client[d]
  BY <1>2
<1>4. /\ inbox' \in [Clients -> Mailbox] /\ inbox'[c] = box
      /\ \A d \in Clients : d # c => inbox'[d] = inbox[d]
  BY <1>2
<1>5. ServerInv'
  <2>1. \A d \in Clients : client'[d].state = "idle" => client[d].state = "idle"
    BY <1>3
  <2> QED BY <2>1, SameServer DEF SessionInv
<1>6. ClientTypes' /\ MailInv'
  BY <1>3, <1>4 DEF ClientTypes, MailInv
<1>7. PlayInv'
  <2> SUFFICES ASSUME NEW d \in Clients
               PROVE  /\ SelfOK(client'[d], pnum[d])
                      /\ \A m \in ToSet(inbox'[d]["CSystem"]) :
                            m.kind = "Reg" => m.num = pnum[d] /\ d \in introduced
                      /\ client'[d].players[pnum[d]] = Local => d \in introduced
                      /\ pending'[d] \cap {"Upd", "Shoot"} # {} => d \in introduced
    BY <1>1 DEF PlayInv
  <2>1. /\ SelfOK(client[d], pnum[d])
        /\ \A m \in ToSet(inbox[d]["CSystem"]) : m.kind = "Reg" => m.num = pnum[d] /\ d \in introduced
        /\ client[d].players[pnum[d]] = Local => d \in introduced
        /\ pending[d] \cap {"Upd", "Shoot"} # {} => d \in introduced
    BY DEF SessionInv, PlayInv
  <2>2. CASE d = c
    BY <1>3, <1>4, <2>1, <2>2
  <2>3. CASE d # c
    BY <1>3, <1>4, <2>1, <2>3
  <2> QED BY <2>2, <2>3
<1>8. TalkInv'
  <2> SUFFICES ASSUME NobodyLeft', NEW d \in Clients
               PROVE  /\ \A m \in ToSet(inbox'[d]["CSystem"]) : m.kind \in {"Reg", "New"}
                      /\ (d \in registered /\ client'[d].state = "running") =>
                            \A u \in announced[d] \cup {d} :
                                Knows(client'[d], pnum[d], inbox'[d]["CSystem"], pnum[u])
                      /\ \A m \in ToSet(inbox'[d]["CGame"]) :
                            \E u \in introduced \cup announced[d] : m.num = pnum[u]
    BY <1>1 DEF TalkInv, Running
  <2>1. NobodyLeft
    BY <1>1 DEF NobodyLeft
  <2>2. /\ \A m \in ToSet(inbox[d]["CSystem"]) : m.kind \in {"Reg", "New"}
        /\ (d \in registered /\ client[d].state = "running") =>
              \A u \in announced[d] \cup {d} : Knows(client[d], pnum[d], inbox[d]["CSystem"], pnum[u])
        /\ \A m \in ToSet(inbox[d]["CGame"]) : \E u \in introduced \cup announced[d] : m.num = pnum[u]
    BY <2>1 DEF SessionInv, TalkInv, Running
  <2>3. CASE d = c
    <3>1. \A m \in ToSet(inbox'[d]["CSystem"]) : m.kind \in {"Reg", "New"}
      BY <1>4, <2>2, <2>3
    <3>2. \A m \in ToSet(inbox'[d]["CGame"]) : \E u \in introduced \cup announced[d] : m.num = pnum[u]
      BY <1>4, <2>2, <2>3
    <3>3. (c \in registered /\ k.state = "running") =>
             \A u \in announced[c] \cup {c} : Knows(k, pnum[c], box["CSystem"], pnum[u])
      BY <2>1
    <3> QED BY <1>3, <1>4, <2>3, <3>1, <3>2, <3>3
  <2>4. CASE d # c
    BY <1>3, <1>4, <2>2, <2>4
  <2> QED BY <2>3, <2>4
<1> QED BY <1>5, <1>6, <1>7, <1>8 DEF SessionInv

\* What the invariant says of a client and its mail.
LEMMA OwnFacts ==
    ASSUME SessionInv, NEW c \in Clients
    PROVE  /\ client[c] \in Client /\ inbox[c] \in Mailbox /\ pnum[c] \in Numbers
           /\ pending \in [Clients -> SUBSET Requests] /\ asked \in [Clients -> SUBSET Requests]
           /\ client \in [Clients -> Client] /\ inbox \in [Clients -> Mailbox]
           /\ SelfOK(client[c], pnum[c])
           /\ client[c].players[pnum[c]] = Local => c \in introduced
           /\ pending[c] \cap {"Upd", "Shoot"} # {} => c \in introduced
BY DEF SessionInv, ServerInv, ServerTypes, ClientTypes, MailInv, PlayInv

\* No mail is a mailbox.
LEMMA NoMailFacts ==
    /\ NoMail \in Mailbox /\ ToSet(NoMail["CSystem"]) = {} /\ ToSet(NoMail["CGame"]) = {}
<1>1. ToSet(<<>>) = {} /\ <<>> \in Seq(Message)
  BY DEF ToSet
<1>2. \A ch \in Channels : NoMail[ch] = <<>>
  BY DEF NoMail
<1>3. NoMail \in [Channels -> Seq(Message)]
  BY <1>1 DEF NoMail
<1>4. "CSystem" \in Channels /\ "CGame" \in Channels
  BY DEF Channels
<1> QED BY <1>1, <1>2, <1>3, <1>4 DEF Mailbox, MailOK

\* main (abg.cpp): a client starts before the server knows it.
LEMMA StartStep ==
    ASSUME SessionInv, NEW c \in Clients, Start(c)
    PROVE  SessionInv'
<1>1. /\ client[c].state = "idle" /\ client' = [client EXCEPT ![c].state = "running"]
      /\ pending' = [pending EXCEPT ![c] = {"Reg"}] /\ asked' = [asked EXCEPT ![c] = {"Reg"}]
      /\ UNCHANGED serverVars /\ inbox' = inbox
  BY DEF Start
<1>2. PICK k : k = [state |-> "running", num |-> client[c].num, players |-> client[c].players,
                    scene |-> client[c].scene, orphan |-> client[c].orphan]
  OBVIOUS
<1>3. k \in Client /\ k.state = "running" /\ k.players = client[c].players /\ k.scene = client[c].scene
      /\ k.num = client[c].num
  BY <1>2, OwnFacts DEF Client
<1>4. client' = [client EXCEPT ![c] = k]
  BY <1>1, <1>2, OneField, OwnFacts
<1>5. inbox' = [inbox EXCEPT ![c] = inbox[c]]
  BY <1>1, OwnFacts
<1>6. /\ pending' \in [Clients -> SUBSET Requests] /\ asked' \in [Clients -> SUBSET Requests]
      /\ pending'[c] = {"Reg"} /\ \A d \in Clients : d # c => pending'[d] = pending[d]
  BY <1>1, OwnFacts DEF Requests
<1>7. SelfOK(k, pnum[c])
  BY <1>3, OwnFacts DEF SelfOK
<1>8. c \notin registered
  BY <1>1 DEF SessionInv, ServerInv, UsersInv
<1>9. pending'[c] \cap {"Upd", "Shoot"} = {}
  BY <1>6
<1>10. client[c].players[pnum[c]] = Local => c \in introduced
  BY OwnFacts
<1>11. inbox[c] \in Mailbox
  BY OwnFacts
<1>12. UNCHANGED serverVars /\ k.state # "idle"
  BY <1>1, <1>3
<1>13. k.players[pnum[c]] = Local => c \in introduced
  BY <1>3, <1>10
<1> QED BY <1>3, <1>4, <1>5, <1>6, <1>7, <1>8, <1>9, <1>11, <1>12, <1>13, OneClientStep

\* A client that moves or shoots has its own pawn in the scene.
LEMMA AskStep ==
    ASSUME SessionInv, NEW c \in Clients, NEW request \in Allowed(c), Ask(c, request)
    PROVE  SessionInv'
<1>1. /\ pending' = [pending EXCEPT ![c] = pending[c] \cup {request}]
      /\ asked' = [asked EXCEPT ![c] = asked[c] \cup {request}]
      /\ UNCHANGED serverVars /\ inbox' = inbox /\ client' = client
      /\ request \in Requests /\ (request # "Msg" => Plays(c))
  BY DEF Ask, Allowed
<1>2. client' = [client EXCEPT ![c] = client[c]] /\ inbox' = [inbox EXCEPT ![c] = inbox[c]]
  BY <1>1, OwnFacts
<1>3. /\ pending' \in [Clients -> SUBSET Requests] /\ asked' \in [Clients -> SUBSET Requests]
      /\ pending'[c] = pending[c] \cup {request} /\ \A d \in Clients : d # c => pending'[d] = pending[d]
  BY <1>1, OwnFacts
<1>4. Plays(c) => client[c].players[pnum[c]] = Local
  BY OwnFacts DEF Plays, SelfOK
<1>5. client[c].players[pnum[c]] = Local => c \in introduced
  BY OwnFacts
<1>6. pending'[c] \cap {"Upd", "Shoot"} # {} => c \in introduced
  <2>1. pending[c] \cap {"Upd", "Shoot"} # {} => c \in introduced
    BY OwnFacts
  <2>2. request \in {"Upd", "Shoot"} => c \in introduced
    BY <1>1, <1>4, <1>5
  <2> QED BY <1>3, <2>1, <2>2
<1>7. (NobodyLeft /\ c \in registered /\ client[c].state = "running") =>
         \A u \in announced[c] \cup {c} : Knows(client[c], pnum[c], inbox[c]["CSystem"], pnum[u])
  BY DEF SessionInv, TalkInv, Running
<1>8. client[c] \in Client /\ inbox[c] \in Mailbox /\ SelfOK(client[c], pnum[c])
  BY OwnFacts
<1> QED BY <1>1, <1>2, <1>3, <1>5, <1>6, <1>7, <1>8, OneClientStep

\* A client that has ended, by itself or by a disconnect, has nothing left.
LEMMA EndStep ==
    ASSUME SessionInv, NEW c \in Clients, Leave(c) \/ ClientDisconnect(c)
    PROVE  SessionInv'
<1>1. /\ client' = [client EXCEPT ![c] = Ended("gone")] /\ inbox' = [inbox EXCEPT ![c] = NoMail]
      /\ asked' = [asked EXCEPT ![c] = {}] /\ pending' = pending /\ UNCHANGED serverVars
  BY DEF Leave, ClientDisconnect
<1>2. PICK k : k = Ended("gone")
  OBVIOUS
<1>3. /\ k \in Client /\ k.state = "gone" /\ k.scene = <<>> /\ k.players = [n \in Numbers |-> NULL]
  BY <1>2, EndedFacts, SomeClient
<1>4. NULL # Local /\ pnum[c] \in Numbers
  BY OwnFacts DEF NULL, Local
<1>5. Local \notin ToSet(k.scene) /\ \A n \in Numbers : k.players[n] # Local
  BY <1>3, <1>4 DEF ToSet
<1>6. SelfOK(k, pnum[c]) /\ k.players[pnum[c]] # Local
  BY <1>3, <1>4, <1>5 DEF SelfOK
<1>7. pending' \in [Clients -> SUBSET Requests] /\ asked' \in [Clients -> SUBSET Requests]
  BY <1>1, OwnFacts
<1>8. pending[c] \cap {"Upd", "Shoot"} # {} => c \in introduced
  BY OwnFacts
<1> QED BY <1>1, <1>2, <1>3, <1>6, <1>7, <1>8, NoMailFacts, OneClientStep

\* A mailbox without the first message of a channel.
LEMMA TailBox ==
    ASSUME NEW b \in Mailbox, NEW ch \in Channels, b[ch] # <<>>
    PROVE  /\ [b EXCEPT ![ch] = Tail(b[ch])] \in Mailbox
           /\ [b EXCEPT ![ch] = Tail(b[ch])][ch] = Tail(b[ch])
           /\ \A x \in Channels : x # ch => [b EXCEPT ![ch] = Tail(b[ch])][x] = b[x]
           /\ \A x \in Channels : ToSet([b EXCEPT ![ch] = Tail(b[ch])][x]) \subseteq ToSet(b[x])
<1> DEFINE t == Tail(b[ch])
           r == [b EXCEPT ![ch] = t]
<1>1. b \in [Channels -> Seq(Message)] /\ \A x \in Channels : MailOK(x, b[x])
  BY DEF Mailbox
<1>2. MailOK(ch, t) /\ ToSet(t) \subseteq ToSet(b[ch])
  BY <1>1, MailFacts
<1> HIDE DEF t
<1>3. t \in Seq(Message)
  BY <1>2 DEF MailOK
<1>4. r \in [Channels -> Seq(Message)] /\ r[ch] = t /\ \A x \in Channels : x # ch => r[x] = b[x]
  BY <1>1, <1>3
<1> HIDE DEF r
<1>5. \A x \in Channels : MailOK(x, r[x]) /\ ToSet(r[x]) \subseteq ToSet(b[x])
  BY <1>1, <1>2, <1>4
<1>6. r \in Mailbox
  BY <1>4, <1>5 DEF Mailbox
<1> QED BY <1>4, <1>5, <1>6 DEF r, t

\* The first message of a channel, and what the invariant says of it.
LEMMA HeadOfMail ==
    ASSUME SessionInv, NEW c \in Clients, NEW ch \in Channels, inbox[c][ch] # <<>>
    PROVE  LET m == Head(inbox[c][ch]) IN
           /\ m \in Message /\ m \in ToSet(inbox[c][ch]) /\ m.kind \in Kinds(ch)
           /\ ch = "CSystem" /\ m.kind = "Reg" => m.num = pnum[c] /\ c \in introduced /\ pnum[c] # 0
<1>1. inbox[c] \in Mailbox
  BY OwnFacts
<1>2. MailOK(ch, inbox[c][ch])
  BY <1>1 DEF Mailbox
<1> DEFINE m == Head(inbox[c][ch])
<1>3. m \in Message /\ m.kind \in Kinds(ch) /\ m \in ToSet(inbox[c][ch])
  BY <1>2, MailFacts
<1> HIDE DEF m
<1>4. ch = "CSystem" /\ m.kind = "Reg" => m.num = pnum[c] /\ c \in introduced
  BY <1>3 DEF SessionInv, PlayInv
<1>5. c \in introduced => pnum[c] # 0
  BY DEF SessionInv, ServerInv, UsersInv
<1> QED BY <1>3, <1>4, <1>5 DEF m

\* Client::HandleEvent.
LEMMA HandleStep ==
    ASSUME SessionInv, NEW c \in Clients, NEW ch \in Channels, HandleEvent(c, ch)
    PROVE  SessionInv'
<1>1. PICK m : m = Head(inbox[c][ch])
  OBVIOUS
<1>2. client[c].state = "running" /\ inbox[c][ch] # <<>> /\ UNCHANGED serverVars /\ pending' = pending
  BY DEF HandleEvent, Running
<1>3. /\ m \in Message /\ m \in ToSet(inbox[c][ch]) /\ m.kind \in Kinds(ch)
      /\ ch = "CSystem" /\ m.kind = "Reg" => m.num = pnum[c] /\ c \in introduced /\ pnum[c] # 0
  BY <1>1, <1>2, HeadOfMail
<1>4. PICK k : /\ \/ ch = "CSystem" /\ \E g \in Garbage : k = HandleSystem(client[c], m, g)
                  \/ ch # "CSystem" /\ k = HandleGame(client[c], m)
               /\ client' = [client EXCEPT ![c] = k]
               /\ inbox' = [inbox EXCEPT ![c] =
                     IF k.state = "broken" THEN NoMail ELSE [inbox[c] EXCEPT ![ch] = Tail(inbox[c][ch])]]
               /\ asked' = IF k.state = "broken" THEN [asked EXCEPT ![c] = {}] ELSE asked
  BY <1>1 DEF HandleEvent
<1>5. PICK box : box = IF k.state = "broken" THEN NoMail ELSE [inbox[c] EXCEPT ![ch] = Tail(inbox[c][ch])]
  OBVIOUS
<1>6. /\ client[c] \in Client /\ inbox[c] \in Mailbox /\ pnum[c] \in Numbers
      /\ asked \in [Clients -> SUBSET Requests] /\ SelfOK(client[c], pnum[c])
      /\ client[c].players[pnum[c]] = Local => c \in introduced
  BY OwnFacts
<1>7. "CSystem" \in Channels /\ "CGame" \in Channels
  BY DEF Channels
<1>8. /\ box \in Mailbox
      /\ \A x \in ToSet(box["CSystem"]) : x \in ToSet(inbox[c]["CSystem"])
      /\ \A x \in ToSet(box["CGame"]) : x \in ToSet(inbox[c]["CGame"])
  <2>1. CASE k.state = "broken"
    BY <1>5, <2>1, NoMailFacts
  <2>2. CASE k.state # "broken"
    BY <1>2, <1>5, <1>6, <1>7, <2>2, TailBox
  <2> QED BY <2>1, <2>2
<1>9. pending' \in [Clients -> SUBSET Requests] /\ asked' \in [Clients -> SUBSET Requests]
      /\ (pending'[c] \cap {"Upd", "Shoot"} # {} => c \in introduced)
  BY <1>2, <1>4, <1>6, OwnFacts
<1>10. (NobodyLeft /\ c \in registered /\ client[c].state = "running") =>
          \A u \in announced[c] \cup {c} : Knows(client[c], pnum[c], inbox[c]["CSystem"], pnum[u])
  BY DEF SessionInv, TalkInv, Running
<1>11. CASE ch = "CSystem"
  <2>1. PICK g \in Garbage : k = HandleSystem(client[c], m, g)
    BY <1>4, <1>11
  <2>2. m.kind \in Kinds("CSystem") /\ (m.kind = "Reg" => m.num = pnum[c] /\ pnum[c] # 0)
    BY <1>3, <1>11
  <2>3. /\ Follows(client[c], k, pnum[c])
        /\ k.players[pnum[c]] = Local => client[c].players[pnum[c]] = Local \/ m.kind = "Reg"
        /\ m.kind \in {"Reg", "New"} =>
             /\ k.state = "running"
             /\ \A i \in Numbers : client[c].players[i] # NULL => k.players[i] # NULL
             /\ client[c].players[pnum[c]] = Local \/ m.kind = "Reg" => k.players[pnum[c]] = Local
             /\ m.kind = "New" /\ client[c].players[pnum[c]] = Local => k.players[m.num] # NULL
    BY <1>2, <1>3, <1>6, <2>1, <2>2, SomeClient, HandleSystemFollows
  <2>4. k \in Client /\ k.state # "idle" /\ SelfOK(k, pnum[c])
    BY <2>3 DEF Follows
  <2>5. k.players[pnum[c]] = Local => c \in introduced
    BY <1>3, <1>6, <1>11, <2>3
  <2>6. ASSUME NobodyLeft, c \in registered, k.state = "running", NEW u \in announced[c] \cup {c}
        PROVE  Knows(k, pnum[c], box["CSystem"], pnum[u])
    <3>1. m.kind \in {"Reg", "New"}
      BY <1>3, <1>11, <2>6 DEF SessionInv, TalkInv
    <3>2. box["CSystem"] = Tail(inbox[c]["CSystem"])
      BY <1>2, <1>5, <1>6, <1>7, <1>11, <2>6, TailBox
    <3>3. inbox[c]["CSystem"] \in Seq(Message)
      BY <1>6, <1>7 DEF Mailbox
    <3>4. Knows(client[c], pnum[c], inbox[c]["CSystem"], pnum[u])
      BY <1>2, <1>10, <2>6
    <3>5. pnum[u] \in Numbers
      BY <2>6 DEF SessionInv, ServerInv, ServerTypes
    <3>6. /\ Head(inbox[c]["CSystem"]) = m /\ inbox[c]["CSystem"] # <<>>
      BY <1>1, <1>2, <1>11
    <3>7. PICK s \in Seq(Message) : s = inbox[c]["CSystem"]
      BY <3>3
    <3>8. PICK o : o = client[c]
      OBVIOUS
    <3>9. Knows(k, pnum[c], Tail(s), pnum[u])
      BY <2>3, <3>1, <3>4, <3>5, <3>6, <3>7, <3>8, KnowsTail
    <3> QED BY <3>2, <3>7, <3>9
  <2> QED BY <1>2, <1>4, <1>5, <1>8, <1>9, <2>4, <2>5, <2>6, OneClientStep
<1>12. CASE ch # "CSystem"
  <2>1. k = HandleGame(client[c], m) /\ m.kind \in Kinds("CGame")
    BY <1>3, <1>4, <1>12 DEF Kinds
  <2>2. /\ Follows(client[c], k, pnum[c])
        /\ k.state # "broken" => k.players = client[c].players
        /\ k.players[pnum[c]] = Local => client[c].players[pnum[c]] = Local
    BY <1>2, <1>3, <1>6, <2>1, SomeClient, HandleGameFollows
  <2>3. k \in Client /\ k.state # "idle" /\ SelfOK(k, pnum[c])
    BY <2>2 DEF Follows
  <2>4. k.players[pnum[c]] = Local => c \in introduced
    BY <1>6, <2>2
  <2>5. ASSUME NobodyLeft, c \in registered, k.state = "running", NEW u \in announced[c] \cup {c}
        PROVE  Knows(k, pnum[c], box["CSystem"], pnum[u])
    <3>1. box["CSystem"] = inbox[c]["CSystem"]
      BY <1>2, <1>5, <1>6, <1>7, <1>12, <2>5, TailBox
    <3>2. Knows(client[c], pnum[c], inbox[c]["CSystem"], pnum[u])
      BY <1>2, <1>10, <2>5
    <3>3. k.players = client[c].players
      BY <2>2, <2>5
    <3> QED BY <3>1, <3>2, <3>3 DEF Knows
  <2> QED BY <1>2, <1>4, <1>5, <1>8, <1>9, <2>3, <2>4, <2>5, OneClientStep
<1> QED BY <1>11, <1>12

\* An Upd is lost on its way to the client.
LEMMA LoseEventStep ==
    ASSUME SessionInv, NEW c \in Clients, LoseEvent(c)
    PROVE  SessionInv'
<1>1. /\ inbox[c]["CGame"] # <<>> /\ inbox' = [inbox EXCEPT ![c]["CGame"] = Tail(inbox[c]["CGame"])]
      /\ UNCHANGED serverVars /\ pending' = pending /\ asked' = asked /\ client' = client
  BY DEF LoseEvent
<1>2. PICK box : box = [inbox[c] EXCEPT !["CGame"] = Tail(inbox[c]["CGame"])]
  OBVIOUS
<1>3. client \in [Clients -> Client] /\ inbox \in [Clients -> Mailbox] /\ inbox[c] \in Mailbox
      /\ client[c] \in Client
  BY OwnFacts
<1>4. "CSystem" \in Channels /\ "CGame" \in Channels /\ "CSystem" # "CGame"
  BY DEF Channels
<1>5. /\ box \in Mailbox /\ box["CSystem"] = inbox[c]["CSystem"]
      /\ \A x \in Channels : ToSet(box[x]) \subseteq ToSet(inbox[c][x])
  <2>1. PICK b \in Mailbox : b = inbox[c]
    BY <1>3
  <2>2. b["CGame"] # <<>> /\ box = [b EXCEPT !["CGame"] = Tail(b["CGame"])]
    BY <1>1, <1>2, <2>1
  <2>3. /\ box \in Mailbox /\ \A x \in Channels : x # "CGame" => box[x] = b[x]
        /\ \A x \in Channels : ToSet(box[x]) \subseteq ToSet(b[x])
    BY <1>4, <2>2, TailBox, ZenonT(30)
  <2> QED BY <1>4, <2>1, <2>3
<1>6. inbox' = [inbox EXCEPT ![c] = box] /\ client' = [client EXCEPT ![c] = client[c]]
  BY <1>1, <1>2, <1>3
<1>7. (NobodyLeft /\ c \in registered /\ client[c].state = "running") =>
         \A u \in announced[c] \cup {c} : Knows(client[c], pnum[c], inbox[c]["CSystem"], pnum[u])
  BY DEF SessionInv, TalkInv, Running
<1>8. /\ pending \in [Clients -> SUBSET Requests] /\ asked \in [Clients -> SUBSET Requests]
      /\ SelfOK(client[c], pnum[c])
      /\ client[c].players[pnum[c]] = Local => c \in introduced
      /\ pending[c] \cap {"Upd", "Shoot"} # {} => c \in introduced
  BY OwnFacts
<1> QED BY <1>1, <1>3, <1>4, <1>5, <1>6, <1>7, <1>8, OneClientStep

-----------------------------------------------------------------------------
(* The theorems.                                                           *)

\* Nobody has connected, and nothing has been sent.
LEMMA SessionInit == Init => SessionInv
<1> SUFFICES ASSUME Init PROVE SessionInv
  OBVIOUS
<1>1. ToSet(<<>>) = {} /\ <<>> \in Seq(Clients) /\ Distinct(<<>>)
  BY DEF ToSet, Distinct
<1>2. /\ users = <<>> /\ linked = {} /\ registered = {} /\ introduced = {}
      /\ pnum = [c \in Clients |-> 0] /\ announced = [c \in Clients |-> {}]
      /\ pending = [c \in Clients |-> {}] /\ asked = [c \in Clients |-> {}]
      /\ inbox = [c \in Clients |-> NoMail] /\ client = [c \in Clients |-> NewClient]
  BY DEF Init
<1>3. ServerTypes
  BY <1>1, <1>2, NumbersFacts DEF ServerTypes
<1>4. UsersInv
  BY <1>1, <1>2 DEF UsersInv, Users
<1>5. GoneIsAnnounced /\ Acquainted
  BY <1>2 DEF GoneIsAnnounced, Acquainted
<1>6. MailInv
  BY <1>2, NoMailFacts DEF MailInv
<1>7. ASSUME NEW c \in Clients
      PROVE  /\ client[c] \in Client
             /\ \A n \in Numbers : client[c].players[n] # Local
             /\ client[c].scene = <<>> /\ Local \notin ToSet(client[c].scene)
  <2>1. NULL \in Pawn /\ <<>> \in Seq(Pawn) /\ 1 \in Numbers /\ NULL # Local
    BY SomeClient, NumbersFacts DEF NULL, Local, Pawn, Numbers
  <2>2. client[c] = [state |-> "idle", num |-> 1, players |-> [n \in Numbers |-> NULL],
                     scene |-> <<>>, orphan |-> FALSE]
    BY <1>2 DEF NewClient
  <2> QED BY <1>1, <2>1, <2>2 DEF Client
<1>8. ClientTypes
  BY <1>2, <1>7 DEF ClientTypes
<1>9. PlayInv
  <2> SUFFICES ASSUME NEW c \in Clients
               PROVE  /\ SelfOK(client[c], pnum[c])
                      /\ \A m \in ToSet(inbox[c]["CSystem"]) :
                            m.kind = "Reg" => m.num = pnum[c] /\ c \in introduced
                      /\ client[c].players[pnum[c]] = Local => c \in introduced
                      /\ pending[c] \cap {"Upd", "Shoot"} # {} => c \in introduced
    BY DEF PlayInv
  <2>1. SelfOK(client[c], pnum[c])
    BY <1>7 DEF SelfOK
  <2>2. pnum[c] \in Numbers /\ inbox[c] = NoMail /\ pending[c] = {}
    BY <1>2, NumbersFacts
  <2> QED BY <1>7, <2>1, <2>2, NoMailFacts
<1>10. TalkInv
  <2>1. \A c \in Clients : inbox[c] = NoMail
    BY <1>2
  <2> QED BY <1>2, <2>1, NoMailFacts DEF TalkInv
<1> QED BY <1>3, <1>4, <1>5, <1>6, <1>8, <1>9, <1>10 DEF SessionInv, ServerInv

\* No action disturbs it, nor does a stutter.
LEMMA SessionStep == SessionInv /\ [Next]_vars => SessionInv'
<1> SUFFICES ASSUME SessionInv, [Next]_vars PROVE SessionInv'
  OBVIOUS
<1>1. ASSUME NEW c \in Clients, ServerConnect(c) PROVE SessionInv'
  BY <1>1, ConnectStep
<1>2. ASSUME NEW c \in Clients, LinkLost(c) PROVE SessionInv'
  BY <1>2, LinkLostStep
<1>3. ASSUME NEW c \in Clients, ServerDisconnect(c) PROVE SessionInv'
  BY <1>3, DisconnectStep
<1>4. ASSUME NEW c \in Clients, OnRegister(c) PROVE SessionInv'
  BY <1>4, RegisterStep
<1>5. ASSUME NEW c \in Clients, NEW request \in {"Upd", "Shoot"}, Relay(c, request) PROVE SessionInv'
  BY <1>5, RelayStep
<1>6. ASSUME NEW c \in Clients, LoseUpdate(c) PROVE SessionInv'
  BY <1>6, LoseUpdateStep
<1>7. ASSUME NEW c \in Clients, OnMsg(c) PROVE SessionInv'
  BY <1>7, MsgStep
<1>8. ASSUME NEW c \in Clients, Start(c) PROVE SessionInv'
  BY <1>8, StartStep
<1>9. ASSUME NEW c \in Clients, NEW request \in Allowed(c), Ask(c, request) PROVE SessionInv'
  BY <1>9, AskStep
<1>10. ASSUME NEW c \in Clients, Leave(c) \/ ClientDisconnect(c) PROVE SessionInv'
  BY <1>10, EndStep
<1>11. ASSUME NEW c \in Clients, NEW ch \in Channels, HandleEvent(c, ch) PROVE SessionInv'
  BY <1>11, HandleStep
<1>12. ASSUME NEW c \in Clients, LoseEvent(c) PROVE SessionInv'
  BY <1>12, LoseEventStep
<1>13. CASE UNCHANGED vars
  <2>1. /\ users' = users /\ linked' = linked /\ registered' = registered /\ pnum' = pnum
        /\ announced' = announced /\ introduced' = introduced /\ UNCHANGED serverVars
        /\ pending' = pending /\ asked' = asked /\ inbox' = inbox /\ client' = client
    BY <1>13 DEF vars, serverVars
  <2>2. MailInv' /\ pending' \in [Clients -> SUBSET Requests]
    BY <2>1 DEF SessionInv, MailInv, ClientTypes
  <2> QED BY <2>1, <2>2, GameMail
<1> QED BY <1>1, <1>2, <1>3, <1>4, <1>5, <1>6, <1>7, <1>8, <1>9, <1>10, <1>11, <1>12, <1>13 DEF Next

\* SessionInv holds of every behaviour.
THEOREM SessionInvariant == Spec => []SessionInv
<1>1. Init => SessionInv
  BY SessionInit
<1>2. SessionInv /\ [Next]_vars => SessionInv'
  BY SessionStep
<1> QED BY <1>1, <1>2, PTL DEF Spec

\* The state of the server and of every client has the form the code gives it;
\* among this, a user's number never exceeds the number of clients.
THEOREM SessionTypeCorrect == Spec => []TypeOK
<1>1. SessionInv => TypeOK
  BY SessionTypes DEF SessionInv, ServerInv
<1> QED BY <1>1, SessionInvariant, PTL

\* The own pawn of a client stands under the number the server has given its
\* user, whatever News were read before the confirmation and whatever the
\* handlers read out of used-up packets (Client::HandleEvent).
THEOREM OwnNumberIsTheServers == Spec => []NumbersAgree
<1>1. SessionInv => NumbersAgree
  BY DEF SessionInv, PlayInv, SelfOK, NumbersAgree
<1> QED BY <1>1, SessionInvariant, PTL

\* A connected client that was told of a user is told when that user is gone,
\* whether it was booted or disconnected, in whatever order the others came
\* (Server::Boot, Server::ServerTick).
THEOREM EveryEndIsAnnounced == Spec => []GoneIsAnnounced
<1>1. SessionInv => GoneIsAnnounced
  BY DEF SessionInv, ServerInv
<1> QED BY <1>1, SessionInvariant, PTL

\* Any two connected registered users that do not share a number have been told
\* of each other (Server::OnRegister).
THEOREM AllAreIntroduced == Spec => []Acquainted
<1>1. SessionInv => Acquainted
  BY DEF SessionInv, ServerInv
<1> QED BY <1>1, SessionInvariant, PTL

\* As long as nobody has left, a client that plays and has read its system
\* messages finds a pawn for every game message on its way to it, although the
\* two channels are not ordered (Client::HandleEvent).
THEOREM NoUnknownPlayer == Spec => []KnownOnceCaughtUp
<1>1. SessionInv => KnownOnceCaughtUp
  <2> SUFFICES ASSUME SessionInv, NobodyLeft, NEW c \in Clients, CaughtUp(c),
                      NEW i \in 1 .. Len(inbox[c]["CGame"])
               PROVE  client[c].players[inbox[c]["CGame"][i].num] # NULL
    BY DEF KnownOnceCaughtUp
  <2>1. /\ client[c] \in Client /\ inbox[c] \in Mailbox /\ SelfOK(client[c], pnum[c])
        /\ client[c].players[pnum[c]] = Local => c \in introduced
    BY OwnFacts
  <2>2. "CSystem" \in Channels /\ "CGame" \in Channels /\ Local # NULL
    BY DEF Channels, Local, NULL
  <2>3. Local \in ToSet(client[c].scene) /\ inbox[c]["CSystem"] = <<>>
    BY DEF CaughtUp
  <2>4. client[c].players[pnum[c]] = Local /\ c \in introduced
    BY <2>1, <2>3 DEF SelfOK
  <2>5. client[c].scene # <<>>
    BY <2>3 DEF ToSet
  <2>6. Running(c)
    BY <2>1, <2>5 DEF SelfOK, Running
  <2>7. \A u \in introduced : u \in linked \cap registered
    BY DEF SessionInv, ServerInv, ServerTypes, UsersInv, NobodyLeft
  <2>8. inbox[c]["CGame"][i] \in ToSet(inbox[c]["CGame"])
    <3>1. inbox[c]["CGame"] \in Seq(Message)
      BY <2>1, <2>2 DEF Mailbox
    <3> QED BY <3>1, ToSetFacts
  <2>9. PICK u \in introduced \cup announced[c] : inbox[c]["CGame"][i].num = pnum[u]
    BY <2>8 DEF SessionInv, TalkInv
  <2>10. CASE u \in announced[c]
    <3>1. Knows(client[c], pnum[c], inbox[c]["CSystem"], pnum[u])
      BY <2>4, <2>6, <2>7, <2>10 DEF SessionInv, TalkInv
    <3>2. Len(inbox[c]["CSystem"]) = 0
      BY <2>3
    <3> QED BY <2>9, <3>1, <3>2 DEF Knows
  <2>11. CASE u \in introduced /\ u \notin announced[c]
    <3>1. pnum[u] = pnum[c]
      BY <2>4, <2>7, <2>11 DEF SessionInv, ServerInv, Acquainted
    <3> QED BY <2>2, <2>4, <2>9, <3>1
  <2> QED BY <2>9, <2>10, <2>11
<1> QED BY <1>1, SessionInvariant, PTL

-----------------------------------------------------------------------------
(* What UniqueNumbers and Acquainted are without departures.               *)

\* Every user there ever was is still in the list.
AllListed == \A u \in Clients : pnum[u] # 0 => u \in Users

\* The list then gives its users their places as their numbers.
NumberedByPlace == AllListed => \A i \in 1 .. Len(users) : pnum[users[i]] = i

\* A connection takes the next place; a departure ends AllListed for good.
LEMMA PlacesKept ==
    ASSUME SessionInv, NumberedByPlace, [Next]_vars
    PROVE  NumberedByPlace'
<1>1. /\ users \in Seq(Clients) /\ Distinct(users) /\ pnum \in [Clients -> Numbers]
      /\ \A u \in Users : pnum[u] # 0
  BY DEF SessionInv, ServerInv, ServerTypes, UsersInv
<1>2. Len(users) \in Nat /\ \A i \in 1 .. Len(users) : users[i] \in Clients /\ users[i] \in Users
  BY <1>1, ElementOfSeq, LenProperties DEF Users, ToSet
<1>3. CASE UNCHANGED <<users, pnum>>
  BY <1>3 DEF NumberedByPlace, AllListed, Users, ToSet
<1>4. ASSUME NEW c \in Clients, ServerConnect(c) PROVE NumberedByPlace'
  <2>1. /\ pnum[c] = 0 /\ users' = Append(users, c)
        /\ pnum' = [pnum EXCEPT ![c] = Len(users) + 1]
    BY <1>4 DEF ServerConnect, NextNumber
  <2>2. /\ Len(users') = Len(users) + 1 /\ users'[Len(users) + 1] = c
        /\ \A i \in 1 .. Len(users) : users'[i] = users[i]
    BY <1>1, <2>1, AppendProperties
  <2>3. /\ pnum'[c] = Len(users) + 1
        /\ \A u \in Clients : u # c => pnum'[u] = pnum[u]
    BY <1>1, <2>1
  <2>4. Users' = Users \cup {c} /\ c \notin Users
    BY <1>1, <2>1, ToSetFacts DEF Users
  <2>5. AllListed' => AllListed
    BY <2>1, <2>3, <2>4 DEF AllListed
  <2>6. ASSUME AllListed', NEW i \in 1 .. Len(users) + 1 PROVE pnum'[users'[i]] = i
    <3>1. CASE i = Len(users) + 1
      BY <2>2, <2>3, <3>1
    <3>2. CASE i # Len(users) + 1
      <4>1. i \in 1 .. Len(users)
        BY <1>2, <3>2
      <4>2. users'[i] = users[i] /\ users[i] # c /\ users[i] \in Clients
        BY <1>2, <2>2, <2>4, <4>1
      <4> QED BY <2>3, <2>5, <2>6, <4>1, <4>2 DEF NumberedByPlace
    <3> QED BY <3>1, <3>2
  <2> QED BY <2>2, <2>6 DEF NumberedByPlace
<1>5. ASSUME NEW c \in Clients, ServerDisconnect(c) PROVE NumberedByPlace'
  <2>1. c \in Users /\ users' = RemoveFirst(users, c) /\ pnum' = pnum
    BY <1>5 DEF ServerDisconnect, Users
  <2>2. Users' = Users \ {c}
    BY <1>1, <2>1, RemoveFirstDistinct DEF Users
  <2>3. ~AllListed'
    BY <1>1, <2>1, <2>2 DEF AllListed
  <2> QED BY <2>3 DEF NumberedByPlace
<1> QED
  BY <1>3, <1>4, <1>5
  DEF Next, LinkLost, OnRegister, Relay, LoseUpdate, OnMsg, Boot, Start, Ask, Leave,
      ClientDisconnect, HandleEvent, LoseEvent, vars, serverVars

\* Numbers are only ever shared because somebody has gone: as long as no user has
\* left the list, no two users have one number, and any two connected registered
\* ones know of each other without exception (ENET_EVENT_TYPE_CONNECT in
\* Server::ServerTick, Server::OnRegister).
THEOREM UniqueUntilSomebodyGoes ==
    Spec => [](AllListed =>
        /\ UniqueNumbers
        /\ \A c, u \in linked \cap registered : c # u => u \in announced[c])
<1>1. Init => NumberedByPlace
  BY DEF Init, NumberedByPlace
<1>2. SessionInv /\ NumberedByPlace /\ [Next]_vars => NumberedByPlace'
  BY PlacesKept
<1>3. SessionInv /\ NumberedByPlace =>
        (AllListed => /\ UniqueNumbers
                      /\ \A c, u \in linked \cap registered : c # u => u \in announced[c])
  <2> SUFFICES ASSUME SessionInv, NumberedByPlace, AllListed
               PROVE  /\ UniqueNumbers
                      /\ \A c, u \in linked \cap registered : c # u => u \in announced[c]
    OBVIOUS
  <2>1. \A i \in 1 .. Len(users) : pnum[users[i]] = i
    BY DEF NumberedByPlace
  <2>2. UniqueNumbers
    BY <2>1 DEF UniqueNumbers
  <2>3. users \in Seq(Clients) /\ linked \subseteq Users /\ Acquainted
    BY DEF SessionInv, ServerInv, ServerTypes, UsersInv
  <2>4. ASSUME NEW c \in linked \cap registered, NEW u \in linked \cap registered, c # u
        PROVE  u \in announced[c]
    <3>1. PICK i \in 1 .. Len(users), j \in 1 .. Len(users) : users[i] = c /\ users[j] = u
      BY <2>3 DEF Users, ToSet
    <3>2. pnum[u] # pnum[c]
      BY <2>1, <2>4, <3>1
    <3> QED BY <2>3, <3>2 DEF Acquainted
  <2> QED BY <2>2, <2>4
<1> QED BY <1>1, <1>2, <1>3, SessionInvariant, PTL DEF Spec
==============================================================================
