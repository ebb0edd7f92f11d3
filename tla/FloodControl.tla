---------------------------- MODULE FloodControl ----------------------------
(***************************************************************************)
(* The flood control of the server's chat: Server::OnMsg and the counters  *)
(* ServerUser::messageinfo (project/server).  A user's messages are        *)
(* counted in windows of wall-clock time; those over the limit are dropped *)
(* and too many dropped ones are the end of the user (Server::Boot).       *)
(*                                                                         *)
(* One user is modelled, as no user's counters depend on another's.  It    *)
(* may leave and come back; every connection starts with new counters.     *)
(* The clock is time(NULL): seconds, and an administrator or a time daemon *)
(* may set it back.  int is not modelled to its width, which no user lives *)
(* to reach.                                                               *)
(***************************************************************************)
EXTENDS Integers, Sequences, FiniteSets

CONSTANTS
    MSG_C, MSG_S,   \* server.h: messages allowed, and the seconds of a window
    MaxTime,        \* bound: the last second of the clock
    MaxMessages     \* bound: messages of one connection

ASSUME FloodAssumption == MSG_C \in Nat /\ MSG_S \in Nat /\ MaxTime \in Nat /\ MaxMessages \in Nat

VARIABLES
    now,       \* time(NULL)
    setBack,   \* whether the clock has been set back since the user connected
    chatter,   \* "away", "online", or "booted" and waiting for the disconnect
    info,      \* ServerUser::messageinfo
    chatLog    \* history: when each message of the connection came, and its fate

floodVars == <<now, setBack, chatter, info, chatLog>>

-----------------------------------------------------------------------------
Info == [timeval : Nat, count : Nat, kept : Nat, dropped : Nat]

LogEntry == [at : Nat, passed : BOOLEAN]

\* A slip: the chained assignment leaves one counter as new found it.
NewInfoUnset(t) == [timeval |-> t, count |-> 0, kept |-> -1, dropped |-> 0]

\* What the CONNECT event stores.
NewInfo(t) == [timeval |-> t, count |-> 0, kept |-> 0, dropped |-> 0]

FloodInit == now = 0 /\ setBack = FALSE /\ chatter = "away" /\ info = NewInfo(0) /\ chatLog = <<>>

ChatterConnect ==
    /\ chatter = "away"
    /\ chatter' = "online" /\ info' = NewInfo(now) /\ chatLog' = <<>> /\ setBack' = FALSE
    /\ UNCHANGED now

\* The user is deleted with its counters.
ChatterDisconnect ==
    /\ chatter # "away"
    /\ chatter' = "away" /\ info' = NewInfo(0) /\ chatLog' = <<>> /\ setBack' = FALSE
    /\ UNCHANGED now

\* A slip: the new window counts from 0 but keeps its old start.
KeepWindowStart(i) == IF i.timeval < now - MSG_S THEN [i EXCEPT !.count = 0] ELSE i

\* A slip: the new window starts now but goes on counting.
KeepCount(i) == IF i.timeval < now - MSG_S THEN [i EXCEPT !.timeval = now] ELSE i

\* The window is renewed by the first message after its end.
Renewed(i) == IF i.timeval < now - MSG_S THEN [i EXCEPT !.timeval = now, !.count = 0] ELSE i

\* A slip: the factor is taken of the messages kept and dropped together.
ExcessOfAll(i) == 2 * i.dropped > 3 * (i.kept + i.dropped)

\* dropped / kept > MSG_KF, which is 1.5, in doubles.
Excess(i) == 2 * i.dropped > 3 * i.kept

Over(i) == i.count > MSG_C

\* Server::OnMsg.  A booted user has no more messages: the disconnect discards
\* what has arrived of them.
ChatterMsg ==
    LET opened  == Renewed(info)
        over    == Over(opened)
        counted == [opened EXCEPT !.count = @ + 1,
                                  !.kept = IF over THEN @ ELSE @ + 1,
                                  !.dropped = IF over THEN @ + 1 ELSE @]
    IN  /\ chatter = "online" /\ Len(chatLog) < MaxMessages
        /\ info' = counted
        /\ chatter' = IF over /\ Excess(counted) THEN "booted" ELSE "online"
        /\ chatLog' = Append(chatLog, [at |-> now, passed |-> ~over])
        /\ UNCHANGED <<now, setBack>>

Second == now < MaxTime /\ now' = now + 1 /\ UNCHANGED <<setBack, chatter, info, chatLog>>

SetBack ==
    /\ ~setBack /\ setBack' = TRUE
    /\ \E t \in 0 .. now - 1 : now' = t
    /\ UNCHANGED <<chatter, info, chatLog>>

FloodNext == ChatterConnect \/ ChatterDisconnect \/ ChatterMsg \/ Second \/ SetBack

FloodSpec == FloodInit /\ [][FloodNext]_floodVars

-----------------------------------------------------------------------------
FloodTypeOK ==
    /\ now \in Nat /\ setBack \in BOOLEAN
    /\ chatter \in {"away", "online", "booted"}
    /\ info \in Info
    /\ chatLog \in Seq(LogEntry)

-----------------------------------------------------------------------------
(* What the flood control promises its users (Server::OnMsg).              *)

\* The messages that came in a span of seconds.
InSpan(first, last) == {i \in DOMAIN chatLog : chatLog[i].at \in first .. last}

Passed == {i \in DOMAIN chatLog : chatLog[i].passed}

\* A user who in no window of MSG_S seconds, both ends counted, sends more than
\* the count lets through (MSG_C + 1, as the comparison comes first) loses no
\* message, wherever the server's windows happen to begin (Server::OnMsg).  It
\* takes a clock that does not step back: a window that starts in the future
\* is not renewed until the clock has caught up with it.
PolitePasses ==
    (~setBack /\ \A t \in 0 .. now : Cardinality(InSpan(t, t + MSG_S)) <= MSG_C + 1)
        => Passed = DOMAIN chatLog

\* Whatever a user sends, at most two windows' worth of it is passed on to
\* everybody within MSG_S seconds: the end of a window and the start of the
\* next (Server::OnMsg).
BurstBound ==
    ~setBack => \A t \in 0 .. now :
        Cardinality(InSpan(t, t + MSG_S) \cap Passed) <= 2 * (MSG_C + 1)

\* No user stays whose dropped messages exceed the kept ones by the factor, and
\* none is booted whose do not: what it said long ago still counts for it, and
\* against it.  When a message is dropped a whole window's worth has been kept, so
\* that kept is never 0 when dropped is divided by it, even with a clock that
\* steps back (Server::OnMsg, server.h MSG_KF).
NobodyOverstays ==
    /\ chatter = "online" => 2 * info.dropped <= 3 * info.kept
    /\ chatter = "booted" => 2 * info.dropped > 3 * info.kept
    /\ info.dropped > 0 => info.kept > MSG_C
=============================================================================
