---------------------------- MODULE EnetBandwidth ----------------------------
(***************************************************************************)
(* How an ENet host shares its bandwidth among its connected peers:        *)
(* enet_host_bandwidth_throttle and the BANDWIDTH_LIMIT commands it sends  *)
(* (src/project/src/enet/host.c).  A bandwidth of 0 is unlimited.          *)
(*                                                                         *)
(* The function runs to its end inside enet_host_service; each round of    *)
(* its two loops is a step here, and nothing else happens in between.  The *)
(* peers a round looks at do not influence each other within it, so the    *)
(* round handles them as a set.                                            *)
(*                                                                         *)
(* What a peer has been sent since the last time is chosen when the        *)
(* function looks at it, and the limits it leaves are forgotten at its     *)
(* return: what becomes of a limit is the subject of EnetThrottle.         *)
(*                                                                         *)
(* A bandwidth times a time keeps its width of 32 bits, because it does    *)
(* wrap: the epoch of a new host is 0 and the time is that since 1970, so  *)
(* the first interval of a host with a peer is a number of any size.  That *)
(* what is left of the product makes a budget of 0, which happens once in  *)
(* millions, is left out (BandwidthAssumption).                            *)
(***************************************************************************)
EXTENDS Integers, FiniteSetsExt

CONSTANTS
    Peers,         \* the host's peers
    ThrottleScale, \* ENET_PEER_PACKET_THROTTLE_SCALE: 32
    Interval,      \* ENET_HOST_BANDWIDTH_THROTTLE_INTERVAL: 1000 ms
    Unlimited,     \* ~0
    HostBandwidths,\* bound: the bandwidths the host is given
    PeerBandwidths,\* bound: the bandwidths its peers say they have
    Traffic,       \* bound: the bytes a peer is sent in an interval
    Elapsed        \* bound: the times between two throttlings, in ms, and since 1970

Bandwidths == HostBandwidths \cup PeerBandwidths

ASSUME BandwidthAssumption ==
    /\ IsFiniteSet(Peers)
    /\ {ThrottleScale, Interval} \subseteq Nat \ {0}
    /\ Unlimited \in Nat \ {0}
    /\ Bandwidths \subseteq Nat /\ Traffic \subseteq Nat
    /\ Elapsed \subseteq {t \in Nat : t >= Interval}
    /\ \A b \in Bandwidths \ {0}, t \in Elapsed : (b * t) % (Unlimited + 1) >= Interval

VARIABLES
    links,     \* the connected peers and what the host keeps of each
    host,      \* the host's own bandwidths, and recalculateBandwidthLimits
    loop       \* where enet_host_bandwidth_throttle is, and its local variables

bandwidthVars == <<links, host, loop>>

-----------------------------------------------------------------------------
\* incoming, outgoing: what the peer says it has; told: what it was told last.
Link == [incoming : Nat, outgoing : Nat, told : [incoming : Nat, outgoing : Nat]]

\* data: outgoingDataTotal of every peer.  limit: the packetThrottleLimit it got.
\* done: the peers whose epoch is the current time.
Idle == [pc |-> "idle", elapsed |-> 0, data |-> <<>>, limit |-> <<>>, bandwidth |-> 0,
         dataTotal |-> 0, rate |-> 0, done |-> {}, again |-> FALSE, share |-> 0]

Connected == DOMAIN links

Total(f(_), S) == MapThenSumSet(f, S)

BandwidthInit ==
    /\ links = <<>>
    /\ host = [incoming |-> 0, outgoing |-> 0, recalculate |-> FALSE]
    /\ loop = Idle

\* enet_host_bandwidth_limit, which is also how the host begins.
SetBandwidth(incoming, outgoing) ==
    /\ loop.pc = "idle"
    /\ host' = [incoming |-> incoming, outgoing |-> outgoing, recalculate |-> TRUE]
    /\ UNCHANGED <<links, loop>>

\* The peer becomes CONNECTED: both ends of the handshake have said what they had
\* when they wrote their part of it, and recalculateBandwidthLimits is set.
PeerConnects(p, incoming, outgoing) ==
    /\ loop.pc = "idle" /\ p \notin Connected
    /\ \E told \in [incoming : HostBandwidths, outgoing : HostBandwidths] :
        links' = [q \in Connected \cup {p} |->
            IF q = p THEN [incoming |-> incoming, outgoing |-> outgoing, told |-> told]
            ELSE links[q]]
    /\ host' = [host EXCEPT !.recalculate = TRUE]
    /\ UNCHANGED loop

\* The peer is reset: recalculateBandwidthLimits is set if the reason is the
\* acknowledgement of its DISCONNECT, and not if it is a timeout.
PeerDisconnects(p) ==
    /\ loop.pc = "idle" /\ p \in Connected
    /\ links' = [q \in Connected \ {p} |-> links[q]]
    /\ host' \in {host, [host EXCEPT !.recalculate = TRUE]}
    /\ UNCHANGED loop

\* enet_protocol_handle_bandwidth_limit
HandleBandwidthLimit(p, incoming, outgoing) ==
    /\ loop.pc = "idle" /\ p \in Connected
    /\ links' = [links EXCEPT ![p].incoming = incoming, ![p].outgoing = outgoing]
    /\ UNCHANGED <<host, loop>>

-----------------------------------------------------------------------------
\* enet_host_bandwidth_throttle.

\* The product is one of enet_uint32.
InTime(bandwidth, elapsed) == ((bandwidth * elapsed) % (Unlimited + 1)) \div Interval

\* What the host may send in the time that has passed.
Budget(elapsed) == IF host.outgoing = 0 THEN Unlimited ELSE InTime(host.outgoing, elapsed)

ThrottleBegins(elapsed, data) ==
    /\ loop.pc = "idle" /\ Connected # {}
    /\ loop' = [Idle EXCEPT !.pc = "sharing", !.elapsed = elapsed, !.data = data,
                            !.again = TRUE, !.bandwidth = Budget(elapsed),
                            !.dataTotal = Total(LAMBDA p : data[p], Connected)]
    /\ UNCHANGED <<links, host>>

PeerBandwidth(p) == InTime(links[p].incoming, loop.elapsed)

Rate == IF loop.dataTotal < loop.bandwidth THEN ThrottleScale
        ELSE (loop.bandwidth * ThrottleScale) \div loop.dataTotal

\* A slip: peers are given what they can take whatever they would be sent.
ExceedingAny(p) ==
    /\ p \notin loop.done /\ links[p].incoming # 0 /\ loop.data[p] # 0

\* A peer that would be sent more than it can take.
Exceeding(p) ==
    /\ p \notin loop.done /\ links[p].incoming # 0
    /\ (Rate * loop.data[p]) \div ThrottleScale > PeerBandwidth(p)

\* A slip: a peer's limit is the rate of all.
SameForAll(p) == Rate

OwnLimit(p) ==
    LET limit == (PeerBandwidth(p) * ThrottleScale) \div loop.data[p]
    IN  IF limit = 0 THEN 1 ELSE limit

\* A slip: the loop goes on as long as peers remain.
AgainWhileAny(exceeding) == TRUE

Again(exceeding) == exceeding # {}

\* One round: the peers that could not take their part of the rate get what
\* they can take, and the others share the rest in the next round.
SharingRound ==
    LET exceeding == {p \in Connected : Exceeding(p)}
        given == Total(PeerBandwidth, exceeding)
    IN  /\ loop.pc = "sharing" /\ loop.again /\ loop.done # Connected
        /\ loop' = [loop EXCEPT !.limit = [p \in loop.done \cup exceeding |->
                                    IF p \in exceeding THEN OwnLimit(p) ELSE @[p]],
                                !.rate = Rate, !.again = Again(exceeding),
                                !.bandwidth = @ - given, !.dataTotal = @ - given,
                                !.done = @ \cup exceeding]
        /\ UNCHANGED <<links, host>>

\* The others get the rate; then the limits of the incoming side, if they are due.
SharingEnds ==
    /\ loop.pc = "sharing" /\ (~loop.again \/ loop.done = Connected)
    /\ loop' = [loop EXCEPT !.limit = [p \in Connected |->
                                IF p \in loop.done THEN @[p] ELSE loop.rate],
                            !.pc = IF host.recalculate THEN "telling" ELSE "over",
                            !.bandwidth = host.incoming, !.done = {},
                            !.again = host.incoming # 0]
    /\ UNCHANGED <<links, host>>

\* A peer is passed over while its own limit is below an equal share.  The others,
\* those without a limit among them, are done and give up their own limit.
PassedOver(p, share) == links[p].outgoing > 0 /\ share > links[p].outgoing

TellingRound ==
    LET share == loop.bandwidth \div Cardinality(Connected \ loop.done)
        taken == {p \in Connected \ loop.done : ~PassedOver(p, share)}
    IN  /\ loop.pc = "telling" /\ loop.again /\ loop.done # Connected
        /\ loop' = [loop EXCEPT !.share = share, !.again = taken # {}, !.done = @ \cup taken,
                !.bandwidth = (@ - Total(LAMBDA p : links[p].outgoing, taken)) % (Unlimited + 1)]
        /\ UNCHANGED <<links, host>>

\* A slip: only those that were passed over are told.
ToldPassed == Connected \ loop.done

Told == Connected

\* A BANDWIDTH_LIMIT for every peer: unreliable, and not repeated.
TellingEnds ==
    /\ loop.pc = "telling" /\ (~loop.again \/ loop.done = Connected)
    /\ links' = [p \in Connected |-> IF p \notin Told THEN links[p] ELSE
            [links[p] EXCEPT !.told = [outgoing |-> host.outgoing,
                incoming |-> IF p \in loop.done THEN links[p].outgoing ELSE loop.share]]]
    /\ host' = [host EXCEPT !.recalculate = FALSE]
    /\ loop' = [loop EXCEPT !.pc = "over"]

ThrottleReturns ==
    /\ loop.pc = "over"
    /\ loop' = Idle
    /\ UNCHANGED <<links, host>>

ThrottleSteps == SharingRound \/ SharingEnds \/ TellingRound \/ TellingEnds \/ ThrottleReturns

ThrottleCalled ==
    \E elapsed \in Elapsed, data \in [Connected -> Traffic] : ThrottleBegins(elapsed, data)

BandwidthNext ==
    \/ \E incoming, outgoing \in HostBandwidths : SetBandwidth(incoming, outgoing)
    \/ \E p \in Peers, incoming, outgoing \in PeerBandwidths :
        PeerConnects(p, incoming, outgoing) \/ HandleBandwidthLimit(p, incoming, outgoing)
    \/ \E p \in Peers : PeerDisconnects(p)
    \/ ThrottleCalled
    \/ ThrottleSteps

\* The function runs to its end, and enet_host_service calls it again and again.
BandwidthFairness ==
    /\ WF_bandwidthVars(ThrottleSteps)
    /\ WF_bandwidthVars(ThrottleCalled)

BandwidthSpec == BandwidthInit /\ [][BandwidthNext]_bandwidthVars /\ BandwidthFairness

-----------------------------------------------------------------------------
BandwidthTypeOK ==
    /\ Connected \subseteq Peers
    /\ \A p \in Connected : links[p] \in Link
    /\ host \in [incoming : Nat, outgoing : Nat, recalculate : BOOLEAN]
    /\ loop.pc \in {"idle", "sharing", "telling", "over"}
    /\ loop.bandwidth \in Nat /\ loop.dataTotal \in Nat /\ loop.rate \in 0 .. ThrottleScale
    /\ loop.done \subseteq Connected /\ loop.again \in BOOLEAN /\ loop.share \in Nat

\* What is given to the limited peers, round after round, is never more than
\* there was: the unsigned bandwidth is not overdrawn, the bytes of the others are
\* still all in dataTotal, and it is never divided by 0.
NeverOverdrawn ==
    loop.pc = "sharing" =>
        /\ loop.bandwidth > 0 /\ loop.dataTotal >= 0
        /\ loop.dataTotal > 0 \/ loop.dataTotal < loop.bandwidth
        /\ Total(LAMBDA p : loop.data[p], Connected \ loop.done) <= loop.dataTotal

\* When the limits are set, what every peer would be sent at its limit fits what
\* the peer can take and all of it together fits what the host may send, but for
\* the peers whose limit of 0 is made 1.
SharesFit ==
    loop.pc \in {"telling", "over"} =>
        LET sent(p) == loop.limit[p] * loop.data[p]
            exact == {p \in Connected : loop.limit[p] > 1}
        IN  /\ \A p \in exact : links[p].incoming # 0 =>
                    sent(p) < ThrottleScale * (PeerBandwidth(p) + 1)
            /\ Total(sent, exact) <= ThrottleScale * Budget(loop.elapsed)

\* Whatever changes and whoever comes or goes in between, a peer that has been
\* told of an outgoing bandwidth the host no longer has is about to be told again.
NewsIsDue ==
    ~host.recalculate => \A p \in Connected : links[p].told.outgoing = host.outgoing

\* The loops end however the peers' limits lie, and the host's news gets sent, if
\* the function is called again and again while somebody is connected.
NewsIsSent == host.recalculate ~> ~host.recalculate \/ (Connected = {} /\ loop.pc = "idle")
=============================================================================
