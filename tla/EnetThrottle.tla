---------------------------- MODULE EnetThrottle ----------------------------
(***************************************************************************)
(* The packet throttle of one connected ENet peer (src/project/src/enet):  *)
(* the round trip times it estimates from acknowledgements, the share of   *)
(* unreliable packets it lets out in answer (enet_peer_throttle), the      *)
(* limit enet_host_bandwidth_throttle puts on that share (EnetBandwidth    *)
(* says which), and the counter by which packets are dropped.              *)
(*                                                                         *)
(* Time is abstract: whether packetThrottleInterval is over is any answer  *)
(* at an acknowledgement.  enet_uint32 is not modelled to its width: the   *)
(* estimates stay among the samples, and EstimatesHold is why no           *)
(* subtraction goes below 0.                                               *)
(***************************************************************************)
EXTENDS Integers

CONSTANTS
    Scale,          \* ENET_PEER_PACKET_THROTTLE_SCALE: 32
    CounterStep,    \* ENET_PEER_PACKET_THROTTLE_COUNTER: 7
    Acceleration, Deceleration,   \* ENET_PEER_PACKET_THROTTLE_...: 2
    DefaultRoundTrip,             \* ENET_PEER_DEFAULT_ROUND_TRIP_TIME: 500
    Samples         \* bound: the round trips acknowledgements may measure

ASSUME ScaleAssumption == Scale \in Nat \ {0} /\ CounterStep \in Nat
\* The step has no factor in common with the scale, as 7 has none with 32.
ASSUME CoprimeAssumption == \A k \in 1 .. (Scale - 1) : (k * CounterStep) % Scale # 0
ASSUME StepsAssumption == Acceleration \in Nat /\ Deceleration \in Nat
ASSUME SamplesAssumption == DefaultRoundTrip \in Nat /\ Samples \subseteq Nat

VARIABLES
    packetThrottle, packetThrottleLimit, packetThrottleCounter,   \* of the ENetPeer
    rtt,       \* its round trip estimates
    measured,  \* packetThrottleEpoch # 0
    share      \* history: packets counted and let out since the throttle last changed

throttleVars == <<packetThrottle, packetThrottleLimit, packetThrottleCounter, rtt, measured, share>>

-----------------------------------------------------------------------------
\* roundTripTime and roundTripTimeVariance, the lowest and the highest of them
\* in this interval, and those of the interval before.
RoundTrips == [time : Nat, variance : Nat, lowest : Nat, highest : Nat,
               lastTime : Nat, lastVariance : Nat]

NoShare == [counted |-> 0, out |-> 0]

\* enet_peer_reset
ThrottleInit ==
    /\ packetThrottle = Scale /\ packetThrottleLimit = Scale /\ packetThrottleCounter = 0
    /\ rtt = [time |-> DefaultRoundTrip, variance |-> 0, lowest |-> DefaultRoundTrip, highest |-> 0,
              lastTime |-> DefaultRoundTrip, lastVariance |-> 0]
    /\ measured = FALSE
    /\ share = NoShare

Lesser(a, b)  == IF a <= b THEN a ELSE b
Greater(a, b) == IF a >= b THEN a ELSE b

\* enet_peer_throttle: more when the sample beats the last interval's best,
\* less when it exceeds it by twice the variance, all that is allowed when the
\* estimates are too rough to tell.
Throttled(sample) ==
    CASE rtt.lastTime <= rtt.lastVariance -> packetThrottleLimit
      [] rtt.lastTime > rtt.lastVariance /\ sample < rtt.lastTime ->
            Lesser(packetThrottle + Acceleration, packetThrottleLimit)
      [] rtt.lastTime > rtt.lastVariance /\ sample > rtt.lastTime + 2 * rtt.lastVariance ->
            Greater(packetThrottle - Deceleration, 0)
      [] OTHER -> packetThrottle

\* The estimates a sample leads to; the variance is taken against the time the
\* sample has already moved.
Estimated(sample) ==
    LET kept  == rtt.variance - rtt.variance \div 4
        later == rtt.time + (sample - rtt.time) \div 8
        earlier == rtt.time - (rtt.time - sample) \div 8
    IN  IF sample >= rtt.time
        THEN [rtt EXCEPT !.time = later,   !.variance = kept + (sample - later) \div 4]
        ELSE [rtt EXCEPT !.time = earlier, !.variance = kept + (earlier - sample) \div 4]

\* A slip: the interval's extremes are taken before the sample is counted in.
ExtremesBefore(r) ==
    [r EXCEPT !.lowest = Lesser(@, rtt.time), !.highest = Greater(@, rtt.variance)]

Extremes(r) == [r EXCEPT !.lowest = Lesser(@, r.time), !.highest = Greater(@, r.variance)]

\* The interval is over: its extremes are what later samples are held against.
IntervalOver(r) == [r EXCEPT !.lastTime = r.lowest, !.lastVariance = r.highest,
                         !.lowest = r.time, !.highest = r.variance]

\* What changes the throttle starts the count of its packets again.
Recount(t) == IF t = packetThrottle THEN share ELSE NoShare

\* enet_protocol_handle_acknowledge, as far as the round trip goes.
HandleRoundTrip(sample, over) ==
    LET estimated == Extremes(Estimated(sample)) IN
    /\ over \/ measured
    /\ packetThrottle' = Throttled(sample)
    /\ share' = Recount(packetThrottle')
    /\ rtt' = IF over THEN IntervalOver(estimated) ELSE estimated
    /\ measured' = TRUE
    /\ UNCHANGED <<packetThrottleLimit, packetThrottleCounter>>

\* A slip: a lower limit takes effect with the next acknowledgement only.
LimitLater(limit) == packetThrottle

Limited(limit) == Lesser(packetThrottle, limit)

\* What enet_host_bandwidth_throttle does to the peer, once in its interval.
LimitThrottle(limit) ==
    /\ packetThrottleLimit' = limit
    /\ packetThrottle' = Limited(limit)
    /\ share' = Recount(packetThrottle')
    /\ UNCHANGED <<packetThrottleCounter, rtt, measured>>

\* A slip: the counter starts over at every packet that goes out.
CountFromZero == IF packetThrottleCounter > packetThrottle THEN CounterStep % Scale
                 ELSE (packetThrottleCounter + CounterStep) % Scale

NextCounter == (packetThrottleCounter + CounterStep) % Scale

\* One packet of enet_protocol_send_unreliable_outgoing_commands: dropped when
\* the counter is above the throttle.
ThrottlePacket ==
    LET counted == IF share.counted = Scale THEN NoShare ELSE share IN
    /\ packetThrottleCounter' = NextCounter
    /\ share' = [counted |-> counted.counted + 1,
                 out |-> counted.out + IF NextCounter > packetThrottle THEN 0 ELSE 1]
    /\ UNCHANGED <<packetThrottle, packetThrottleLimit, rtt, measured>>

ThrottleNext ==
    \/ \E sample \in Samples, over \in BOOLEAN : HandleRoundTrip(sample, over)
    \/ \E limit \in 0 .. Scale : LimitThrottle(limit)
    \/ ThrottlePacket

ThrottleSpec == ThrottleInit /\ [][ThrottleNext]_throttleVars

-----------------------------------------------------------------------------
ThrottleTypeOK ==
    /\ packetThrottle \in Nat /\ packetThrottleLimit \in Nat /\ packetThrottleCounter \in Nat
    /\ rtt \in RoundTrips /\ measured \in BOOLEAN
    /\ share \in [counted : 0 .. Scale, out : 0 .. Scale]

\* Acknowledgements raise the throttle while the bandwidth throttle lowers its
\* limit, and neither lets it stand above what the other allows
\* (enet_peer_throttle, enet_host_bandwidth_throttle).
ThrottleWithinLimit == packetThrottle <= packetThrottleLimit /\ packetThrottleLimit <= Scale

\* The estimates bracket each other at any point of an interval, and the time
\* never leaves the range of the samples: no unsigned difference the handler
\* takes goes below 0 (enet_protocol_handle_acknowledge).
EstimatesHold ==
    /\ rtt.lowest <= rtt.time /\ rtt.variance <= rtt.highest
    /\ \E s \in Samples \cup {DefaultRoundTrip} : rtt.time >= s
    /\ \E s \in Samples \cup {DefaultRoundTrip} : rtt.time <= s

\* As long as the throttle stays at t, any Scale packets in a row lose all but
\* t + 1: the steps of the counter visit every value below Scale once, wherever
\* they begin.  So a throttle of 0 lets one in Scale out, and one of Scale - 1
\* drops none (enet_protocol_send_unreliable_outgoing_commands).
CycleShare == share.counted = Scale => share.out = Lesser(packetThrottle + 1, Scale)
=============================================================================
