-------------------------- MODULE EnetThrottleProofs --------------------------
(***************************************************************************)
(* Theorems about EnetThrottle and EnetBandwidth for every set of peers,   *)
(* every bandwidth and interval, every scale, every step of the throttle   *)
(* and of the counter, and every set of round trips.                       *)
(***************************************************************************)
EXTENDS EnetThrottle, EnetBandwidth, SequenceLemmas, TLAPS

\* No more packets are let out than are counted.
ShareInv == share.out <= share.counted

ThrottleInv == ThrottleTypeOK /\ ShareInv /\ ThrottleWithinLimit /\ EstimatesHold

Measures == Samples \cup {DefaultRoundTrip}

\* A record of estimates is the record of its fields.
LEMMA RoundTripsRecord ==
    ASSUME NEW r \in RoundTrips
    PROVE  r = [time |-> r.time, variance |-> r.variance, lowest |-> r.lowest, highest |-> r.highest,
                lastTime |-> r.lastTime, lastVariance |-> r.lastVariance]
BY DEF RoundTrips

\* What the steps of the handler do to the estimates, field by field.
LEMMA EstimatedFields ==
    ASSUME NEW r \in RoundTrips, NEW a, NEW b
    PROVE  /\ [r EXCEPT !.time = a, !.variance = b] =
                [time |-> a, variance |-> b, lowest |-> r.lowest, highest |-> r.highest,
                 lastTime |-> r.lastTime, lastVariance |-> r.lastVariance]
           /\ [r EXCEPT !.lowest = a, !.highest = b] =
                [time |-> r.time, variance |-> r.variance, lowest |-> a, highest |-> b,
                 lastTime |-> r.lastTime, lastVariance |-> r.lastVariance]
<1> DEFINE t == [r EXCEPT !.time = a]
           l == [r EXCEPT !.lowest = a]
<1>1. t = [time |-> a, variance |-> r.variance, lowest |-> r.lowest, highest |-> r.highest,
           lastTime |-> r.lastTime, lastVariance |-> r.lastVariance]
  BY RoundTripsRecord
<1>2. l = [time |-> r.time, variance |-> r.variance, lowest |-> a, highest |-> r.highest,
           lastTime |-> r.lastTime, lastVariance |-> r.lastVariance]
  BY RoundTripsRecord
<1> HIDE DEF t, l
<1>3. [t EXCEPT !.variance = b] =
        [time |-> a, variance |-> b, lowest |-> r.lowest, highest |-> r.highest,
         lastTime |-> r.lastTime, lastVariance |-> r.lastVariance]
  BY <1>1
<1>4. [l EXCEPT !.highest = b] =
        [time |-> r.time, variance |-> r.variance, lowest |-> a, highest |-> b,
         lastTime |-> r.lastTime, lastVariance |-> r.lastVariance]
  BY <1>2
<1> QED BY <1>3, <1>4 DEF t, l

\* What the end of an interval does to them.
LEMMA IntervalFields ==
    ASSUME NEW r \in RoundTrips
    PROVE  IntervalOver(r) =
             [time |-> r.time, variance |-> r.variance, lowest |-> r.time, highest |-> r.variance,
              lastTime |-> r.lowest, lastVariance |-> r.highest]
<1> DEFINE p == [r EXCEPT !.lastTime = r.lowest]
           q == [p EXCEPT !.lastVariance = r.highest]
           s == [q EXCEPT !.lowest = r.time]
<1>1. p = [time |-> r.time, variance |-> r.variance, lowest |-> r.lowest, highest |-> r.highest,
           lastTime |-> r.lowest, lastVariance |-> r.lastVariance]
  BY RoundTripsRecord
<1> HIDE DEF p
<1>2. q = [time |-> r.time, variance |-> r.variance, lowest |-> r.lowest, highest |-> r.highest,
           lastTime |-> r.lowest, lastVariance |-> r.highest]
  BY <1>1
<1> HIDE DEF q
<1>3. s = [time |-> r.time, variance |-> r.variance, lowest |-> r.time, highest |-> r.highest,
           lastTime |-> r.lowest, lastVariance |-> r.highest]
  BY <1>2
<1> HIDE DEF s
<1>4. [s EXCEPT !.highest = r.variance] =
        [time |-> r.time, variance |-> r.variance, lowest |-> r.time, highest |-> r.variance,
         lastTime |-> r.lowest, lastVariance |-> r.highest]
  BY <1>3
<1> QED BY <1>4 DEF IntervalOver, p, q, s

-----------------------------------------------------------------------------
\* A sample moves the time towards it and no further, and leaves a variance that
\* is a natural number.
LEMMA EstimatedFacts ==
    ASSUME rtt \in RoundTrips, NEW sample \in Nat
    PROVE  /\ Estimated(sample) \in RoundTrips
           /\ \/ sample <= Estimated(sample).time /\ Estimated(sample).time <= rtt.time
              \/ rtt.time <= Estimated(sample).time /\ Estimated(sample).time <= sample
           /\ Estimated(sample).lowest = rtt.lowest
           /\ Estimated(sample).highest = rtt.highest
<1> DEFINE kept == rtt.variance - rtt.variance \div 4
           later == rtt.time + (sample - rtt.time) \div 8
           earlier == rtt.time - (rtt.time - sample) \div 8
<1>1. rtt.time \in Nat /\ rtt.variance \in Nat /\ kept \in Nat
  BY DEF RoundTrips
<1>2. CASE sample >= rtt.time
  <2>1. later \in Nat /\ rtt.time <= later /\ later <= sample
    BY <1>1, <1>2
  <2>2. kept + (sample - later) \div 4 \in Nat
    <3> HIDE DEF kept, later
    <3> QED BY <1>1, <2>1
  <2>3. Estimated(sample) =
          [time |-> later, variance |-> kept + (sample - later) \div 4, lowest |-> rtt.lowest,
           highest |-> rtt.highest, lastTime |-> rtt.lastTime, lastVariance |-> rtt.lastVariance]
    <3>1. Estimated(sample) = [rtt EXCEPT !.time = later, !.variance = kept + (sample - later) \div 4]
      BY <1>2 DEF Estimated
    <3> HIDE DEF kept, later
    <3> QED BY <3>1, EstimatedFields
  <2> HIDE DEF kept, later
  <2> QED BY <2>1, <2>2, <2>3 DEF RoundTrips
<1>3. CASE ~(sample >= rtt.time)
  <2>1. earlier \in Nat /\ earlier <= rtt.time /\ sample <= earlier
    BY <1>1, <1>3
  <2>2. kept + (earlier - sample) \div 4 \in Nat
    <3> HIDE DEF kept, earlier
    <3> QED BY <1>1, <2>1
  <2>3. Estimated(sample) =
          [time |-> earlier, variance |-> kept + (earlier - sample) \div 4, lowest |-> rtt.lowest,
           highest |-> rtt.highest, lastTime |-> rtt.lastTime, lastVariance |-> rtt.lastVariance]
    <3>1. Estimated(sample) = [rtt EXCEPT !.time = earlier, !.variance = kept + (earlier - sample) \div 4]
      BY <1>3 DEF Estimated
    <3> HIDE DEF kept, earlier
    <3> QED BY <3>1, EstimatedFields
  <2> HIDE DEF kept, earlier
  <2> QED BY <2>1, <2>2, <2>3 DEF RoundTrips
<1> QED BY <1>2, <1>3

\* What the handler leaves as estimates.
LEMMA HandledFacts ==
    ASSUME rtt \in RoundTrips, EstimatesHold, NEW sample \in Samples, NEW over \in BOOLEAN,
           HandleRoundTrip(sample, over)
    PROVE  rtt' \in RoundTrips /\ EstimatesHold'
<1> DEFINE e == Estimated(sample)
           x == Extremes(e)
<1>1. /\ sample \in Nat /\ sample \in Measures /\ \A s \in Measures : s \in Nat
      /\ DefaultRoundTrip \in Nat
  BY SamplesAssumption DEF Measures
<1>2. /\ e \in RoundTrips
      /\ \/ sample <= e.time /\ e.time <= rtt.time
         \/ rtt.time <= e.time /\ e.time <= sample
  BY <1>1, EstimatedFacts
<1>3. rtt.time \in Nat /\ e.time \in Nat
  BY <1>2 DEF RoundTrips
<1>4. \E s \in Measures : e.time >= s
  <2>1. PICK s \in Measures : rtt.time >= s
    BY DEF EstimatesHold, Measures
  <2> HIDE DEF e
  <2> QED BY <1>1, <1>2, <1>3, <2>1
<1>5. \E s \in Measures : e.time <= s
  <2>1. PICK s \in Measures : rtt.time <= s
    BY DEF EstimatesHold, Measures
  <2> HIDE DEF e
  <2> QED BY <1>1, <1>2, <1>3, <2>1
<1> HIDE DEF e
<1>6. /\ x \in RoundTrips /\ x.time = e.time
      /\ x.lowest <= x.time /\ x.variance <= x.highest
  <2>1. x = [time |-> e.time, variance |-> e.variance, lowest |-> Lesser(e.lowest, e.time),
             highest |-> Greater(e.highest, e.variance),
             lastTime |-> e.lastTime, lastVariance |-> e.lastVariance]
    <3>1. x = [e EXCEPT !.lowest = Lesser(e.lowest, e.time), !.highest = Greater(e.highest, e.variance)]
      BY DEF Extremes
    <3> QED BY <1>2, <3>1, EstimatedFields
  <2> QED BY <1>2, <2>1 DEF RoundTrips, Lesser, Greater
<1> HIDE DEF x
<1>7. rtt' = IF over THEN IntervalOver(x) ELSE x
  BY DEF HandleRoundTrip, x, e
<1>8. rtt' \in RoundTrips /\ rtt'.time = e.time /\ rtt'.lowest <= rtt'.time /\ rtt'.variance <= rtt'.highest
  <2>1. CASE over
    BY <1>6, <1>7, <2>1, IntervalFields DEF RoundTrips
  <2>2. CASE ~over
    BY <1>6, <1>7, <2>2
  <2> QED BY <2>1, <2>2
<1> QED BY <1>4, <1>5, <1>8 DEF EstimatesHold, Measures

-----------------------------------------------------------------------------
\* The invariant holds of a peer that was reset.
LEMMA ThrottleInvInit == ThrottleInit => ThrottleInv
<1> SUFFICES ASSUME ThrottleInit PROVE ThrottleInv
  OBVIOUS
<1> USE ScaleAssumption, SamplesAssumption
<1>1. rtt \in RoundTrips /\ rtt.time = DefaultRoundTrip /\ rtt.variance = 0
      /\ rtt.lowest = DefaultRoundTrip /\ rtt.highest = 0
  BY DEF ThrottleInit, RoundTrips
<1>2. ThrottleTypeOK
  <2>1. packetThrottle \in Nat /\ packetThrottleLimit \in Nat /\ packetThrottleCounter \in Nat
    BY DEF ThrottleInit
  <2>2. share \in [counted : 0 .. Scale, out : 0 .. Scale]
    BY DEF ThrottleInit, NoShare
  <2>3. measured \in BOOLEAN
    BY DEF ThrottleInit
  <2> QED BY <1>1, <2>1, <2>2, <2>3 DEF ThrottleTypeOK
<1>3. ShareInv /\ ThrottleWithinLimit
  BY DEF ThrottleInit, ShareInv, ThrottleWithinLimit, NoShare
<1>4. EstimatesHold
  BY <1>1 DEF EstimatesHold
<1> QED BY <1>2, <1>3, <1>4 DEF ThrottleInv

\* Counting again keeps what is said of the share.
LEMMA RecountFacts ==
    ASSUME ThrottleTypeOK, ShareInv, NEW t
    PROVE  /\ Recount(t) \in [counted : 0 .. Scale, out : 0 .. Scale]
           /\ Recount(t).out <= Recount(t).counted
BY ScaleAssumption DEF ThrottleTypeOK, ShareInv, Recount, NoShare

\* And every step keeps it.
LEMMA ThrottleInvStep == ThrottleInv /\ [ThrottleNext]_throttleVars => ThrottleInv'
<1> SUFFICES ASSUME ThrottleInv, [ThrottleNext]_throttleVars PROVE ThrottleInv'
  OBVIOUS
<1> USE ScaleAssumption, StepsAssumption
<1>1. ThrottleTypeOK /\ ShareInv /\ ThrottleWithinLimit /\ EstimatesHold
  BY DEF ThrottleInv
<1>2. ASSUME NEW sample \in Samples, NEW over \in BOOLEAN, HandleRoundTrip(sample, over)
      PROVE  ThrottleInv'
  <2>1. rtt' \in RoundTrips /\ EstimatesHold'
    BY <1>1, <1>2, HandledFacts DEF ThrottleTypeOK
  <2>2. packetThrottle' \in Nat /\ packetThrottle' <= packetThrottleLimit
    <3>1. packetThrottle' = Throttled(sample)
      BY <1>2 DEF HandleRoundTrip
    <3>2. sample \in Nat /\ rtt \in RoundTrips
      BY <1>1, SamplesAssumption DEF ThrottleTypeOK
    <3> QED BY <1>1, <3>1, <3>2
        DEF Throttled, ThrottleTypeOK, ThrottleWithinLimit, RoundTrips, Lesser, Greater
  <2>3. /\ share' \in [counted : 0 .. Scale, out : 0 .. Scale] /\ share'.out <= share'.counted
    BY <1>1, <1>2, RecountFacts DEF HandleRoundTrip
  <2>4. packetThrottleLimit' = packetThrottleLimit /\ packetThrottleCounter' = packetThrottleCounter
        /\ measured' = TRUE
    BY <1>2 DEF HandleRoundTrip
  <2>5. ThrottleTypeOK' /\ ShareInv' /\ ThrottleWithinLimit'
    BY <1>1, <2>1, <2>2, <2>3, <2>4 DEF ThrottleTypeOK, ShareInv, ThrottleWithinLimit
  <2> QED BY <2>1, <2>5 DEF ThrottleInv
<1>3. ASSUME NEW limit \in 0 .. Scale, LimitThrottle(limit)
      PROVE  ThrottleInv'
  <2>1. packetThrottle' \in Nat /\ packetThrottle' <= limit /\ packetThrottleLimit' = limit
    BY <1>1, <1>3 DEF LimitThrottle, Limited, Lesser, ThrottleTypeOK
  <2>2. /\ share' \in [counted : 0 .. Scale, out : 0 .. Scale] /\ share'.out <= share'.counted
    BY <1>1, <1>3, RecountFacts DEF LimitThrottle
  <2>3. UNCHANGED <<packetThrottleCounter, rtt, measured>>
    BY <1>3 DEF LimitThrottle
  <2> QED BY <1>1, <2>1, <2>2, <2>3
      DEF ThrottleInv, ThrottleTypeOK, ShareInv, ThrottleWithinLimit, EstimatesHold
<1>4. CASE ThrottlePacket
  <2> DEFINE c == IF share.counted = Scale THEN NoShare ELSE share
             o == IF NextCounter > packetThrottle THEN 0 ELSE 1
  <2>1. c.counted \in 0 .. Scale - 1 /\ c.out \in 0 .. Scale /\ c.out <= c.counted
    BY <1>1 DEF ThrottleTypeOK, ShareInv, NoShare
  <2>2. share' = [counted |-> c.counted + 1, out |-> c.out + o] /\ o \in {0, 1}
    BY <1>4 DEF ThrottlePacket
  <2> HIDE DEF c, o
  <2>3. share' \in [counted : 0 .. Scale, out : 0 .. Scale] /\ share'.out <= share'.counted
    BY <2>1, <2>2
  <2>4. packetThrottleCounter' \in Nat
    BY <1>1, <1>4 DEF ThrottlePacket, NextCounter, ThrottleTypeOK
  <2>5. UNCHANGED <<packetThrottle, packetThrottleLimit, rtt, measured>>
    BY <1>4 DEF ThrottlePacket
  <2> QED BY <1>1, <2>3, <2>4, <2>5
      DEF ThrottleInv, ThrottleTypeOK, ShareInv, ThrottleWithinLimit, EstimatesHold
<1>5. CASE UNCHANGED throttleVars
  BY <1>1, <1>5
  DEF throttleVars, ThrottleInv, ThrottleTypeOK, ShareInv, ThrottleWithinLimit, EstimatesHold
<1> QED BY <1>2, <1>3, <1>4, <1>5 DEF ThrottleNext

\* The throttle never stands above its limit, whatever acknowledgements and the
\* sharing of bandwidth do to them in turn; and the estimates bracket each other,
\* so that no unsigned difference goes below 0 (enet_peer_throttle,
\* enet_protocol_handle_acknowledge, enet_host_bandwidth_throttle).
THEOREM ThrottleCorrect ==
    ThrottleSpec => [](ThrottleTypeOK /\ ThrottleWithinLimit /\ EstimatesHold)
<1>1. ThrottleInv => ThrottleTypeOK /\ ThrottleWithinLimit /\ EstimatesHold
  BY DEF ThrottleInv
<1> QED BY <1>1, ThrottleInvInit, ThrottleInvStep, PTL DEF ThrottleSpec

\* The estimates of the round trip bracket each other, whatever is measured in
\* whatever order (enet_protocol_handle_acknowledge).
THEOREM EstimatesCorrect == ThrottleSpec => []EstimatesHold
<1> QED BY ThrottleCorrect, PTL

-----------------------------------------------------------------------------
\* The share of the packets that are let out.

\* What is left of a number after a division.
LEMMA RemainderFacts ==
    ASSUME NEW a \in Nat, NEW n \in Nat \ {0}
    PROVE  /\ a % n \in 0 .. (n - 1)
           /\ \E q \in Nat : a = q * n + (a % n)
           /\ \A q \in Nat, r \in 0 .. (n - 1) : a = q * n + r => a % n = r
<1>1. a % n \in 0 .. (n - 1) /\ a \div n \in Nat /\ a = (a \div n) * n + (a % n)
  <2>1. a % n \in 0 .. (n - 1)
    OBVIOUS
  <2>2. a \div n \in Nat
    OBVIOUS
  <2>3. a = n * (a \div n) + (a % n)
    OBVIOUS
  <2>4. n * (a \div n) = (a \div n) * n
    BY <2>2
  <2> QED BY <2>1, <2>2, <2>3, <2>4
<1>2. ASSUME NEW q \in Nat, NEW r \in 0 .. (n - 1), a = q * n + r
      PROVE  a % n = r
  <2> DEFINE p == a \div n
             m == a % n
  <2>1. p \in Nat /\ m \in 0 .. (n - 1) /\ a = p * n + m
    BY <1>1
  <2> HIDE DEF p, m
  <2>2. p = q
    <3>1. CASE p < q
      <4>1. (p + 1) * n <= q * n
        BY <2>1, <3>1
      <4> QED BY <1>2, <2>1, <4>1
    <3>2. CASE p > q
      <4>1. (q + 1) * n <= p * n
        BY <2>1, <3>2
      <4> QED BY <1>2, <2>1, <4>1
    <3> QED BY <2>1, <3>1, <3>2
  <2>3. m = r
    BY <1>2, <2>1, <2>2
  <2> QED BY <2>3 DEF m
<1> QED BY <1>1, <1>2

\* A remainder may be taken in between.
LEMMA RemainderAdds ==
    ASSUME NEW a \in Nat, NEW b \in Nat, NEW n \in Nat \ {0}
    PROVE  ((a % n) + b) % n = (a + b) % n
<1>1. PICK q \in Nat : a = q * n + (a % n)
  BY RemainderFacts
<1>2. PICK c \in Nat : c = a % n
  <2>1. a % n \in Nat
    BY RemainderFacts
  <2> QED BY <2>1
<1>3. PICK e \in Nat : e = c + b
  OBVIOUS
<1>4. PICK p \in Nat, d \in 0 .. (n - 1) : d = e % n /\ e = p * n + d
  <2>1. PICK p \in Nat : e = p * n + (e % n)
    BY RemainderFacts
  <2>2. e % n \in 0 .. (n - 1)
    BY RemainderFacts
  <2> QED BY <2>1, <2>2
<1>5. PICK f \in Nat, m \in Nat : f = a + b /\ m = q + p
  OBVIOUS
<1>6. f = m * n + d
  <2>1. (q + p) * n = q * n + p * n
    OBVIOUS
  <2>2. PICK x \in Nat, y \in Nat : x = q * n /\ y = p * n
    OBVIOUS
  <2>3. a = x + c /\ c + b = y + d /\ m * n = x + y
    BY <1>1, <1>2, <1>3, <1>4, <1>5, <2>1, <2>2
  <2> QED BY <1>5, <2>3
<1>7. f % n = d
  BY <1>6, RemainderFacts
<1> QED BY <1>2, <1>3, <1>4, <1>5, <1>7

\* Two numbers with the same remainder differ by a multiple.
LEMMA SameRemainder ==
    ASSUME NEW a \in Nat, NEW b \in Nat, NEW n \in Nat \ {0}, a % n = (a + b) % n
    PROVE  b % n = 0
<1>1. PICK q \in Nat : a = q * n + (a % n)
  BY RemainderFacts
<1>2. PICK f \in Nat : f = a + b
  OBVIOUS
<1>3. PICK p \in Nat : f = p * n + (f % n)
  BY RemainderFacts
<1>4. PICK r \in 0 .. (n - 1) : r = a % n
  BY RemainderFacts
<1>5. PICK k \in Int : k = p - q
  OBVIOUS
<1>6. b = k * n
  <2>1. PICK x \in Nat, y \in Nat : x = q * n /\ y = p * n
    OBVIOUS
  <2>2. a = x + r /\ f = y + r
    BY <1>1, <1>2, <1>3, <1>4, <2>1
  <2>3. b = y - x
    BY <1>2, <2>2
  <2>4. (p - q) * n = p * n - q * n
    OBVIOUS
  <2> QED BY <1>5, <2>1, <2>3, <2>4
<1>7. k \in Nat
  BY <1>6
<1>8. b = k * n + 0 /\ 0 \in 0 .. (n - 1)
  BY <1>6
<1> QED BY <1>7, <1>8, RemainderFacts

\* The counter i packets after it stood at c, and which of n packets go out.
CounterAt(c, i) == (c + i * CounterStep) % Scale

LetOut(c, n, t) == {i \in 1 .. n : CounterAt(c, i) <= t}

CycleInv ==
    /\ packetThrottleCounter \in 0 .. (Scale - 1)
    /\ \E c \in 0 .. (Scale - 1) :
        /\ packetThrottleCounter = CounterAt(c, share.counted)
        /\ share.out = Cardinality(LetOut(c, share.counted, packetThrottle))

\* One more packet.
LEMMA PassedGrows ==
    ASSUME NEW c \in 0 .. (Scale - 1), NEW n \in Nat, NEW t
    PROVE  /\ IsFiniteSet(LetOut(c, n, t)) /\ Cardinality(LetOut(c, n, t)) \in Nat
           /\ Cardinality(LetOut(c, 0, t)) = 0
           /\ Cardinality(LetOut(c, n + 1, t)) =
                Cardinality(LetOut(c, n, t)) + (IF CounterAt(c, n + 1) <= t THEN 1 ELSE 0)
<1>1. IsFiniteSet(1 .. n) /\ LetOut(c, n, t) \in SUBSET (1 .. n)
  BY FS_Interval DEF LetOut
<1>2. IsFiniteSet(LetOut(c, n, t)) /\ Cardinality(LetOut(c, n, t)) \in Nat
  BY <1>1, FS_Subset, FS_CardinalityType
<1>3. LetOut(c, 0, t) = {}
  BY DEF LetOut
<1>4. 1 .. (n + 1) = (1 .. n) \cup {n + 1} /\ n + 1 \notin 1 .. n
  OBVIOUS
<1>5. CASE CounterAt(c, n + 1) <= t
  <2>1. LetOut(c, n + 1, t) = LetOut(c, n, t) \cup {n + 1} /\ n + 1 \notin LetOut(c, n, t)
    BY <1>4, <1>5 DEF LetOut
  <2>2. Cardinality(LetOut(c, n + 1, t)) = Cardinality(LetOut(c, n, t)) + 1
    BY <1>2, <2>1, FS_AddElement
  <2> QED BY <1>2, <1>3, <1>5, <2>2, FS_EmptySet
<1>6. CASE ~(CounterAt(c, n + 1) <= t)
  <2>1. LetOut(c, n + 1, t) = LetOut(c, n, t)
    BY <1>4, <1>6 DEF LetOut
  <2> QED BY <1>2, <1>3, <1>6, <2>1, FS_EmptySet
<1> QED BY <1>5, <1>6

\* The counter of one packet more.
LEMMA CounterGoesOn ==
    ASSUME NEW c \in 0 .. (Scale - 1), NEW n \in Nat
    PROVE  /\ CounterAt(c, n) \in 0 .. (Scale - 1)
           /\ CounterAt(c, 0) = c
           /\ (CounterAt(c, n) + CounterStep) % Scale = CounterAt(c, n + 1)
<1>1. Scale \in Nat \ {0} /\ CounterStep \in Nat /\ c \in Nat
  BY ScaleAssumption
<1>2. PICK x \in Nat : x = n * CounterStep
  BY <1>1
<1>3. (n + 1) * CounterStep = x + CounterStep /\ 0 * CounterStep = 0
  BY <1>1, <1>2
<1>4. CounterAt(c, n) \in 0 .. (Scale - 1)
  <2>1. PICK a \in Nat : a = c + x
    BY <1>1
  <2>2. a % Scale \in 0 .. (Scale - 1)
    BY <1>1, RemainderFacts
  <2> QED BY <1>2, <2>1, <2>2 DEF CounterAt
<1>5. CounterAt(c, 0) = c
  <2>1. c = 0 * Scale + c
    BY <1>1
  <2>2. c % Scale = c
    BY <1>1, <2>1, RemainderFacts
  <2>3. c + 0 * CounterStep = c
    BY <1>1
  <2> QED BY <2>2, <2>3 DEF CounterAt
<1>6. (CounterAt(c, n) + CounterStep) % Scale = CounterAt(c, n + 1)
  <2>1. PICK a \in Nat : a = c + x
    BY <1>1
  <2>2. ((a % Scale) + CounterStep) % Scale = (a + CounterStep) % Scale
    BY <1>1, RemainderAdds
  <2>3. CounterAt(c, n) = a % Scale
    BY <1>2, <2>1 DEF CounterAt
  <2>4. c + (n + 1) * CounterStep = a + CounterStep
    BY <1>1, <1>3, <2>1
  <2>5. CounterAt(c, n + 1) = (a + CounterStep) % Scale
    BY <2>4 DEF CounterAt
  <2> QED BY <2>2, <2>3, <2>5
<1> QED BY <1>4, <1>5, <1>6

\* In Scale packets the counter takes every value once.
LEMMA CounterVisitsAll ==
    ASSUME NEW c \in 0 .. (Scale - 1)
    PROVE  [i \in 1 .. Scale |-> CounterAt(c, i)] \in Bijection(1 .. Scale, 0 .. (Scale - 1))
<1> DEFINE S == 1 .. Scale
           T == 0 .. (Scale - 1)
           f == [i \in S |-> CounterAt(c, i)]
<1>1. Scale \in Nat \ {0} /\ CounterStep \in Nat /\ c \in Nat
  BY ScaleAssumption
<1>2. f \in [S -> T]
  BY CounterGoesOn
<1>3. ASSUME NEW i \in S, NEW j \in S, i < j, f[i] = f[j]
      PROVE  FALSE
  <2>1. PICK k \in 1 .. (Scale - 1) : k = j - i
    BY <1>1, <1>3
  <2>2. PICK a \in Nat, b \in Nat : a = c + i * CounterStep /\ b = k * CounterStep
    BY <1>1, <2>1
  <2>3. a + b = c + j * CounterStep
    <3>1. j = i + k /\ i \in Nat /\ k \in Nat
      BY <1>1, <2>1
    <3>2. (i + k) * CounterStep = i * CounterStep + k * CounterStep
      BY <1>1, <3>1
    <3>3. PICK x \in Nat, y \in Nat : x = i * CounterStep /\ y = k * CounterStep
      BY <1>1, <3>1
    <3>4. a = c + x /\ b = y /\ j * CounterStep = x + y
      BY <2>2, <3>1, <3>2, <3>3
    <3> QED BY <1>1, <3>4
  <2>4. a % Scale = (a + b) % Scale
    BY <1>3, <2>2, <2>3 DEF CounterAt
  <2>5. b % Scale = 0
    BY <1>1, <2>4, SameRemainder
  <2> QED BY <2>1, <2>2, <2>5, CoprimeAssumption
<1>4. \A i, j \in S : f[i] = f[j] => i = j
  <2> SUFFICES ASSUME NEW i \in S, NEW j \in S, f[i] = f[j] PROVE i = j
    OBVIOUS
  <2>1. ~(i < j) /\ ~(j < i)
    BY <1>3
  <2> QED BY <2>1
<1>5. IsFiniteSet(T) /\ Cardinality(S) = Scale /\ Cardinality(T) = Scale
  BY <1>1, FS_Interval
<1> HIDE DEF S, T, f
<1>6. f \in Injection(S, T)
  BY <1>2, <1>4 DEF Injection, IsInjective
<1>7. f \in Surjection(S, T)
  BY <1>5, <1>6, FS_Injection
<1>8. f \in Bijection(S, T)
  BY <1>6, <1>7 DEF Bijection
<1> QED BY <1>8 DEF S, T, f

\* So as many of them go out as there are values up to the throttle.
LEMMA CycleCount ==
    ASSUME NEW c \in 0 .. (Scale - 1), NEW t \in 0 .. Scale
    PROVE  Cardinality(LetOut(c, Scale, t)) = Lesser(t + 1, Scale)
<1> DEFINE f == [i \in 1 .. Scale |-> CounterAt(c, i)]
           P == LetOut(c, Scale, t)
           V == {v \in 0 .. (Scale - 1) : v <= t}
           g == [i \in P |-> f[i]]
<1>1. Scale \in Nat \ {0}
  BY ScaleAssumption
<1>2. /\ \A i \in 1 .. Scale : f[i] \in 0 .. (Scale - 1)
      /\ \A i, j \in 1 .. Scale : f[i] = f[j] => i = j
      /\ \A v \in 0 .. (Scale - 1) : \E i \in 1 .. Scale : f[i] = v
  <2>1. f \in Bijection(1 .. Scale, 0 .. (Scale - 1))
    BY CounterVisitsAll
  <2> HIDE DEF f
  <2> QED BY <2>1 DEF Bijection, Injection, Surjection, IsInjective
<1>3. P = {i \in 1 .. Scale : f[i] <= t}
  BY DEF LetOut
<1> HIDE DEF f, P
<1>4. g \in Bijection(P, V)
  <2>1. \A i \in P : f[i] \in V /\ i \in 1 .. Scale
    BY <1>2, <1>3
  <2>2. g \in [P -> V] /\ \A i \in P : g[i] = f[i]
    BY <2>1
  <2>3. \A v \in V : \E i \in P : g[i] = v
    BY <1>2, <1>3, <2>2
  <2>4. \A i, j \in P : g[i] = g[j] => i = j
    BY <1>2, <2>1, <2>2
  <2> HIDE DEF g, V
  <2> QED BY <2>2, <2>3, <2>4 DEF Bijection, Injection, Surjection, IsInjective
<1>5. IsFiniteSet(P) /\ P = LetOut(c, Scale, t)
  <2>1. Scale \in Nat
    BY <1>1
  <2> QED BY <2>1, PassedGrows DEF P
<1>6. ExistsBijection(P, V)
  BY <1>4 DEF ExistsBijection
<1>7. Cardinality(P) = Cardinality(V)
  BY <1>5, <1>6, FS_Bijection
<1>8. V = 0 .. (Lesser(t + 1, Scale) - 1) /\ Lesser(t + 1, Scale) \in Nat \ {0}
  BY <1>1 DEF Lesser
<1>9. Cardinality(V) = Lesser(t + 1, Scale)
  <2>1. PICK m \in Nat \ {0} : m = Lesser(t + 1, Scale)
    BY <1>8
  <2>2. Cardinality(0 .. (m - 1)) = m
    BY FS_Interval
  <2> QED BY <1>8, <2>1, <2>2
<1> QED BY <1>5, <1>7, <1>9

\* What leaves the counter alone leaves the count or begins it again.
LEMMA CycleRecounts ==
    ASSUME CycleInv, packetThrottleCounter' = packetThrottleCounter,
           \/ share' = share /\ packetThrottle' = packetThrottle
           \/ share' = NoShare
    PROVE  CycleInv'
<1>1. packetThrottleCounter \in 0 .. (Scale - 1)
  BY DEF CycleInv
<1>2. CASE share' = share /\ packetThrottle' = packetThrottle
  BY <1>2 DEF CycleInv
<1>3. CASE share' = NoShare
  <2>1. /\ packetThrottleCounter = CounterAt(packetThrottleCounter, 0)
        /\ Cardinality(LetOut(packetThrottleCounter, 0, packetThrottle')) = 0
    BY <1>1, CounterGoesOn, PassedGrows
  <2>2. share'.counted = 0 /\ share'.out = 0
    BY <1>3 DEF NoShare
  <2> QED BY <1>1, <2>1, <2>2 DEF CycleInv
<1> QED BY <1>2, <1>3

\* Every step keeps the count.
LEMMA CycleInvStep ==
    ASSUME ThrottleInv, CycleInv, [ThrottleNext]_throttleVars
    PROVE  CycleInv'
<1>1. ASSUME NEW sample, NEW over, HandleRoundTrip(sample, over)
      PROVE  CycleInv'
  BY <1>1, CycleRecounts DEF HandleRoundTrip, Recount
<1>2. ASSUME NEW limit, LimitThrottle(limit)
      PROVE  CycleInv'
  BY <1>2, CycleRecounts DEF LimitThrottle, Recount
<1>3. CASE ThrottlePacket
  <2> DEFINE base == IF share.counted = Scale THEN NoShare ELSE share
             one == IF NextCounter > packetThrottle THEN 0 ELSE 1
  <2>1. /\ packetThrottleCounter' = NextCounter /\ packetThrottle' = packetThrottle
        /\ share' = [counted |-> base.counted + 1, out |-> base.out + one]
    BY <1>3 DEF ThrottlePacket
  <2>2. packetThrottleCounter \in 0 .. (Scale - 1) /\ packetThrottle \in Nat
    BY DEF CycleInv, ThrottleInv, ThrottleTypeOK
  <2>3. base.counted \in Nat
    BY ScaleAssumption DEF ThrottleInv, ThrottleTypeOK, NoShare
  <2>4. \E c \in 0 .. (Scale - 1) :
          /\ packetThrottleCounter = CounterAt(c, base.counted)
          /\ base.out = Cardinality(LetOut(c, base.counted, packetThrottle))
    <3>1. CASE share.counted = Scale
      <4>1. /\ packetThrottleCounter = CounterAt(packetThrottleCounter, 0)
            /\ Cardinality(LetOut(packetThrottleCounter, 0, packetThrottle)) = 0
        BY <2>2, CounterGoesOn, PassedGrows
      <4>2. base.counted = 0 /\ base.out = 0
        BY <3>1 DEF NoShare
      <4> QED BY <2>2, <4>1, <4>2
    <3>2. CASE share.counted # Scale
      BY <3>2 DEF CycleInv
    <3> QED BY <3>1, <3>2
  <2> HIDE DEF base
  <2>5. PICK n \in Nat : n = base.counted
    BY <2>3
  <2>6. PICK c \in 0 .. (Scale - 1) :
          /\ packetThrottleCounter = CounterAt(c, n)
          /\ base.out = Cardinality(LetOut(c, n, packetThrottle))
    BY <2>4, <2>5
  <2>7. NextCounter = CounterAt(c, n + 1) /\ CounterAt(c, n + 1) \in 0 .. (Scale - 1)
    <3>1. n + 1 \in Nat
      OBVIOUS
    <3> QED BY <2>6, <3>1, CounterGoesOn DEF NextCounter
  <2>8. CounterAt(c, n + 1) \in Int
    BY <2>7, ScaleAssumption
  <2>9. one = IF CounterAt(c, n + 1) <= packetThrottle THEN 1 ELSE 0
    BY <2>2, <2>7, <2>8
  <2> HIDE DEF one
  <2>10. Cardinality(LetOut(c, n + 1, packetThrottle)) = base.out + one
    BY <2>6, <2>9, PassedGrows
  <2>11. share'.counted = n + 1 /\ share'.out = base.out + one
    BY <2>1, <2>5
  <2> QED BY <2>1, <2>7, <2>10, <2>11 DEF CycleInv
<1>4. CASE UNCHANGED throttleVars
  BY <1>4, CycleRecounts DEF throttleVars
<1> QED BY <1>1, <1>2, <1>3, <1>4 DEF ThrottleNext

\* As long as the throttle stays at t, any Scale packets in a row lose all but t + 1,
\* wherever the counter stands, if its step has no factor in common with Scale
\* (enet_protocol_send_unreliable_outgoing_commands).
THEOREM ShareIsExact == ThrottleSpec => []CycleShare
<1>1. ThrottleInit => CycleInv
  <2> SUFFICES ASSUME ThrottleInit PROVE CycleInv
    OBVIOUS
  <2>1. 0 \in 0 .. (Scale - 1)
    BY ScaleAssumption
  <2>2. /\ CounterAt(0, 0) = 0 /\ Cardinality(LetOut(0, 0, packetThrottle)) = 0
    BY <2>1, CounterGoesOn, PassedGrows
  <2> QED BY <2>1, <2>2 DEF ThrottleInit, CycleInv, NoShare
<1>2. ThrottleInv /\ CycleInv => CycleShare
  <2> SUFFICES ASSUME ThrottleInv, CycleInv, share.counted = Scale PROVE CycleShare
    BY DEF CycleShare
  <2>1. packetThrottle \in 0 .. Scale
    BY ScaleAssumption DEF ThrottleInv, ThrottleTypeOK, ThrottleWithinLimit
  <2>2. PICK c \in 0 .. (Scale - 1) : share.out = Cardinality(LetOut(c, Scale, packetThrottle))
    BY DEF CycleInv
  <2> QED BY <2>1, <2>2, CycleCount DEF CycleShare
<1> QED BY <1>1, <1>2, ThrottleInvInit, ThrottleInvStep, CycleInvStep, PTL DEF ThrottleSpec

-----------------------------------------------------------------------------
\* EnetBandwidth.

\* What the host keeps of a peer, as the record of its fields.
LinkRecord(l) == l = [incoming |-> l.incoming, outgoing |-> l.outgoing, told |-> l.told]

\* BandwidthSpec, but for its fairness.
BandwidthSafety == BandwidthInit /\ [][BandwidthNext]_bandwidthVars

NewsInv ==
    /\ host = [incoming |-> host.incoming, outgoing |-> host.outgoing,
               recalculate |-> host.recalculate]
    /\ \A p \in Connected : LinkRecord(links[p])
    /\ NewsIsDue

\* What a peer says of its own bandwidths changes nothing of what it was told.
LEMMA LinkLimited ==
    ASSUME NEW p \in Connected, NEW incoming, NEW outgoing, LinkRecord(links[p]),
           HandleBandwidthLimit(p, incoming, outgoing)
    PROVE  /\ Connected' = Connected
           /\ \A q \in Connected : q # p => links'[q] = links[q]
           /\ LinkRecord(links'[p]) /\ links'[p].told = links[p].told
           /\ links'[p].incoming = incoming /\ links'[p].outgoing = outgoing
<1> DEFINE l == links[p]
           in == [l EXCEPT !.incoming = incoming]
           out == [in EXCEPT !.outgoing = outgoing]
           fst == [links EXCEPT ![p] = in]
<1>1. links' = [fst EXCEPT ![p] = out]
  <2>1. links' = [[links EXCEPT ![p].incoming = incoming] EXCEPT ![p].outgoing = outgoing]
    BY DEF HandleBandwidthLimit
  <2>2. [links EXCEPT ![p].incoming = incoming] = fst
    OBVIOUS
  <2>3. fst[p] = in
    BY DEF Connected
  <2> HIDE DEF fst
  <2>4. links' = [fst EXCEPT ![p] = [fst[p] EXCEPT !.outgoing = outgoing]]
    BY <2>1, <2>2
  <2> QED BY <2>3, <2>4
<1>2. in = [incoming |-> incoming, outgoing |-> l.outgoing, told |-> l.told]
  BY DEF LinkRecord
<1> HIDE DEF in
<1>3. out = [incoming |-> incoming, outgoing |-> outgoing, told |-> l.told]
  BY <1>2
<1> HIDE DEF out
<1>4. DOMAIN fst = DOMAIN links /\ \A q \in DOMAIN links : q # p => fst[q] = links[q]
  OBVIOUS
<1> HIDE DEF fst
<1>5. links'[p] = out /\ DOMAIN links' = DOMAIN links
  BY <1>1, <1>4 DEF Connected
<1> QED BY <1>1, <1>3, <1>4, <1>5 DEF Connected, LinkRecord

\* The news is due again after every step that changes it or brings a peer.
LEMMA NewsInvStep ==
    ASSUME NewsInv, [BandwidthNext]_bandwidthVars
    PROVE  NewsInv'
<1> USE DEF NewsInv, NewsIsDue
<1>1. ASSUME NEW incoming \in Bandwidths, NEW outgoing \in Bandwidths, SetBandwidth(incoming, outgoing)
      PROVE  NewsInv'
  BY <1>1 DEF SetBandwidth, Connected
<1>2. ASSUME NEW p \in Peers, NEW incoming \in Bandwidths, NEW outgoing \in Bandwidths,
             PeerConnects(p, incoming, outgoing)
      PROVE  NewsInv'
  <2>1. host' = [incoming |-> host.incoming, outgoing |-> host.outgoing, recalculate |-> TRUE]
    BY <1>2 DEF PeerConnects
  <2>2. DOMAIN links' = Connected \cup {p} /\ \A q \in Connected : links'[q] = links[q]
    BY <1>2 DEF PeerConnects
  <2>3. LinkRecord(links'[p])
    BY <1>2 DEF PeerConnects, LinkRecord
  <2> QED BY <2>1, <2>2, <2>3 DEF Connected
<1>3. ASSUME NEW p \in Peers, NEW incoming \in Bandwidths, NEW outgoing \in Bandwidths,
             HandleBandwidthLimit(p, incoming, outgoing)
      PROVE  NewsInv'
  <2>1. p \in Connected /\ host' = host
    BY <1>3 DEF HandleBandwidthLimit
  <2> QED BY <1>3, <2>1, LinkLimited
<1>4. ASSUME NEW p \in Peers, PeerDisconnects(p)
      PROVE  NewsInv'
  <2>1. \/ host' = host
        \/ host' = [incoming |-> host.incoming, outgoing |-> host.outgoing, recalculate |-> TRUE]
    BY <1>4 DEF PeerDisconnects
  <2>2. DOMAIN links' = Connected \ {p} /\ \A q \in DOMAIN links' : links'[q] = links[q]
    BY <1>4 DEF PeerDisconnects
  <2> QED BY <2>1, <2>2 DEF Connected
<1>5. ASSUME UNCHANGED <<links, host>>
      PROVE  NewsInv'
  BY <1>5 DEF Connected
<1>6. CASE TellingEnds
  <2>1. host' = [incoming |-> host.incoming, outgoing |-> host.outgoing, recalculate |-> FALSE]
    BY <1>6 DEF TellingEnds
  <2>2. DOMAIN links' = Connected
    BY <1>6 DEF TellingEnds
  <2>3. ASSUME NEW p \in Connected
        PROVE  LinkRecord(links'[p]) /\ links'[p].told.outgoing = host.outgoing
    <3> DEFINE news == [outgoing |-> host.outgoing,
                        incoming |-> IF p \in loop.done THEN links[p].outgoing ELSE loop.share]
    <3>1. links'[p] = [links[p] EXCEPT !.told = news]
      BY <1>6 DEF TellingEnds, Told
    <3>2. news.outgoing = host.outgoing
      OBVIOUS
    <3> HIDE DEF news
    <3>3. links'[p] = [incoming |-> links[p].incoming, outgoing |-> links[p].outgoing, told |-> news]
      BY <3>1 DEF LinkRecord
    <3> QED BY <3>2, <3>3 DEF LinkRecord
  <2> QED BY <2>1, <2>2, <2>3 DEF Connected
<1> QED
  BY <1>1, <1>2, <1>3, <1>4, <1>5, <1>6 DEF BandwidthNext, Bandwidths, bandwidthVars, ThrottleSteps,
     ThrottleCalled, ThrottleBegins, SharingRound, SharingEnds, TellingRound, ThrottleReturns

\* No step takes the news from the agenda but its being told.
LEMMA NewsKept == BandwidthSafety => []NewsIsDue
<1>1. BandwidthInit => NewsInv
  BY DEF BandwidthInit, NewsInv, NewsIsDue, Connected
<1>2. NewsInv /\ [BandwidthNext]_bandwidthVars => NewsInv'
  BY NewsInvStep
<1>3. NewsInv => NewsIsDue
  BY DEF NewsInv
<1> QED BY <1>1, <1>2, <1>3, PTL DEF BandwidthSafety

\* A connected peer that has been told of an outgoing bandwidth the host no longer
\* has is about to be told again, whoever comes or goes in between and whatever
\* the bandwidths are (enet_host_bandwidth_limit, enet_host_bandwidth_throttle).
THEOREM NewsStaysDue == BandwidthSpec => []NewsIsDue
<1> QED BY NewsKept, PTL DEF BandwidthSpec, BandwidthSafety

-----------------------------------------------------------------------------
\* The sharing of the bandwidth.

\* What a bandwidth makes of a time.
LEMMA InTimeFacts ==
    ASSUME NEW b \in Nat, NEW e \in Nat
    PROVE  /\ InTime(b, e) \in Nat
           /\ b \in Bandwidths \ {0} /\ e \in Elapsed => InTime(b, e) > 0
<1> DEFINE product == (b * e) % (Unlimited + 1)
<1>1. product \in Nat
  <2>1. b * e \in Nat /\ Unlimited + 1 \in Nat \ {0}
    BY BandwidthAssumption
  <2> QED BY <2>1
<1>2. Interval \in Nat \ {0} /\ (b \in Bandwidths \ {0} /\ e \in Elapsed => product >= Interval)
  BY BandwidthAssumption
<1> HIDE DEF product
<1>3. product \div Interval \in Nat /\ (product >= Interval => product \div Interval > 0)
  BY <1>1, <1>2
<1> QED BY <1>2, <1>3 DEF InTime, product

\* Dividing and multiplying back.
LEMMA QuotientFacts ==
    ASSUME NEW a \in Nat, NEW d \in Nat \ {0}
    PROVE  /\ a \div d \in Nat /\ (a \div d) * d <= a /\ a < (a \div d + 1) * d
           /\ \A c \in Nat : a \div d > c => (c + 1) * d <= a
OBVIOUS

\* Greater factors, greater products.
LEMMA ProductGrows ==
    ASSUME NEW a \in Nat, NEW b \in Nat, NEW c \in Nat
    PROVE  /\ a <= b => a * c <= b * c
           /\ a * c < b * c => a < b
           /\ a \in Nat \ {0} /\ a * b <= a * c => b <= c
OBVIOUS

\* The rate of d bytes for a bandwidth of b makes no more of them than b.
LEMMA RateFacts ==
    ASSUME NEW s \in Nat, NEW b \in Nat \ {0}, NEW d \in Nat, NEW r,
           r = IF d < b THEN s ELSE (b * s) \div d
    PROVE  r \in 0 .. s /\ r * d <= s * b
<1>1. CASE d < b
  <2>1. d * s <= b * s
    BY <1>1, ProductGrows
  <2> QED BY <1>1, <2>1
<1>2. CASE ~(d < b)
  <2>1. d \in Nat \ {0} /\ b * s \in Nat /\ b * s <= d * s /\ b <= d
    BY <1>2, ProductGrows
  <2>2. r \in Nat /\ r * d <= b * s
    BY <1>2, <2>1, QuotientFacts
  <2>3. d * r <= d * s
    BY <2>1, <2>2
  <2>4. r <= s
    BY <2>1, <2>2, <2>3, ProductGrows
  <2> QED BY <2>2, <2>4
<1> QED BY <1>1, <1>2

\* One round: the peers of E, none of which can take its part of the rate r of the
\* d bytes, are given less than the bandwidth b, and the others' bytes stay in d.
LEMMA RoundFits ==
    ASSUME NEW T, IsFiniteSet(T), NEW data \in [T -> Nat], NEW pb \in [T -> Nat],
           NEW g, NEW h, SumOn(g, data, T), SumOn(h, pb, T),
           NEW done \in SUBSET T, NEW E \in SUBSET (T \ done),
           NEW s \in Nat \ {0}, NEW b \in Nat \ {0}, NEW d \in Nat, NEW r \in 0 .. s,
           r * d <= s * b, g[T \ done] <= d,
           \A p \in E : (pb[p] + 1) * s <= r * data[p]
    PROVE  /\ h[E] \in Nat /\ h[E] < b /\ d - h[E] \in Nat
           /\ h[done \cup E] = h[done] + h[E] /\ h[done] \in Nat
           /\ g[T \ (done \cup E)] <= d - h[E]
<1> DEFINE rest == T \ (done \cup E)
<1>1. /\ \A p \in T : data[p] \in Nat /\ pb[p] \in Nat /\ data[p] \in Int /\ pb[p] \in Int
      /\ r \in Nat /\ r <= s
  OBVIOUS
<1>2. \A t \in SUBSET T : g[t] \in Nat /\ h[t] \in Nat
  BY <1>1, SumNatural
<1>3. /\ E \in SUBSET T /\ done \in SUBSET T /\ T \ done \in SUBSET T /\ done \cup E \in SUBSET T
      /\ rest \in SUBSET T /\ (T \ done) \ E = rest /\ (done \cup E) \ done = E
  OBVIOUS
<1>4. g[T \ done] = g[E] + g[rest]
  BY <1>1, <1>3, SumSplit
<1>5. h[done \cup E] = h[done] + h[E]
  <2>1. done \in SUBSET (done \cup E)
    OBVIOUS
  <2>2. h[done \cup E] = h[done] + h[(done \cup E) \ done]
    BY <1>1, <1>3, <2>1, SumSplit
  <2> QED BY <1>3, <2>2
<1>6. ASSUME NEW p \in E PROVE pb[p] <= data[p] /\ pb[p] * s < r * data[p]
  <2>1. pb[p] \in Nat /\ data[p] \in Nat /\ (pb[p] + 1) * s <= r * data[p]
    BY <1>1, <1>3
  <2>2. r * data[p] <= s * data[p]
    BY <1>1, <2>1, ProductGrows
  <2>3. (pb[p] + 1) * s = pb[p] * s + s /\ pb[p] * s \in Nat /\ r * data[p] \in Nat
    BY <1>1, <2>1
  <2>4. pb[p] * s < r * data[p] /\ pb[p] * s < data[p] * s
    BY <2>1, <2>2, <2>3
  <2> QED BY <2>1, <2>4, ProductGrows
<1>7. h[E] <= g[E]
  BY <1>1, <1>3, <1>6, SumMonotone
<1>8. h[E] < b
  <2>1. CASE E = {}
    BY <2>1, <1>3 DEF SumOn
  <2>2. CASE E # {}
    <3> DEFINE w == [p \in T |-> s * pb[p]]
               v == [p \in T |-> r * data[p]]
    <3>1. \A p \in T : /\ w[p] = s * pb[p] /\ v[p] = r * data[p] /\ w[p] \in Int /\ v[p] \in Int
                       /\ pb[p] \in Int /\ data[p] \in Int
      BY <1>1
    <3>2. \A p \in E : w[p] < v[p]
      <4>1. ASSUME NEW p \in E PROVE s * pb[p] < r * data[p]
        BY <1>1, <1>3, <1>6
      <4> QED BY <1>3, <3>1, <4>1
    <3> HIDE DEF w, v
    <3>3. PICK k : SumOn(k, w, T)
      BY <3>1, SumFor
    <3>4. PICK l : SumOn(l, v, T)
      BY <3>1, SumFor
    <3>5. k[E] < l[E]
      BY <1>3, <2>2, <3>1, <3>2, <3>3, <3>4, SumStrict
    <3>6. k[E] = s * h[E]
      <4>1. s \in Int
        OBVIOUS
      <4> QED BY <1>3, <3>1, <3>3, <4>1, SumScaled
    <3>7. l[E] = r * g[E]
      <4>1. r \in Int
        OBVIOUS
      <4> QED BY <1>3, <3>1, <3>4, <4>1, SumScaled
    <3>8. g[E] <= d /\ g[E] \in Nat /\ h[E] \in Nat
      BY <1>2, <1>3, <1>4
    <3>9. r * g[E] <= r * d
      BY <1>1, <3>8, ProductGrows
    <3>10. h[E] * s < b * s
      BY <1>1, <3>5, <3>6, <3>7, <3>8, <3>9
    <3> QED BY <3>8, <3>10, ProductGrows
  <2> QED BY <2>1, <2>2
<1> HIDE DEF rest
<1>9. g[E] \in Nat /\ h[E] \in Nat /\ g[rest] \in Nat /\ h[done] \in Nat
  BY <1>2, <1>3
<1>10. d - h[E] \in Nat /\ g[rest] <= d - h[E]
  BY <1>4, <1>7, <1>9
<1> QED BY <1>5, <1>8, <1>9, <1>10 DEF rest

\* The last round: the peers of T with the bytes data can take pb, those of done were
\* given it, and the others are left with the bandwidth b for their d bytes, at the
\* rate r.  The peers of X are sent w at their limits, k in all.
LastRound(T, data, pb, g, h, done, X, s, b, d, r, w, k) ==
    /\ IsFiniteSet(T) /\ data \in [T -> Nat] /\ pb \in [T -> Nat]
    /\ SumOn(g, data, T) /\ SumOn(h, pb, T)
    /\ done \in SUBSET T /\ X \in SUBSET T
    /\ s \in Nat \ {0} /\ b \in Nat /\ d \in Nat /\ r \in 0 .. s
    /\ r * d <= s * b /\ g[T \ done] <= d
    /\ SumOn(k, w, X)
    /\ \A p \in X : w[p] \in Int
    /\ \A p \in X : p \in done => w[p] <= s * pb[p]
    /\ \A p \in X : p \notin done => w[p] = r * data[p]

\* When nobody is left who cannot take the rate, what every peer of X is sent at
\* its limit is together no more than the bandwidth there was.
LEMMA EndFits ==
    ASSUME NEW T, NEW data, NEW pb, NEW g, NEW h, NEW done, NEW X, NEW s, NEW b, NEW d,
           NEW r, NEW w, NEW k, LastRound(T, data, pb, g, h, done, X, s, b, d, r, w, k)
    PROVE  k[X] <= s * (b + h[done])
<1>0. /\ IsFiniteSet(T) /\ data \in [T -> Nat] /\ pb \in [T -> Nat]
      /\ SumOn(g, data, T) /\ SumOn(h, pb, T)
      /\ done \in SUBSET T /\ X \in SUBSET T
      /\ s \in Nat \ {0} /\ b \in Nat /\ d \in Nat /\ r \in 0 .. s
      /\ r * d <= s * b /\ g[T \ done] <= d
      /\ SumOn(k, w, X)
      /\ \A p \in X : w[p] \in Int
      /\ \A p \in X : p \in done => w[p] <= s * pb[p]
      /\ \A p \in X : p \notin done => w[p] = r * data[p]
  BY DEF LastRound
<1> USE <1>0
<1> DEFINE in == X \cap done
           out == X \ done
<1>1. /\ \A p \in T : data[p] \in Nat /\ pb[p] \in Nat /\ data[p] \in Int /\ pb[p] \in Int
      /\ r \in Nat /\ r <= s /\ s \in Int /\ r \in Int
  OBVIOUS
<1>2. \A t \in SUBSET T : g[t] \in Nat /\ h[t] \in Nat
  BY <1>1, SumNatural
<1>3. /\ in \in SUBSET X /\ out \in SUBSET X /\ in \in SUBSET T /\ out \in SUBSET T
      /\ X \ in = out /\ IsFiniteSet(X) /\ in \subseteq done /\ out \subseteq T \ done
      /\ T \ done \in SUBSET T
  BY FS_Subset
<1>4. k[X] = k[in] + k[out] /\ k[in] \in Int
  <2>1. X \in SUBSET X
    OBVIOUS
  <2>2. k[X] = k[in] + k[X \ in]
    BY <1>3, <2>1, SumSplit
  <2> QED BY <1>3, <2>2 DEF SumOn
<1>5. \A S \in SUBSET T : \A p \in SUBSET S : h[p] <= h[S] /\ g[p] <= g[S]
  <2>1. ASSUME NEW S \in SUBSET T, NEW p \in SUBSET S PROVE h[p] <= h[S] /\ g[p] <= g[S]
    <3>1. h[S] = h[p] + h[S \ p] /\ g[S] = g[p] + g[S \ p]
      BY <1>1, SumSplit
    <3>2. /\ h[p] \in Nat /\ h[S \ p] \in Nat /\ g[p] \in Nat /\ g[S \ p] \in Nat
      BY <1>2
    <3> QED BY <3>1, <3>2
  <2> QED BY <2>1
<1> HIDE DEF in, out
<1>6. k[in] <= s * h[in]
  <2> DEFINE v == [p \in X |-> s * pb[p]]
  <2>1. \A p \in X : v[p] = s * pb[p] /\ v[p] \in Int /\ pb[p] \in Int /\ w[p] \in Int
    BY <1>1
  <2> HIDE DEF v
  <2>2. PICK l : SumOn(l, v, X)
    BY <1>3, <2>1, SumFor
  <2>3. \A p \in in : w[p] <= v[p]
    BY <1>3, <2>1
  <2>4. k[in] <= l[in]
    BY <1>3, <2>1, <2>2, <2>3, SumMonotone
  <2>5. SumOn(h, pb, X)
    BY <1>3 DEF SumOn
  <2>6. l[in] = s * h[in]
    BY <1>1, <1>3, <2>1, <2>2, <2>5, SumScaled
  <2> QED BY <2>4, <2>6
<1>7. k[out] = r * g[out]
  <2>1. SumOn(k, w, out) /\ SumOn(g, data, out)
    BY <1>3 DEF SumOn
  <2>2. \A p \in out : data[p] \in Int /\ w[p] = r * data[p]
    BY <1>1, <1>3
  <2>3. IsFiniteSet(out)
    BY <1>3, FS_Subset
  <2> QED BY <1>1, <2>1, <2>2, <2>3, SumScaled
<1>8. /\ h[in] \in Nat /\ h[done] \in Nat /\ h[in] <= h[done]
      /\ g[out] \in Nat /\ g[out] <= d
  <2>1. h[in] <= h[done] /\ g[out] <= g[T \ done]
    BY <1>3, <1>5
  <2> QED BY <1>2, <1>3, <2>1
<1>9. s * h[in] <= s * h[done]
  BY <1>8, ProductGrows
<1>10. r * g[out] <= r * d
  BY <1>1, <1>8, ProductGrows
<1>11. s * (b + h[done]) = s * b + s * h[done]
  BY <1>8
<1>12. k[in] <= s * h[done] /\ k[out] <= s * b
  <2>1. /\ s * h[in] \in Int /\ s * h[done] \in Int /\ r * g[out] \in Int
        /\ r * d \in Int /\ s * b \in Int
    BY <1>1, <1>8
  <2> QED BY <1>4, <1>6, <1>7, <1>9, <1>10, <2>1
<1>13. s * h[done] \in Int /\ s * b \in Int /\ k[out] \in Int
  BY <1>1, <1>7, <1>8
<1> QED BY <1>4, <1>11, <1>12, <1>13

\* The totals of the model, by the shape of their terms: bytes, what peers can take,
\* what peers are sent at their limits.
WeightTotal(w, T) == Total(LAMBDA p : w[p], T)
GivenTotal(T) == Total(PeerBandwidth, T)
SentTotal(limit, data, T) == Total(LAMBDA p : limit[p] * data[p], T)

\* The bytes of a set of peers.
LEMMA WeightIsSum ==
    ASSUME NEW T, IsFiniteSet(T), NEW w, \A p \in T : w[p] \in Int
    PROVE  \E g : SumOn(g, w, T) /\ WeightTotal(w, T) = g[T]
<1> DEFINE iter == CHOOSE g : g = [t \in SUBSET T |->
                      IF t = {} THEN 0
                      ELSE w[CHOOSE x \in t : TRUE] + g[t \ {CHOOSE x \in t : TRUE}]]
<1>1. WeightTotal(w, T) = iter[T]
  BY DEF WeightTotal, Total, MapThenSumSet, MapThenFoldSet
<1>2. \E g : g = [t \in SUBSET T |->
                    IF t = {} THEN 0
                    ELSE w[CHOOSE x \in t : TRUE] + g[t \ {CHOOSE x \in t : TRUE}]]
  <2>1. PICK g : Sums(g, w, T)
    BY SumExists
  <2>2. g = [t \in SUBSET T |->
               IF t = {} THEN 0
               ELSE w[CHOOSE x \in t : TRUE] + g[t \ {CHOOSE x \in t : TRUE}]]
    BY <2>1 DEF Sums, Chosen
  <2> QED BY <2>2, Zenon
<1>3. iter = [t \in SUBSET T |->
                IF t = {} THEN 0
                ELSE w[CHOOSE x \in t : TRUE] + iter[t \ {CHOOSE x \in t : TRUE}]]
  BY <1>2, Zenon
<1> HIDE DEF iter
<1>4. Sums(iter, w, T)
  BY <1>3 DEF Sums, Chosen
<1> QED BY <1>1, <1>4, SumAnyOrder

\* What a set of connected peers can take.
LEMMA GivenIsSum ==
    ASSUME NEW T, IsFiniteSet(T), NEW w, \A p \in T : w[p] \in Int /\ w[p] = PeerBandwidth(p)
    PROVE  \E g : SumOn(g, w, T) /\ GivenTotal(T) = g[T]
<1> DEFINE iter == CHOOSE g : g = [t \in SUBSET T |->
                      IF t = {} THEN 0
                      ELSE PeerBandwidth(CHOOSE x \in t : TRUE) + g[t \ {CHOOSE x \in t : TRUE}]]
<1>1. GivenTotal(T) = iter[T]
  BY DEF GivenTotal, Total, MapThenSumSet, MapThenFoldSet
<1>2. \A g : g = [t \in SUBSET T |->
                    IF t = {} THEN 0
                    ELSE PeerBandwidth(CHOOSE x \in t : TRUE) + g[t \ {CHOOSE x \in t : TRUE}]]
             <=> Sums(g, w, T)
  <2> TAKE g
  <2>1. ASSUME NEW t \in SUBSET T
        PROVE  (IF t = {} THEN 0
                ELSE PeerBandwidth(CHOOSE x \in t : TRUE) + g[t \ {CHOOSE x \in t : TRUE}])
               = (IF t = {} THEN 0 ELSE w[Chosen(t)] + g[t \ {Chosen(t)}])
    <3>1. t # {} => Chosen(t) \in T
      BY DEF Chosen
    <3>2. t # {} => w[Chosen(t)] = PeerBandwidth(Chosen(t))
      BY <3>1
    <3> QED BY <3>2 DEF Chosen
  <2> QED BY <2>1 DEF Sums
<1>3. PICK g : Sums(g, w, T)
  BY SumExists
<1>4. \E f : f = [t \in SUBSET T |->
                    IF t = {} THEN 0
                    ELSE PeerBandwidth(CHOOSE x \in t : TRUE) + f[t \ {CHOOSE x \in t : TRUE}]]
  <2>1. g = [t \in SUBSET T |->
               IF t = {} THEN 0
               ELSE PeerBandwidth(CHOOSE x \in t : TRUE) + g[t \ {CHOOSE x \in t : TRUE}]]
    BY <1>2, <1>3, Zenon
  <2> QED BY <2>1, Zenon
<1>5. iter = [t \in SUBSET T |->
                IF t = {} THEN 0
                ELSE PeerBandwidth(CHOOSE x \in t : TRUE) + iter[t \ {CHOOSE x \in t : TRUE}]]
  BY <1>4, Zenon
<1> HIDE DEF iter
<1>6. Sums(iter, w, T)
  BY <1>2, <1>5, Zenon
<1> QED BY <1>1, <1>6, SumAnyOrder

\* What a set of peers is sent at its limits.
LEMMA SentIsSum ==
    ASSUME NEW T, IsFiniteSet(T), NEW limit, NEW data, NEW w,
           \A p \in T : w[p] \in Int /\ w[p] = limit[p] * data[p]
    PROVE  \E g : SumOn(g, w, T) /\ SentTotal(limit, data, T) = g[T]
<1> DEFINE iter == CHOOSE g : g = [t \in SUBSET T |->
                      IF t = {} THEN 0
                      ELSE limit[CHOOSE x \in t : TRUE] * data[CHOOSE x \in t : TRUE]
                           + g[t \ {CHOOSE x \in t : TRUE}]]
<1>1. SentTotal(limit, data, T) = iter[T]
  BY DEF SentTotal, Total, MapThenSumSet, MapThenFoldSet
<1>2. \A g : g = [t \in SUBSET T |->
                    IF t = {} THEN 0
                    ELSE limit[CHOOSE x \in t : TRUE] * data[CHOOSE x \in t : TRUE]
                         + g[t \ {CHOOSE x \in t : TRUE}]]
             <=> Sums(g, w, T)
  <2> TAKE g
  <2>1. ASSUME NEW t \in SUBSET T
        PROVE  (IF t = {} THEN 0
                ELSE limit[CHOOSE x \in t : TRUE] * data[CHOOSE x \in t : TRUE]
                     + g[t \ {CHOOSE x \in t : TRUE}])
               = (IF t = {} THEN 0 ELSE w[Chosen(t)] + g[t \ {Chosen(t)}])
    <3>1. t # {} => Chosen(t) \in T
      BY DEF Chosen
    <3>2. t # {} => w[Chosen(t)] = limit[Chosen(t)] * data[Chosen(t)]
      BY <3>1
    <3> QED BY <3>2 DEF Chosen
  <2> QED BY <2>1 DEF Sums
<1>3. PICK g : Sums(g, w, T)
  BY SumExists
<1>4. \E f : f = [t \in SUBSET T |->
                    IF t = {} THEN 0
                    ELSE limit[CHOOSE x \in t : TRUE] * data[CHOOSE x \in t : TRUE]
                         + f[t \ {CHOOSE x \in t : TRUE}]]
  <2>1. g = [t \in SUBSET T |->
               IF t = {} THEN 0
               ELSE limit[CHOOSE x \in t : TRUE] * data[CHOOSE x \in t : TRUE]
                    + g[t \ {CHOOSE x \in t : TRUE}]]
    BY <1>2, <1>3, Zenon
  <2> QED BY <2>1, Zenon
<1>5. iter = [t \in SUBSET T |->
                IF t = {} THEN 0
                ELSE limit[CHOOSE x \in t : TRUE] * data[CHOOSE x \in t : TRUE]
                     + iter[t \ {CHOOSE x \in t : TRUE}]]
  BY <1>4, Zenon
<1> HIDE DEF iter
<1>6. Sums(iter, w, T)
  BY <1>2, <1>5, Zenon
<1> QED BY <1>1, <1>6, SumAnyOrder

\* The local variables of the function, as the record of its fields.
LoopRecord(l) ==
    l = [pc |-> l.pc, elapsed |-> l.elapsed, data |-> l.data, limit |-> l.limit,
         bandwidth |-> l.bandwidth, dataTotal |-> l.dataTotal, rate |-> l.rate,
         done |-> l.done, again |-> l.again, share |-> l.share]

BandwidthRecords ==
    /\ Connected \subseteq Peers
    /\ \A p \in Connected : LinkRecord(links[p]) /\ links[p].incoming \in Bandwidths
    /\ host = [incoming |-> host.incoming, outgoing |-> host.outgoing,
               recalculate |-> host.recalculate]
    /\ host.outgoing \in Bandwidths \cup {0}
    /\ LoopRecord(loop)
    /\ loop.pc # "idle" => loop.elapsed \in Elapsed /\ loop.data \in [Connected -> Traffic]

CanTake == [p \in Connected |-> PeerBandwidth(p)]

\* While the bandwidth is shared: what is left and what was given make up the
\* budget, the bytes of those who were given nothing yet are still in dataTotal,
\* the others have their own limit, and at the last round nobody exceeds the rate.
SharingInv ==
    loop.pc = "sharing" =>
        /\ loop.done \subseteq Connected
        /\ loop.bandwidth \in Nat \ {0} /\ loop.dataTotal \in Nat
        /\ \E g, h :
            /\ SumOn(g, loop.data, Connected) /\ SumOn(h, CanTake, Connected)
            /\ loop.bandwidth + h[loop.done] = Budget(loop.elapsed)
            /\ g[Connected \ loop.done] <= loop.dataTotal
        /\ \A p \in loop.done : loop.data[p] # 0 /\ loop.limit[p] = OwnLimit(p)
        /\ loop.again = FALSE => loop.rate = Rate /\ \A p \in Connected : ~Exceeding(p)

\* SharesFit, in terms of SentTotal.
Exact == {p \in Connected : loop.limit[p] > 1}

FitInv ==
    loop.pc \in {"telling", "over"} =>
        /\ \A p \in Exact : links[p].incoming # 0 =>
                loop.limit[p] * loop.data[p] < ThrottleScale * (PeerBandwidth(p) + 1)
        /\ SentTotal(loop.limit, loop.data, Exact) <= ThrottleScale * Budget(loop.elapsed)

BandwidthInv == BandwidthRecords /\ SharingInv /\ FitInv

\* The local variables after ThrottleBegins, SharingRound, SharingEnds and TellingRound.
Begun(elapsed, data, bandwidth, dataTotal) ==
    [Idle EXCEPT !.pc = "sharing", !.elapsed = elapsed, !.data = data, !.again = TRUE,
                 !.bandwidth = bandwidth, !.dataTotal = dataTotal]

Round(l, limit, rate, again, bandwidth, dataTotal, done) ==
    [l EXCEPT !.limit = limit, !.rate = rate, !.again = again, !.bandwidth = bandwidth,
              !.dataTotal = dataTotal, !.done = done]

Ended(l, limit, pc, bandwidth, again) ==
    [l EXCEPT !.limit = limit, !.pc = pc, !.bandwidth = bandwidth, !.done = {}, !.again = again]

Telling(l, equal, again, done, bandwidth) ==
    [l EXCEPT !.share = equal, !.again = again, !.done = done, !.bandwidth = bandwidth]

\* The fields of the local variables after ThrottleBegins.
LEMMA BeginRecord ==
    ASSUME NEW elapsed, NEW data, NEW bandwidth, NEW dataTotal
    PROVE  Begun(elapsed, data, bandwidth, dataTotal) =
               [pc |-> "sharing", elapsed |-> elapsed, data |-> data, limit |-> <<>>,
                bandwidth |-> bandwidth, dataTotal |-> dataTotal, rate |-> 0, done |-> {},
                again |-> TRUE, share |-> 0]
<1>1. PICK m1 : m1 = [Idle EXCEPT !.pc = "sharing"]
  OBVIOUS
<1>2. PICK m2 : m2 = [m1 EXCEPT !.elapsed = elapsed]
  OBVIOUS
<1>3. PICK m3 : m3 = [m2 EXCEPT !.data = data]
  OBVIOUS
<1>4. PICK m4 : m4 = [m3 EXCEPT !.again = TRUE]
  OBVIOUS
<1>5. PICK m5 : m5 = [m4 EXCEPT !.bandwidth = bandwidth]
  OBVIOUS
<1>6. PICK m6 : m6 = [m5 EXCEPT !.dataTotal = dataTotal]
  OBVIOUS
<1>7. Begun(elapsed, data, bandwidth, dataTotal) = m6
  BY <1>1, <1>2, <1>3, <1>4, <1>5, <1>6, Zenon DEF Begun
<1>8. m1 = [pc |-> "sharing", elapsed |-> 0, data |-> <<>>, limit |-> <<>>, bandwidth |-> 0,
            dataTotal |-> 0, rate |-> 0, done |-> {}, again |-> FALSE, share |-> 0]
  BY <1>1 DEF Idle
<1>9. m2 = [pc |-> "sharing", elapsed |-> elapsed, data |-> <<>>, limit |-> <<>>, bandwidth |-> 0,
            dataTotal |-> 0, rate |-> 0, done |-> {}, again |-> FALSE, share |-> 0]
  BY <1>2, <1>8
<1>10. m3 = [pc |-> "sharing", elapsed |-> elapsed, data |-> data, limit |-> <<>>, bandwidth |-> 0,
             dataTotal |-> 0, rate |-> 0, done |-> {}, again |-> FALSE, share |-> 0]
  BY <1>3, <1>9
<1>11. m4 = [pc |-> "sharing", elapsed |-> elapsed, data |-> data, limit |-> <<>>, bandwidth |-> 0,
             dataTotal |-> 0, rate |-> 0, done |-> {}, again |-> TRUE, share |-> 0]
  BY <1>4, <1>10
<1>12. m5 = [pc |-> "sharing", elapsed |-> elapsed, data |-> data, limit |-> <<>>,
             bandwidth |-> bandwidth, dataTotal |-> 0, rate |-> 0, done |-> {}, again |-> TRUE,
             share |-> 0]
  BY <1>5, <1>11
<1> QED BY <1>6, <1>7, <1>12

\* The fields after a SharingRound.
LEMMA RoundRecord ==
    ASSUME NEW l, LoopRecord(l), NEW limit, NEW rate, NEW again, NEW bandwidth, NEW dataTotal,
           NEW done
    PROVE  Round(l, limit, rate, again, bandwidth, dataTotal, done) =
               [pc |-> l.pc, elapsed |-> l.elapsed, data |-> l.data, limit |-> limit,
                bandwidth |-> bandwidth, dataTotal |-> dataTotal, rate |-> rate, done |-> done,
                again |-> again, share |-> l.share]
<1>1. PICK m1 : m1 = [l EXCEPT !.limit = limit]
  OBVIOUS
<1>2. PICK m2 : m2 = [m1 EXCEPT !.rate = rate]
  OBVIOUS
<1>3. PICK m3 : m3 = [m2 EXCEPT !.again = again]
  OBVIOUS
<1>4. PICK m4 : m4 = [m3 EXCEPT !.bandwidth = bandwidth]
  OBVIOUS
<1>5. PICK m5 : m5 = [m4 EXCEPT !.dataTotal = dataTotal]
  OBVIOUS
<1>6. PICK m6 : m6 = [m5 EXCEPT !.done = done]
  OBVIOUS
<1>7. Round(l, limit, rate, again, bandwidth, dataTotal, done) = m6
  BY <1>1, <1>2, <1>3, <1>4, <1>5, <1>6, Zenon DEF Round
<1>8. m1 = [pc |-> l.pc, elapsed |-> l.elapsed, data |-> l.data, limit |-> limit,
            bandwidth |-> l.bandwidth, dataTotal |-> l.dataTotal, rate |-> l.rate,
            done |-> l.done, again |-> l.again, share |-> l.share]
  BY <1>1 DEF LoopRecord
<1>9. m2 = [pc |-> l.pc, elapsed |-> l.elapsed, data |-> l.data, limit |-> limit,
            bandwidth |-> l.bandwidth, dataTotal |-> l.dataTotal, rate |-> rate,
            done |-> l.done, again |-> l.again, share |-> l.share]
  BY <1>2, <1>8
<1>10. m3 = [pc |-> l.pc, elapsed |-> l.elapsed, data |-> l.data, limit |-> limit,
             bandwidth |-> l.bandwidth, dataTotal |-> l.dataTotal, rate |-> rate,
             done |-> l.done, again |-> again, share |-> l.share]
  BY <1>3, <1>9
<1>11. m4 = [pc |-> l.pc, elapsed |-> l.elapsed, data |-> l.data, limit |-> limit,
             bandwidth |-> bandwidth, dataTotal |-> l.dataTotal, rate |-> rate,
             done |-> l.done, again |-> again, share |-> l.share]
  BY <1>4, <1>10
<1>12. m5 = [pc |-> l.pc, elapsed |-> l.elapsed, data |-> l.data, limit |-> limit,
             bandwidth |-> bandwidth, dataTotal |-> dataTotal, rate |-> rate,
             done |-> l.done, again |-> again, share |-> l.share]
  BY <1>5, <1>11
<1> QED BY <1>6, <1>7, <1>12

\* The fields after SharingEnds.
LEMMA EndRecord ==
    ASSUME NEW l, LoopRecord(l), NEW limit, NEW pc, NEW bandwidth, NEW again
    PROVE  Ended(l, limit, pc, bandwidth, again) =
               [pc |-> pc, elapsed |-> l.elapsed, data |-> l.data, limit |-> limit,
                bandwidth |-> bandwidth, dataTotal |-> l.dataTotal, rate |-> l.rate, done |-> {},
                again |-> again, share |-> l.share]
<1>1. PICK m1 : m1 = [l EXCEPT !.limit = limit]
  OBVIOUS
<1>2. PICK m2 : m2 = [m1 EXCEPT !.pc = pc]
  OBVIOUS
<1>3. PICK m3 : m3 = [m2 EXCEPT !.bandwidth = bandwidth]
  OBVIOUS
<1>4. PICK m4 : m4 = [m3 EXCEPT !.done = {}]
  OBVIOUS
<1>5. PICK m5 : m5 = [m4 EXCEPT !.again = again]
  OBVIOUS
<1>6. Ended(l, limit, pc, bandwidth, again) = m5
  BY <1>1, <1>2, <1>3, <1>4, <1>5, Zenon DEF Ended
<1>7. m1 = [pc |-> l.pc, elapsed |-> l.elapsed, data |-> l.data, limit |-> limit,
            bandwidth |-> l.bandwidth, dataTotal |-> l.dataTotal, rate |-> l.rate,
            done |-> l.done, again |-> l.again, share |-> l.share]
  BY <1>1 DEF LoopRecord
<1>8. m2 = [pc |-> pc, elapsed |-> l.elapsed, data |-> l.data, limit |-> limit,
            bandwidth |-> l.bandwidth, dataTotal |-> l.dataTotal, rate |-> l.rate,
            done |-> l.done, again |-> l.again, share |-> l.share]
  BY <1>2, <1>7
<1>9. m3 = [pc |-> pc, elapsed |-> l.elapsed, data |-> l.data, limit |-> limit,
            bandwidth |-> bandwidth, dataTotal |-> l.dataTotal, rate |-> l.rate,
            done |-> l.done, again |-> l.again, share |-> l.share]
  BY <1>3, <1>8
<1>10. m4 = [pc |-> pc, elapsed |-> l.elapsed, data |-> l.data, limit |-> limit,
             bandwidth |-> bandwidth, dataTotal |-> l.dataTotal, rate |-> l.rate,
             done |-> {}, again |-> l.again, share |-> l.share]
  BY <1>4, <1>9
<1> QED BY <1>5, <1>6, <1>10

\* The fields after a TellingRound.
LEMMA ToldRecord ==
    ASSUME NEW l, LoopRecord(l), NEW equal, NEW again, NEW done, NEW bandwidth, NEW m,
           m = Telling(l, equal, again, done, bandwidth)
    PROVE  /\ LoopRecord(m) /\ m.pc = l.pc /\ m.elapsed = l.elapsed /\ m.data = l.data
           /\ m.limit = l.limit /\ m.dataTotal = l.dataTotal /\ m.rate = l.rate
           /\ m.share = equal /\ m.again = again /\ m.done = done /\ m.bandwidth = bandwidth
<1>1. PICK m1 : m1 = [l EXCEPT !.share = equal]
  OBVIOUS
<1>2. PICK m2 : m2 = [m1 EXCEPT !.again = again]
  OBVIOUS
<1>3. PICK m3 : m3 = [m2 EXCEPT !.done = done]
  OBVIOUS
<1>4. PICK m4 : m4 = [m3 EXCEPT !.bandwidth = bandwidth]
  OBVIOUS
<1>5. m = m4
  BY <1>1, <1>2, <1>3, <1>4, Zenon DEF Telling
<1>6. m1 = [pc |-> l.pc, elapsed |-> l.elapsed, data |-> l.data, limit |-> l.limit,
            bandwidth |-> l.bandwidth, dataTotal |-> l.dataTotal, rate |-> l.rate,
            done |-> l.done, again |-> l.again, share |-> equal]
  BY <1>1 DEF LoopRecord
<1>7. m2 = [pc |-> l.pc, elapsed |-> l.elapsed, data |-> l.data, limit |-> l.limit,
            bandwidth |-> l.bandwidth, dataTotal |-> l.dataTotal, rate |-> l.rate,
            done |-> l.done, again |-> again, share |-> equal]
  BY <1>2, <1>6
<1>8. m3 = [pc |-> l.pc, elapsed |-> l.elapsed, data |-> l.data, limit |-> l.limit,
            bandwidth |-> l.bandwidth, dataTotal |-> l.dataTotal, rate |-> l.rate,
            done |-> done, again |-> again, share |-> equal]
  BY <1>3, <1>7
<1>9. m4 = [pc |-> l.pc, elapsed |-> l.elapsed, data |-> l.data, limit |-> l.limit,
            bandwidth |-> bandwidth, dataTotal |-> l.dataTotal, rate |-> l.rate,
            done |-> done, again |-> again, share |-> equal]
  BY <1>4, <1>8
<1> QED BY <1>5, <1>9 DEF LoopRecord

\* What the host and its peers can take in the time that has passed.
LEMMA BudgetFacts ==
    ASSUME BandwidthRecords, NEW elapsed \in Elapsed
    PROVE  /\ Budget(elapsed) \in Nat \ {0}
           /\ \A p \in Connected : InTime(links[p].incoming, elapsed) \in Nat
           /\ IsFiniteSet(Connected)
<1>1. elapsed \in Nat /\ Bandwidths \subseteq Nat /\ Unlimited \in Nat \ {0} /\ IsFiniteSet(Peers)
  BY BandwidthAssumption
<1>2. \A p \in Connected : InTime(links[p].incoming, elapsed) \in Nat
  BY <1>1, InTimeFacts DEF BandwidthRecords
<1>3. host.outgoing # 0 => InTime(host.outgoing, elapsed) \in Nat \ {0}
  BY <1>1, InTimeFacts DEF BandwidthRecords
<1>4. IsFiniteSet(Connected)
  BY <1>1, FS_Subset DEF BandwidthRecords
<1> QED BY <1>1, <1>2, <1>3, <1>4 DEF Budget

\* When the function begins, everything is still there to be shared.
LEMMA SharingBegins ==
    ASSUME BandwidthInv, NEW elapsed \in Elapsed, NEW data \in [Connected -> Traffic],
           ThrottleBegins(elapsed, data)
    PROVE  BandwidthInv'
<1> DEFINE total == Total(LAMBDA p : data[p], Connected)
<1>1. loop' = [pc |-> "sharing", elapsed |-> elapsed, data |-> data, limit |-> <<>>,
               bandwidth |-> Budget(elapsed), dataTotal |-> total, rate |-> 0, done |-> {},
               again |-> TRUE, share |-> 0]
  <2>1. loop' = [Idle EXCEPT !.pc = "sharing", !.elapsed = elapsed, !.data = data,
                             !.again = TRUE, !.bandwidth = Budget(elapsed), !.dataTotal = total]
    BY DEF ThrottleBegins
  <2> HIDE DEF total
  <2>2. loop' = Begun(elapsed, data, Budget(elapsed), total)
    BY <2>1, Zenon DEF Begun
  <2> QED BY <2>2, BeginRecord
<1>2. total = WeightTotal(data, Connected)
  BY DEF WeightTotal, Total, MapThenSumSet, MapThenFoldSet
<1> HIDE DEF total
<1>3. links' = links /\ host' = host
  BY DEF ThrottleBegins
<1>4. BandwidthRecords
  BY DEF BandwidthInv
<1>5. BandwidthRecords'
  BY <1>1, <1>3, <1>4 DEF BandwidthRecords, LoopRecord, Connected
<1>6. /\ Budget(elapsed) \in Nat \ {0} /\ IsFiniteSet(Connected)
      /\ \A p \in Connected : InTime(links[p].incoming, elapsed) \in Nat
      /\ \A p \in Connected : data[p] \in Nat
  BY <1>4, BudgetFacts, BandwidthAssumption
<1>7. PICK g : SumOn(g, data, Connected) /\ total = g[Connected]
  BY <1>2, <1>6, WeightIsSum
<1>8. g[Connected] \in Nat
  BY <1>6, <1>7, SumNatural
<1> DEFINE takes == [p \in Connected |-> InTime(links[p].incoming, elapsed)]
<1>9. takes = CanTake'
  BY <1>1, <1>3 DEF CanTake, PeerBandwidth, Connected, InTime
<1>10. \A p \in Connected : takes[p] \in Int
  BY <1>6
<1> HIDE DEF takes
<1>11. PICK h : SumOn(h, takes, Connected)
  BY <1>6, <1>10, SumFor
<1>12. h[{}] = 0
  BY <1>11 DEF SumOn
<1>13. Connected' = Connected /\ Budget(elapsed)' = Budget(elapsed)
  BY <1>3 DEF Connected, Budget, InTime
<1>14. /\ loop'.done = {} /\ loop'.bandwidth = Budget(elapsed) /\ loop'.dataTotal = total
       /\ loop'.again = TRUE /\ loop'.pc = "sharing" /\ loop'.elapsed = elapsed /\ loop'.data = data
  BY <1>1
<1>15. SumOn(g, loop'.data, Connected') /\ SumOn(h, CanTake', Connected')
  BY <1>7, <1>9, <1>11, <1>13, <1>14
<1>16. Budget(loop.elapsed)' = Budget(elapsed)
  BY <1>3, <1>14 DEF Budget, InTime
<1>17. /\ loop'.bandwidth + h[loop'.done] = Budget(loop.elapsed)'
       /\ g[Connected' \ loop'.done] <= loop'.dataTotal
  BY <1>6, <1>7, <1>8, <1>12, <1>13, <1>14, <1>16
<1>18. SharingInv'
  BY <1>6, <1>7, <1>8, <1>14, <1>15, <1>17 DEF SharingInv
<1>19. FitInv'
  BY <1>14 DEF FitInv
<1> QED BY <1>5, <1>18, <1>19 DEF BandwidthInv

\* The rate of a round, and who exceeds it.
LEMMA RateNow ==
    ASSUME BandwidthInv, loop.pc = "sharing"
    PROVE  /\ IsFiniteSet(Connected) /\ loop.data \in [Connected -> Nat]
           /\ CanTake \in [Connected -> Nat]
           /\ \A p \in Connected : CanTake[p] = PeerBandwidth(p)
           /\ ThrottleScale \in Nat \ {0}
           /\ Rate \in 0 .. ThrottleScale /\ Rate * loop.dataTotal <= ThrottleScale * loop.bandwidth
           /\ \A p \in Connected : Exceeding(p) =>
                p \notin loop.done /\ loop.data[p] # 0
                /\ (CanTake[p] + 1) * ThrottleScale <= Rate * loop.data[p]
           /\ \A p \in Connected \ loop.done : ~Exceeding(p) /\ links[p].incoming # 0 =>
                Rate * loop.data[p] < ThrottleScale * (CanTake[p] + 1)
<1>1. BandwidthRecords /\ SharingInv
  BY DEF BandwidthInv
<1>2. /\ loop.elapsed \in Elapsed /\ loop.data \in [Connected -> Traffic]
      /\ loop.bandwidth \in Nat \ {0} /\ loop.dataTotal \in Nat
  BY <1>1 DEF BandwidthRecords, SharingInv
<1>3. ThrottleScale \in Nat \ {0} /\ Traffic \subseteq Nat
  BY BandwidthAssumption
<1>4. IsFiniteSet(Connected) /\ \A p \in Connected : PeerBandwidth(p) \in Nat
  BY <1>1, <1>2, BudgetFacts DEF PeerBandwidth
<1>5. /\ CanTake \in [Connected -> Nat]
      /\ \A p \in Connected : CanTake[p] = PeerBandwidth(p)
  BY <1>4 DEF CanTake
<1>6. Rate \in 0 .. ThrottleScale /\ Rate * loop.dataTotal <= ThrottleScale * loop.bandwidth
  BY <1>2, <1>3, RateFacts DEF Rate
<1>7. loop.data \in [Connected -> Nat]
  BY <1>2, <1>3
<1>8. Rate \in Nat
  BY <1>6, <1>3
<1> HIDE <1>6
<1>9. ASSUME NEW p \in Connected, Exceeding(p)
      PROVE  /\ p \notin loop.done /\ loop.data[p] # 0
             /\ (CanTake[p] + 1) * ThrottleScale <= Rate * loop.data[p]
  <2>1. Rate * loop.data[p] \in Nat /\ CanTake[p] \in Nat /\ loop.data[p] \in Nat
    BY <1>5, <1>7, <1>8
  <2>2. p \notin loop.done /\ (Rate * loop.data[p]) \div ThrottleScale > CanTake[p]
    BY <1>5, <1>9 DEF Exceeding
  <2>3. (CanTake[p] + 1) * ThrottleScale <= Rate * loop.data[p]
    BY <1>3, <2>1, <2>2, QuotientFacts
  <2>4. (CanTake[p] + 1) * ThrottleScale > 0
    BY <1>3, <2>1
  <2>5. loop.data[p] # 0
    <3> SUFFICES ASSUME loop.data[p] = 0 PROVE FALSE
      OBVIOUS
    <3>1. Rate * loop.data[p] = 0
      BY <1>8
    <3>2. (CanTake[p] + 1) * ThrottleScale \in Nat
      BY <1>3, <2>1
    <3> QED BY <2>3, <2>4, <3>1, <3>2
  <2> QED BY <2>2, <2>3, <2>5
<1>10. ASSUME NEW p \in Connected \ loop.done, ~Exceeding(p), links[p].incoming # 0
       PROVE  Rate * loop.data[p] < ThrottleScale * (CanTake[p] + 1)
  <2>1. Rate * loop.data[p] \in Nat /\ CanTake[p] \in Nat
    BY <1>5, <1>7, <1>8
  <2> DEFINE q == (Rate * loop.data[p]) \div ThrottleScale
  <2>2. q \in Nat /\ Rate * loop.data[p] < (q + 1) * ThrottleScale
    BY <1>3, <2>1, QuotientFacts
  <2>3. q <= CanTake[p]
    BY <1>5, <1>10, <2>1, <2>2 DEF Exceeding
  <2> HIDE DEF q
  <2>4. (q + 1) * ThrottleScale <= (CanTake[p] + 1) * ThrottleScale
    <3>1. q + 1 \in Nat /\ CanTake[p] + 1 \in Nat /\ q + 1 <= CanTake[p] + 1
      BY <2>1, <2>2, <2>3
    <3> QED BY <1>3, <3>1, ProductGrows
  <2>5. (CanTake[p] + 1) * ThrottleScale = ThrottleScale * (CanTake[p] + 1)
    BY <1>3, <2>1
  <2> QED BY <1>3, <2>1, <2>2, <2>4, <2>5
<1> QED BY <1>3, <1>4, <1>5, <1>6, <1>7, <1>9, <1>10

\* A round leaves something for the others and takes their bytes from nobody; when
\* nobody exceeds the rate, it is the last.
LEMMA SharingGoesOn ==
    ASSUME BandwidthInv, SharingRound
    PROVE  BandwidthInv'
<1> DEFINE E == {p \in Connected : Exceeding(p)}
           given == Total(PeerBandwidth, E)
           limit == [p \in loop.done \cup E |->
                        IF p \in E THEN OwnLimit(p) ELSE loop.limit[p]]
<1>1. loop' = Round(loop, limit, Rate, Again(E), loop.bandwidth - given, loop.dataTotal - given,
                    loop.done \cup E)
  BY Zenon DEF SharingRound, Round
<1>2. loop.pc = "sharing" /\ links' = links /\ host' = host
  BY DEF SharingRound
<1>3. given = GivenTotal(E)
  BY DEF GivenTotal
<1>4. \A p \in E : p \in Connected /\ Exceeding(p)
  OBVIOUS
<1>5. \A p \in Connected : Exceeding(p) => p \in E
  OBVIOUS
<1>6. \A p \in loop.done \cup E : limit[p] = IF p \in E THEN OwnLimit(p) ELSE loop.limit[p]
  OBVIOUS
<1> HIDE DEF E, given, limit
<1>7. BandwidthRecords /\ SharingInv /\ LoopRecord(loop)
  BY DEF BandwidthInv, BandwidthRecords
<1>8. PICK again : again = Again(E)
  BY Zenon
<1>9. loop' = [pc |-> loop.pc, elapsed |-> loop.elapsed, data |-> loop.data, limit |-> limit,
               bandwidth |-> loop.bandwidth - given, dataTotal |-> loop.dataTotal - given,
               rate |-> Rate, done |-> loop.done \cup E, again |-> again, share |-> loop.share]
  <2>1. PICK b, d, r, done : /\ b = loop.bandwidth - given /\ d = loop.dataTotal - given
                             /\ r = Rate /\ done = loop.done \cup E
    BY Zenon
  <2>2. loop' = Round(loop, limit, r, again, b, d, done)
    BY <1>1, <1>8, <2>1, Zenon
  <2>3. Round(loop, limit, r, again, b, d, done) =
            [pc |-> loop.pc, elapsed |-> loop.elapsed, data |-> loop.data, limit |-> limit,
             bandwidth |-> b, dataTotal |-> d, rate |-> r, done |-> done,
             again |-> again, share |-> loop.share]
    BY <1>7, RoundRecord
  <2> QED BY <2>1, <2>2, <2>3, Zenon
<1>10. /\ loop'.pc = "sharing" /\ loop'.elapsed = loop.elapsed /\ loop'.data = loop.data
       /\ loop'.limit = limit /\ loop'.bandwidth = loop.bandwidth - given
       /\ loop'.dataTotal = loop.dataTotal - given /\ loop'.rate = Rate
       /\ loop'.done = loop.done \cup E /\ loop'.again = again
  BY <1>2, <1>9
<1>11. Connected' = Connected
  BY <1>2 DEF Connected
<1>12. BandwidthRecords'
  BY <1>2, <1>7, <1>9, <1>10, <1>11 DEF BandwidthRecords, LoopRecord
<1>13. /\ CanTake' = CanTake /\ Budget(loop.elapsed)' = Budget(loop.elapsed)
       /\ \A p \in Connected : OwnLimit(p)' = OwnLimit(p) /\ PeerBandwidth(p)' = PeerBandwidth(p)
  BY <1>2, <1>10, <1>11 DEF CanTake, PeerBandwidth, Budget, OwnLimit, InTime
<1>14. /\ loop.done \subseteq Connected
       /\ loop.bandwidth \in Nat \ {0} /\ loop.dataTotal \in Nat
       /\ \A p \in loop.done : loop.data[p] # 0 /\ loop.limit[p] = OwnLimit(p)
  BY <1>2, <1>7 DEF SharingInv
<1>15. PICK g, h :
        /\ SumOn(g, loop.data, Connected) /\ SumOn(h, CanTake, Connected)
        /\ loop.bandwidth + h[loop.done] = Budget(loop.elapsed)
        /\ g[Connected \ loop.done] <= loop.dataTotal
  BY <1>2, <1>7 DEF SharingInv
<1>16. /\ IsFiniteSet(Connected) /\ loop.data \in [Connected -> Nat]
       /\ CanTake \in [Connected -> Nat]
       /\ \A p \in Connected : CanTake[p] = PeerBandwidth(p)
       /\ ThrottleScale \in Nat \ {0}
       /\ Rate \in 0 .. ThrottleScale /\ Rate * loop.dataTotal <= ThrottleScale * loop.bandwidth
  BY <1>2, RateNow
<1>17. \A p \in E : /\ p \in Connected /\ p \notin loop.done /\ loop.data[p] # 0
                    /\ (CanTake[p] + 1) * ThrottleScale <= Rate * loop.data[p]
  BY <1>2, <1>4, RateNow
<1>18. E \in SUBSET (Connected \ loop.done)
  BY <1>17
<1>19. /\ h[E] \in Nat /\ h[E] < loop.bandwidth /\ loop.dataTotal - h[E] \in Nat
       /\ h[loop.done \cup E] = h[loop.done] + h[E] /\ h[loop.done] \in Nat
       /\ g[Connected \ (loop.done \cup E)] <= loop.dataTotal - h[E]
  <2>1. \A p \in E : (CanTake[p] + 1) * ThrottleScale <= Rate * loop.data[p]
    BY <1>17
  <2> QED BY <1>14, <1>15, <1>16, <1>18, <2>1, RoundFits
<1>20. given = h[E]
  <2>1. IsFiniteSet(E) /\ \A p \in E : CanTake[p] \in Int /\ CanTake[p] = PeerBandwidth(p)
    BY <1>16, <1>17, <1>18, FS_Subset
  <2>2. PICK k : SumOn(k, CanTake, E) /\ GivenTotal(E) = k[E]
    BY <2>1, GivenIsSum
  <2>3. SumOn(h, CanTake, E)
    BY <1>15, <1>18 DEF SumOn
  <2>4. k[E] = h[E]
    BY <2>1, <2>2, <2>3, SumUnique
  <2> QED BY <1>3, <2>2, <2>4
<1>21. /\ loop'.bandwidth \in Nat \ {0} /\ loop'.dataTotal \in Nat
       /\ loop'.bandwidth + h[loop'.done] = Budget(loop.elapsed)
       /\ g[Connected \ loop'.done] <= loop'.dataTotal
  BY <1>10, <1>14, <1>15, <1>19, <1>20
<1>22. ASSUME NEW p \in loop'.done
       PROVE  loop'.data[p] # 0 /\ loop'.limit[p] = OwnLimit(p)'
  <2>1. p \in loop.done \cup E /\ p \in Connected
    BY <1>10, <1>14, <1>17
  <2>2. loop.data[p] # 0
    BY <1>14, <1>17, <2>1
  <2>3. limit[p] = OwnLimit(p)
    BY <1>6, <1>14, <2>1
  <2> QED BY <1>10, <1>13, <2>1, <2>2, <2>3
<1>23. ASSUME loop'.again = FALSE
       PROVE  loop'.rate = Rate' /\ \A p \in Connected : ~(Exceeding(p)')
  <2>1. E = {}
    <3>1. Again(E) = FALSE
      BY <1>8, <1>10, <1>23, Zenon
    <3> QED BY <3>1 DEF Again
  <2>2. h[E] = 0
    BY <1>15, <2>1 DEF SumOn
  <2>3. loop'.bandwidth = loop.bandwidth /\ loop'.dataTotal = loop.dataTotal /\ loop'.done = loop.done
    BY <1>10, <1>14, <1>20, <2>1, <2>2
  <2>4. Rate' = Rate
    BY <2>3 DEF Rate
  <2>5. ASSUME NEW p \in Connected PROVE Exceeding(p)' <=> Exceeding(p)
    BY <1>2, <1>10, <1>13, <2>3, <2>4 DEF Exceeding
  <2> QED BY <1>5, <1>10, <2>1, <2>4, <2>5
<1>24. loop'.done \subseteq Connected
  BY <1>10, <1>14, <1>17
<1>25. SharingInv'
  <2>1. SumOn(g, loop'.data, Connected') /\ SumOn(h, CanTake', Connected')
    BY <1>10, <1>11, <1>13, <1>15
  <2>2. Budget(loop.elapsed)' = Budget(loop.elapsed)
    BY <1>13
  <2>3. /\ loop'.bandwidth + h[loop'.done] = Budget(loop.elapsed)'
        /\ g[Connected' \ loop'.done] <= loop'.dataTotal
    BY <1>11, <1>21, <2>2
  <2> QED BY <1>11, <1>21, <1>22, <1>23, <1>24, <2>1, <2>3 DEF SharingInv
<1>26. FitInv'
  BY <1>10 DEF FitInv
<1> QED BY <1>12, <1>25, <1>26 DEF BandwidthInv

\* A limit of one's own is 1, or makes no more of the bytes than the peer can take.
LEMMA OwnLimitFacts ==
    ASSUME NEW p, NEW b \in Nat, b = PeerBandwidth(p), loop.data[p] \in Nat \ {0},
           ThrottleScale \in Nat \ {0}
    PROVE  /\ OwnLimit(p) \in Nat
           /\ OwnLimit(p) > 1 => OwnLimit(p) * loop.data[p] <= ThrottleScale * b
<1> DEFINE limit == (b * ThrottleScale) \div loop.data[p]
<1>1. OwnLimit(p) = IF limit = 0 THEN 1 ELSE limit
  BY DEF OwnLimit
<1>2. b * ThrottleScale \in Nat /\ b * ThrottleScale = ThrottleScale * b
  OBVIOUS
<1>3. limit \in Nat /\ limit * loop.data[p] <= b * ThrottleScale
  BY <1>2, QuotientFacts
<1> HIDE DEF limit
<1> QED BY <1>1, <1>2, <1>3

\* When the sharing ends, the limits fit.
LEMMA SharingFits ==
    ASSUME BandwidthInv, SharingEnds
    PROVE  BandwidthInv'
<1> DEFINE limit == [p \in Connected |-> IF p \in loop.done THEN loop.limit[p] ELSE loop.rate]
           next == IF host.recalculate THEN "telling" ELSE "over"
           X == {p \in Connected : limit[p] > 1}
<1>1. loop' = Ended(loop, limit, next, host.incoming, host.incoming # 0)
  BY Zenon DEF SharingEnds, Ended
<1>2. /\ loop.pc = "sharing" /\ links' = links /\ host' = host
      /\ loop.again = FALSE \/ loop.done = Connected
  BY DEF SharingEnds
<1>3. \A p \in Connected : limit[p] = IF p \in loop.done THEN loop.limit[p] ELSE loop.rate
  OBVIOUS
<1>4. next \in {"telling", "over"}
  OBVIOUS
<1>5. X \in SUBSET Connected /\ \A p \in X : limit[p] > 1
  OBVIOUS
<1> HIDE DEF limit, next
<1>6. BandwidthRecords /\ SharingInv /\ LoopRecord(loop)
  BY DEF BandwidthInv, BandwidthRecords
<1>7. PICK again : again = (host.incoming # 0)
  BY Zenon
<1>8. loop' = [pc |-> next, elapsed |-> loop.elapsed, data |-> loop.data, limit |-> limit,
               bandwidth |-> host.incoming, dataTotal |-> loop.dataTotal, rate |-> loop.rate,
               done |-> {}, again |-> again, share |-> loop.share]
  <2>1. loop' = Ended(loop, limit, next, host.incoming, again)
    BY <1>1, <1>7, Zenon
  <2> QED BY <1>6, <2>1, EndRecord
<1>9. /\ loop'.pc \in {"telling", "over"} /\ loop'.elapsed = loop.elapsed
      /\ loop'.data = loop.data /\ loop'.limit = limit
  BY <1>4, <1>8
<1>10. Connected' = Connected
  BY <1>2 DEF Connected
<1>11. BandwidthRecords'
  BY <1>2, <1>6, <1>8, <1>9, <1>10 DEF BandwidthRecords, LoopRecord
<1>12. /\ IsFiniteSet(Connected) /\ loop.data \in [Connected -> Nat]
       /\ CanTake \in [Connected -> Nat]
       /\ \A p \in Connected : CanTake[p] = PeerBandwidth(p)
       /\ ThrottleScale \in Nat \ {0}
       /\ Rate \in 0 .. ThrottleScale /\ Rate * loop.dataTotal <= ThrottleScale * loop.bandwidth
  BY <1>2, RateNow
<1>13. /\ loop.done \subseteq Connected
       /\ loop.bandwidth \in Nat \ {0} /\ loop.dataTotal \in Nat
       /\ \A p \in loop.done : loop.data[p] # 0 /\ loop.limit[p] = OwnLimit(p)
       /\ loop.again = FALSE => loop.rate = Rate /\ \A p \in Connected : ~Exceeding(p)
  BY <1>2, <1>6 DEF SharingInv
<1>14. PICK g, h :
        /\ SumOn(g, loop.data, Connected) /\ SumOn(h, CanTake, Connected)
        /\ loop.bandwidth + h[loop.done] = Budget(loop.elapsed)
        /\ g[Connected \ loop.done] <= loop.dataTotal
  BY <1>2, <1>6 DEF SharingInv
<1>15. ASSUME NEW p \in X, p \in loop.done
       PROVE  limit[p] \in Nat /\ limit[p] * loop.data[p] <= ThrottleScale * CanTake[p]
  <2>1. /\ loop.data[p] \in Nat \ {0} /\ CanTake[p] \in Nat
        /\ CanTake[p] = PeerBandwidth(p) /\ limit[p] = OwnLimit(p) /\ limit[p] > 1
    BY <1>3, <1>5, <1>12, <1>13, <1>15
  <2> QED BY <1>12, <2>1, OwnLimitFacts
<1>16. ASSUME NEW p \in X, p \notin loop.done
       PROVE  limit[p] = Rate /\ ~Exceeding(p) /\ p \in Connected \ loop.done
  BY <1>2, <1>3, <1>5, <1>13, <1>16
<1>17. Rate \in Nat
  BY <1>12
<1> DEFINE w == [p \in X |-> limit[p] * loop.data[p]]
<1>18. \A p \in X : w[p] = limit[p] * loop.data[p]
  OBVIOUS
<1>19. \A p \in X : /\ limit[p] \in Nat /\ loop.data[p] \in Nat /\ w[p] \in Int
  <2>1. ASSUME NEW p \in X PROVE limit[p] \in Nat /\ loop.data[p] \in Nat
    BY <1>5, <1>12, <1>15, <1>16, <1>17
  <2> QED BY <1>18, <2>1
<1> HIDE DEF w
<1>20. IsFiniteSet(X)
  BY <1>5, <1>12, FS_Subset
<1>21. PICK k : SumOn(k, w, X) /\ SentTotal(limit, loop.data, X) = k[X]
  <2>1. PICK data : data = loop.data
    OBVIOUS
  <2>2. \A p \in X : w[p] \in Int /\ w[p] = limit[p] * data[p]
    BY <1>18, <1>19, <2>1
  <2>3. \E k : SumOn(k, w, X) /\ SentTotal(limit, data, X) = k[X]
    BY <1>20, <2>2, SentIsSum
  <2> QED BY <2>1, <2>3
<1>22. k[X] <= ThrottleScale * (loop.bandwidth + h[loop.done])
  <2>1. \A p \in X : p \in loop.done => w[p] <= ThrottleScale * CanTake[p]
    BY <1>15, <1>18
  <2>2. \A p \in X : p \notin loop.done => w[p] = Rate * loop.data[p]
    BY <1>16, <1>18
  <2>3. loop.bandwidth \in Nat /\ \A p \in X : w[p] \in Int
    BY <1>13, <1>19
  <2>4. PICK T, data, pb, done, s, b, d, r :
          /\ T = Connected /\ data = loop.data /\ pb = CanTake /\ done = loop.done
          /\ s = ThrottleScale /\ b = loop.bandwidth /\ d = loop.dataTotal /\ r = Rate
    BY Zenon
  <2>5. /\ IsFiniteSet(T) /\ data \in [T -> Nat] /\ pb \in [T -> Nat]
        /\ done \in SUBSET T /\ X \in SUBSET T /\ s \in Nat \ {0} /\ b \in Nat /\ d \in Nat
        /\ r \in 0 .. s
    BY <1>5, <1>12, <1>13, <2>4
  <2>6. /\ SumOn(g, data, T) /\ SumOn(h, pb, T) /\ SumOn(k, w, X)
        /\ r * d <= s * b /\ g[T \ done] <= d
    BY <1>12, <1>14, <1>21, <2>4
  <2>7. /\ \A p \in X : w[p] \in Int
        /\ \A p \in X : p \in done => w[p] <= s * pb[p]
        /\ \A p \in X : p \notin done => w[p] = r * data[p]
    BY <1>19, <2>1, <2>2, <2>4
  <2>8. LastRound(T, data, pb, g, h, done, X, s, b, d, r, w, k)
    BY <2>5, <2>6, <2>7 DEF LastRound
  <2>9. k[X] <= s * (b + h[done])
    BY <2>8, EndFits
  <2> QED BY <2>4, <2>9
<1>23. Exact' = X
  BY <1>9, <1>10 DEF Exact
<1>24. ASSUME NEW p \in X, links[p].incoming # 0
       PROVE  limit[p] * loop.data[p] < ThrottleScale * (CanTake[p] + 1)
  <2>1. CASE p \in loop.done
    <3>1. /\ CanTake[p] \in Nat /\ limit[p] * loop.data[p] \in Int
          /\ limit[p] * loop.data[p] <= ThrottleScale * CanTake[p]
      BY <1>5, <1>12, <1>15, <1>19, <2>1
    <3>2. ThrottleScale * (CanTake[p] + 1) = ThrottleScale * CanTake[p] + ThrottleScale
      BY <1>12, <3>1
    <3>3. ThrottleScale * CanTake[p] \in Int
      BY <1>12, <3>1
    <3> QED BY <1>12, <3>1, <3>2, <3>3
  <2>2. CASE p \notin loop.done
    BY <1>2, <1>16, <1>24, <2>2, RateNow
  <2> QED BY <2>1, <2>2
<1>25. /\ Budget(loop.elapsed)' = Budget(loop.elapsed)
       /\ \A p \in Connected : PeerBandwidth(p)' = CanTake[p]
  <2>1. \A p \in Connected : PeerBandwidth(p)' = PeerBandwidth(p)
    BY <1>2, <1>9 DEF PeerBandwidth, InTime
  <2> QED BY <1>2, <1>9, <1>12, <2>1 DEF Budget, InTime
<1>26. FitInv'
  <2>1. \A p \in Exact' : links'[p].incoming # 0 =>
          loop'.limit[p] * loop'.data[p] < ThrottleScale * (PeerBandwidth(p)' + 1)
    BY <1>2, <1>5, <1>9, <1>23, <1>24, <1>25
  <2>2. SentTotal(loop'.limit, loop'.data, Exact') <= ThrottleScale * Budget(loop.elapsed)'
    BY <1>9, <1>14, <1>21, <1>22, <1>23, <1>25
  <2>3. SentTotal(loop.limit, loop.data, Exact)' = SentTotal(loop'.limit, loop'.data, Exact')
    BY DEF SentTotal, Total, MapThenSumSet, MapThenFoldSet
  <2> QED BY <2>1, <2>2, <2>3 DEF FitInv
<1>27. SharingInv'
  BY <1>9 DEF SharingInv
<1> QED BY <1>11, <1>26, <1>27 DEF BandwidthInv

\* The limits go on fitting while the peers are told of their bandwidths.
LEMMA FitStays ==
    ASSUME FitInv, loop.pc \in {"telling", "over"},
           loop'.elapsed = loop.elapsed, loop'.data = loop.data, loop'.limit = loop.limit,
           Connected' = Connected, \A p \in Connected : links'[p].incoming = links[p].incoming,
           host'.outgoing = host.outgoing
    PROVE  FitInv'
<1>1. Exact' = Exact /\ Exact \subseteq Connected
  BY DEF Exact
<1>2. SentTotal(loop.limit, loop.data, Exact)' = SentTotal(loop.limit, loop.data, Exact)
  BY <1>1 DEF SentTotal, Total, MapThenSumSet, MapThenFoldSet
<1>3. Budget(loop.elapsed)' = Budget(loop.elapsed)
  BY DEF Budget, InTime
<1>4. \A p \in Connected : PeerBandwidth(p)' = PeerBandwidth(p)
  BY DEF PeerBandwidth, InTime
<1>5. /\ \A p \in Exact : links[p].incoming # 0 =>
            loop.limit[p] * loop.data[p] < ThrottleScale * (PeerBandwidth(p) + 1)
      /\ SentTotal(loop.limit, loop.data, Exact) <= ThrottleScale * Budget(loop.elapsed)
  BY DEF FitInv
<1>6. \A p \in Exact' : links'[p].incoming # 0 =>
        loop'.limit[p] * loop'.data[p] < ThrottleScale * (PeerBandwidth(p)' + 1)
  BY <1>1, <1>4, <1>5
<1> QED BY <1>2, <1>3, <1>5, <1>6 DEF FitInv

\* A round of the second loop leaves what it is about alone.
LEMMA TellingGoesOn ==
    ASSUME BandwidthInv, TellingRound
    PROVE  BandwidthInv'
<1>1. PICK equal, again, done, bandwidth : loop' = Telling(loop, equal, again, done, bandwidth)
  BY Zenon DEF TellingRound, Telling
<1>2. loop.pc = "telling" /\ links' = links /\ host' = host
  BY DEF TellingRound
<1>3. BandwidthRecords /\ FitInv /\ LoopRecord(loop)
  BY DEF BandwidthInv, BandwidthRecords
<1>4. PICK m : m = loop'
  BY Zenon
<1>5. LoopRecord(m) /\ m.pc = loop.pc /\ m.elapsed = loop.elapsed /\ m.data = loop.data
      /\ m.limit = loop.limit
  BY <1>1, <1>3, <1>4, ToldRecord
<1>6. Connected' = Connected
  BY <1>2 DEF Connected
<1>7. BandwidthRecords'
  BY <1>2, <1>3, <1>4, <1>5, <1>6 DEF BandwidthRecords, LoopRecord
<1>8. SharingInv'
  BY <1>2, <1>4, <1>5 DEF SharingInv
<1>9. FitInv'
  BY <1>2, <1>3, <1>4, <1>5, <1>6, FitStays
<1> QED BY <1>7, <1>8, <1>9 DEF BandwidthInv

\* Telling the peers leaves what they can take alone.
LEMMA TellingStops ==
    ASSUME BandwidthInv, TellingEnds
    PROVE  BandwidthInv'
<1>1. loop.pc = "telling" /\ loop' = [loop EXCEPT !.pc = "over"]
  BY DEF TellingEnds
<1>2. BandwidthRecords /\ FitInv /\ LoopRecord(loop)
  BY DEF BandwidthInv, BandwidthRecords
<1>3. loop' = [pc |-> "over", elapsed |-> loop.elapsed, data |-> loop.data, limit |-> loop.limit,
               bandwidth |-> loop.bandwidth, dataTotal |-> loop.dataTotal, rate |-> loop.rate,
               done |-> loop.done, again |-> loop.again, share |-> loop.share]
  BY <1>1, <1>2 DEF LoopRecord
<1>4. host' = [incoming |-> host.incoming, outgoing |-> host.outgoing, recalculate |-> FALSE]
  BY <1>2 DEF TellingEnds, BandwidthRecords
<1>5. Connected' = Connected
  BY DEF TellingEnds, Connected
<1>6. ASSUME NEW p \in Connected
      PROVE  LinkRecord(links'[p]) /\ links'[p].incoming = links[p].incoming
  <2> DEFINE news == [outgoing |-> host.outgoing,
                      incoming |-> IF p \in loop.done THEN links[p].outgoing ELSE loop.share]
  <2>1. links'[p] = [links[p] EXCEPT !.told = news]
    BY DEF TellingEnds, Told
  <2> HIDE DEF news
  <2>2. links'[p] = [incoming |-> links[p].incoming, outgoing |-> links[p].outgoing, told |-> news]
    BY <1>2, <2>1 DEF LinkRecord, BandwidthRecords
  <2> QED BY <2>2 DEF LinkRecord
<1>7. BandwidthRecords'
  <2>1. LoopRecord(loop') /\ loop'.elapsed = loop.elapsed /\ loop'.data = loop.data
    BY <1>3 DEF LoopRecord
  <2>2. loop.elapsed \in Elapsed /\ loop.data \in [Connected -> Traffic]
    BY <1>1, <1>2 DEF BandwidthRecords
  <2>3. /\ host' = [incoming |-> host'.incoming, outgoing |-> host'.outgoing,
                    recalculate |-> host'.recalculate]
        /\ host'.outgoing \in Bandwidths \cup {0}
    BY <1>2, <1>4 DEF BandwidthRecords
  <2>4. /\ Connected' \subseteq Peers
        /\ \A p \in Connected' : LinkRecord(links'[p]) /\ links'[p].incoming \in Bandwidths
    BY <1>2, <1>5, <1>6 DEF BandwidthRecords
  <2> QED BY <1>5, <2>1, <2>2, <2>3, <2>4 DEF BandwidthRecords
<1>8. SharingInv'
  BY <1>3 DEF SharingInv
<1>9. FitInv'
  BY <1>1, <1>2, <1>3, <1>4, <1>5, <1>6, FitStays
<1> QED BY <1>7, <1>8, <1>9 DEF BandwidthInv

\* What the rest of the program does between two calls, and the return.
LEMMA ThrottleIdle ==
    ASSUME BandwidthInv,
           \/ \E incoming, outgoing \in HostBandwidths : SetBandwidth(incoming, outgoing)
           \/ \E p \in Peers, incoming, outgoing \in PeerBandwidths :
                PeerConnects(p, incoming, outgoing) \/ HandleBandwidthLimit(p, incoming, outgoing)
           \/ \E p \in Peers : PeerDisconnects(p)
           \/ ThrottleReturns
    PROVE  BandwidthInv'
<1>1. BandwidthRecords
  BY DEF BandwidthInv
<1>2. loop'.pc = "idle" /\ LoopRecord(loop')
  <2>1. CASE loop' = loop /\ loop.pc = "idle"
    BY <1>1, <2>1 DEF BandwidthRecords
  <2>2. CASE loop' = Idle
    BY <2>2 DEF Idle, LoopRecord
  <2> QED BY <2>1, <2>2 DEF SetBandwidth, PeerConnects, HandleBandwidthLimit, PeerDisconnects,
                            ThrottleReturns
<1>3. /\ host' = [incoming |-> host'.incoming, outgoing |-> host'.outgoing,
                  recalculate |-> host'.recalculate]
      /\ host'.outgoing \in Bandwidths \cup {0}
  <2>1. CASE host' = host
    BY <1>1, <2>1 DEF BandwidthRecords
  <2>2. CASE host' = [host EXCEPT !.recalculate = TRUE]
    <3>1. host' = [incoming |-> host.incoming, outgoing |-> host.outgoing, recalculate |-> TRUE]
      BY <1>1, <2>2 DEF BandwidthRecords
    <3> QED BY <1>1, <3>1 DEF BandwidthRecords
  <2>3. ASSUME NEW incoming \in Bandwidths, NEW outgoing \in Bandwidths,
               SetBandwidth(incoming, outgoing)
        PROVE  <1>3!1 /\ <1>3!2
    BY <2>3 DEF SetBandwidth
  <2> QED BY <2>1, <2>2, <2>3 DEF PeerConnects, HandleBandwidthLimit, PeerDisconnects,
                                 ThrottleReturns, Bandwidths
<1>4. /\ Connected' \subseteq Peers
      /\ \A p \in Connected' : LinkRecord(links'[p]) /\ links'[p].incoming \in Bandwidths
  <2>1. CASE links' = links
    BY <1>1, <2>1 DEF BandwidthRecords, Connected
  <2>2. ASSUME NEW p \in Peers, NEW incoming \in Bandwidths, NEW outgoing \in Bandwidths,
               PeerConnects(p, incoming, outgoing)
        PROVE  <1>4!1 /\ <1>4!2
    <3>1. DOMAIN links' = Connected \cup {p} /\ \A q \in Connected : q # p => links'[q] = links[q]
      BY <2>2 DEF PeerConnects
    <3>2. LinkRecord(links'[p]) /\ links'[p].incoming = incoming
      BY <2>2 DEF PeerConnects, LinkRecord
    <3> QED BY <1>1, <3>1, <3>2 DEF BandwidthRecords, Connected
  <2>3. ASSUME NEW p \in Peers, NEW incoming \in Bandwidths, NEW outgoing \in Bandwidths,
               HandleBandwidthLimit(p, incoming, outgoing)
        PROVE  <1>4!1 /\ <1>4!2
    <3>1. p \in Connected /\ LinkRecord(links[p])
      BY <1>1, <2>3 DEF HandleBandwidthLimit, BandwidthRecords
    <3>2. /\ Connected' = Connected /\ \A q \in Connected : q # p => links'[q] = links[q]
          /\ LinkRecord(links'[p]) /\ links'[p].incoming = incoming
      BY <2>3, <3>1, LinkLimited
    <3> QED BY <1>1, <3>1, <3>2 DEF BandwidthRecords
  <2>4. ASSUME NEW p \in Peers, PeerDisconnects(p)
        PROVE  <1>4!1 /\ <1>4!2
    <3>1. DOMAIN links' = Connected \ {p} /\ \A q \in DOMAIN links' : links'[q] = links[q]
      BY <2>4 DEF PeerDisconnects
    <3> QED BY <1>1, <3>1 DEF BandwidthRecords, Connected
  <2> QED BY <2>1, <2>2, <2>3, <2>4 DEF SetBandwidth, ThrottleReturns, Bandwidths
<1>5. BandwidthRecords'
  BY <1>2, <1>3, <1>4 DEF BandwidthRecords
<1> QED BY <1>2, <1>5 DEF BandwidthInv, SharingInv, FitInv

\* Every step keeps the invariant.
LEMMA BandwidthInvStep ==
    ASSUME BandwidthInv, [BandwidthNext]_bandwidthVars
    PROVE  BandwidthInv'
<1>1. CASE UNCHANGED bandwidthVars
  <2>1. links' = links /\ host' = host /\ loop' = loop
    BY <1>1 DEF bandwidthVars
  <2>2. Connected' = Connected
    BY <2>1 DEF Connected
  <2>3. BandwidthRecords'
    BY <2>1, <2>2 DEF BandwidthInv, BandwidthRecords
  <2>4. FitInv'
    BY <2>1, <2>2, FitStays DEF BandwidthInv, FitInv
  <2>5. SharingInv'
    BY <2>1, <2>2 DEF BandwidthInv, SharingInv, CanTake, PeerBandwidth, Budget, InTime,
                      OwnLimit, Rate, Exceeding
  <2> QED BY <2>3, <2>4, <2>5 DEF BandwidthInv
<1>2. CASE ThrottleCalled
  BY <1>2, SharingBegins DEF ThrottleCalled
<1>3. CASE ThrottleSteps
  BY <1>3, SharingGoesOn, SharingFits, TellingGoesOn, TellingStops, ThrottleIdle DEF ThrottleSteps
<1> QED
  BY <1>1, <1>2, <1>3, ThrottleIdle DEF BandwidthNext

\* Without peers it holds.
LEMMA BandwidthInvInit == BandwidthInit => BandwidthInv
BY DEF BandwidthInit, BandwidthInv, BandwidthRecords, SharingInv, FitInv, Connected, Idle, LoopRecord

\* The invariant holds in every state.
LEMMA BandwidthSafe == BandwidthSafety => []BandwidthInv
<1> QED BY BandwidthInvInit, BandwidthInvStep, PTL DEF BandwidthSafety

\* What the invariant says of the unsigned numbers.
LEMMA NothingOverdrawn == BandwidthSafety => []NeverOverdrawn
<1>1. BandwidthInv => NeverOverdrawn
  <2> SUFFICES ASSUME BandwidthInv, loop.pc = "sharing" PROVE NeverOverdrawn
    BY DEF NeverOverdrawn
  <2>1. loop.bandwidth \in Nat \ {0} /\ loop.dataTotal \in Nat
    BY DEF BandwidthInv, SharingInv
  <2>2. PICK g : SumOn(g, loop.data, Connected) /\ g[Connected \ loop.done] <= loop.dataTotal
    BY DEF BandwidthInv, SharingInv
  <2> DEFINE rest == Connected \ loop.done
  <2>3. IsFiniteSet(Connected) /\ rest \in SUBSET Connected /\ \A p \in Connected : loop.data[p] \in Int
    BY RateNow
  <2> HIDE DEF rest
  <2>4. IsFiniteSet(rest) /\ SumOn(g, loop.data, rest) /\ \A p \in rest : loop.data[p] \in Int
    BY <2>2, <2>3, FS_Subset DEF SumOn
  <2>5. PICK k : SumOn(k, loop.data, rest) /\ WeightTotal(loop.data, rest) = k[rest]
    BY <2>4, WeightIsSum
  <2>6. k[rest] = g[rest]
    BY <2>4, <2>5, SumUnique
  <2>7. Total(LAMBDA p : loop.data[p], Connected \ loop.done) = WeightTotal(loop.data, rest)
    BY DEF WeightTotal, Total, MapThenSumSet, MapThenFoldSet, rest
  <2> QED BY <2>1, <2>2, <2>5, <2>6, <2>7 DEF NeverOverdrawn, rest
<1> QED BY <1>1, BandwidthSafe, PTL

\* However the bandwidths and the traffic lie, the unsigned bandwidth that is left
\* to share is never overdrawn and the division by dataTotal is never one by 0
\* (the first loop of enet_host_bandwidth_throttle).
THEOREM SharingNeverOverdraws == BandwidthSpec => []NeverOverdrawn
<1> QED BY NothingOverdrawn, PTL DEF BandwidthSpec, BandwidthSafety

\* What the invariant says of the limits.
LEMMA LimitsKept == BandwidthSafety => []SharesFit
<1>1. BandwidthInv => SharesFit
  <2> SUFFICES ASSUME BandwidthInv, loop.pc \in {"telling", "over"} PROVE SharesFit
    BY DEF SharesFit
  <2>1. /\ \A p \in Exact : links[p].incoming # 0 =>
            loop.limit[p] * loop.data[p] < ThrottleScale * (PeerBandwidth(p) + 1)
        /\ SentTotal(loop.limit, loop.data, Exact) <= ThrottleScale * Budget(loop.elapsed)
    BY DEF BandwidthInv, FitInv
  <2> DEFINE sent(p) == loop.limit[p] * loop.data[p]
  <2>2. Total(sent, Exact) = SentTotal(loop.limit, loop.data, Exact)
    BY DEF SentTotal, Total, MapThenSumSet, MapThenFoldSet
  <2> QED BY <2>1, <2>2 DEF SharesFit, Exact
<1> QED BY <1>1, BandwidthSafe, PTL

\* When the limits are set, what every peer is sent at its limit fits what it can
\* take, and together it fits what the host may send, whatever their number and
\* their bandwidths (the packetThrottleLimit of enet_host_bandwidth_throttle).
THEOREM LimitsFit == BandwidthSpec => []SharesFit
<1> QED BY LimitsKept, PTL DEF BandwidthSpec, BandwidthSafety

-----------------------------------------------------------------------------
\* The types of EnetBandwidth.

\* What a set of connected peers says it may send.
OutgoingTotal(T) == Total(LAMBDA p : links[p].outgoing, T)

\* It is a number.
LEMMA OutgoingIsNumber ==
    ASSUME NEW T, IsFiniteSet(T), \A p \in T : links[p].outgoing \in Nat
    PROVE  OutgoingTotal(T) \in Int
<1> DEFINE w == [p \in T |-> links[p].outgoing]
<1>1. \A p \in T : w[p] \in Int /\ w[p] \in Nat /\ w[p] = links[p].outgoing
  OBVIOUS
<1> HIDE DEF w
<1> DEFINE iter == CHOOSE g : g = [t \in SUBSET T |->
                      IF t = {} THEN 0
                      ELSE links[CHOOSE x \in t : TRUE].outgoing + g[t \ {CHOOSE x \in t : TRUE}]]
<1>2. OutgoingTotal(T) = iter[T]
  BY DEF OutgoingTotal, Total, MapThenSumSet, MapThenFoldSet
<1>3. \A g : g = [t \in SUBSET T |->
                    IF t = {} THEN 0
                    ELSE links[CHOOSE x \in t : TRUE].outgoing + g[t \ {CHOOSE x \in t : TRUE}]]
             <=> Sums(g, w, T)
  <2> TAKE g
  <2>1. ASSUME NEW t \in SUBSET T
        PROVE  (IF t = {} THEN 0
                ELSE links[CHOOSE x \in t : TRUE].outgoing + g[t \ {CHOOSE x \in t : TRUE}])
               = (IF t = {} THEN 0 ELSE w[Chosen(t)] + g[t \ {Chosen(t)}])
    <3>1. t # {} => Chosen(t) \in T
      BY DEF Chosen
    <3>2. t # {} => w[Chosen(t)] = links[Chosen(t)].outgoing
      BY <1>1, <3>1
    <3> QED BY <3>2 DEF Chosen
  <2> QED BY <2>1 DEF Sums
<1>4. PICK g : Sums(g, w, T)
  BY SumExists
<1>5. \E f : f = [t \in SUBSET T |->
                    IF t = {} THEN 0
                    ELSE links[CHOOSE x \in t : TRUE].outgoing + f[t \ {CHOOSE x \in t : TRUE}]]
  <2>1. g = [t \in SUBSET T |->
               IF t = {} THEN 0
               ELSE links[CHOOSE x \in t : TRUE].outgoing + g[t \ {CHOOSE x \in t : TRUE}]]
    BY <1>3, <1>4, Zenon
  <2> QED BY <2>1, Zenon
<1>6. iter = [t \in SUBSET T |->
                IF t = {} THEN 0
                ELSE links[CHOOSE x \in t : TRUE].outgoing + iter[t \ {CHOOSE x \in t : TRUE}]]
  BY <1>5, Zenon
<1> HIDE DEF iter
<1>7. Sums(iter, w, T)
  BY <1>3, <1>6, Zenon
<1>8. PICK k : SumOn(k, w, T) /\ iter[T] = k[T]
  BY <1>7, <1>1, SumAnyOrder
<1>9. k[T] \in Int
  BY <1>1, <1>8, SumNatural
<1> QED BY <1>2, <1>8, <1>9

\* What BandwidthTypeOK says of the local variables.
LocalsTyped(l, T) ==
    /\ l.pc \in {"idle", "sharing", "telling", "over"}
    /\ l.bandwidth \in Nat /\ l.dataTotal \in Nat /\ l.rate \in 0 .. ThrottleScale
    /\ l.done \subseteq T /\ l.again \in BOOLEAN /\ l.share \in Nat

LinksTyped == Connected \subseteq Peers /\ \A p \in Connected : links[p] \in Link

HostTyped == host \in [incoming : Nat, outgoing : Nat, recalculate : BOOLEAN]

\* The first loop's steps keep the types.
LEMMA SharingTyped ==
    ASSUME BandwidthInv, BandwidthTypeOK, SharingRound
    PROVE  LocalsTyped(loop, Connected)'
<1>1. PICK limit, again, b, d, done :
        /\ loop' = Round(loop, limit, Rate, again, b, d, done)
        /\ again = Again({p \in Connected : Exceeding(p)})
  BY Zenon DEF SharingRound, Round
<1>2. loop.pc = "sharing" /\ LoopRecord(loop)
  BY DEF SharingRound, BandwidthInv, BandwidthRecords
<1>3. PICK r : r = Rate
  BY Zenon
<1>4. loop' = [pc |-> loop.pc, elapsed |-> loop.elapsed, data |-> loop.data, limit |-> limit,
               bandwidth |-> b, dataTotal |-> d, rate |-> r, done |-> done,
               again |-> again, share |-> loop.share]
  BY <1>1, <1>2, <1>3, RoundRecord
<1>5. r \in 0 .. ThrottleScale
  BY <1>2, <1>3, RateNow
<1>6. again \in BOOLEAN
  BY <1>1 DEF Again
<1>7. SharingInv'
  BY SharingGoesOn DEF BandwidthInv
<1>8. /\ loop'.pc = "sharing" /\ loop'.rate = r /\ loop'.again = again
      /\ loop'.share = loop.share
  BY <1>2, <1>4
<1>9. loop'.done \subseteq Connected' /\ loop'.bandwidth \in Nat /\ loop'.dataTotal \in Nat
  BY <1>7, <1>8 DEF SharingInv
<1>10. loop.share \in Nat
  BY DEF BandwidthTypeOK
<1> QED BY <1>5, <1>6, <1>8, <1>9, <1>10 DEF LocalsTyped

LEMMA EndTyped ==
    ASSUME BandwidthInv, BandwidthTypeOK, SharingEnds
    PROVE  LocalsTyped(loop, Connected)'
<1>1. PICK limit, pc, b, again :
        /\ loop' = Ended(loop, limit, pc, b, again)
        /\ pc = (IF host.recalculate THEN "telling" ELSE "over")
        /\ b = host.incoming /\ again = (host.incoming # 0)
  BY Zenon DEF SharingEnds, Ended
<1>2. LoopRecord(loop)
  BY DEF BandwidthInv, BandwidthRecords
<1>3. loop' = [pc |-> pc, elapsed |-> loop.elapsed, data |-> loop.data, limit |-> limit,
               bandwidth |-> b, dataTotal |-> loop.dataTotal, rate |-> loop.rate, done |-> {},
               again |-> again, share |-> loop.share]
  BY <1>1, <1>2, EndRecord
<1>4. pc \in {"telling", "over"} /\ b \in Nat
  BY <1>1 DEF BandwidthTypeOK
<1>5. again \in BOOLEAN
  BY <1>1
<1>6. loop.dataTotal \in Nat /\ loop.rate \in 0 .. ThrottleScale /\ loop.share \in Nat
  BY DEF BandwidthTypeOK
<1> QED BY <1>3, <1>4, <1>5, <1>6 DEF LocalsTyped

\* So do those of the second: the share is one among somebody, and what is left is
\* cut to the width of the variable.
LEMMA TellingTyped ==
    ASSUME BandwidthInv, BandwidthTypeOK, TellingRound
    PROVE  LocalsTyped(loop, Connected)'
<1> DEFINE rest == Connected \ loop.done
           equal == loop.bandwidth \div Cardinality(rest)
           taken == {p \in rest : ~PassedOver(p, equal)}
<1>1. PICK again, done, b :
        /\ loop' = Telling(loop, equal, again, done, b)
        /\ again = (taken # {}) /\ done = loop.done \cup taken
        /\ b = (loop.bandwidth - Total(LAMBDA p : links[p].outgoing, taken)) % (Unlimited + 1)
  BY Zenon DEF TellingRound, Telling
<1>2. /\ loop.done # Connected /\ links' = links /\ LoopRecord(loop)
      /\ loop.done \subseteq Connected /\ loop.bandwidth \in Nat
      /\ \A p \in Connected : links[p].outgoing \in Nat
  BY DEF TellingRound, BandwidthInv, BandwidthRecords, BandwidthTypeOK, Link
<1>3. IsFiniteSet(Connected)
  BY FS_Subset, BandwidthAssumption DEF BandwidthTypeOK
<1>4. rest # {} /\ IsFiniteSet(rest) /\ taken \subseteq Connected
  BY <1>2, <1>3, FS_Subset
<1>5. Cardinality(rest) \in Nat \ {0}
  BY <1>4, FS_CardinalityType, FS_EmptySet
<1>6. IsFiniteSet(taken)
  BY <1>3, <1>4, FS_Subset
<1>7. equal \in Nat
  <2>1. PICK n, w : n = Cardinality(rest) /\ w = loop.bandwidth
    BY Zenon
  <2>2. w \div n \in Nat
    BY <1>2, <1>5, <2>1, QuotientFacts
  <2> QED BY <2>1, <2>2
<1> HIDE DEF equal, taken, rest
<1>8. b \in Nat
  <2>1. OutgoingTotal(taken) \in Int
    BY <1>2, <1>4, <1>6, OutgoingIsNumber
  <2>2. PICK t : t = OutgoingTotal(taken)
    BY Zenon
  <2>3. b = (loop.bandwidth - t) % (Unlimited + 1)
    BY <1>1, <2>2 DEF OutgoingTotal, Total, MapThenSumSet, MapThenFoldSet
  <2>4. Unlimited + 1 \in Nat \ {0} /\ loop.bandwidth - t \in Int
    BY <1>2, <2>1, <2>2, BandwidthAssumption
  <2> QED BY <2>3, <2>4
<1>9. again \in BOOLEAN
  BY <1>1
<1>10. PICK m, e : m = loop' /\ e = equal
  BY Zenon
<1>11. /\ m.pc = loop.pc /\ m.dataTotal = loop.dataTotal /\ m.rate = loop.rate
       /\ m.share = e /\ m.again = again /\ m.done = done /\ m.bandwidth = b
  BY <1>1, <1>2, <1>10, ToldRecord
<1>12. Connected' = Connected
  BY <1>2 DEF Connected
<1>13. done \subseteq Connected
  BY <1>1, <1>2, <1>4
<1>14. /\ loop.pc \in {"idle", "sharing", "telling", "over"} /\ loop.dataTotal \in Nat
       /\ loop.rate \in 0 .. ThrottleScale
  BY DEF BandwidthTypeOK
<1> QED BY <1>7, <1>8, <1>9, <1>10, <1>11, <1>12, <1>13, <1>14 DEF LocalsTyped

\* What the host keeps of its peers and of itself keeps its types: bandwidths come
\* from peers, the share told is the loop's.
LEMMA HostTypedStep ==
    ASSUME BandwidthInv, BandwidthTypeOK, [BandwidthNext]_bandwidthVars
    PROVE  LinksTyped' /\ HostTyped'
<1>1. /\ BandwidthRecords /\ Bandwidths \subseteq Nat
      /\ LinksTyped /\ HostTyped /\ loop.share \in Nat
  BY BandwidthAssumption DEF BandwidthInv, BandwidthTypeOK, LinksTyped, HostTyped
<1>2. host.incoming \in Nat /\ host.outgoing \in Nat
  BY <1>1 DEF HostTyped
<1>3. ASSUME NEW incoming \in Bandwidths, NEW outgoing \in Bandwidths, SetBandwidth(incoming, outgoing)
      PROVE  LinksTyped' /\ HostTyped'
  BY <1>1, <1>3 DEF SetBandwidth, LinksTyped, HostTyped, Connected
<1>4. ASSUME NEW p \in Peers, NEW incoming \in Bandwidths, NEW outgoing \in Bandwidths,
             PeerConnects(p, incoming, outgoing)
      PROVE  LinksTyped' /\ HostTyped'
  <2>1. HostTyped'
    BY <1>1, <1>4 DEF PeerConnects, HostTyped
  <2>2. DOMAIN links' = Connected \cup {p} /\ \A q \in Connected : links'[q] = links[q]
    BY <1>4 DEF PeerConnects
  <2>3. links'[p] \in Link
    BY <1>1, <1>2, <1>4 DEF PeerConnects, Link, Bandwidths
  <2> QED BY <1>1, <2>1, <2>2, <2>3 DEF LinksTyped, Connected
<1>5. ASSUME NEW p \in Peers, NEW incoming \in Bandwidths, NEW outgoing \in Bandwidths,
             HandleBandwidthLimit(p, incoming, outgoing)
      PROVE  LinksTyped' /\ HostTyped'
  <2>1. p \in Connected /\ LinkRecord(links[p]) /\ host' = host
    BY <1>1, <1>5 DEF HandleBandwidthLimit, BandwidthRecords
  <2>2. /\ Connected' = Connected /\ \A q \in Connected : q # p => links'[q] = links[q]
        /\ LinkRecord(links'[p]) /\ links'[p].told = links[p].told
        /\ links'[p].incoming = incoming /\ links'[p].outgoing = outgoing
    BY <1>5, <2>1, LinkLimited
  <2>3. links'[p] \in Link
    BY <1>1, <2>1, <2>2 DEF LinkRecord, Link, LinksTyped
  <2> QED BY <1>1, <2>1, <2>2, <2>3 DEF LinksTyped, HostTyped
<1>6. ASSUME NEW p \in Peers, PeerDisconnects(p)
      PROVE  LinksTyped' /\ HostTyped'
  <2>1. HostTyped'
    BY <1>1, <1>6 DEF PeerDisconnects, HostTyped
  <2>2. DOMAIN links' = Connected \ {p} /\ \A q \in DOMAIN links' : links'[q] = links[q]
    BY <1>6 DEF PeerDisconnects
  <2> QED BY <1>1, <2>1, <2>2 DEF LinksTyped, Connected
<1>7. ASSUME UNCHANGED <<links, host>>
      PROVE  LinksTyped' /\ HostTyped'
  BY <1>1, <1>7 DEF LinksTyped, HostTyped, Connected
<1>8. CASE TellingEnds
  <2>1. HostTyped'
    BY <1>1, <1>8 DEF TellingEnds, HostTyped
  <2>2. DOMAIN links' = Connected
    BY <1>8 DEF TellingEnds
  <2>3. ASSUME NEW p \in Connected
        PROVE  links'[p] \in Link
    <3> DEFINE news == [outgoing |-> host.outgoing,
                        incoming |-> IF p \in loop.done THEN links[p].outgoing ELSE loop.share]
    <3>1. links'[p] = [links[p] EXCEPT !.told = news]
      BY <1>8 DEF TellingEnds, Told
    <3>2. news \in [incoming : Nat, outgoing : Nat] /\ links[p] \in Link
      BY <1>1, <1>2 DEF LinksTyped, Link
    <3> HIDE DEF news
    <3> QED BY <3>1, <3>2 DEF Link
  <2> QED BY <1>1, <2>1, <2>2, <2>3 DEF LinksTyped, Connected
<1> QED
  BY <1>3, <1>4, <1>5, <1>6, <1>7, <1>8 DEF BandwidthNext, Bandwidths, bandwidthVars, ThrottleSteps,
     ThrottleCalled, ThrottleBegins, SharingRound, SharingEnds, TellingRound, ThrottleReturns

\* Between two calls nothing is left of the last: no peer that has gone since is
\* still taken for one that is done.
NothingLeft == loop.pc = "idle" => loop = Idle

\* The local variables keep theirs.
LEMMA LocalsTypedStep ==
    ASSUME BandwidthInv, BandwidthTypeOK, NothingLeft, [BandwidthNext]_bandwidthVars
    PROVE  LocalsTyped(loop, Connected)'
<1>1. LocalsTyped(loop, Connected) /\ LoopRecord(loop) /\ ThrottleScale \in Nat
  BY BandwidthAssumption DEF BandwidthInv, BandwidthRecords, BandwidthTypeOK, LocalsTyped
<1>2. ASSUME NEW T PROVE LocalsTyped(Idle, T)
  BY <1>1 DEF Idle, LocalsTyped
<1>3. loop' = Idle => LocalsTyped(loop, Connected)'
  BY <1>2 DEF LocalsTyped
<1>4. ASSUME NEW elapsed \in Elapsed, NEW data \in [Connected -> Traffic],
             ThrottleBegins(elapsed, data)
      PROVE  LocalsTyped(loop, Connected)'
  <2>1. PICK b, d : loop' = Begun(elapsed, data, b, d)
    BY <1>4, Zenon DEF ThrottleBegins, Begun
  <2>2. loop' = [pc |-> "sharing", elapsed |-> elapsed, data |-> data, limit |-> <<>>,
                 bandwidth |-> b, dataTotal |-> d, rate |-> 0, done |-> {},
                 again |-> TRUE, share |-> 0]
    BY <2>1, BeginRecord
  <2>3. SharingInv'
    BY <1>4, SharingBegins DEF BandwidthInv
  <2>4. loop'.bandwidth \in Nat /\ loop'.dataTotal \in Nat
    BY <2>2, <2>3 DEF SharingInv
  <2> QED BY <1>1, <2>2, <2>4 DEF LocalsTyped
<1>5. CASE TellingEnds
  <2>1. loop' = [pc |-> "over", elapsed |-> loop.elapsed, data |-> loop.data, limit |-> loop.limit,
                 bandwidth |-> loop.bandwidth, dataTotal |-> loop.dataTotal, rate |-> loop.rate,
                 done |-> loop.done, again |-> loop.again, share |-> loop.share]
    BY <1>1, <1>5 DEF TellingEnds, LoopRecord
  <2>2. Connected' = Connected
    BY <1>5 DEF TellingEnds, Connected
  <2> QED BY <1>1, <2>1, <2>2 DEF LocalsTyped
<1>6. ASSUME loop.pc = "idle", loop' = loop
      PROVE  LocalsTyped(loop, Connected)'
  BY <1>3, <1>6 DEF NothingLeft
<1>7. ASSUME UNCHANGED bandwidthVars
      PROVE  LocalsTyped(loop, Connected)'
  BY <1>1, <1>7 DEF bandwidthVars, LocalsTyped, Connected
<1> QED
  BY <1>3, <1>4, <1>5, <1>6, <1>7, SharingTyped, EndTyped, TellingTyped
  DEF BandwidthNext, ThrottleSteps, ThrottleCalled, SetBandwidth, PeerConnects,
      HandleBandwidthLimit, PeerDisconnects, ThrottleReturns

\* Nothing is left before the first call, nor after any.
LEMMA NothingLeftStep ==
    ASSUME NothingLeft, LoopRecord(loop), [BandwidthNext]_bandwidthVars
    PROVE  NothingLeft'
<1>1. CASE loop' = loop \/ loop' = Idle
  BY <1>1 DEF NothingLeft
<1>2. ASSUME NEW elapsed \in Elapsed, NEW data \in [Connected -> Traffic],
             ThrottleBegins(elapsed, data)
      PROVE  NothingLeft'
  <2>1. PICK b, d : loop' = Begun(elapsed, data, b, d)
    BY <1>2, Zenon DEF ThrottleBegins, Begun
  <2> QED BY <2>1, BeginRecord DEF NothingLeft
<1>3. CASE SharingRound
  <2>1. PICK limit, again, r, b, d, done : loop' = Round(loop, limit, r, again, b, d, done)
    BY <1>3, Zenon DEF SharingRound, Round
  <2>2. loop.pc = "sharing"
    BY <1>3 DEF SharingRound
  <2> QED BY <2>1, <2>2, RoundRecord DEF NothingLeft
<1>4. CASE SharingEnds
  <2>1. PICK limit, pc, b, again : /\ loop' = Ended(loop, limit, pc, b, again)
                                   /\ pc = (IF host.recalculate THEN "telling" ELSE "over")
    BY <1>4, Zenon DEF SharingEnds, Ended
  <2> QED BY <2>1, EndRecord DEF NothingLeft
<1>5. CASE TellingRound
  <2>1. PICK equal, again, done, b : loop' = Telling(loop, equal, again, done, b)
    BY <1>5, Zenon DEF TellingRound, Telling
  <2>2. PICK m : m = loop'
    BY Zenon
  <2>3. m.pc = loop.pc /\ loop.pc = "telling"
    BY <1>5, <2>1, <2>2, ToldRecord DEF TellingRound
  <2> QED BY <2>2, <2>3 DEF NothingLeft
<1>6. CASE TellingEnds
  <2>1. loop' = [loop EXCEPT !.pc = "over"]
    BY <1>6 DEF TellingEnds
  <2> QED BY <2>1 DEF NothingLeft, LoopRecord
<1> QED
  BY <1>1, <1>2, <1>3, <1>4, <1>5, <1>6 DEF BandwidthNext, bandwidthVars, ThrottleSteps,
     ThrottleCalled, SetBandwidth, PeerConnects, HandleBandwidthLimit, PeerDisconnects,
     ThrottleReturns

\* BandwidthTypeOK, in the parts above.
LEMMA BandwidthTypedStep ==
    ASSUME BandwidthTypeOK, NothingLeft, BandwidthInv, [BandwidthNext]_bandwidthVars
    PROVE  BandwidthTypeOK' /\ NothingLeft'
<1>1. LinksTyped' /\ HostTyped' /\ LocalsTyped(loop, Connected)'
  BY HostTypedStep, LocalsTypedStep
<1>2. BandwidthTypeOK'
  BY <1>1 DEF BandwidthTypeOK, LinksTyped, HostTyped, LocalsTyped
<1>3. LoopRecord(loop)
  BY DEF BandwidthInv, BandwidthRecords
<1> QED BY <1>2, <1>3, NothingLeftStep

LEMMA BandwidthTypedInit == BandwidthInit => BandwidthTypeOK /\ NothingLeft
BY BandwidthAssumption DEF BandwidthInit, BandwidthTypeOK, NothingLeft, Idle, Connected

\* The types hold in every state.
LEMMA BandwidthTyped == BandwidthSafety => []BandwidthTypeOK
<1> QED BY BandwidthTypedInit, BandwidthTypedStep, BandwidthSafe, PTL DEF BandwidthSafety

\* Every variable of enet_host_bandwidth_throttle stays a number of its type: what
\* is left to share never goes below 0, a rate never above the scale, and a peer
\* that has gone is in none of its sets.
THEOREM BandwidthTypes == BandwidthSpec => []BandwidthTypeOK
<1> QED BY BandwidthTyped, PTL DEF BandwidthSpec, BandwidthSafety

-----------------------------------------------------------------------------
(* The loops end.                                                          *)

\* How many rounds a loop can still take: each but the last takes a peer.
PeersLeft == Cardinality(Connected \ loop.done) + (IF loop.again THEN 1 ELSE 0)

\* How many steps enet_host_bandwidth_throttle can still take before it returns.
StepsLeft ==
    IF loop.pc = "sharing" THEN Cardinality(Connected) + 3 + PeersLeft
    ELSE IF loop.pc = "telling" THEN PeersLeft + 1
    ELSE 0

\* Every step brings the end of the call nearer, and it is near from the start.
CallIsShort == StepsLeft \in 0 .. 2 * Cardinality(Peers) + 4

CallEnds == [][loop.pc # "idle" => loop'.pc = "idle" \/ StepsLeft' < StepsLeft]_bandwidthVars

\* A round that takes peers leaves fewer; one that takes none is the last.
LEMMA RoundShrinks ==
    ASSUME NEW T, IsFiniteSet(T), NEW done, done \subseteq T, NEW taken, taken \subseteq T \ done
    PROVE  /\ Cardinality(T) \in Nat /\ Cardinality(T \ done) \in Nat
           /\ Cardinality(T \ done) <= Cardinality(T)
           /\ Cardinality(T \ (done \cup taken)) \in Nat
           /\ taken = {} => Cardinality(T \ (done \cup taken)) = Cardinality(T \ done)
           /\ taken # {} => Cardinality(T \ (done \cup taken)) < Cardinality(T \ done)
<1> DEFINE before == T \ done
           after == T \ (done \cup taken)
<1>1. IsFiniteSet(before) /\ Cardinality(before) <= Cardinality(T)
  BY FS_Subset
<1>2. after \subseteq before /\ (taken = {} => after = before) /\ (taken # {} => after # before)
  OBVIOUS
<1> HIDE DEF before, after
<1>3. /\ IsFiniteSet(after) /\ Cardinality(after) <= Cardinality(before)
      /\ Cardinality(after) = Cardinality(before) => after = before
  BY <1>1, <1>2, FS_Subset
<1>4. Cardinality(T) \in Nat /\ Cardinality(before) \in Nat /\ Cardinality(after) \in Nat
  BY <1>1, <1>3, FS_CardinalityType
<1>5. taken # {} => Cardinality(after) < Cardinality(before)
  BY <1>2, <1>3, <1>4
<1> QED BY <1>1, <1>2, <1>4, <1>5 DEF before, after

\* What is left of a round before and after it.
LEMMA RoundTakes ==
    ASSUME NEW T, IsFiniteSet(T), Connected = T, Connected' = T,
           loop.done \subseteq T, loop.again = TRUE, NEW taken, taken \subseteq T \ loop.done,
           loop'.done = loop.done \cup taken, loop'.again = (taken # {})
    PROVE  PeersLeft' \in Nat /\ PeersLeft \in Nat /\ PeersLeft' < PeersLeft /\ Cardinality(T) \in Nat
<1>1. PICK n, m : n = Cardinality(T \ loop.done) /\ m = Cardinality(T \ (loop.done \cup taken))
  BY Zenon
<1>2. n \in Nat /\ m \in Nat /\ (taken = {} => m = n) /\ (taken # {} => m < n) /\ Cardinality(T) \in Nat
  BY <1>1, RoundShrinks
<1>3. PeersLeft = n + 1
  BY <1>1 DEF PeersLeft
<1>4. PeersLeft' = m + (IF taken # {} THEN 1 ELSE 0)
  BY <1>1 DEF PeersLeft
<1> QED BY <1>2, <1>3, <1>4

\* A loop shortens by what its rounds shorten by.
LEMMA OneFewer == \A x, y \in Nat : y < x => y + 1 < x + 1
OBVIOUS

\* Every step of a call shortens it.
LEMMA StepShortens ==
    ASSUME BandwidthInv, BandwidthTypeOK, BandwidthNext, loop.pc # "idle", loop'.pc # "idle"
    PROVE  StepsLeft' < StepsLeft
<1>1. /\ LoopRecord(loop) /\ loop.done \subseteq Connected /\ IsFiniteSet(Connected)
      /\ loop.again \in BOOLEAN
  BY FS_Subset, BandwidthAssumption DEF BandwidthInv, BandwidthRecords, BandwidthTypeOK
<1>2. CASE SharingRound
  <2> DEFINE taken == {p \in Connected : Exceeding(p)}
  <2>1. PICK limit, again, r, b, d, done :
          /\ loop' = Round(loop, limit, r, again, b, d, done)
          /\ again = (taken # {}) /\ done = loop.done \cup taken
    BY <1>2, Zenon DEF SharingRound, Round, Again
  <2>2. taken \subseteq Connected \ loop.done
    BY DEF Exceeding
  <2>3. loop.pc = "sharing" /\ loop.again /\ links' = links
    BY <1>2 DEF SharingRound
  <2> HIDE DEF taken
  <2>4. loop'.pc = "sharing" /\ loop'.again = again /\ loop'.done = done
    BY <1>1, <2>1, <2>3, RoundRecord
  <2>5. Connected' = Connected
    BY <2>3 DEF Connected
  <2>6. loop.again = TRUE /\ loop'.again = (taken # {}) /\ loop'.done = loop.done \cup taken
    BY <1>1, <2>1, <2>3, <2>4, Zenon
  <2>7. PICK T : T = Connected
    BY Zenon
  <2>8. PeersLeft' \in Nat /\ PeersLeft \in Nat /\ PeersLeft' < PeersLeft /\ Cardinality(T) \in Nat
    BY <1>1, <2>2, <2>5, <2>6, <2>7, RoundTakes
  <2>9. StepsLeft = Cardinality(T) + 3 + PeersLeft /\ StepsLeft' = Cardinality(T) + 3 + PeersLeft'
    BY <2>3, <2>4, <2>5, <2>7 DEF StepsLeft
  <2> QED BY <2>8, <2>9
<1>3. CASE SharingEnds
  <2>1. PICK limit, pc, b, again :
          /\ loop' = Ended(loop, limit, pc, b, again)
          /\ pc = (IF host.recalculate THEN "telling" ELSE "over")
    BY <1>3, Zenon DEF SharingEnds, Ended
  <2>2. loop'.pc = pc /\ loop'.done = {}
    BY <1>1, <2>1, EndRecord
  <2>3. loop.pc = "sharing" /\ Connected' = Connected
    BY <1>3 DEF SharingEnds, Connected
  <2>4. PICK n, k : n = Cardinality(Connected) /\ k = Cardinality(Connected \ loop.done)
    BY Zenon
  <2>5. n \in Nat /\ k \in Nat
    BY <1>1, <2>4, RoundShrinks
  <2>6. StepsLeft = n + 3 + (k + (IF loop.again THEN 1 ELSE 0))
    BY <2>3, <2>4 DEF StepsLeft, PeersLeft
  <2>7. Connected' \ loop'.done = Connected
    BY <2>2, <2>3
  <2>8. PeersLeft' = n + (IF loop'.again THEN 1 ELSE 0)
    BY <2>4, <2>7 DEF PeersLeft
  <2>9. StepsLeft' = IF pc = "telling" THEN PeersLeft' + 1 ELSE 0
    BY <2>1, <2>2 DEF StepsLeft
  <2> QED BY <2>5, <2>6, <2>8, <2>9
<1>4. CASE TellingRound
  <2> DEFINE taken == {p \in Connected \ loop.done :
                        ~PassedOver(p, loop.bandwidth \div Cardinality(Connected \ loop.done))}
  <2>1. PICK equal, again, done, b :
          /\ loop' = Telling(loop, equal, again, done, b)
          /\ again = (taken # {}) /\ done = loop.done \cup taken
    BY <1>4, Zenon DEF TellingRound, Telling
  <2>2. taken \subseteq Connected \ loop.done
    OBVIOUS
  <2>3. loop.pc = "telling" /\ loop.again /\ links' = links
    BY <1>4 DEF TellingRound
  <2> HIDE DEF taken
  <2>4. PICK m : m = loop'
    BY Zenon
  <2>5. m.pc = "telling" /\ m.again = again /\ m.done = done
    BY <1>1, <2>1, <2>3, <2>4, ToldRecord
  <2>6. Connected' = Connected
    BY <2>3 DEF Connected
  <2>7. /\ loop.again = TRUE /\ loop'.again = (taken # {}) /\ loop'.done = loop.done \cup taken
        /\ loop'.pc = "telling"
    BY <1>1, <2>1, <2>3, <2>4, <2>5, Zenon
  <2>8. PICK T : T = Connected
    BY Zenon
  <2>9. PeersLeft' \in Nat /\ PeersLeft \in Nat /\ PeersLeft' < PeersLeft
    BY <1>1, <2>2, <2>6, <2>7, <2>8, RoundTakes
  <2>10. StepsLeft = PeersLeft + 1 /\ StepsLeft' = PeersLeft' + 1
    BY <2>3, <2>7 DEF StepsLeft
  <2> QED BY <2>9, <2>10, OneFewer
<1>5. CASE TellingEnds
  <2>1. loop'.pc = "over" /\ loop.pc = "telling"
    BY <1>1, <1>5 DEF TellingEnds, LoopRecord
  <2>2. PICK k : k = Cardinality(Connected \ loop.done)
    BY Zenon
  <2>3. k \in Nat
    BY <1>1, <2>2, RoundShrinks
  <2> QED BY <2>1, <2>2, <2>3 DEF StepsLeft, PeersLeft
<1>6. ThrottleReturns => loop'.pc = "idle"
  BY DEF ThrottleReturns, Idle
<1> QED BY <1>2, <1>3, <1>4, <1>5, <1>6
        DEF BandwidthNext, ThrottleSteps, ThrottleCalled, ThrottleBegins, SetBandwidth,
            PeerConnects, HandleBandwidthLimit, PeerDisconnects

\* A call of enet_host_bandwidth_throttle takes no more than two rounds for each peer
\* of the host and four steps besides, whatever the peers have said they can take:
\* in both loops a round that goes on has taken at least one peer, also in the
\* second, whose test is inverted.
THEOREM CallsAreShort == BandwidthSpec => []CallIsShort /\ CallEnds
<1>1. BandwidthTypeOK => CallIsShort
  <2> SUFFICES ASSUME BandwidthTypeOK PROVE StepsLeft \in 0 .. 2 * Cardinality(Peers) + 4
    BY DEF CallIsShort
  <2>1. /\ IsFiniteSet(Peers) /\ Connected \subseteq Peers /\ loop.done \subseteq Connected
        /\ loop.again \in BOOLEAN
    BY BandwidthAssumption DEF BandwidthTypeOK
  <2>2. PICK n, c, k : /\ n = Cardinality(Peers) /\ c = Cardinality(Connected)
                       /\ k = Cardinality(Connected \ loop.done)
    BY Zenon
  <2>3. IsFiniteSet(Connected) /\ c <= n /\ n \in Nat
    BY <2>1, <2>2, FS_Subset, FS_CardinalityType
  <2>4. c \in Nat /\ k \in Nat /\ k <= c
    BY <2>1, <2>2, <2>3, RoundShrinks
  <2>5. PeersLeft = k + (IF loop.again THEN 1 ELSE 0)
    BY <2>2 DEF PeersLeft
  <2>6. StepsLeft = IF loop.pc = "sharing" THEN c + 3 + PeersLeft
                    ELSE IF loop.pc = "telling" THEN PeersLeft + 1 ELSE 0
    BY <2>2 DEF StepsLeft
  <2>7. StepsLeft \in 0 .. 2 * n + 4
    BY <2>3, <2>4, <2>5, <2>6
  <2> QED BY <2>2, <2>7
<1>2. BandwidthInv /\ BandwidthTypeOK /\ [BandwidthNext]_bandwidthVars =>
        [loop.pc # "idle" => loop'.pc = "idle" \/ StepsLeft' < StepsLeft]_bandwidthVars
  BY StepShortens
<1>3. BandwidthSpec => BandwidthSafety
  BY PTL DEF BandwidthSpec, BandwidthSafety
<1>4. BandwidthSafety => CallEnds
  BY <1>2, BandwidthSafe, BandwidthTyped, PTL DEF BandwidthSafety, CallEnds
<1> QED BY <1>1, <1>3, <1>4, BandwidthTyped, PTL
==============================================================================
