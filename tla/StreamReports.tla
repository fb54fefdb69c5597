--------------------------- MODULE StreamReports ----------------------------
(***************************************************************************)
(* What is computed from the numbers and times of a received stream: how   *)
(* much of it was lost (LossEstimator of Metrics.cpp), when a frame is to  *)
(* be presented (AVSync.cpp, over the clocks of Clock.h), and how long     *)
(* things took (LatencyHistogram of Metrics.cpp).  All are functions of    *)
(* what they were fed.  No program of the repository calls the first two   *)
(* yet; the histogram is that of the benchmarks.                           *)
(*                                                                         *)
(* The sizes of the number spaces and the units of time are parameters, so *)
(* that small instances wrap as the large ones do.                         *)
(***************************************************************************)
EXTENDS Integers, FiniteSets, Sequences, SequencesExt, FiniteSetsExt, Functions

CONSTANTS
    NumberMod,          \* 2^16: sequence numbers
    StampMod,           \* 2^32: RTP timestamps
    Second,             \* 10^9: nanoseconds
    FractionMod,        \* 2^32: the fractions of a second of an NTP timestamp
    bucketUs, maxUs     \* the histogram's buckets and its range

ASSUME StreamReportsAssumption ==
    /\ {NumberMod, StampMod, Second, FractionMod} \subseteq Nat \ {0}
    /\ NumberMod % 2 = 0 /\ StampMod % 2 = 0
    /\ Second <= FractionMod
    /\ 0 < bucketUs /\ bucketUs <= maxUs

-----------------------------------------------------------------------------
(* LossEstimator *)

NoPackets == [init |-> FALSE, baseSeq |-> 0, maxSeq |-> 0, cycles |-> 0, received |-> 0]

Ahead(e, seq) ==
    LET delta == (seq - e.maxSeq) % NumberMod
    IN  delta # 0 /\ delta < NumberMod \div 2

Crossed_late(e, seq) == seq < e.maxSeq       \* slip: what is late wraps, too
Crossed(e, seq) == Ahead(e, seq) /\ seq < e.maxSeq

observe(e, seq) ==
    IF ~e.init
    THEN [init |-> TRUE, baseSeq |-> seq, maxSeq |-> seq, cycles |-> 0, received |-> 1]
    ELSE [e EXCEPT !.received = @ + 1,
                   !.cycles = IF Crossed(e, seq) THEN @ + 1 ELSE @,
                   !.maxSeq = IF Ahead(e, seq) THEN seq ELSE @]

expected(e) == IF e.init THEN e.cycles * NumberMod + e.maxSeq - e.baseSeq + 1 ELSE 0
lost(e) == Max({0, expected(e) - e.received})

-----------------------------------------------------------------------------
(* AVSync and MediaClock.  Times are numbers of nanoseconds, and none is    *)
(* beyond the era of NTP.                                                   *)

toRtp(t, epoch, rate) == (((t - epoch) * rate) \div Second) % StampMod

toNtp(wall) == [seconds |-> wall \div Second,
                fraction |-> ((wall % Second) * FractionMod) \div Second]

ntpToSystem(ntp) == ntp.seconds * Second + (ntp.fraction * Second) \div FractionMod

\* The difference as a signed number of the width of a timestamp.
deltaTicks(ts, anchor) ==
    LET d == (ts - anchor) % StampMod
    IN  IF d < StampMod \div 2 THEN d ELSE d - StampMod

\* Division of C++, toward zero.
Quotient(n, d) == IF n >= 0 THEN n \div d ELSE -((-n) \div d)

\* The anchor a sender report leaves.
onSenderReport(ts, ntp, rate) ==
    [rtpTimestamp |-> ts, wall |-> ntpToSystem(ntp), clockRateHz |-> rate]

playoutTime(a, ts) ==
    a.wall + Quotient(deltaTicks(ts, a.rtpTimestamp) * Second, a.clockRateHz)

-----------------------------------------------------------------------------
(* LatencyHistogram *)

Overflow == maxUs \div bucketUs
NoSamples == [buckets |-> [i \in 0 .. Overflow |-> 0], count |-> 0]

record(h, us) ==
    [h EXCEPT !.buckets[Min({us \div bucketUs, Overflow})] = @ + 1, !.count = @ + 1]

UpTo(h, i) == SumFunctionOnSet(h.buckets, 0 .. i)

\* Twice the percentile of p quarters; the midpoint of a bucket may be a half.
Reaches(h, i, target) == UpTo(h, i) >= target /\ h.buckets[i] > 0

percentile(h, p) ==
    LET target == (p * h.count) \div 4
        i == Min({j \in 0 .. Overflow : Reaches(h, j, target)})
    IN  IF h.count = 0 THEN 0
        ELSE IF i = Overflow THEN 2 * maxUs
        ELSE (2 * i + 1) * bucketUs

-----------------------------------------------------------------------------
(* What they must say, for every input of a bounded size. *)

\* Packets arrive in turn, s[i] being the place of the i-th in the stream.
Farthest(s, i) == Max({s[j] : j \in 1 .. i})

\* None is half the number space away from the farthest so far.
Comparably(s) == \A i \in 1 .. Len(s) - 1 :
    LET d == s[i + 1] - Farthest(s, i)
    IN  -(NumberMod \div 2) <= d /\ d < NumberMod \div 2

\* The estimator when they have arrived.
Estimated(s) ==
    LET e[n \in 0 .. Len(s)] ==
            IF n = 0 THEN NoPackets ELSE observe(e[n - 1], s[n] % NumberMod)
    IN  e[Len(s)]

\* What never came is all counted, unless a repeated packet or one from before
\* the first makes up for it; what came is never called lost.
LossesCounted(s) ==
    LET e == Estimated(s)
        absent == (s[1] .. Farthest(s, Len(s))) \ Range(s)
    IN  /\ expected(e) = Farthest(s, Len(s)) - s[1] + 1
        /\ lost(e) <= Cardinality(absent)
        /\ IsInjective(s) /\ (\A i \in 1 .. Len(s) : s[1] <= s[i]) =>
              lost(e) = Cardinality(absent)

\* "Highest extended seq - base + 1" packets should have arrived
\* (Metrics.h:57), over any number of wraps and whatever is late.
EveryLossIsCounted == \A s \in [1 .. 5 -> 1 .. 12] :
    s[1] = 4 /\ Comparably(s) => LossesCounted(s)

\* "Release the audio sample and the video frame that share a wall instant
\* together" (AVSync.h:15): each stream, whatever its clock and whenever it
\* began and reported, is presented at the instant of its capture, up to one
\* tick of its clock and the rounding of the rest, as long as the report is
\* not half a wrap away.
Rates == {3, 4}
Presented(t, r, epoch, rate) ==
    playoutTime(onSenderReport(toRtp(r, epoch, rate), toNtp(r), rate), toRtp(t, epoch, rate))
Comparable(t, r, rate) ==
    LET ticks == ((t - r) * rate) \div Second
    IN  -(StampMod \div 2) < ticks /\ ticks < StampMod \div 2 - 1
InstantKept(t, r, epoch, rate) ==
    LET off == Presented(t, r, epoch, rate) - t
    IN  -(Second \div rate) - 2 <= off /\ off <= Second \div rate + 2
EveryInstantIsKept == \A epoch \in {0, 5} : \A t, r \in 5 .. 90 : \A rate \in Rates :
    Comparable(t, r, rate) => InstantKept(t, r, epoch, rate)

\* The percentile is that of a sample: it lies in the bucket of the one that
\* has the rank asked for, or at the range's end if that one is beyond it.
Samples == UNION {[1 .. n -> {0, 1, 3, 4, 7, 20}] : n \in 1 .. 4}
EveryPercentileIsOfASample == \A s \in Samples : \A p \in 0 .. 4 :
    LET sorted == SortSeq(s, <)
        us == sorted[Max({1, (p * Len(s)) \div 4})]
        result == percentile(FoldLeft(record, NoSamples, s), p)
    IN  IF us \div bucketUs >= Overflow THEN result = 2 * maxUs
        ELSE result \div (2 * bucketUs) = us \div bucketUs
=============================================================================
