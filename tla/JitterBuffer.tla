---------------------------- MODULE JitterBuffer ----------------------------
(***************************************************************************)
(* The receiver's jitter buffer (JitterBuffer.cpp) for one stream.         *)
(*                                                                         *)
(* A stream is what the sender packetizes: a sequence of access units,     *)
(* each the sequence of the kinds of its RTP packets as RTPHandler makes   *)
(* them.  A unit of video has "nal" for a NAL unit in a packet of its own  *)
(* and "start", "middle", "end" for the fragments (FU-A) of a large one; a *)
(* unit of audio is one "opus".  Sequence numbers and timestamps are those *)
(* of the wire, modulo SeqSize and TsSize (2^16 and 2^32 in the code), and   *)
(* the stream may start anywhere, so it may wrap.                          *)
(*                                                                         *)
(* The network may lose, repeat, delay and reorder packets at will: any    *)
(* packet of the stream may be pushed at any time, any number of times, or *)
(* never.  Of the clock only matters how long each frame has been waiting, *)
(* up to targetDelay.  The statistics are left out.                        *)
(***************************************************************************)
EXTENDS Integers, FiniteSets, Sequences

CONSTANTS
    Streams,            \* the streams that may be sent
    SeqSize, TsSize,    \* the sizes of the two number spaces
    FirstSeq,           \* sequence number of the first packet
    FirstTs,            \* timestamp of the first access unit
    targetDelay         \* in ticks of the playout thread

\* The number of packets before access unit k of s.
Before(s, k) == Cardinality(UNION {{j} \X DOMAIN s[j] : j \in 1 .. k - 1})

IsAudio(s) == \A k \in DOMAIN s : s[k] = <<"opus">>
IsVideo(s) == \A k \in DOMAIN s : \A i \in DOMAIN s[k] : s[k][i] # "opus"

\* What has not been played spans less than half of each number space, the
\* window in which serial numbers can be compared.
ASSUME JitterBufferAssumption ==
    /\ SeqSize \in Nat \ {0} /\ TsSize \in Nat \ {0}
    /\ \A s \in Streams :
          /\ s \in Seq(Seq(STRING))
          /\ IsAudio(s) \/ IsVideo(s)
          /\ \A k \in 1 .. Len(s) : 0 < Len(s[k]) /\ 2 * Len(s[k]) < SeqSize
          /\ 2 * Len(s) < TsSize
          /\ Before(s, Len(s) + 1) <= SeqSize
    /\ FirstSeq \in 0 .. SeqSize - 1
    /\ FirstTs \in 0 .. TsSize - 1
    /\ targetDelay \in Nat

VARIABLES
    stream,         \* the one of Streams that is sent
    frames,         \* frames_: a function on the timestamps that are buffered
    hasEmitted,     \* hasEmitted_
    lastEmittedTs,  \* lastEmittedTs_
    popped          \* the packets of the frame the last pop returned, or <<>>

vars == <<stream, frames, hasEmitted, lastEmittedTs, popped>>

-----------------------------------------------------------------------------
(* The stream on the wire. *)

Ts(k) == (FirstTs + k - 1) % TsSize
Number(s, k, i) == (FirstSeq + Before(s, k) + i - 1) % SeqSize

\* packetizeH264 and packetizeOpus: the marker is set on the last packet.
Packet(s, k, i) == [timestamp |-> Ts(k), sequenceNumber |-> Number(s, k, i),
                    marker |-> i = Len(s[k]), kind |-> s[k][i]]

Packets(s, k) == {Packet(s, k, i) : i \in 1 .. Len(s[k])}
Sent(s) == UNION {Packets(s, k) : k \in 1 .. Len(s)}

-----------------------------------------------------------------------------
(* Serial numbers: RtpPacket.h and JitterBuffer.h. *)

seqLessThan(a, b) == a # b /\ (b - a) % SeqSize < SeqSize \div 2
seqDistance(a, b) == (b - a) % SeqSize
tsLessThan(a, b)  == a # b /\ (b - a) % TsSize < TsSize \div 2

Seqs(f) == {p.sequenceNumber : p \in f.packets}

-----------------------------------------------------------------------------
(* push *)

\* slip: a frame that has been played is not late for itself
TooLate_strict(p) == hasEmitted /\ tsLessThan(p.timestamp, lastEmittedTs)

TooLate(p) ==
    /\ hasEmitted
    /\ p.timestamp = lastEmittedTs \/ tsLessThan(p.timestamp, lastEmittedTs)

NewFrame(p) == [packets |-> {p}, minSeq |-> p.sequenceNumber,
                maxSeq |-> p.sequenceNumber, hasMarker |-> p.marker, waited |-> 0]

WithPacket(f, p) ==
    LET seq == p.sequenceNumber
    IN  [f EXCEPT !.packets = @ \cup {p},
                  !.minSeq = IF seqLessThan(seq, @) THEN seq ELSE @,
                  !.maxSeq = IF seqLessThan(@, seq) THEN seq ELSE @,
                  !.hasMarker = @ \/ p.marker]

\* A packet that is late or a duplicate is dropped.
push(p) ==
    /\ ~TooLate(p)
    /\ IF p.timestamp \in DOMAIN frames
       THEN /\ p.sequenceNumber \notin Seqs(frames[p.timestamp])
            /\ frames' = [frames EXCEPT ![p.timestamp] = WithPacket(@, p)]
       ELSE frames' = [t \in DOMAIN frames \cup {p.timestamp} |->
                         IF t = p.timestamp THEN NewFrame(p) ELSE frames[t]]
    /\ UNCHANGED <<stream, hasEmitted, lastEmittedTs, popped>>

-----------------------------------------------------------------------------
(* pop *)

isComplete_marker(f) == f.hasMarker          \* slip: the marker is enough

\* Of audio any packet is a frame; of video, a run of packets with the marker.
isComplete(f) ==
    \/ IsAudio(stream)
    \/ /\ f.hasMarker
       /\ seqDistance(f.minSeq, f.maxSeq) + 1 = Cardinality(f.packets)

\* The packets of f that a walk from minSeq to maxSeq finds, in its order.
Ordered(f) ==
    LET step(p) == seqDistance(f.minSeq, p.sequenceNumber)
        found == {p \in f.packets : step(p) <= seqDistance(f.minSeq, f.maxSeq)}
        earlier(p) == {q \in found : step(q) < step(p)}
    IN  [n \in 1 .. Cardinality(found) |->
            CHOOSE p \in found : Cardinality(earlier(p)) = n - 1]

\* RTPHandler::depacketize accepts the packets: no fragment comes without the
\* one before it, and none is left unterminated.  Opus is always accepted.
Depacketizes(packets) ==
    LET kind(i) == packets[i].kind
        inFu(i) == i > 0 /\ kind(i) \in {"start", "middle"}
    IN  /\ \A i \in DOMAIN packets :
              inFu(i - 1) <=> kind(i) \in {"middle", "end"}
        /\ ~inFu(Len(packets))

Elapsed(f) == f.waited >= targetDelay
Playable(f) == isComplete(f) /\ Depacketizes(Ordered(f))

Earliest(times) == CHOOSE t \in times : \A u \in times \ {t} : tsLessThan(t, u)
Latest(times) == CHOOSE t \in times : \A u \in times \ {t} : tsLessThan(u, t)

Dropped_none == {}                           \* slip: waits for what is lost

\* The frames the loop of pop drops before it stops: those at the front that
\* have waited long enough and still cannot be played.
Dropped ==
    {t \in DOMAIN frames :
        \A u \in DOMAIN frames : u = t \/ tsLessThan(u, t) =>
            Elapsed(frames[u]) /\ ~Playable(frames[u])}

Without(times) == [t \in DOMAIN frames \ times |-> frames[t]]

\* The frame that is returned once they are gone, if one is due and playable.
Returned(left) ==
    {t \in left : t = Earliest(left) /\ Elapsed(frames[t]) /\ Playable(frames[t])}

pop ==
    \E dropped \in {Dropped} : \E returned \in {Returned(DOMAIN frames \ dropped)} :
        /\ popped' = IF returned = {} THEN <<>> ELSE Ordered(frames[Earliest(returned)])
        /\ frames' = Without(dropped \cup returned)
        /\ IF dropped \cup returned = {}
           THEN UNCHANGED <<hasEmitted, lastEmittedTs>>
           ELSE /\ hasEmitted' = TRUE
                /\ lastEmittedTs' = Latest(dropped \cup returned)
        /\ UNCHANGED stream

-----------------------------------------------------------------------------
(* gaps: for each buffered frame, the runs of numbers from minSeq to maxSeq *)
(* that are absent, each as the set of its numbers.                         *)

Missing_plain(f) ==                          \* slip: no wrap
    {s \in 0 .. SeqSize - 1 : f.minSeq < s /\ s < f.maxSeq} \ Seqs(f)

Missing(f) ==
    {s \in 0 .. SeqSize - 1 :
        seqDistance(f.minSeq, s) < seqDistance(f.minSeq, f.maxSeq)} \ Seqs(f)

Run(first, last) ==
    {s \in 0 .. SeqSize - 1 : seqDistance(first, s) <= seqDistance(first, last)}

GapsOf(f) ==
    {Run(gap[1], gap[2]) : gap \in
        {g \in Missing(f) \X Missing(f) :
            /\ Run(g[1], g[2]) \subseteq Missing(f)
            /\ (g[1] - 1) % SeqSize \notin Missing(f)
            /\ (g[2] + 1) % SeqSize \notin Missing(f)}}

gaps == UNION {GapsOf(frames[t]) : t \in DOMAIN frames}

-----------------------------------------------------------------------------
\* Time passes for every frame that is waiting.
Tick ==
    /\ \E t \in DOMAIN frames : ~Elapsed(frames[t])
    /\ frames' = [t \in DOMAIN frames |->
                    IF Elapsed(frames[t]) THEN frames[t]
                    ELSE [frames[t] EXCEPT !.waited = @ + 1]]
    /\ UNCHANGED <<stream, hasEmitted, lastEmittedTs, popped>>

Init ==
    /\ stream \in Streams
    /\ frames = << >>
    /\ hasEmitted = FALSE
    /\ lastEmittedTs = 0
    /\ popped = <<>>

Next == pop \/ Tick \/ \E p \in Sent(stream) : push(p)

\* The playout thread calls pop over and over, and time passes.
Spec == Init /\ [][Next]_vars /\ WF_vars(pop) /\ WF_vars(Tick)

-----------------------------------------------------------------------------
(* Properties. *)

\* The sending positions of the packets of access unit k among ps.
Positions(s, k, ps) == {i \in 1 .. Len(s[k]) : Packet(s, k, i) \in ps}

Lowest(S) == CHOOSE x \in S : \A y \in S : x <= y
Highest(S) == CHOOSE x \in S : \A y \in S : x >= y

\* A buffered frame holds packets of the one access unit of its timestamp, and
\* its bounds are the first and the last of them in sending order, also when
\* they came in another order or across the wrap.
TypeOK ==
    /\ DOMAIN frames \subseteq {Ts(k) : k \in 1 .. Len(stream)}
    /\ \A k \in 1 .. Len(stream) : Ts(k) \in DOMAIN frames =>
          LET f == frames[Ts(k)]
              held == Positions(stream, k, f.packets)
          IN  /\ f.packets # {} /\ f.packets \subseteq Packets(stream, k)
              /\ f.minSeq = Number(stream, k, Lowest(held))
              /\ f.maxSeq = Number(stream, k, Highest(held))
              /\ f.hasMarker = (Len(stream[k]) \in held)
              /\ f.waited \in 0 .. targetDelay
    /\ hasEmitted \in BOOLEAN
    /\ lastEmittedTs \in 0 .. TsSize - 1

\* Nothing that is buffered is older than what has been played or given up: a
\* straggler never brings a played frame back.
NothingLateBuffered ==
    hasEmitted => \A t \in DOMAIN frames : tsLessThan(lastEmittedTs, t)

\* "Frames are returned strictly in timestamp order" (JitterBuffer.h:77), so
\* none is returned twice, whatever the network repeats or delays and wherever
\* the timestamps wrap: playout moves on through the numbers of the frames.
Index(s, t) == CHOOSE k \in 1 .. Len(s) : Ts(k) = t
Indices == UNION {1 .. Len(s) : s \in Streams}

Playout == [held |-> {Index(stream, t) : t \in DOMAIN frames},
            last |-> IF hasEmitted THEN Index(stream, lastEmittedTs) ELSE 0]
HandedOn == IF popped = <<>> THEN 0 ELSE Index(stream, popped[1].timestamp)

Promise == INSTANCE FrameStream WITH
    Frame <- Indices, queue <- Playout, out <- HandedOn

ImplementsFrameStream == Promise!Spec

\* A frame that is returned is one run of packets as they were sent, in that
\* order, to the end of its access unit.
EmittedIsContiguous ==
    popped # <<>> =>
        \E k \in 1 .. Len(stream) : \E first \in 1 .. Len(stream[k]) :
            popped = [i \in 1 .. Len(stream[k]) - first + 1 |->
                        Packet(stream, k, first + i - 1)]

\* The buffer's account of its frames is right: bounds and markers under wrapping
\* numbers, nothing that is late, and what comes out is a run as it was sent
\* (JitterBuffer.cpp:52).
BufferInv == TypeOK /\ NothingLateBuffered /\ EmittedIsContiguous

\* gaps() names every packet that is missing between two that are buffered for
\* the same access unit, each in one gap, and nothing that was never sent.
GapsAreLosses ==
    /\ UNION gaps = UNION {
          LET held == Positions(stream, k, frames[Ts(k)].packets)
          IN  {Number(stream, k, i) : i \in Lowest(held) .. Highest(held)}
                \ {Number(stream, k, i) : i \in held}
          : k \in {j \in 1 .. Len(stream) : Ts(j) \in DOMAIN frames}}
    /\ \A g, h \in gaps : g = h \/ g \cap h = {}

\* Whatever is lost, no frame stays in the buffer for good, holding up those
\* behind it.
FramesLeave ==
    \A k \in Indices :
        Ts(k) \in DOMAIN frames ~> Ts(k) \notin DOMAIN frames

\* "We cannot decode a partial access unit, so drop it" (JitterBuffer.cpp:80):
\* what is returned is an access unit with all its packets.
EmittedIsWhole ==
    popped # <<>> =>
        \E k \in 1 .. Len(stream) : {popped[i] : i \in DOMAIN popped} = Packets(stream, k)
=============================================================================
