----------------------------- MODULE RtpFormat ------------------------------
(***************************************************************************)
(* RTP packets as bytes (RtpPacket.h) and H.264 access units as the        *)
(* payloads of packets (RTPHandler.cpp).  A byte is a number below 256; a  *)
(* 32-bit field is the pair of its halves.  data[i] of the code is d[i+1]. *)
(***************************************************************************)
EXTENDS Integers, FiniteSets, Sequences, SequencesExt, FiniteSetsExt

CONSTANT maxPayload     \* the bytes of a packet's payload (1200 in the code)

ASSUME RtpFormatAssumption == maxPayload \in Nat \ {0}

Failed == [failed |-> TRUE]
U16(n) == n % 65536                         \* kept in 16 bits
Flag(condition, bit) == IF condition THEN bit ELSE 0
Has(byte, bit) == (byte \div bit) % 2 = 1
Bytes(d, from, to) == SubSeq(d, from + 1, to)       \* data[from .. to - 1]
Joined(parts) ==
    LET joined[n \in 0 .. Len(parts)] == IF n = 0 THEN <<>> ELSE joined[n - 1] \o parts[n]
    IN  joined[Len(parts)]

-----------------------------------------------------------------------------
(* RtpPacket *)

putU16(v) == <<v \div 256, v % 256>>
putU32(v) == putU16(v[1]) \o putU16(v[2])
getU16(d, at) == 256 * d[at + 1] + d[at + 2]
getU32(d, at) == <<getU16(d, at), getU16(d, at + 2)>>

serialize(p) ==
    LET cc == Min({15, Len(p.csrcs)})
    IN  <<64 * p.version + Flag(p.padding, 32) + Flag(p.extension, 16) + cc,
          (p.payloadType % 128) + Flag(p.marker, 128)>>
        \o putU16(p.sequenceNumber) \o putU32(p.timestamp) \o putU32(p.ssrc)
        \o Joined([i \in 1 .. cc |-> putU32(p.csrcs[i])])
        \o p.payload

\* A datagram that ends before a part its header announces is refused.
parse(d) ==
    LET len == Len(d)
        cc == d[1] % 16
        fixed == 12 + 4 * cc
        extension == Has(d[1], 16)
        body == IF extension THEN fixed + 4 + 4 * getU16(d, fixed + 2) ELSE fixed
        padding == Has(d[1], 32)
        pad == IF padding THEN d[len] ELSE 0
    IN  IF \/ len < 12
           \/ d[1] \div 64 # 2
           \/ len < fixed
           \/ extension /\ (len < fixed + 4 \/ len < body)
           \/ padding /\ (len <= body \/ pad = 0 \/ pad > len - body)
        THEN Failed
        ELSE [version |-> 2, padding |-> padding, extension |-> extension,
              marker |-> Has(d[2], 128), payloadType |-> d[2] % 128,
              sequenceNumber |-> getU16(d, 2), timestamp |-> getU32(d, 4),
              ssrc |-> getU32(d, 8),
              csrcs |-> [i \in 1 .. cc |-> getU32(d, 8 + 4 * i)],
              payload |-> Bytes(d, body, len - pad)]

-----------------------------------------------------------------------------
(* RTPHandler: from an access unit to packets. *)

\* findNalUnits: a start code is 0 0 1; a zero right before it belongs to the
\* code, if the previous unit has begun by then.  Empty units are left out.
findNalUnits(d) ==
    LET codes == {i \in 1 .. Len(d) - 2 : d[i] = 0 /\ d[i + 1] = 0 /\ d[i + 2] = 1}
        codeBegin(i) ==
            IF i > 1 /\ d[i - 1] = 0 /\ \E j \in codes : j + 3 <= i - 1
            THEN i - 1 ELSE i
        after(i) == {j \in codes : j > i}
        end(i) == IF after(i) = {} THEN Len(d) + 1 ELSE codeBegin(Min(after(i)))
        begun == {i \in codes : i + 3 < end(i)}
        kth(k) == CHOOSE i \in begun : Cardinality({j \in begun : j <= i}) = k
    IN  [k \in 1 .. Cardinality(begun) |-> SubSeq(d, kth(k) + 3, end(kth(k)) - 1)]

NalType(byte) == byte % 32
FuA == 28

fragments_overlapping(nal) ==                \* slip: the header is sent again
    LET chunk == IF maxPayload > 2 THEN maxPayload - 2 ELSE 1
        n == (Len(nal) + chunk - 1) \div chunk
    IN  [k \in 1 .. n |->
            <<nal[1] - NalType(nal[1]) + FuA,
              NalType(nal[1]) + Flag(k = 1, 128) + Flag(k = n, 64)>>
            \o Bytes(nal, (k - 1) * chunk, Min({Len(nal), k * chunk}))]

\* The FU-A payloads of a NAL unit that does not fit.
fragments(nal) ==
    LET chunk == IF maxPayload > 2 THEN maxPayload - 2 ELSE 1
        n == (Len(nal) + chunk - 2) \div chunk
    IN  [k \in 1 .. n |->
            <<nal[1] - NalType(nal[1]) + FuA,
              NalType(nal[1]) + Flag(k = 1, 128) + Flag(k = n, 64)>>
            \o Bytes(nal, 1 + (k - 1) * chunk, Min({Len(nal), 1 + k * chunk}))]

\* The packets of the payloads, numbered from seq; the marker is on the last.
Packets(payloads, payloadType, ssrc, seq, timestamp) ==
    [i \in DOMAIN payloads |->
        [version |-> 2, padding |-> FALSE, extension |-> FALSE, csrcs |-> <<>>,
         marker |-> i = Len(payloads), payloadType |-> payloadType,
         sequenceNumber |-> U16(seq + i - 1), timestamp |-> timestamp,
         ssrc |-> ssrc, payload |-> payloads[i]]]

Split(nals) == [k \in DOMAIN nals |->
    IF Len(nals[k]) <= maxPayload THEN <<nals[k]>> ELSE fragments(nals[k])]

packetizeH264(d, ssrc, seq, timestamp) ==
    Packets(Joined(Split(findNalUnits(d))), 96, ssrc, seq, timestamp)

packetizeOpus(d, ssrc, seq, timestamp) == Packets(<<d>>, 111, ssrc, seq, timestamp)

-----------------------------------------------------------------------------
(* RTPHandler: from packets back to an access unit. *)

StartCode == <<0, 0, 0, 1>>

\* One turn of the loop: out is what is written so far, fu the NAL unit that
\* is being put together (inFu) or <<>>.
Reassembled(unit, payload) ==
    LET header == payload[1] - NalType(payload[1]) + NalType(payload[2])
        start == Has(payload[2], 128)
        nal == (IF start THEN <<header>> ELSE unit.fu) \o Tail(Tail(payload))
        error == [unit EXCEPT !.ok = FALSE]
    IN  IF ~unit.ok \/ payload = <<>> THEN error
        ELSE IF NalType(payload[1]) # FuA
        THEN IF unit.fu # <<>> THEN error
             ELSE [unit EXCEPT !.out = @ \o StartCode \o payload,
                               !.key = @ \/ NalType(payload[1]) \in {5, 7, 8}]
        ELSE IF Len(payload) < 2 \/ (start <=> unit.fu # <<>>) THEN error
        ELSE IF Has(payload[2], 64)
        THEN [unit EXCEPT !.out = @ \o StartCode \o nal, !.fu = <<>>,
                          !.key = @ \/ NalType(nal[1]) \in {5, 7, 8}]
        ELSE [unit EXCEPT !.fu = nal]

depacketize(packets) ==
    LET turn[n \in 0 .. Len(packets)] ==
            IF n = 0 THEN [out |-> <<>>, fu |-> <<>>, key |-> FALSE, ok |-> TRUE]
            ELSE Reassembled(turn[n - 1], packets[n].payload)
        unit == turn[Len(packets)]
    IN  IF packets = <<>> \/ ~unit.ok \/ unit.fu # <<>> THEN Failed
        ELSE [keyframe |-> unit.key, timestamp |-> packets[1].timestamp,
              payload |-> unit.out]
=============================================================================
