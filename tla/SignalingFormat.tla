--------------------------- MODULE SignalingFormat ---------------------------
(***************************************************************************)
(* What goes over the signaling link of a call: the key and the answer of  *)
(* the WebSocket handshake, the frames, and the description of an agent    *)
(* with its fingerprint (SignalingClient.cpp, DtlsSrtp.cpp), and what the  *)
(* environment and the arguments say about servers (NATTraversal.cpp,       *)
(* group_call.cpp).                                                        *)
(*                                                                         *)
(* All are functions of what they are given.  A byte is a number below     *)
(* 256, a word of SHA-1 the set of its bits that are 1, and a text the     *)
(* sequence of its characters.                                             *)
(***************************************************************************)
EXTENDS Integers, FiniteSets, Sequences, SequencesExt, FiniteSetsExt

Bytes == 0 .. 255
Concat(parts) == FoldLeft(LAMBDA s, part : s \o part, <<>>, parts)

\* n shifted right by 8 * i bits.
Shifted(n, i) == FoldLeft(LAMBDA x, j : x \div 256, n, [j \in 1 .. i |-> j])

-----------------------------------------------------------------------------
(* Sha1 *)

Bits(n, width) == {i \in 0 .. width - 1 : (n \div 2^i) % 2 = 1}
FromBits(bits) == FoldSet(LAMBDA i, n : n + 2^i, 0, bits)

Word(b) == UNION {{i + 8 * (4 - k) : i \in Bits(b[k], 8)} : k \in 1 .. 4}
WordBytes(w) == [k \in 1 .. 4 |->
                    FromBits({i \in 0 .. 7 : i + 8 * (4 - k) \in w})]

Xor(v, w) == (v \ w) \cup (w \ v)
Not(w) == (0 .. 31) \ w
rol(w, b) == {(i + b) % 32 : i \in w}

\* The sum modulo 2^32.
Plus(v, w) ==
    LET carry[i \in 0 .. 32] ==
            IF i = 0 THEN FALSE
            ELSE \/ i - 1 \in v \cap w
                 \/ i - 1 \in v \cup w /\ carry[i - 1]
        one(b) == IF b THEN 1 ELSE 0
    IN  {i \in 0 .. 31 : (one(i \in v) + one(i \in w) + one(carry[i])) % 2 = 1}

reset == [h |-> << Word(<<\h67, \h45, \h23, \h01>>), Word(<<\hEF, \hCD, \hAB, \h89>>),
                   Word(<<\h98, \hBA, \hDC, \hFE>>), Word(<<\h10, \h32, \h54, \h76>>),
                   Word(<<\hC3, \hD2, \hE1, \hF0>>) >>,
          buffer |-> <<>>, totalLen |-> 0]

Schedule(block) ==
    FoldLeft(LAMBDA w, i : Append(w, rol(Xor(Xor(w[i - 3], w[i - 8]),
                                             Xor(w[i - 14], w[i - 16])), 1)),
             [i \in 1 .. 16 |-> Word(SubSeq(block, 4 * i - 3, 4 * i))],
             [i \in 1 .. 64 |-> i + 16])

Choice(i, b, c, d) ==
    IF i < 20 THEN (b \cap c) \cup (Not(b) \cap d)
    ELSE IF i \in 40 .. 59 THEN (b \cap c) \cup (b \cap d) \cup (c \cap d)
    ELSE Xor(Xor(b, c), d)
Constant(i) ==
    IF i < 20 THEN Word(<<\h5A, \h82, \h79, \h99>>)
    ELSE IF i < 40 THEN Word(<<\h6E, \hD9, \hEB, \hA1>>)
    ELSE IF i < 60 THEN Word(<<\h8F, \h1B, \hBC, \hDC>>)
    ELSE Word(<<\hCA, \h62, \hC1, \hD6>>)

Round(r, w) ==
    [i |-> r.i + 1, e |-> r.d, d |-> r.c, c |-> rol(r.b, 30), b |-> r.a,
     a |-> Plus(Plus(Plus(rol(r.a, 5), Choice(r.i, r.b, r.c, r.d)),
                     Plus(r.e, Constant(r.i))), w)]

processBlock(h, block) ==
    LET start == [i |-> 0, a |-> h[1], b |-> h[2], c |-> h[3], d |-> h[4], e |-> h[5]]
        r == FoldLeft(Round, start, Schedule(block))
        mixed == <<r.a, r.b, r.c, r.d, r.e>>
    IN  [k \in 1 .. 5 |-> Plus(h[k], mixed[k])]

\* A block is processed as soon as it is full.
update(sha, data) ==
    LET all == sha.buffer \o data
        full == Len(all) \div 64
    IN  [h |-> FoldLeft(LAMBDA h, k : processBlock(h, SubSeq(all, 64 * k - 63, 64 * k)),
                        sha.h, [k \in 1 .. full |-> k]),
         buffer |-> SubSeq(all, 64 * full + 1, Len(all)),
         totalLen |-> sha.totalLen + Len(data)]

\* The zeros that take a buffer of n bytes to 56, perhaps over a block's end.
Zeros(n) == (56 - n) % 64

Padding(sha) ==
    <<128>> \o [i \in 1 .. Zeros((sha.totalLen + 1) % 64) |-> 0]
            \o [i \in 1 .. 8 |-> Shifted(8 * sha.totalLen, 8 - i) % 256]

digest(sha) ==
    LET padded == update(sha, Padding(sha))
    IN  Concat([k \in 1 .. 5 |-> WordBytes(padded.h[k])])

-----------------------------------------------------------------------------
(* base64, as numbers below 64; the sign that fills up is 64.              *)

Fill == 64
base64(data) ==
    LET len == Len(data)
        at(i) == IF i <= len THEN data[i] ELSE 0
        quad(i) == << at(i) \div 4,
                      16 * (at(i) % 4) + at(i + 1) \div 16,
                      IF i + 1 <= len THEN 4 * (at(i + 1) % 16) + at(i + 2) \div 64 ELSE Fill,
                      IF i + 2 <= len THEN at(i + 2) % 64 ELSE Fill >>
    IN  Concat([k \in 1 .. (len + 2) \div 3 |-> quad(3 * k - 2)])

-----------------------------------------------------------------------------
(* The socket moves as many bytes as it likes at a time, and none when it  *)
(* fails: `moves' says how many it would, call by call.                     *)

Moved(n, moves) ==
    FoldLeft(LAMBDA done, m : IF done.failed \/ done.got = n THEN done
                              ELSE IF m = 0 THEN [done EXCEPT !.failed = TRUE]
                              ELSE [done EXCEPT !.got = @ + Min({m, n - done.got})],
             [got |-> 0, failed |-> FALSE], moves)

\* What recv and send are asked for never goes beyond the n bytes.
readExact(n, moves) == Moved(n, moves).got = n
writeAll(n, moves) == Moved(n, moves).got = n

-----------------------------------------------------------------------------
(* Frames *)

LengthBytes(len) ==
    IF len < 126 THEN <<len>>
    ELSE IF len <= 65535 THEN <<126, len \div 256, len % 256>>
    ELSE <<127>> \o [i \in 1 .. 8 |-> Shifted(len, 8 - i) % 256]

Masked(payload, mask) ==
    [i \in DOMAIN payload |->
        FromBits(Xor(Bits(payload[i], 8), Bits(mask[((i - 1) % 4) + 1], 8)))]

\* The header of sendTextFrame: FIN and text, the length with the bit that
\* says it is masked, and the mask; the payload follows.
Header(len, mask) ==
    <<129>> \o [LengthBytes(len) EXCEPT ![1] = 128 + @] \o mask
TextFrame(text, mask) == Header(Len(text), mask) \o Masked(text, mask)

Value(bytes) == FoldLeft(LAMBDA n, b : 256 * n + b, 0, bytes)

\* What runRecvLoop reads of a frame before its payload.
ReadHeader(d) ==
    LET short == d[2] % 128
        ext == IF short = 126 THEN 2 ELSE IF short = 127 THEN 8 ELSE 0
        masked == d[2] >= 128
    IN  [fin |-> d[1] >= 128, opcode |-> d[1] % 16,
         len |-> IF ext = 0 THEN short ELSE Value(SubSeq(d, 3, 2 + ext)),
         mask |-> IF masked THEN SubSeq(d, 3 + ext, 6 + ext) ELSE <<0, 0, 0, 0>>,
         size |-> 2 + ext + (IF masked THEN 4 ELSE 0)]

ReadPayload(d) ==
    LET h == ReadHeader(d)
    IN  Masked(SubSeq(d, h.size + 1, h.size + h.len), h.mask)

\* Control frames are passed over or end the loop; so does a fragment, and
\* what is not text is ignored.
Meaning(h) ==
    IF h.opcode = 8 THEN "end"
    ELSE IF h.opcode \in {9, 10} THEN "ignored"
    ELSE IF ~h.fin THEN "end"
    ELSE IF h.opcode = 1 THEN "message" ELSE "ignored"

-----------------------------------------------------------------------------
(* Descriptions and fingerprints *)

Marker == <<"\n", "#", "f", "p", " ">>
packDescription(ice, fingerprint) == ice \o Marker \o fingerprint

unpackDescription(payload) ==
    LET n == Len(payload)
        found == {i \in 1 .. n - 4 : SubSeq(payload, i, i + 4) = Marker}
    IN  IF found = {} THEN [ice |-> payload, fp |-> <<>>]
        ELSE [ice |-> SubSeq(payload, 1, Min(found) - 1),
              fp |-> SubSeq(payload, Min(found) + 5, n)]

HexDigits == <<"0", "1", "2", "3", "4", "5", "6", "7", "8", "9", "A", "B", "C", "D", "E", "F">>
fingerprintOf(md) ==
    <<"s", "h", "a", "-", "2", "5", "6", " ">> \o
    Concat([i \in DOMAIN md |->
        (IF i = 1 THEN <<>> ELSE <<":">>)
        \o <<HexDigits[md[i] \div 16 + 1], HexDigits[(md[i] % 16) + 1]>>])

LowerCase == <<"a", "b", "c", "d", "e", "f", "h", "s">>
UpperCase == <<"A", "B", "C", "D", "E", "F", "H", "S">>
toupper(c) == IF \E i \in DOMAIN LowerCase : LowerCase[i] = c
              THEN UpperCase[CHOOSE i \in DOMAIN LowerCase : LowerCase[i] = c] ELSE c
Blank == {" ", "\n"}

normalizeFp(s) ==
    LET ink == {i \in DOMAIN s : s[i] \notin Blank}
        trimmed == IF ink = {} THEN <<>> ELSE SubSeq(s, Min(ink), Max(ink))
    IN  [i \in DOMAIN trimmed |-> toupper(trimmed[i])]

-----------------------------------------------------------------------------
(* The ICE servers of the environment.  A variable that is not set is Unset. *)

Unset == <<"unset">>
Digits == <<"0", "1", "2", "3", "4", "5", "6", "7", "8", "9">>
IsDigit(c) == \E i \in DOMAIN Digits : Digits[i] = c
DigitValue(c) == (CHOOSE i \in DOMAIN Digits : Digits[i] = c) - 1

\* atoi of what has no sign: the number the text begins with.
atoi(s) ==
    LET others == {i \in DOMAIN s : ~IsDigit(s[i])}
        n == IF others = {} THEN Len(s) ELSE Min(others) - 1
    IN  FoldLeft(LAMBDA v, c : 10 * v + DigitValue(c), 0, SubSeq(s, 1, n))

splitHostPort(s, defPort) ==
    LET colons == {i \in DOMAIN s : s[i] = ":"}
        p == atoi(SubSeq(s, Max(colons) + 1, Len(s)))
    IN  IF colons = {} THEN [host |-> s, port |-> defPort]
        ELSE [host |-> SubSeq(s, 1, Max(colons) - 1),
              port |-> IF p > 0 /\ p <= 65535 THEN p ELSE defPort]

DefaultStun == [host |-> <<"s", "t", "u", "n">>, port |-> 19302]
NoStun == [DefaultStun EXCEPT !.host = <<>>]

iceConfigFromEnv(stun, turn) ==
    [stun |-> IF stun = Unset THEN DefaultStun
              ELSE IF stun \in {<<>>, <<"o", "f", "f">>} THEN NoStun
              ELSE splitHostPort(stun, 19302),
     turn |-> IF turn \in {Unset, <<>>} THEN {} ELSE {splitHostPort(turn, 3478)}]

\* The servers the agent is created with: a STUN server without a name is none.
ServersOf(cfg) ==
    [stun |-> IF cfg.stun.host = <<>> THEN {} ELSE {cfg.stun}, turn |-> cfg.turn]

-----------------------------------------------------------------------------
(* The arguments of the client.  An option is a text of one sign of its own; *)
(* what follows --port, and the colon of --server, begins with a digit, for  *)
(* stoi ends the program otherwise.                                          *)

Option == [server |-> <<"--server">>, port |-> <<"--port">>, room |-> <<"--room">>]
Scheme == <<"w", "s", ":", "/", "/">>
Usual == [host |-> <<"127.0.0.1">>, port |-> 8080, room |-> <<"demo">>]
stoi(s) == atoi(s) % 65536

WithServer(args, v) ==
    LET address == IF IsPrefix(Scheme, v) THEN SubSeq(v, 6, Len(v)) ELSE v
        colons == {i \in DOMAIN address : address[i] = ":"}
    IN  IF colons = {} THEN [args EXCEPT !.host = address]
        ELSE [args EXCEPT !.host = SubSeq(address, 1, Min(colons) - 1),
                          !.port = stoi(SubSeq(address, Min(colons) + 1, Len(address)))]

\* What follows an option is its value, whatever it looks like.
Given(args, option, v) ==
    IF option = Option.server THEN WithServer(args, v)
    ELSE IF option = Option.room THEN [args EXCEPT !.room = v]
    ELSE [args EXCEPT !.port = IF v = <<>> THEN @ ELSE stoi(v)]

parseArgs(argv) ==
    LET options == {Option[o] : o \in DOMAIN Option}
        step(p, arg) ==
            IF p.option # <<>> THEN [args |-> Given(p.args, p.option, arg), option |-> <<>>]
            ELSE [p EXCEPT !.option = IF arg \in options THEN arg ELSE <<>>]
        p == FoldLeft(step, [args |-> Usual, option |-> <<>>], argv)
    IN  IF p.option = Option.server THEN Given(p.args, p.option, <<>>) ELSE p.args

-----------------------------------------------------------------------------
(* What they must say, over bounded inputs. *)

\* A reader of RFC 4648: four signs are three bytes, less one for each that
\* fills up.
Decoded(signs) ==
    LET at(i) == IF signs[i] = Fill THEN 0 ELSE signs[i]
        three(i) == << 4 * at(i) + at(i + 1) \div 16,
                       ((16 * at(i + 1)) % 256) + at(i + 2) \div 4,
                       ((64 * at(i + 2)) % 256) + at(i + 3) >>
        fills == Cardinality({i \in DOMAIN signs : signs[i] = Fill})
        all == Concat([k \in 1 .. Len(signs) \div 4 |-> three(4 * k - 3)])
    IN  SubSeq(all, 1, Len(all) - fills)

\* The key is a base64 of random bytes (SignalingClient.cpp:230): it can be
\* decoded, whatever the number of bytes is modulo 3.
Somebytes == UNION {[1 .. n -> {0, 3, 64, 255}] : n \in 0 .. 5}
EveryKeyIsDecoded == \A data \in Somebytes : Decoded(base64(data)) = data

\* "Verify Sec-WebSocket-Accept = base64(sha1(key + GUID))"
\* (SignalingClient.cpp:256).  The padding fills the last block, whatever the
\* length, and ends with that length ...
Fills(n) == LET p == Padding([h |-> <<>>, buffer |-> <<>>, totalLen |-> n])
           IN  /\ (n + Len(p)) % 64 = 0 /\ Len(p) \in 9 .. 72
               /\ Value(SubSeq(p, Len(p) - 3, Len(p))) = 8 * n
\* ... and the digests are those of RFC 3174, in its examples of one block and
\* of two.
Test1 == <<97, 98, 99>>
Test2 == Concat([i \in 0 .. 13 |-> [j \in 1 .. 4 |-> 96 + i + j]])
Digest1 == <<\hA9, \h99, \h3E, \h36, \h47, \h06, \h81, \h6A, \hBA, \h3E,
             \h25, \h71, \h78, \h50, \hC2, \h6C, \h9C, \hD0, \hD8, \h9D>>
Digest2 == <<\h84, \h98, \h3E, \h44, \h1C, \h3B, \hD2, \h6E, \hBA, \hAE,
             \h4A, \hA1, \hF9, \h51, \h29, \hE5, \hE5, \h46, \h70, \hF1>>
EveryAnswerIsExpected ==
    /\ \A n \in 0 .. 130 : Fills(n)
    /\ digest(update(reset, Test1)) = Digest1
    /\ digest(update(reset, Test2)) = Digest2

\* A frame is read as it was written, at each of the lengths where its header
\* changes (SignalingClient.cpp:273), and nothing is lost when the socket moves
\* less than it is asked to (:137, :147): all of it, or the link has failed.
Lengths == {0, 1, 125, 126, 255, 256, 65535, 65536, 16777216}
Masks == {<<0, 0, 0, 0>>, <<1, 254, 128, 255>>}
Texts == UNION {[1 .. n -> {34, 123}] : n \in 0 .. 5}
EveryFrameIsRead ==
    /\ \A len \in Lengths : \A mask \in Masks :
          LET h == ReadHeader(Header(len, mask))
          IN  h.len = len /\ h.mask = mask /\ h.size = Len(Header(len, mask))
              /\ Meaning(h) = "message"
    /\ \A text \in Texts : \A mask \in Masks : ReadPayload(TextFrame(text, mask)) = text
    /\ \A n \in 0 .. 4 : \A moves \in [1 .. 4 -> 0 .. 3] :
          LET done == Moved(n, moves)
          IN  done.got <= n /\ (done.got < n /\ ~done.failed => 0 \notin {moves[i] : i \in 1 .. 4})

\* Both ends take a description apart as it was put together (DtlsSrtp.cpp:91),
\* so that an end without a fingerprint is told none and never starts, and
\* compare fingerprints whatever their case and the blanks around them: they
\* are equal only if the digests are.
Unmarked(ice) == \A i \in 1 .. Len(ice) - 4 : SubSeq(ice, i, i + 4) # Marker
DescriptionArrives(ice, fp) ==
    /\ unpackDescription(packDescription(ice, fp)) = [ice |-> ice, fp |-> fp]
    /\ unpackDescription(ice) = [ice |-> ice, fp |-> <<>>]
IceTexts == UNION {[1 .. n -> {"\n", "#", "f", "p", " "}] : n \in 0 .. 5}
Digests == [1 .. 2 -> {0, 10, 171, 186}]
Written(fp) == <<" ">> \o [i \in DOMAIN fp |->
                  IF \E k \in DOMAIN UpperCase : UpperCase[k] = fp[i]
                  THEN LowerCase[CHOOSE k \in DOMAIN UpperCase : UpperCase[k] = fp[i]]
                  ELSE fp[i]] \o <<"\n">>
EveryFingerprintArrives ==
    /\ \A ice \in IceTexts : Unmarked(ice) => DescriptionArrives(ice, <<"A">>)
    /\ \A md, other \in Digests :
          normalizeFp(fingerprintOf(md)) = normalizeFp(Written(fingerprintOf(other)))
              <=> md = other

\* "set VC_TURN for cross-network relay, VC_STUN=off for LAN-only"
\* (group_call.cpp:184): each server is asked at the port it was given, or the
\* usual one if it was given none or none that is a port.
Decimal(p) == LET places == {i \in 0 .. 5 : i = 0 \/ p >= 10^i}
              IN  [j \in 1 .. Cardinality(places) |->
                    Digits[((p \div 10^(Cardinality(places) - j)) % 10) + 1]]
Host == <<"h", ".", "1">>
EveryServerIsAsked ==
    /\ \A p \in {0, 1, 80, 65535, 65536} :
          LET c == iceConfigFromEnv(Host \o <<":">> \o Decimal(p), Host \o <<":">> \o Decimal(p))
              port(usual) == IF p \in {0, 65536} THEN usual ELSE p
          IN  ServersOf(c) = [stun |-> {[host |-> Host, port |-> port(19302)]},
                              turn |-> {[host |-> Host, port |-> port(3478)]}]
    /\ iceConfigFromEnv(Host, Host).turn = {[host |-> Host, port |-> 3478]}
    /\ ServersOf(iceConfigFromEnv(<<"o", "f", "f">>, Unset)) = [stun |-> {}, turn |-> {}]

\* "Accept "ws://host:port", "host:port", or "host"" (group_call.cpp:70): each
\* names the host, the first two the port, unless a later --port does; without
\* either it is the usual one, and another room does not change that.
EveryAddressIsUnderstood ==
    \A p, q \in {1, 80, 8080, 65535} : \A scheme \in {<<>>, Scheme} :
        LET at == scheme \o Host \o <<":">> \o Decimal(p)
            other == <<Option.port, Decimal(q)>>
            to == <<Option.server, at>>
            room == <<Option.room, <<"r">>>>
            place(argv) == parseArgs(argv)
        IN  /\ place(to \o room) = [host |-> Host, port |-> p, room |-> <<"r">>]
            /\ place(to \o other) = [Usual EXCEPT !.host = Host, !.port = q]
            /\ place(other \o to) = [Usual EXCEPT !.host = Host, !.port = p]
            /\ place(<<Option.server, scheme \o Host>>) = [Usual EXCEPT !.host = Host]
            /\ place(other \o room) = [Usual EXCEPT !.port = q, !.room = <<"r">>]
=============================================================================
