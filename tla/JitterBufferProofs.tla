------------------------- MODULE JitterBufferProofs -------------------------
(***************************************************************************)
(* The jitter buffer keeps its account of every frame right and hands the  *)
(* frames on in order, for streams of any length over number spaces of any *)
(* size, wherever the numbers wrap and whatever the network does.  The     *)
(* last two theorems are about StreamReports.tla: what is lost is counted, *)
(* and the instant of capture is kept.                                     *)
(***************************************************************************)
EXTENDS JitterBuffer, StreamReports, TLAPS, FiniteSetTheorems, WellFoundedInduction

-----------------------------------------------------------------------------
(* Numbers on a circle. *)

LEMMA DivMod ==
    ASSUME NEW m \in Nat \ {0}, NEW a \in Int
    PROVE  /\ a \div m \in Int /\ a % m \in 0 .. m - 1
           /\ a = m * (a \div m) + (a % m)
OBVIOUS

LEMMA Multiples ==
    ASSUME NEW m \in Nat \ {0}, NEW d \in Int
    PROVE  /\ m * d \in Int
           /\ d >= 1 => m * d >= m
           /\ d <= -1 => m * d <= -m
           /\ m * (-d) = -(m * d) /\ m * (-d - 1) = -(m * d) - m
OBVIOUS

LEMMA Remainder ==
    ASSUME NEW m \in Nat \ {0}, NEW q \in Int, NEW r \in 0 .. m - 1,
           NEW a \in Int, a = m * q + r
    PROVE  a % m = r
<1>. DEFINE s == a % m
            d == q - (a \div m)
<1>1. a \div m \in Int /\ s \in 0 .. m - 1 /\ a = m * (a \div m) + s
  BY DivMod
<1>2. d \in Int /\ m * d = s - r
  BY <1>1
<1>. HIDE DEF s, d
<1>3. d = 0
  <2>1. m * d < m /\ m * d > -m
    BY <1>1, <1>2
  <2>. QED
    BY <1>2, <2>1, Multiples
<1>4. m * d = 0
  BY <1>3
<1>5. s = r
  BY <1>1, <1>2, <1>4
<1>. QED
  BY <1>5 DEF s

\* How far it is from one number on the circle to another.
LEMMA Around ==
    ASSUME NEW m \in Nat \ {0}, NEW b \in Int, NEW i \in Int, NEW j \in Int,
           i - j < m, j - i < m
    PROVE  (((b + j) % m) - ((b + i) % m)) % m = IF i <= j THEN j - i ELSE (m + j) - i
<1>. DEFINE x == b + i
            y == b + j
<1>0. x \in Int /\ y \in Int /\ y - x = j - i
  OBVIOUS
<1>. HIDE DEF x, y
<1>. DEFINE r == x % m
            s == y % m
            p == x \div m
            q == y \div m
<1>1. /\ p \in Int /\ r \in 0 .. m - 1 /\ x = m * p + r
      /\ q \in Int /\ s \in 0 .. m - 1 /\ y = m * q + s
  BY <1>0, DivMod
<1>. HIDE DEF r, s, p, q
<1>. DEFINE d == q - p
            n == s - r
<1>2. d \in Int /\ n \in Int /\ -m < n /\ n < m
  BY <1>1
<1>3. m * d = m * q - m * p
  BY <1>1
<1>4. j - i = m * d + n
  BY <1>0, <1>1, <1>3
<1>. HIDE DEF d, n
<1>5. n = m * (-d) + (j - i) /\ n = m * (-d - 1) + ((m + j) - i)
  BY <1>2, <1>4, Multiples
<1>6. n % m = IF i <= j THEN j - i ELSE (m + j) - i
  <2>1. CASE i <= j
    <3>1. -d \in Int /\ j - i \in 0 .. m - 1
      BY <1>2, <2>1
    <3>. QED
      BY <1>2, <1>5, <2>1, <3>1, Remainder
  <2>2. CASE ~(i <= j)
    <3>1. -d - 1 \in Int /\ (m + j) - i \in 0 .. m - 1
      BY <1>2, <2>2
    <3>. QED
      BY <1>2, <1>5, <2>2, <3>1, Remainder
  <2>. QED
    BY <2>1, <2>2
<1>. QED
  BY <1>6 DEF n, r, s, x, y

\* Serial numbers within half a circle of each other compare as their places do.
LEMMA SerialNumbers ==
    ASSUME NEW m \in Nat \ {0}, NEW b \in Int, NEW n \in Nat, 2 * n < m,
           NEW i \in 1 .. n, NEW j \in 1 .. n
    PROVE  LET x == (b + i) % m
               y == (b + j) % m
           IN  /\ x \in 0 .. m - 1
               /\ x = y <=> i = j
               /\ (y - x) % m = IF i <= j THEN j - i ELSE (m + j) - i
               /\ (x # y /\ (y - x) % m < m \div 2) <=> i < j
<1>. DEFINE x == (b + i) % m
            y == (b + j) % m
<1>1. (y - x) % m = IF i <= j THEN j - i ELSE (m + j) - i
  <2>1. i \in Int /\ j \in Int /\ i - j < m /\ j - i < m
    OBVIOUS
  <2>. QED
    BY <2>1, Around
<1>2. x \in 0 .. m - 1 /\ y \in 0 .. m - 1
  <2>1. b + i \in Int /\ b + j \in Int
    OBVIOUS
  <2>. QED
    BY <2>1, DivMod
<1>3. (x - x) % m = 0
  <2>1. i \in Int /\ i - i < m /\ i <= i /\ i - i = 0
    OBVIOUS
  <2>2. (x - x) % m = IF i <= i THEN i - i ELSE (m + i) - i
    BY <2>1, Around
  <2>. QED
    BY <2>1, <2>2
<1>4. i = j => x = y
  OBVIOUS
<1>. HIDE DEF x, y
<1>5. x = y => i = j
  <2>. SUFFICES ASSUME x = y PROVE i = j
    OBVIOUS
  <2>1. (y - x) % m = 0
    BY <1>3
  <2>. QED
    BY <1>1, <2>1
<1>6. (x # y /\ (y - x) % m < m \div 2) <=> i < j
  <2>. DEFINE d == (y - x) % m
              h == m \div 2
  <2>1. h \in Int /\ 2 * h <= m /\ m < 2 * h + 2
    OBVIOUS
  <2>2. d = IF i <= j THEN j - i ELSE (m + j) - i
    BY <1>1
  <2>. HIDE DEF d, h
  <2>3. (x # y /\ d < h) <=> i < j
    BY <1>4, <1>5, <2>1, <2>2
  <2>. QED
    BY <2>3 DEF d, h
<1>. QED
  BY <1>1, <1>2, <1>4, <1>5, <1>6 DEF x, y

-----------------------------------------------------------------------------
(* The stream on the wire. *)

Units(s) == 1 .. Len(s)
Places(s, k) == 1 .. Len(s[k])

LEMMA Lengths ==
    ASSUME NEW s \in Streams
    PROVE  /\ s \in Seq(Seq(STRING)) /\ Len(s) \in Nat
           /\ 2 * Len(s) < TsSize
           /\ \A k \in Units(s) : /\ Len(s[k]) \in Nat \ {0}
                                /\ 2 * Len(s[k]) < SeqSize
           /\ IsAudio(s) \/ IsVideo(s)
<1>1. /\ s \in Seq(Seq(STRING)) /\ 2 * Len(s) < TsSize
      /\ \A k \in Units(s) : 0 < Len(s[k]) /\ 2 * Len(s[k]) < SeqSize
      /\ IsAudio(s) \/ IsVideo(s)
  BY JitterBufferAssumption DEF Units
<1>2. \A k \in Units(s) : s[k] \in Seq(STRING)
  BY <1>1 DEF Units
<1>. QED
  BY <1>1, <1>2

\* The places of the packets before unit k.
Sites(s, k) == UNION {{j} \X DOMAIN s[j] : j \in 1 .. k - 1}

LEMMA SitesFinite ==
    ASSUME NEW s \in Seq(Seq(STRING)), NEW k \in 1 .. Len(s) + 1
    PROVE  IsFiniteSet(Sites(s, k)) /\ Cardinality(Sites(s, k)) \in Nat
<1>. DEFINE n == k - 1
            family == {{j} \X DOMAIN s[j] : j \in 1 .. n}
            f == [j \in 1 .. n |-> {j} \X DOMAIN s[j]]
<1>1. n \in Nat /\ 1 \in Int /\ n \in Int /\ 1 .. n \subseteq 1 .. Len(s)
  OBVIOUS
<1>2. IsFiniteSet(1 .. n)
  BY <1>1, FS_Interval
<1>3. f \in Surjection(1 .. n, family)
  BY DEF Surjection
<1>4. IsFiniteSet(family)
  BY <1>2, <1>3, FS_Surjection
<1>5. ASSUME NEW j \in 1 .. n PROVE IsFiniteSet({j} \X DOMAIN s[j])
  <2>1. s[j] \in Seq(STRING)
    BY <1>1
  <2>2. DOMAIN s[j] = 1 .. Len(s[j]) /\ Len(s[j]) \in Int /\ 1 \in Int
    BY <2>1
  <2>3. IsFiniteSet(DOMAIN s[j])
    BY <2>2, FS_Interval
  <2>. QED
    BY <2>3, FS_Singleton, FS_Product
<1>6. \A T \in family : IsFiniteSet(T)
  BY <1>5
<1>7. IsFiniteSet(UNION family)
  BY <1>4, <1>6, FS_UNION
<1>. QED
  BY <1>7, FS_CardinalityType DEF Sites

LEMMA BeforeIsNat ==
    ASSUME NEW s \in Seq(Seq(STRING)), NEW k \in 1 .. Len(s) + 1
    PROVE  Before(s, k) \in Nat
BY SitesFinite DEF Sites, Before

\* Timestamps compare as the numbers of their access units do.
LEMMA Times ==
    ASSUME NEW s \in Streams, NEW j \in Units(s), NEW k \in Units(s)
    PROVE  /\ Ts(k) \in 0 .. TsSize - 1
           /\ Ts(j) = Ts(k) <=> j = k
           /\ tsLessThan(Ts(j), Ts(k)) <=> j < k
<1>. DEFINE b == FirstTs - 1
            n == Len(s)
<1>1. /\ TsSize \in Nat \ {0} /\ b \in Int /\ n \in Nat /\ 2 * n < TsSize
      /\ j \in 1 .. n /\ k \in 1 .. n
  BY Lengths, JitterBufferAssumption DEF Units
<1>2. Ts(j) = (b + j) % TsSize /\ Ts(k) = (b + k) % TsSize
  <2>1. FirstTs \in Int /\ j \in Int /\ k \in Int
    BY <1>1, JitterBufferAssumption
  <2>2. FirstTs + (j - 1) = b + j /\ FirstTs + (k - 1) = b + k
    BY <2>1
  <2>. QED
    BY <2>2 DEF Ts
<1>. HIDE DEF b, n
<1>3. LET x == (b + j) % TsSize
          y == (b + k) % TsSize
      IN  /\ x = y <=> j = k
          /\ (x # y /\ (y - x) % TsSize < TsSize \div 2) <=> j < k
  BY <1>1, SerialNumbers
<1>4. (b + k) % TsSize \in 0 .. TsSize - 1
  BY <1>1, SerialNumbers
<1>. QED
  BY <1>2, <1>3, <1>4 DEF tsLessThan

LEMMA IndexOfTs ==
    ASSUME NEW s \in Streams, NEW k \in Units(s)
    PROVE  Index(s, Ts(k)) = k
BY Times DEF Index, Units

\* So do the sequence numbers of one access unit.
LEMMA Numbers ==
    ASSUME NEW s \in Streams, NEW k \in Units(s), NEW i \in Places(s, k), NEW j \in Places(s, k)
    PROVE  /\ Number(s, k, i) \in 0 .. SeqSize - 1
           /\ Number(s, k, i) = Number(s, k, j) <=> i = j
           /\ seqLessThan(Number(s, k, i), Number(s, k, j)) <=> i < j
           /\ i <= j => seqDistance(Number(s, k, i), Number(s, k, j)) = j - i
           /\ j < i => seqDistance(Number(s, k, i), Number(s, k, j)) = (SeqSize + j) - i
<1>. DEFINE b == (FirstSeq + Before(s, k)) - 1
            n == Len(s[k])
<1>1. /\ SeqSize \in Nat \ {0} /\ n \in Nat /\ 2 * n < SeqSize
      /\ i \in 1 .. n /\ j \in 1 .. n
  BY Lengths, JitterBufferAssumption DEF Places
<1>2. FirstSeq \in Int /\ Before(s, k) \in Int /\ i \in Int /\ j \in Int
  <2>1. k \in 1 .. Len(s) + 1 /\ s \in Seq(Seq(STRING))
    BY Lengths DEF Units
  <2>2. Before(s, k) \in Nat
    BY <2>1, BeforeIsNat
  <2>. QED
    BY <1>1, <2>2, JitterBufferAssumption
<1>3. b \in Int /\ Number(s, k, i) = (b + i) % SeqSize /\ Number(s, k, j) = (b + j) % SeqSize
  <2>1. /\ FirstSeq + Before(s, k) + (i - 1) = b + i
        /\ FirstSeq + Before(s, k) + (j - 1) = b + j
    BY <1>2
  <2>. QED
    BY <1>2, <2>1 DEF Number
<1>. HIDE DEF b, n
<1>4. LET x == (b + i) % SeqSize
          y == (b + j) % SeqSize
      IN  /\ x \in 0 .. SeqSize - 1
          /\ x = y <=> i = j
          /\ (y - x) % SeqSize = IF i <= j THEN j - i ELSE (SeqSize + j) - i
          /\ (x # y /\ (y - x) % SeqSize < SeqSize \div 2) <=> i < j
  BY <1>1, <1>3, SerialNumbers
<1>. QED
  BY <1>1, <1>3, <1>4 DEF seqLessThan, seqDistance

LEMMA PacketsDiffer ==
    ASSUME NEW s \in Streams, NEW k \in Units(s), NEW i \in Places(s, k),
           NEW j \in Places(s, k)
    PROVE  /\ Packet(s, k, i).timestamp = Ts(k)
           /\ Packet(s, k, i).sequenceNumber = Number(s, k, i)
           /\ Packet(s, k, i).marker = (i = Len(s[k]))
           /\ Packet(s, k, i) = Packet(s, k, j) <=> i = j
<1>1. /\ Packet(s, k, i).timestamp = Ts(k)
      /\ Packet(s, k, i).sequenceNumber = Number(s, k, i)
      /\ Packet(s, k, i).marker = (i = Len(s[k]))
      /\ Packet(s, k, j).sequenceNumber = Number(s, k, j)
  BY DEF Packet
<1>2. Number(s, k, i) = Number(s, k, j) => i = j
  BY Numbers
<1>. HIDE DEF Packet
<1>. QED
  BY <1>1, <1>2

\* A set of packets of one unit and the places of these packets.
LEMMA PacketsByPlace ==
    ASSUME NEW s \in Streams, NEW k \in Units(s), NEW ps \in SUBSET Packets(s, k)
    PROVE  /\ Positions(s, k, ps) \subseteq Places(s, k)
           /\ ps = {Packet(s, k, i) : i \in Positions(s, k, ps)}
           /\ ps # {} => Positions(s, k, ps) # {}
<1>1. \A p \in ps : \E i \in Places(s, k) : p = Packet(s, k, i)
  BY DEF Packets, Places
<1>2. /\ Positions(s, k, ps) \subseteq Places(s, k)
      /\ \A i \in Places(s, k) : i \in Positions(s, k, ps) <=> Packet(s, k, i) \in ps
  BY DEF Positions, Places
<1>. QED
  BY <1>1, <1>2

LEMMA OneMorePlace ==
    ASSUME NEW s \in Streams, NEW k \in Units(s), NEW ps, NEW i \in Places(s, k)
    PROVE  Positions(s, k, ps \cup {Packet(s, k, i)}) = Positions(s, k, ps) \cup {i}
<1>1. \A j \in Places(s, k) : Packet(s, k, j) = Packet(s, k, i) <=> j = i
  BY PacketsDiffer
<1>. QED
  BY <1>1 DEF Positions, Places

LEMMA OnePlace ==
    ASSUME NEW s \in Streams, NEW k \in Units(s), NEW i \in Places(s, k)
    PROVE  Positions(s, k, {Packet(s, k, i)}) = {i}
<1>1. \A j \in Places(s, k) : Packet(s, k, j) = Packet(s, k, i) <=> j = i
  BY PacketsDiffer
<1>. QED
  BY <1>1 DEF Positions, Places

\* What is sent in turn can be counted by place.
LEMMA CountedByPlace ==
    ASSUME NEW s \in Streams, NEW k \in Units(s), NEW S \in SUBSET Places(s, k)
    PROVE  /\ IsFiniteSet(S)
           /\ IsFiniteSet({Packet(s, k, i) : i \in S})
           /\ Cardinality({Packet(s, k, i) : i \in S}) = Cardinality(S)
<1>. DEFINE T == {Packet(s, k, i) : i \in S}
            f == [i \in S |-> Packet(s, k, i)]
<1>1. IsFiniteSet(S)
  <2>1. 1 \in Int /\ Len(s[k]) \in Int
    BY Lengths
  <2>. QED
    BY <2>1, FS_Interval, FS_Subset DEF Places
<1>2. \A i, j \in S : Packet(s, k, i) = Packet(s, k, j) => i = j
  BY PacketsDiffer
<1>3. f \in Bijection(S, T)
  BY <1>2 DEF Bijection, Injection, Surjection, IsInjective
<1>. QED
  BY <1>1, <1>3, FS_Bijection DEF ExistsBijection

-----------------------------------------------------------------------------
(* The account of a frame. *)

FrameRecord(s) == [packets : SUBSET Sent(s), minSeq : Nat, maxSeq : Nat,
                   hasMarker : BOOLEAN, waited : 0 .. targetDelay]

\* The bounds of f are its packets at the places lo and hi, and no packet of it
\* lies outside of them.
Bounded(s, k, f, lo, hi) ==
    /\ lo \in Positions(s, k, f.packets) /\ hi \in Positions(s, k, f.packets)
    /\ \A i \in Positions(s, k, f.packets) : lo <= i /\ i <= hi
    /\ f.minSeq = Number(s, k, lo) /\ f.maxSeq = Number(s, k, hi)

Account(s, k, f) ==
    /\ f \in FrameRecord(s)
    /\ f.packets \subseteq Packets(s, k)
    /\ \E lo, hi \in Places(s, k) : Bounded(s, k, f, lo, hi)
    /\ f.hasMarker <=> Len(s[k]) \in Positions(s, k, f.packets)

LEMMA NewAccount ==
    ASSUME NEW s \in Streams, NEW k \in Units(s), NEW i \in Places(s, k)
    PROVE  Account(s, k, NewFrame(Packet(s, k, i)))
<1>. DEFINE p == Packet(s, k, i)
            f == NewFrame(p)
<1>1. f = [packets |-> {p}, minSeq |-> Number(s, k, i), maxSeq |-> Number(s, k, i),
           hasMarker |-> i = Len(s[k]), waited |-> 0]
  BY PacketsDiffer DEF NewFrame
<1>2. p \in Packets(s, k) /\ p \in Sent(s)
  BY DEF Packets, Sent, Places, Units
<1>3. Number(s, k, i) \in Nat /\ 0 \in 0 .. targetDelay
  BY Numbers, JitterBufferAssumption
<1>4. Positions(s, k, {p}) = {i}
  BY OnePlace
<1>. HIDE DEF p, f
<1>5. f \in FrameRecord(s)
  <2>. DEFINE last == (i = Len(s[k]))
  <2>1. last \in BOOLEAN
    OBVIOUS
  <2>. HIDE DEF last
  <2>2. f = [packets |-> {p}, minSeq |-> Number(s, k, i), maxSeq |-> Number(s, k, i),
             hasMarker |-> last, waited |-> 0]
    BY <1>1 DEF last
  <2>. QED
    BY <1>2, <1>3, <2>1, <2>2 DEF FrameRecord
<1>6. /\ f.packets = {p} /\ f.minSeq = Number(s, k, i) /\ f.maxSeq = Number(s, k, i)
      /\ f.hasMarker = (i = Len(s[k]))
  BY <1>1
<1>7. Bounded(s, k, f, i, i)
  <2>1. i \in Int
    BY DEF Places
  <2>2. Positions(s, k, f.packets) = {i}
    BY <1>4, <1>6
  <2>3. \A j \in {i} : i <= j /\ j <= i
    BY <2>1
  <2>. QED
    BY <1>6, <2>2, <2>3 DEF Bounded
<1>. QED
  BY <1>2, <1>4, <1>5, <1>6, <1>7 DEF Account, f, p

LEMMA MoreAccount ==
    ASSUME NEW s \in Streams, NEW k \in Units(s), NEW i \in Places(s, k), NEW f,
           Account(s, k, f)
    PROVE  Account(s, k, WithPacket(f, Packet(s, k, i)))
<1>. DEFINE p == Packet(s, k, i)
            g == WithPacket(f, p)
            held == Positions(s, k, f.packets)
<1>1. PICK lo \in Places(s, k), hi \in Places(s, k) : Bounded(s, k, f, lo, hi)
  BY DEF Account
<1>. DEFINE first == IF i < lo THEN i ELSE lo
            last == IF hi < i THEN i ELSE hi
            ends == (f.hasMarker \/ i = Len(s[k]))
<1>2. /\ f \in FrameRecord(s) /\ f.packets \subseteq Packets(s, k)
      /\ f.hasMarker <=> Len(s[k]) \in held
  BY DEF Account
<1>3. /\ seqLessThan(Number(s, k, i), Number(s, k, lo)) <=> i < lo
      /\ seqLessThan(Number(s, k, hi), Number(s, k, i)) <=> hi < i
  BY Numbers
<1>4. g = [packets |-> f.packets \cup {p}, minSeq |-> Number(s, k, first),
           maxSeq |-> Number(s, k, last), hasMarker |-> ends, waited |-> f.waited]
  <2>1. /\ p.sequenceNumber = Number(s, k, i) /\ p.marker = (i = Len(s[k]))
        /\ f.minSeq = Number(s, k, lo) /\ f.maxSeq = Number(s, k, hi)
    BY <1>1, PacketsDiffer DEF Bounded
  <2>. HIDE DEF p
  <2>. DEFINE least == IF seqLessThan(p.sequenceNumber, f.minSeq) THEN p.sequenceNumber
                       ELSE f.minSeq
              greatest == IF seqLessThan(f.maxSeq, p.sequenceNumber) THEN p.sequenceNumber
                          ELSE f.maxSeq
              marked == (f.hasMarker \/ p.marker)
  <2>2. least = Number(s, k, first) /\ greatest = Number(s, k, last)
    BY <1>3, <2>1
  <2>3. marked = ends
    BY <2>1
  <2>4. g = [f EXCEPT !.packets = f.packets \cup {p}, !.minSeq = least,
                      !.maxSeq = greatest, !.hasMarker = marked]
    BY DEF WithPacket
  <2>. HIDE DEF least, greatest, marked, first, last, ends, g
  <2>. QED
    BY <1>2, <2>2, <2>3, <2>4 DEF FrameRecord
<1>5. p \in Packets(s, k) /\ p \in Sent(s)
  BY DEF Packets, Sent, Places, Units
<1>6. Positions(s, k, g.packets) = held \cup {i}
  <2>1. g.packets = f.packets \cup {p}
    BY <1>4
  <2>2. Positions(s, k, f.packets \cup {p}) = held \cup {i}
    BY OneMorePlace
  <2>. HIDE DEF g, p, held
  <2>. QED
    BY <2>1, <2>2
<1>7. first \in Places(s, k) /\ last \in Places(s, k)
  OBVIOUS
<1>8. Number(s, k, first) \in Nat /\ Number(s, k, last) \in Nat /\ ends \in BOOLEAN
  <2>1. Number(s, k, first) \in 0 .. SeqSize - 1 /\ Number(s, k, last) \in 0 .. SeqSize - 1
    BY <1>7, Numbers
  <2>. QED
    BY <2>1, JitterBufferAssumption
<1>9. /\ first \in held \cup {i} /\ last \in held \cup {i}
      /\ \A j \in held \cup {i} : first <= j /\ j <= last
  <2>1. /\ lo \in held /\ hi \in held /\ \A j \in held : lo <= j /\ j <= hi
        /\ held \subseteq Places(s, k)
    BY <1>1 DEF Bounded, Positions, Places
  <2>2. \A j \in Places(s, k) : j \in Int
    BY DEF Places
  <2>. HIDE DEF held
  <2>. QED
    BY <2>1, <2>2
<1>10. ends <=> Len(s[k]) \in held \cup {i}
  BY <1>2
<1>. HIDE DEF p, g, held, first, last, ends
<1>11. g \in FrameRecord(s)
  BY <1>2, <1>4, <1>5, <1>8 DEF FrameRecord
<1>12. /\ g.packets = f.packets \cup {p} /\ g.minSeq = Number(s, k, first)
       /\ g.maxSeq = Number(s, k, last) /\ g.hasMarker = ends
  BY <1>4
<1>13. Bounded(s, k, g, first, last)
  BY <1>6, <1>9, <1>12 DEF Bounded
<1>. QED
  BY <1>2, <1>5, <1>6, <1>7, <1>10, <1>11, <1>12, <1>13 DEF Account, g, p

-----------------------------------------------------------------------------
(* What is emitted. *)

\* Whether of audio or of video, a complete frame is a run to the end of its
\* unit: the marker is at the end, and a frame as long as its bounds are apart
\* has no hole.
LEMMA CompleteIsRun ==
    ASSUME stream \in Streams, NEW k \in Units(stream), NEW f,
           Account(stream, k, f), isComplete(f)
    PROVE  \E first \in Places(stream, k) :
              /\ f.packets = {Packet(stream, k, i) : i \in first .. Len(stream[k])}
              /\ f.minSeq = Number(stream, k, first)
              /\ f.maxSeq = Number(stream, k, Len(stream[k]))
<1>. DEFINE n == Len(stream[k])
            held == Positions(stream, k, f.packets)
<1>1. PICK lo \in Places(stream, k), hi \in Places(stream, k) :
          Bounded(stream, k, f, lo, hi)
  BY DEF Account
<1>2. /\ lo \in held /\ hi \in held /\ \A i \in held : lo <= i /\ i <= hi
      /\ f.minSeq = Number(stream, k, lo) /\ f.maxSeq = Number(stream, k, hi)
  BY <1>1 DEF Bounded
<1>3. /\ held \subseteq 1 .. n /\ n \in Nat
      /\ f.packets = {Packet(stream, k, i) : i \in held}
  BY PacketsByPlace, Lengths DEF Account, Places
<1>4. lo \in 1 .. n /\ hi \in 1 .. n /\ lo <= hi
  BY <1>2, <1>3
<1>5. hi = n /\ held = lo .. n
  <2>1. CASE IsAudio(stream)
    <3>1. stream[k] = <<"opus">>
      BY <2>1, Lengths DEF IsAudio, Units
    <3>2. n = 1
      BY <3>1
    <3>. QED
      BY <1>2, <1>3, <1>4, <3>2
  <2>2. CASE /\ f.hasMarker
             /\ seqDistance(f.minSeq, f.maxSeq) + 1 = Cardinality(f.packets)
    <3>1. n \in held
      BY <2>2 DEF Account
    <3>2. hi = n
      BY <1>2, <1>3, <1>4, <3>1
    <3>3. seqDistance(f.minSeq, f.maxSeq) = n - lo
      BY <1>2, <1>4, <3>2, Numbers
    <3>4. Cardinality(held) = (n - lo) + 1
      <4>1. Cardinality({Packet(stream, k, i) : i \in held}) = Cardinality(held)
        BY <1>3, CountedByPlace DEF Places
      <4>. QED
        BY <1>3, <2>2, <3>3, <4>1
    <3>5. IsFiniteSet(lo .. n) /\ Cardinality(lo .. n) = (n - lo) + 1
      <4>1. lo \in Int /\ n \in Int /\ ~(lo > n)
        BY <1>3, <1>4
      <4>2. Cardinality(lo .. n) = IF lo > n THEN 0 ELSE n - lo + 1
        BY <4>1, FS_Interval
      <4>. QED
        BY <4>1, <4>2, FS_Interval
    <3>6. held \in SUBSET (lo .. n)
      BY <1>2, <1>3, <3>2
    <3>. QED
      BY <3>2, <3>4, <3>5, <3>6, FS_Subset
  <2>. QED
    BY <2>1, <2>2 DEF isComplete
<1>. QED
  BY <1>2, <1>3, <1>5

LEMMA RunInOrder ==
    ASSUME NEW s \in Streams, NEW k \in Units(s), NEW f, NEW first \in Places(s, k),
           f.packets = {Packet(s, k, i) : i \in first .. Len(s[k])},
           f.minSeq = Number(s, k, first), f.maxSeq = Number(s, k, Len(s[k]))
    PROVE  Ordered(f) = [i \in 1 .. Len(s[k]) - first + 1 |-> Packet(s, k, first + i - 1)]
<1>. DEFINE n == Len(s[k])
            P(i) == Packet(s, k, i)
            step(p) == seqDistance(f.minSeq, p.sequenceNumber)
            found == {p \in f.packets : step(p) <= seqDistance(f.minSeq, f.maxSeq)}
            earlier(p) == {q \in found : step(q) < step(p)}
<1>1. n \in Nat /\ first \in 1 .. n /\ first .. n \subseteq Places(s, k) /\ n \in Places(s, k)
  BY Lengths DEF Places
<1>2. ASSUME NEW i \in first .. n PROVE step(P(i)) = i - first
  <2>1. P(i).sequenceNumber = Number(s, k, i)
    BY <1>1, PacketsDiffer
  <2>2. i \in Places(s, k) /\ first <= i
    BY <1>1
  <2>3. seqDistance(Number(s, k, first), Number(s, k, i)) = i - first
    BY <2>2, Numbers
  <2>. QED
    BY <2>1, <2>3
<1>3. seqDistance(f.minSeq, f.maxSeq) = n - first
  BY <1>1, Numbers
<1>. HIDE DEF P
<1>4. f.packets = {P(i) : i \in first .. n}
  BY DEF P
<1>5. found = {P(i) : i \in first .. n}
  <2>1. \A i \in first .. n : step(P(i)) <= n - first
    BY <1>1, <1>2
  <2>. HIDE DEF step
  <2>. QED
    BY <1>3, <1>4, <2>1
<1>6. Cardinality(found) = (n - first) + 1
  <2>1. first \in Int /\ n \in Int /\ ~(first > n)
    BY <1>1
  <2>2. Cardinality(first .. n) = IF first > n THEN 0 ELSE n - first + 1
    BY <2>1, FS_Interval
  <2>3. Cardinality({P(i) : i \in first .. n}) = Cardinality(first .. n)
    BY <1>1, CountedByPlace DEF P
  <2>. QED
    BY <1>5, <2>1, <2>2, <2>3
<1>7. ASSUME NEW i \in first .. n PROVE Cardinality(earlier(P(i))) = i - first
  <2>1. earlier(P(i)) = {P(j) : j \in first .. i - 1}
    <3>1. \A j \in first .. n : step(P(j)) < step(P(i)) <=> j \in first .. i - 1
      BY <1>1, <1>2
    <3>2. first .. i - 1 \subseteq first .. n
      BY <1>1
    <3>. HIDE DEF step, found
    <3>. QED
      BY <1>5, <3>1, <3>2
  <2>2. first \in Int /\ i - 1 \in Int /\ first .. i - 1 \subseteq Places(s, k)
    BY <1>1
  <2>3. Cardinality(first .. i - 1) = IF first > i - 1 THEN 0 ELSE (i - 1) - first + 1
    BY <2>2, FS_Interval
  <2>4. Cardinality({P(j) : j \in first .. i - 1}) = Cardinality(first .. i - 1)
    BY <2>2, CountedByPlace DEF P
  <2>5. Cardinality(first .. i - 1) = i - first
    BY <1>1, <2>3
  <2>. HIDE DEF earlier
  <2>. QED
    BY <2>1, <2>4, <2>5
<1>8. ASSUME NEW m \in 1 .. (n - first) + 1
      PROVE  (CHOOSE p \in found : Cardinality(earlier(p)) = m - 1) = P(first + (m - 1))
  <2>1. first + (m - 1) \in first .. n /\ (first + (m - 1)) - first = m - 1
    BY <1>1
  <2>. HIDE DEF earlier, found
  <2>2. \A i \in first .. n : Cardinality(earlier(P(i))) = m - 1 => i = first + (m - 1)
    BY <1>1, <1>7
  <2>3. \A p \in found : Cardinality(earlier(p)) = m - 1 <=> p = P(first + (m - 1))
    BY <1>5, <1>7, <2>1, <2>2
  <2>4. P(first + (m - 1)) \in found
    BY <1>5, <2>1
  <2>. QED
    BY <2>3, <2>4
<1>9. Ordered(f) = [m \in 1 .. Cardinality(found) |->
                      CHOOSE p \in found : Cardinality(earlier(p)) = m - 1]
  BY DEF Ordered
<1>. HIDE DEF found, earlier
<1>10. Ordered(f) = [m \in 1 .. (n - first) + 1 |-> P(first + (m - 1))]
  BY <1>6, <1>8, <1>9
<1>. QED
  BY <1>10 DEF P

-----------------------------------------------------------------------------
(* The invariant. *)

Stamps(K) == {Ts(k) : k \in K}

\* The access units of s of which F holds something.
HeldOf(s, F) == {k \in Units(s) : Ts(k) \in DOMAIN F}

FramesInv(s, F) ==
    /\ F = [t \in DOMAIN F |-> F[t]]
    /\ DOMAIN F \subseteq Stamps(Units(s))
    /\ \A k \in HeldOf(s, F) : Account(s, k, F[Ts(k)])

\* Once a frame has been played or given up, all that are held come after it.
PlayedInv(s, F, emitted, last) ==
    /\ emitted \in BOOLEAN
    /\ last \in 0 .. TsSize - 1
    /\ emitted => \E n \in Units(s) : last = Ts(n) /\ \A k \in HeldOf(s, F) : n < k

RunToEnd(s, ps) ==
    ps # <<>> =>
        \E k \in Units(s) : \E first \in Places(s, k) :
            ps = [i \in 1 .. Len(s[k]) - first + 1 |-> Packet(s, k, first + i - 1)]

IInv ==
    /\ stream \in Streams
    /\ FramesInv(stream, frames)
    /\ PlayedInv(stream, frames, hasEmitted, lastEmittedTs)
    /\ RunToEnd(stream, popped)

LEMMA LeastUnit ==
    ASSUME NEW S \in SUBSET Nat, S # {}
    PROVE  \E x \in S : \A y \in S : x <= y
<1>1. PICK x \in S : \A y \in S : <<y, x>> \notin OpToRel(<, Nat)
  BY NatLessThanWellFounded, WFMin
<1>2. \A y \in S : ~(y < x)
  BY <1>1 DEF OpToRel
<1>. QED
  BY <1>2

LEMMA GreatestUnit ==
    ASSUME NEW m \in Nat, NEW S \in SUBSET (1 .. m), S # {}
    PROVE  \E x \in S : \A y \in S : y <= x
<1>. DEFINE T == {m - x : x \in S}
<1>1. T \in SUBSET Nat /\ T # {}
  <2>1. \A x \in S : x \in Nat /\ m - x \in Nat
    OBVIOUS
  <2>. QED
    BY <2>1
<1>2. PICK d \in T : \A y \in T : d <= y
  BY <1>1, LeastUnit
<1>3. PICK x \in S : d = m - x
  BY <1>2
<1>4. \A y \in S : m - x <= m - y
  BY <1>2, <1>3
<1>. QED
  BY <1>4

\* The front of a set of timestamps is that of its first unit, the back that
\* of its last.
LEMMA FrontIsFirst ==
    ASSUME NEW s \in Streams, NEW K \in SUBSET Units(s), NEW m \in K,
           \A k \in K : m <= k
    PROVE  Earliest(Stamps(K)) = Ts(m)
<1>1. \A j, k \in K : /\ Ts(j) = Ts(k) <=> j = k
                      /\ tsLessThan(Ts(j), Ts(k)) <=> j < k
  BY Times
<1>2. \A k \in K : k \in Int
  BY DEF Units
<1>3. \A k \in K : k = m \/ m < k
  BY <1>2
<1>4. \A k \in K : (\A j \in K : j = k \/ k < j) <=> k = m
  BY <1>2, <1>3
<1>5. \A t \in Stamps(K) : (\A u \in Stamps(K) \ {t} : tsLessThan(t, u)) <=> t = Ts(m)
  <2>. SUFFICES ASSUME NEW k \in K
                PROVE  (\A u \in Stamps(K) \ {Ts(k)} : tsLessThan(Ts(k), u)) <=> Ts(k) = Ts(m)
    BY DEF Stamps
  <2>1. (\A u \in Stamps(K) \ {Ts(k)} : tsLessThan(Ts(k), u)) <=>
           (\A j \in K : j = k \/ k < j)
    BY <1>1 DEF Stamps
  <2>. QED
    BY <1>1, <1>4, <2>1
<1>6. Ts(m) \in Stamps(K)
  BY DEF Stamps
<1>. QED
  BY <1>5, <1>6 DEF Earliest

LEMMA BackIsLast ==
    ASSUME NEW s \in Streams, NEW K \in SUBSET Units(s), NEW m \in K,
           \A k \in K : k <= m
    PROVE  Latest(Stamps(K)) = Ts(m)
<1>1. \A j, k \in K : /\ Ts(j) = Ts(k) <=> j = k
                      /\ tsLessThan(Ts(j), Ts(k)) <=> j < k
  BY Times
<1>2. \A k \in K : k \in Int
  BY DEF Units
<1>3. \A k \in K : k = m \/ k < m
  BY <1>2
<1>4. \A k \in K : (\A j \in K : j = k \/ j < k) <=> k = m
  BY <1>2, <1>3
<1>5. \A t \in Stamps(K) : (\A u \in Stamps(K) \ {t} : tsLessThan(u, t)) <=> t = Ts(m)
  <2>. SUFFICES ASSUME NEW k \in K
                PROVE  (\A u \in Stamps(K) \ {Ts(k)} : tsLessThan(u, Ts(k))) <=> Ts(k) = Ts(m)
    BY DEF Stamps
  <2>1. (\A u \in Stamps(K) \ {Ts(k)} : tsLessThan(u, Ts(k))) <=>
           (\A j \in K : j = k \/ j < k)
    BY <1>1 DEF Stamps
  <2>. QED
    BY <1>1, <1>4, <2>1
<1>6. Ts(m) \in Stamps(K)
  BY DEF Stamps
<1>. QED
  BY <1>5, <1>6 DEF Latest

\* A pop leaves everything alone, or brings playout to a frame it holds: that
\* frame and all before it are gone, and what it hands on, if anything, is that
\* frame, complete.
Unchanged == popped' = <<>> /\ UNCHANGED <<frames, hasEmitted, lastEmittedTs>>

After(n) == {k \in HeldOf(stream, frames) : n < k}

PlaysTo(n) ==
    /\ frames' = [t \in Stamps(After(n)) |-> frames[t]]
    /\ hasEmitted' = TRUE /\ lastEmittedTs' = Ts(n)
    /\ \/ popped' = <<>>
       \/ isComplete(frames[Ts(n)]) /\ popped' = Ordered(frames[Ts(n)])

LEMMA PopEffect ==
    ASSUME stream \in Streams, FramesInv(stream, frames), pop
    PROVE  Unchanged \/ \E n \in HeldOf(stream, frames) : PlaysTo(n)
<1>. DEFINE H == HeldOf(stream, frames)
            D == {k \in H : Ts(k) \in Dropped}
            left == DOMAIN frames \ Dropped
            returned == Returned(left)
            gone == Dropped \cup returned
<1>1. /\ popped' = IF returned = {} THEN <<>> ELSE Ordered(frames[Earliest(returned)])
      /\ frames' = Without(gone)
      /\ IF gone = {}
         THEN UNCHANGED <<hasEmitted, lastEmittedTs>>
         ELSE hasEmitted' = TRUE /\ lastEmittedTs' = Latest(gone)
  BY DEF pop
<1>2. /\ H \subseteq Units(stream) /\ DOMAIN frames = Stamps(H)
      /\ \A j, k \in H : /\ Ts(j) = Ts(k) <=> j = k
                         /\ tsLessThan(Ts(j), Ts(k)) <=> j < k
      /\ \A k \in H : k \in Nat
  <2>1. H \subseteq Units(stream) /\ DOMAIN frames = Stamps(H)
    BY DEF FramesInv, HeldOf, Stamps
  <2>2. \A j, k \in Units(stream) : /\ Ts(j) = Ts(k) <=> j = k
                                    /\ tsLessThan(Ts(j), Ts(k)) <=> j < k
    BY Times
  <2>. QED
    BY <2>1, <2>2 DEF Units
<1>3. Dropped \subseteq Stamps(H)
  BY <1>2 DEF Dropped
<1>4. \A k \in D : \A j \in H : j < k => j \in D
  <2>. SUFFICES ASSUME NEW k \in D, NEW j \in H, j < k PROVE Ts(j) \in Dropped
    OBVIOUS
  <2>1. \A u \in DOMAIN frames : u = Ts(k) \/ tsLessThan(u, Ts(k)) =>
            Elapsed(frames[u]) /\ ~Playable(frames[u])
    BY DEF Dropped
  <2>2. ASSUME NEW i \in H, Ts(i) = Ts(j) \/ tsLessThan(Ts(i), Ts(j))
        PROVE  Elapsed(frames[Ts(i)]) /\ ~Playable(frames[Ts(i)])
    <3>1. i = j \/ i < j
      BY <1>2, <2>2
    <3>2. i < k
      BY <1>2, <3>1
    <3>3. tsLessThan(Ts(i), Ts(k)) /\ Ts(i) \in DOMAIN frames
      BY <1>2, <3>2 DEF Stamps
    <3>. QED
      BY <2>1, <3>3
  <2>3. Ts(j) \in DOMAIN frames
    BY <1>2 DEF Stamps
  <2>. QED
    BY <1>2, <2>2, <2>3 DEF Dropped, Stamps
<1>5. Dropped = Stamps(D) /\ left = Stamps(H \ D)
  BY <1>2, <1>3 DEF Stamps
<1>6. \A n \in H : (\A k \in H : Ts(k) \in gone <=> k <= n) =>
          /\ frames' = [t \in Stamps(After(n)) |-> frames[t]]
          /\ gone # {}
          /\ gone \subseteq DOMAIN frames => hasEmitted' = TRUE /\ lastEmittedTs' = Ts(n)
  <2>. SUFFICES ASSUME NEW n \in H, \A k \in H : Ts(k) \in gone <=> k <= n
                PROVE  /\ frames' = [t \in Stamps(After(n)) |-> frames[t]]
                       /\ gone # {}
                       /\ gone \subseteq DOMAIN frames =>
                              hasEmitted' = TRUE /\ lastEmittedTs' = Ts(n)
    OBVIOUS
  <2>. HIDE DEF gone, left, returned, D
  <2>1. n <= n
    BY <1>2
  <2>2. gone # {}
    BY <2>1
  <2>3. DOMAIN frames \ gone = Stamps(After(n))
    <3>1. \A k \in H : Ts(k) \notin gone <=> n < k
      BY <1>2
    <3>. QED
      BY <1>2, <3>1 DEF Stamps, After
  <2>4. ASSUME gone \subseteq DOMAIN frames PROVE Latest(gone) = Ts(n)
    <3>. DEFINE G == {k \in H : k <= n}
    <3>1. gone = Stamps(G)
      BY <1>2, <2>4 DEF Stamps
    <3>2. G \in SUBSET Units(stream) /\ n \in G /\ \A k \in G : k <= n
      BY <1>2, <2>1
    <3>. HIDE DEF G
    <3>. QED
      BY <3>1, <3>2, BackIsLast
  <2>. QED
    BY <1>1, <2>2, <2>3, <2>4 DEF Without
<1>7. CASE returned # {}
  <2>1. PICK m \in H \ D : /\ \A k \in H \ D : m <= k
                           /\ Earliest(left) = Ts(m)
    <3>1. left # {}
      BY <1>7 DEF Returned
    <3>2. H \ D \in SUBSET Nat /\ H \ D # {} /\ H \ D \in SUBSET Units(stream)
      BY <1>2, <1>5, <3>1 DEF Stamps
    <3>3. PICK m \in H \ D : \A k \in H \ D : m <= k
      BY <3>2, LeastUnit
    <3>4. Earliest(Stamps(H \ D)) = Ts(m)
      BY <3>2, <3>3, FrontIsFirst
    <3>. QED
      BY <1>5, <3>3, <3>4
  <2>2. returned = {Ts(m)} /\ isComplete(frames[Ts(m)])
    BY <1>7, <2>1 DEF Returned, Playable
  <2>3. \A k \in H : Ts(k) \in gone <=> k <= m
    <3>. SUFFICES ASSUME NEW k \in H PROVE (k \in D \/ k = m) <=> k <= m
      BY <1>2, <2>2
    <3>1. k \in D => k < m
      BY <1>2, <1>4, <2>1
    <3>2. k \notin D => m <= k
      BY <2>1
    <3>. HIDE DEF D
    <3>. QED
      BY <1>2, <2>1, <3>1, <3>2
  <2>4. gone \subseteq DOMAIN frames
    BY <1>2, <1>3, <2>2 DEF Stamps
  <2>5. Earliest(returned) = Ts(m)
    <3>1. {m} \in SUBSET Units(stream) /\ m \in {m} /\ \A k \in {m} : m <= k
      BY <1>2
    <3>2. Earliest(Stamps({m})) = Ts(m)
      BY <3>1, FrontIsFirst
    <3>3. Stamps({m}) = {Ts(m)}
      BY DEF Stamps
    <3>. QED
      BY <2>2, <3>2, <3>3
  <2>6. popped' = Ordered(frames[Ts(m)])
    BY <1>1, <1>7, <2>5
  <2>. HIDE DEF gone, left, returned, D
  <2>7. m \in H /\ PlaysTo(m)
    BY <1>6, <2>1, <2>2, <2>3, <2>4, <2>6 DEF PlaysTo
  <2>. QED
    BY <2>7
<1>8. CASE returned = {} /\ Dropped # {}
  <2>1. D # {} /\ D \in SUBSET (1 .. Len(stream)) /\ Len(stream) \in Nat
    BY <1>2, <1>5, <1>8, Lengths DEF Units, Stamps
  <2>2. PICK n \in D : \A k \in D : k <= n
    BY <2>1, GreatestUnit
  <2>3. \A k \in H : Ts(k) \in gone <=> k <= n
    <3>. SUFFICES ASSUME NEW k \in H PROVE k \in D <=> k <= n
      BY <1>8
    <3>1. k < n => k \in D
      BY <1>4, <2>2
    <3>. HIDE DEF D
    <3>2. n \in Int /\ k \in Int
      BY <1>2, <2>1, <2>2
    <3>. QED
      BY <2>2, <3>1, <3>2
  <2>4. gone \subseteq DOMAIN frames
    BY <1>2, <1>3, <1>8
  <2>5. popped' = <<>>
    BY <1>1, <1>8
  <2>. HIDE DEF gone, left, returned
  <2>6. n \in H /\ PlaysTo(n)
    BY <1>6, <2>2, <2>3, <2>4, <2>5 DEF PlaysTo
  <2>. QED
    BY <2>6
<1>9. CASE returned = {} /\ Dropped = {}
  <2>1. frames = [t \in DOMAIN frames |-> frames[t]]
    BY DEF FramesInv
  <2>2. gone = {}
    BY <1>9
  <2>3. frames' = frames
    BY <1>1, <2>1, <2>2 DEF Without
  <2>4. Unchanged
    BY <1>1, <1>9, <2>2, <2>3 DEF Unchanged
  <2>. QED
    BY <2>4
<1>. QED
  BY <1>7, <1>8, <1>9

\* A push grows the frame of some unit that playout has not come to.
Grown(k, g) ==
    /\ frames' = [t \in DOMAIN frames \cup {Ts(k)} |-> IF t = Ts(k) THEN g ELSE frames[t]]
    /\ Account(stream, k, g)
    /\ hasEmitted => \A n \in Units(stream) : lastEmittedTs = Ts(n) => n < k
    /\ UNCHANGED <<stream, hasEmitted, lastEmittedTs, popped>>

LEMMA PushEffect ==
    ASSUME stream \in Streams, FramesInv(stream, frames),
           NEW p \in Sent(stream), push(p)
    PROVE  \E k \in Units(stream) : \E g : Grown(k, g)
<1>0. PICK k \in Units(stream) : p \in Packets(stream, k)
  BY DEF Sent, Units
<1>1. PICK i \in Places(stream, k) : p = Packet(stream, k, i)
  BY <1>0 DEF Packets, Places
<1>2. p.timestamp = Ts(k)
  BY <1>1, PacketsDiffer
<1>3. /\ ~TooLate(p)
      /\ UNCHANGED <<stream, hasEmitted, lastEmittedTs, popped>>
  BY DEF push
<1>4. hasEmitted => \A n \in Units(stream) : lastEmittedTs = Ts(n) => n < k
  <2>. SUFFICES ASSUME hasEmitted, NEW n \in Units(stream), lastEmittedTs = Ts(n)
                PROVE  n < k
    OBVIOUS
  <2>1. Ts(k) # Ts(n) /\ ~tsLessThan(Ts(k), Ts(n))
    BY <1>2, <1>3 DEF TooLate
  <2>2. n # k /\ ~(k < n)
    BY <2>1, Times
  <2>3. n \in Int /\ k \in Int
    BY DEF Units
  <2>. QED
    BY <2>2, <2>3
<1>5. CASE p.timestamp \in DOMAIN frames
  <2>. DEFINE g == WithPacket(frames[Ts(k)], p)
  <2>1. Account(stream, k, frames[Ts(k)])
    BY <1>2, <1>5 DEF FramesInv, HeldOf
  <2>2. Account(stream, k, g)
    BY <1>1, <2>1, MoreAccount
  <2>3. frames' = [frames EXCEPT ![Ts(k)] = g]
    BY <1>2, <1>5 DEF push
  <2>. HIDE DEF g
  <2>4. frames' = [t \in DOMAIN frames \cup {Ts(k)} |-> IF t = Ts(k) THEN g ELSE frames[t]]
    BY <1>2, <1>5, <2>3
  <2>5. Grown(k, g)
    BY <1>3, <1>4, <2>2, <2>4 DEF Grown
  <2>. QED
    BY <2>5
<1>6. CASE p.timestamp \notin DOMAIN frames
  <2>. DEFINE g == NewFrame(p)
  <2>1. Account(stream, k, g)
    BY <1>1, NewAccount
  <2>2. frames' = [t \in DOMAIN frames \cup {Ts(k)} |-> IF t = Ts(k) THEN g ELSE frames[t]]
    BY <1>2, <1>6 DEF push
  <2>3. Grown(k, g)
    BY <1>3, <1>4, <2>1, <2>2 DEF Grown
  <2>. QED
    BY <2>3
<1>. QED
  BY <1>5, <1>6

LEMMA GrownHeld ==
    ASSUME stream \in Streams, NEW k \in Units(stream), NEW g, Grown(k, g)
    PROVE  /\ stream' = stream
           /\ HeldOf(stream, frames') = HeldOf(stream, frames) \cup {k}
<1>1. DOMAIN frames' = DOMAIN frames \cup {Ts(k)} /\ stream' = stream
  BY DEF Grown
<1>2. \A j \in Units(stream) : Ts(j) = Ts(k) <=> j = k
  BY Times
<1>. QED
  BY <1>1, <1>2 DEF HeldOf

LEMMA PushKeeps ==
    ASSUME IInv, NEW p \in Sent(stream), push(p)
    PROVE  IInv'
<1>0. PICK k \in Units(stream) : \E g : Grown(k, g)
  BY PushEffect DEF IInv
<1>1. PICK g : Grown(k, g)
  BY <1>0
<1>2. /\ stream' = stream /\ hasEmitted' = hasEmitted /\ lastEmittedTs' = lastEmittedTs
      /\ popped' = popped
      /\ HeldOf(stream, frames') = HeldOf(stream, frames) \cup {k}
      /\ frames' = [t \in DOMAIN frames \cup {Ts(k)} |-> IF t = Ts(k) THEN g ELSE frames[t]]
      /\ Account(stream, k, g)
      /\ hasEmitted => \A n \in Units(stream) : lastEmittedTs = Ts(n) => n < k
  BY <1>1, GrownHeld DEF Grown, IInv
<1>3. FramesInv(stream, frames')
  <2>1. frames' = [t \in DOMAIN frames' |-> frames'[t]]
    BY <1>2
  <2>2. DOMAIN frames' \subseteq Stamps(Units(stream))
    BY <1>2 DEF IInv, FramesInv, Stamps
  <2>3. ASSUME NEW j \in HeldOf(stream, frames) \cup {k}
        PROVE  Account(stream, j, frames'[Ts(j)])
    <3>1. CASE j = k
      BY <1>2, <3>1
    <3>2. CASE j # k
      <4>1. j \in HeldOf(stream, frames) /\ j \in Units(stream) /\ Ts(j) \in DOMAIN frames
        BY <3>2 DEF HeldOf
      <4>2. Ts(j) # Ts(k)
        BY <3>2, <4>1, Times DEF IInv
      <4>3. frames'[Ts(j)] = frames[Ts(j)]
        BY <1>2, <4>1, <4>2
      <4>. QED
        BY <4>1, <4>3 DEF IInv, FramesInv
    <3>. QED
      BY <3>1, <3>2
  <2>. QED
    BY <1>2, <2>1, <2>2, <2>3 DEF FramesInv
<1>4. PlayedInv(stream, frames', hasEmitted, lastEmittedTs)
  <2>1. /\ hasEmitted \in BOOLEAN /\ lastEmittedTs \in 0 .. TsSize - 1
        /\ hasEmitted => \E n \in Units(stream) :
              lastEmittedTs = Ts(n) /\ \A j \in HeldOf(stream, frames) : n < j
    BY DEF IInv, PlayedInv
  <2>2. hasEmitted => \E n \in Units(stream) :
              lastEmittedTs = Ts(n) /\ \A j \in HeldOf(stream, frames) \cup {k} : n < j
    BY <1>2, <2>1
  <2>. QED
    BY <1>2, <2>1, <2>2 DEF PlayedInv
<1>5. IInv' = (/\ stream' \in Streams /\ FramesInv(stream', frames')
               /\ PlayedInv(stream', frames', hasEmitted', lastEmittedTs')
               /\ RunToEnd(stream', popped'))
  BY DEF IInv
<1>. QED
  BY <1>2, <1>3, <1>4, <1>5 DEF IInv

LEMMA PlaysToHeld ==
    ASSUME stream \in Streams, FramesInv(stream, frames),
           NEW n \in HeldOf(stream, frames), PlaysTo(n)
    PROVE  /\ n \in Units(stream) /\ HeldOf(stream, frames') = After(n)
           /\ n \notin After(n) /\ After(n) \subseteq HeldOf(stream, frames)
<1>1. After(n) \subseteq Units(stream) /\ n \in Units(stream)
  BY DEF After, HeldOf
<1>2. \A j, k \in Units(stream) : Ts(j) = Ts(k) <=> j = k
  BY Times
<1>3. DOMAIN frames' = Stamps(After(n))
  BY DEF PlaysTo
<1>4. \A k \in Units(stream) : Ts(k) \in Stamps(After(n)) <=> k \in After(n)
  BY <1>1, <1>2 DEF Stamps
<1>5. HeldOf(stream, frames') = After(n)
  BY <1>1, <1>3, <1>4 DEF HeldOf
<1>. QED
  BY <1>1, <1>5 DEF After, Units

LEMMA EmittedRun ==
    ASSUME stream \in Streams, FramesInv(stream, frames), NEW n \in HeldOf(stream, frames),
           isComplete(frames[Ts(n)])
    PROVE  \E first \in Places(stream, n) :
              Ordered(frames[Ts(n)]) =
                 [i \in 1 .. Len(stream[n]) - first + 1 |-> Packet(stream, n, first + i - 1)]
<1>. DEFINE f == frames[Ts(n)]
<1>1. n \in Units(stream) /\ Account(stream, n, f)
  BY DEF FramesInv, HeldOf
<1>. HIDE DEF f
<1>2. isComplete(f)
  BY DEF f
<1>3. PICK first \in Places(stream, n) :
              /\ f.packets = {Packet(stream, n, i) : i \in first .. Len(stream[n])}
              /\ f.minSeq = Number(stream, n, first)
              /\ f.maxSeq = Number(stream, n, Len(stream[n]))
  BY <1>1, <1>2, CompleteIsRun
<1>4. Ordered(f) =
         [i \in 1 .. Len(stream[n]) - first + 1 |-> Packet(stream, n, first + i - 1)]
  BY <1>1, <1>3, RunInOrder
<1>. QED
  BY <1>4 DEF f

LEMMA PopKeeps ==
    ASSUME IInv, pop
    PROVE  IInv'
<1>1. stream' = stream /\ stream \in Streams /\ FramesInv(stream, frames)
  BY DEF IInv, pop
<1>2. IInv' = (/\ stream' \in Streams /\ FramesInv(stream', frames')
               /\ PlayedInv(stream', frames', hasEmitted', lastEmittedTs')
               /\ RunToEnd(stream', popped'))
  BY DEF IInv
<1>3. CASE Unchanged
  <2>1. RunToEnd(stream, popped')
    BY <1>3 DEF Unchanged, RunToEnd
  <2>. QED
    BY <1>1, <1>2, <1>3, <2>1 DEF Unchanged, IInv
<1>4. ASSUME NEW n \in HeldOf(stream, frames), PlaysTo(n)
      PROVE  IInv'
  <2>1. /\ n \in Units(stream) /\ HeldOf(stream, frames') = After(n)
        /\ After(n) \subseteq HeldOf(stream, frames)
    BY <1>1, <1>4, PlaysToHeld
  <2>2. frames' = [t \in Stamps(After(n)) |-> frames[t]]
    BY <1>4 DEF PlaysTo
  <2>3. FramesInv(stream, frames')
    <3>1. DOMAIN frames' \subseteq Stamps(Units(stream))
      BY <2>1, <2>2 DEF Stamps, HeldOf
    <3>2. \A k \in After(n) : Account(stream, k, frames'[Ts(k)])
      <4>1. \A k \in After(n) : frames'[Ts(k)] = frames[Ts(k)]
        BY <2>2 DEF Stamps
      <4>. QED
        BY <1>1, <2>1, <4>1 DEF FramesInv
    <3>. QED
      BY <2>1, <2>2, <3>1, <3>2 DEF FramesInv
  <2>4. PlayedInv(stream, frames', hasEmitted', lastEmittedTs')
    <3>1. hasEmitted' = TRUE /\ lastEmittedTs' = Ts(n)
      BY <1>4 DEF PlaysTo
    <3>2. Ts(n) \in 0 .. TsSize - 1
      BY <1>1, <2>1, Times
    <3>3. \A k \in After(n) : n < k
      BY DEF After
    <3>. QED
      BY <2>1, <3>1, <3>2, <3>3 DEF PlayedInv
  <2>5. RunToEnd(stream, popped')
    <3>1. CASE popped' = <<>>
      BY <3>1 DEF RunToEnd
    <3>2. CASE isComplete(frames[Ts(n)]) /\ popped' = Ordered(frames[Ts(n)])
      <4>1. \E first \in Places(stream, n) :
              popped' = [i \in 1 .. Len(stream[n]) - first + 1 |->
                            Packet(stream, n, first + i - 1)]
        BY <1>1, <3>2, EmittedRun
      <4>. QED
        BY <2>1, <4>1 DEF RunToEnd
    <3>. QED
      BY <1>4, <3>1, <3>2 DEF PlaysTo
  <2>. QED
    BY <1>1, <1>2, <2>3, <2>4, <2>5
<1>. QED
  BY <1>1, <1>3, <1>4, PopEffect

LEMMA TickKeeps ==
    ASSUME IInv, Tick
    PROVE  IInv'
<1>. DEFINE W(f) == IF Elapsed(f) THEN f ELSE [f EXCEPT !.waited = @ + 1]
<1>1. /\ frames' = [t \in DOMAIN frames |-> W(frames[t])]
      /\ stream' = stream /\ hasEmitted' = hasEmitted /\ lastEmittedTs' = lastEmittedTs
      /\ popped' = popped
  BY DEF Tick
<1>2. HeldOf(stream, frames') = HeldOf(stream, frames)
  BY <1>1 DEF HeldOf
<1>3. ASSUME NEW k \in HeldOf(stream, frames)
      PROVE  Account(stream, k, W(frames[Ts(k)]))
  <2>. DEFINE f == frames[Ts(k)]
              g == [f EXCEPT !.waited = f.waited + 1]
  <2>1. Account(stream, k, f)
    BY DEF IInv, FramesInv
  <2>. HIDE DEF f
  <2>2. CASE Elapsed(f)
    BY <2>1, <2>2 DEF f
  <2>3. CASE ~Elapsed(f)
    <3>1. f \in FrameRecord(stream)
      BY <2>1 DEF Account
    <3>2. f.waited + 1 \in 0 .. targetDelay
      BY <2>3, <3>1, JitterBufferAssumption DEF Elapsed, FrameRecord
    <3>3. /\ g \in FrameRecord(stream)
          /\ g.packets = f.packets /\ g.minSeq = f.minSeq /\ g.maxSeq = f.maxSeq
          /\ g.hasMarker = f.hasMarker
      BY <3>1, <3>2 DEF FrameRecord
    <3>. HIDE DEF g
    <3>4. Account(stream, k, g)
      BY <2>1, <3>3 DEF Account, Bounded
    <3>. QED
      BY <2>3, <3>4 DEF f, g
  <2>. QED
    BY <2>2, <2>3
<1>4. FramesInv(stream, frames')
  <2>1. DOMAIN frames' = DOMAIN frames
    BY <1>1
  <2>2. \A k \in HeldOf(stream, frames) : frames'[Ts(k)] = W(frames[Ts(k)])
    BY <1>1 DEF HeldOf
  <2>. HIDE DEF W
  <2>. QED
    BY <1>1, <1>2, <1>3, <2>1, <2>2 DEF FramesInv, IInv
<1>5. PlayedInv(stream, frames', hasEmitted, lastEmittedTs)
  BY <1>2 DEF PlayedInv, IInv
<1>6. IInv' = (/\ stream' \in Streams /\ FramesInv(stream', frames')
               /\ PlayedInv(stream', frames', hasEmitted', lastEmittedTs')
               /\ RunToEnd(stream', popped'))
  BY DEF IInv
<1>. QED
  BY <1>1, <1>4, <1>5, <1>6 DEF IInv

LEMMA InitKept == Init => IInv
<1>. SUFFICES ASSUME Init PROVE IInv
  OBVIOUS
<1>1. DOMAIN frames = {}
  BY DEF Init
<1>2. frames = [t \in DOMAIN frames |-> frames[t]]
  BY DEF Init
<1>3. FramesInv(stream, frames)
  BY <1>1, <1>2 DEF FramesInv, HeldOf
<1>4. PlayedInv(stream, frames, hasEmitted, lastEmittedTs)
  <2>1. hasEmitted = FALSE /\ lastEmittedTs \in 0 .. TsSize - 1
    BY JitterBufferAssumption DEF Init
  <2>. QED
    BY <2>1 DEF PlayedInv
<1>. QED
  BY <1>3, <1>4 DEF Init, IInv, RunToEnd

LEMMA Invariance == Spec => []IInv
<1>1. IInv /\ [Next]_vars => IInv'
  <2>. SUFFICES ASSUME IInv, [Next]_vars PROVE IInv'
    OBVIOUS
  <2>1. CASE UNCHANGED vars
    <3>1. IInv' = (/\ stream' \in Streams /\ FramesInv(stream', frames')
                   /\ PlayedInv(stream', frames', hasEmitted', lastEmittedTs')
                   /\ RunToEnd(stream', popped'))
      BY DEF IInv
    <3>. QED
      BY <2>1, <3>1 DEF vars, IInv
  <2>. QED
    BY <2>1, PushKeeps, PopKeeps, TickKeeps DEF Next
<1>. QED
  BY <1>1, InitKept, PTL DEF Spec

LEMMA AccountIsRight ==
    ASSUME NEW s \in Streams, NEW k \in Units(s), NEW f, Account(s, k, f)
    PROVE  LET held == Positions(s, k, f.packets)
           IN  /\ f.packets # {} /\ f.packets \subseteq Packets(s, k)
               /\ f.minSeq = Number(s, k, Lowest(held))
               /\ f.maxSeq = Number(s, k, Highest(held))
               /\ f.hasMarker = (Len(s[k]) \in held)
               /\ f.waited \in 0 .. targetDelay
<1>. DEFINE held == Positions(s, k, f.packets)
<1>1. PICK lo \in Places(s, k), hi \in Places(s, k) : Bounded(s, k, f, lo, hi)
  BY DEF Account
<1>2. /\ lo \in held /\ hi \in held /\ \A i \in held : lo <= i /\ i <= hi
      /\ f.minSeq = Number(s, k, lo) /\ f.maxSeq = Number(s, k, hi)
  BY <1>1 DEF Bounded
<1>3. f.packets # {} /\ \A i \in held : i \in Int
  BY <1>2 DEF Positions
<1>4. f.hasMarker = (Len(s[k]) \in held) /\ f.waited \in 0 .. targetDelay
  <2>1. f.hasMarker \in BOOLEAN /\ f.waited \in 0 .. targetDelay
    BY DEF Account, FrameRecord
  <2>2. f.hasMarker <=> Len(s[k]) \in held
    BY DEF Account
  <2>. QED
    BY <2>1, <2>2
<1>. HIDE DEF held
<1>5. Lowest(held) = lo /\ Highest(held) = hi
  <2>1. \A x \in held : (\A y \in held : x <= y) <=> x = lo
    BY <1>2, <1>3
  <2>2. \A x \in held : (\A y \in held : x >= y) <=> x = hi
    BY <1>2, <1>3
  <2>. QED
    BY <1>2, <2>1, <2>2 DEF Lowest, Highest
<1>. QED
  BY <1>2, <1>3, <1>4, <1>5 DEF Account, held

\* The buffer's account of its frames is right (JitterBuffer.cpp:52): bounds and
\* markers under wrapping numbers, whatever the order in which packets come and
\* however often; nothing that is buffered is late; and what pop returns is a run
\* of packets as they were sent, to the end of its access unit.
THEOREM BufferIsSound == Spec => []BufferInv
<1>1. IInv => BufferInv
  <2>. SUFFICES ASSUME IInv PROVE BufferInv
    OBVIOUS
  <2>1. TypeOK
    <3>1. DOMAIN frames \subseteq {Ts(k) : k \in 1 .. Len(stream)}
      BY DEF IInv, FramesInv, Stamps, Units
    <3>2. hasEmitted \in BOOLEAN /\ lastEmittedTs \in 0 .. TsSize - 1
      BY DEF IInv, PlayedInv
    <3>3. ASSUME NEW k \in 1 .. Len(stream), Ts(k) \in DOMAIN frames
          PROVE  LET f == frames[Ts(k)]
                     held == Positions(stream, k, f.packets)
                 IN  /\ f.packets # {} /\ f.packets \subseteq Packets(stream, k)
                     /\ f.minSeq = Number(stream, k, Lowest(held))
                     /\ f.maxSeq = Number(stream, k, Highest(held))
                     /\ f.hasMarker = (Len(stream[k]) \in held)
                     /\ f.waited \in 0 .. targetDelay
      <4>1. stream \in Streams /\ k \in Units(stream) /\ Account(stream, k, frames[Ts(k)])
        BY <3>3 DEF IInv, FramesInv, HeldOf, Units
      <4>. QED
        BY <4>1, AccountIsRight
    <3>. QED
      BY <3>1, <3>2, <3>3 DEF TypeOK
  <2>2. NothingLateBuffered
    <3>. SUFFICES ASSUME hasEmitted, NEW t \in DOMAIN frames
                  PROVE  tsLessThan(lastEmittedTs, t)
      BY DEF NothingLateBuffered
    <3>1. PICK n \in Units(stream) :
             lastEmittedTs = Ts(n) /\ \A k \in HeldOf(stream, frames) : n < k
      BY DEF IInv, PlayedInv
    <3>2. PICK k \in Units(stream) : t = Ts(k)
      BY DEF IInv, FramesInv, Stamps
    <3>3. n < k
      BY <3>1, <3>2 DEF HeldOf
    <3>. QED
      BY <3>1, <3>2, <3>3, Times DEF IInv
  <2>3. EmittedIsContiguous
    BY DEF IInv, RunToEnd, EmittedIsContiguous, Units, Places
  <2>. QED
    BY <2>1, <2>2, <2>3 DEF BufferInv
<1>. QED
  BY <1>1, Invariance, PTL

-----------------------------------------------------------------------------
(* The gaps of a frame.                                                    *)

\* A number on the circle and one further on.
LEMMA Shifted ==
    ASSUME NEW m \in Nat \ {0}, NEW c \in Int, NEW t \in Int
    PROVE  ((c % m) + t) % m = (c + t) % m
<1>. DEFINE r == c % m
            p == c \div m
            e == (r + t) % m
            q == (r + t) \div m
<1>1. p \in Int /\ r \in 0 .. m - 1 /\ c = m * p + r
  BY DivMod
<1>. HIDE DEF r, p
<1>2. q \in Int /\ e \in 0 .. m - 1 /\ r + t = m * q + e
  <2>1. r + t \in Int
    BY <1>1
  <2>. QED
    BY <2>1, DivMod
<1>. HIDE DEF e, q
<1>3. p + q \in Int /\ m * (p + q) = m * p + m * q
  BY <1>1, <1>2
<1>4. c + t = m * (p + q) + e
  BY <1>1, <1>2, <1>3
<1>. DEFINE u == c + t
            w == p + q
<1>5. u \in Int /\ w \in Int /\ u = m * w + e
  BY <1>3, <1>4
<1>. HIDE DEF u, w
<1>6. u % m = e
  BY <1>2, <1>5, Remainder
<1>. QED
  BY <1>6 DEF e, r, u

\* A number of the circle is as far from c as its distance says.
LEMMA Reached ==
    ASSUME NEW m \in Nat \ {0}, NEW c \in Int, NEW x \in 0 .. m - 1
    PROVE  (c + ((x - (c % m)) % m)) % m = x
<1>. DEFINE r == c % m
            p == c \div m
            d == (x - r) % m
            q == (x - r) \div m
<1>1. p \in Int /\ r \in 0 .. m - 1 /\ c = m * p + r
  BY DivMod
<1>. HIDE DEF r, p
<1>2. q \in Int /\ d \in 0 .. m - 1 /\ x - r = m * q + d
  <2>1. x - r \in Int
    BY <1>1
  <2>. QED
    BY <2>1, DivMod
<1>. HIDE DEF d, q
<1>3. p - q \in Int /\ m * (p - q) = m * p - m * q
  BY <1>1, <1>2
<1>4. c + d \in Int /\ c + d = m * (p - q) + x
  BY <1>1, <1>2, <1>3
<1>5. (c + d) % m = x
  BY <1>3, <1>4, Remainder
<1>. QED
  BY <1>5 DEF d, r

\* The numbers of a unit go on past its ends.
LEMMA NumberIs ==
    ASSUME NEW s \in Streams, NEW k \in Units(s)
    PROVE  \E b \in Int : \A j \in Int : Number(s, k, j) = (b + j) % SeqSize
<1>. DEFINE b == (FirstSeq + Before(s, k)) - 1
<1>1. FirstSeq \in Int /\ Before(s, k) \in Int
  <2>1. k \in 1 .. Len(s) + 1 /\ s \in Seq(Seq(STRING))
    BY Lengths DEF Units
  <2>2. Before(s, k) \in Nat
    BY <2>1, BeforeIsNat
  <2>. QED
    BY <2>2, JitterBufferAssumption
<1>2. ASSUME NEW j \in Int PROVE Number(s, k, j) = (b + j) % SeqSize
  <2>1. FirstSeq + Before(s, k) + (j - 1) = b + j
    BY <1>1
  <2>. QED
    BY <1>1, <2>1 DEF Number
<1>3. b \in Int
  BY <1>1
<1>. HIDE DEF b
<1>. QED
  BY <1>2, <1>3

LEMMA NextNumber ==
    ASSUME NEW s \in Streams, NEW k \in Units(s), NEW i \in Places(s, k)
    PROVE  /\ (Number(s, k, i) - 1) % SeqSize = Number(s, k, i - 1)
           /\ (Number(s, k, i) + 1) % SeqSize = Number(s, k, i + 1)
<1>1. PICK b \in Int : \A j \in Int : Number(s, k, j) = (b + j) % SeqSize
  BY NumberIs
<1>2. SeqSize \in Nat \ {0} /\ i \in Int /\ i - 1 \in Int /\ i + 1 \in Int
  BY JitterBufferAssumption DEF Places
<1>3. b + i \in Int /\ (b + i) - 1 = b + (i - 1) /\ (b + i) + 1 = b + (i + 1)
  BY <1>2
<1>4. /\ (((b + i) % SeqSize) - 1) % SeqSize = (b + (i - 1)) % SeqSize
      /\ (((b + i) % SeqSize) + 1) % SeqSize = (b + (i + 1)) % SeqSize
  <2>. DEFINE c == b + i
              r == c % SeqSize
  <2>1. c \in Int /\ 1 \in Int /\ -1 \in Int /\ r \in Int
    BY <1>2, <1>3, DivMod
  <2>2. (r + 1) % SeqSize = (c + 1) % SeqSize
    BY <1>2, <2>1, Shifted
  <2>3. (r + (-1)) % SeqSize = (c + (-1)) % SeqSize
    BY <1>2, <2>1, Shifted
  <2>. HIDE DEF r
  <2>4. r + (-1) = r - 1 /\ c + (-1) = b + (i - 1) /\ c + 1 = b + (i + 1)
    BY <1>2, <2>1
  <2>. HIDE DEF c
  <2>5. (r + 1) % SeqSize = (b + (i + 1)) % SeqSize /\ (r - 1) % SeqSize = (b + (i - 1)) % SeqSize
    BY <2>2, <2>3, <2>4
  <2>. QED
    BY <2>5 DEF r, c
<1>. QED
  BY <1>1, <1>2, <1>4

NumbersOf(s, k, S) == {Number(s, k, i) : i \in S}

LEMMA SameNumbers ==
    ASSUME NEW s \in Streams, NEW k \in Units(s), NEW S \in SUBSET Places(s, k),
           NEW i \in Places(s, k)
    PROVE  Number(s, k, i) \in NumbersOf(s, k, S) <=> i \in S
<1>1. \A j \in S : Number(s, k, i) = Number(s, k, j) <=> i = j
  BY Numbers
<1>. QED
  BY <1>1 DEF NumbersOf

\* A number at most so far from that of a place is that of a later place.
LEMMA Within ==
    ASSUME NEW s \in Streams, NEW k \in Units(s), NEW i \in Places(s, k),
           NEW x \in 0 .. SeqSize - 1
    PROVE  /\ seqDistance(Number(s, k, i), x) \in Nat
           /\ x = Number(s, k, i + seqDistance(Number(s, k, i), x))
<1>. DEFINE d == seqDistance(Number(s, k, i), x)
<1>1. PICK b \in Int : \A j \in Int : Number(s, k, j) = (b + j) % SeqSize
  BY NumberIs
<1>2. SeqSize \in Nat \ {0} /\ i \in Int /\ b + i \in Int
  BY JitterBufferAssumption DEF Places
<1>3. d = (x - ((b + i) % SeqSize)) % SeqSize
  BY <1>1, <1>2 DEF seqDistance
<1>4. (b + i) % SeqSize \in Int
  BY <1>2, DivMod
<1>5. d \in Nat
  <2>. DEFINE r == (b + i) % SeqSize
  <2>1. x - r \in Int
    BY <1>2, <1>4
  <2>. HIDE DEF r
  <2>2. (x - r) % SeqSize \in 0 .. SeqSize - 1
    BY <1>2, <2>1, DivMod
  <2>. QED
    BY <1>2, <1>3, <2>2 DEF r
<1>6. ((b + i) + d) % SeqSize = x
  BY <1>2, <1>3, Reached
<1>. HIDE DEF d
<1>7. i + d \in Int /\ b + (i + d) = (b + i) + d
  BY <1>2, <1>5
<1>8. Number(s, k, i + d) = x
  BY <1>1, <1>6, <1>7
<1>. QED
  BY <1>5, <1>8 DEF d

\* The places between the bounds of a frame of which it has no packet.
Holes(s, k, f, lo, hi) == (lo .. hi) \ Positions(s, k, f.packets)

LEMMA NumbersHeld ==
    ASSUME NEW s \in Streams, NEW k \in Units(s), NEW f, f.packets \in SUBSET Packets(s, k)
    PROVE  Seqs(f) = NumbersOf(s, k, Positions(s, k, f.packets))
<1>. DEFINE held == Positions(s, k, f.packets)
<1>1. f.packets = {Packet(s, k, i) : i \in held} /\ held \subseteq Places(s, k)
  BY PacketsByPlace
<1>2. \A i \in held : Packet(s, k, i).sequenceNumber = Number(s, k, i)
  BY <1>1, PacketsDiffer
<1>. HIDE DEF held
<1>3. Seqs(f) = {Packet(s, k, i).sequenceNumber : i \in held}
  BY <1>1 DEF Seqs
<1>. QED
  BY <1>2, <1>3 DEF NumbersOf, held

\* What is missing between the bounds are the numbers of these places.
LEMMA MissingByPlace ==
    ASSUME NEW s \in Streams, NEW k \in Units(s), NEW f, f.packets \in SUBSET Packets(s, k),
           NEW lo \in Places(s, k), NEW hi \in Places(s, k), Bounded(s, k, f, lo, hi)
    PROVE  Missing(f) = NumbersOf(s, k, Holes(s, k, f, lo, hi))
<1>. DEFINE held == Positions(s, k, f.packets)
            G == Holes(s, k, f, lo, hi)
<1>1. /\ lo \in held /\ hi \in held /\ lo <= hi
      /\ f.minSeq = Number(s, k, lo) /\ f.maxSeq = Number(s, k, hi)
      /\ held \subseteq Places(s, k)
  BY PacketsByPlace DEF Bounded
<1>2. \A i \in lo .. hi : i \in Places(s, k)
  BY DEF Places
<1>3. Seqs(f) = NumbersOf(s, k, held)
  BY NumbersHeld
<1>. HIDE DEF held
<1>4. \A i \in G : i \in lo .. hi /\ i \notin held /\ i \in Places(s, k)
  BY <1>2 DEF Holes, held
<1>5. \A i \in lo .. hi : i \notin held => i \in G
  BY DEF Holes, held
<1>6. seqDistance(f.minSeq, f.maxSeq) = hi - lo
  BY <1>1, Numbers
<1>. HIDE DEF G
<1>7. ASSUME NEW x \in Missing(f) PROVE x \in NumbersOf(s, k, G)
  <2>. DEFINE d == seqDistance(f.minSeq, x)
  <2>1. x \in 0 .. SeqSize - 1 /\ d < hi - lo /\ x \notin NumbersOf(s, k, held)
    BY <1>3, <1>6 DEF Missing
  <2>2. d \in Nat /\ x = Number(s, k, lo + d)
    BY <1>1, <2>1, Within
  <2>. HIDE DEF d
  <2>3. lo + d \in lo .. hi
    BY <2>1, <2>2 DEF Places
  <2>4. lo + d \notin held
    BY <2>1, <2>2 DEF NumbersOf
  <2>. QED
    BY <1>5, <2>2, <2>3, <2>4 DEF NumbersOf
<1>8. ASSUME NEW i \in G PROVE Number(s, k, i) \in Missing(f)
  <2>1. i \in Places(s, k) /\ i \in lo .. hi /\ i \notin held
    BY <1>4
  <2>2. lo <= i /\ i < hi /\ lo \in Int /\ hi \in Int /\ i \in Int
    BY <1>1, <2>1 DEF Places
  <2>3. /\ Number(s, k, i) \in 0 .. SeqSize - 1
        /\ seqDistance(f.minSeq, Number(s, k, i)) = i - lo
    BY <1>1, <2>1, <2>2, Numbers
  <2>4. Number(s, k, i) \notin Seqs(f)
    BY <1>1, <1>3, <2>1, SameNumbers
  <2>5. i - lo < hi - lo
    BY <2>2
  <2>. QED
    BY <1>6, <2>3, <2>4, <2>5 DEF Missing
<1>. QED
  BY <1>7, <1>8 DEF NumbersOf, G

LEMMA RunByPlace ==
    ASSUME NEW s \in Streams, NEW k \in Units(s), NEW a \in Places(s, k), NEW b \in Places(s, k)
    PROVE  /\ a <= b => Run(Number(s, k, a), Number(s, k, b)) = NumbersOf(s, k, a .. b)
           /\ b < a => \A i \in Places(s, k) :
                          a <= i => Number(s, k, i) \in Run(Number(s, k, a), Number(s, k, b))
<1>. DEFINE R == Run(Number(s, k, a), Number(s, k, b))
<1>1. CASE a <= b
  <2>1. seqDistance(Number(s, k, a), Number(s, k, b)) = b - a
    BY <1>1, Numbers
  <2>2. \A i \in a .. b : i \in Places(s, k) /\ a <= i /\ i \in Int
    BY DEF Places
  <2>3. ASSUME NEW x \in R PROVE x \in NumbersOf(s, k, a .. b)
    <3>. DEFINE d == seqDistance(Number(s, k, a), x)
    <3>1. x \in 0 .. SeqSize - 1 /\ d <= b - a
      BY <2>1 DEF Run
    <3>2. d \in Nat /\ x = Number(s, k, a + d)
      BY <3>1, Within
    <3>. HIDE DEF d
    <3>3. a + d \in a .. b
      BY <3>1, <3>2 DEF Places
    <3>. QED
      BY <3>2, <3>3 DEF NumbersOf
  <2>4. ASSUME NEW i \in a .. b PROVE Number(s, k, i) \in R
    <3>1. /\ Number(s, k, i) \in 0 .. SeqSize - 1
          /\ seqDistance(Number(s, k, a), Number(s, k, i)) = i - a
      BY <2>2, Numbers
    <3>2. i - a <= b - a
      BY DEF Places
    <3>. QED
      BY <2>1, <3>1, <3>2 DEF Run
  <2>5. R = NumbersOf(s, k, a .. b)
    <3>. HIDE DEF R
    <3>. QED
      BY <2>3, <2>4 DEF NumbersOf
  <2>6. ~(b < a)
    BY <1>1 DEF Places
  <2>. QED
    BY <2>5, <2>6
<1>2. CASE b < a
  <2>1. seqDistance(Number(s, k, a), Number(s, k, b)) = (SeqSize + b) - a
    BY <1>2, Numbers
  <2>2. ASSUME NEW i \in Places(s, k), a <= i PROVE Number(s, k, i) \in R
    <3>1. /\ Number(s, k, i) \in 0 .. SeqSize - 1
          /\ seqDistance(Number(s, k, a), Number(s, k, i)) = i - a
      BY <2>2, Numbers
    <3>2. i - a <= (SeqSize + b) - a
      <4>1. SeqSize \in Nat /\ Len(s[k]) \in Nat /\ 2 * Len(s[k]) < SeqSize
        BY Lengths, JitterBufferAssumption
      <4>. QED
        BY <4>1 DEF Places
    <3>. QED
      BY <2>1, <3>1, <3>2 DEF Run
  <2>3. ~(a <= b)
    BY <1>2 DEF Places
  <2>. QED
    BY <2>2, <2>3
<1>3. a <= b \/ b < a
  BY DEF Places
<1>. QED
  BY <1>1, <1>2, <1>3

\* From a to b nothing but holes, and none next to them.
Maximal(G, a, b) ==
    /\ a \in G /\ b \in G /\ a <= b /\ a .. b \subseteq G
    /\ a - 1 \notin G /\ b + 1 \notin G

LEMMA RunAround ==
    ASSUME NEW n \in Nat, NEW G \in SUBSET (1 .. n), NEW i \in G
    PROVE  \E a, b \in G : Maximal(G, a, b) /\ i \in a .. b
<1>. DEFINE A == {x \in G : x <= i /\ x .. i \subseteq G}
            B == {y \in G : i <= y /\ i .. y \subseteq G}
<1>0. \A x \in G : x \in Int /\ x \in 1 .. n /\ x \in Nat
  OBVIOUS
<1>1. i \in A /\ i \in B /\ A \in SUBSET Nat /\ B \in SUBSET (1 .. n)
  <2>1. i <= i /\ \A x \in i .. i : x = i
    BY <1>0
  <2>. QED
    BY <1>0, <2>1
<1>. HIDE DEF A, B
<1>2. PICK a \in A : \A x \in A : a <= x
  BY <1>1, LeastUnit
<1>3. PICK b \in B : \A y \in B : y <= b
  BY <1>1, GreatestUnit
<1>4. a \in G /\ a <= i /\ a .. i \subseteq G /\ b \in G /\ i <= b /\ i .. b \subseteq G
  BY DEF A, B
<1>5. a \in Int /\ b \in Int /\ i \in Int
  BY <1>0, <1>4
<1>6. a .. b \subseteq G
  <2>1. \A x \in a .. b : x \in a .. i \/ x \in i .. b
    BY <1>4, <1>5
  <2>. QED
    BY <1>4, <2>1
<1>7. a - 1 \notin G
  <2>. SUFFICES ASSUME a - 1 \in G PROVE FALSE
    OBVIOUS
  <2>1. a - 1 <= i /\ \A x \in a - 1 .. i : x = a - 1 \/ x \in a .. i
    BY <1>4, <1>5
  <2>2. a - 1 \in A
    BY <1>4, <2>1 DEF A
  <2>. QED
    BY <1>2, <1>5, <2>2
<1>8. b + 1 \notin G
  <2>. SUFFICES ASSUME b + 1 \in G PROVE FALSE
    OBVIOUS
  <2>1. i <= b + 1 /\ \A x \in i .. b + 1 : x = b + 1 \/ x \in i .. b
    BY <1>4, <1>5
  <2>2. b + 1 \in B
    BY <1>4, <2>1 DEF B
  <2>. QED
    BY <1>3, <1>5, <2>2
<1>9. a <= b /\ i \in a .. b
  BY <1>4, <1>5
<1>. QED
  BY <1>4, <1>6, <1>7, <1>8, <1>9 DEF Maximal

LEMMA RunsAreApart ==
    ASSUME NEW G \in SUBSET Nat, NEW a, NEW b, NEW c, NEW d,
           Maximal(G, a, b), Maximal(G, c, d), NEW i \in a .. b, i \in c .. d
    PROVE  a = c /\ b = d
<1>1. a \in Int /\ b \in Int /\ c \in Int /\ d \in Int /\ i \in Int
  BY DEF Maximal
<1>2. a <= i /\ i <= b /\ c <= i /\ i <= d
  BY <1>1
<1>3. /\ a .. b \subseteq G /\ c .. d \subseteq G
      /\ a - 1 \notin G /\ c - 1 \notin G /\ b + 1 \notin G /\ d + 1 \notin G
  BY DEF Maximal
<1>4. ~(a < c)
  <2>1. a < c => c - 1 \in a .. b
    BY <1>1, <1>2
  <2>. QED
    BY <1>3, <2>1
<1>5. ~(c < a)
  <2>1. c < a => a - 1 \in c .. d
    BY <1>1, <1>2
  <2>. QED
    BY <1>3, <2>1
<1>6. ~(b < d)
  <2>1. b < d => b + 1 \in c .. d
    BY <1>1, <1>2
  <2>. QED
    BY <1>3, <2>1
<1>7. ~(d < b)
  <2>1. d < b => d + 1 \in a .. b
    BY <1>1, <1>2
  <2>. QED
    BY <1>3, <2>1
<1>. QED
  BY <1>1, <1>4, <1>5, <1>6, <1>7

\* The gaps of a frame are its maximal runs of holes.
LEMMA GapsByPlace ==
    ASSUME NEW s \in Streams, NEW k \in Units(s), NEW f, f.packets \in SUBSET Packets(s, k),
           NEW lo \in Places(s, k), NEW hi \in Places(s, k), Bounded(s, k, f, lo, hi)
    PROVE  LET G == Holes(s, k, f, lo, hi)
           IN  /\ G \subseteq Places(s, k)
               /\ Missing(f) = NumbersOf(s, k, G)
               /\ \A g \in GapsOf(f) :
                    \E a, b \in G : Maximal(G, a, b) /\ g = NumbersOf(s, k, a .. b)
               /\ \A a, b \in G : Maximal(G, a, b) => NumbersOf(s, k, a .. b) \in GapsOf(f)
<1>. DEFINE G == Holes(s, k, f, lo, hi)
<1>1. Missing(f) = NumbersOf(s, k, G)
  BY MissingByPlace
<1>2. /\ \A i \in lo .. hi : i \in Places(s, k)
      /\ \A i \in Places(s, k) : i \in Int
      /\ lo \in Int /\ hi \in Int /\ hi \notin G /\ lo \notin G /\ G \subseteq lo .. hi
  BY DEF Places, Holes, Bounded
<1>. HIDE DEF G
<1>3. G \in SUBSET Places(s, k)
  BY <1>2
<1>4. \A i \in Places(s, k) : Number(s, k, i) \in Missing(f) <=> i \in G
  BY <1>1, <1>3, SameNumbers
<1>5. ASSUME NEW g \in GapsOf(f)
      PROVE  \E a, b \in G : Maximal(G, a, b) /\ g = NumbersOf(s, k, a .. b)
  <2>1. PICK x \in Missing(f), y \in Missing(f) :
           /\ g = Run(x, y) /\ Run(x, y) \subseteq Missing(f)
           /\ (x - 1) % SeqSize \notin Missing(f) /\ (y + 1) % SeqSize \notin Missing(f)
    BY DEF GapsOf
  <2>2. PICK a \in G : x = Number(s, k, a)
    BY <1>1 DEF NumbersOf
  <2>3. PICK b \in G : y = Number(s, k, b)
    BY <1>1 DEF NumbersOf
  <2>4. a \in Places(s, k) /\ b \in Places(s, k)
    BY <1>3
  <2>5. a <= b
    <3>. SUFFICES ASSUME b < a PROVE FALSE
      BY <1>2, <2>4
    <3>1. a <= hi
      BY <1>2
    <3>2. Number(s, k, hi) \in Run(x, y)
      BY <2>2, <2>3, <2>4, <3>1, RunByPlace
    <3>. QED
      BY <1>2, <1>4, <2>1, <3>2
  <2>6. Run(x, y) = NumbersOf(s, k, a .. b)
    BY <2>2, <2>3, <2>4, <2>5, RunByPlace
  <2>7. a .. b \subseteq G
    <3>. SUFFICES ASSUME NEW i \in a .. b PROVE i \in G
      OBVIOUS
    <3>1. i \in Places(s, k)
      BY <2>4 DEF Places
    <3>2. Number(s, k, i) \in Missing(f)
      BY <2>1, <2>6 DEF NumbersOf
    <3>. QED
      BY <1>4, <3>1, <3>2
  <2>8. a - 1 \notin G /\ b + 1 \notin G
    <3>1. (x - 1) % SeqSize = Number(s, k, a - 1) /\ (y + 1) % SeqSize = Number(s, k, b + 1)
      BY <2>2, <2>3, <2>4, NextNumber
    <3>. QED
      BY <1>1, <2>1, <3>1 DEF NumbersOf
  <2>. QED
    BY <2>1, <2>5, <2>6, <2>7, <2>8 DEF Maximal
<1>6. ASSUME NEW a \in G, NEW b \in G, Maximal(G, a, b)
      PROVE  NumbersOf(s, k, a .. b) \in GapsOf(f)
  <2>. DEFINE x == Number(s, k, a)
              y == Number(s, k, b)
  <2>1. a \in Places(s, k) /\ b \in Places(s, k) /\ a <= b /\ a .. b \subseteq G
    BY <1>3, <1>6 DEF Maximal
  <2>2. Run(x, y) = NumbersOf(s, k, a .. b)
    BY <2>1, RunByPlace
  <2>3. x \in Missing(f) /\ y \in Missing(f) /\ Run(x, y) \subseteq Missing(f)
    BY <1>1, <2>1, <2>2 DEF NumbersOf
  <2>4. a - 1 \in Places(s, k) /\ b + 1 \in Places(s, k)
    <3>1. lo < a /\ b < hi
      BY <1>2
    <3>2. a - 1 \in lo .. hi /\ b + 1 \in lo .. hi
      BY <1>2, <2>1, <3>1
    <3>. QED
      BY <1>2, <3>2
  <2>5. /\ (x - 1) % SeqSize = Number(s, k, a - 1) /\ (y + 1) % SeqSize = Number(s, k, b + 1)
    BY <2>1, NextNumber
  <2>6. (x - 1) % SeqSize \notin Missing(f) /\ (y + 1) % SeqSize \notin Missing(f)
    BY <1>4, <1>6, <2>4, <2>5 DEF Maximal
  <2>. HIDE DEF x, y
  <2>7. <<x, y>> \in {g \in Missing(f) \X Missing(f) :
            /\ Run(g[1], g[2]) \subseteq Missing(f)
            /\ (g[1] - 1) % SeqSize \notin Missing(f)
            /\ (g[2] + 1) % SeqSize \notin Missing(f)}
    BY <2>3, <2>6
  <2>8. Run(x, y) \in GapsOf(f)
    BY <2>7 DEF GapsOf
  <2>. QED
    BY <2>2, <2>8
<1>. QED
  BY <1>1, <1>3, <1>5, <1>6 DEF G

LEMMA FrameGaps ==
    ASSUME NEW s \in Streams, NEW k \in Units(s), NEW f, Account(s, k, f)
    PROVE  LET held == Positions(s, k, f.packets)
           IN  /\ UNION GapsOf(f) = NumbersOf(s, k, Lowest(held) .. Highest(held))
                                      \ NumbersOf(s, k, held)
               /\ UNION GapsOf(f) \subseteq NumbersOf(s, k, Places(s, k))
               /\ \A g, h \in GapsOf(f) : g = h \/ g \cap h = {}
<1>. DEFINE held == Positions(s, k, f.packets)
<1>1. PICK lo \in Places(s, k), hi \in Places(s, k) : Bounded(s, k, f, lo, hi)
  BY DEF Account
<1>2. f.packets \in SUBSET Packets(s, k)
  BY DEF Account
<1>. DEFINE G == Holes(s, k, f, lo, hi)
<1>3. /\ G \in SUBSET Places(s, k)
      /\ Missing(f) = NumbersOf(s, k, G)
      /\ \A g \in GapsOf(f) : \E a, b \in G : Maximal(G, a, b) /\ g = NumbersOf(s, k, a .. b)
      /\ \A a, b \in G : Maximal(G, a, b) => NumbersOf(s, k, a .. b) \in GapsOf(f)
  BY <1>1, <1>2, GapsByPlace
<1>4. /\ lo \in held /\ hi \in held /\ \A i \in held : lo <= i /\ i <= hi
      /\ held \in SUBSET Places(s, k) /\ \A i \in held : i \in Int
      /\ G = (lo .. hi) \ held
      /\ lo .. hi \in SUBSET Places(s, k)
  BY <1>1 DEF Bounded, Positions, Holes, Places
<1>. HIDE DEF held, G
<1>5. Lowest(held) = lo /\ Highest(held) = hi
  <2>1. \A x \in held : (\A y \in held : x <= y) <=> x = lo
    BY <1>4
  <2>2. \A x \in held : (\A y \in held : x >= y) <=> x = hi
    BY <1>4
  <2>. QED
    BY <1>4, <2>1, <2>2 DEF Lowest, Highest
<1>6. NumbersOf(s, k, lo .. hi) \ NumbersOf(s, k, held) = NumbersOf(s, k, G)
  <2>1. \A i \in Places(s, k) : Number(s, k, i) \in NumbersOf(s, k, held) <=> i \in held
    BY <1>4, SameNumbers
  <2>. QED
    BY <1>4, <2>1 DEF NumbersOf
<1>7. UNION GapsOf(f) = NumbersOf(s, k, G)
  <2>1. UNION GapsOf(f) \subseteq NumbersOf(s, k, G)
    BY <1>3 DEF NumbersOf, Maximal
  <2>2. ASSUME NEW i \in G PROVE Number(s, k, i) \in UNION GapsOf(f)
    <3>1. Len(s[k]) \in Nat /\ G \in SUBSET (1 .. Len(s[k]))
      BY <1>3, Lengths DEF Places
    <3>2. PICK a \in G, b \in G : Maximal(G, a, b) /\ i \in a .. b
      BY <3>1, RunAround
    <3>3. NumbersOf(s, k, a .. b) \in GapsOf(f)
      BY <1>3, <3>2
    <3>4. Number(s, k, i) \in NumbersOf(s, k, a .. b)
      BY <3>2 DEF NumbersOf
    <3>. QED
      BY <3>3, <3>4
  <2>. QED
    BY <2>1, <2>2 DEF NumbersOf
<1>8. ASSUME NEW g \in GapsOf(f), NEW h \in GapsOf(f), g \cap h # {} PROVE g = h
  <2>1. PICK a \in G, b \in G : Maximal(G, a, b) /\ g = NumbersOf(s, k, a .. b)
    BY <1>3
  <2>2. PICK c \in G, d \in G : Maximal(G, c, d) /\ h = NumbersOf(s, k, c .. d)
    BY <1>3
  <2>3. PICK x \in g : x \in h
    BY <1>8
  <2>4. PICK i \in a .. b : x = Number(s, k, i)
    BY <2>1, <2>3 DEF NumbersOf
  <2>5. PICK j \in c .. d : x = Number(s, k, j)
    BY <2>2, <2>3 DEF NumbersOf
  <2>6. i \in Places(s, k) /\ j \in Places(s, k)
    BY <1>3, <2>1, <2>2 DEF Maximal
  <2>7. i = j
    <3>1. Number(s, k, i) = Number(s, k, j) <=> i = j
      BY <2>6, Numbers
    <3>. QED
      BY <2>4, <2>5, <3>1
  <2>8. G \in SUBSET Nat
    BY <1>3 DEF Places
  <2>9. a = c /\ b = d
    BY <2>1, <2>2, <2>7, <2>8, RunsAreApart
  <2>. QED
    BY <2>1, <2>2, <2>9
<1>. QED
  <2>1. NumbersOf(s, k, G) \subseteq NumbersOf(s, k, Places(s, k))
    BY <1>3 DEF NumbersOf
  <2>. QED
    BY <1>5, <1>6, <1>7, <1>8, <2>1 DEF held

-----------------------------------------------------------------------------
(* All the numbers of a stream.                                            *)

\* Of later units come at least as many packets before.
LEMMA BeforeGrows ==
    ASSUME NEW s \in Streams, NEW j \in Units(s), NEW k \in 1 .. Len(s) + 1, j < k,
           NEW i \in Places(s, j)
    PROVE  Before(s, j) + i <= Before(s, k)
<1>. DEFINE T == Sites(s, j)
            U == {j} \X (1 .. i)
<1>1. s \in Seq(Seq(STRING)) /\ Len(s) \in Nat /\ j \in 1 .. Len(s) + 1 /\ s[j] \in Seq(STRING)
  BY Lengths DEF Units
<1>2. /\ IsFiniteSet(T) /\ IsFiniteSet(Sites(s, k))
      /\ Cardinality(T) \in Nat /\ Cardinality(Sites(s, k)) \in Nat
  BY <1>1, SitesFinite
<1>3. i \in Nat /\ 1 .. i \subseteq DOMAIN s[j]
  BY <1>1 DEF Places
<1>4. IsFiniteSet(U) /\ Cardinality(U) = i
  <2>1. 1 \in Int /\ i \in Int
    BY <1>3
  <2>2. IsFiniteSet(1 .. i) /\ Cardinality(1 .. i) = IF 1 > i THEN 0 ELSE (i - 1) + 1
    BY <2>1, FS_Interval
  <2>3. IsFiniteSet({j}) /\ Cardinality({j}) = 1
    BY FS_Singleton
  <2>4. IsFiniteSet(U) /\ Cardinality(U) = Cardinality({j}) * Cardinality(1 .. i)
    BY <2>2, <2>3, FS_Product
  <2>. QED
    BY <1>3, <2>2, <2>3, <2>4
<1>5. T \cap U = {}
  BY <1>1 DEF Sites
<1>6. T \cup U \subseteq Sites(s, k)
  <2>1. 1 .. j - 1 \subseteq 1 .. k - 1 /\ j \in 1 .. k - 1
    BY <1>1
  <2>2. T \subseteq Sites(s, k)
    BY <2>1 DEF Sites
  <2>3. U \subseteq {j} \X DOMAIN s[j]
    BY <1>3
  <2>4. {j} \X DOMAIN s[j] \subseteq Sites(s, k)
    BY <2>1 DEF Sites
  <2>. QED
    BY <2>2, <2>3, <2>4
<1>. HIDE DEF T, U
<1>7. Cardinality(T \cup U) = Cardinality(T) + i
  <2>1. /\ IsFiniteSet(T \cup U)
        /\ Cardinality(T \cup U) = Cardinality(T) + Cardinality(U) - Cardinality(T \cap U)
    BY <1>2, <1>4, FS_Union
  <2>2. Cardinality(T \cap U) = 0
    BY <1>5, FS_EmptySet
  <2>. QED
    BY <1>2, <1>3, <1>4, <2>1, <2>2
<1>8. Cardinality(T \cup U) <= Cardinality(Sites(s, k))
  BY <1>2, <1>6, FS_Subset
<1>. QED
  BY <1>7, <1>8 DEF T, Sites, Before

\* Two packets of a stream never have the same number.
LEMMA UnitsApart ==
    ASSUME NEW s \in Streams, NEW j \in Units(s), NEW k \in Units(s), j < k,
           NEW x \in Places(s, j), NEW y \in Places(s, k)
    PROVE  Number(s, j, x) # Number(s, k, y)
<1>. DEFINE p == (Before(s, j) + x) - 1
            q == (Before(s, k) + y) - 1
<1>1. /\ s \in Seq(Seq(STRING)) /\ Len(s) \in Nat /\ j \in 1 .. Len(s) + 1
      /\ k \in 1 .. Len(s) + 1 /\ Len(s) + 1 \in 1 .. Len(s) + 1 /\ k < Len(s) + 1
  BY Lengths DEF Units
<1>2. Before(s, j) \in Nat /\ Before(s, k) \in Nat /\ Before(s, Len(s) + 1) \in Nat
  BY <1>1, BeforeIsNat
<1>3. Before(s, j) + x <= Before(s, k) /\ Before(s, k) + y <= Before(s, Len(s) + 1)
  BY <1>1, BeforeGrows
<1>4. SeqSize \in Nat \ {0} /\ FirstSeq \in Int /\ Before(s, Len(s) + 1) <= SeqSize
  BY JitterBufferAssumption
<1>5. x \in Nat /\ y \in Nat /\ 0 < x /\ 0 < y
  BY DEF Places
<1>6. p \in Int /\ q \in Int /\ 0 <= p /\ p < q /\ q < SeqSize
  BY <1>2, <1>3, <1>4, <1>5
<1>7. Number(s, j, x) = (FirstSeq + p) % SeqSize /\ Number(s, k, y) = (FirstSeq + q) % SeqSize
  <2>1. /\ FirstSeq + Before(s, j) + (x - 1) = FirstSeq + p
        /\ FirstSeq + Before(s, k) + (y - 1) = FirstSeq + q
    BY <1>2, <1>4, <1>5
  <2>2. /\ FirstSeq + Before(s, j) + x - 1 = FirstSeq + p
        /\ FirstSeq + Before(s, k) + y - 1 = FirstSeq + q
    BY <1>2, <1>4, <1>5
  <2>. QED
    BY <2>1, <2>2 DEF Number
<1>. HIDE DEF p, q
<1>. DEFINE u == (FirstSeq + p) % SeqSize
            v == (FirstSeq + q) % SeqSize
<1>8. (v - u) % SeqSize = q - p
  <2>1. p - q < SeqSize /\ q - p < SeqSize /\ p <= q
    BY <1>4, <1>6
  <2>. QED
    BY <1>4, <1>6, <2>1, Around
<1>9. (u - u) % SeqSize = p - p
  <2>1. p - p < SeqSize /\ p <= p
    BY <1>4, <1>6
  <2>. QED
    BY <1>4, <1>6, <2>1, Around
<1>. HIDE DEF u, v
<1>10. u # v
  BY <1>6, <1>8, <1>9
<1>. QED
  BY <1>7, <1>10 DEF u, v

\* gaps() names the packets that are missing between two that are buffered for
\* one access unit, and nothing else, each in one gap (JitterBuffer.cpp:120).
THEOREM GapsAreTheLosses == Spec => []GapsAreLosses
<1>1. IInv => GapsAreLosses
  <2>. SUFFICES ASSUME IInv PROVE GapsAreLosses
    OBVIOUS
  <2>. DEFINE K == HeldOf(stream, frames)
              f(k) == frames[Ts(k)]
              held(k) == Positions(stream, k, f(k).packets)
              missed(k) == NumbersOf(stream, k, Lowest(held(k)) .. Highest(held(k)))
                           \ NumbersOf(stream, k, held(k))
  <2>1. stream \in Streams /\ K \subseteq Units(stream)
    BY DEF IInv, HeldOf
  <2>2. \A k \in K : Account(stream, k, f(k))
    BY DEF IInv, FramesInv
  <2>3. DOMAIN frames = {Ts(k) : k \in K}
    BY DEF IInv, FramesInv, Stamps, HeldOf
  <2>4. K = {j \in 1 .. Len(stream) : Ts(j) \in DOMAIN frames}
    BY DEF HeldOf, Units
  <2>5. gaps = UNION {GapsOf(f(k)) : k \in K}
    BY <2>3 DEF gaps
  <2>6. ASSUME NEW k \in K
        PROVE  /\ UNION GapsOf(f(k)) = missed(k)
               /\ UNION GapsOf(f(k)) \subseteq NumbersOf(stream, k, Places(stream, k))
               /\ \A g, h \in GapsOf(f(k)) : g = h \/ g \cap h = {}
    <3>1. k \in Units(stream) /\ Account(stream, k, f(k))
      BY <2>1, <2>2
    <3>. HIDE DEF f
    <3>. QED
      BY <2>1, <3>1, FrameGaps
  <2>7. UNION gaps = UNION {missed(k) : k \in K}
    <3>. HIDE DEF K, f, missed
    <3>1. UNION gaps = UNION {UNION GapsOf(f(k)) : k \in K}
      BY <2>5
    <3>. QED
      BY <2>6, <3>1
  <2>8. ASSUME NEW g \in gaps, NEW h \in gaps, g \cap h # {} PROVE g = h
    <3>1. PICK j \in K : g \in GapsOf(f(j))
      BY <2>5
    <3>2. PICK k \in K : h \in GapsOf(f(k))
      BY <2>5
    <3>3. PICK x \in g : x \in h
      BY <2>8
    <3>4. PICK a \in Places(stream, j) : x = Number(stream, j, a)
      BY <2>6, <3>1, <3>3 DEF NumbersOf
    <3>5. PICK b \in Places(stream, k) : x = Number(stream, k, b)
      BY <2>6, <3>2, <3>3 DEF NumbersOf
    <3>6. j \in Units(stream) /\ k \in Units(stream)
      BY <2>1
    <3>7. ~(j < k) /\ ~(k < j)
      BY <2>1, <3>4, <3>5, <3>6, UnitsApart
    <3>8. j = k
      BY <3>6, <3>7 DEF Units
    <3>. QED
      BY <2>6, <2>8, <3>1, <3>2, <3>8
  <2>9. UNION {missed(k) : k \in K} = UNION {
          LET have == Positions(stream, k, frames[Ts(k)].packets)
          IN  {Number(stream, k, i) : i \in Lowest(have) .. Highest(have)}
                \ {Number(stream, k, i) : i \in have}
          : k \in {j \in 1 .. Len(stream) : Ts(j) \in DOMAIN frames}}
    <3>. HIDE DEF K
    <3>. QED
      BY <2>4 DEF NumbersOf
  <2>. HIDE DEF K, missed
  <2>. QED
    BY <2>7, <2>8, <2>9 DEF GapsAreLosses
<1>. QED
  BY <1>1, Invariance, PTL

-----------------------------------------------------------------------------
(* What the buffer promises.                                               *)

LEMMA HeldUnits ==
    ASSUME NEW s \in Streams, NEW F, FramesInv(s, F)
    PROVE  {Index(s, t) : t \in DOMAIN F} = HeldOf(s, F)
<1>1. DOMAIN F = Stamps(HeldOf(s, F))
  BY DEF FramesInv, HeldOf, Stamps
<1>2. \A k \in HeldOf(s, F) : Index(s, Ts(k)) = k
  BY IndexOfTs DEF HeldOf
<1>. QED
  BY <1>1, <1>2 DEF Stamps

\* How far playout is, by the numbers of access units.
LEMMA PlayoutIs ==
    ASSUME IInv
    PROVE  /\ Playout = [held |-> HeldOf(stream, frames), last |-> Playout.last]
           /\ ~hasEmitted => Playout.last = 0
           /\ \A n \in Units(stream) : hasEmitted /\ lastEmittedTs = Ts(n) => Playout.last = n
<1>1. {Index(stream, t) : t \in DOMAIN frames} = HeldOf(stream, frames)
  BY HeldUnits DEF IInv
<1>2. \A n \in Units(stream) : Index(stream, Ts(n)) = n
  BY IndexOfTs DEF IInv
<1>. QED
  BY <1>1, <1>2 DEF Playout

LEMMA PushIsReceived ==
    ASSUME IInv, IInv', NEW p \in Sent(stream), push(p)
    PROVE  \E k \in Indices : Promise!Receive(k)
<1>0. PICK k \in Units(stream) : \E g : Grown(k, g)
  BY PushEffect DEF IInv
<1>1. PICK g : Grown(k, g)
  BY <1>0
<1>2. /\ HeldOf(stream', frames') = HeldOf(stream, frames) \cup {k}
      /\ stream' = stream /\ hasEmitted' = hasEmitted /\ lastEmittedTs' = lastEmittedTs
      /\ popped' = popped
      /\ hasEmitted => \A n \in Units(stream) : lastEmittedTs = Ts(n) => n < k
  BY <1>1, GrownHeld DEF Grown, IInv
<1>3. Playout = [held |-> HeldOf(stream, frames), last |-> Playout.last]
  BY PlayoutIs
<1>4. Playout' = [held |-> HeldOf(stream, frames) \cup {k}, last |-> Playout.last]
  <2>1. {Index(stream', t) : t \in DOMAIN frames'} = HeldOf(stream', frames')
    <3>1. stream' \in Streams /\ FramesInv(stream', frames')
      BY DEF IInv
    <3>. QED
      BY <3>1, HeldUnits
  <2>2. Playout.last = IF hasEmitted THEN Index(stream, lastEmittedTs) ELSE 0
    BY DEF Playout
  <2>. QED
    BY <1>2, <2>1, <2>2 DEF Playout
<1>5. k > Playout.last
  <2>1. CASE hasEmitted
    <3>1. PICK n \in Units(stream) : lastEmittedTs = Ts(n)
      BY <2>1 DEF IInv, PlayedInv
    <3>2. Playout.last = n /\ n < k
      BY <1>2, <2>1, <3>1, PlayoutIs
    <3>. QED
      BY <3>2 DEF Units
  <2>2. CASE ~hasEmitted
    BY <2>2, PlayoutIs DEF Units
  <2>. QED
    BY <2>1, <2>2
<1>6. HandedOn' = HandedOn
  BY <1>2 DEF HandedOn
<1>7. k \in Indices
  BY DEF IInv, Indices, Units
<1>8. Promise!Receive(k)
  BY <1>3, <1>4, <1>5, <1>6 DEF Promise!Receive, Promise!Received
<1>. QED
  BY <1>7, <1>8

LEMMA PopIsPop ==
    ASSUME IInv, IInv', pop
    PROVE  Promise!Pop
<1>1. stream \in Streams /\ FramesInv(stream, frames) /\ stream' = stream
  BY DEF IInv, pop
<1>2. CASE Unchanged
  <2>1. HandedOn' = 0 /\ Playout' = Playout
    BY <1>1, <1>2 DEF Unchanged, HandedOn, Playout
  <2>. QED
    BY <2>1 DEF Promise!Pop, Promise!NoFrame
<1>3. ASSUME NEW n \in HeldOf(stream, frames), PlaysTo(n)
      PROVE  Promise!Pop
  <2>1. n \in Units(stream) /\ HeldOf(stream, frames') = After(n)
    BY <1>1, <1>3, PlaysToHeld
  <2>2. Playout = [held |-> HeldOf(stream, frames), last |-> Playout.last]
    BY PlayoutIs
  <2>3. Playout' = [held |-> After(n), last |-> n]
    <3>1. {Index(stream', t) : t \in DOMAIN frames'} = HeldOf(stream', frames')
      <4>1. stream' \in Streams /\ FramesInv(stream', frames')
        BY DEF IInv
      <4>. QED
        BY <4>1, HeldUnits
    <3>2. hasEmitted' = TRUE /\ lastEmittedTs' = Ts(n)
      BY <1>3 DEF PlaysTo
    <3>3. Index(stream, Ts(n)) = n
      BY <1>1, <2>1, IndexOfTs
    <3>. QED
      BY <1>1, <2>1, <3>1, <3>2, <3>3 DEF Playout
  <2>4. Playout' = Promise!Past(Playout, n)
    <3>1. \A m \in HeldOf(stream, frames) : n < m <=> m > n
      BY <2>1 DEF HeldOf, Units
    <3>2. After(n) = {m \in HeldOf(stream, frames) : m > n}
      BY <3>1 DEF After
    <3>. QED
      BY <2>2, <2>3, <3>2 DEF Promise!Past
  <2>5. HandedOn' \in {n, 0}
    <3>1. CASE popped' = <<>>
      BY <3>1 DEF HandedOn
    <3>2. CASE isComplete(frames[Ts(n)]) /\ popped' = Ordered(frames[Ts(n)])
      <4>1. PICK first \in Places(stream, n) :
              popped' = [i \in 1 .. Len(stream[n]) - first + 1 |->
                            Packet(stream, n, first + i - 1)]
        BY <1>1, <3>2, EmittedRun
      <4>2. 1 \in 1 .. Len(stream[n]) - first + 1 /\ first + (1 - 1) = first
        BY <1>1, <2>1, Lengths DEF Places
      <4>3. popped'[1] = Packet(stream, n, first) /\ popped' # <<>>
        BY <4>1, <4>2
      <4>4. popped'[1].timestamp = Ts(n)
        BY <4>3 DEF Packet
      <4>. QED
        BY <1>1, <2>1, <4>3, <4>4, IndexOfTs DEF HandedOn
    <3>. QED
      BY <1>3, <3>1, <3>2 DEF PlaysTo
  <2>6. n \in Playout.held
    BY <2>2
  <2>. QED
    BY <2>4, <2>5, <2>6 DEF Promise!Pop, Promise!NoFrame
<1>. QED
  BY <1>1, <1>2, <1>3, PopEffect

\* The jitter buffer keeps the promise of FrameStream (JitterBuffer.h:77): it
\* hands on some of the frames of which it has received something, each later
\* than all it has handed on or given up before.
THEOREM BufferKeepsPromise == Spec => ImplementsFrameStream
<1>1. Init => Promise!Init
  <2>. SUFFICES ASSUME Init PROVE Promise!Init
    OBVIOUS
  <2>1. Playout = [held |-> {}, last |-> 0]
    <3>1. DOMAIN frames = {} /\ hasEmitted = FALSE
      BY DEF Init
    <3>2. {Index(stream, t) : t \in DOMAIN frames} = {}
      BY <3>1
    <3>. QED
      BY <3>1, <3>2 DEF Playout
  <2>2. HandedOn = 0
    BY DEF Init, HandedOn
  <2>. QED
    BY <2>1, <2>2 DEF Promise!Init, Promise!EmptyQueue, Promise!NoFrame
<1>2. IInv /\ IInv' /\ [Next]_vars => [Promise!Next]_<<Playout, HandedOn>>
  <2>. SUFFICES ASSUME IInv, IInv', [Next]_vars
                PROVE  [Promise!Next]_<<Playout, HandedOn>>
    OBVIOUS
  <2>1. CASE Tick
    <3>1. DOMAIN frames' = DOMAIN frames
      BY <2>1 DEF Tick
    <3>2. Playout' = Playout /\ HandedOn' = HandedOn
      BY <2>1, <3>1 DEF Tick, Playout, HandedOn
    <3>. QED
      BY <3>2
  <2>2. CASE UNCHANGED vars
    BY <2>2 DEF vars, Playout, HandedOn
  <2>3. CASE pop
    BY <2>3, PopIsPop DEF Promise!Next
  <2>4. ASSUME NEW p \in Sent(stream), push(p) PROVE Promise!Next
    BY <2>4, PushIsReceived DEF Promise!Next
  <2>. QED
    BY <2>1, <2>2, <2>3, <2>4 DEF Next
<1>. QED
  BY <1>1, <1>2, Invariance, PTL DEF Spec, ImplementsFrameStream, Promise!Spec

-----------------------------------------------------------------------------
(* What the users of the buffer may conclude from the promise. *)

PromiseInv ==
    /\ Playout \in [held : SUBSET Nat, last : Nat]
    /\ HandedOn \in Nat
    /\ Promise!PlayoutBetween

LEMMA ReceiveOrdered ==
    ASSUME PromiseInv, NEW n \in Nat, Promise!Receive(n)
    PROVE  PromiseInv'
<1>1. CASE n > Playout.last
  <2>1. Playout' = [held |-> Playout.held \cup {n}, last |-> Playout.last]
        /\ HandedOn' = HandedOn
    BY <1>1 DEF Promise!Receive, Promise!Received, PromiseInv
  <2>. QED
    BY <1>1, <2>1 DEF PromiseInv, Promise!PlayoutBetween
<1>2. CASE ~(n > Playout.last)
  BY <1>2 DEF Promise!Receive, Promise!Received, PromiseInv, Promise!PlayoutBetween
<1>. QED
  BY <1>1, <1>2

LEMMA PopOrdered ==
    ASSUME PromiseInv, Promise!Pop
    PROVE  PromiseInv'
<1>1. CASE HandedOn' = 0 /\ Playout' = Playout
  BY <1>1 DEF PromiseInv, Promise!PlayoutBetween
<1>2. ASSUME NEW n \in Playout.held, Playout' = Promise!Past(Playout, n),
             HandedOn' \in {n, 0}
      PROVE  PromiseInv'
  <2>1. n \in Nat /\ Playout'.held = {m \in Playout.held : m > n} /\ Playout'.last = n
    BY <1>2 DEF PromiseInv, Promise!Past
  <2>2. Playout' \in [held : SUBSET Nat, last : Nat]
    BY <1>2, <2>1 DEF PromiseInv, Promise!Past
  <2>. QED
    BY <1>2, <2>1, <2>2 DEF PromiseInv, Promise!PlayoutBetween
<1>. QED
  BY <1>1, <1>2 DEF Promise!Pop, Promise!NoFrame

\* "Frames are returned strictly in timestamp order" (JitterBuffer.h:77): who
\* takes frames from the buffer gets each once, and no older one after a newer,
\* whatever the network repeats or delays.
THEOREM FramesLeaveInOrder == Spec => Promise!HandsOnInOrder
<1>0. Indices \subseteq Nat
  BY DEF Indices
<1>1. Promise!Init => PromiseInv
  BY DEF Promise!Init, PromiseInv, Promise!PlayoutBetween, Promise!EmptyQueue,
         Promise!NoFrame
<1>2. PromiseInv /\ [Promise!Next]_<<Playout, HandedOn>> => PromiseInv'
  <2>. SUFFICES ASSUME PromiseInv, [Promise!Next]_<<Playout, HandedOn>> PROVE PromiseInv'
    OBVIOUS
  <2>1. CASE UNCHANGED <<Playout, HandedOn>>
    BY <2>1 DEF PromiseInv, Promise!PlayoutBetween
  <2>2. ASSUME NEW n \in Indices, Promise!Receive(n) PROVE PromiseInv'
    BY <1>0, <2>2, ReceiveOrdered
  <2>. QED
    BY <2>1, <2>2, PopOrdered DEF Promise!Next
<1>3. PromiseInv /\ [Promise!Next]_<<Playout, HandedOn>> =>
          [Promise!Pop /\ HandedOn' # 0 =>
              HandedOn' > Playout.last /\ HandedOn' > HandedOn]_<<Playout, HandedOn>>
  <2>. SUFFICES ASSUME PromiseInv, Promise!Pop, HandedOn' # 0
                PROVE  HandedOn' > Playout.last /\ HandedOn' > HandedOn
    OBVIOUS
  <2>1. PICK n \in Playout.held : HandedOn' = n
    BY DEF Promise!Pop, Promise!NoFrame
  <2>2. n \in Nat /\ Playout.last \in Nat /\ HandedOn \in Nat
    BY <2>1 DEF PromiseInv
  <2>3. Playout.last < n /\ HandedOn <= Playout.last
    BY <2>1 DEF PromiseInv, Promise!PlayoutBetween
  <2>. QED
    BY <2>1, <2>2, <2>3
<1>. QED
  BY <1>1, <1>2, <1>3, BufferKeepsPromise, PTL
     DEF ImplementsFrameStream, Promise!Spec, Promise!HandsOnInOrder, Promise!NoFrame

-----------------------------------------------------------------------------
(* The loss estimator. *)

\* x is the farthest of the first n places.
IsFarthest(x, s, n) ==
    x \in Nat /\ (\E j \in 1 .. n : s[j] = x) /\ \A j \in 1 .. n : s[j] <= x

\* There is one such place.
LEMMA FarthestIs ==
    ASSUME NEW s \in Seq(Nat), NEW n \in 1 .. Len(s), NEW x, IsFarthest(x, s, n)
    PROVE  Farthest(s, n) = x
<1>. DEFINE S == {s[j] : j \in 1 .. n}
<1>1. x \in S /\ x \in Nat /\ \A y \in S : x >= y
  BY DEF IsFarthest
<1>2. \A z \in S : z \in Nat
  OBVIOUS
<1>3. Farthest(s, n) = Max(S)
  BY DEF Farthest
<1>. HIDE DEF S
<1>4. \A z \in S : (\A y \in S : z >= y) => z = x
  BY <1>1, <1>2
<1>. QED
  BY <1>1, <1>3, <1>4 DEF Max

\* It moves when a packet comes from beyond it.
LEMMA FarthestMoves ==
    ASSUME NEW s \in Seq(Nat), NEW n \in Nat \ {0}, n + 1 <= Len(s),
           NEW x, IsFarthest(x, s, n)
    PROVE  IsFarthest(IF s[n + 1] > x THEN s[n + 1] ELSE x, s, n + 1)
<1>. DEFINE p == s[n + 1]
            z == IF p > x THEN p ELSE x
<1>1. p \in Nat /\ x \in Nat
  BY DEF IsFarthest
<1>. HIDE DEF p
<1>2. z \in Nat /\ p <= z /\ x <= z /\ (z = p \/ z = x)
  BY <1>1
<1>. HIDE DEF z
<1>3. ASSUME NEW j \in 1 .. n + 1 PROVE s[j] <= z
  <2>1. CASE j = n + 1
    BY <1>2, <2>1 DEF p
  <2>2. CASE j # n + 1
    <3>1. j \in 1 .. n
      BY <2>2
    <3>2. s[j] <= x /\ s[j] \in Nat
      BY <3>1 DEF IsFarthest
    <3>. QED
      BY <1>1, <1>2, <3>2
  <2>. QED
    BY <2>1, <2>2
<1>4. \E j \in 1 .. n + 1 : s[j] = z
  <2>1. CASE z = p
    <3>1. n + 1 \in 1 .. n + 1
      OBVIOUS
    <3>. QED
      BY <2>1, <3>1 DEF p
  <2>2. CASE z = x
    <3>1. PICK j \in 1 .. n : s[j] = x
      BY DEF IsFarthest
    <3>2. j \in 1 .. n + 1
      OBVIOUS
    <3>. QED
      BY <2>2, <3>1, <3>2
  <2>. QED
    BY <1>2, <2>1, <2>2
<1>5. IsFarthest(z, s, n + 1)
  BY <1>2, <1>3, <1>4 DEF IsFarthest
<1>. QED
  BY <1>5 DEF z, p

\* Of two numbers whose places are less than half a circle apart, which is
\* ahead, and whether the circle was closed between them.
LEMMA Wraps ==
    ASSUME NEW m \in Nat \ {0}, m % 2 = 0, NEW f \in Nat, NEW p \in Nat,
           -(m \div 2) <= p - f, p - f < m \div 2
    PROVE  LET x == f % m
               y == p % m
           IN  /\ ((y - x) % m # 0 /\ (y - x) % m < m \div 2) <=> p > f
               /\ p > f => p \div m = (f \div m) + (IF y < x THEN 1 ELSE 0)
<1>. DEFINE x == f % m
            y == p % m
            h == m \div 2
            a == f \div m
            b == p \div m
<1>1. h \in Nat /\ 2 * h = m /\ -h <= p - f /\ p - f < h
  BY DivMod
<1>. HIDE DEF h
<1>2. (y - x) % m = IF f <= p THEN p - f ELSE (m + p) - f
  <2>1. f - p < m /\ p - f < m /\ f \in Int /\ p \in Int /\ 0 \in Int
    BY <1>1
  <2>2. (((0 + p) % m) - ((0 + f) % m)) % m = IF f <= p THEN p - f ELSE (m + p) - f
    BY <2>1, Around
  <2>3. 0 + p = p /\ 0 + f = f
    OBVIOUS
  <2>. QED
    BY <2>2, <2>3
<1>3. /\ a \in Int /\ x \in 0 .. m - 1 /\ f = m * a + x
      /\ b \in Int /\ y \in 0 .. m - 1 /\ p = m * b + y
  BY DivMod
<1>. DEFINE d == (y - x) % m
<1>4. (d # 0 /\ d < h) <=> p > f
  <2>1. d = IF f <= p THEN p - f ELSE (m + p) - f
    BY <1>2
  <2>. HIDE DEF d
  <2>. QED
    BY <1>1, <2>1
<1>. HIDE DEF x, y, a, b
<1>5. ASSUME p > f PROVE b = a + (IF y < x THEN 1 ELSE 0)
  <2>. DEFINE k == b - a
  <2>1. k \in Int /\ m * k = m * b - m * a /\ m * (k - 1) = m * k - m
    BY <1>3
  <2>2. p - f = m * k + (y - x) /\ b = a + k
    BY <1>3, <2>1
  <2>. HIDE DEF k
  <2>3. 0 < m * k + (y - x) /\ m * k + (y - x) < m
    BY <1>1, <1>5, <2>2
  <2>4. CASE y < x
    <3>1. m * k > 0 /\ m * (k - 1) < m /\ k - 1 \in Int
      BY <1>3, <2>1, <2>3, <2>4
    <3>2. ~(k <= -1) /\ k # 0 /\ ~(k - 1 >= 1)
      BY <2>1, <3>1, Multiples
    <3>. QED
      BY <2>1, <2>2, <2>4, <3>2
  <2>5. CASE ~(y < x)
    <3>1. m * k < m /\ m * k > -m
      BY <1>3, <2>1, <2>3, <2>5
    <3>2. ~(k >= 1) /\ ~(k <= -1)
      BY <2>1, <3>1, Multiples
    <3>. QED
      BY <2>1, <2>2, <2>5, <3>2
  <2>. QED
    BY <2>4, <2>5
<1>. QED
  BY <1>4, <1>5 DEF d, x, y, a, b, h

\* The estimator after r packets, of which b came first and f is the farthest.
Estimate(b, f, r) ==
    [init |-> TRUE, baseSeq |-> b % NumberMod, maxSeq |-> f % NumberMod,
     cycles |-> (f \div NumberMod) - (b \div NumberMod), received |-> r]

\* The first packet is the farthest.
LEMMA FirstEstimate ==
    ASSUME NEW b \in Nat
    PROVE  observe(NoPackets, b % NumberMod) = Estimate(b, b, 1)
<1>1. NumberMod \in Nat \ {0}
  BY StreamReportsAssumption
<1>2. b \div NumberMod \in Int
  BY <1>1, DivMod
<1>3. (b \div NumberMod) - (b \div NumberMod) = 0
  BY <1>2
<1>. DEFINE x == b % NumberMod
<1>4. observe(NoPackets, x) =
          [init |-> TRUE, baseSeq |-> x, maxSeq |-> x, cycles |-> 0, received |-> 1]
  BY DEF observe, NoPackets
<1>. QED
  BY <1>3, <1>4 DEF Estimate

\* One packet more is counted, wherever it is in the stream.
LEMMA NextEstimate ==
    ASSUME NEW b \in Nat, NEW f \in Nat, NEW p \in Nat, NEW r \in Nat,
           -(NumberMod \div 2) <= p - f, p - f < NumberMod \div 2
    PROVE  observe(Estimate(b, f, r), p % NumberMod)
               = Estimate(b, IF p > f THEN p ELSE f, r + 1)
<1>. DEFINE e == Estimate(b, f, r)
            x == f % NumberMod
            y == p % NumberMod
            c == (f \div NumberMod) - (b \div NumberMod)
            g == IF p > f THEN p ELSE f
<1>1. NumberMod \in Nat \ {0} /\ NumberMod % 2 = 0
  BY StreamReportsAssumption
<1>2. /\ ((y - x) % NumberMod # 0 /\ (y - x) % NumberMod < NumberMod \div 2) <=> p > f
      /\ p > f => p \div NumberMod = (f \div NumberMod) + (IF y < x THEN 1 ELSE 0)
  BY <1>1, Wraps
<1>3. /\ b \div NumberMod \in Int /\ f \div NumberMod \in Int /\ p \div NumberMod \in Int
      /\ x \in Int /\ y \in Int
  BY <1>1, DivMod
<1>4. e.init = TRUE /\ e.maxSeq = x
  BY DEF Estimate
<1>5. Ahead(e, y) <=> p > f
  <2>. HIDE DEF e, x, y
  <2>. QED
    BY <1>2, <1>4 DEF Ahead
<1>6. Crossed(e, y) <=> p > f /\ y < x
  <2>. HIDE DEF e, x, y
  <2>. QED
    BY <1>4, <1>5 DEF Crossed
<1>. DEFINE n == IF Crossed(e, y) THEN c + 1 ELSE c
            z == IF Ahead(e, y) THEN y ELSE x
<1>7. n = (g \div NumberMod) - (b \div NumberMod)
  <2>. DEFINE fm == f \div NumberMod
              pm == p \div NumberMod
              bm == b \div NumberMod
  <2>. HIDE DEF fm, pm, bm, x, y, e
  <2>1. CASE p > f
    <3>1. g = p /\ (n = IF y < x THEN c + 1 ELSE c)
      BY <1>6, <2>1
    <3>2. c = fm - bm /\ pm = fm + (IF y < x THEN 1 ELSE 0)
      BY <1>2, <2>1 DEF fm, pm, bm
    <3>3. fm \in Int /\ bm \in Int /\ pm \in Int
      BY <1>3 DEF fm, pm, bm
    <3>. HIDE DEF n, c, g
    <3>4. n = pm - bm
      BY <3>1, <3>2, <3>3
    <3>. QED
      BY <3>1, <3>4 DEF pm, bm
  <2>2. CASE ~(p > f)
    BY <1>6, <2>2
  <2>. QED
    BY <2>1, <2>2
<1>8. z = g % NumberMod
  <2>. HIDE DEF e
  <2>1. CASE p > f
    BY <1>5, <2>1
  <2>2. CASE ~(p > f)
    BY <1>5, <2>2
  <2>. QED
    BY <2>1, <2>2
<1>9. observe(e, y) = [e EXCEPT !.received = e.received + 1,
                                !.cycles = IF Crossed(e, y) THEN e.cycles + 1 ELSE e.cycles,
                                !.maxSeq = IF Ahead(e, y) THEN y ELSE e.maxSeq]
  <2>. HIDE DEF e, y
  <2>. QED
    BY <1>4 DEF observe
<1>10. e = [init |-> TRUE, baseSeq |-> b % NumberMod, maxSeq |-> x, cycles |-> c, received |-> r]
  BY DEF Estimate
<1>11. observe(e, y) = [init |-> TRUE, baseSeq |-> b % NumberMod, maxSeq |-> z, cycles |-> n,
                        received |-> r + 1]
  <2>1. e.received = r /\ e.cycles = c /\ e.maxSeq = x
    BY <1>10
  <2>. HIDE DEF e, x, y, c
  <2>2. observe(e, y) = [e EXCEPT !.received = r + 1, !.cycles = n, !.maxSeq = z]
    BY <1>9, <2>1
  <2>. HIDE DEF n, z
  <2>. QED
    BY <1>10, <2>2
<1>. HIDE DEF e, n, z, g
<1>12. observe(e, y) = Estimate(b, g, r + 1)
  BY <1>7, <1>8, <1>11 DEF Estimate
<1>. QED
  BY <1>12 DEF e, g

\* e is the estimator after each of the first m packets.
Counting(e, s, m) ==
    e = [n \in 0 .. m |-> IF n = 0 THEN NoPackets ELSE observe(e[n - 1], s[n] % NumberMod)]

\* It is well defined.
LEMMA CountingExists ==
    ASSUME NEW s, NEW m \in Nat
    PROVE  \E e : Counting(e, s, m)
<1>. DEFINE Made(k) == \E g : Counting(g, s, k)
            S == {k \in Nat : ~Made(k)}
<1>. SUFFICES ASSUME S # {} PROVE FALSE
  OBVIOUS
<1>1. PICK k \in S : \A j \in S : k <= j
  <2>1. S \in SUBSET Nat
    OBVIOUS
  <2>. HIDE DEF S
  <2>. QED
    BY <2>1, LeastUnit
<1>2. k \in Nat /\ ~Made(k)
  OBVIOUS
<1>3. CASE k = 0
  <2>. DEFINE g == [n \in 0 .. 0 |-> NoPackets]
  <2>1. g = [n \in 0 .. 0 |-> IF n = 0 THEN NoPackets ELSE observe(g[n - 1], s[n] % NumberMod)]
    OBVIOUS
  <2>2. Made(0)
    BY <2>1 DEF Counting
  <2>. QED
    BY <1>2, <1>3, <2>2
<1>4. CASE k # 0
  <2>1. k - 1 \in Nat /\ k - 1 \notin S
    BY <1>1, <1>2, <1>4
  <2>2. PICK f : f = [n \in 0 .. k - 1 |-> IF n = 0 THEN NoPackets
                                           ELSE observe(f[n - 1], s[n] % NumberMod)]
    BY <2>1 DEF Counting
  <2>. DEFINE last == observe(f[k - 1], s[k] % NumberMod)
              g == [n \in 0 .. k |-> IF n = k THEN last ELSE f[n]]
  <2>3. ASSUME NEW n \in 0 .. k
        PROVE  g[n] = IF n = 0 THEN NoPackets ELSE observe(g[n - 1], s[n] % NumberMod)
    <3>1. CASE n = k
      <4>1. g[n] = last /\ n # 0
        BY <1>4, <3>1
      <4>2. g[n - 1] = f[k - 1]
        BY <1>2, <1>4, <3>1
      <4>. QED
        BY <3>1, <4>1, <4>2
    <3>2. CASE n # k
      <4>1. n \in 0 .. k - 1 /\ g[n] = f[n]
        BY <1>2, <3>2
      <4>2. n # 0 => g[n - 1] = f[n - 1]
        BY <1>2, <4>1
      <4>3. f[n] = IF n = 0 THEN NoPackets ELSE observe(f[n - 1], s[n] % NumberMod)
        BY <2>2, <4>1
      <4>. HIDE DEF g
      <4>. QED
        BY <4>1, <4>2, <4>3
    <3>. QED
      BY <3>1, <3>2
  <2>4. g = [n \in 0 .. k |-> g[n]]
    OBVIOUS
  <2>. HIDE DEF g
  <2>5. g = [n \in 0 .. k |-> IF n = 0 THEN NoPackets ELSE observe(g[n - 1], s[n] % NumberMod)]
    BY <2>3, <2>4
  <2>. QED
    BY <1>2, <2>5 DEF Counting
<1>. QED
  BY <1>3, <1>4

\* The estimator keeps to the packets that have come.
LEMMA EstimatesKeep ==
    ASSUME NEW s \in Seq(Nat), s # <<>>, Comparably(s),
           NEW e, Counting(e, s, Len(s)), NEW n \in 1 .. Len(s)
    PROVE  \E f : IsFarthest(f, s, n) /\ e[n] = Estimate(s[1], f, n)
<1>. DEFINE m == Len(s)
            Kept(k) == \E f : IsFarthest(f, s, k) /\ e[k] = Estimate(s[1], f, k)
            S == {k \in 1 .. m : ~Kept(k)}
<1>. SUFFICES ASSUME S # {} PROVE FALSE
  OBVIOUS
<1>1. m \in Nat \ {0} /\ \A i \in 1 .. m : s[i] \in Nat
  OBVIOUS
<1>2. ASSUME NEW k \in 0 .. m
      PROVE  e[k] = IF k = 0 THEN NoPackets ELSE observe(e[k - 1], s[k] % NumberMod)
  BY <1>2 DEF Counting
<1>3. PICK k \in S : \A j \in S : k <= j
  <2>1. S \in SUBSET Nat
    BY <1>1
  <2>. HIDE DEF S
  <2>. QED
    BY <2>1, LeastUnit
<1>4. k \in 1 .. m /\ ~Kept(k)
  OBVIOUS
<1>. HIDE DEF m
<1>5. CASE k = 1
  <2>1. e[0] = NoPackets /\ e[1] = observe(e[0], s[1] % NumberMod)
    BY <1>1, <1>2
  <2>2. s[1] \in Nat
    BY <1>1
  <2>3. e[1] = Estimate(s[1], s[1], 1)
    BY <2>1, <2>2, FirstEstimate
  <2>4. IsFarthest(s[1], s, 1)
    BY <2>2 DEF IsFarthest
  <2>5. Kept(1)
    BY <2>3, <2>4
  <2>. QED
    BY <1>4, <1>5, <2>5
<1>6. CASE k # 1
  <2>. DEFINE j == k - 1
  <2>1. j \in 1 .. m /\ j \in Nat \ {0} /\ j < k /\ k = j + 1 /\ k \in Nat
    BY <1>1, <1>4, <1>6
  <2>2. Kept(j)
    <3>1. j \notin S
      BY <1>3, <2>1
    <3>. QED
      BY <2>1, <3>1
  <2>. HIDE DEF j
  <2>3. PICK f : IsFarthest(f, s, j) /\ e[j] = Estimate(s[1], f, j)
    BY <2>2
  <2>. DEFINE p == s[k]
              g == IF p > f THEN p ELSE f
  <2>4. p \in Nat /\ s[1] \in Nat /\ f \in Nat
    BY <1>1, <1>4, <2>3 DEF IsFarthest
  <2>5. e[k] = observe(e[j], p % NumberMod)
    <3>1. k \in 0 .. m /\ k # 0 /\ k - 1 = j
      BY <1>4, <2>1
    <3>2. e[k] = observe(e[k - 1], s[k] % NumberMod)
      BY <1>2, <3>1
    <3>. QED
      BY <3>1, <3>2
  <2>6. -(NumberMod \div 2) <= p - f /\ p - f < NumberMod \div 2
    <3>1. Farthest(s, j) = f
      BY <2>1, <2>3, FarthestIs DEF m
    <3>2. j \in 1 .. Len(s) - 1 /\ s[j + 1] = p
      BY <1>1, <1>4, <2>1 DEF m
    <3>. HIDE DEF p
    <3>. QED
      BY <3>1, <3>2 DEF Comparably
  <2>7. IsFarthest(g, s, k)
    <3>1. j + 1 <= Len(s)
      BY <1>4, <2>1 DEF m
    <3>2. IsFarthest(IF s[j + 1] > f THEN s[j + 1] ELSE f, s, j + 1)
      BY <2>1, <2>3, <3>1, FarthestMoves
    <3>. QED
      BY <2>1, <3>2
  <2>. HIDE DEF p
  <2>8. observe(Estimate(s[1], f, j), p % NumberMod) = Estimate(s[1], g, j + 1)
    <3>. DEFINE b == s[1]
    <3>1. b \in Nat /\ j \in Nat
      BY <2>1, <2>4
    <3>. HIDE DEF b
    <3>2. observe(Estimate(b, f, j), p % NumberMod) = Estimate(b, g, j + 1)
      BY <2>4, <2>6, <3>1, NextEstimate
    <3>. QED
      BY <3>2 DEF b
  <2>. HIDE DEF g
  <2>9. Kept(k)
    BY <2>1, <2>3, <2>5, <2>7, <2>8
  <2>. QED
    BY <1>4, <2>9
<1>. QED
  BY <1>5, <1>6

\* What an estimate says should have come.
LEMMA EstimateExpects ==
    ASSUME NEW b \in Nat, NEW f \in Nat, NEW r
    PROVE  /\ expected(Estimate(b, f, r)) = f - b + 1
           /\ Estimate(b, f, r).received = r
<1>. DEFINE x == f \div NumberMod
            y == b \div NumberMod
            u == f % NumberMod
            v == b % NumberMod
            e == Estimate(b, f, r)
<1>1. NumberMod \in Nat \ {0}
  BY StreamReportsAssumption
<1>2. /\ x \in Int /\ u \in Int /\ f = NumberMod * x + u
      /\ y \in Int /\ v \in Int /\ b = NumberMod * y + v
  BY <1>1, DivMod
<1>3. e.init = TRUE /\ e.cycles = x - y /\ e.maxSeq = u /\ e.baseSeq = v /\ e.received = r
  BY DEF Estimate
<1>. HIDE DEF x, y, u, v, e
<1>4. expected(e) = (x - y) * NumberMod + u - v + 1
  BY <1>3 DEF expected
<1>5. (x - y) * NumberMod = NumberMod * x - NumberMod * y
  BY <1>1, <1>2
<1>6. f - b + 1 = (x - y) * NumberMod + u - v + 1
  BY <1>1, <1>2, <1>5
<1>. QED
  BY <1>3, <1>4, <1>6 DEF e

\* How many packets never came, and how many more should have than did.
LEMMA AbsentPackets ==
    ASSUME NEW s \in Seq(Nat), s # <<>>, NEW f, IsFarthest(f, s, Len(s))
    PROVE  LET n == Cardinality((s[1] .. f) \ Range(s))
           IN  /\ n \in Nat /\ f - s[1] + 1 - Len(s) <= n
               /\ IsInjective(s) /\ (\A i \in 1 .. Len(s) : s[1] <= s[i]) =>
                     n = f - s[1] + 1 - Len(s)
<1>. DEFINE m == Len(s)
            b == s[1]
            I == b .. f
            T == Range(s)
<1>1. m \in Nat \ {0} /\ b \in Nat /\ f \in Nat /\ b <= f
  <2>1. m \in Nat \ {0} /\ 1 \in 1 .. m /\ b \in Nat
    OBVIOUS
  <2>. QED
    BY <2>1 DEF IsFarthest
<1>2. IsFiniteSet(1 .. m) /\ Cardinality(1 .. m) = m
  <2>. HIDE DEF m
  <2>1. 1 \in Int /\ m \in Int /\ ~(1 > m) /\ m - 1 + 1 = m
    BY <1>1
  <2>. QED
    BY <2>1, FS_Interval
<1>3. IsFiniteSet(I) /\ Cardinality(I) = f - b + 1
  <2>. HIDE DEF b
  <2>1. b \in Int /\ f \in Int /\ ~(b > f)
    BY <1>1
  <2>. QED
    BY <2>1, FS_Interval
<1>4. s \in Surjection(1 .. m, T)
  <2>1. DOMAIN s = 1 .. m /\ s \in [1 .. m -> T]
    BY DEF Range
  <2>2. \A t \in T : \E i \in 1 .. m : s[i] = t
    BY DEF Range
  <2>. QED
    BY <2>1, <2>2 DEF Surjection
<1>5. IsFiniteSet(T) /\ Cardinality(T) <= m /\ (Cardinality(T) = m <=> s \in Injection(1 .. m, T))
  <2>. HIDE DEF m, T
  <2>. QED
    BY <1>2, <1>4, FS_Surjection
<1>6. IsInjective(s) => s \in Injection(1 .. m, T)
  BY <1>4 DEF Injection, Surjection
<1>. DEFINE A == I \ T
            n == Cardinality(A)
            both == Cardinality(I \cap T)
            all == Cardinality(T)
<1>7. n = Cardinality(I) - both /\ IsFiniteSet(A)
  <2>. HIDE DEF I, T
  <2>. QED
    BY <1>3, FS_Difference
<1>8. both <= all /\ IsFiniteSet(I \cap T)
  <2>. HIDE DEF I, T
  <2>. QED
    BY <1>5, FS_Intersection
<1>9. n \in Nat /\ both \in Nat /\ all \in Nat
  <2>. HIDE DEF A, I, T
  <2>. QED
    BY <1>5, <1>7, <1>8, FS_CardinalityType
<1>10. f - b + 1 - m <= n
  <2>. HIDE DEF n, b, m, both, all, I
  <2>. QED
    BY <1>1, <1>3, <1>5, <1>7, <1>8, <1>9 DEF all
<1>11. ASSUME IsInjective(s), \A i \in 1 .. m : b <= s[i] PROVE n = f - b + 1 - m
  <2>1. I \cap T = T
    <3>1. ASSUME NEW t \in T PROVE t \in I
      <4>1. PICK i \in 1 .. m : t = s[i]
        BY DEF Range
      <4>2. s[i] \in Nat /\ s[i] <= f /\ b <= s[i]
        BY <1>11, <4>1 DEF IsFarthest
      <4>. QED
        BY <1>1, <4>1, <4>2
    <3>. QED
      BY <3>1
  <2>2. both = all
    BY <2>1
  <2>3. all = m
    BY <1>5, <1>6, <1>11
  <2>. HIDE DEF n, b, m, both, all, I
  <2>. QED
    BY <1>1, <1>3, <1>7, <2>2, <2>3
<1>. QED
  BY <1>9, <1>10, <1>11

\* The greater of a number and 0.
LEMMA AtLeastNone ==
    ASSUME NEW x \in Int
    PROVE  Max({0, x}) = IF x > 0 THEN x ELSE 0
<1>. DEFINE y == IF x > 0 THEN x ELSE 0
            S == {0, x}
<1>1. y \in S /\ y \in Int /\ (\A z \in S : z \in Int /\ y >= z)
  OBVIOUS
<1>. HIDE DEF y, S
<1>2. \A z \in S : (\A w \in S : z >= w) => z = y
  BY <1>1
<1>3. Max(S) = y
  BY <1>1, <1>2 DEF Max
<1>. QED
  BY <1>3 DEF S, y

\* However packets are lost, late or repeated, and however often their numbers
\* wrap, LossEstimator (Metrics.cpp:51) expects what lies between the first
\* packet and the farthest, counts as lost no more than what never came, and
\* all of that unless repeated packets or some from before the first make up
\* for it.
THEOREM LossesAreCounted ==
    ASSUME NEW s \in Seq(Nat), s # <<>>, Comparably(s)
    PROVE  LossesCounted(s)
<1>. DEFINE m == Len(s)
            est == Estimated(s)
            far == Farthest(s, m)
            absent == (s[1] .. far) \ Range(s)
<1>1. m \in Nat \ {0} /\ s[1] \in Nat /\ m \in 1 .. m
  OBVIOUS
<1>2. PICK e : Counting(e, s, m)
  <2>. HIDE DEF m
  <2>. QED
    BY <1>1, CountingExists
<1>3. \E e2 : Counting(e2, s, m) /\ est = e2[m]
  <2>. DEFINE h == CHOOSE e2 : e2 = [n \in 0 .. m |-> IF n = 0 THEN NoPackets
                                         ELSE observe(e2[n - 1], s[n] % NumberMod)]
  <2>1. \E e2 : e2 = [n \in 0 .. m |-> IF n = 0 THEN NoPackets
                                         ELSE observe(e2[n - 1], s[n] % NumberMod)]
    BY <1>2 DEF Counting
  <2>2. h = [n \in 0 .. m |-> IF n = 0 THEN NoPackets ELSE observe(h[n - 1], s[n] % NumberMod)]
    BY <2>1
  <2>3. est = h[m]
    BY DEF Estimated
  <2>. HIDE DEF h
  <2>. QED
    BY <2>2, <2>3 DEF Counting
<1>4. PICK e2 : Counting(e2, s, m) /\ est = e2[m]
  BY <1>3
<1>5. PICK f : IsFarthest(f, s, m) /\ est = Estimate(s[1], f, m)
  BY <1>1, <1>4, EstimatesKeep
<1>6. far = f /\ f \in Nat
  BY <1>1, <1>5, FarthestIs DEF IsFarthest
<1>. DEFINE n == Cardinality(absent)
            b == s[1]
<1>7. /\ n \in Nat /\ f - b + 1 - m <= n
      /\ IsInjective(s) /\ (\A i \in 1 .. m : b <= s[i]) => n = f - b + 1 - m
  BY <1>5, <1>6, AbsentPackets
<1>8. expected(est) = f - b + 1 /\ est.received = m
  <2>1. b \in Nat
    BY <1>1
  <2>. HIDE DEF b, m, est
  <2>. QED
    BY <1>5, <1>6, <2>1, EstimateExpects DEF b
<1>. HIDE DEF est, n
<1>9. lost(est) = IF f - b + 1 - m > 0 THEN f - b + 1 - m ELSE 0
  <2>. DEFINE x == f - b + 1 - m
  <2>1. x \in Int
    BY <1>1, <1>6
  <2>. DEFINE y == expected(est) - est.received
  <2>2. lost(est) = Max({0, y})
    BY DEF lost
  <2>3. y = x
    <3>. DEFINE u == expected(est)
                v == est.received
    <3>1. u = f - b + 1 /\ v = m /\ m \in Int /\ b \in Int /\ f \in Int
      BY <1>1, <1>6, <1>8
    <3>. HIDE DEF u, v, b, m
    <3>2. u - v = f - b + 1 - m
      BY <3>1
    <3>. QED
      BY <3>2 DEF u, v
  <2>. HIDE DEF x, y
  <2>4. lost(est) = IF x > 0 THEN x ELSE 0
    BY <2>1, <2>2, <2>3, AtLeastNone
  <2>. QED
    BY <2>4 DEF x
<1>10. /\ lost(est) <= n
       /\ IsInjective(s) /\ (\A i \in 1 .. m : b <= s[i]) => lost(est) = n
  <2>. DEFINE x == f - b + 1 - m
              good == IsInjective(s) /\ (\A i \in 1 .. m : b <= s[i])
  <2>1. n \in Nat /\ x \in Int /\ x <= n /\ (good => n = x)
    BY <1>1, <1>6, <1>7
  <2>2. lost(est) = IF x > 0 THEN x ELSE 0
    BY <1>9
  <2>. HIDE DEF x, good
  <2>3. lost(est) <= n /\ (good => lost(est) = n)
    BY <2>1, <2>2
  <2>. QED
    BY <2>3 DEF good
<1>11. expected(est) = far - b + 1
  BY <1>6, <1>8
<1>. QED
  BY <1>10, <1>11 DEF LossesCounted, est, n

-----------------------------------------------------------------------------
(* Lip synchronisation. *)

LEMMA Distributes ==
    ASSUME NEW m \in Int, NEW a \in Int, NEW b \in Int
    PROVE  /\ m * a \in Int /\ m * b \in Int
           /\ m * (a - b) = m * a - m * b /\ m * (a + b) = m * a + m * b
           /\ m * (-a) = -(m * a) /\ m * a = a * m
OBVIOUS

\* A multiple of m that is beyond -m is none of a negative number.
LEMMA NotNegative ==
    ASSUME NEW m \in Nat \ {0}, NEW d \in Int, m * d > -m
    PROVE  d >= 0
<1>1. d <= -1 => m * d <= -m
  BY Multiples
<1>2. m * d \in Int
  BY Multiples
<1>. QED
  BY <1>1, <1>2

\* A sender report loses at most a nanosecond.
LEMMA WallIsKept ==
    ASSUME NEW r \in Nat
    PROVE  LET w == ntpToSystem(toNtp(r)) IN w \in Int /\ r - 1 <= w /\ w <= r
<1>. DEFINE q == r \div Second
            x == r % Second
            p == x * FractionMod
            g == p \div Second
            u == p % Second
            n == g * Second
            k == n \div FractionMod
            v == n % FractionMod
            w == ntpToSystem(toNtp(r))
            d == x - k
<1>1. Second \in Nat \ {0} /\ FractionMod \in Nat \ {0} /\ Second <= FractionMod
  BY StreamReportsAssumption
<1>2. q \in Int /\ x \in 0 .. Second - 1 /\ r = Second * q + x
  BY <1>1, DivMod
<1>3. p \in Int
  <2>. HIDE DEF x
  <2>. QED
    BY <1>1, <1>2
<1>4. g \in Int /\ u \in 0 .. Second - 1 /\ p = Second * g + u
  <2>. HIDE DEF p
  <2>. QED
    BY <1>1, <1>3, DivMod
<1>5. n \in Int
  <2>. HIDE DEF g
  <2>. QED
    BY <1>1, <1>4
<1>6. k \in Int /\ v \in 0 .. FractionMod - 1 /\ n = FractionMod * k + v
  <2>. HIDE DEF n
  <2>. QED
    BY <1>1, <1>5, DivMod
<1>7. w = q * Second + k
  BY DEF ntpToSystem, toNtp
<1>8. p = FractionMod * x /\ n = Second * g /\ q * Second = Second * q
  <2>. HIDE DEF x, g, q
  <2>. QED
    BY <1>1, <1>2, <1>4, Distributes
<1>. HIDE DEF q, x, p, g, u, n, k, v, w
<1>9. FractionMod * d = u + v /\ d \in Int
  <2>1. FractionMod * (x - k) = FractionMod * x - FractionMod * k
    BY <1>1, <1>2, <1>6, Distributes
  <2>2. FractionMod * x \in Int /\ FractionMod * k \in Int
    BY <1>1, <1>2, <1>6, Distributes
  <2>. QED
    BY <1>2, <1>4, <1>6, <1>8, <2>1, <2>2
<1>10. w = r - d
  <2>1. Second * q \in Int
    BY <1>1, <1>2, Distributes
  <2>. QED
    BY <1>2, <1>6, <1>7, <1>8, <2>1
<1>. HIDE DEF d
<1>11. d >= 0
  <2>1. FractionMod * d > -FractionMod
    BY <1>1, <1>4, <1>6, <1>9
  <2>. QED
    BY <1>1, <1>9, <2>1, NotNegative
<1>12. 1 - d >= 0
  <2>1. FractionMod * (1 - d) = FractionMod * 1 - FractionMod * d /\ FractionMod * 1 = FractionMod
    BY <1>1, <1>9, Distributes
  <2>2. FractionMod * (1 - d) > -FractionMod
    BY <1>1, <1>4, <1>6, <1>9, <2>1
  <2>3. 1 - d \in Int
    BY <1>9
  <2>. QED
    BY <1>1, <2>2, <2>3, NotNegative
<1>. QED
  BY <1>9, <1>10, <1>11, <1>12 DEF w

\* The ticks a and b of instants that are d apart are n or n + 1 apart, and tell
\* how far but for y, which is less than a tick.
TickApart(a, b, n, d, rate) ==
    /\ a \in Int /\ b \in Int /\ n \in Int /\ n <= a - b /\ a - b <= n + 1
    /\ \E y \in Int : (a - b) * Second = rate * d + y /\ -Second < y /\ y < Second

\* The ticks of two instants are as far apart as the instants are.
LEMMA TicksApart ==
    ASSUME NEW t \in Int, NEW r \in Int, NEW epoch \in Int, NEW rate \in Nat \ {0}
    PROVE  LET a == ((t - epoch) * rate) \div Second
               b == ((r - epoch) * rate) \div Second
               n == ((t - r) * rate) \div Second
           IN  TickApart(a, b, n, t - r, rate)
<1>. DEFINE x == (t - epoch) * rate
            z == (r - epoch) * rate
            l == (t - r) * rate
            a == x \div Second
            b == z \div Second
            n == l \div Second
            u == x % Second
            v == z % Second
            w == l % Second
            d == a - b - n
            y == v - u
<1>1. Second \in Nat \ {0}
  BY StreamReportsAssumption
<1>2. x \in Int /\ z \in Int /\ l \in Int /\ l = x - z /\ l = rate * (t - r)
  <2>. DEFINE te == t - epoch
              re == r - epoch
  <2>1. te \in Int /\ re \in Int /\ te - re = t - r /\ t - r \in Int
    OBVIOUS
  <2>2. x = te * rate /\ z = re * rate
    OBVIOUS
  <2>. HIDE DEF te, re
  <2>3. rate * (te - re) = rate * te - rate * re /\ rate * te = te * rate /\ rate * re = re * rate
    BY <2>1, Distributes
  <2>4. rate * (t - r) = (t - r) * rate /\ rate * (t - r) \in Int
    BY <2>1, Distributes
  <2>5. te * rate \in Int /\ re * rate \in Int
    BY <2>1
  <2>. QED
    BY <2>1, <2>2, <2>3, <2>4, <2>5
<1>. HIDE DEF x, z, l
<1>3. /\ a \in Int /\ u \in 0 .. Second - 1 /\ x = Second * a + u
      /\ b \in Int /\ v \in 0 .. Second - 1 /\ z = Second * b + v
      /\ n \in Int /\ w \in 0 .. Second - 1 /\ l = Second * n + w
  BY <1>1, <1>2, DivMod
<1>. HIDE DEF a, b, n, u, v, w
<1>4. /\ Second * a \in Int /\ Second * b \in Int /\ Second * n \in Int
      /\ Second * (a - b) = Second * a - Second * b
      /\ Second * d = Second * (a - b) - Second * n
      /\ Second * (a - b) = (a - b) * Second
      /\ a - b \in Int /\ d \in Int
  <2>1. a - b \in Int /\ Second \in Int
    BY <1>1, <1>3
  <2>. DEFINE ab == a - b
  <2>2. ab \in Int
    BY <2>1
  <2>3. Second * (a - b) = Second * a - Second * b /\ Second * a \in Int /\ Second * b \in Int
    BY <1>3, <2>1, Distributes
  <2>4. d = ab - n
    OBVIOUS
  <2>. HIDE DEF ab, d
  <2>5. /\ Second * (ab - n) = Second * ab - Second * n
        /\ Second * n \in Int /\ Second * ab = ab * Second
    BY <1>3, <2>1, <2>2, Distributes
  <2>. QED
    BY <1>3, <2>1, <2>2, <2>3, <2>4, <2>5 DEF ab
<1>5. Second * d = w + y /\ y \in Int /\ -Second < y /\ y < Second
  BY <1>1, <1>2, <1>3, <1>4
<1>6. (a - b) * Second = rate * (t - r) + y
  <2>1. (a - b) * Second = l + y
    BY <1>2, <1>3, <1>4
  <2>. QED
    BY <1>2, <2>1
<1>. HIDE DEF y
<1>7. d >= 0
  <2>1. Second * d > -Second
    BY <1>1, <1>3, <1>5
  <2>. HIDE DEF d
  <2>. QED
    BY <1>1, <1>4, <2>1, NotNegative
<1>8. 1 - d >= 0
  <2>. HIDE DEF d
  <2>1. Second * (1 - d) = Second * 1 - Second * d /\ Second * 1 = Second /\ 1 - d \in Int
    BY <1>1, <1>4, Distributes
  <2>2. Second * (1 - d) > -Second
    BY <1>1, <1>3, <1>5, <2>1
  <2>. QED
    BY <1>1, <2>1, <2>2, NotNegative
<1>9. n <= a - b /\ a - b <= n + 1
  BY <1>3, <1>4, <1>7, <1>8
<1>. QED
  BY <1>3, <1>5, <1>6, <1>9 DEF TickApart, a, b, n, x, z, l

\* Timestamps less than half a wrap apart are as far apart as their ticks.
LEMMA DeltaIs ==
    ASSUME NEW a \in Int, NEW b \in Int,
           -(StampMod \div 2) < a - b, a - b < StampMod \div 2
    PROVE  deltaTicks(a % StampMod, b % StampMod) = a - b
<1>. DEFINE m == StampMod
            h == m \div 2
            d == ((a % m) - (b % m)) % m
<1>1. m \in Nat \ {0} /\ h \in Nat /\ 2 * h = m /\ -h < a - b /\ a - b < h
  <2>1. m \in Nat \ {0} /\ m % 2 = 0 /\ -(m \div 2) < a - b /\ a - b < m \div 2
    BY StreamReportsAssumption
  <2>. HIDE DEF m
  <2>2. m \div 2 \in Int /\ m = 2 * (m \div 2) + (m % 2)
    BY <2>1, DivMod
  <2>. QED
    BY <2>1, <2>2
<1>2. d = IF b <= a THEN a - b ELSE (m + a) - b
  <2>1. b - a < m /\ a - b < m /\ 0 \in Int
    BY <1>1
  <2>. HIDE DEF m
  <2>2. (((0 + a) % m) - ((0 + b) % m)) % m = IF b <= a THEN a - b ELSE (m + a) - b
    BY <1>1, <2>1, Around
  <2>3. 0 + a = a /\ 0 + b = b
    OBVIOUS
  <2>. QED
    BY <2>2, <2>3
<1>3. deltaTicks(a % m, b % m) = IF d < h THEN d ELSE d - m
  BY DEF deltaTicks
<1>. HIDE DEF d, h, m
<1>4. (IF d < h THEN d ELSE d - m) = a - b
  BY <1>1, <1>2
<1>. QED
  BY <1>3, <1>4 DEF m

\* Division of C++ leaves less than the divisor.
LEMMA QuotientIs ==
    ASSUME NEW n \in Int, NEW d \in Nat \ {0}
    PROVE  LET q == Quotient(n, d)
           IN  q \in Int /\ \E z \in Int : n = d * q + z /\ -d < z /\ z < d
<1>. DEFINE q == Quotient(n, d)
<1>1. CASE n >= 0
  <2>1. q = n \div d
    BY <1>1 DEF Quotient
  <2>2. n \div d \in Int /\ n % d \in 0 .. d - 1 /\ n = d * (n \div d) + (n % d)
    BY DivMod
  <2>. HIDE DEF q
  <2>3. q \in Int /\ n % d \in Int /\ n = d * q + (n % d) /\ -d < n % d /\ n % d < d
    BY <2>1, <2>2
  <2>. QED
    BY <2>3 DEF q
<1>2. CASE ~(n >= 0)
  <2>. DEFINE k == -n
              p == k \div d
              w == k % d
  <2>1. q = -p
    BY <1>2 DEF Quotient
  <2>2. k \in Int /\ n = -k
    OBVIOUS
  <2>. HIDE DEF k
  <2>3. p \in Int /\ w \in 0 .. d - 1 /\ k = d * p + w
    BY <2>2, DivMod
  <2>. HIDE DEF q, p, w
  <2>4. d * (-p) = -(d * p) /\ d * p \in Int
    BY <2>3, Distributes
  <2>5. q \in Int /\ -w \in Int /\ n = d * q + (-w) /\ -d < -w /\ -w < d
    BY <2>1, <2>2, <2>3, <2>4
  <2>. QED
    BY <2>5 DEF q
<1>. QED
  BY <1>1, <1>2

\* Whatever the rates of their clocks, their beginnings and their reports are,
\* AVSync (AVSync.cpp:23) presents sound and pictures at the instant of their
\* capture, up to one tick of their clock and two nanoseconds, as long as the
\* report is not half a wrap away.
THEOREM InstantsAreKept ==
    ASSUME NEW t \in Int, NEW r \in Nat, NEW epoch \in Int, NEW rate \in Nat \ {0},
           Comparable(t, r, rate)
    PROVE  InstantKept(t, r, epoch, rate)
<1>. DEFINE a == ((t - epoch) * rate) \div Second
            b == ((r - epoch) * rate) \div Second
            n == ((t - r) * rate) \div Second
            w == ntpToSystem(toNtp(r))
            c == Second \div rate
            s == (a - b) * Second
            q == Quotient(s, rate)
            at == Presented(t, r, epoch, rate)
<1>1. Second \in Nat \ {0} /\ rate \in Nat \ {0}
  BY StreamReportsAssumption
<1>2. w \in Int /\ r - 1 <= w /\ w <= r
  BY WallIsKept
<1>3. /\ a \in Int /\ b \in Int /\ n \in Int /\ n <= a - b /\ a - b <= n + 1
      /\ \E y \in Int : s = rate * (t - r) + y /\ -Second < y /\ y < Second
  <2>1. r \in Int
    OBVIOUS
  <2>2. TickApart(a, b, n, t - r, rate)
    BY <2>1, TicksApart
  <2>. HIDE DEF a, b, n
  <2>. QED
    BY <2>2 DEF TickApart
<1>4. -(StampMod \div 2) < a - b /\ a - b < StampMod \div 2
  <2>1. -(StampMod \div 2) < n /\ n < StampMod \div 2 - 1
    BY DEF Comparable
  <2>2. StampMod \div 2 \in Int
    BY StreamReportsAssumption
  <2>. HIDE DEF a, b, n
  <2>. QED
    BY <1>3, <2>1, <2>2
<1>5. at = w + Quotient(deltaTicks(a % StampMod, b % StampMod) * Second, rate)
  BY DEF Presented, playoutTime, onSenderReport, toRtp
<1>6. at = w + q
  <2>. HIDE DEF a, b, w, at
  <2>1. deltaTicks(a % StampMod, b % StampMod) = a - b
    BY <1>3, <1>4, DeltaIs
  <2>. QED
    BY <1>5, <2>1
<1>7. PICK y \in Int : s = rate * (t - r) + y /\ -Second < y /\ y < Second
  BY <1>3
<1>8. s \in Int
  <2>. HIDE DEF a, b
  <2>. QED
    BY <1>1, <1>3
<1>. HIDE DEF s
<1>9. q \in Int /\ \E z \in Int : s = rate * q + z /\ -rate < z /\ z < rate
  BY <1>8, QuotientIs
<1>10. PICK z \in Int : s = rate * q + z /\ -rate < z /\ z < rate
  BY <1>9
<1>11. c \in Int /\ Second < rate * (c + 1) /\ rate * (c + 2) = rate * (c + 1) + rate
  <2>. DEFINE u == Second % rate
  <2>1. c \in Int /\ u \in 0 .. rate - 1 /\ Second = rate * c + u
    BY <1>1, DivMod
  <2>. HIDE DEF c, u
  <2>2. /\ rate * (c + 1) = rate * c + rate * 1 /\ rate * (c + 2) = rate * c + rate * 2
        /\ rate * 1 = rate /\ rate * 2 = rate + rate /\ rate * c \in Int
    BY <1>1, <2>1, Distributes
  <2>. QED
    BY <1>1, <2>1, <2>2
<1>. HIDE DEF q, c, w, at, a, b, n
<1>. DEFINE k == q - (t - r)
<1>12. k \in Int /\ rate * k = y - z
  <2>1. /\ rate * (q - (t - r)) = rate * q - rate * (t - r)
        /\ rate * q \in Int /\ rate * (t - r) \in Int
    <3>1. t - r \in Int
      OBVIOUS
    <3>. QED
      BY <1>1, <1>9, <3>1, Distributes
  <2>. QED
    BY <1>7, <1>9, <1>10, <2>1
<1>. HIDE DEF k
<1>13. rate * (c + 2) \in Int /\ -(rate * (c + 2)) < rate * k /\ rate * k < rate * (c + 2)
  <2>1. rate * (c + 1) \in Int
    BY <1>1, <1>11
  <2>. QED
    BY <1>1, <1>7, <1>10, <1>11, <1>12, <2>1
<1>14. k <= c + 1 /\ -(c + 1) <= k
  <2>. DEFINE e == c + 2
  <2>1. e \in Int /\ -k \in Int
    BY <1>11, <1>12
  <2>2. -(rate * e) < rate * k /\ rate * k < rate * e /\ rate * e \in Int /\ rate * k \in Int
    BY <1>12, <1>13
  <2>. HIDE DEF e
  <2>3. /\ rate * (e - k) = rate * e - rate * k /\ rate * (e - (-k)) = rate * e - rate * (-k)
        /\ rate * (-k) = -(rate * k)
    BY <1>1, <1>12, <2>1, Distributes
  <2>4. rate * (e - k) > 0 /\ rate * (e - (-k)) > 0 /\ e - k \in Int /\ e - (-k) \in Int
    BY <1>12, <2>1, <2>2, <2>3
  <2>5. e - k >= 0 /\ e - (-k) >= 0
    <3>1. rate * (e - k) > -rate /\ rate * (e - (-k)) > -rate
      <4>. DEFINE f == rate * (e - k)
                  g == rate * (e - (-k))
      <4>1. f \in Int /\ g \in Int /\ f > 0 /\ g > 0
        BY <1>1, <2>4
      <4>. HIDE DEF f, g
      <4>2. f > -rate /\ g > -rate
        BY <1>1, <4>1
      <4>. QED
        BY <4>2 DEF f, g
    <3>. QED
      BY <1>1, <2>4, <3>1, NotNegative
  <2>6. e - k # 0 /\ e - (-k) # 0
    <3>1. rate * 0 = 0
      BY <1>1
    <3>. QED
      BY <2>4, <3>1
  <2>. QED
    BY <1>11, <1>12, <2>4, <2>5, <2>6 DEF e
<1>15. at - t = (w - r) + k
  BY <1>2, <1>6, <1>9 DEF k
<1>16. -c - 2 <= at - t /\ at - t <= c + 2
  BY <1>2, <1>11, <1>12, <1>14, <1>15
<1>. QED
  BY <1>16 DEF InstantKept, at, c

\* What the run evaluates of reports is an instance of these.
LEMMA BoundedReportsAreRight == EveryLossIsCounted /\ EveryInstantIsKept
<1>1. ASSUME NEW s \in [1 .. 5 -> 1 .. 12], Comparably(s) PROVE LossesCounted(s)
  <2>. DEFINE n == 5
              m == 12
  <2>1. s \in [1 .. n -> 1 .. m] /\ n \in Nat /\ 0 < n /\ 1 .. m \subseteq Nat
    OBVIOUS
  <2>. HIDE DEF n, m
  <2>2. s \in [1 .. n -> Nat]
    BY <2>1
  <2>3. s \in Seq(Nat) /\ Len(s) = n
    BY <2>1, <2>2
  <2>4. s # <<>>
    BY <2>1, <2>3
  <2>. QED
    BY <1>1, <2>3, <2>4, LossesAreCounted
<1>2. ASSUME NEW epoch \in {0, 5}, NEW t \in 5 .. 90, NEW r \in 5 .. 90, NEW rate \in Rates,
             Comparable(t, r, rate)
      PROVE  InstantKept(t, r, epoch, rate)
  <2>1. t \in Int /\ r \in Nat /\ epoch \in Int /\ rate \in Nat \ {0}
    BY DEF Rates
  <2>. QED
    BY <1>2, <2>1, InstantsAreKept
<1>3. EveryLossIsCounted
  BY <1>1 DEF EveryLossIsCounted
<1>. QED
  BY <1>2, <1>3 DEF EveryInstantIsKept
=============================================================================
