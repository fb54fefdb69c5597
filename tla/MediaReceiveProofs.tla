------------------------- MODULE MediaReceiveProofs -------------------------
(***************************************************************************)
(* Streams that come, fall silent, are reaped and come back while a tick   *)
(* is in progress: for any number of them, of frames and of samples, the   *)
(* decoders in use are there, tiles and streams stay matched, no picture   *)
(* is followed by an older one, and the ring keeps the newest samples.     *)
(***************************************************************************)
EXTENDS MediaReceive, TLAPS, FiniteSetTheorems, WellFoundedInduction

Stream(m) == [announced : BOOLEAN, age : 0 .. streamTimeout + 1,
              queue : [held : SUBSET (1 .. m), last : 0 .. m]]

Deliverable(m) == [announce : BOOLEAN, frames : (SUBSET (1 .. m)) \ {{}}]

\* What is held is ahead of playout.
Ahead(q) == \A n \in q.held : q.last < n

\* What is pending is behind playout, and no stream is announced while the
\* removal of its tile is due.
RouterInv ==
    /\ Known \subseteq Ssrcs
    /\ \A s \in Known : streams[s] \in Stream(MaxFrames[s]) /\ Ahead(streams[s].queue)
    /\ Pending \subseteq Known
    /\ \A s \in Pending :
          /\ ready[s] \in Deliverable(MaxFrames[s])
          /\ \A n \in ready[s].frames : n <= streams[s].queue.last
          /\ ready[s].announce => s \in VideoSsrcs
          /\ s \in VideoSsrcs => streams[s].announced
    /\ removedVideo \subseteq VideoSsrcs
    /\ \A s \in removedVideo \cap Known : ~streams[s].announced

WindowInv ==
    /\ tiles \in Seq(VideoSsrcs \cup {Self})
    /\ Len(tiles) \in 1 .. kMaxParticipants
    /\ tiles[1] = Self /\ IsInjective(tiles)
    /\ TilesAreStreams

\* The picture in a tile is behind what its stream is still to deliver, and a
\* stream without a tile has none.
PictureInv ==
    /\ picture \in [VideoSsrcs -> Nat]
    /\ \A s \in VideoSsrcs : picture[s] <= MaxFrames[s]
    /\ \A s \in VideoSsrcs \ remoteTiles : picture[s] = NoPicture
    /\ \A s \in Announced : picture[s] <= streams[s].queue.last
    /\ \A s \in Pending \cap VideoSsrcs : \A n \in ready[s].frames : picture[s] < n

Latest(samples, all) == samples = Newest(all, Len(samples))

SpeakerInv ==
    /\ ring \in Seq(Nat \X Nat) /\ recent \in Seq(Nat \X Nat)
    /\ Len(ring) <= Len(recent) /\ Len(recent) <= kMaxRing
    /\ Latest(ring, recent)

-----------------------------------------------------------------------------
(* The least and the greatest of a set of frames. *)

LEMMA SmallestNat ==
    ASSUME NEW S \in SUBSET Nat, S # {}
    PROVE  \E x \in S : \A y \in S : x <= y
<1>1. PICK x \in S : \A y \in S : <<y, x>> \notin OpToRel(<, Nat)
  BY NatLessThanWellFounded, WFMin
<1>2. \A y \in S : ~(y < x)
  BY <1>1 DEF OpToRel
<1>. QED
  BY <1>2

LEMMA MinIsLeast ==
    ASSUME NEW S \in SUBSET Nat, S # {}
    PROVE  Min(S) \in S /\ \A y \in S : Min(S) <= y
BY SmallestNat DEF Min

LEMMA MaxIsGreatest ==
    ASSUME NEW m \in Nat, NEW S \in SUBSET (1 .. m), S # {}
    PROVE  Max(S) \in S /\ \A y \in S : y <= Max(S)
<1>. DEFINE T == {m - x : x \in S}
<1>1. T \in SUBSET Nat /\ T # {}
  <2>1. \A x \in S : x \in Nat /\ m - x \in Nat
    OBVIOUS
  <2>. QED
    BY <2>1
<1>2. PICK d \in T : \A y \in T : d <= y
  BY <1>1, SmallestNat
<1>3. PICK x \in S : d = m - x
  BY <1>2
<1>4. \A y \in S : m - x <= m - y
  BY <1>2, <1>3
<1>5. \A y \in S : y <= x
  BY <1>4
<1>. QED
  BY <1>5 DEF Max

-----------------------------------------------------------------------------
(* The newest of a sequence of samples. *)

LEMMA NewestIsSuffix ==
    ASSUME NEW S, NEW s \in Seq(S), NEW k \in Nat
    PROVE  LET t == Newest(s, k)
           IN  /\ t \in Seq(S)
               /\ Len(t) = IF Len(s) > k THEN k ELSE Len(s)
               /\ \A i \in 1 .. Len(t) : t[i] = s[Len(s) - Len(t) + i]
<1>1. CASE Len(s) > k
  BY <1>1 DEF Newest
<1>2. CASE ~(Len(s) > k)
  BY <1>2 DEF Newest
<1>. QED
  BY <1>1, <1>2

\* The newest of what was already the newest, with more behind it, is the
\* newest of everything.
LEMMA NewestOfNewest ==
    ASSUME NEW S, NEW all \in Seq(S), NEW s \in Seq(S), NEW d \in Seq(S),
           NEW max \in Nat, Len(d) <= max,
           Len(s) <= Len(all), Latest(s, all)
    PROVE  LET t == Newest(s, max - Len(d)) \o d
               new == Newest(all \o d, max)
           IN  /\ t \in Seq(S) /\ new \in Seq(S)
               /\ Len(t) <= Len(new) /\ Len(new) <= max
               /\ Latest(t, new)
<1>. DEFINE kept == Newest(s, max - Len(d))
            t == kept \o d
            cat == all \o d
            new == Newest(cat, max)
            end == Newest(new, Len(t))
<1>1. /\ kept \in Seq(S) /\ Len(kept) = IF Len(s) > max - Len(d) THEN max - Len(d) ELSE Len(s)
      /\ \A i \in 1 .. Len(kept) : kept[i] = s[Len(s) - Len(kept) + i]
  BY NewestIsSuffix
<1>2. \A i \in 1 .. Len(s) : s[i] = all[Len(all) - Len(s) + i]
  <2>. DEFINE u == Newest(all, Len(s))
  <2>1. \A i \in 1 .. Len(u) : u[i] = all[Len(all) - Len(u) + i]
    BY NewestIsSuffix
  <2>. QED
    BY <2>1 DEF Latest
<1>3. /\ t \in Seq(S) /\ Len(t) = Len(kept) + Len(d)
      /\ \A i \in 1 .. Len(kept) : t[i] = kept[i]
      /\ \A i \in 1 .. Len(d) : t[Len(kept) + i] = d[i]
  BY <1>1
<1>4. /\ cat \in Seq(S) /\ Len(cat) = Len(all) + Len(d)
      /\ \A i \in 1 .. Len(all) : cat[i] = all[i]
      /\ \A i \in 1 .. Len(d) : cat[Len(all) + i] = d[i]
  OBVIOUS
<1>5. /\ new \in Seq(S) /\ Len(new) = IF Len(cat) > max THEN max ELSE Len(cat)
      /\ \A i \in 1 .. Len(new) : new[i] = cat[Len(cat) - Len(new) + i]
  BY <1>4, NewestIsSuffix
<1>. HIDE DEF kept, t, cat, new
<1>6. Len(t) <= Len(new) /\ Len(new) <= max
  BY <1>1, <1>3, <1>4, <1>5
<1>7. /\ end \in Seq(S) /\ Len(end) = Len(t)
      /\ \A i \in 1 .. Len(end) : end[i] = new[Len(new) - Len(end) + i]
  <2>1. Len(t) \in Nat /\ Len(new) \in Nat
    BY <1>3, <1>5
  <2>2. /\ end \in Seq(S)
        /\ Len(end) = IF Len(new) > Len(t) THEN Len(t) ELSE Len(new)
        /\ \A i \in 1 .. Len(end) : end[i] = new[Len(new) - Len(end) + i]
    BY <1>5, <2>1, NewestIsSuffix
  <2>3. Len(end) = Len(t)
    BY <1>6, <2>1, <2>2
  <2>. QED
    BY <2>2, <2>3
<1>. HIDE DEF end
<1>8. ASSUME NEW i \in 1 .. Len(t) PROVE t[i] = end[i]
  <2>1. Len(new) - Len(t) + i \in 1 .. Len(new)
    BY <1>3, <1>5, <1>6
  <2>2. end[i] = new[Len(new) - Len(t) + i]
    BY <1>7
  <2>3. new[Len(new) - Len(t) + i] = cat[Len(cat) - Len(new) + (Len(new) - Len(t) + i)]
    BY <1>5, <2>1
  <2>4. end[i] = cat[Len(cat) - Len(t) + i]
    <3>1. Len(cat) \in Nat /\ Len(new) \in Nat /\ Len(t) \in Nat
      BY <1>3, <1>4, <1>5
    <3>2. Len(cat) - Len(new) + (Len(new) - Len(t) + i) = Len(cat) - Len(t) + i
      BY <3>1
    <3>. QED
      BY <2>2, <2>3, <3>2
  <2>5. CASE i <= Len(kept)
    <3>1. t[i] = kept[i] /\ kept[i] = s[Len(s) - Len(kept) + i]
      <4>1. i \in 1 .. Len(kept)
        BY <1>1, <2>5
      <4>. QED
        BY <1>1, <1>3, <4>1
    <3>2. Len(s) - Len(kept) + i \in 1 .. Len(s)
      BY <1>1, <2>5
    <3>3. s[Len(s) - Len(kept) + i] = all[Len(all) - Len(s) + (Len(s) - Len(kept) + i)]
      BY <1>2, <3>2
    <3>4. s[Len(s) - Len(kept) + i] = all[Len(all) - Len(kept) + i]
      <4>1. Len(s) \in Nat /\ Len(all) \in Nat /\ Len(kept) \in Nat
        BY <1>1
      <4>2. Len(all) - Len(s) + (Len(s) - Len(kept) + i) = Len(all) - Len(kept) + i
        BY <4>1
      <4>. QED
        BY <3>3, <4>2
    <3>5. Len(all) - Len(kept) + i \in 1 .. Len(all)
      BY <1>1, <2>5
    <3>6. Len(cat) - Len(t) + i = Len(all) - Len(kept) + i
      BY <1>1, <1>3, <1>4
    <3>. QED
      BY <1>4, <2>4, <3>1, <3>4, <3>5, <3>6
  <2>6. CASE ~(i <= Len(kept))
    <3>1. i - Len(kept) \in 1 .. Len(d) /\ Len(kept) + (i - Len(kept)) = i
      BY <1>1, <1>3, <2>6
    <3>2. t[i] = d[i - Len(kept)]
      BY <1>3, <3>1
    <3>3. Len(cat) - Len(t) + i = Len(all) + (i - Len(kept))
      BY <1>1, <1>3, <1>4
    <3>4. cat[Len(all) + (i - Len(kept))] = d[i - Len(kept)]
      BY <1>4, <3>1
    <3>. QED
      BY <2>4, <3>2, <3>3, <3>4
  <2>. QED
    BY <2>5, <2>6
<1>9. t = end
  BY <1>3, <1>7, <1>8
<1>. QED
  BY <1>3, <1>5, <1>6, <1>9 DEF t, kept, new, cat, end, Latest

LEMMA Rest ==
    ASSUME NEW S, NEW s \in Seq(S), NEW n \in Nat
    PROVE  LET t == SubSeq(s, n + 1, Len(s))
           IN  /\ t \in Seq(S) /\ Len(t) = IF Len(s) > n THEN Len(s) - n ELSE 0
               /\ \A i \in 1 .. Len(t) : t[i] = s[n + i]
<1>1. CASE Len(s) > n
  BY <1>1
<1>2. CASE ~(Len(s) > n)
  BY <1>2
<1>. QED
  BY <1>1, <1>2

\* What is left when some of the oldest are taken is still the newest.
LEMMA NewestIsLeft ==
    ASSUME NEW S, NEW all \in Seq(S), NEW s \in Seq(S), NEW n \in Nat,
           Len(s) <= Len(all), Latest(s, all)
    PROVE  LET t == SubSeq(s, n + 1, Len(s))
           IN  t \in Seq(S) /\ Len(t) <= Len(all) /\ Latest(t, all)
<1>. DEFINE t == SubSeq(s, n + 1, Len(s))
            end == Newest(all, Len(t))
<1>1. \A i \in 1 .. Len(s) : s[i] = all[Len(all) - Len(s) + i]
  <2>. DEFINE u == Newest(all, Len(s))
  <2>1. \A i \in 1 .. Len(u) : u[i] = all[Len(all) - Len(u) + i]
    BY NewestIsSuffix
  <2>. QED
    BY <2>1 DEF Latest
<1>2. /\ t \in Seq(S) /\ Len(t) = IF Len(s) > n THEN Len(s) - n ELSE 0
      /\ \A i \in 1 .. Len(t) : t[i] = s[n + i]
  BY Rest
<1>. HIDE DEF t
<1>3. Len(t) \in Nat /\ Len(t) <= Len(all)
  BY <1>2
<1>4. /\ end \in Seq(S) /\ Len(end) = Len(t)
      /\ \A i \in 1 .. Len(end) : end[i] = all[Len(all) - Len(end) + i]
  BY <1>3, NewestIsSuffix
<1>. HIDE DEF end
<1>5. ASSUME NEW i \in 1 .. Len(t) PROVE t[i] = end[i]
  <2>1. t[i] = s[n + i] /\ n + i \in 1 .. Len(s) /\ Len(t) = Len(s) - n
    BY <1>2
  <2>2. s[n + i] = all[Len(all) - Len(s) + (n + i)]
    BY <1>1, <2>1
  <2>3. Len(all) - Len(s) + (n + i) = Len(all) - Len(t) + i
    BY <2>1
  <2>. QED
    BY <1>4, <2>1, <2>2, <2>3
<1>6. t = end
  BY <1>2, <1>4, <1>5
<1>. QED
  BY <1>2, <1>3, <1>6 DEF t, end, Latest
-----------------------------------------------------------------------------
(* The grid of the window. *)

LEMMA DivMod ==
    ASSUME NEW c \in Nat \ {0}, NEW a \in Nat
    PROVE  /\ a \div c \in Nat /\ a % c \in 0 .. c - 1
           /\ a = c * (a \div c) + (a % c)
OBVIOUS

LEMMA Rectangle ==
    ASSUME NEW n \in 1 .. 8
    PROVE  /\ Cols(n) \in Nat \ {0} /\ Rows(n) \in 1 .. 2
           /\ Cols(n) * (Rows(n) - 1) < n /\ n <= Cols(n) * Rows(n)
<1>. USE DEF Cols, Rows
<1>1. CASE n = 1
  BY <1>1
<1>5. CASE n = 2
  BY <1>5
<1>2. CASE n \in 3 .. 4
  <2>1. Cols(n) = 2 /\ Rows(n) = 2
    BY <1>2
  <2>. QED
    BY <1>2, <2>1
<1>3. CASE n \in 5 .. 6
  BY <1>3
<1>4. CASE n \in 7 .. 8
  BY <1>4
<1>. QED
  BY <1>1, <1>2, <1>3, <1>4, <1>5

LEMMA CellsAreDistinct ==
    ASSUME NEW n \in 1 .. 8
    PROVE  Cardinality({Cell(n, i) : i \in 1 .. n}) = n
<1>. DEFINE cells == {Cell(n, i) : i \in 1 .. n}
            f == [i \in 1 .. n |-> Cell(n, i)]
<1>1. ASSUME NEW i \in 1 .. n, NEW j \in 1 .. n, Cell(n, i) = Cell(n, j) PROVE i = j
  <2>. DEFINE c == Cols(n)
  <2>1. c \in Nat \ {0} /\ i - 1 \in Nat /\ j - 1 \in Nat
    BY Rectangle
  <2>. HIDE DEF c
  <2>2. (i - 1) \div c = (j - 1) \div c /\ (i - 1) % c = (j - 1) % c
    BY <1>1 DEF Cell, c
  <2>3. /\ i - 1 = c * ((i - 1) \div c) + ((i - 1) % c)
        /\ j - 1 = c * ((j - 1) \div c) + ((j - 1) % c)
    BY <2>1, DivMod
  <2>4. i - 1 = j - 1
    BY <2>2, <2>3
  <2>. QED
    BY <2>4
<1>2. f \in Bijection(1 .. n, cells)
  BY <1>1 DEF Bijection, Injection, Surjection, IsInjective
<1>3. IsFiniteSet(1 .. n) /\ Cardinality(1 .. n) = n
  <2>1. 1 \in Int /\ n \in Int /\ n - 1 + 1 = n /\ ~(1 > n)
    OBVIOUS
  <2>. QED
    BY <2>1, FS_Interval
<1>. QED
  BY <1>2, <1>3, FS_Bijection DEF ExistsBijection

LEMMA CellsFillRows ==
    ASSUME NEW n \in 1 .. 8
    PROVE  LET cells == {Cell(n, i) : i \in 1 .. n}
           IN  /\ {cell[1] : cell \in cells} = 0 .. Rows(n) - 1
               /\ \A cell \in cells : cell[2] < Cols(n)
<1>. DEFINE cells == {Cell(n, i) : i \in 1 .. n}
            c == Cols(n)
<1>1. c \in Nat \ {0} /\ Rows(n) \in 1 .. 2 /\ c * (Rows(n) - 1) < n /\ n <= c * Rows(n)
  BY Rectangle
<1>2. \A i \in 1 .. n : Cell(n, i)[1] = (i - 1) \div c /\ Cell(n, i)[2] = (i - 1) % c
  BY DEF Cell
<1>. HIDE DEF c
<1>3. ASSUME NEW i \in 1 .. n
      PROVE  Cell(n, i)[1] \in 0 .. Rows(n) - 1 /\ Cell(n, i)[2] < c
  <2>. i - 1 \in Nat
    OBVIOUS
  <2>1. /\ (i - 1) \div c \in Nat /\ (i - 1) % c \in 0 .. c - 1
        /\ i - 1 = c * ((i - 1) \div c) + ((i - 1) % c)
    BY <1>1, DivMod
  <2>2. CASE Rows(n) = 1
    <3>1. c * Rows(n) = c
      BY <1>1, <2>2
    <3>2. (i - 1) \div c < 1
      <4>1. SUFFICES ASSUME (i - 1) \div c >= 1 PROVE FALSE
        BY <2>1
      <4>2. c * ((i - 1) \div c) >= c
        BY <1>1, <2>1, <4>1
      <4>. QED
        BY <1>1, <2>1, <3>1, <4>2
    <3>. QED
      BY <1>1, <1>2, <2>1, <2>2, <3>2
  <2>3. CASE Rows(n) = 2
    <3>1. c * Rows(n) = c + c
      BY <1>1, <2>3
    <3>2. (i - 1) \div c < 2
      <4>1. SUFFICES ASSUME (i - 1) \div c >= 2 PROVE FALSE
        BY <2>1
      <4>2. c * ((i - 1) \div c) >= c + c
        BY <1>1, <2>1, <4>1
      <4>. QED
        BY <1>1, <2>1, <3>1, <4>2
    <3>. QED
      BY <1>1, <1>2, <2>1, <2>3, <3>2
  <2>. QED
    BY <1>1, <2>2, <2>3
<1>4. ASSUME NEW r \in 0 .. Rows(n) - 1 PROVE \E i \in 1 .. n : Cell(n, i)[1] = r
  <2>1. r = 0 \/ (r = 1 /\ Rows(n) = 2)
    BY <1>1
  <2>2. CASE r = 0
    BY <1>1, <1>2, <2>2
  <2>3. CASE r = 1 /\ Rows(n) = 2
    <3>1. c < n /\ c + 1 \in 1 .. n
      BY <1>1, <2>3
    <3>2. (c + 1) - 1 = c /\ c \div c = 1
      BY <1>1
    <3>3. Cell(n, c + 1)[1] = 1
      BY <1>2, <3>1, <3>2
    <3>. QED
      BY <2>3, <3>1, <3>3
  <2>. QED
    BY <2>1, <2>2, <2>3
<1>5. {cell[1] : cell \in cells} = 0 .. Rows(n) - 1
  BY <1>3, <1>4
<1>6. \A cell \in cells : cell[2] < c
  BY <1>3
<1>. QED
  BY <1>5, <1>6 DEF c

LEMMA WindowHasCells == WindowInv => TilesHaveCells
<1>. SUFFICES ASSUME WindowInv PROVE TilesHaveCells
  OBVIOUS
<1>1. \A n \in Len(tiles) .. 8 : n \in 1 .. 8
  BY MediaReceiveAssumption DEF WindowInv
<1>. QED
  BY <1>1, CellsAreDistinct, CellsFillRows DEF TilesHaveCells

-----------------------------------------------------------------------------
(* The row of tiles. *)

LEMMA BehindFirst ==
    ASSUME NEW S, NEW t \in Seq(S), Len(t) >= 1
    PROVE  /\ ToSet(Tail(t)) = {t[j] : j \in 2 .. Len(t)}
           /\ ToSet(t) = {t[1]} \cup ToSet(Tail(t))
<1>1. /\ Tail(t) \in Seq(S) /\ Len(Tail(t)) = Len(t) - 1
      /\ \A j \in 1 .. Len(t) - 1 : Tail(t)[j] = t[j + 1]
  OBVIOUS
<1>2. \A x : x \in ToSet(Tail(t)) <=> \E j \in 1 .. Len(t) - 1 : t[j + 1] = x
  <2>1. DOMAIN Tail(t) = 1 .. Len(t) - 1
    BY <1>1
  <2>2. ToSet(Tail(t)) = {Tail(t)[j] : j \in 1 .. Len(t) - 1}
    BY <2>1 DEF ToSet
  <2>. QED
    BY <1>1, <2>2
<1>3. ASSUME NEW j \in 2 .. Len(t) PROVE t[j] \in ToSet(Tail(t))
  <2>1. j - 1 \in 1 .. Len(t) - 1 /\ (j - 1) + 1 = j
    OBVIOUS
  <2>. QED
    BY <1>2, <2>1
<1>4. ToSet(Tail(t)) = {t[j] : j \in 2 .. Len(t)}
  BY <1>2, <1>3
<1>5. ToSet(t) = {t[j] : j \in 1 .. Len(t)}
  BY DEF ToSet
<1>. QED
  BY <1>4, <1>5

LEMMA TileAdded ==
    ASSUME NEW S, NEW t \in Seq(S), Len(t) >= 1, NEW s \in S, s \notin ToSet(t), IsInjective(t)
    PROVE  LET u == Append(t, s)
           IN  /\ u \in Seq(S) /\ Len(u) = Len(t) + 1 /\ u[1] = t[1] /\ IsInjective(u)
               /\ ToSet(Tail(u)) = ToSet(Tail(t)) \cup {s}
<1>. DEFINE u == Append(t, s)
<1>1. /\ u \in Seq(S) /\ Len(u) = Len(t) + 1 /\ u[Len(t) + 1] = s
      /\ \A j \in 1 .. Len(t) : u[j] = t[j]
  OBVIOUS
<1>2. \A j \in 1 .. Len(t) : t[j] # s
  BY DEF ToSet
<1>. HIDE DEF u
<1>3. IsInjective(u)
  BY <1>1, <1>2 DEF IsInjective
<1>4. /\ ToSet(Tail(u)) = {u[j] : j \in 2 .. Len(u)}
      /\ ToSet(Tail(t)) = {t[j] : j \in 2 .. Len(t)}
  BY <1>1, BehindFirst
<1>5. {u[j] : j \in 2 .. Len(u)} = {t[j] : j \in 2 .. Len(t)} \cup {s}
  BY <1>1
<1>. QED
  BY <1>1, <1>3, <1>4, <1>5 DEF u

LEMMA Concatenated ==
    ASSUME NEW S, NEW a \in Seq(S), NEW b \in Seq(S)
    PROVE  /\ a \o b \in Seq(S) /\ Len(a \o b) = Len(a) + Len(b)
           /\ \A j \in 1 .. Len(a) : (a \o b)[j] = a[j]
           /\ \A j \in 1 .. Len(b) : (a \o b)[Len(a) + j] = b[j]
OBVIOUS

LEMMA TileRemoved ==
    ASSUME NEW S, NEW t \in Seq(S), NEW i \in 2 .. Len(t), IsInjective(t)
    PROVE  LET u == RemoveAt(t, i)
           IN  /\ u \in Seq(S) /\ Len(u) = Len(t) - 1 /\ u[1] = t[1] /\ IsInjective(u)
               /\ ToSet(Tail(u)) = ToSet(Tail(t)) \ {t[i]}
<1>. DEFINE u == RemoveAt(t, i)
            a == SubSeq(t, 1, i - 1)
            b == SubSeq(t, i + 1, Len(t))
<1>1. /\ a \in Seq(S) /\ Len(a) = i - 1 /\ \A j \in 1 .. i - 1 : a[j] = t[j]
  OBVIOUS
<1>2. /\ b \in Seq(S) /\ Len(b) = Len(t) - i
      /\ \A j \in 1 .. Len(t) - i : b[j] = t[i + j]
  OBVIOUS
<1>3. u = a \o b
  BY DEF RemoveAt
<1>. HIDE DEF a, b, u
<1>4. /\ u \in Seq(S) /\ Len(u) = Len(t) - 1
      /\ \A j \in 1 .. i - 1 : u[j] = a[j]
      /\ \A j \in 1 .. Len(t) - i : u[(i - 1) + j] = b[j]
  <2>1. /\ u \in Seq(S) /\ Len(u) = Len(a) + Len(b)
        /\ \A j \in 1 .. Len(a) : u[j] = a[j]
        /\ \A j \in 1 .. Len(b) : u[Len(a) + j] = b[j]
    <3>1. a \in Seq(S) /\ b \in Seq(S)
      BY <1>1, <1>2
    <3>2. /\ a \o b \in Seq(S) /\ Len(a \o b) = Len(a) + Len(b)
          /\ \A j \in 1 .. Len(a) : (a \o b)[j] = a[j]
          /\ \A j \in 1 .. Len(b) : (a \o b)[Len(a) + j] = b[j]
      BY <3>1, Concatenated
    <3>. QED
      BY <1>3, <3>2
  <2>. QED
    BY <1>1, <1>2, <2>1
<1>5. ASSUME NEW j \in 1 .. Len(u) PROVE u[j] = IF j < i THEN t[j] ELSE t[j + 1]
  <2>1. CASE j < i
    BY <1>1, <1>4, <2>1
  <2>2. CASE ~(j < i)
    <3>1. j - (i - 1) \in 1 .. Len(t) - i /\ (i - 1) + (j - (i - 1)) = j
          /\ i + (j - (i - 1)) = j + 1
      BY <1>4, <2>2
    <3>2. u[j] = b[j - (i - 1)] /\ b[j - (i - 1)] = t[j + 1]
      BY <1>2, <1>4, <3>1
    <3>. QED
      BY <2>2, <3>2
  <2>. QED
    BY <2>1, <2>2
<1>6. ASSUME NEW j \in 1 .. Len(u), NEW k \in 1 .. Len(u), u[j] = u[k] PROVE j = k
  <2>. DEFINE old(l) == IF l < i THEN l ELSE l + 1
  <2>1. /\ old(j) \in 1 .. Len(t) /\ old(k) \in 1 .. Len(t)
        /\ old(j) = old(k) => j = k
    BY <1>4
  <2>2. t[old(j)] = u[j] /\ t[old(k)] = u[k]
    BY <1>5
  <2>. HIDE DEF old
  <2>3. old(j) = old(k)
    BY <1>6, <2>1, <2>2 DEF IsInjective
  <2>. QED
    BY <2>1, <2>3
<1>7. IsInjective(u)
  BY <1>4, <1>6 DEF IsInjective
<1>8. u[1] = t[1]
  BY <1>4, <1>5
<1>9. ASSUME NEW j \in 2 .. Len(t), j # i PROVE \E k \in 2 .. Len(u) : u[k] = t[j]
  <2>1. CASE j < i
    BY <1>4, <1>5, <2>1
  <2>2. CASE j > i
    <3>1. j - 1 \in 2 .. Len(u) /\ ~(j - 1 < i) /\ (j - 1) + 1 = j
      BY <1>4, <2>2
    <3>2. u[j - 1] = t[j]
      <4>1. j - 1 \in 1 .. Len(u)
        BY <3>1
      <4>. QED
        BY <1>5, <3>1, <4>1
    <3>. QED
      BY <3>1, <3>2
  <2>. QED
    BY <1>9, <2>1, <2>2
<1>10. ASSUME NEW k \in 2 .. Len(u) PROVE \E j \in 2 .. Len(t) : j # i /\ u[k] = t[j]
  <2>1. CASE k < i
    BY <1>4, <1>5, <2>1
  <2>2. CASE ~(k < i)
    <3>1. k + 1 \in 2 .. Len(t) /\ k + 1 # i
      BY <1>4, <2>2
    <3>. QED
      BY <1>5, <2>2, <3>1
  <2>. QED
    BY <2>1, <2>2
<1>11. \A j \in 2 .. Len(t) : j # i => t[j] # t[i]
  BY DEF IsInjective
<1>12. Len(u) >= 1 /\ Len(t) >= 1
  BY <1>4
<1>13. /\ ToSet(Tail(u)) = {u[j] : j \in 2 .. Len(u)}
       /\ ToSet(Tail(t)) = {t[j] : j \in 2 .. Len(t)}
  BY <1>4, <1>12, BehindFirst
<1>14. {u[j] : j \in 2 .. Len(u)} = {t[j] : j \in 2 .. Len(t)} \ {t[i]}
  <2>1. \A x : x \in {t[j] : j \in 2 .. Len(t)} \ {t[i]} <=>
               \E j \in 2 .. Len(t) : j # i /\ x = t[j]
    BY <1>11
  <2>2. \A x : x \in {u[j] : j \in 2 .. Len(u)} <=>
               \E j \in 2 .. Len(t) : j # i /\ x = t[j]
    <3>1. ASSUME NEW j \in 2 .. Len(t), j # i PROVE t[j] \in {u[k] : k \in 2 .. Len(u)}
      BY <1>9, <3>1
    <3>2. \A k \in 2 .. Len(u) : \E j \in 2 .. Len(t) : j # i /\ u[k] = t[j]
      BY <1>10
    <3>. QED
      BY <3>1, <3>2
  <2>. QED
    BY <2>1, <2>2
<1>. QED
  BY <1>4, <1>7, <1>8, <1>13, <1>14 DEF u

-----------------------------------------------------------------------------
(* The streams and what is pending of them. *)

LEMMA Numbers ==
    /\ \A s \in Ssrcs : s \in Nat /\ s # Self /\ MaxFrames[s] \in Nat
    /\ VideoSsrcs \subseteq Ssrcs /\ AudioSsrcs \subseteq Ssrcs
    /\ \A s \in AudioSsrcs : s \notin VideoSsrcs
BY MediaReceiveAssumption DEF Ssrcs

LEMMA FrontIsPending ==
    ASSUME RouterInv, Pending # {}
    PROVE  /\ FrontStream \in Pending /\ FrontStream \in Known /\ FrontStream \in Ssrcs
           /\ FrontFrame \in ready[FrontStream].frames /\ FrontFrame \in Nat \ {0}
           /\ FrontFrame <= MaxFrames[FrontStream]
           /\ \A n \in ready[FrontStream].frames : n \in Nat /\ FrontFrame <= n
<1>1. Pending \in SUBSET Nat
  BY Numbers DEF RouterInv
<1>2. FrontStream \in Pending
  BY <1>1, MinIsLeast DEF FrontStream
<1>3. FrontStream \in Known /\ FrontStream \in Ssrcs
  BY <1>2 DEF RouterInv
<1>. DEFINE m == MaxFrames[FrontStream]
            frames == ready[FrontStream].frames
<1>4. m \in Nat
  BY <1>3, Numbers
<1>5. frames \in SUBSET (1 .. m) /\ frames # {}
  <2>1. ready[FrontStream] \in Deliverable(m)
    BY <1>2 DEF RouterInv
  <2>2. ready[FrontStream].frames \in (SUBSET (1 .. m)) \ {{}}
    <3>. HIDE DEF m
    <3>. QED
      BY <2>1 DEF Deliverable
  <2>. QED
    BY <2>2
<1>. HIDE DEF m, frames
<1>6. frames \in SUBSET Nat
  BY <1>4, <1>5
<1>7. Min(frames) \in frames /\ \A n \in frames : Min(frames) <= n
  BY <1>5, <1>6, MinIsLeast
<1>. QED
  BY <1>2, <1>3, <1>4, <1>5, <1>7 DEF FrontFrame, m, frames

LEMMA PushedStream ==
    ASSUME NEW m \in Nat, NEW s \in Stream(m), Ahead(s.queue), NEW n \in 1 .. m
    PROVE  LET t == Pushed(s, n)
           IN  /\ t \in Stream(m) /\ Ahead(t.queue)
               /\ t.announced = s.announced /\ t.queue.last = s.queue.last
<1>. DEFINE q == Received(s.queue, n)
<1>1. /\ q \in [held : SUBSET (1 .. m), last : 0 .. m]
      /\ Ahead(q) /\ q.last = s.queue.last
  <2>1. CASE n > s.queue.last
    <3>1. q = [held |-> s.queue.held \cup {n}, last |-> s.queue.last]
      BY <2>1 DEF Received, Stream
    <3>. QED
      BY <2>1, <3>1 DEF Stream, Ahead
  <2>2. CASE ~(n > s.queue.last)
    BY <2>2 DEF Received, Stream
  <2>. QED
    BY <2>1, <2>2
<1>2. Pushed(s, n) = [announced |-> s.announced, age |-> 0, queue |-> q]
  <2>1. s = [announced |-> s.announced, age |-> s.age, queue |-> s.queue]
    BY DEF Stream
  <2>2. Pushed(s, n) = [s EXCEPT !.age = 0, !.queue = q]
    BY DEF Pushed
  <2>. HIDE DEF q
  <2>. QED
    BY <2>1, <2>2
<1>. HIDE DEF q
<1>3. 0 \in 0 .. streamTimeout + 1
  BY MediaReceiveAssumption
<1>. QED
  BY <1>1, <1>2, <1>3 DEF Stream

LEMMA FreshStream ==
    ASSUME NEW m \in Nat
    PROVE  /\ NewStream \in Stream(m) /\ Ahead(NewStream.queue)
           /\ ~NewStream.announced
BY MediaReceiveAssumption DEF NewStream, Stream, Ahead, EmptyQueue, NoFrame

LEMMA PoppedStream ==
    ASSUME NEW m \in Nat, NEW s \in Stream(m), Ahead(s.queue), NEW taken \in SUBSET s.queue.held
    PROVE  LET t == Popped(s, taken)
           IN  /\ t \in Stream(m) /\ Ahead(t.queue)
               /\ IF taken = {} THEN t = s ELSE t.announced
               /\ s.queue.last <= t.queue.last
               /\ \A n \in taken : s.queue.last < n /\ n <= t.queue.last
<1>1. CASE taken = {}
  BY <1>1 DEF Popped, Stream
<1>2. CASE taken # {}
  <2>. DEFINE q == Past(s.queue, Max(taken))
  <2>1. taken \in SUBSET (1 .. m) /\ s.queue.last \in 0 .. m
    BY DEF Stream
  <2>2. Max(taken) \in taken /\ \A y \in taken : y <= Max(taken)
    BY <1>2, <2>1, MaxIsGreatest
  <2>3. Max(taken) \in 1 .. m /\ s.queue.last < Max(taken)
    BY <2>1, <2>2 DEF Ahead
  <2>4. q.last = Max(taken) /\ q \in [held : SUBSET (1 .. m), last : 0 .. m] /\ Ahead(q)
    BY <2>3 DEF Past, Ahead, Stream
  <2>5. Popped(s, taken) = [announced |-> TRUE, age |-> s.age, queue |-> q]
    BY <1>2 DEF Popped, Stream
  <2>6. \A n \in taken : s.queue.last < n
    BY DEF Ahead
  <2>. HIDE DEF q
  <2>7. Popped(s, taken) \in Stream(m)
    BY <2>4, <2>5 DEF Stream
  <2>8. Popped(s, taken).announced /\ Popped(s, taken).queue = q
    BY <2>5
  <2>9. Max(taken) \in Nat /\ s.queue.last \in Nat /\ s.queue.last <= q.last
    BY <2>1, <2>3, <2>4
  <2>. HIDE DEF Popped
  <2>. QED
    BY <1>2, <2>2, <2>4, <2>6, <2>7, <2>8, <2>9
<1>. QED
  BY <1>1, <1>2

\* What a tick takes in its locked phase.
LEMMA Taken ==
    ASSUME RouterInv, NEW taken \in Takings, NEW s \in Known
    PROVE  /\ taken[s] \in SUBSET streams[s].queue.held
           /\ Expired(s) => taken[s] = {}
BY DEF Takings

LEMMA DeliveredRest ==
    ASSUME RouterInv, Pending # {}, Delivered
    PROVE  /\ Pending' \subseteq Pending
           /\ \A s \in Pending \ {FrontStream} : s \in Pending' /\ ready'[s] = ready[s]
           /\ FrontStream \in Pending' =>
                 /\ ready'[FrontStream].announce = ready[FrontStream].announce
                 /\ ready'[FrontStream].frames = ready[FrontStream].frames \ {FrontFrame}
           /\ \A s \in Pending' : ready'[s] \in Deliverable(MaxFrames[s])
<1>. DEFINE left == ready[FrontStream].frames \ {FrontFrame}
<1>1. \A s \in Pending : ready[s] \in Deliverable(MaxFrames[s])
  BY DEF RouterInv
<1>2. FrontStream \in Pending
  BY FrontIsPending
<1>3. CASE left = {}
  <2>1. ready' = [s \in Pending \ {FrontStream} |-> ready[s]]
    BY <1>3 DEF Delivered
  <2>2. Pending' = Pending \ {FrontStream}
    BY <2>1 DEF Pending
  <2>. QED
    BY <1>1, <2>1, <2>2
<1>4. CASE left # {}
  <2>1. ready' = [ready EXCEPT ![FrontStream].frames = left]
    BY <1>4 DEF Delivered
  <2>2. Pending' = Pending
    BY <2>1 DEF Pending
  <2>3. \A s \in Pending \ {FrontStream} : ready'[s] = ready[s]
    BY <2>1 DEF Pending
  <2>4. ready'[FrontStream] = [ready[FrontStream] EXCEPT !.frames = left]
    BY <1>2, <2>1 DEF Pending
  <2>5. ready[FrontStream] \in Deliverable(MaxFrames[FrontStream])
    BY <1>1, <1>2
  <2>6. ready'[FrontStream] = [announce |-> ready[FrontStream].announce, frames |-> left]
    BY <2>4, <2>5 DEF Deliverable
  <2>7. ready'[FrontStream] \in Deliverable(MaxFrames[FrontStream])
    BY <1>4, <2>5, <2>6 DEF Deliverable
  <2>. QED
    BY <1>1, <2>2, <2>3, <2>6, <2>7
<1>. QED
  BY <1>3, <1>4

-----------------------------------------------------------------------------
(* The invariant holds at first, and each step preserves it. *)

LEMMA InitInvs == Init => RouterInv /\ WindowInv /\ PictureInv /\ SpeakerInv
<1>. SUFFICES ASSUME Init PROVE RouterInv /\ WindowInv /\ PictureInv /\ SpeakerInv
  OBVIOUS
<1>1. Known = {} /\ Pending = {}
  BY DEF Init, RouterInit, Known, Pending
<1>2. RouterInv
  BY <1>1 DEF Init, RouterInit, RouterInv
<1>3. Announced = {}
  BY <1>1 DEF Announced
<1>4. WindowInv
  <2>1. tiles \in Seq(VideoSsrcs \cup {Self}) /\ Len(tiles) = 1 /\ tiles[1] = Self
    BY DEF Init, WindowInit
  <2>2. IsInjective(tiles)
    BY <2>1 DEF IsInjective
  <2>3. ToSet(Tail(tiles)) = {}
    <3>1. ToSet(Tail(tiles)) = {tiles[j] : j \in 2 .. Len(tiles)}
      BY <2>1, BehindFirst
    <3>. QED
      BY <2>1, <3>1
  <2>4. TilesAreStreams
    BY <1>3, <2>3 DEF TilesAreStreams, Init, WindowInit, RouterInit
  <2>. QED
    BY <2>1, <2>2, <2>4, MediaReceiveAssumption DEF WindowInv
<1>5. PictureInv
  <2>1. picture \in [VideoSsrcs -> Nat] /\ \A s \in VideoSsrcs : picture[s] = NoPicture
    BY DEF Init, WindowInit, NoPicture
  <2>. QED
    BY <1>1, <1>3, <2>1, Numbers DEF PictureInv, NoPicture
<1>6. SpeakerInv
  <2>1. ring = <<>> /\ recent = <<>>
    BY DEF Init, SpeakerInit
  <2>. QED
    BY <2>1, MediaReceiveAssumption DEF SpeakerInv, Latest, Newest
<1>. QED
  BY <1>2, <1>4, <1>5, <1>6

LEMMA PushRouter ==
    ASSUME RouterInv, NEW ssrc \in Ssrcs, NEW n \in 1 .. MaxFrames[ssrc], pushPacket(ssrc, n)
    PROVE  /\ RouterInv'
           /\ Known' = Known \cup {ssrc}
           /\ \A s \in Known : /\ streams'[s].announced = streams[s].announced
                               /\ streams'[s].queue.last = streams[s].queue.last
           /\ \A s \in Known' \ Known : ~streams'[s].announced
<1>. DEFINE old == IF ssrc \in Known THEN streams[ssrc] ELSE NewStream
            new == Pushed(old, n)
            m == MaxFrames[ssrc]
<1>1. m \in Nat
  BY Numbers
<1>2. old \in Stream(m) /\ Ahead(old.queue) /\ (ssrc \notin Known => ~old.announced)
  BY <1>1, FreshStream DEF RouterInv
<1>3. /\ new \in Stream(m) /\ Ahead(new.queue)
      /\ new.announced = old.announced /\ new.queue.last = old.queue.last
  <2>. HIDE DEF old
  <2>. QED
    BY <1>1, <1>2, PushedStream
<1>4. streams' = [s \in Known \cup {ssrc} |-> IF s # ssrc THEN streams[s] ELSE new]
  BY DEF pushPacket
<1>. HIDE DEF new
<1>5. /\ Known' = Known \cup {ssrc}
      /\ streams'[ssrc] = new
      /\ \A s \in Known \ {ssrc} : streams'[s] = streams[s]
  BY <1>4 DEF Known
<1>6. /\ \A s \in Known : /\ streams'[s].announced = streams[s].announced
                          /\ streams'[s].queue.last = streams[s].queue.last
      /\ \A s \in Known' \ Known : ~streams'[s].announced
  BY <1>2, <1>3, <1>5
<1>7. UNCHANGED <<ready, removedVideo>> /\ Pending' = Pending
  BY DEF pushPacket, Pending
<1>8. \A s \in Known' : streams'[s] \in Stream(MaxFrames[s]) /\ Ahead(streams'[s].queue)
  BY <1>3, <1>5 DEF RouterInv
<1>9. Known' \subseteq Ssrcs
  BY <1>5 DEF RouterInv
<1>10. \A s \in Pending' :
          /\ ready'[s] \in Deliverable(MaxFrames[s])
          /\ \A k \in ready'[s].frames : k <= streams'[s].queue.last
          /\ ready'[s].announce => s \in VideoSsrcs
          /\ s \in VideoSsrcs => streams'[s].announced
  BY <1>6, <1>7 DEF RouterInv
<1>11. \A s \in removedVideo' \cap Known' : ~streams'[s].announced
  BY <1>6, <1>7 DEF RouterInv
<1>12. RouterInv'
  BY <1>5, <1>7, <1>8, <1>9, <1>10, <1>11 DEF RouterInv
<1>. QED
  BY <1>5, <1>6, <1>12

LEMMA ClockRouter ==
    ASSUME RouterInv, Clock
    PROVE  /\ RouterInv'
           /\ Known' = Known
           /\ \A s \in Known : /\ streams'[s].announced = streams[s].announced
                               /\ streams'[s].queue = streams[s].queue
<1>1. streams' = [s \in Known |-> [streams[s] EXCEPT !.age =
                                     IF @ > streamTimeout THEN @ ELSE @ + 1]]
  BY DEF Clock
<1>2. Known' = Known
  BY <1>1 DEF Known
<1>3. ASSUME NEW s \in Known
      PROVE  /\ streams'[s] \in Stream(MaxFrames[s])
             /\ streams'[s].announced = streams[s].announced
             /\ streams'[s].queue = streams[s].queue
  <2>1. streams[s] \in Stream(MaxFrames[s])
    BY DEF RouterInv
  <2>2. streams'[s] = [streams[s] EXCEPT !.age =
                          IF streams[s].age > streamTimeout THEN streams[s].age
                          ELSE streams[s].age + 1]
    BY <1>1
  <2>3. (IF streams[s].age > streamTimeout THEN streams[s].age ELSE streams[s].age + 1)
           \in 0 .. streamTimeout + 1
    BY <2>1, MediaReceiveAssumption DEF Stream
  <2>. QED
    BY <2>1, <2>2, <2>3 DEF Stream
<1>4. UNCHANGED <<ready, removedVideo>> /\ Pending' = Pending
  BY DEF Clock, Pending
<1>5. RouterInv'
  BY <1>2, <1>3, <1>4 DEF RouterInv
<1>. QED
  BY <1>2, <1>3, <1>5

LEMMA BeginTickRouter ==
    ASSUME RouterInv, Idle, NEW taken \in Takings,
           ready' = [s \in {t \in Known : taken[t] # {}} |-> Entry(s, taken[s])],
           streams' = [s \in {t \in Known : ~Expired(t)} |-> Popped(streams[s], taken[s])],
           removedVideo' = {s \in Known \cap VideoSsrcs : Expired(s) /\ streams[s].announced}
    PROVE  /\ RouterInv'
           /\ Known' = {t \in Known : ~Expired(t)}
           /\ Pending' = {t \in Known : taken[t] # {}}
           /\ \A s \in Known' :
                 /\ IF taken[s] = {} THEN streams'[s] = streams[s] ELSE streams'[s].announced
                 /\ streams[s].queue.last <= streams'[s].queue.last
           /\ \A s \in Pending' :
                 /\ s \in Known /\ ready'[s].frames = taken[s]
                 /\ ready'[s].announce <=> s \in VideoSsrcs /\ ~streams[s].announced
                 /\ \A n \in ready'[s].frames : streams[s].queue.last < n
<1>1. /\ Known' = {t \in Known : ~Expired(t)}
      /\ Pending' = {t \in Known : taken[t] # {}}
  BY DEF Known, Pending
<1>2. \A s \in Known : /\ taken[s] \in SUBSET streams[s].queue.held
                       /\ Expired(s) => taken[s] = {}
  BY Taken
<1>3. Pending' \subseteq Known'
  BY <1>1, <1>2
<1>4. ASSUME NEW s \in Known'
      PROVE  /\ streams'[s] \in Stream(MaxFrames[s]) /\ Ahead(streams'[s].queue)
             /\ IF taken[s] = {} THEN streams'[s] = streams[s] ELSE streams'[s].announced
             /\ streams[s].queue.last <= streams'[s].queue.last
             /\ \A n \in taken[s] : streams[s].queue.last < n /\ n <= streams'[s].queue.last
  <2>1. /\ s \in Known /\ MaxFrames[s] \in Nat
        /\ streams[s] \in Stream(MaxFrames[s]) /\ Ahead(streams[s].queue)
    BY <1>1, Numbers DEF RouterInv
  <2>2. streams'[s] = Popped(streams[s], taken[s])
    BY <1>1
  <2>. QED
    BY <1>2, <2>1, <2>2, PoppedStream
<1>5. ASSUME NEW s \in Pending'
      PROVE  /\ s \in Known /\ ready'[s].frames = taken[s]
             /\ ready'[s].announce <=> s \in VideoSsrcs /\ ~streams[s].announced
             /\ ready'[s] \in Deliverable(MaxFrames[s])
             /\ \A n \in ready'[s].frames :
                   streams[s].queue.last < n /\ n <= streams'[s].queue.last
             /\ streams'[s].announced
  <2>1. s \in Known' /\ s \in Known /\ taken[s] # {}
    BY <1>1, <1>3
  <2>. DEFINE new == s \in VideoSsrcs /\ ~streams[s].announced
  <2>2. ready'[s] = [announce |-> new, frames |-> taken[s]]
    BY <1>1 DEF Entry
  <2>3. new \in BOOLEAN
    OBVIOUS
  <2>4. taken[s] \in SUBSET (1 .. MaxFrames[s])
    BY <1>2, <2>1 DEF RouterInv, Stream
  <2>. HIDE DEF new
  <2>5. ready'[s] \in Deliverable(MaxFrames[s])
    BY <2>1, <2>2, <2>3, <2>4 DEF Deliverable
  <2>6. ready'[s].announce = new /\ ready'[s].frames = taken[s]
    BY <2>2
  <2>7. ready'[s].announce <=> s \in VideoSsrcs /\ ~streams[s].announced
    BY <2>6 DEF new
  <2>. QED
    BY <1>4, <2>1, <2>5, <2>6, <2>7
<1>6. Known' \subseteq Ssrcs
  BY <1>1 DEF RouterInv
<1>7. removedVideo' \subseteq VideoSsrcs /\ removedVideo' \cap Known' = {}
  BY <1>1
<1>8. RouterInv'
  BY <1>3, <1>4, <1>5, <1>6, <1>7 DEF RouterInv
<1>. QED
  BY <1>1, <1>4, <1>5, <1>8

LEMMA DeliveredRouter ==
    ASSUME RouterInv, Pending # {}, Delivered
    PROVE  RouterInv' /\ Known' = Known
<1>1. UNCHANGED <<streams, removedVideo>> /\ Known' = Known
  BY DEF Delivered, Known
<1>2. /\ Pending' \subseteq Pending
      /\ \A s \in Pending' :
            /\ ready'[s].announce = ready[s].announce
            /\ ready'[s].frames \subseteq ready[s].frames
            /\ ready'[s] \in Deliverable(MaxFrames[s])
  BY DeliveredRest
<1>3. \A s \in Pending' : \A n \in ready'[s].frames : n \in ready[s].frames
  BY <1>2
<1>. QED
  BY <1>1, <1>2, <1>3 DEF RouterInv

LEMMA AddedRouter ==
    ASSUME RouterInv, StreamAdded
    PROVE  /\ RouterInv' /\ Known' = Known /\ Pending' = Pending
           /\ ready'[FrontStream].announce = FALSE
           /\ \A s \in Pending : /\ ready'[s].frames = ready[s].frames
                                 /\ s # FrontStream => ready'[s] = ready[s]
<1>1. /\ UNCHANGED <<streams, removedVideo>> /\ Known' = Known
      /\ ready' = [ready EXCEPT ![FrontStream].announce = FALSE]
  BY DEF StreamAdded, Known
<1>2. Pending' = Pending
  BY <1>1 DEF Pending
<1>3. \A s \in Pending \ {FrontStream} : ready'[s] = ready[s]
  BY <1>1 DEF Pending
<1>4. FrontStream \in Pending
  BY FrontIsPending DEF StreamAdded
<1>5. ready[FrontStream] \in Deliverable(MaxFrames[FrontStream])
  BY <1>4 DEF RouterInv
<1>6. ready'[FrontStream] = [ready[FrontStream] EXCEPT !.announce = FALSE]
  BY <1>1, <1>4 DEF Pending
<1>7. ready'[FrontStream] = [announce |-> FALSE, frames |-> ready[FrontStream].frames]
  BY <1>5, <1>6 DEF Deliverable
<1>8. ready'[FrontStream] \in Deliverable(MaxFrames[FrontStream])
  BY <1>5, <1>7 DEF Deliverable
<1>9. \A s \in Pending : /\ ready'[s] \in Deliverable(MaxFrames[s])
                         /\ ready'[s].frames = ready[s].frames
                         /\ ready'[s].announce => ready[s].announce
  BY <1>3, <1>7, <1>8 DEF RouterInv
<1>10. RouterInv'
  BY <1>1, <1>2, <1>9 DEF RouterInv
<1>. QED
  BY <1>1, <1>2, <1>3, <1>7, <1>9, <1>10

LEMMA RemovedRouter ==
    ASSUME RouterInv, StreamRemoved
    PROVE  /\ RouterInv' /\ UNCHANGED <<streams, ready>>
           /\ Known' = Known /\ Pending' = Pending
           /\ Min(removedVideo) \in removedVideo
<1>1. /\ UNCHANGED <<streams, ready>> /\ Known' = Known /\ Pending' = Pending
      /\ removedVideo' \subseteq removedVideo
  BY DEF StreamRemoved, Known, Pending
<1>2. removedVideo \in SUBSET Nat /\ removedVideo # {}
  BY Numbers DEF RouterInv, StreamRemoved
<1>3. RouterInv'
  BY <1>1 DEF RouterInv
<1>. QED
  BY <1>1, <1>2, <1>3, MinIsLeast

LEMMA IdleRouter ==
    ASSUME RouterInv, UNCHANGED router
    PROVE  RouterInv' /\ Known' = Known /\ Pending' = Pending /\ Announced' = Announced
BY DEF router, RouterInv, Known, Pending, Announced

LEMMA RouterStep == RouterInv /\ [Next]_vars => RouterInv'
<1>. SUFFICES ASSUME RouterInv, [Next]_vars PROVE RouterInv'
  OBVIOUS
<1>1. ASSUME NEW s \in Ssrcs, NEW n \in 1 .. MaxFrames[s], pushPacket(s, n) PROVE RouterInv'
  BY <1>1, PushRouter
<1>2. CASE Clock
  BY <1>2, ClockRouter
<1>3. CASE BeginTick
  BY <1>3, BeginTickRouter DEF BeginTick
<1>4. CASE StreamAdded
  BY <1>4, AddedRouter
<1>5. CASE VideoFrame
  BY <1>5, DeliveredRouter DEF VideoFrame
<1>6. CASE AudioFrame
  BY <1>6, DeliveredRouter DEF AudioFrame
<1>7. CASE StreamRemoved
  BY <1>7, RemovedRouter
<1>8. ASSUME NEW want \in 1 .. kMaxRing, render(want) PROVE RouterInv'
  BY <1>8, IdleRouter DEF render
<1>9. CASE UNCHANGED vars
  BY <1>9, IdleRouter DEF vars
<1>. QED
  BY <1>1, <1>2, <1>3, <1>4, <1>5, <1>6, <1>7, <1>8, <1>9 DEF Next, Tick

-----------------------------------------------------------------------------
(* Tiles are matched with streams. *)

LEMMA SameWindow ==
    ASSUME WindowInv, UNCHANGED <<tiles, remoteTiles, refused, removedVideo>>,
           Announced' = Announced
    PROVE  WindowInv'
BY DEF WindowInv, TilesAreStreams

LEMMA AddedWindow ==
    ASSUME RouterInv, WindowInv, StreamAdded
    PROVE  WindowInv'
<1>. DEFINE s == FrontStream
<1>1. /\ s \in Pending /\ s \in Known /\ ready[s].announce
      /\ UNCHANGED <<streams, removedVideo>>
  BY FrontIsPending DEF StreamAdded
<1>2. s \in VideoSsrcs /\ s # Self
  BY <1>1, Numbers DEF RouterInv
<1>3. Announced' = Announced \cup {s}
  <2>1. /\ Known' = Known /\ Pending' = Pending /\ ready'[s].announce = FALSE
        /\ \A t \in Pending : t # s => ready'[t] = ready[t]
    BY <1>1, AddedRouter
  <2>2. streams[s].announced
    BY <1>1, <1>2 DEF RouterInv
  <2>. QED
    BY <1>1, <1>2, <2>1, <2>2 DEF Announced
<1>4. s \notin Announced /\ s \notin removedVideo
  BY <1>1, <1>2 DEF Announced, RouterInv
<1>5. s \notin remoteTiles /\ s \notin refused
  BY <1>4 DEF WindowInv, TilesAreStreams
<1>6. ToSet(tiles) = {Self} \cup remoteTiles
  BY BehindFirst DEF WindowInv, TilesAreStreams
<1>7. s \notin ToSet(tiles)
  BY <1>2, <1>5, <1>6
<1>8. CASE Full
  <2>1. tiles' = tiles /\ refused' = refused \cup {s} /\ remoteTiles' = remoteTiles
    BY <1>7, <1>8 DEF StreamAdded, addParticipant
  <2>. QED
    BY <1>1, <1>3, <1>4, <1>5, <2>1 DEF WindowInv, TilesAreStreams
<1>9. CASE ~Full
  <2>1. tiles' = Append(tiles, s)
    BY <1>7, <1>9 DEF StreamAdded, addParticipant
  <2>2. /\ tiles' \in Seq(VideoSsrcs \cup {Self}) /\ Len(tiles') = Len(tiles) + 1
        /\ tiles'[1] = Self /\ IsInjective(tiles')
        /\ ToSet(Tail(tiles')) = ToSet(Tail(tiles)) \cup {s}
    BY <1>2, <1>7, <2>1, TileAdded DEF WindowInv
  <2>3. s \in ToSet(tiles')
    <3>1. ToSet(tiles') = {tiles'[1]} \cup ToSet(Tail(tiles'))
      BY <2>2, BehindFirst DEF WindowInv
    <3>. QED
      BY <2>2, <3>1
  <2>4. remoteTiles' = remoteTiles \cup {s} /\ refused' = refused
    BY <2>3 DEF StreamAdded
  <2>5. Len(tiles') \in 1 .. kMaxParticipants
    BY <1>9, <2>2, MediaReceiveAssumption DEF Full, WindowInv
  <2>. QED
    BY <1>1, <1>3, <1>4, <1>5, <2>2, <2>4, <2>5 DEF WindowInv, TilesAreStreams
<1>. QED
  BY <1>8, <1>9

LEMMA RemovedWindow ==
    ASSUME RouterInv, WindowInv, StreamRemoved
    PROVE  /\ WindowInv'
           /\ ToSet(tiles') = ToSet(tiles) \ {Min(removedVideo)}
<1>. DEFINE s == Min(removedVideo)
<1>1. /\ s \in removedVideo /\ UNCHANGED <<streams, ready>> /\ Known' = Known
      /\ removedVideo' = removedVideo \ {s} /\ Pending' = Pending
      /\ remoteTiles' = remoteTiles \ {s} /\ refused' = refused \ {s}
  BY RemovedRouter DEF StreamRemoved
<1>2. s \in VideoSsrcs /\ s # Self
  BY <1>1, Numbers DEF RouterInv
<1>3. Announced' = Announced
  BY <1>1 DEF Announced
<1>4. s \notin Announced
  BY <1>1 DEF WindowInv, TilesAreStreams
<1>5. ToSet(tiles) = {Self} \cup ToSet(Tail(tiles))
  BY BehindFirst DEF WindowInv
<1>6. CASE s \notin ToSet(tiles) /\ UNCHANGED tiles
  <2>1. s \notin remoteTiles
    BY <1>5, <1>6 DEF WindowInv, TilesAreStreams
  <2>. QED
    BY <1>1, <1>3, <1>4, <1>6, <2>1 DEF WindowInv, TilesAreStreams
<1>7. ASSUME NEW i \in DOMAIN tiles, tiles[i] = s, tiles' = RemoveAt(tiles, i)
      PROVE  /\ WindowInv'
             /\ ToSet(tiles') = ToSet(tiles) \ {s}
  <2>1. i \in 2 .. Len(tiles)
    BY <1>2, <1>7 DEF WindowInv
  <2>2. /\ tiles' \in Seq(VideoSsrcs \cup {Self}) /\ Len(tiles') = Len(tiles) - 1
        /\ tiles'[1] = Self /\ IsInjective(tiles')
        /\ ToSet(Tail(tiles')) = ToSet(Tail(tiles)) \ {s}
    BY <1>7, <2>1, TileRemoved DEF WindowInv
  <2>3. Len(tiles') \in 1 .. kMaxParticipants
    BY <2>1, <2>2, MediaReceiveAssumption DEF WindowInv
  <2>4. WindowInv'
    BY <1>1, <1>3, <1>4, <2>2, <2>3 DEF WindowInv, TilesAreStreams
  <2>5. ToSet(tiles') = {Self} \cup ToSet(Tail(tiles'))
    BY <2>2, <2>3, BehindFirst
  <2>. QED
    BY <1>2, <1>5, <2>2, <2>4, <2>5
<1>. QED
  BY <1>6, <1>7 DEF StreamRemoved, removeParticipant

LEMMA WindowStep ==
    ASSUME RouterInv, WindowInv, [Next]_vars
    PROVE  WindowInv'
<1>1. ASSUME NEW s \in Ssrcs, NEW n \in 1 .. MaxFrames[s], pushPacket(s, n) PROVE WindowInv'
  <2>1. UNCHANGED <<ready, tiles, remoteTiles, refused, removedVideo>> /\ Pending' = Pending
    BY <1>1 DEF pushPacket, window, Pending
  <2>2. Announced' = Announced
    BY <1>1, <2>1, PushRouter DEF Announced
  <2>. QED
    BY <2>1, <2>2, SameWindow
<1>2. CASE Clock
  <2>1. UNCHANGED <<ready, tiles, remoteTiles, refused, removedVideo>> /\ Pending' = Pending
    BY <1>2 DEF Clock, window, Pending
  <2>2. Announced' = Announced
    BY <1>2, <2>1, ClockRouter DEF Announced
  <2>. QED
    BY <2>1, <2>2, SameWindow
<1>3. CASE BeginTick
  <2>1. PICK taken \in Takings :
           /\ ready' = [s \in {t \in Known : taken[t] # {}} |-> Entry(s, taken[s])]
           /\ streams' = [s \in {t \in Known : ~Expired(t)} |-> Popped(streams[s], taken[s])]
    BY <1>3 DEF BeginTick
  <2>2. /\ Idle /\ UNCHANGED <<tiles, remoteTiles, refused>>
        /\ removedVideo' = {s \in Known \cap VideoSsrcs : Expired(s) /\ streams[s].announced}
    BY <1>3 DEF BeginTick, window
  <2>3. /\ Known' = {t \in Known : ~Expired(t)}
        /\ Pending' = {t \in Known : taken[t] # {}}
        /\ \A s \in Known' :
              IF taken[s] = {} THEN streams'[s] = streams[s] ELSE streams'[s].announced
        /\ \A s \in Pending' : ready'[s].announce <=> s \in VideoSsrcs /\ ~streams[s].announced
    BY <2>1, <2>2, BeginTickRouter
  <2>4. Announced = {s \in Known \cap VideoSsrcs : streams[s].announced} /\ removedVideo = {}
    BY <2>2 DEF Announced, Idle
  <2>5. Announced' = {s \in Known \cap VideoSsrcs : ~Expired(s) /\ streams[s].announced}
    BY <2>3 DEF Announced
  <2>6. Announced' \cup removedVideo' = Announced /\ Announced' \cap removedVideo' = {}
    BY <2>2, <2>4, <2>5
  <2>. QED
    BY <2>2, <2>4, <2>6 DEF WindowInv, TilesAreStreams
<1>4. CASE StreamAdded
  BY <1>4, AddedWindow
<1>5. CASE VideoFrame \/ AudioFrame
  <2>1. /\ Pending # {} /\ Delivered /\ ~ready[FrontStream].announce
        /\ UNCHANGED <<tiles, remoteTiles, refused, removedVideo, streams>>
    <3>1. CASE VideoFrame
      BY <3>1 DEF VideoFrame, Delivered
    <3>2. CASE AudioFrame
      <4>1. FrontStream \in Pending /\ FrontStream \notin VideoSsrcs
        BY <3>2, FrontIsPending, Numbers DEF AudioFrame
      <4>2. ~ready[FrontStream].announce
        BY <4>1 DEF RouterInv
      <4>. QED
        BY <3>2, <4>2 DEF AudioFrame, Delivered, window
    <3>. QED
      BY <1>5, <3>1, <3>2
  <2>2. /\ Known' = Known /\ Pending' \subseteq Pending
        /\ \A s \in Pending \ {FrontStream} : s \in Pending' /\ ready'[s] = ready[s]
        /\ FrontStream \in Pending' => ready'[FrontStream].announce = ready[FrontStream].announce
    BY <2>1, DeliveredRest, DeliveredRouter
  <2>3. {s \in Pending' : ready'[s].announce} = {s \in Pending : ready[s].announce}
    BY <2>1, <2>2
  <2>4. Announced' = Announced
    BY <2>1, <2>2, <2>3 DEF Announced
  <2>. QED
    BY <2>1, <2>4, SameWindow
<1>6. CASE StreamRemoved
  BY <1>6, RemovedWindow
<1>7. CASE (\E want \in 1 .. kMaxRing : render(want)) \/ UNCHANGED vars
  <2>1. UNCHANGED router /\ UNCHANGED window
    BY <1>7 DEF render, vars
  <2>. QED
    BY <2>1, IdleRouter, SameWindow DEF router, window
<1>. QED
  BY <1>1, <1>2, <1>3, <1>4, <1>5, <1>6, <1>7 DEF Next, Tick

-----------------------------------------------------------------------------
(* Pictures advance. *)

LEMMA Lasts ==
    ASSUME RouterInv
    PROVE  \A s \in Known : streams[s].queue.last \in Nat /\ streams[s].queue.last <= MaxFrames[s]
BY Numbers DEF RouterInv, Stream

LEMMA ShownPicture ==
    ASSUME RouterInv, WindowInv, PictureInv, VideoFrame
    PROVE  /\ PictureInv'
           /\ \A s \in VideoSsrcs : picture'[s] # picture[s] => picture'[s] > picture[s]
<1>. DEFINE s == FrontStream
            n == FrontFrame
<1>1. /\ Pending # {} /\ Delivered /\ s \in VideoSsrcs
      /\ UNCHANGED <<streams, remoteTiles, removedVideo>>
      /\ (picture' = picture \/ (s \in remoteTiles /\ picture' = [picture EXCEPT ![s] = n]))
  <2>1. PICK decoded \in decodeVideo(n) :
           picture' = IF s \in remoteTiles /\ decoded # NoPicture
                      THEN [picture EXCEPT ![s] = decoded] ELSE picture
    BY DEF VideoFrame
  <2>2. decoded = n \/ decoded = NoPicture
    BY DEF decodeVideo
  <2>3. (picture' = picture \/ (s \in remoteTiles /\ picture' = [picture EXCEPT ![s] = n]))
    <3>. HIDE DEF s, n
    <3>. QED
      BY <2>1, <2>2
  <2>. QED
    BY <2>3 DEF VideoFrame, Delivered
<1>2. /\ s \in Pending /\ s \in Known /\ n \in ready[s].frames /\ n \in Nat
      /\ n <= MaxFrames[s] /\ \A k \in ready[s].frames : k \in Nat /\ n <= k
  BY <1>1, FrontIsPending
<1>3. picture[s] < n /\ n <= streams[s].queue.last
  BY <1>1, <1>2 DEF PictureInv, RouterInv
<1>4. \A t \in VideoSsrcs : picture[t] \in Nat /\ picture'[t] \in Nat
  BY <1>1, <1>2 DEF PictureInv
<1>5. \A t \in VideoSsrcs : picture'[t] = picture[t] \/ (t = s /\ picture'[t] = n /\ t \in remoteTiles)
  BY <1>1 DEF PictureInv
<1>6. /\ Pending' \subseteq Pending /\ Known' = Known
      /\ \A t \in Pending \ {s} : t \in Pending' /\ ready'[t] = ready[t]
      /\ s \in Pending' => /\ ready'[s].announce = ready[s].announce
                           /\ ready'[s].frames = ready[s].frames \ {n}
  BY <1>1, DeliveredRest, DeliveredRouter
<1>7. Announced' = Announced
  <2>1. {t \in Pending' : ready'[t].announce} = {t \in Pending : ready[t].announce}
    BY <1>6 DEF VideoFrame
  <2>. QED
    BY <1>1, <1>6, <2>1 DEF Announced
<1>8. picture' \in [VideoSsrcs -> Nat]
  BY <1>1, <1>2 DEF PictureInv
<1>9. \A t \in VideoSsrcs : picture'[t] <= MaxFrames[t]
  BY <1>2, <1>5 DEF PictureInv
<1>10. \A t \in VideoSsrcs \ remoteTiles' : picture'[t] = NoPicture
  BY <1>1, <1>5 DEF PictureInv
<1>11. \A t \in Announced' : picture'[t] <= streams'[t].queue.last
  BY <1>1, <1>3, <1>5, <1>7 DEF PictureInv, Announced
<1>12. ASSUME NEW t \in Pending' \cap VideoSsrcs, NEW k \in ready'[t].frames
       PROVE  picture'[t] < k
  <2>1. CASE t = s
    <3>1. k \in ready[s].frames /\ k # n
      BY <1>6, <2>1
    <3>2. k \in Nat /\ n < k
      BY <1>2, <3>1
    <3>. QED
      BY <1>2, <1>3, <1>4, <1>5, <2>1, <3>2
  <2>2. CASE t # s
    BY <1>5, <1>6, <2>2 DEF PictureInv
  <2>. QED
    BY <2>1, <2>2
<1>13. PictureInv'
  BY <1>8, <1>9, <1>10, <1>11, <1>12 DEF PictureInv
<1>. QED
  BY <1>3, <1>5, <1>13

LEMMA PictureStep ==
    ASSUME RouterInv, WindowInv, PictureInv, [Next]_vars
    PROVE  PictureInv'
<1>1. ASSUME NEW s \in Ssrcs, NEW n \in 1 .. MaxFrames[s], pushPacket(s, n) PROVE PictureInv'
  <2>1. UNCHANGED <<ready, picture, remoteTiles>> /\ Pending' = Pending
    BY <1>1 DEF pushPacket, window, Pending
  <2>2. /\ Announced' = Announced
        /\ \A t \in Known : streams'[t].queue.last = streams[t].queue.last
    BY <1>1, <2>1, PushRouter DEF Announced
  <2>3. \A t \in Announced : t \in Known
    BY DEF Announced
  <2>. QED
    BY <2>1, <2>2, <2>3 DEF PictureInv
<1>2. CASE Clock
  <2>1. UNCHANGED <<ready, picture, remoteTiles>> /\ Pending' = Pending
    BY <1>2 DEF Clock, window, Pending
  <2>2. /\ Announced' = Announced
        /\ \A t \in Known : streams'[t].queue = streams[t].queue
    BY <1>2, <2>1, ClockRouter DEF Announced
  <2>3. \A t \in Announced : t \in Known
    BY DEF Announced
  <2>. QED
    BY <2>1, <2>2, <2>3 DEF PictureInv
<1>3. CASE BeginTick
  <2>1. PICK taken \in Takings :
           /\ ready' = [s \in {t \in Known : taken[t] # {}} |-> Entry(s, taken[s])]
           /\ streams' = [s \in {t \in Known : ~Expired(t)} |-> Popped(streams[s], taken[s])]
    BY <1>3 DEF BeginTick
  <2>2. /\ Idle /\ UNCHANGED <<picture, remoteTiles>>
        /\ removedVideo' = {s \in Known \cap VideoSsrcs : Expired(s) /\ streams[s].announced}
    BY <1>3 DEF BeginTick, window
  <2>3. /\ RouterInv'
        /\ Known' = {t \in Known : ~Expired(t)}
        /\ Pending' = {t \in Known : taken[t] # {}}
        /\ \A s \in Known' :
              /\ IF taken[s] = {} THEN streams'[s] = streams[s] ELSE streams'[s].announced
              /\ streams[s].queue.last <= streams'[s].queue.last
        /\ \A s \in Pending' :
              /\ ready'[s].announce <=> s \in VideoSsrcs /\ ~streams[s].announced
              /\ \A n \in ready'[s].frames : streams[s].queue.last < n
    BY <2>1, <2>2, BeginTickRouter
  <2>4. Announced = {s \in Known \cap VideoSsrcs : streams[s].announced} /\ removedVideo = {}
    BY <2>2 DEF Announced, Idle
  <2>5. Announced' \subseteq Announced /\ Announced' \subseteq Known'
    BY <2>3, <2>4 DEF Announced
  <2>6. \A s \in Known : streams[s].queue.last \in Nat
    BY Lasts
  <2>7. \A s \in Known' : streams'[s].queue.last \in Nat
    BY <2>3, Numbers DEF RouterInv, Stream
  <2>8. ASSUME NEW s \in Pending' \cap VideoSsrcs, NEW n \in ready'[s].frames
        PROVE  picture[s] < n
    <3>1. /\ s \in Known /\ streams[s].queue.last < n /\ streams[s].queue.last \in Nat
          /\ picture[s] \in Nat
      BY <2>3, <2>6 DEF PictureInv
    <3>2. n \in Nat
      BY <2>3, Numbers DEF RouterInv, Deliverable
    <3>3. picture[s] <= streams[s].queue.last
      <4>1. CASE streams[s].announced
        BY <2>4, <3>1, <4>1 DEF PictureInv
      <4>2. CASE ~streams[s].announced
        <5>1. s \notin remoteTiles
          BY <2>4, <4>2 DEF WindowInv, TilesAreStreams
        <5>. QED
          BY <3>1, <5>1 DEF PictureInv, NoPicture
      <4>. QED
        BY <4>1, <4>2
    <3>. QED
      BY <3>1, <3>2, <3>3
  <2>9. ASSUME NEW s \in Announced' PROVE picture[s] <= streams'[s].queue.last
    <3>1. /\ s \in Known' /\ s \in Known /\ s \in VideoSsrcs
          /\ picture[s] <= streams[s].queue.last
      BY <2>3, <2>4, <2>5 DEF PictureInv
    <3>2. picture[s] \in Nat /\ streams[s].queue.last <= streams'[s].queue.last
      BY <2>3, <3>1 DEF PictureInv
    <3>. QED
      BY <2>6, <2>7, <3>1, <3>2
  <2>. QED
    BY <2>2, <2>8, <2>9 DEF PictureInv
<1>4. CASE StreamAdded
  <2>. DEFINE s == FrontStream
  <2>1. /\ s \in Pending /\ s \in Known /\ ready[s].announce
        /\ \A n \in ready[s].frames : n \in Nat /\ FrontFrame <= n
        /\ UNCHANGED <<streams, picture>> /\ FrontFrame \in ready[s].frames
    BY <1>4, FrontIsPending DEF StreamAdded
  <2>2. remoteTiles \subseteq remoteTiles'
    BY <1>4 DEF StreamAdded
  <2>3. /\ Known' = Known /\ Pending' = Pending
        /\ \A t \in Pending : /\ ready'[t].frames = ready[t].frames
                              /\ t # s => ready'[t] = ready[t]
    BY <1>4, AddedRouter
  <2>4. \A t \in Announced' : t = s \/ t \in Announced
    BY <2>1, <2>3 DEF Announced
  <2>5. s \in VideoSsrcs
    BY <2>1 DEF RouterInv
  <2>6. picture[s] <= streams[s].queue.last
    <3>1. picture[s] < FrontFrame /\ FrontFrame <= streams[s].queue.last
      BY <2>1, <2>5 DEF PictureInv, RouterInv
    <3>2. picture[s] \in Nat /\ FrontFrame \in Nat /\ streams[s].queue.last \in Nat
      BY <2>1, <2>5, Lasts DEF PictureInv
    <3>. QED
      BY <3>1, <3>2
  <2>. QED
    BY <2>1, <2>2, <2>3, <2>4, <2>6 DEF PictureInv
<1>5. CASE VideoFrame
  BY <1>5, ShownPicture
<1>6. CASE AudioFrame
  <2>1. /\ Pending # {} /\ Delivered /\ FrontStream \in AudioSsrcs
        /\ UNCHANGED <<picture, remoteTiles, streams>>
    BY <1>6 DEF AudioFrame, Delivered, window
  <2>2. /\ Known' = Known /\ Pending' \subseteq Pending
        /\ \A s \in Pending \ {FrontStream} : s \in Pending' /\ ready'[s] = ready[s]
        /\ FrontStream \notin VideoSsrcs
    BY <2>1, DeliveredRest, DeliveredRouter, Numbers
  <2>3. Announced' = Announced
    BY <2>1, <2>2 DEF Announced
  <2>4. \A s \in Pending' \cap VideoSsrcs : s \in Pending /\ ready'[s] = ready[s]
    BY <2>2
  <2>. QED
    BY <2>1, <2>3, <2>4 DEF PictureInv
<1>7. CASE StreamRemoved
  <2>. DEFINE s == Min(removedVideo)
  <2>1. /\ s \in removedVideo /\ UNCHANGED <<streams, ready>>
        /\ Known' = Known /\ Pending' = Pending
    BY <1>7, RemovedRouter
  <2>2. remoteTiles' = remoteTiles \ {s} /\ picture' = [picture EXCEPT ![s] = NoPicture]
    BY <1>7 DEF StreamRemoved, removeParticipant
  <2>3. Announced' = Announced
    BY <2>1 DEF Announced
  <2>4. Pending = {}
    BY <1>7 DEF StreamRemoved
  <2>5. s \in VideoSsrcs
    BY <2>1 DEF RouterInv
  <2>6. picture' \in [VideoSsrcs -> Nat]
    BY <2>2 DEF PictureInv, NoPicture
  <2>7. \A t \in VideoSsrcs : IF t = s THEN picture'[t] = 0 ELSE picture'[t] = picture[t]
    BY <2>2 DEF PictureInv, NoPicture
  <2>8. s \notin Announced
    BY <2>1 DEF WindowInv, TilesAreStreams
  <2>9. \A t \in VideoSsrcs : picture'[t] <= MaxFrames[t]
    BY <2>7, Numbers DEF PictureInv
  <2>10. \A t \in Announced' : picture'[t] <= streams'[t].queue.last
    BY <2>1, <2>3, <2>7, <2>8 DEF PictureInv, Announced
  <2>. QED
    BY <2>1, <2>2, <2>4, <2>6, <2>7, <2>9, <2>10 DEF PictureInv, NoPicture
<1>8. CASE (\E want \in 1 .. kMaxRing : render(want)) \/ UNCHANGED vars
  <2>1. UNCHANGED router /\ UNCHANGED window
    BY <1>8 DEF render, vars
  <2>. QED
    BY <2>1, IdleRouter DEF router, window, PictureInv
<1>. QED
  BY <1>1, <1>2, <1>3, <1>4, <1>5, <1>6, <1>7, <1>8 DEF Next, Tick

-----------------------------------------------------------------------------
(* The ring is the newest that was decoded. *)

LEMMA SpeakerStep ==
    ASSUME RouterInv, SpeakerInv, [Next]_vars
    PROVE  SpeakerInv'
<1>1. CASE UNCHANGED speaker
  BY <1>1 DEF SpeakerInv, speaker, Latest, Newest
<1>2. CASE AudioFrame
  <2>1. PICK decoded \in decodeAudio(FrontFrame) :
           /\ ring' = enqueue(decoded)
           /\ recent' = Newest(recent \o decoded, kMaxRing)
    BY <1>2 DEF AudioFrame
  <2>2. FrontFrame \in Nat /\ FrameSamples \in Nat /\ FrameSamples <= kMaxRing /\ kMaxRing \in Nat
    BY <1>2, FrontIsPending, MediaReceiveAssumption DEF AudioFrame
  <2>3. decoded \in Seq(Nat \X Nat) /\ Len(decoded) <= kMaxRing
    <3>1. CASE decoded = <<>>
      BY <2>2, <3>1
    <3>2. CASE decoded = [i \in 1 .. FrameSamples |-> <<FrontFrame, i>>]
      BY <2>2, <3>2
    <3>. QED
      BY <3>1, <3>2 DEF decodeAudio
  <2>. DEFINE S == Nat \X Nat
              t == Newest(ring, kMaxRing - Len(decoded)) \o decoded
              new == Newest(recent \o decoded, kMaxRing)
  <2>4. /\ ring \in Seq(S) /\ recent \in Seq(S) /\ decoded \in Seq(S)
        /\ Len(ring) <= Len(recent) /\ Latest(ring, recent)
    BY <2>3 DEF SpeakerInv
  <2>5. ring' = t /\ recent' = new
    BY <2>1 DEF enqueue
  <2>6. /\ t \in Seq(S) /\ new \in Seq(S)
        /\ Len(t) <= Len(new) /\ Len(new) <= kMaxRing /\ Latest(t, new)
    <3>. HIDE DEF S
    <3>. QED
      BY <2>2, <2>3, <2>4, NewestOfNewest
  <2>. HIDE DEF t, new
  <2>7. Latest(ring', recent')
    BY <2>5, <2>6
  <2>. QED
    BY <2>5, <2>6, <2>7 DEF SpeakerInv, Latest
<1>3. ASSUME NEW want \in 1 .. kMaxRing, render(want) PROVE SpeakerInv'
  <2>. DEFINE t == SubSeq(ring, want + 1, Len(ring))
  <2>1. ring' = t /\ recent' = recent /\ want \in Nat
    BY <1>3 DEF render
  <2>2. t \in Seq(Nat \X Nat) /\ Len(t) <= Len(recent) /\ Latest(t, recent)
    BY <2>1, NewestIsLeft DEF SpeakerInv
  <2>. HIDE DEF t
  <2>3. Latest(ring', recent')
    BY <2>1, <2>2
  <2>. QED
    BY <2>1, <2>2, <2>3 DEF SpeakerInv, Latest
<1>. QED
  BY <1>1, <1>2, <1>3 DEF Next, Tick, pushPacket, Clock, BeginTick, StreamAdded, VideoFrame,
     StreamRemoved, vars, speaker

-----------------------------------------------------------------------------
LEMMA ReceiveInvariance == Spec => [](RouterInv /\ WindowInv /\ PictureInv /\ SpeakerInv)
BY InitInvs, RouterStep, WindowStep, PictureStep, SpeakerStep, PTL DEF Spec

\* At every moment of a tick the decoders whose raw pointers it holds are there
\* (ReceiveRouter.cpp:65), the ring keeps the newest samples (MacAudio.mm:229),
\* and each tile has a cell of its own (MainWindow.cpp:117).
THEOREM ReceiverIsSound == Spec => []ReceiveInv
<1>1. RouterInv /\ WindowInv /\ PictureInv /\ SpeakerInv => ReceiveInv
  <2>. SUFFICES ASSUME RouterInv, WindowInv, PictureInv, SpeakerInv PROVE ReceiveInv
    OBVIOUS
  <2>1. Known \subseteq Ssrcs /\ Pending \subseteq Ssrcs
    BY DEF RouterInv
  <2>2. TypeOK
    <3>1. \A s \in VideoSsrcs : picture[s] \in 0 .. MaxFrames[s]
      BY Numbers DEF PictureInv
    <3>. QED
      BY <2>1, <3>1 DEF TypeOK, RouterInv, WindowInv, Stream, Deliverable
  <2>3. Len(ring) <= kMaxRing
    BY MediaReceiveAssumption DEF SpeakerInv
  <2>4. RingIsNewest
    BY <2>3 DEF RingIsNewest, SpeakerInv, Latest
  <2>. QED
    BY <2>2, <2>4, WindowHasCells DEF ReceiveInv, DecodersOutliveTick, RouterInv
<1>. QED
  BY <1>1, ReceiveInvariance, PTL

\* The window's tiles and the announced streams are matched at every moment,
\* also when a stream comes back in the tick that reaps it.
THEOREM TilesFollowStreams == Spec => []TilesAreStreams
<1>1. WindowInv => TilesAreStreams
  BY DEF WindowInv
<1>. QED
  BY <1>1, ReceiveInvariance, PTL

\* No tile goes back to an older frame of its stream.
THEOREM PicturesNeverGoBack == Spec => PictureAdvances
<1>. DEFINE Advance == \A s \in ToSet(tiles) \cap ToSet(tiles') \cap VideoSsrcs :
                          picture'[s] # picture[s] => picture'[s] > picture[s]
<1>1. RouterInv /\ WindowInv /\ PictureInv /\ SpeakerInv /\ [Next]_vars => [Advance]_vars
  <2>. SUFFICES ASSUME RouterInv, WindowInv, PictureInv, Next PROVE Advance
    BY DEF vars
  <2>1. CASE VideoFrame
    BY <2>1, ShownPicture
  <2>2. CASE StreamRemoved
    <3>1. ToSet(tiles') = ToSet(tiles) \ {Min(removedVideo)}
      BY <2>2, RemovedWindow
    <3>2. picture' = [picture EXCEPT ![Min(removedVideo)] = NoPicture]
      BY <2>2 DEF StreamRemoved, removeParticipant
    <3>. QED
      BY <3>1, <3>2 DEF PictureInv
  <2>3. CASE UNCHANGED picture
    BY <2>3
  <2>. QED
    BY <2>1, <2>2, <2>3 DEF Next, Tick, pushPacket, Clock, BeginTick, StreamAdded, AudioFrame,
       render, window
<1>. QED
  BY <1>1, ReceiveInvariance, PTL DEF Spec, PictureAdvances
=============================================================================
